SPECIFICATION Spec
CONSTANTS
  Word32 = 8
  Word64 = 16
  Half = 6
  Sessions <- MCSessions
INVARIANTS
  ReadsInFile
  LoadersAgree
CHECK_DEADLOCK FALSE
