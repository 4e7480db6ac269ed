SPECIFICATION Spec
CONSTANTS
  ByteBits = 1
  WordBytes = 4
  SymRegs <- SymWordAndByte
  SymMem = {4}
  Image <- MCImage
  StackTop = 12
  Instructions <- Everything
  MaxLength = 3
INVARIANTS
  WellFormed
  ConcreteIsConstant
  StackPointerAgrees
  FragmentRegistersAgree
  FragmentMemoryAgrees
  FragmentBranchesAgree
PROPERTY
  OnlyMemoryOperandsStore
CHECK_DEADLOCK FALSE
