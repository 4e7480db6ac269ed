SPECIFICATION Spec
CONSTANTS
  ByteBits = 1
  WordBytes = 4
  SymRegs <- SymHalfName
  SymMem = {4}
  Image <- MCImage
  StackTop = 12
  Instructions <- Fragment
  MaxLength = 3
INVARIANT
  SymbolicRegistersRead
CHECK_DEADLOCK FALSE
