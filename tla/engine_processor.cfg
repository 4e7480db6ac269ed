SPECIFICATION Spec
CONSTANTS
  Inputs <- MCInputs
  Programs <- MCPrograms
  Entry <- MCEntry
  Ops <- MCOps
  Data <- MCData
  InitData <- MCInitData
  ExecData <- MCExecData
  Throws <- MCThrows
  BranchCond <- MCBranchCond
  MaxDepth = 2
  MaxSteps = 12
  MaxStates = 9
  SolverComplete = TRUE
  ByteBits = 1
  WordBytes = 3
  SymRegs <- MCSymRegs
  SymMem = {0}
  Image <- MCImage
  StackTop = 6
INVARIANTS
  PendingOnProcessor
  TestsOnProcessor
