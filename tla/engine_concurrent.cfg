SPECIFICATION Spec
CONSTANTS
  Inputs <- MCInputs
  Programs <- FewPrograms
  Entry <- MCEntry
  Ops <- MCOps
  Data <- MCData
  InitData <- MCInitData
  ExecData <- MCExecData
  Throws <- MCThrows
  BranchCond <- MCBranchCond
  MaxDepth = 2
  MaxSteps = 10
  MaxStates = 3
  SolverComplete = TRUE
INVARIANT
  StatesLimitIsConcurrent
