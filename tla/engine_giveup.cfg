SPECIFICATION FairSpec
CONSTANTS
  Inputs <- MCInputs
  Programs <- FewPrograms
  Entry <- MCEntry
  Ops <- MCOps
  Data <- MCData
  InitData <- MCInitData
  ExecData <- MCExecData
  Throws <- MCThrows
  BranchCond <- MCBranchCond
  MaxDepth = 2
  MaxSteps = 8
  MaxStates = 6
  SolverComplete = FALSE
INVARIANTS
  TypeOK
  TestsReplay
PROPERTIES
  PartitionsInputs
  Termination
  EveryStateReported
