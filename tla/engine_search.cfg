SPECIFICATION Spec
CONSTANTS
  Inputs <- MCInputs
  Programs <- SearchPrograms
  Entry <- MCEntry
  Ops <- MCOps
  Data <- MCData
  InitData <- MCInitData
  ExecData <- MCExecData
  Throws <- MCThrows
  BranchCond <- MCBranchCond
  MaxDepth = 2
  MaxSteps = 14
  MaxStates = 5
  SolverComplete = TRUE
INVARIANTS
  Accounting
  SolverLedger
  IdsUnique
  PathsDisjoint
  NoInputLost
  EveryInputTested
  TargetSideFirst
  PendingStatesReplay
  FrontierBound
  PathsFollowGraph
  BlocksEnteredAtStart
PROPERTY
  PartitionsInputs
