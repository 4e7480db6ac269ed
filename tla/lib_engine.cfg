SPECIFICATION FairSpec
CONSTANTS
  Bits = 2
  Names = {"x", "y"}
  StackBase = 3
  Programs <- MCPrograms
  Clients <- MCClients
  Ends = {0, 7}
  StateLimits = {1, 9}
  Entry = 1
  MaxInstructions = 10
  SolverComplete = TRUE
INVARIANTS
  StatesAccounted
  Ledger
  StackPointersAgree
  StatesReplay
  DividesValuations
PROPERTIES
  FollowsGraph
  RunEnds
CHECK_DEADLOCK FALSE
