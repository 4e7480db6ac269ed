SPECIFICATION TestsSpec
CONSTANTS
  Bits = 1
  Names = {"x", "y"}
  StackBase = 1
  Programs <- MCPrograms
  Clients <- MCClients
  Ends = {0, 5}
  StateLimits = {9}
  Entry = 1
  MaxInstructions = 8
  SolverComplete = TRUE
  Junk = {0, 7}
  WideInputs = {}
INVARIANT
  EveryPathTested
CHECK_DEADLOCK FALSE
