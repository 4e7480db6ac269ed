SPECIFICATION TestsSpec
CONSTANTS
  Bits = 1
  Names = {"x", "y", "w"}
  StackBase = 1
  Programs <- FewPrograms
  Clients <- WideClients
  Ends = {0, 5}
  StateLimits = {9}
  Entry = 1
  MaxInstructions = 4
  SolverComplete = FALSE
  Junk = {7}
  WideInputs = {"w"}
INVARIANTS
  TestsReach
  VerdictsFollow
CHECK_DEADLOCK FALSE
