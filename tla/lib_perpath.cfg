SPECIFICATION Spec
CONSTANTS
  Bits = 2
  Names = {"x", "y"}
  StackBase = 3
  Programs <- MCPrograms
  Clients <- MCClients
  Ends = {0, 7}
  StateLimits = {9}
  Entry = 1
  MaxInstructions = 10
  SolverComplete = TRUE
INVARIANT
  InstructionsPerPath
CHECK_DEADLOCK FALSE
