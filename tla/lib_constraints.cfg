SPECIFICATION Spec
CONSTANTS
  Bits = 2
  Names = {"x"}
  Constraints <- MCConstraints
  MaxConstraints = 2
  MaxContexts = 2
  MaxLeftOver = 1
INVARIANTS
  SidesDivide
  AnswersFollow
PROPERTY
  ImplementsScopes
CHECK_DEADLOCK FALSE
