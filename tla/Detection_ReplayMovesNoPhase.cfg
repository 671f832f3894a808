SPECIFICATION Spec
CONSTANTS
  Backends = {"claude"}
  Kinds = {"plan", "auto"}
  Absent = Absent
  None = None
  Mishaps = {"restart"}
  MaxMishaps = 1
  MaxLines = 2
  OperatorMoves = TRUE
CHECK_DEADLOCK FALSE
PROPERTIES ReplayMovesNoPhase
