SPECIFICATION Spec
CONSTANTS
  Backends = {"claude", "agy"}
  Kinds = {"user","assistant","stop","named","plan"}
  Absent = Absent
  None = None
  Mishaps = {"rewrite", "failure", "report", "restart", "hold", "resume", "forget"}
  MaxMishaps = 1
  MaxLines = 2
  OperatorMoves = TRUE
CHECK_DEADLOCK FALSE
INVARIANTS TailIsTheTranscript StallIsShown
PROPERTIES StallIsReal FleetTellsTheTranscript
