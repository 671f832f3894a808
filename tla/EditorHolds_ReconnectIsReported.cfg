SPECIFICATION HoldsSpec
CONSTANTS
  Backlog = 3
  PlanHolds = {{1}}
  MaxHeld = 1
  MaxReads = 1
  MaxMishaps = 1
CHECK_DEADLOCK FALSE
PROPERTY ReconnectIsReported
