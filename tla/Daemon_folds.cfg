SPECIFICATION FairDaemonSpec
CONSTANTS
  s1 = s1
  Absent = Absent
  None = None
  Sessions <- OneSession
  Tiers <- TwoTiers
  Statuses <- TwoStatuses
  Titles <- Nothing
  Roots = {project}
  AutoAdoptRoots <- Nothing
  StoreFaults = FALSE
  Receivers <- BothFolds
  LateReceivers <- PolicyIsLate
  Capacity = 1
  ApiCommands <- ApiOfOne
  CockpitCommands <- CockpitOfOne
  Targets <- SomeTargets
  Launched <- OneSession
  Budget = 4
CHECK_DEADLOCK FALSE
INVARIANTS ReadModelsCatchUp PolicyCatchesUp
PROPERTY GateConverges
