SPECIFICATION DaemonSpec
CONSTANTS
  s1 = s1
  Absent = Absent
  None = None
  Sessions <- OneSession
  Tiers <- TwoTiers
  Statuses <- TwoStatuses
  Titles <- Nothing
  Roots = {project}
  AutoAdoptRoots <- Nothing
  StoreFaults = FALSE
  Receivers <- BothFolds
  LateReceivers <- PolicyIsLate
  Capacity = 4
  ApiCommands <- ApiOfOne
  CockpitCommands <- CockpitOfOne
  Targets <- SomeTargets
  Launched <- Nothing
  Budget = 6
CHECK_DEADLOCK FALSE
PROPERTY AgentNeverUnlocksWrites
