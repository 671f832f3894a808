SPECIFICATION StoreSpec
CONSTANTS
  s1 = s1
  s2 = s2
  inside = inside
  outside = outside
  aTitle = aTitle
  Absent = Absent
  None = None
  Sessions <- OneSession
  Tiers <- TwoTiers
  Statuses <- SomeStatus
  Titles <- OneTitle
  Roots <- TwoRoots
  AutoAdoptRoots <- OneRoot
  StoreFaults = FALSE
  Receivers <- OneReceiver
  LateReceivers <- NoReceiver
  Capacity = 1
  c1 = c1
  c2 = c2
  c3 = c3
  Agents = {s1, s2}
  Files = {f1}
  Tracked = {f1}
  ToolsOf <- TwoTools
  Interrupts = {s1}
  Crashes = TRUE
  MaxClock = 2
  Nobody = Nobody
  Ids = {c1, c2, c3}
  AuthorOf <- Authors
  MaxAsks = 1
  NoComment = NoComment
SYMMETRY Interchangeable
CHECK_DEADLOCK FALSE
INVARIANTS TypeOK RowsKeepGovernance
  WritesAreListed BaselineIsForeign ThreadsAreFlat AgentIsNotFed
PROPERTIES PinnedPhaseHolds RestartKeepsGovernance OnlyOperatorUnlocksWrites OptIn
  DeletedStaysDeleted
