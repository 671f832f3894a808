SPECIFICATION DeskSpec
CONSTANTS
  MaxHolds = 2
  MaxFacts = 2
  Observable = {"Running", "WaitingInput"}
  MaxExitResumes = 3
  MaxRuns = 2
  Tabs = {t1, t2}
  MaxContents = 3
  MaxMoves = 2
  Targets = {r1, r2}
  MaxStarts = 3
  b1 = b1
  b2 = b2
  p1 = p1
  p2 = p2
  Events = {"PreToolUse"}
  Slots = {1, 2}
  Builds = {b1, b2}
  Foreign = {h1}
  Writers = {p1, p2}
  BuildOf <- OwnBuild
  NoBuild = NoBuild
  Odd = Odd
  Unreadable = Unreadable
  Backlog = 2
  PlanHolds <- PlanFirst
  MaxHeld = 2
  MaxReads = 2
  MaxMishaps = 1
  Roots = {ra}
  Overview = Overview
  Tracked = {k1, k2}
  Transient = {x1}
  Torn = Torn
  NoSave = NoSave
  MaxLaunches = 2
  MaxWrites = 2
  MaxCopies = 2
  MaxActs = 3
  c1 = c1
  c2 = c2
  u1 = u1
  u2 = u2
  u3 = u3
  n1 = n1
  n2 = n2
  Hosts = {u1, u2, u3}
  Allowed = {u1, u2}
  Calls = {c1, c2}
  Bodies = {1}
  Offers <- Servers
  Names = {n1, n2}
  NameOf <- OwnName
  NoSchema = NoSchema
  NoCall = NoCall
  NoMsg = NoMsg
  Junk = Junk
  NoReply = NoReply
  MaxSteps = 5
  MaxInFlight = 2
  NFiles = 2
  MaxTouches = 1
CHECK_DEADLOCK FALSE
INVARIANTS VerdictKeepsItsBounds SettledIsNotRetained
  OncePerFill UnsavedIsMarked LinesAreTheRuns OneProcessPerTarget
  OneOfOurs ShownIsHeld UnvisitedAreKept NoBootLoop ClosedStaysClosed ShownIsSelected
PROPERTIES RepairSparesForeign BoundWorkSurvives
