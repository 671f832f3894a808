SPECIFICATION ProgressSpec
CONSTANTS
  s1 = s1
  s2 = s2
  hook1 = hook1
  hook2 = hook2
  phase1 = phase1
  verb2 = verb2
  None = None
  Sessions <- TwoSessions
  Asks <- SharedAsks
  SessionOf <- SharedBy
  Hooks <- OneHook
  Detached <- PhaseVerb
  SingleThreaded = FALSE
  Bounded <- OneHook
  Crashes = TRUE
  LaunchIds = {l1}
  OtherConversations = {c1}
  Nowhere = Nowhere
  MaxSwitches = 2
  MaxReleases = 1
  MaxRestarts = 1
  Targets = {t1}
  MaxStarts = 3
  Reviewed = {f1}
  MaxWrites = 1
CHECK_DEADLOCK FALSE
INVARIANT RegistryIsSound
PROPERTIES ImplementsApprovals BoundedAsksEnd ClickOnSlotAnswers
  ExitsAreShown VerdictsSettle LaunchesAreGoverned VerbsFollow
