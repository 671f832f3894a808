SPECIFICATION FairSpec
CONSTANTS
  s1 = s1
  s2 = s2
  hook1 = hook1
  hook2 = hook2
  phase1 = phase1
  verb2 = verb2
  None = None
  Sessions <- OneSession
  Asks <- AloneAsks
  SessionOf <- AloneBy
  Hooks <- TwoHooks
  Detached <- PhaseVerb
  SingleThreaded = TRUE
  Bounded <- NoAsk
  Crashes = FALSE
CHECK_DEADLOCK FALSE
PROPERTY ClickIsHeard
