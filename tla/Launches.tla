------------------------------- MODULE Launches -------------------------------
(***************************************************************************)
(* Which conversation a launched agent process is in, and how the daemon   *)
(* keeps it governed (launches.rs, ControlServer::observe_launch and the   *)
(* daemon's keep_launches_governed). A process changes conversation with   *)
(* /resume and /clear; each of its hooks names its launch and the          *)
(* conversation it was in when the hook was started.                       *)
(***************************************************************************)
EXTENDS Naturals, FiniteSets

CONSTANTS
  LaunchIds,                    \* launch ids, each also the conversation it starts in
  OtherConversations,           \* conversations a process may resume or start later
  Nowhere,                      \* the registry has no entry
  MaxSwitches, MaxReleases, MaxRestarts   \* bounds: of processes, operator and daemon

Conversations == LaunchIds \cup OtherConversations

VARIABLES
  inside,     \* launch -> the conversation its process is in
  hooks,      \* <<launch, conversation>> of hooks on their way to the daemon
  current,    \* LaunchRegistry: launch -> conversation, or Nowhere
  asked,      \* conversations whose adoption was asked for less than the retry ago
  commands,   \* adoptions and releases sent to the engine: <<conversation, adopted>>
  found,      \* conversations detection has discovered
  adopted,    \* conversation -> adopted, in the engine
  view,       \* conversation -> adopted, in the hook gate's view
  switches, releases, restarts

launchVars == <<inside, hooks, current, asked, commands, found, adopted, view, switches,
                releases, restarts>>
agentVars  == <<inside, switches>>
countVars  == <<releases, restarts>>

-----------------------------------------------------------------------------
(* The agent processes *)

\* /resume or /clear; hooks already started keep the conversation they were started in.
Switch(l, c) ==
  /\ switches < MaxSwitches /\ inside[l] # c
  /\ switches' = switches + 1 /\ inside' = [inside EXCEPT ![l] = c]
  /\ UNCHANGED <<hooks, current, asked, commands, found, adopted, view, countVars>>

StartHook(l) ==
  /\ hooks' = hooks \cup {<<l, inside[l]>>}
  /\ UNCHANGED <<agentVars, current, asked, commands, found, adopted, view, countVars>>

\* Detection finds the conversation's transcript, after its first turn.
Discover(c) ==
  /\ c \notin found /\ \E l \in LaunchIds : inside[l] = c
  /\ found' = found \cup {c}
  /\ UNCHANGED <<agentVars, hooks, current, asked, commands, adopted, view, countVars>>

-----------------------------------------------------------------------------
(* The daemon *)

\* Mutant: the first conversation seen is kept, as a registry of sessions would.
ObservedOnce(l, c) ==
  IF current[l] = Nowhere THEN [current EXCEPT ![l] = c] ELSE current

\* LaunchRegistry::observe
Observed(l, c) == [current EXCEPT ![l] = c]

\* Mutant: a conversation is asked for once.
CooledNever(c) == asked

\* LAUNCH_ADOPT_RETRY has passed for c.
Cooled(c) == asked \ {c}

\* keep_launches_governed: asked again only after the retry, and never for one governed.
MustAsk(c) == ~view[c] /\ c \notin asked

\* observe_launch, for every hook that arrives.
ServeHook(l, c) ==
  /\ <<l, c>> \in hooks /\ hooks' = hooks \ {<<l, c>>}
  /\ current' = Observed(l, c)
  /\ IF MustAsk(c) THEN asked' = asked \cup {c} /\ commands' = commands \cup {<<c, TRUE>>}
                   ELSE UNCHANGED <<asked, commands>>
  /\ UNCHANGED <<agentVars, found, adopted, view, countVars>>

RetryPasses(c) ==
  /\ c \in asked /\ asked' = Cooled(c)
  /\ UNCHANGED <<agentVars, hooks, current, commands, found, adopted, view, countVars>>

\* The operator releases a session.
Release(c) ==
  /\ adopted[c] /\ releases < MaxReleases /\ releases' = releases + 1
  /\ commands' = commands \cup {<<c, FALSE>>}
  /\ UNCHANGED <<agentVars, hooks, current, asked, found, adopted, view, restarts>>

\* SetAdopted in the engine: dropped for a conversation it does not know.
Serve(c, to) ==
  /\ <<c, to>> \in commands /\ commands' = commands \ {<<c, to>>}
  /\ adopted' = [adopted EXCEPT ![c] = IF c \in found THEN to ELSE @]
  /\ UNCHANGED <<agentVars, hooks, current, asked, found, view, countVars>>

\* The gate's view folds the row.
Fold(c) ==
  /\ view[c] # adopted[c] /\ view' = [view EXCEPT ![c] = adopted[c]]
  /\ UNCHANGED <<agentVars, hooks, current, asked, commands, found, adopted, countVars>>

\* The daemon is killed and started again: the store hydrates what was adopted, detection
\* starts over, and the registry, the view and the commands are gone.
Restart ==
  /\ restarts < MaxRestarts /\ restarts' = restarts + 1
  /\ current' = [l \in LaunchIds |-> Nowhere] /\ asked' = {} /\ commands' = {}
  /\ found' = {c \in Conversations : adopted[c]}
  /\ view' = [c \in Conversations |-> FALSE]
  /\ UNCHANGED <<agentVars, hooks, adopted, releases>>

\* resolve: what a verb of the launch acts on.
Resolved(l) == IF current[l] = Nowhere THEN l ELSE current[l]

-----------------------------------------------------------------------------

LaunchInit ==
  /\ inside = [l \in LaunchIds |-> l] /\ hooks = {}
  /\ current = [l \in LaunchIds |-> Nowhere]
  /\ asked = {} /\ commands = {} /\ found = {}
  /\ adopted = [c \in Conversations |-> FALSE] /\ view = adopted
  /\ switches = 0 /\ releases = 0 /\ restarts = 0

LaunchNext ==
  \/ \E l \in LaunchIds : \/ StartHook(l)
                          \/ \E c \in Conversations : Switch(l, c) \/ ServeHook(l, c)
  \/ \E c \in Conversations : \/ Discover(c) \/ RetryPasses(c) \/ Release(c) \/ Fold(c)
                              \/ \E b \in BOOLEAN : Serve(c, b)
  \/ Restart

\* Every hook is answered, the engine's loop and the fold run, the clock passes and detection
\* polls; nothing makes a process start another hook.
LaunchFairness ==
  \A c \in Conversations :
    /\ \A l \in LaunchIds : SF_launchVars(ServeHook(l, c))
    /\ WF_launchVars(Discover(c)) /\ WF_launchVars(RetryPasses(c)) /\ WF_launchVars(Fold(c))
    /\ \A b \in BOOLEAN : WF_launchVars(Serve(c, b))

LaunchSpec == LaunchInit /\ [][LaunchNext]_launchVars /\ LaunchFairness

-----------------------------------------------------------------------------
(* Properties *)

Working(l) == \E c \in Conversations : <<l, c>> \in hooks

\* A process that keeps calling tools stays governed wherever it goes: once it stops changing
\* conversation, the gate's view has the one it is in as adopted, though the first requests
\* may have been dropped and the daemon restarted (keep_launches_governed: "repeated on a
\* later hook rather than sent once and lost").
LaunchesAreGoverned == \A l \in LaunchIds : []<>Working(l) => <>[]view[inside[l]]

\* And its verbs act on that conversation, though hooks of the one it left may arrive after
\* hooks of the new one.
VerbsFollow == \A l \in LaunchIds : []<>Working(l) => <>[](Resolved(l) = inside[l])
=============================================================================
