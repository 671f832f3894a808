------------------------------- MODULE Daemon -------------------------------
(***************************************************************************)
(* moonlightd around its supervisor (apps/daemon/src/main.rs): the command *)
(* channel every client feeds, and the three read-models folded from the   *)
(* event bus - the hook gate's view, the fleet view the control API        *)
(* answers from, the policy view the MCP actor decides on.  Each of them   *)
(* trails the fleet by whatever its channel still holds.                   *)
(***************************************************************************)
EXTENDS Supervisor

CONSTANTS
  ApiCommands,       \* sent by the control API, for a session its fleet view knows
  CockpitCommands,   \* sent by an operator surface without asking the fleet view
  Targets,           \* what an agent's request_phase may name
  Launched,          \* sessions whose process an IDE launched through the daemon
  Budget             \* bound: moves of the environment in one behaviour

ASSUME DaemonAssumption ==
  /\ Receivers = {"readmodels", "policy"} /\ "readmodels" \notin LateReceivers
  /\ Targets \subseteq PhaseTargets /\ Launched \subseteq Sessions
  /\ Budget \in Nat
  /\ Absent \notin GateState

VARIABLES
  commands,     \* the unbounded channel into the supervisor loop
  gate,         \* GateView: session -> GateState, or Absent
  view,         \* BusFleetView: session -> Session, or Absent
  policy,       \* BusPolicyView: session -> phase and tier, or Absent
  policyFolds,  \* whether the task folding `policy` still runs
  budget        \* environment moves left

readModels == <<gate, view, policy, policyFolds>>

daemonVars == <<fleet, store, bus, commands, gate, view, policy, policyFolds, budget>>

-----------------------------------------------------------------------------
(* Commands *)

Republish == [op |-> "RepublishFleet"]

SessionCommands ==
  [op : {"SetAdopted"}, session : Sessions, adopted : BOOLEAN]
    \cup [op : {"SetTrust"}, session : Sessions, tier : Tiers]
    \cup [op : {"SetPhasePinned"}, session : Sessions, pinned : BOOLEAN]
    \cup [op : {"SetPhase"}, session : Sessions, phase : Phases, by : {"operator", "agent"}]
    \cup [op : {"AdvancePhase"}, session : Sessions, by : {"operator", "agent"}]
    \cup [op : {"ToggleAdoption", "TogglePause", "ApprovePlan", "ForgetSession"},
          session : Sessions]

Commands == SessionCommands \cup {Republish}

ASSUME CommandsAssumption == ApiCommands \cup CockpitCommands \subseteq SessionCommands

MoveTo(s, p, by) == [op |-> "SetPhase", session |-> s, phase |-> p, by |-> by]
MoveOn(s, by)    == [op |-> "AdvancePhase", session |-> s, by |-> by]

\* What request_phase puts on the channel for an agent.
AgentCommands ==
  {MoveTo(s, p, "agent") : s \in Sessions, p \in Phases}
    \cup {MoveOn(s, "agent") : s \in Sessions}

\* handle_command: the arms that do something ...
Handled(c) ==
  \/ c.op = "SetAdopted"     /\ SetAdopted(c.session, c.adopted)
  \/ c.op = "ToggleAdoption" /\ ToggleAdoption(c.session)
  \/ c.op = "SetTrust"       /\ SetTrust(c.session, c.tier)
  \/ c.op = "TogglePause"    /\ TogglePause(c.session)
  \/ c.op = "SetPhasePinned" /\ SetPhasePinned(c.session, c.pinned)
  \/ c.op = "SetPhase"       /\ SetPhase(c.session, c.phase)
  \/ c.op = "AdvancePhase"   /\ AdvancePhase(c.session)
  \/ c.op = "ApprovePlan"    /\ ApprovePlan(c.session)
  \/ c.op = "ForgetSession"  /\ ForgetSession(c.session)
  \/ c.op = "RepublishFleet" /\ RepublishFleet

\* ... and their early returns.
Dropped(c) ==
  /\ c.op \notin {"ForgetSession", "RepublishFleet"}
  /\ Known(c.session) =>
       \/ c.op = "SetAdopted"     /\ fleet[c.session].adopted = c.adopted
       \/ c.op = "SetTrust"       /\ fleet[c.session].trust_tier = c.tier
       \/ c.op = "SetPhasePinned" /\ fleet[c.session].phase_pinned = c.pinned
       \/ c.op = "ApprovePlan"    /\ fleet[c.session].phase # "Plan"

HandleCommand(c) == Handled(c) \/ (Dropped(c) /\ UNCHANGED vars)

-----------------------------------------------------------------------------
(* The folds *)

FoldGate(map, e) ==
  CASE e.kind = "SessionUpserted" ->
         [map EXCEPT ![e.session] =
            [(IF @ = Absent THEN DefaultGate ELSE @) EXCEPT
               !.phase = e.row.phase, !.trust = e.row.trust_tier,
               !.adopted = e.row.adopted]]
    [] e.kind = "PhaseTransitioned" /\ map[e.session] # Absent ->
         [map EXCEPT ![e.session].phase = e.phase]
    [] OTHER -> map

FoldView(map, e) ==
  CASE e.kind = "SessionUpserted" -> [map EXCEPT ![e.session] = e.row]
    [] e.kind = "SessionRemoved"  -> [map EXCEPT ![e.session] = Absent]
    [] OTHER -> map

\* Mutant: the thin phase fact is not folded.
FoldPolicyRowsOnly(map, e) ==
  CASE e.kind = "SessionUpserted" ->
         [map EXCEPT ![e.session] =
            [phase |-> e.row.phase, trust_tier |-> e.row.trust_tier]]
    [] OTHER -> map

FoldPolicy(map, e) ==
  CASE e.kind = "SessionUpserted" ->
         [map EXCEPT ![e.session] =
            [phase |-> e.row.phase, trust_tier |-> e.row.trust_tier]]
    [] e.kind = "PhaseTransitioned" /\ map[e.session] # Absent ->
         [map EXCEPT ![e.session].phase = e.phase]
    [] OTHER -> map

\* One task folds the gate's view and the fleet view, event by event; told of a gap,
\* it asks the supervisor to republish.
FoldReadModels ==
  /\ Receive("readmodels")
  /\ gate' = FoldGate(gate, Received("readmodels"))
  /\ view' = FoldView(view, Received("readmodels"))
  /\ UNCHANGED <<fleet, store, commands, policy, policyFolds, budget>>

\* Mutant: a gap is skipped over.
ReadModelsLagIgnored ==
  /\ ReceiveLag("readmodels")
  /\ UNCHANGED <<fleet, store, commands, readModels, budget>>

ReadModelsLag ==
  /\ ReceiveLag("readmodels")
  /\ commands' = Append(commands, Republish)
  /\ UNCHANGED <<fleet, store, readModels, budget>>

\* The policy fold is `while let Ok(event) = rx.recv().await`: a gap ends the loop.
FoldPolicyView ==
  /\ policyFolds /\ Receive("policy")
  /\ policy' = FoldPolicy(policy, Received("policy"))
  /\ UNCHANGED <<fleet, store, commands, gate, view, policyFolds, budget>>

PolicyLags ==
  /\ policyFolds /\ ReceiveLag("policy")
  /\ policyFolds' = FALSE
  /\ UNCHANGED <<fleet, store, commands, gate, view, policy, budget>>

-----------------------------------------------------------------------------
(* The supervisor loop *)

Serve(c) ==
  /\ commands # <<>> /\ Head(commands) = c
  /\ commands' = Tail(commands)
  /\ HandleCommand(c)
  /\ UNCHANGED <<readModels, budget>>

ServeCommand == commands # <<>> /\ Serve(Head(commands))

-----------------------------------------------------------------------------
(* The environment: every step of it spends one move. *)

Spend == budget > 0 /\ budget' = budget - 1

Send(c) ==
  /\ commands' = Append(commands, c)
  /\ UNCHANGED <<fleet, store, bus, readModels>>

\* POST /control/adopt, /set-phase, /advance-phase: 404 unless the fleet view knows it.
ApiSends(c) == Spend /\ view[c.session] # Absent /\ Send(c)

CockpitSends(c) == Spend /\ Send(c)

\* keep_launches_governed, on a hook of a launched process: ask for what the gate's
\* view does not show yet.  A repeat within LAUNCH_ADOPT_RETRY is no step.
HookObserved(s) ==
  /\ Spend
  /\ ~(gate[s] # Absent /\ gate[s].adopted)
  /\ Send([op |-> "SetAdopted", session |-> s, adopted |-> TRUE])

\* ActorService::run on request_phase, for a move that does not need the operator: the
\* policy view's snapshot decides, and "next" becomes a phase only when it is served.
\* The others are asked of the operator and then come as the operator's commands.
RequestPhase(s, target) ==
  /\ Spend
  /\ policy[s] # Absent
  /\ ~PhaseChangeNeedsOperator(policy[s].phase, target)
  /\ Send(IF target = "next" THEN MoveOn(s, "agent") ELSE MoveTo(s, target, "agent"))

Detects(s) ==
  Spend /\ Detection(s) /\ UNCHANGED <<commands, readModels>>

\* The notifier announces a held action: two facts no view folds, which take their
\* place in the queues.
Announces(s) ==
  /\ Spend
  /\ Publish(<<Notice("ApprovalRequested", s), Notice("SessionStateChanged", s)>>)
  /\ UNCHANGED <<fleet, store, commands, readModels>>

\* The desktop, a process of its own, records a launch in the shared store.
Launches(s) ==
  /\ Spend
  /\ \E p \in {"Plan", "AutoImplement"}, tier \in Tiers, root \in Roots :
       RecordLaunch(s, p, tier, root)
  /\ UNCHANGED <<commands, readModels>>

Restart ==
  /\ Spend
  /\ CrashRestart
  /\ commands' = <<>>
  /\ gate' = [s \in Sessions |-> Absent]
  /\ view' = [s \in Sessions |-> Absent]
  /\ policy' = [s \in Sessions |-> Absent]
  /\ policyFolds' = TRUE

-----------------------------------------------------------------------------
(* The specification *)

DaemonInit ==
  /\ Init
  /\ commands = <<>>
  /\ gate = [s \in Sessions |-> Absent]
  /\ view = [s \in Sessions |-> Absent]
  /\ policy = [s \in Sessions |-> Absent]
  /\ policyFolds = TRUE
  /\ budget = Budget

Environment ==
  \/ \E c \in ApiCommands : ApiSends(c)
  \/ \E c \in CockpitCommands : CockpitSends(c)
  \/ \E s \in Launched : HookObserved(s)
  \/ \E s \in Sessions, target \in Targets : RequestPhase(s, target)
  \/ \E s \in Sessions : Detects(s)
  \/ \E s \in Sessions : Announces(s) \/ Launches(s)
  \/ Restart

DaemonNext ==
  \/ ServeCommand
  \/ FoldReadModels \/ ReadModelsLag
  \/ FoldPolicyView \/ PolicyLags
  \/ Environment

DaemonSpec == DaemonInit /\ [][DaemonNext]_daemonVars

\* The runtime keeps polling the three tasks.  The fold's next recv is ready at once
\* after a lag report, and the supervisor cannot fill the channel between every two:
\* strong fairness of the fold says so.  Nothing is assumed of the environment.
DaemonFairness ==
  /\ WF_daemonVars(ServeCommand)
  /\ WF_daemonVars(ReadModelsLag) /\ SF_daemonVars(FoldReadModels)
  /\ WF_daemonVars(PolicyLags) /\ SF_daemonVars(FoldPolicyView)

FairDaemonSpec == DaemonSpec /\ DaemonFairness

-----------------------------------------------------------------------------
(* Properties *)

\* Nothing more is on its way to the read-models.
Resynchronising == \E i \in DOMAIN commands : commands[i].op = "RepublishFleet"
Settled == Drained("readmodels") /\ ~Resynchronising

\* The gate classifies a session on what the fleet says of it.
GateAgrees(s) ==
  /\ gate[s] # Absent
  /\ gate[s].phase = fleet[s].phase
  /\ gate[s].trust = fleet[s].trust_tier
  /\ gate[s].adopted = fleet[s].adopted

\* However many facts the bus dropped, a gate view with nothing left to read or to ask
\* for shows every session of the fleet as the fleet has it: main.rs resynchronises
\* because "a gate view missing a session allows everything that session does".
GateCatchesUp == Settled => \A s \in Sessions : Known(s) => GateAgrees(s)

\* And it gets there once the environment is quiet.
GateConverges == <>[](\A s \in Sessions : Known(s) => GateAgrees(s))

\* Nobody of the fleet is missing from what the control API lists and lets be adopted.
FleetIsListed == Settled => \A s \in Sessions : Known(s) => view[s] # Absent

\* Both read-models of the control API have caught up whenever nothing is left to fold.
ReadModelsCatchUp == GateCatchesUp /\ FleetIsListed

\* As long as it lives, the policy view with nothing left to read has the phase and the
\* tier the fleet has of every session it knows, although it subscribed too late to know
\* them all: the actor refuses a session or decides late, never on a wrong fold.
PolicyCatchesUp ==
  policyFolds /\ Drained("policy") =>
    \A s \in Sessions :
      Known(s) /\ policy[s] # Absent =>
        policy[s] = [phase |-> fleet[s].phase, trust_tier |-> fleet[s].trust_tier]

\* adapters.rs apply_gate_event: this fold "is the only path by which a pause reaches
\* the gate" and "has to be" assigned; "`adopted`/`phase`/`trust`/`paused` all come from
\* the operator-authoritative `Session` row".
PauseReachesGate ==
  Settled => \A s \in Sessions : Adopted(s) /\ fleet[s].paused => gate[s].paused

\* lib.rs phase_change_needs_operator: the one sensitive move is the one that gains
\* project writes from a frozen phase; no other is approved without the operator.
AgentNeverUnlocksWrites ==
  [][\A c \in AgentCommands :
       Serve(c) /\ Known(c.session) /\ ~AllowsWrites(fleet[c.session].phase)
       => ~AllowsWrites(fleet'[c.session].phase)]_daemonVars

=============================================================================
