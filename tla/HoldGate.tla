------------------------------ MODULE HoldGate ------------------------------
(***************************************************************************)
(* The approval keystone: asks that wait for the operator, and the verdicts*)
(* that answer them.  An ask is one held tool hook (crates/control         *)
(* server.rs hold) or one held MCP verb (KeystoneApprovalGate::request).   *)
(* Both wait on a one-shot channel in the PendingApprovals registry, which *)
(* has one slot per session; a verdict names the session only.             *)
(***************************************************************************)
EXTENDS Naturals, FiniteSets

CONSTANTS
  Sessions,
  Asks,            \* invocations: each asks at most once
  SessionOf,       \* ask -> its session
  Hooks,           \* the asks made by a hook; the others are MCP verbs
  Detached,        \* the verbs that do not hold their caller (request_phase)
  SingleThreaded,  \* whether a session asks nothing more while an ask blocks it
  Bounded,         \* the asks whose hold has a budget: Some(d), not None
  Crashes,         \* whether the process may die
  None             \* an empty slot

ASSUME HoldAssumption ==
  /\ SessionOf \in [Asks -> Sessions]
  /\ Hooks \subseteq Asks /\ Detached \subseteq Asks \ Hooks
  /\ Bounded \subseteq Asks
  /\ SingleThreaded \in BOOLEAN /\ Crashes \in BOOLEAN
  /\ None \notin Asks

VARIABLES
  stage,      \* ask -> how far its task has come
  pending,    \* session -> the ask in the registry's slot, or None
  reply,      \* ask -> what its one-shot receiver will yield
  clicked,    \* ask -> the operator's verdict on it, once given
  inflight    \* the asks whose verdict has not reached the process yet

vars == <<stage, pending, reply, clicked, inflight>>

Decisions == {"approve", "deny"}

Stages == {"idle", "announced", "registered", "waiting", "elapsed", "allowed", "denied"}

Done(a)    == stage[a] \in {"allowed", "denied"}
Asking(a)  == stage[a] # "idle" /\ ~Done(a)

-----------------------------------------------------------------------------
(* The registry *)

\* A session is asked for by what blocks it; a detached verb has already returned.
Blocked(s) == \E a \in Asks \ Detached : SessionOf[a] = s /\ Asking(a)

MayAsk(a) == stage[a] = "idle" /\ (SingleThreaded => ~Blocked(SessionOf[a]))

\* Mutant: the superseded waiter is overwritten but its sender kept.
RegisterOver(a) ==
  /\ pending' = [pending EXCEPT ![SessionOf[a]] = a]
  /\ reply' = [reply EXCEPT ![a] = "open"]

\* PendingApprovals::register_held: the slot's previous sender is dropped.
Register(a) ==
  LET s == SessionOf[a] IN
  /\ pending' = [pending EXCEPT ![s] = a]
  /\ reply' = [b \in Asks |-> IF b = a THEN "open"
                              ELSE IF b = pending[s] THEN "closed" ELSE reply[b]]

-----------------------------------------------------------------------------
(* A held hook announces itself, then registers; a held verb registers first. *)

AnnounceHook(a) ==
  /\ a \in Hooks /\ MayAsk(a)
  /\ stage' = [stage EXCEPT ![a] = "announced"]
  /\ UNCHANGED <<pending, reply, clicked, inflight>>

RegisterHook(a) ==
  /\ stage[a] = "announced"
  /\ stage' = [stage EXCEPT ![a] = "waiting"]
  /\ Register(a)
  /\ UNCHANGED <<clicked, inflight>>

RegisterVerb(a) ==
  /\ a \notin Hooks /\ MayAsk(a)
  /\ stage' = [stage EXCEPT ![a] = "registered"]
  /\ Register(a)
  /\ UNCHANGED <<clicked, inflight>>

AnnounceVerb(a) ==
  /\ stage[a] = "registered"
  /\ stage' = [stage EXCEPT ![a] = "waiting"]
  /\ UNCHANGED <<pending, reply, clicked, inflight>>

\* Mutant: only a denial denies, a dropped sender does not.
AnswerUnlessDenied(a) ==
  /\ stage[a] = "waiting" /\ reply[a] # "open"
  /\ stage' = [stage EXCEPT ![a] = IF reply[a] = "deny" THEN "denied" ELSE "allowed"]
  /\ UNCHANGED <<pending, reply, clicked, inflight>>

\* The receiver yields: an approval allows; a denial or a dropped sender denies.
Answer(a) ==
  /\ stage[a] = "waiting" /\ reply[a] # "open"
  /\ stage' = [stage EXCEPT ![a] = IF reply[a] = "approve" THEN "allowed" ELSE "denied"]
  /\ UNCHANGED <<pending, reply, clicked, inflight>>

\* The budget runs out with nothing received: the receiver is gone ...
Elapse(a) ==
  /\ a \in Bounded
  /\ stage[a] = "waiting" /\ reply[a] = "open"
  /\ stage' = [stage EXCEPT ![a] = "elapsed"]
  /\ UNCHANGED <<pending, reply, clicked, inflight>>

\* Mutant: a hold that lost its slot to another ask waits for it to come free.
CancelOwn(a) ==
  LET s == SessionOf[a] IN
  /\ stage[a] = "elapsed" /\ pending[s] = a
  /\ stage' = [stage EXCEPT ![a] = "denied"]
  /\ pending' = [pending EXCEPT ![s] = None]
  /\ reply' = [reply EXCEPT ![a] = "closed"]
  /\ UNCHANGED <<clicked, inflight>>

\* ... and PendingApprovals::cancel empties the session's slot, whoever is in it.
Cancel(a) ==
  LET s == SessionOf[a] IN
  /\ stage[a] = "elapsed"
  /\ stage' = [stage EXCEPT ![a] = "denied"]
  /\ pending' = [pending EXCEPT ![s] = None]
  /\ reply' = [b \in Asks |-> IF b = pending[s] THEN "closed" ELSE reply[b]]
  /\ UNCHANGED <<clicked, inflight>>

-----------------------------------------------------------------------------
(* The operator *)

\* The operator can answer an ask they were notified of, or found in outstanding(),
\* and once: the question goes away with the click.
Visible(a) ==
  stage[a] \notin {"idle", "registered"} \/ pending[SessionOf[a]] = a

Click(a, decision) ==
  /\ clicked[a] = "none" /\ Visible(a)
  /\ clicked' = [clicked EXCEPT ![a] = decision]
  /\ inflight' = inflight \cup {a}
  /\ UNCHANGED <<stage, pending, reply>>

\* route_approval and PendingApprovals::resolve: the verdict goes to whatever waits in
\* the session's slot; with nothing there the supervisor gets it, which answers no ask.
RouteVerdict(a) ==
  LET s == SessionOf[a] IN
  /\ a \in inflight
  /\ inflight' = inflight \ {a}
  /\ \/ /\ pending[s] # None
        /\ pending' = [pending EXCEPT ![s] = None]
        /\ reply' = [reply EXCEPT ![pending[s]] =
                       IF stage[pending[s]] = "elapsed" THEN @ ELSE clicked[a]]
     \/ /\ pending[s] = None
        /\ UNCHANGED <<pending, reply>>
  /\ UNCHANGED <<stage, clicked>>

-----------------------------------------------------------------------------
(* The process dies with its registry.  A hook client whose connection closes *)
(* without a verdict allows the call (query_hook's fail_open); a verb's call  *)
(* fails.  Verdicts on the way are refused.                                   *)

Crash ==
  /\ Crashes /\ \E a \in Asks : Asking(a)
  /\ stage' = [a \in Asks |-> IF ~Asking(a) THEN stage[a]
                              ELSE IF a \in Hooks THEN "allowed" ELSE "denied"]
  /\ pending' = [s \in Sessions |-> None]
  /\ reply' = [a \in Asks |-> IF Asking(a) THEN "closed" ELSE reply[a]]
  /\ inflight' = {}
  /\ UNCHANGED clicked

-----------------------------------------------------------------------------
(* The specification *)

Init ==
  /\ stage = [a \in Asks |-> "idle"]
  /\ pending = [s \in Sessions |-> None]
  /\ reply = [a \in Asks |-> "closed"]
  /\ inflight = {}
  /\ clicked = [a \in Asks |-> "none"]

Task(a) ==
  \/ RegisterHook(a) \/ AnnounceVerb(a) \/ Answer(a) \/ Cancel(a)

Next ==
  \/ \E a \in Asks : AnnounceHook(a) \/ RegisterVerb(a) \/ Task(a) \/ Elapse(a)
  \/ \E a \in Asks : RouteVerdict(a)
  \/ \E a \in Asks, decision \in Decisions : Click(a, decision)
  \/ Crash

Spec == Init /\ [][Next]_vars

\* The runtime polls a task that can go on, the process serves a request it received,
\* and a timer that is due fires.  Nobody makes the operator click.
Fairness ==
  \A a \in Asks : WF_vars(Task(a)) /\ WF_vars(RouteVerdict(a)) /\ WF_vars(Elapse(a))

FairSpec == Spec /\ Fairness

-----------------------------------------------------------------------------
(* Properties *)

\* The registry, the channels and the tasks hold what they can hold.
TypeOK ==
  /\ stage \in [Asks -> Stages]
  /\ pending \in [Sessions -> Asks \cup {None}]
  /\ reply \in [Asks -> {"open", "closed"} \cup Decisions]
  /\ inflight \subseteq Asks
  /\ clicked \in [Asks -> {"none"} \cup Decisions]

\* An ask whose channel is still open is the one in its session's slot, so a verdict
\* for the session can reach it: superseding, cancelling and resolving never strand a
\* waiter (pending.rs: "the old waiter then sees its sender dropped").
NoAskStranded ==
  \A a \in Asks :
    stage[a] \in {"registered", "waiting"} /\ reply[a] = "open" => pending[SessionOf[a]] = a

\* A slot holds an ask of its own session that is still being asked.
SlotIsLive ==
  \A s \in Sessions :
    pending[s] # None => SessionOf[pending[s]] = s /\ Asking(pending[s])

\* The registry is sound in both directions: no waiter without its slot, no slot without
\* its waiter, whatever superseded, cancelled, resolved or killed the others.
RegistryIsSound == NoAskStranded /\ SlotIsLive

Outcome(a) ==
  IF stage[a] = "idle" THEN "unasked" ELSE IF Done(a) THEN stage[a] ELSE "asked"

\* Approvals given for a session and not spent: on the way, or received by a task that
\* has not run yet.
OnTheWay(s) == {a \in inflight : SessionOf[a] = s /\ clicked[a] = "approve"}
Received(s) == {a \in Asks : SessionOf[a] = s /\ reply[a] = "approve" /\ ~Done(a)}

Unspent(s) == Cardinality(OnTheWay(s)) + Cardinality(Received(s))

Promise == INSTANCE Approvals
             WITH outcome <- [a \in Asks |-> Outcome(a)],
                  FailOpen <- Hooks,
                  approvals <- [s \in Sessions |-> Unspent(s)]

\* One approval allows at most one ask, of its own session, and nothing is allowed
\* without one while the process lives.
ImplementsApprovals == Promise!Spec

\* A verdict for a session whose slot holds an ask answers that ask, unless a later ask
\* or its own budget ended it first: either way it ends.
ClickOnSlotAnswers ==
  \A a \in Asks : (a \in inflight /\ pending[SessionOf[a]] = a) ~> Done(a)

\* An ask with a budget never waits for ever, whether or not the operator ever looks
\* (server.rs hold: "deny so CC isn't left hanging").
BoundedAsksEnd == \A a \in Bounded : Asking(a) ~> Done(a)

\* adapters.rs route_approval: a verdict that misses the held hook "leaves the hook
\* hanging", so every client verdict passes through the registry first: a click ends
\* the ask it was made on.
ClickIsHeard == \A a \in Asks : a \in inflight ~> Done(a)
=============================================================================
