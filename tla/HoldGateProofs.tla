--------------------------- MODULE HoldGateProofs ---------------------------
(***************************************************************************)
(* The approval registry strands nobody and keeps the promise of           *)
(* Approvals, for any number of sessions and asks, with or without budgets *)
(* and crashes.                                                            *)
(*                                                                         *)
(* NoAskStranded is not inductive: a verdict routed to a slot is only      *)
(* harmless when the slot's channel is open and its ask is the session's   *)
(* own.  SlotIsOpen says so, and VerdictsAreGiven types what a verdict on  *)
(* its way can write into a channel.                                       *)
(*                                                                         *)
(* The refinement needs one thing more, ApprovalsAreCounted: the approvals *)
(* a session has left, on their way or received, are a number, and an ask  *)
(* that has not registered, or whose time is up, holds none of them.       *)
(*                                                                         *)
(* The last part is about the editors, who hear of the registry's holds by *)
(* facts and by snapshots: HoldsInv says which of those still on their way *)
(* speaks last, and that what it says is so.                               *)
(***************************************************************************)
EXTENDS HoldGate, EditorHolds, FiniteSetTheorems, SequenceTheorems, TLAPS

\* What waits in a slot is an ask of that session, still being asked, whose channel has
\* received nothing (pending.rs PendingApprovals).
SlotIsOpen ==
  \A s \in Sessions :
    pending[s] # None =>
      /\ SessionOf[pending[s]] = s
      /\ stage[pending[s]] \in {"registered", "waiting", "elapsed"}
      /\ reply[pending[s]] = "open"

\* A verdict on its way is one the operator gave.
VerdictsAreGiven == \A a \in inflight : clicked[a] \in Decisions

HoldInv == TypeOK /\ NoAskStranded /\ SlotIsOpen /\ VerdictsAreGiven

-----------------------------------------------------------------------------

\* Registering an ask keeps the registry sound (pending.rs register_held).
LEMMA RegisterKeeps ==
  ASSUME HoldInv, NEW a \in Asks, Register(a), UNCHANGED <<clicked, inflight>>,
         NEW st \in {"registered", "waiting"}, stage' = [stage EXCEPT ![a] = st]
  PROVE  HoldInv'
<1> DEFINE s == SessionOf[a]
<1>1. s \in Sessions /\ a # None
  BY HoldAssumption
<1>2. /\ pending' = [pending EXCEPT ![s] = a]
      /\ reply' = [b \in Asks |-> IF b = a THEN "open"
                                  ELSE IF b = pending[s] THEN "closed" ELSE reply[b]]
  BY DEF Register
<1>3. TypeOK'
  BY <1>1, <1>2 DEF HoldInv, TypeOK, Stages
<1>4. NoAskStranded'
  <2> SUFFICES ASSUME NEW b \in Asks,
                      stage'[b] \in {"registered", "waiting"}, reply'[b] = "open"
               PROVE  pending'[SessionOf[b]] = b
    BY DEF NoAskStranded
  <2>1. CASE b = a
    BY <1>1, <1>2, <2>1 DEF HoldInv, TypeOK
  <2>2. CASE b # a
    <3>1. b # pending[s] /\ reply[b] = "open" /\ stage[b] = stage'[b]
      BY <1>2, <2>2 DEF HoldInv, TypeOK
    <3>2. pending[SessionOf[b]] = b
      BY <3>1 DEF HoldInv, NoAskStranded
    <3>3. SessionOf[b] # s
      BY <3>1, <3>2
    <3>4. QED
      BY <1>1, <1>2, <3>2, <3>3 DEF HoldInv, TypeOK
  <2>3. QED
    BY <2>1, <2>2
<1>5. SlotIsOpen'
  <2> SUFFICES ASSUME NEW t \in Sessions, pending'[t] # None
               PROVE  /\ SessionOf[pending'[t]] = t
                      /\ stage'[pending'[t]] \in {"registered", "waiting", "elapsed"}
                      /\ reply'[pending'[t]] = "open"
    BY DEF SlotIsOpen
  <2>1. CASE t = s
    BY <1>1, <1>2, <2>1 DEF HoldInv, TypeOK
  <2>2. CASE t # s
    <3>1. pending'[t] = pending[t] /\ pending[t] \in Asks
      BY <1>1, <1>2, <2>2 DEF HoldInv, TypeOK
    <3>2. /\ SessionOf[pending[t]] = t /\ reply[pending[t]] = "open"
          /\ stage[pending[t]] \in {"registered", "waiting", "elapsed"}
      BY <3>1 DEF HoldInv, SlotIsOpen
    <3>3. pending[t] # a
      BY <2>2, <3>2
    <3>4. pending[t] # pending[s]
      <4> SUFFICES ASSUME pending[t] = pending[s] PROVE FALSE
        OBVIOUS
      <4>1. pending[s] # None /\ SessionOf[pending[s]] = s
        BY <1>1, <3>1 DEF HoldInv, SlotIsOpen
      <4>2. QED
        BY <2>2, <3>2, <4>1
    <3>5. QED
      BY <1>2, <3>1, <3>2, <3>3, <3>4 DEF HoldInv, TypeOK
  <2>3. QED
    BY <2>1, <2>2
<1>6. VerdictsAreGiven'
  BY DEF HoldInv, VerdictsAreGiven
<1>7. QED
  BY <1>3, <1>4, <1>5, <1>6 DEF HoldInv

\* Emptying a session's slot keeps the registry sound, whatever the ask that was in it
\* is told, when every other ask stays where it is or leaves with its channel spent
\* (pending.rs cancel and resolve).
LEMMA EmptyingKeeps ==
  ASSUME HoldInv, NEW s \in Sessions, TypeOK', VerdictsAreGiven',
         pending' = [pending EXCEPT ![s] = None],
         \A b \in Asks : b # pending[s] => reply'[b] = reply[b],
         pending[s] # None =>
           reply'[pending[s]] # "open" \/ stage'[pending[s]] \notin {"registered", "waiting"},
         \A b \in Asks :
           \/ stage'[b] = stage[b]
           \/ stage'[b] \notin {"registered", "waiting"} /\ SessionOf[b] = s
  PROVE  HoldInv'
<1>1. NoAskStranded'
  <2> SUFFICES ASSUME NEW b \in Asks,
                      stage'[b] \in {"registered", "waiting"}, reply'[b] = "open"
               PROVE  pending'[SessionOf[b]] = b
    BY DEF NoAskStranded
  <2>1. b # pending[s]
    BY HoldAssumption
  <2>2. stage[b] = stage'[b] /\ reply[b] = "open"
    BY <2>1
  <2>3. pending[SessionOf[b]] = b
    BY <2>2 DEF HoldInv, NoAskStranded
  <2>4. QED
    BY <2>1, <2>3, HoldAssumption DEF HoldInv, TypeOK
<1>2. SlotIsOpen'
  <2> SUFFICES ASSUME NEW t \in Sessions, pending'[t] # None
               PROVE  /\ SessionOf[pending'[t]] = t
                      /\ stage'[pending'[t]] \in {"registered", "waiting", "elapsed"}
                      /\ reply'[pending'[t]] = "open"
    BY DEF SlotIsOpen
  <2>1. t # s /\ pending'[t] = pending[t] /\ pending[t] \in Asks
    BY DEF HoldInv, TypeOK
  <2>2. /\ SessionOf[pending[t]] = t /\ reply[pending[t]] = "open"
        /\ stage[pending[t]] \in {"registered", "waiting", "elapsed"}
    BY <2>1 DEF HoldInv, SlotIsOpen
  <2>3. pending[t] # pending[s]
    BY <2>1, <2>2 DEF HoldInv, SlotIsOpen
  <2>4. QED
    BY <2>1, <2>2, <2>3
<1>3. QED
  BY <1>1, <1>2 DEF HoldInv

\* Moving one task on, its channel untouched, keeps the registry sound, unless the task
\* leaves an open channel behind.
LEMMA MovingKeeps ==
  ASSUME HoldInv, NEW a \in Asks, UNCHANGED <<pending, reply, clicked, inflight>>,
         NEW st \in Stages, stage' = [stage EXCEPT ![a] = st],
         \/ /\ stage[a] \notin {"registered", "waiting", "elapsed"}
            /\ st \notin {"registered", "waiting"}
         \/ stage[a] = "registered" /\ st = "waiting"
         \/ stage[a] = "waiting" /\ st = "elapsed"
         \/ reply[a] # "open" /\ st \notin {"registered", "waiting"}
  PROVE  HoldInv'
<1>1. TypeOK' /\ VerdictsAreGiven'
  BY DEF HoldInv, TypeOK, VerdictsAreGiven
<1>2. NoAskStranded'
  BY DEF HoldInv, TypeOK, NoAskStranded
<1>3. SlotIsOpen'
  BY DEF HoldInv, TypeOK, SlotIsOpen
<1>4. QED
  BY <1>1, <1>2, <1>3 DEF HoldInv

-----------------------------------------------------------------------------

\* Every step keeps the registry sound.
LEMMA StepKeeps ==
  ASSUME HoldInv, [Next]_vars
  PROVE  HoldInv'
<1>1. ASSUME NEW a \in Asks, AnnounceHook(a) PROVE HoldInv'
  BY <1>1, MovingKeeps DEF AnnounceHook, MayAsk, Stages
<1>2. ASSUME NEW a \in Asks, RegisterVerb(a) PROVE HoldInv'
  BY <1>2, RegisterKeeps DEF RegisterVerb
<1>3. ASSUME NEW a \in Asks, RegisterHook(a) PROVE HoldInv'
  BY <1>3, RegisterKeeps DEF RegisterHook
<1>4. ASSUME NEW a \in Asks, AnnounceVerb(a) PROVE HoldInv'
  BY <1>4, MovingKeeps DEF AnnounceVerb, Stages
<1>5. ASSUME NEW a \in Asks, Answer(a) PROVE HoldInv'
  BY <1>5, MovingKeeps DEF Answer, Stages
<1>6. ASSUME NEW a \in Asks, Elapse(a) PROVE HoldInv'
  BY <1>6, MovingKeeps DEF Elapse, Stages
<1>7. ASSUME NEW a \in Asks, Cancel(a) PROVE HoldInv'
  <2> DEFINE s == SessionOf[a]
  <2>1. s \in Sessions
    BY HoldAssumption
  <2>2. /\ stage' = [stage EXCEPT ![a] = "denied"]
        /\ pending' = [pending EXCEPT ![s] = None]
        /\ reply' = [b \in Asks |-> IF b = pending[s] THEN "closed" ELSE reply[b]]
        /\ UNCHANGED <<clicked, inflight>>
    BY <1>7 DEF Cancel
  <2>3. TypeOK' /\ VerdictsAreGiven'
    BY <2>1, <2>2 DEF HoldInv, TypeOK, VerdictsAreGiven, Stages
  <2>4. pending[s] # None => reply'[pending[s]] # "open"
    BY <2>1, <2>2 DEF HoldInv, TypeOK
  <2>5. \A b \in Asks : stage'[b] = stage[b] \/ (stage'[b] = "denied" /\ SessionOf[b] = s)
    BY <2>2 DEF HoldInv, TypeOK
  <2>6. QED
    BY <2>1, <2>2, <2>3, <2>4, <2>5, EmptyingKeeps
<1>8. ASSUME NEW a \in Asks, RouteVerdict(a) PROVE HoldInv'
  <2> DEFINE s == SessionOf[a]
  <2>1. /\ s \in Sessions /\ clicked[a] \in Decisions
        /\ inflight' = inflight \ {a} /\ stage' = stage /\ clicked' = clicked
    BY <1>8, HoldAssumption DEF RouteVerdict, HoldInv, VerdictsAreGiven
  <2>2. CASE pending[s] # None /\ pending' # pending
    <3>1. /\ pending[s] \in Asks /\ pending' = [pending EXCEPT ![s] = None]
          /\ reply' = [reply EXCEPT ![pending[s]] =
                         IF stage[pending[s]] = "elapsed" THEN @ ELSE clicked[a]]
      BY <1>8, <2>1, <2>2 DEF RouteVerdict, HoldInv, TypeOK
    <3>2. TypeOK' /\ VerdictsAreGiven'
      BY <2>1, <3>1 DEF HoldInv, TypeOK, VerdictsAreGiven, Stages
    <3>3. reply'[pending[s]] # "open" \/ stage'[pending[s]] = "elapsed"
      BY <2>1, <3>1 DEF HoldInv, TypeOK, Decisions
    <3>4. QED
      BY <2>1, <3>1, <3>2, <3>3, EmptyingKeeps DEF HoldInv, TypeOK
  <2>3. CASE pending' = pending
    <3>1. reply' = reply
      BY <1>8, <2>1, <2>3 DEF RouteVerdict, HoldInv, TypeOK
    <3>2. QED
      BY <2>1, <2>3, <3>1
         DEF HoldInv, TypeOK, NoAskStranded, SlotIsOpen, VerdictsAreGiven
  <2>4. QED
    BY <1>8, <2>2, <2>3 DEF RouteVerdict
<1>9. ASSUME NEW a \in Asks, NEW decision \in Decisions, Click(a, decision) PROVE HoldInv'
  BY <1>9 DEF Click, HoldInv, TypeOK, NoAskStranded, SlotIsOpen, VerdictsAreGiven
<1>10. CASE Crash
  <2>1. TypeOK' /\ VerdictsAreGiven'
    BY <1>10 DEF Crash, HoldInv, TypeOK, VerdictsAreGiven, Stages
  <2>2. NoAskStranded'
    BY <1>10 DEF Crash, NoAskStranded, Asking, Done, HoldInv, TypeOK, Stages
  <2>3. SlotIsOpen'
    BY <1>10 DEF Crash, SlotIsOpen
  <2>4. QED
    BY <2>1, <2>2, <2>3 DEF HoldInv
<1>11. CASE UNCHANGED vars
  BY <1>11 DEF vars, HoldInv, TypeOK, NoAskStranded, SlotIsOpen, VerdictsAreGiven
<1>12. QED
  BY <1>1, <1>2, <1>3, <1>4, <1>5, <1>6, <1>7, <1>8, <1>9, <1>10, <1>11 DEF Next, Task

\* The invariant holds at every moment of every behaviour.
THEOREM AlwaysHeld == Spec => []HoldInv
<1>1. Init => HoldInv
  BY HoldAssumption
     DEF Init, HoldInv, TypeOK, NoAskStranded, SlotIsOpen, VerdictsAreGiven, Stages
<1>2. HoldInv /\ [Next]_vars => HoldInv'
  BY StepKeeps
<1>3. QED
  BY <1>1, <1>2, PTL DEF Spec

\* The registry, the channels and the tasks hold what they can hold.
THEOREM HoldTypeCorrect == Spec => []TypeOK
<1>1. HoldInv => TypeOK
  BY DEF HoldInv
<1>2. QED
  BY <1>1, AlwaysHeld, PTL

\* A waiter whose channel is open is the one a verdict for its session reaches
\* (pending.rs register_held, resolve, cancel).
THEOREM NobodyStranded == Spec => []NoAskStranded
<1>1. HoldInv => NoAskStranded
  BY DEF HoldInv
<1>2. QED
  BY <1>1, AlwaysHeld, PTL

\* A slot never outlives its ask, nor holds another session's.
THEOREM SlotsAreLive == Spec => []SlotIsLive
<1>1. HoldInv => SlotIsLive
  BY DEF HoldInv, SlotIsOpen, SlotIsLive, Asking, Done
<1>2. QED
  BY <1>1, AlwaysHeld, PTL

\* The registry is sound in both directions: no waiter without its slot, no slot without
\* its waiter (pending.rs register_held, resolve, cancel).
THEOREM RegistryStaysSound == Spec => []RegistryIsSound
<1>1. NoAskStranded /\ SlotIsLive => RegistryIsSound
  BY DEF RegistryIsSound
<1>2. QED
  BY <1>1, NobodyStranded, SlotsAreLive, PTL

-----------------------------------------------------------------------------
(* The keystone implements its promise. *)

\* An ask that has not registered has received nothing, and one whose time is up no
\* approval; approvals come one at a time, so there are finitely many.
ApprovalsAreCounted ==
  /\ \A a \in Asks :
       /\ stage[a] \in {"idle", "announced"} => reply[a] = "closed"
       /\ stage[a] = "elapsed" => reply[a] # "approve"
  /\ \A s \in Sessions : IsFiniteSet(OnTheWay(s)) /\ IsFiniteSet(Received(s))

PromiseInv == HoldInv /\ ApprovalsAreCounted

\* Registering spends no approval and brings none: the ask that loses its slot had
\* received nothing (pending.rs register_held).
LEMMA RegisterSpendsNothing ==
  ASSUME PromiseInv, NEW a \in Asks, Register(a), UNCHANGED <<clicked, inflight>>,
         stage[a] \in {"idle", "announced"},
         NEW st \in {"registered", "waiting"}, stage' = [stage EXCEPT ![a] = st]
  PROVE  /\ ApprovalsAreCounted'
         /\ \A s \in Sessions : OnTheWay(s)' = OnTheWay(s) /\ Received(s)' = Received(s)
<1> DEFINE s == SessionOf[a]
<1>1. s \in Sessions
  BY HoldAssumption
<1>2. \A b \in Asks : reply'[b] = IF b = a THEN "open"
                                 ELSE IF b = pending[s] THEN "closed" ELSE reply[b]
  BY DEF Register
<1>3. pending[s] \in Asks => /\ reply[pending[s]] = "open"
                            /\ stage[pending[s]] \in {"registered", "waiting", "elapsed"}
  BY <1>1, HoldAssumption DEF PromiseInv, HoldInv, SlotIsOpen
<1>4. reply[a] = "closed" /\ \A b \in Asks : b # a => stage'[b] = stage[b]
  BY DEF PromiseInv, ApprovalsAreCounted, HoldInv, TypeOK
<1>5. stage'[a] = st
  BY DEF PromiseInv, HoldInv, TypeOK
<1>6. \A b \in Asks : (reply'[b] = "approve" /\ ~Done(b)') <=> (reply[b] = "approve" /\ ~Done(b))
  BY <1>2, <1>3, <1>4 DEF Done
<1>7. \A t \in Sessions : OnTheWay(t)' = OnTheWay(t) /\ Received(t)' = Received(t)
  BY <1>6 DEF OnTheWay, Received
<1>8. \A b \in Asks :
        /\ stage'[b] \in {"idle", "announced"} => reply'[b] = "closed"
        /\ stage'[b] = "elapsed" => reply'[b] # "approve"
  BY <1>2, <1>3, <1>4, <1>5 DEF PromiseInv, ApprovalsAreCounted
<1>9. QED
  BY <1>7, <1>8 DEF PromiseInv, ApprovalsAreCounted

\* Where every ask stands, and what is left for every session, as the promise sees them.
Standing == [a \in Asks |-> Outcome(a)]
Left     == [s \in Sessions |-> Unspent(s)]

\* What a task that moves on means for the promise: its ask stands where its new stage
\* says, and the others stay where they are.
LEMMA StandingMoves ==
  ASSUME TypeOK, NEW a \in Asks, NEW st \in Stages, stage' = [stage EXCEPT ![a] = st]
  PROVE  Standing' = [Standing EXCEPT ![a] = IF st = "idle" THEN "unasked"
                                             ELSE IF st \in {"allowed", "denied"} THEN st
                                             ELSE "asked"]
<1>1. \A b \in Asks : stage'[b] = IF b = a THEN st ELSE stage[b]
  BY DEF TypeOK
<1>2. \A b \in Asks :
        Outcome(b)' = IF b = a THEN IF st = "idle" THEN "unasked"
                                    ELSE IF st \in {"allowed", "denied"} THEN st
                                    ELSE "asked"
                      ELSE Outcome(b)
  BY <1>1 DEF Outcome, Done
<1>3. QED
  BY <1>2 DEF Standing

\* Where nothing is given, received or spent, as much is left as before.
LEMMA NothingSpent ==
  ASSUME \A s \in Sessions : OnTheWay(s)' = OnTheWay(s) /\ Received(s)' = Received(s)
  PROVE  Left' = Left
BY DEF Left, Unspent

\* A step that leaves what every session has, finitely, leaves it counted.
LEMMA StillCounted ==
  ASSUME ApprovalsAreCounted,
         \A s \in Sessions : OnTheWay(s)' = OnTheWay(s) /\ Received(s)' = Received(s),
         \A a \in Asks : /\ stage'[a] \in {"idle", "announced"} => reply'[a] = "closed"
                         /\ stage'[a] = "elapsed" => reply'[a] # "approve"
  PROVE  ApprovalsAreCounted'
BY DEF ApprovalsAreCounted

-----------------------------------------------------------------------------

\* A step of the keystone keeps its promise: a step of Approvals, or none.
Kept == ApprovalsAreCounted' /\ [Promise!Next]_<<Standing, Left>>

\* A hook or a verb that asks (server.rs hold, KeystoneApprovalGate::request).
LEMMA AskingKeeps ==
  ASSUME PromiseInv, NEW a \in Asks, AnnounceHook(a) \/ RegisterVerb(a)
  PROVE  Kept
<1>1. PICK st \in {"announced", "registered"} : stage' = [stage EXCEPT ![a] = st]
  BY DEF AnnounceHook, RegisterVerb
<1>2. stage[a] = "idle" /\ TypeOK
  BY DEF AnnounceHook, RegisterVerb, MayAsk, PromiseInv, HoldInv
<1>3. Standing[a] = "unasked" /\ Standing' = [Standing EXCEPT ![a] = "asked"]
  BY <1>1, <1>2, StandingMoves DEF Standing, Outcome, Stages
<1>4. CASE AnnounceHook(a)
  <2>1. \A b \in Asks : Done(b)' <=> Done(b)
    BY <1>1, <1>2 DEF Done, TypeOK
  <2>2. \A s \in Sessions : OnTheWay(s)' = OnTheWay(s) /\ Received(s)' = Received(s)
    BY <1>4, <2>1 DEF AnnounceHook, OnTheWay, Received
  <2>3. ApprovalsAreCounted'
    BY <1>1, <1>2, <1>4, <2>2, StillCounted
       DEF AnnounceHook, PromiseInv, ApprovalsAreCounted, TypeOK
  <2>4. Promise!Ask(a)
    BY <1>3, <2>2, NothingSpent DEF Promise!Ask, Standing, Left
  <2>5. QED
    BY <2>3, <2>4 DEF Kept, Promise!Next
<1>5. CASE RegisterVerb(a)
  <2>1. /\ ApprovalsAreCounted'
        /\ \A s \in Sessions : OnTheWay(s)' = OnTheWay(s) /\ Received(s)' = Received(s)
    BY <1>2, <1>5, RegisterSpendsNothing DEF RegisterVerb
  <2>2. Promise!Ask(a)
    BY <1>3, <2>1, NothingSpent DEF Promise!Ask, Standing, Left
  <2>3. QED
    BY <2>1, <2>2 DEF Kept, Promise!Next
<1>6. QED
  BY <1>4, <1>5

\* An ask that goes on asking: a hook that registers, a verb that announces, a budget that
\* runs out.
LEMMA WaitingKeeps ==
  ASSUME PromiseInv, NEW a \in Asks, RegisterHook(a) \/ AnnounceVerb(a) \/ Elapse(a)
  PROVE  Kept
<1>1. PICK st \in {"waiting", "elapsed"} : stage' = [stage EXCEPT ![a] = st]
  BY DEF RegisterHook, AnnounceVerb, Elapse
<1>2. stage[a] \in {"announced", "registered", "waiting"} /\ TypeOK
  BY DEF RegisterHook, AnnounceVerb, Elapse, PromiseInv, HoldInv
<1>3. Standing' = Standing
  <2>1. Standing' = [Standing EXCEPT ![a] = "asked"]
    BY <1>1, <1>2, StandingMoves DEF Stages
  <2>2. Standing[a] = "asked"
    BY <1>2 DEF Standing, Outcome, Done
  <2>3. QED
    BY <2>1, <2>2 DEF Standing
<1>4. CASE RegisterHook(a)
  <2>1. /\ ApprovalsAreCounted'
        /\ \A s \in Sessions : OnTheWay(s)' = OnTheWay(s) /\ Received(s)' = Received(s)
    BY <1>4, RegisterSpendsNothing DEF RegisterHook
  <2>2. QED
    BY <1>3, <2>1, NothingSpent DEF Kept
<1>5. CASE AnnounceVerb(a) \/ Elapse(a)
  <2>1. UNCHANGED <<pending, reply, clicked, inflight>>
    BY <1>5 DEF AnnounceVerb, Elapse
  <2>2. \A b \in Asks : Done(b)' <=> Done(b)
    BY <1>1, <1>2 DEF Done, TypeOK
  <2>3. \A s \in Sessions : OnTheWay(s)' = OnTheWay(s) /\ Received(s)' = Received(s)
    BY <2>1, <2>2 DEF OnTheWay, Received
  <2>4. stage'[a] = "elapsed" => reply[a] = "open"
    BY <1>2, <1>5 DEF AnnounceVerb, Elapse, TypeOK
  <2>5. ApprovalsAreCounted'
    BY <1>1, <1>2, <2>1, <2>3, <2>4, StillCounted DEF PromiseInv, ApprovalsAreCounted, TypeOK
  <2>6. QED
    BY <1>3, <2>3, <2>5, NothingSpent DEF Kept
<1>6. QED
  BY <1>4, <1>5

\* A task that receives its answer spends the approval it received, and denies without one
\* (server.rs hold, the match on the receiver).
LEMMA AnsweringKeeps ==
  ASSUME PromiseInv, NEW a \in Asks, Answer(a)
  PROVE  Kept
<1> DEFINE t == SessionOf[a]
<1>1. /\ TypeOK /\ stage[a] = "waiting" /\ t \in Sessions
      /\ UNCHANGED <<pending, reply, clicked, inflight>>
  BY HoldAssumption DEF Answer, PromiseInv, HoldInv
<1>2. \A s \in Sessions : OnTheWay(s)' = OnTheWay(s)
  BY <1>1 DEF OnTheWay
<1>3. Standing[a] = "asked"
  BY <1>1 DEF Standing, Outcome, Done
<1>4. CASE reply[a] = "approve"
  <2>1. stage' = [stage EXCEPT ![a] = "allowed"]
    BY <1>4 DEF Answer
  <2>2. Standing' = [Standing EXCEPT ![a] = "allowed"]
    BY <1>1, <2>1, StandingMoves DEF Stages
  <2>3. a \in Received(t)
    BY <1>1, <1>4 DEF Received, Done
  <2>4. \A b \in Asks : Done(b)' <=> Done(b) \/ b = a
    BY <1>1, <2>1 DEF Done, TypeOK
  <2>5. Received(t)' = Received(t) \ {a}
    BY <1>1, <2>4 DEF Received
  <2>6. \A s \in Sessions : s # t => Received(s)' = Received(s)
    BY <1>1, <2>4 DEF Received
  <2>7. /\ IsFiniteSet(Received(t)') /\ IsFiniteSet(Received(t))
        /\ Cardinality(Received(t))' = Cardinality(Received(t)) - 1
    BY <1>1, <2>3, <2>5, FS_RemoveElement DEF PromiseInv, ApprovalsAreCounted
  <2>8. Unspent(t)' = Unspent(t) - 1 /\ Unspent(t) > 0
    <3>1. Cardinality(OnTheWay(t)) \in Nat /\ Cardinality(Received(t)) \in Nat
      BY <1>1, FS_CardinalityType DEF PromiseInv, ApprovalsAreCounted
    <3>2. Cardinality(Received(t)) # 0
      BY <2>3, <2>7, FS_EmptySet
    <3>3. Cardinality(OnTheWay(t))' = Cardinality(OnTheWay(t))
      BY <1>1, <1>2
    <3>4. QED
      BY <2>7, <3>1, <3>2, <3>3 DEF Unspent
  <2>9. Left' = [Left EXCEPT ![t] = @ - 1] /\ Left[t] > 0
    <3>1. \A s \in Sessions : s # t => Unspent(s)' = Unspent(s)
      BY <1>2, <2>6 DEF Unspent
    <3>2. QED
      BY <1>1, <2>8, <3>1 DEF Left
  <2>10. Promise!Allow(a)
    BY <1>3, <2>2, <2>9 DEF Promise!Allow, Standing, Left
  <2>11. ApprovalsAreCounted'
    BY <1>1, <1>2, <2>1, <2>6, <2>7 DEF PromiseInv, ApprovalsAreCounted, TypeOK
  <2>12. QED
    BY <2>10, <2>11 DEF Kept, Promise!Next
<1>5. CASE reply[a] # "approve"
  <2>1. stage' = [stage EXCEPT ![a] = "denied"]
    BY <1>5 DEF Answer
  <2>2. Standing' = [Standing EXCEPT ![a] = "denied"]
    BY <1>1, <2>1, StandingMoves DEF Stages
  <2>3. \A b \in Asks : reply[b] = "approve" => (Done(b)' <=> Done(b))
    BY <1>1, <1>5, <2>1 DEF Done, TypeOK
  <2>4. \A s \in Sessions : Received(s)' = Received(s)
    BY <1>1, <2>3 DEF Received
  <2>5. Promise!Deny(a)
    BY <1>2, <1>3, <2>2, <2>4, NothingSpent DEF Promise!Deny, Standing, Left
  <2>6. ApprovalsAreCounted'
    BY <1>1, <1>2, <2>1, <2>4, StillCounted DEF PromiseInv, ApprovalsAreCounted, TypeOK
  <2>7. QED
    BY <2>5, <2>6 DEF Kept, Promise!Next
<1>6. QED
  BY <1>4, <1>5

\* A hold whose time is up denies; the ask it takes from the slot had received nothing
\* (pending.rs cancel).
LEMMA CancellingKeeps ==
  ASSUME PromiseInv, NEW a \in Asks, Cancel(a)
  PROVE  Kept
<1> DEFINE t == SessionOf[a]
<1>1. /\ TypeOK /\ t \in Sessions /\ stage[a] = "elapsed" /\ reply[a] # "approve"
      /\ stage' = [stage EXCEPT ![a] = "denied"] /\ UNCHANGED <<clicked, inflight>>
  BY HoldAssumption DEF Cancel, PromiseInv, HoldInv, ApprovalsAreCounted
<1>2. \A b \in Asks : reply'[b] = IF b = pending[t] THEN "closed" ELSE reply[b]
  BY DEF Cancel
<1>3. pending[t] \in Asks => reply[pending[t]] = "open"
  BY <1>1, HoldAssumption DEF PromiseInv, HoldInv, SlotIsOpen
<1>4. Standing' = [Standing EXCEPT ![a] = "denied"] /\ Standing[a] = "asked"
  <2>1. Standing' = [Standing EXCEPT ![a] = "denied"]
    BY <1>1, StandingMoves DEF Stages
  <2>2. QED
    BY <1>1, <2>1 DEF Standing, Outcome, Done
<1>5. \A b \in Asks : (reply'[b] = "approve" /\ ~Done(b)') <=> (reply[b] = "approve" /\ ~Done(b))
  BY <1>1, <1>2, <1>3 DEF Done, TypeOK
<1>6. \A s \in Sessions : OnTheWay(s)' = OnTheWay(s) /\ Received(s)' = Received(s)
  BY <1>1, <1>5 DEF OnTheWay, Received
<1>7. ApprovalsAreCounted'
  <2>1. \A b \in Asks : stage'[b] \in {"idle", "announced", "elapsed"} => stage'[b] = stage[b]
    BY <1>1 DEF TypeOK
  <2>2. \A b \in Asks : /\ stage'[b] \in {"idle", "announced"} => reply'[b] = "closed"
                        /\ stage'[b] = "elapsed" => reply'[b] # "approve"
    BY <1>2, <2>1 DEF PromiseInv, ApprovalsAreCounted
  <2>3. QED
    BY <1>6, <2>2, StillCounted DEF PromiseInv
<1>8. Promise!Deny(a)
  BY <1>4, <1>6, NothingSpent DEF Promise!Deny, Standing, Left
<1>9. QED
  BY <1>7, <1>8 DEF Kept, Promise!Next

\* A click gives an approval, or nothing.
LEMMA ClickingKeeps ==
  ASSUME PromiseInv, NEW a \in Asks, NEW decision \in Decisions, Click(a, decision)
  PROVE  Kept
<1> DEFINE t == SessionOf[a]
<1>1. /\ TypeOK /\ t \in Sessions /\ clicked[a] = "none"
      /\ clicked' = [clicked EXCEPT ![a] = decision] /\ inflight' = inflight \cup {a}
      /\ UNCHANGED <<stage, pending, reply>>
  BY HoldAssumption DEF Click, PromiseInv, HoldInv
<1>2. Standing' = Standing
  BY <1>1 DEF Standing, Outcome, Done
<1>3. \A s \in Sessions : Received(s)' = Received(s)
  BY <1>1 DEF Received, Done
<1>4. a \notin OnTheWay(t)
  BY <1>1 DEF OnTheWay
<1>5. CASE decision = "approve"
  <2>1. OnTheWay(t)' = OnTheWay(t) \cup {a}
    BY <1>1, <1>5 DEF OnTheWay, TypeOK
  <2>2. \A s \in Sessions : s # t => OnTheWay(s)' = OnTheWay(s)
    BY <1>1 DEF OnTheWay, TypeOK
  <2>3. /\ IsFiniteSet(OnTheWay(t)') /\ IsFiniteSet(OnTheWay(t))
        /\ Cardinality(OnTheWay(t))' = Cardinality(OnTheWay(t)) + 1
    BY <1>1, <1>4, <2>1, FS_AddElement DEF PromiseInv, ApprovalsAreCounted
  <2>4. Unspent(t)' = Unspent(t) + 1
    <3>1. Cardinality(OnTheWay(t)) \in Nat /\ Cardinality(Received(t)) \in Nat
      BY <1>1, FS_CardinalityType DEF PromiseInv, ApprovalsAreCounted
    <3>2. Cardinality(Received(t))' = Cardinality(Received(t))
      BY <1>1, <1>3
    <3>3. QED
      BY <2>3, <3>1, <3>2 DEF Unspent
  <2>5. Left' = [Left EXCEPT ![t] = @ + 1]
    <3>1. \A s \in Sessions : s # t => Unspent(s)' = Unspent(s)
      BY <1>3, <2>2 DEF Unspent
    <3>2. QED
      BY <1>1, <2>4, <3>1 DEF Left
  <2>6. Promise!Approve(t)
    BY <1>2, <2>5 DEF Promise!Approve, Standing, Left
  <2>7. ApprovalsAreCounted'
    BY <1>1, <1>3, <2>2, <2>3 DEF PromiseInv, ApprovalsAreCounted
  <2>8. QED
    BY <1>1, <2>6, <2>7 DEF Kept, Promise!Next
<1>6. CASE decision # "approve"
  <2>1. \A s \in Sessions : OnTheWay(s)' = OnTheWay(s)
    BY <1>1, <1>6 DEF OnTheWay, TypeOK
  <2>2. ApprovalsAreCounted'
    BY <1>1, <1>3, <2>1 DEF PromiseInv, ApprovalsAreCounted
  <2>3. QED
    BY <1>2, <1>3, <2>1, <2>2, NothingSpent DEF Kept
<1>7. QED
  BY <1>5, <1>6

\* An approval that arrives passes to the ask in its session's slot, or is wasted
\* (route_approval, pending.rs resolve).
LEMMA RoutingKeeps ==
  ASSUME PromiseInv, NEW a \in Asks, RouteVerdict(a)
  PROVE  Kept
<1> DEFINE t == SessionOf[a]
           b == pending[t]
<1>1. /\ TypeOK /\ t \in Sessions /\ a \in inflight /\ inflight' = inflight \ {a}
      /\ clicked[a] \in Decisions /\ UNCHANGED <<stage, clicked>>
  BY HoldAssumption DEF RouteVerdict, PromiseInv, HoldInv, VerdictsAreGiven
<1>2. /\ Standing' = Standing
      /\ \A c \in Asks : Done(c)' <=> Done(c)
  BY <1>1 DEF Standing, Outcome, Done
<1>3. \A s \in Sessions : s # t => OnTheWay(s)' = OnTheWay(s)
  BY <1>1 DEF OnTheWay
<1>4. IsFiniteSet(OnTheWay(t)) /\ IsFiniteSet(Received(t))
  BY <1>1 DEF PromiseInv, ApprovalsAreCounted
<1>5. Cardinality(OnTheWay(t)) \in Nat /\ Cardinality(Received(t)) \in Nat
  BY <1>4, FS_CardinalityType
<1>6. OnTheWay(t)' = OnTheWay(t) \ {a}
  BY <1>1 DEF OnTheWay
<1>7. /\ IsFiniteSet(OnTheWay(t)')
      /\ Cardinality(OnTheWay(t))' = IF clicked[a] = "approve" THEN Cardinality(OnTheWay(t)) - 1
                                     ELSE Cardinality(OnTheWay(t))
  <2>1. a \in OnTheWay(t) <=> clicked[a] = "approve"
    BY <1>1 DEF OnTheWay
  <2>2. QED
    BY <1>4, <1>6, <2>1, FS_RemoveElement
<1>8. CASE reply' = reply
  <2>1. \A s \in Sessions : Received(s)' = Received(s)
    BY <1>2, <1>8 DEF Received
  <2>2. ApprovalsAreCounted'
    BY <1>1, <1>3, <1>7, <1>8, <2>1 DEF PromiseInv, ApprovalsAreCounted
  <2>3. Cardinality(Received(t))' = Cardinality(Received(t))
    BY <1>1, <2>1
  <2>4. \A s \in Sessions : s # t => Unspent(s)' = Unspent(s)
    BY <1>3, <2>1 DEF Unspent
  <2>5. CASE clicked[a] = "approve"
    <3>1. a \in OnTheWay(t)
      BY <1>1, <2>5 DEF OnTheWay
    <3>2. Cardinality(OnTheWay(t)) # 0
      BY <1>4, <3>1, FS_EmptySet
    <3>3. Unspent(t)' = Unspent(t) - 1 /\ Unspent(t) > 0
      BY <1>5, <1>7, <2>3, <2>5, <3>2 DEF Unspent
    <3>4. Promise!Waste(t)
      BY <1>1, <1>2, <2>4, <3>3 DEF Promise!Waste, Standing, Left
    <3>5. QED
      BY <1>1, <2>2, <3>4 DEF Kept, Promise!Next
  <2>6. CASE clicked[a] # "approve"
    <3>1. Unspent(t)' = Unspent(t)
      BY <1>7, <2>3, <2>6 DEF Unspent
    <3>2. Left' = Left
      BY <2>4, <3>1 DEF Left
    <3>3. QED
      BY <1>2, <2>2, <3>2 DEF Kept
  <2>7. QED
    BY <2>5, <2>6
<1>9. CASE reply' # reply
  <2>1. /\ b \in Asks /\ SessionOf[b] = t /\ reply[b] = "open"
        /\ stage[b] \in {"registered", "waiting"}
        /\ reply' = [reply EXCEPT ![b] = clicked[a]]
    <3>1. /\ b # None
          /\ reply' = [reply EXCEPT ![b] = IF stage[b] = "elapsed" THEN @ ELSE clicked[a]]
      BY <1>9 DEF RouteVerdict
    <3>2. /\ b \in Asks /\ SessionOf[b] = t /\ reply[b] = "open"
          /\ stage[b] \in {"registered", "waiting", "elapsed"}
      BY <1>1, <3>1 DEF PromiseInv, HoldInv, TypeOK, SlotIsOpen
    <3>3. stage[b] # "elapsed"
      BY <1>1, <1>9, <3>1, <3>2 DEF TypeOK
    <3>4. QED
      BY <3>1, <3>2, <3>3
  <2>2. \A s \in Sessions : s # t => Received(s)' = Received(s)
    BY <1>1, <1>2, <2>1 DEF Received, TypeOK
  <2>3. b \notin Received(t) /\ ~Done(b)
    BY <2>1 DEF Received, Done
  <2>4. Received(t)' = IF clicked[a] = "approve" THEN Received(t) \cup {b} ELSE Received(t)
    <3>1. \A c \in Asks : reply'[c] = IF c = b THEN clicked[a] ELSE reply[c]
      BY <1>1, <2>1 DEF TypeOK
    <3>2. QED
      BY <1>2, <2>1, <2>3, <3>1 DEF Received
  <2>5. /\ IsFiniteSet(Received(t)')
        /\ Cardinality(Received(t))' = IF clicked[a] = "approve" THEN Cardinality(Received(t)) + 1
                                       ELSE Cardinality(Received(t))
    BY <1>4, <2>3, <2>4, FS_AddElement
  <2>6. Unspent(t)' = Unspent(t)
    BY <1>5, <1>7, <2>5 DEF Unspent
  <2>7. Left' = Left
    <3>1. \A s \in Sessions : s # t => Unspent(s)' = Unspent(s)
      BY <1>3, <2>2 DEF Unspent
    <3>2. QED
      BY <2>6, <3>1 DEF Left
  <2>8. ApprovalsAreCounted'
    <3>1. \A c \in Asks : /\ stage'[c] \in {"idle", "announced"} => reply'[c] = "closed"
                          /\ stage'[c] = "elapsed" => reply'[c] # "approve"
      BY <1>1, <2>1 DEF PromiseInv, ApprovalsAreCounted, TypeOK
    <3>2. \A s \in Sessions : IsFiniteSet(OnTheWay(s)') /\ IsFiniteSet(Received(s)')
      BY <1>3, <1>7, <2>2, <2>5 DEF PromiseInv, ApprovalsAreCounted
    <3>3. QED
      BY <3>1, <3>2 DEF ApprovalsAreCounted
  <2>9. QED
    BY <1>2, <2>7, <2>8 DEF Kept
<1>10. QED
  BY <1>8, <1>9

\* The process dies: what is asked ends, and what was given is lost (query_hook's
\* fail_open).
LEMMA DyingKeeps ==
  ASSUME PromiseInv, Crash
  PROVE  Kept
<1>1. /\ TypeOK /\ inflight' = {}
      /\ stage' = [a \in Asks |-> IF ~Asking(a) THEN stage[a]
                                  ELSE IF a \in Hooks THEN "allowed" ELSE "denied"]
      /\ reply' = [a \in Asks |-> IF Asking(a) THEN "closed" ELSE reply[a]]
  BY DEF Crash, PromiseInv, HoldInv
<1>2. \A a \in Asks : Asking(a) <=> stage[a] # "idle" /\ stage[a] \notin {"allowed", "denied"}
  BY DEF Asking, Done
<1>3. \A a \in Asks : stage'[a] = "idle" \/ stage'[a] \in {"allowed", "denied"}
  BY <1>1, <1>2
<1>4. \A a \in Asks : stage'[a] = "idle" => reply'[a] = "closed"
  BY <1>1, <1>2 DEF PromiseInv, ApprovalsAreCounted
<1>5. \A s \in Sessions : OnTheWay(s)' = {} /\ Received(s)' = {}
  <2>1. \A a \in Asks : reply'[a] = "approve" => Done(a)'
    BY <1>3, <1>4 DEF Done
  <2>2. QED
    BY <1>1, <2>1 DEF OnTheWay, Received
<1>6. ApprovalsAreCounted'
  BY <1>3, <1>4, <1>5, FS_EmptySet DEF ApprovalsAreCounted
<1>7. Left' = [s \in Sessions |-> 0]
  <2>1. \A s \in Sessions : Unspent(s)' = 0
    BY <1>5, FS_EmptySet DEF Unspent
  <2>2. QED
    BY <2>1 DEF Left
<1>8. \A a \in Asks : Outcome(a)' = IF Outcome(a) # "asked" THEN Outcome(a)
                                    ELSE IF a \in Hooks THEN "allowed" ELSE "denied"
  BY <1>1, <1>2 DEF Outcome, Done
<1>9. Promise!Lose
  BY <1>7, <1>8 DEF Promise!Lose, Standing, Left
<1>10. QED
  BY <1>6, <1>9 DEF Kept, Promise!Next

\* Every step of the keystone keeps its promise.
LEMMA StepIsPromised ==
  ASSUME PromiseInv, [Next]_vars
  PROVE  PromiseInv' /\ [Promise!Next]_<<Standing, Left>>
<1>1. HoldInv'
  BY StepKeeps DEF PromiseInv
<1>2. Kept
  <2>1. CASE UNCHANGED vars
    <3>1. \A s \in Sessions : OnTheWay(s)' = OnTheWay(s) /\ Received(s)' = Received(s)
      BY <2>1 DEF vars, OnTheWay, Received, Done
    <3>2. Standing' = Standing
      BY <2>1 DEF vars, Standing, Outcome, Done
    <3>3. ApprovalsAreCounted'
      BY <2>1, <3>1 DEF vars, PromiseInv, ApprovalsAreCounted
    <3>4. QED
      BY <3>1, <3>2, <3>3, NothingSpent DEF Kept
  <2>2. QED
    BY <2>1, AskingKeeps, WaitingKeeps, AnsweringKeeps, CancellingKeeps, ClickingKeeps,
       RoutingKeeps, DyingKeeps
       DEF Next, Task
<1>3. QED
  BY <1>1, <1>2 DEF Kept, PromiseInv

\* One approval allows at most one ask, of its own session, and nothing is allowed without
\* one but what a dying process lets go: for any sessions and asks, with budgets, crashes
\* and asks at once (pending.rs, server.rs hold).
THEOREM PromiseIsKept == Spec => ImplementsApprovals
<1>1. Init => PromiseInv
  <2>1. ASSUME Init PROVE HoldInv
    BY <2>1, HoldAssumption
       DEF Init, HoldInv, TypeOK, NoAskStranded, SlotIsOpen, VerdictsAreGiven, Stages
  <2>2. ASSUME Init PROVE ApprovalsAreCounted
    <3>1. \A s \in Sessions : OnTheWay(s) = {} /\ Received(s) = {}
      BY <2>2 DEF Init, OnTheWay, Received
    <3>2. QED
      BY <2>2, <3>1, FS_EmptySet DEF Init, ApprovalsAreCounted
  <2>3. QED
    BY <2>1, <2>2 DEF PromiseInv
<1>2. Init => Promise!Init
  <2> SUFFICES ASSUME Init PROVE Promise!Init
    OBVIOUS
  <2>1. \A s \in Sessions : OnTheWay(s) = {} /\ Received(s) = {}
    BY DEF Init, OnTheWay, Received
  <2>2. \A s \in Sessions : Unspent(s) = 0
    BY <2>1, FS_EmptySet DEF Unspent
  <2>3. \A a \in Asks : Outcome(a) = "unasked"
    BY DEF Init, Outcome
  <2>4. QED
    BY <2>2, <2>3 DEF Promise!Init
<1>3. PromiseInv /\ [Next]_vars => PromiseInv' /\ [Promise!Next]_Promise!vars
  BY StepIsPromised DEF Promise!vars, Standing, Left
<1>4. QED
  BY <1>1, <1>2, <1>3, PTL DEF Spec, ImplementsApprovals, Promise!Spec

-----------------------------------------------------------------------------
(* What an editor shows of the held approvals                              *)

\* The facts that say which hold there is, and those that say which plan was heard.
HoldKinds == {"request", "released", "removed"}
PlanKinds == {"plan", "removed"}
SaidKinds == {"plan", "request", "waiting"}
FactKinds == HoldKinds \cup PlanKinds \cup SaidKinds

Facts ==
  {f \in [kind : FactKinds, hold : Nat, timely : BOOLEAN] :
     f.kind \in {"released", "removed"} => f.hold = 0}

Reads == [stage : {"idle", "asked", "served"}, hold : Nat, ahead : Nat, whole : BOOLEAN]

HoldsTyped ==
  /\ proposals \subseteq Nat \ {0}
  /\ latest \in Nat /\ entering \in Nat /\ waiter \in Nat
  /\ saying \in Seq(SaidKinds) /\ releasing \in BOOLEAN
  /\ link \in {"down", "open", "cut"}
  /\ stream \in [{Editor} -> Bus!Channel(Facts)]
  /\ reads \in [ReadIds -> Reads]
  /\ held \in [hold : Nat, plan : Nat] /\ planText \in Nat /\ sure \in BOOLEAN

Facing == stream[Editor].queue

\* The daemon has still to publish which hold there is, or its plan.
HoldToSay == releasing \/ \E i \in 1..Len(saying) : saying[i] = "request"
PlanToSay == \E i \in 1..Len(saying) : saying[i] = "plan"

PlanComing == ~PlanToSay /\ Coming \in proposals

NoneAfter(queue, n, kinds) == \A j \in 1..Len(queue) : j > n => queue[j].kind \notin kinds

\* Of the facts on their way the last that says so, if it was true, is true still.
QueueTells ==
  link = "open" =>
    \A i \in 1..Len(Facing) :
      Facing[i].timely =>
        /\ Facing[i].kind \in HoldKinds /\ NoneAfter(Facing, i, HoldKinds) /\ ~HoldToSay =>
             Facing[i].hold = Coming
        /\ Facing[i].kind \in PlanKinds /\ NoneAfter(Facing, i, PlanKinds) /\ PlanComing =>
             Facing[i].hold = Coming

Whole == link = "open" /\ ~stream[Editor].lagged

\* What no fact on its way will say, the editor has right.
ShownTells ==
  Whole /\ sure =>
    /\ NoneAfter(Facing, 0, HoldKinds) /\ ~HoldToSay => held.hold = Coming
    /\ NoneAfter(Facing, 0, PlanKinds) /\ PlanComing => planText = Coming
    /\ /\ NoneAfter(Facing, 0, HoldKinds) /\ ~HoldToSay
       /\ NoneAfter(Facing, 0, PlanKinds) /\ PlanComing
       => held.plan = Coming

\* What no fact published since will say, an answer that is whole has right.
ReadsTell ==
  \A r \in ReadIds :
    Whole /\ reads[r].whole =>
      /\ reads[r].ahead <= Len(Facing)
      /\ NoneAfter(Facing, reads[r].ahead, HoldKinds) /\ ~HoldToSay => reads[r].hold = Coming
      /\ NoneAfter(Facing, reads[r].ahead, PlanKinds) /\ PlanComing => reads[r].hold = Coming

\* Nothing is whole that was not heard over an open stream, and only a plan hold has a plan.
ClientSound ==
  /\ link = "down" => Facing = <<>> /\ ~sure /\ \A r \in ReadIds : ~reads[r].whole
  /\ \A r \in ReadIds : reads[r].whole => reads[r].stage = "served"
  /\ held.hold \notin proposals => held.plan = 0

HoldsInv == HoldsTyped /\ QueueTells /\ ShownTells /\ ReadsTell /\ ClientSound

\* What the editor's channel holds after one more fact: the facts it had but the first few,
\* dropped only by telling so, and the new one.
LEMMA StreamTakes ==
  ASSUME HoldsTyped, NEW f \in Facts, Bus!Publish(<<f>>)
  PROVE  /\ stream' \in [{Editor} -> Bus!Channel(Facts)]
         /\ \E d \in 0..Len(Facing) :
              /\ Len(Facing') = Len(Facing) + 1 - d
              /\ \A i \in 1..Len(Facing') :
                   Facing'[i] = IF i + d <= Len(Facing) THEN Facing[i + d] ELSE f
              /\ d # 0 => stream'[Editor].lagged
              /\ d = 0 => stream'[Editor].lagged = stream[Editor].lagged
<1> DEFINE q == Facing
<1> DEFINE all == q \o <<f>>
<1> DEFINE over == Len(all) - Backlog
<1>1. /\ q \in Seq(Facts) /\ stream[Editor].lagged \in BOOLEAN /\ Len(q) \in Nat
      /\ Backlog \in Nat \ {0}
  BY EditorHoldsAssumption DEF HoldsTyped, Bus!Channel, Facing
<1>2. /\ all \in Seq(Facts) /\ Len(all) = Len(q) + 1
      /\ \A i \in 1..Len(q) + 1 : all[i] = IF i <= Len(q) THEN q[i] ELSE f
  BY <1>1
<1>3. stream' = [r \in {Editor} |-> Bus!Deliver(stream[r], <<f>>)]
  BY DEF Bus!Publish
<1>4. CASE Len(all) > Backlog
  <2> DEFINE kept == SubSeq(all, over + 1, Len(all))
  <2>1. stream'[Editor] = [queue |-> kept, lagged |-> TRUE]
    BY <1>3, <1>4 DEF Bus!Deliver, Facing
  <2> HIDE DEF all, q
  <2>2. over \in 1..Len(q)
    BY <1>1, <1>2, <1>4
  <2>3. /\ kept \in Seq(Facts) /\ Len(kept) = Len(q) + 1 - over
        /\ \A i \in 1..Len(kept) : kept[i] = all[i + over]
    <3> DEFINE m == over + 1
    <3>1. m \in Int /\ Len(all) \in Int /\ m <= Len(all) /\ \A i \in m..Len(all) : all[i] \in Facts
      BY <1>1, <1>2, <2>2
    <3>2. /\ SubSeq(all, m, Len(all)) \in Seq(Facts)
          /\ Len(SubSeq(all, m, Len(all))) = Len(all) - m + 1
          /\ \A i \in 1..Len(all) - m + 1 : SubSeq(all, m, Len(all))[i] = all[m + i - 1]
      BY <3>1, SubSeqProperties
    <3> HIDE DEF over
    <3>3. Len(kept) = Len(q) + 1 - over /\ Len(all) - m + 1 = Len(q) + 1 - over
      BY <1>1, <1>2, <2>2, <3>2
    <3>4. \A i \in 1..Len(kept) : m + i - 1 = i + over
      BY <1>1, <2>2, <3>3
    <3>5. QED
      BY <3>2, <3>3, <3>4
  <2>4. \A i \in 1..Len(kept) : kept[i] = IF i + over <= Len(q) THEN q[i + over] ELSE f
    <3> HIDE DEF kept, over
    <3>1. \A i \in 1..Len(kept) : i + over \in 1..Len(q) + 1
      BY <1>1, <2>2, <2>3
    <3>2. QED
      BY <1>2, <2>3, <3>1
  <2> HIDE DEF kept, over
  <2>5. Facing' = kept /\ stream'[Editor].lagged = TRUE
    BY <2>1 DEF Facing
  <2>6. stream' \in [{Editor} -> Bus!Channel(Facts)]
    <3>1. [queue |-> kept, lagged |-> TRUE] \in Bus!Channel(Facts)
      BY <2>3 DEF Bus!Channel
    <3>2. stream'[Editor] \in Bus!Channel(Facts)
      BY <2>1, <3>1
    <3>3. stream' = [r \in {Editor} |-> stream'[r]]
      BY <1>3
    <3>4. QED
      BY <3>2, <3>3
  <2>7. over # 0 /\ over \in 0..Len(q)
    BY <1>1, <2>2
  <2>8. QED
    BY <2>3, <2>4, <2>5, <2>6, <2>7 DEF q
<1>5. CASE ~(Len(all) > Backlog)
  <2>1. stream'[Editor] = [queue |-> all, lagged |-> stream[Editor].lagged]
    BY <1>3, <1>5 DEF Bus!Deliver, Facing
  <2> HIDE DEF all, q
  <2>2. Facing' = all /\ stream'[Editor].lagged = stream[Editor].lagged
    BY <2>1 DEF Facing
  <2>3. stream' \in [{Editor} -> Bus!Channel(Facts)]
    BY <1>1, <1>2, <1>3, <2>1 DEF Bus!Channel
  <2>4. /\ 0 \in 0..Len(q) /\ Len(all) = Len(q) + 1 - 0
        /\ \A i \in 1..Len(all) : i + 0 = i /\ i \in 1..Len(q) + 1
    BY <1>1, <1>2
  <2>5. \A i \in 1..Len(all) : all[i] = IF i + 0 <= Len(q) THEN q[i + 0] ELSE f
    BY <1>2, <2>4
  <2>6. QED
    BY <2>2, <2>3, <2>4, <2>5 DEF q
<1>6. QED
  BY <1>4, <1>5

\* When no fact of some kinds comes after a place in a longer queue, none did in the shorter
\* one, and the new fact is of none of them.
LEMMA NoneBefore ==
  ASSUME NEW queue, NEW longer, NEW f, NEW d \in Nat, Len(queue) \in Nat, d <= Len(queue),
         Len(longer) = Len(queue) + 1 - d,
         \A i \in 1..Len(longer) : longer[i] = IF i + d <= Len(queue) THEN queue[i + d] ELSE f,
         NEW n \in Nat, n + d <= Len(queue), NEW kinds, NoneAfter(longer, n, kinds)
  PROVE  NoneAfter(queue, n + d, kinds) /\ f.kind \notin kinds
<1>1. f.kind \notin kinds
  <2> DEFINE m == Len(queue) + 1 - d
  <2>1. m \in 1..Len(longer) /\ m > n /\ m + d > Len(queue)
    OBVIOUS
  <2> HIDE DEF m
  <2>2. longer[m] = f
    BY <2>1
  <2>3. QED
    BY <2>1, <2>2 DEF NoneAfter
<1>2. ASSUME NEW j \in 1..Len(queue), j > n + d PROVE queue[j].kind \notin kinds
  <2> DEFINE i == j - d
  <2>1. i \in 1..Len(longer) /\ i > n /\ i + d = j
    BY <1>2
  <2> HIDE DEF i
  <2>2. longer[i] = queue[j]
    BY <2>1
  <2>3. QED
    BY <2>1, <2>2 DEF NoneAfter
<1>3. QED
  BY <1>1, <1>2 DEF NoneAfter

\* Whether a fact is true of the registry is true or false.
LEMMA TellsTyped == ASSUME NEW kind \in FactKinds, NEW n PROVE Tells(kind, n) \in BOOLEAN
<1>1. CASE kind = "request"
  BY <1>1, Zenon DEF Tells
<1>2. CASE kind \in {"released", "removed"}
  <2>1. kind # "request"
    BY <1>2
  <2>2. QED
    BY <1>2, <2>1, Zenon DEF Tells
<1>3. CASE kind = "plan"
  <2>1. kind # "request" /\ kind \notin {"released", "removed"}
    BY <1>3
  <2>2. QED
    BY <1>3, <2>1, Zenon DEF Tells
<1>4. CASE kind = "waiting"
  <2>1. kind # "request" /\ kind \notin {"released", "removed"} /\ kind # "plan"
    BY <1>4
  <2>2. QED
    BY <1>4, <2>1, Zenon DEF Tells
<1>5. QED
  BY <1>1, <1>2, <1>3, <1>4 DEF FactKinds, HoldKinds, PlanKinds, SaidKinds

\* A fact that was true of the registry says what is coming.
LEMMA TimelyTells ==
  ASSUME NEW kind, NEW n, Fact(kind, n) \in Facts, Tells(kind, n)
  PROVE  /\ kind \in HoldKinds => n = Coming
         /\ kind \in PlanKinds /\ Coming \in proposals /\ proposals \subseteq Nat \ {0}
            => n = Coming
<1>1. kind \in {"released", "removed"} => n = 0 /\ Coming = 0
  BY DEF Facts, Fact, Tells
<1>2. kind = "request" => n = Coming
  BY DEF Tells
<1>3. kind = "plan" => (Coming \in proposals => n = Coming)
  BY DEF Tells
<1>4. QED
  BY <1>1, <1>2, <1>3 DEF HoldKinds, PlanKinds

\* A fact is published: what is coming does not change with it, and when the daemon has
\* nothing more to say of the hold, or of its plan, this fact said it.
LEMMA PublishingKeeps ==
  ASSUME HoldsInv, NEW kind, NEW n, Fact(kind, n) \in Facts, PublishFact(kind, n),
         UNCHANGED <<proposals, entering, waiter, link, reads, held, planText, sure>>,
         latest' \in Nat /\ saying' \in Seq(SaidKinds) /\ releasing' \in BOOLEAN,
         ~HoldToSay' => ~HoldToSay \/ kind \in HoldKinds,
         ~PlanToSay' => ~PlanToSay \/ kind \in PlanKinds
  PROVE  HoldsInv'
<1> DEFINE f == Fact(kind, n)
<1>1. Coming' = Coming
  BY DEF Coming
<1>2. CASE link # "open"
  <2>1. stream' = stream
    BY <1>2 DEF PublishFact
  <2>2. QED
    BY <1>2, <2>1
    DEF HoldsInv, HoldsTyped, QueueTells, ShownTells, ReadsTell, ClientSound, Whole, Facing
<1>3. CASE link = "open"
  <2>1. Bus!Publish(<<f>>)
    BY <1>3 DEF PublishFact
  <2>2. PICK d \in 0..Len(Facing) :
           /\ Len(Facing') = Len(Facing) + 1 - d
           /\ \A i \in 1..Len(Facing') :
                Facing'[i] = IF i + d <= Len(Facing) THEN Facing[i + d] ELSE f
           /\ d # 0 => stream'[Editor].lagged
           /\ d = 0 => stream'[Editor].lagged = stream[Editor].lagged
    BY <2>1, StreamTakes DEF HoldsInv
  <2>3. stream' \in [{Editor} -> Bus!Channel(Facts)]
    BY <2>1, StreamTakes DEF HoldsInv
  <2>4. HoldsTyped'
    BY <2>3 DEF HoldsInv, HoldsTyped
  <2>5. Len(Facing) \in Nat /\ d \in Nat /\ d <= Len(Facing) /\ proposals \subseteq Nat \ {0}
    BY <2>2 DEF HoldsInv, HoldsTyped, Bus!Channel, Facing
  <2>6. f.kind = kind /\ f.hold = n /\ (f.timely => Tells(kind, n))
    BY DEF Fact
  <2>7. f.timely => /\ kind \in HoldKinds => f.hold = Coming
                    /\ kind \in PlanKinds /\ Coming \in proposals => f.hold = Coming
    BY <2>5, <2>6, TimelyTells
  <2> HIDE DEF f
  <2>8. ASSUME NEW k \in Nat, k + d <= Len(Facing), NEW kinds, NoneAfter(Facing', k, kinds)
        PROVE  NoneAfter(Facing, k + d, kinds) /\ kind \notin kinds
    BY <2>2, <2>5, <2>6, <2>8, NoneBefore
  <2>9. QueueTells'
    <3> SUFFICES ASSUME NEW i \in 1..Len(Facing'), Facing'[i].timely
                 PROVE  /\ /\ Facing'[i].kind \in HoldKinds
                           /\ NoneAfter(Facing', i, HoldKinds) /\ ~HoldToSay'
                           => Facing'[i].hold = Coming
                        /\ /\ Facing'[i].kind \in PlanKinds
                           /\ NoneAfter(Facing', i, PlanKinds) /\ PlanComing'
                           => Facing'[i].hold = Coming
      BY <1>1 DEF QueueTells
    <3>1. CASE i + d <= Len(Facing)
      <4>1. Facing'[i] = Facing[i + d] /\ i + d \in 1..Len(Facing) /\ i \in Nat
        BY <2>2, <2>5, <3>1
      <4>2. ASSUME NoneAfter(Facing', i, HoldKinds), ~HoldToSay'
            PROVE  NoneAfter(Facing, i + d, HoldKinds) /\ ~HoldToSay
        BY <2>8, <3>1, <4>1, <4>2
      <4>3. ASSUME NoneAfter(Facing', i, PlanKinds), PlanComing'
            PROVE  NoneAfter(Facing, i + d, PlanKinds) /\ PlanComing
        <5>1. NoneAfter(Facing, i + d, PlanKinds) /\ kind \notin PlanKinds
          BY <2>8, <3>1, <4>1, <4>3
        <5>2. QED
          BY <1>1, <4>3, <5>1 DEF PlanComing
      <4>4. QED
        BY <1>3, <4>1, <4>2, <4>3 DEF HoldsInv, QueueTells
    <3>2. CASE ~(i + d <= Len(Facing))
      <4>1. Facing'[i] = f
        BY <2>2, <3>2
      <4>2. QED
        BY <1>1, <2>6, <2>7, <4>1 DEF PlanComing
    <3>3. QED
      BY <3>1, <3>2
  <2>10. ASSUME Whole' PROVE Whole /\ d = 0
    BY <2>2, <2>10 DEF Whole
  <2>11. ASSUME Whole', NEW k \in Nat, k <= Len(Facing)
         PROVE  /\ NoneAfter(Facing', k, HoldKinds) /\ ~HoldToSay' =>
                     NoneAfter(Facing, k, HoldKinds) /\ ~HoldToSay
                /\ NoneAfter(Facing', k, PlanKinds) /\ PlanComing' =>
                     NoneAfter(Facing, k, PlanKinds) /\ PlanComing
    <3>1. k + d = k
      BY <2>10, <2>11
    <3>2. \A kinds : NoneAfter(Facing', k, kinds) =>
                       NoneAfter(Facing, k, kinds) /\ kind \notin kinds
      BY <2>8, <2>11, <3>1
    <3>3. QED
      BY <1>1, <3>2 DEF PlanComing
  <2>12. ShownTells'
    BY <1>1, <2>5, <2>10, <2>11 DEF HoldsInv, ShownTells
  <2>13. ReadsTell'
    <3> SUFFICES ASSUME NEW r \in ReadIds, Whole', reads'[r].whole
                 PROVE  /\ reads[r].ahead <= Len(Facing')
                        /\ NoneAfter(Facing', reads[r].ahead, HoldKinds) /\ ~HoldToSay' =>
                             reads[r].hold = Coming
                        /\ NoneAfter(Facing', reads[r].ahead, PlanKinds) /\ PlanComing' =>
                             reads[r].hold = Coming
      BY <1>1 DEF ReadsTell
    <3>1. Whole /\ d = 0 /\ reads[r].whole /\ reads[r].ahead \in Nat
      BY <2>10 DEF HoldsInv, HoldsTyped, Reads
    <3>2. reads[r].ahead <= Len(Facing)
      BY <3>1 DEF HoldsInv, ReadsTell
    <3>3. QED
      BY <2>2, <2>5, <2>11, <3>1, <3>2 DEF HoldsInv, ReadsTell
  <2>14. ClientSound'
    BY <1>3 DEF HoldsInv, ClientSound
  <2>15. QED
    BY <2>4, <2>9, <2>12, <2>13, <2>14 DEF HoldsInv
<1>4. QED
  BY <1>2, <1>3

\* A step of the daemon that publishes nothing.
LEMMA DaemonMoves ==
  ASSUME HoldsInv, HoldsTyped',
         UNCHANGED <<proposals, link, stream, reads, held, planText, sure>>,
         ~HoldToSay' => ~HoldToSay /\ Coming' = Coming,
         PlanComing' => PlanComing /\ Coming' = Coming
  PROVE  HoldsInv'
<1>1. Facing' = Facing /\ Whole' = Whole
  BY DEF Facing, Whole
<1>2. QueueTells'
  <2>1. Facing' = Facing /\ link' = link /\ proposals' = proposals
    BY <1>1
  <2>2. QED
    BY <2>1 DEF HoldsInv, QueueTells
<1>3. ShownTells'
  BY <1>1 DEF HoldsInv, ShownTells
<1>4. ReadsTell'
  BY <1>1 DEF HoldsInv, ReadsTell
<1>5. ClientSound'
  BY <1>1 DEF HoldsInv, ClientSound
<1>6. QED
  BY <1>2, <1>3, <1>4, <1>5 DEF HoldsInv

\* The announcement of a hold says which hold it is, and of a plan hold its plan.
LEMMA AnnouncementSays ==
  ASSUME NEW n
  PROVE  /\ Announcement(n) \in Seq(SaidKinds)
         /\ \E i \in 1..Len(Announcement(n)) : Announcement(n)[i] = "request"
         /\ n \in proposals => \E i \in 1..Len(Announcement(n)) : Announcement(n)[i] = "plan"
<1>1. CASE n \in proposals
  <2>1. Announcement(n) = <<"plan">> \o <<"request", "waiting">>
    BY <1>1 DEF Announcement
  <2>2. /\ Announcement(n) \in Seq(SaidKinds) /\ Len(Announcement(n)) = 3
        /\ Announcement(n)[1] = "plan" /\ Announcement(n)[2] = "request"
    BY <2>1 DEF SaidKinds
  <2>3. QED
    BY <2>2
<1>2. CASE n \notin proposals
  <2>1. Announcement(n) = <<>> \o <<"request", "waiting">>
    BY <1>2 DEF Announcement
  <2>2. /\ Announcement(n) \in Seq(SaidKinds) /\ Len(Announcement(n)) = 2
        /\ Announcement(n)[1] = "request"
    BY <2>1 DEF SaidKinds
  <2>3. QED
    BY <1>2, <2>2
<1>3. QED
  BY <1>1, <1>2

\* A hold is raised, by the hook or by a verb: all that is to say of it is still to be said.
LEMMA RaiseKeeps == ASSUME HoldsInv, RaiseHook \/ RaiseVerb PROVE HoldsInv'
<1>1. latest \in Nat /\ entering = 0 /\ proposals' = proposals /\ saying' = Announcement(latest + 1)
  BY DEF HoldsInv, HoldsTyped, RaiseHook, RaiseVerb, MayRaise
<1>2. /\ saying' \in Seq(SaidKinds)
      /\ \E i \in 1..Len(saying') : saying'[i] = "request"
      /\ latest + 1 \in proposals => \E i \in 1..Len(saying') : saying'[i] = "plan"
  BY <1>1, AnnouncementSays
<1>3. Coming' = latest + 1
  BY <1>1 DEF RaiseHook, RaiseVerb, Coming
<1>4. HoldToSay'
  BY <1>2 DEF HoldToSay
<1>5. ~PlanComing'
  BY <1>1, <1>2, <1>3 DEF PlanComing, PlanToSay
<1>6. HoldsTyped'
  BY <1>1, <1>2 DEF HoldsInv, HoldsTyped, RaiseHook, RaiseVerb, clientVars
<1>7. UNCHANGED <<link, stream, reads, held, planText, sure>>
  BY DEF RaiseHook, RaiseVerb, clientVars
<1>8. QED
  BY <1>1, <1>4, <1>5, <1>6, <1>7, DaemonMoves

\* What was announced is registered: it was coming all along.
LEMMA EnterKeeps == ASSUME HoldsInv, EnterHook PROVE HoldsInv'
<1>1. Coming' = Coming /\ HoldToSay' = HoldToSay /\ PlanComing' = PlanComing
  BY DEF EnterHook, Coming, HoldToSay, PlanComing, PlanToSay
<1>2. HoldsTyped'
  BY DEF HoldsInv, HoldsTyped, EnterHook, clientVars
<1>3. UNCHANGED <<proposals, link, stream, reads, held, planText, sure>>
  BY DEF EnterHook, clientVars
<1>4. QED
  BY <1>1, <1>2, <1>3, DaemonMoves

\* A verdict empties the slot, and its release is still to be said.
LEMMA VerdictKeeps == ASSUME HoldsInv, GiveVerdict PROVE HoldsInv'
<1>1. HoldToSay'
  BY DEF GiveVerdict, HoldToSay
<1>2. PlanComing' => PlanComing /\ Coming' = Coming
  BY DEF HoldsInv, HoldsTyped, GiveVerdict, PlanComing, PlanToSay, Coming
<1>3. HoldsTyped'
  BY DEF HoldsInv, HoldsTyped, GiveVerdict, clientVars
<1>4. UNCHANGED <<proposals, link, stream, reads, held, planText, sure>>
  BY DEF GiveVerdict, clientVars
<1>5. QED
  BY <1>1, <1>2, <1>3, <1>4, DaemonMoves

\* A daemon that starts says nothing of the registry.
LEMMA StartKeeps == ASSUME HoldsInv, DaemonStarts PROVE HoldsInv'
<1>1. Coming' = Coming /\ HoldToSay' = HoldToSay /\ PlanComing' = PlanComing
  BY DEF DaemonStarts, Coming, HoldToSay, PlanComing, PlanToSay
<1>2. HoldsTyped'
  BY DEF HoldsInv, HoldsTyped, DaemonStarts, clientVars
<1>3. UNCHANGED <<proposals, link, stream, reads, held, planText, sure>>
  BY DEF DaemonStarts, clientVars
<1>4. QED
  BY <1>1, <1>2, <1>3, DaemonMoves

\* The hold's task publishes the next fact of its announcement.
LEMMA SayKeeps == ASSUME HoldsInv, Say PROVE HoldsInv'
<1> DEFINE kind == Head(saying)
<1>1. saying \in Seq(SaidKinds) /\ saying # <<>> /\ latest \in Nat
  BY DEF HoldsInv, HoldsTyped, Say
<1>2. /\ kind \in SaidKinds /\ saying' \in Seq(SaidKinds)
      /\ kind = saying[1] /\ Len(saying') = Len(saying) - 1 /\ Len(saying) \in Nat
      /\ \A i \in 1..Len(saying') : saying'[i] = saying[i + 1]
  BY <1>1 DEF Say
<1> HIDE DEF kind
<1>3. \A i \in 1..Len(saying) : i # 1 => i - 1 \in 1..Len(saying') /\ saying'[i - 1] = saying[i]
  BY <1>2
<1>4. \A said : /\ \E i \in 1..Len(saying) : saying[i] = said
                /\ ~\E i \in 1..Len(saying') : saying'[i] = said
                => kind = said
  BY <1>2, <1>3
<1>5. ~HoldToSay' => ~HoldToSay \/ kind \in HoldKinds
  <2>1. releasing' = releasing
    BY DEF Say
  <2>2. QED
    BY <1>4, <2>1 DEF HoldToSay, HoldKinds
<1>6. ~PlanToSay' => ~PlanToSay \/ kind \in PlanKinds
  BY <1>4 DEF PlanToSay, PlanKinds
<1>7. Fact(kind, latest) \in Facts
  <2>1. kind \in FactKinds /\ kind \notin {"released", "removed"}
    BY <1>2 DEF SaidKinds, FactKinds
  <2>2. Tells(kind, latest) \in BOOLEAN
    BY <2>1, TellsTyped
  <2>3. QED
    BY <1>1, <2>1, <2>2 DEF Fact, Facts
<1>8. /\ PublishFact(kind, latest) /\ latest' = latest /\ releasing' \in BOOLEAN
      /\ UNCHANGED <<proposals, entering, waiter, link, reads, held, planText, sure>>
  BY DEF Say, kind, HoldsInv, HoldsTyped, clientVars
<1>9. QED
  BY <1>1, <1>2, <1>5, <1>6, <1>7, <1>8, PublishingKeeps

\* The release is published, and may be late: another hold may wait by then.
LEMMA ReleaseKeeps == ASSUME HoldsInv, PublishRelease PROVE HoldsInv'
<1>1. Fact("released", 0) \in Facts
  BY DEF Fact, Facts, Tells, FactKinds, HoldKinds
<1>2. /\ latest' \in Nat /\ saying' \in Seq(SaidKinds) /\ releasing' \in BOOLEAN
      /\ UNCHANGED <<proposals, entering, waiter, link, reads, held, planText, sure>>
      /\ PublishFact("released", 0) /\ saying' = saying
  BY DEF PublishRelease, HoldsInv, HoldsTyped, clientVars
<1>3. (~PlanToSay' => ~PlanToSay) /\ "released" \in HoldKinds
  BY <1>2 DEF PlanToSay, HoldKinds
<1>4. QED
  BY <1>1, <1>2, <1>3, PublishingKeeps

\* A fact of the supervisor's is true of the registry or is marked as one that is not.
LEMMA SupervisorKeeps == ASSUME HoldsInv, SupervisorSpeaks PROVE HoldsInv'
<1>1. /\ latest' \in Nat /\ saying' \in Seq(SaidKinds) /\ releasing' \in BOOLEAN
      /\ UNCHANGED <<proposals, entering, waiter, link, reads, held, planText, sure>>
      /\ saying' = saying /\ releasing' = releasing
  BY DEF SupervisorSpeaks, HoldsInv, HoldsTyped, clientVars
<1>2. (~PlanToSay' => ~PlanToSay) /\ (~HoldToSay' => ~HoldToSay)
  BY <1>1 DEF PlanToSay, HoldToSay
<1>3. ASSUME NEW kind \in {"released", "removed", "plan"}, NEW n \in Nat,
             kind = "plan" \/ n = 0, PublishFact(kind, n)
      PROVE  HoldsInv'
  <2>1. kind \in FactKinds
    BY DEF FactKinds, HoldKinds, PlanKinds
  <2>2. Tells(kind, n) \in BOOLEAN
    BY <2>1, TellsTyped
  <2>3. kind \in {"released", "removed"} => n = 0
    BY <1>3
  <2>4. Fact(kind, n) \in Facts
    BY <2>1, <2>2, <2>3 DEF Fact, Facts
  <2>5. QED
    BY <1>1, <1>2, <1>3, <2>4, PublishingKeeps
<1>4. CASE PublishFact("released", 0) \/ PublishFact("removed", 0)
  BY <1>3, <1>4
<1>5. CASE \E n \in proposals : n <= latest /\ PublishFact("plan", n)
  <2>1. PICK n \in proposals : PublishFact("plan", n)
    BY <1>5
  <2>2. proposals \subseteq Nat
    BY DEF HoldsInv, HoldsTyped
  <2>3. n \in Nat
    BY <2>1, <2>2
  <2>4. QED
    BY <1>3, <2>1, <2>3
<1>6. QED
  BY <1>4, <1>5 DEF SupervisorSpeaks

\* With the daemon the stream is cut, and nothing heard over it counts as whole.
LEMMA DeathKeeps == ASSUME HoldsInv, DaemonDies PROVE HoldsInv'
<1>1. /\ link' # "open" /\ (link' = "down" => link = "down")
      /\ UNCHANGED <<proposals, stream, reads, held, planText, sure>>
  BY DEF DaemonDies, HoldsInv, HoldsTyped, clientVars
<1>2. Facing' = Facing /\ ~Whole'
  BY <1>1 DEF Facing, Whole
<1>3. HoldsTyped'
  <2>1. <<>> \in Seq(SaidKinds) /\ link' \in {"down", "open", "cut"}
    BY <1>1 DEF DaemonDies, HoldsInv, HoldsTyped
  <2>2. QED
    BY <1>1, <2>1 DEF DaemonDies, HoldsInv, HoldsTyped
<1>4. ClientSound'
  BY <1>1, <1>2 DEF HoldsInv, ClientSound
<1>5. QED
  BY <1>1, <1>2, <1>3, <1>4 DEF HoldsInv, QueueTells, ShownTells, ReadsTell

\* Where a gap is reported the editor trusts nothing it has or has asked for.
LEMMA DesyncForgets ==
  ASSUME HoldsTyped, Desync
  PROVE  /\ ~sure' /\ sure' \in BOOLEAN
         /\ reads' \in [ReadIds -> Reads] /\ \A r \in ReadIds : ~reads'[r].whole
<1>1. PICK r : reads' = [q \in ReadIds |-> IF q = r THEN [NoRead EXCEPT !.stage = "asked"]
                                           ELSE [reads[q] EXCEPT !.whole = FALSE]]
  BY DEF Desync
<1>2. /\ [NoRead EXCEPT !.stage = "asked"] \in Reads
      /\ [NoRead EXCEPT !.stage = "asked"].whole = FALSE
  BY DEF NoRead, Reads
<1>3. \A q \in ReadIds : /\ [reads[q] EXCEPT !.whole = FALSE] \in Reads
                         /\ [reads[q] EXCEPT !.whole = FALSE].whole = FALSE
  BY DEF HoldsTyped, Reads
<1>4. sure' = FALSE
  BY DEF Desync
<1>5. QED
  BY <1>1, <1>2, <1>3, <1>4

\* A stream that ends, or cannot be had, leaves nothing on its way.
LEMMA StreamEndKeeps == ASSUME HoldsInv, StreamEnds \/ RetryFails PROVE HoldsInv'
<1>1. Desync /\ link' = "down" /\ UNCHANGED <<daemonVars, clientVars>>
  BY DEF StreamEnds, RetryFails
<1>2. /\ ~sure' /\ sure' \in BOOLEAN
      /\ reads' \in [ReadIds -> Reads] /\ \A r \in ReadIds : ~reads'[r].whole
  BY <1>1, DesyncForgets DEF HoldsInv
<1>3. Bus!EmptyChannel \in Bus!Channel(Facts) /\ Bus!EmptyChannel.queue = <<>>
  BY DEF Bus!EmptyChannel, Bus!Channel
<1>4. stream' \in [{Editor} -> Bus!Channel(Facts)] /\ Facing' = <<>>
  <2>1. CASE StreamEnds
    BY <1>3, <2>1 DEF StreamEnds, HoldsInv, HoldsTyped, Facing
  <2>2. CASE RetryFails
    BY <2>2 DEF RetryFails, HoldsInv, HoldsTyped, ClientSound, Facing
  <2>3. QED
    BY <2>1, <2>2
<1>5. HoldsTyped'
  BY <1>1, <1>2, <1>4 DEF HoldsInv, HoldsTyped, daemonVars, clientVars
<1>6. ClientSound'
  BY <1>1, <1>2, <1>4 DEF HoldsInv, ClientSound, daemonVars, clientVars
<1>7. QED
  BY <1>1, <1>2, <1>5, <1>6 DEF HoldsInv, QueueTells, ShownTells, ReadsTell, Whole

\* A new stream is empty, and nothing is sure yet.
LEMMA ReconnectKeeps == ASSUME HoldsInv, Reconnect PROVE HoldsInv'
<1>1. /\ link = "down" /\ link' = "open"
      /\ UNCHANGED <<daemonVars, stream, reads, clientVars, sure>>
  BY DEF Reconnect
<1>2. Facing = <<>> /\ Facing' = <<>> /\ ~sure' /\ \A r \in ReadIds : ~reads'[r].whole
  BY <1>1 DEF HoldsInv, ClientSound, Facing
<1>3. HoldsTyped'
  BY <1>1 DEF HoldsInv, HoldsTyped, daemonVars, clientVars
<1>4. QueueTells'
  <2>1. Len(Facing') = 0
    BY <1>2
  <2>2. QED
    BY <2>1 DEF QueueTells
<1>5. ClientSound'
  BY <1>1, <1>2 DEF HoldsInv, ClientSound, daemonVars, clientVars
<1>6. QED
  BY <1>2, <1>3, <1>4, <1>5 DEF HoldsInv, ShownTells, ReadsTell

\* A gap in the stream is reported before the facts behind it are heard.
LEMMA LagKeeps == ASSUME HoldsInv, HearLag PROVE HoldsInv'
<1>1. Desync /\ link' = link /\ UNCHANGED <<daemonVars, clientVars>>
  BY DEF HearLag
<1>2. /\ ~sure' /\ sure' \in BOOLEAN
      /\ reads' \in [ReadIds -> Reads] /\ \A r \in ReadIds : ~reads'[r].whole
  BY <1>1, DesyncForgets DEF HoldsInv
<1>3. stream' \in [{Editor} -> Bus!Channel(Facts)] /\ Facing' = Facing
  BY DEF HearLag, Bus!ReceiveLag, Bus!Channel, HoldsInv, HoldsTyped, Facing
<1>4. HoldsTyped'
  BY <1>1, <1>2, <1>3 DEF HoldsInv, HoldsTyped, daemonVars, clientVars
<1>5. Coming' = Coming /\ HoldToSay' = HoldToSay /\ PlanComing' = PlanComing
  BY <1>1 DEF daemonVars, Coming, HoldToSay, PlanComing, PlanToSay
<1>6. QueueTells'
  BY <1>1, <1>3, <1>5 DEF HoldsInv, QueueTells
<1>7. ClientSound'
  BY <1>1, <1>2, <1>3 DEF HoldsInv, ClientSound, daemonVars, clientVars
<1>8. QED
  BY <1>2, <1>4, <1>6, <1>7 DEF HoldsInv, ShownTells, ReadsTell

\* The daemon answers a request: the answer is what waits now, and tells of all that is
\* published already.
LEMMA ServeKeeps == ASSUME HoldsInv, NEW r \in ReadIds, ServeRead(r) PROVE HoldsInv'
<1> DEFINE answer == [stage |-> "served", hold |-> waiter, ahead |-> Len(Facing),
                      whole |-> link = "open" /\ entering = 0]
<1>1. /\ reads' = [reads EXCEPT ![r] = answer]
      /\ UNCHANGED <<daemonVars, link, stream, clientVars, sure>>
  BY DEF ServeRead, Facing
<1>2. /\ Facing' = Facing /\ Coming' = Coming /\ HoldToSay' = HoldToSay
      /\ PlanComing' = PlanComing /\ Whole' = Whole
  BY <1>1 DEF daemonVars, Facing, Coming, HoldToSay, PlanComing, PlanToSay, Whole
<1>3. Len(Facing) \in Nat /\ waiter \in Nat /\ reads \in [ReadIds -> Reads]
  BY DEF HoldsInv, HoldsTyped, Bus!Channel, Facing
<1>4. /\ answer \in Reads /\ answer.stage = "served" /\ answer.ahead = Len(Facing)
      /\ answer.whole => link = "open" /\ answer.hold = Coming
  BY <1>3 DEF Reads, Coming
<1> HIDE DEF answer
<1>5. /\ reads' \in [ReadIds -> Reads] /\ reads'[r] = answer
      /\ \A q \in ReadIds : q # r => reads'[q] = reads[q]
  BY <1>1, <1>3, <1>4
<1>6. HoldsTyped'
  BY <1>1, <1>5 DEF HoldsInv, HoldsTyped, daemonVars, clientVars
<1>7. QueueTells'
  BY <1>1, <1>2 DEF HoldsInv, QueueTells
<1>8. ShownTells'
  BY <1>1, <1>2 DEF HoldsInv, ShownTells, clientVars
<1>9. ReadsTell'
  <2> SUFFICES ASSUME NEW q \in ReadIds, Whole, reads'[q].whole
               PROVE  /\ reads'[q].ahead <= Len(Facing)
                      /\ NoneAfter(Facing, reads'[q].ahead, HoldKinds) /\ ~HoldToSay =>
                           reads'[q].hold = Coming
                      /\ NoneAfter(Facing, reads'[q].ahead, PlanKinds) /\ PlanComing =>
                           reads'[q].hold = Coming
    BY <1>2 DEF ReadsTell
  <2>1. CASE q = r
    BY <1>3, <1>4, <1>5, <2>1
  <2>2. CASE q # r
    BY <1>5, <2>2 DEF HoldsInv, ReadsTell
  <2>3. QED
    BY <2>1, <2>2
<1>10. ClientSound'
  BY <1>1, <1>2, <1>4, <1>5 DEF HoldsInv, ClientSound, daemonVars, clientVars
<1>11. QED
  BY <1>6, <1>7, <1>8, <1>9, <1>10 DEF HoldsInv

\* A request is over, with its answer taken or without one.
LEMMA ReadEnds ==
  ASSUME HoldsInv, NEW r \in ReadIds, reads' = [reads EXCEPT ![r] = NoRead],
         UNCHANGED <<daemonVars, link, stream>>,
         held' \in [hold : Nat, plan : Nat], planText' \in Nat, sure' \in BOOLEAN,
         link = "down" => ~sure', held'.hold \notin proposals => held'.plan = 0,
         ShownTells'
  PROVE  HoldsInv'
<1>1. /\ Facing' = Facing /\ Coming' = Coming /\ HoldToSay' = HoldToSay
      /\ PlanComing' = PlanComing /\ Whole' = Whole
  BY DEF daemonVars, Facing, Coming, HoldToSay, PlanComing, PlanToSay, Whole
<1>2. /\ reads' \in [ReadIds -> Reads] /\ ~reads'[r].whole
      /\ \A q \in ReadIds : q # r => reads'[q] = reads[q]
  BY DEF HoldsInv, HoldsTyped, Reads, NoRead
<1>3. HoldsTyped'
  BY <1>2 DEF HoldsInv, HoldsTyped, daemonVars
<1>4. QueueTells'
  BY <1>1 DEF HoldsInv, QueueTells
<1>5. ReadsTell'
  <2>1. \A q \in ReadIds : reads'[q].whole => reads'[q] = reads[q]
    BY <1>2
  <2>2. QED
    BY <1>1, <2>1 DEF HoldsInv, ReadsTell
<1>6. ClientSound'
  BY <1>1, <1>2 DEF HoldsInv, ClientSound, daemonVars
<1>7. QED
  BY <1>3, <1>4, <1>5, <1>6 DEF HoldsInv

\* The snapshot replaces what is on show.
LEMMA TakeKeeps == ASSUME HoldsInv, NEW r \in ReadIds, TakeRead(r) PROVE HoldsInv'
<1> DEFINE n == reads[r].hold
<1>1. /\ reads' = [reads EXCEPT ![r] = NoRead] /\ sure' = reads[r].whole
      /\ held' = IF n = 0 THEN NothingHeld ELSE RowOf(n)
      /\ planText' = IF n \in proposals THEN n ELSE planText
      /\ UNCHANGED <<daemonVars, link, stream>>
  BY DEF TakeRead, Resync
<1>2. /\ reads[r] \in Reads /\ planText \in Nat /\ n \in Nat /\ proposals \subseteq Nat \ {0}
      /\ reads[r].ahead \in Nat /\ reads[r].whole \in BOOLEAN
  BY DEF HoldsInv, HoldsTyped, Reads
<1>3. /\ held' \in [hold : Nat, plan : Nat] /\ held'.hold = n
      /\ held'.plan = IF n \in proposals THEN n ELSE 0
  BY <1>1, <1>2 DEF NothingHeld, RowOf
<1>4. link = "down" => ~sure'
  BY <1>1 DEF HoldsInv, ClientSound
<1>5. /\ Facing' = Facing /\ Coming' = Coming /\ HoldToSay' = HoldToSay
      /\ PlanComing' = PlanComing /\ Whole' = Whole /\ proposals' = proposals
  BY <1>1 DEF daemonVars, Facing, Coming, HoldToSay, PlanComing, PlanToSay, Whole
<1>6. ShownTells'
  <2> SUFFICES ASSUME Whole, reads[r].whole
               PROVE  /\ NoneAfter(Facing, 0, HoldKinds) /\ ~HoldToSay => n = Coming
                      /\ NoneAfter(Facing, 0, PlanKinds) /\ PlanComing =>
                           planText' = Coming /\ held'.plan = Coming
    BY <1>1, <1>3, <1>5 DEF ShownTells
  <2>1. \A kinds : NoneAfter(Facing, 0, kinds) => NoneAfter(Facing, reads[r].ahead, kinds)
    BY <1>2 DEF NoneAfter
  <2>2. NoneAfter(Facing, 0, HoldKinds) /\ ~HoldToSay => n = Coming
    BY <2>1 DEF HoldsInv, ReadsTell
  <2>3. NoneAfter(Facing, 0, PlanKinds) /\ PlanComing => n = Coming
    BY <2>1 DEF HoldsInv, ReadsTell
  <2>4. PlanComing => Coming \in proposals
    BY DEF PlanComing
  <2>5. QED
    BY <1>1, <1>3, <2>2, <2>3, <2>4
<1>7. planText' \in Nat /\ sure' \in BOOLEAN
  BY <1>1, <1>2
<1>8. held'.hold \notin proposals => held'.plan = 0
  BY <1>3
<1>9. QED
  BY <1>1, <1>3, <1>4, <1>6, <1>7, <1>8, ReadEnds

\* A request that fails takes nothing with it.
LEMMA FailKeeps == ASSUME HoldsInv, NEW r \in ReadIds, ReadFails(r) PROVE HoldsInv'
<1>1. /\ reads' = [reads EXCEPT ![r] = NoRead]
      /\ UNCHANGED <<daemonVars, link, stream, held, planText, sure>>
  BY DEF ReadFails, clientVars
<1>2. /\ Facing' = Facing /\ Coming' = Coming /\ HoldToSay' = HoldToSay
      /\ PlanComing' = PlanComing /\ Whole' = Whole
  BY <1>1 DEF daemonVars, Facing, Coming, HoldToSay, PlanComing, PlanToSay, Whole
<1>3. ShownTells'
  BY <1>1, <1>2 DEF HoldsInv, ShownTells
<1>4. QED
  BY <1>1, <1>3, ReadEnds DEF HoldsInv, HoldsTyped, ClientSound

\* The editor folds the fact at the head of its queue: a fact that was true when it was
\* published and has none of its kind behind it is true still.
LEMMA HearKeeps == ASSUME HoldsInv, HearFact PROVE HoldsInv'
<1> DEFINE fact == Facing[1]
<1>1. /\ Facing \in Seq(Facts) /\ Facing # <<>> /\ ~stream[Editor].lagged
      /\ stream' = [stream EXCEPT ![Editor].queue = Tail(@)]
      /\ Apply(fact) /\ sure' = (sure /\ fact.timely)
      /\ UNCHANGED <<daemonVars, link>>
  BY DEF HoldsInv, HoldsTyped, HearFact, Bus!Receive, Bus!CanReceive, Bus!Received, Bus!Channel,
         Facing
<1>2. /\ fact \in Facts /\ Len(Facing) \in Nat \ {0}
      /\ fact.kind \in FactKinds /\ fact.hold \in Nat /\ fact.timely \in BOOLEAN
      /\ fact.kind \in {"released", "removed"} => fact.hold = 0
  BY <1>1 DEF Facts
<1>3. /\ Facing' = Tail(Facing) /\ stream'[Editor].lagged = stream[Editor].lagged
      /\ stream' \in [{Editor} -> Bus!Channel(Facts)]
  <2>1. stream[Editor] \in Bus!Channel(Facts) /\ stream \in [{Editor} -> Bus!Channel(Facts)]
    BY DEF HoldsInv, HoldsTyped
  <2>2. Tail(Facing) \in Seq(Facts)
    BY <1>1
  <2>3. stream' = [stream EXCEPT ![Editor] = [stream[Editor] EXCEPT !.queue = Tail(Facing)]]
    BY <1>1, <2>1 DEF Facing
  <2> HIDE DEF Facing
  <2>4. /\ [stream[Editor] EXCEPT !.queue = Tail(Facing)] \in Bus!Channel(Facts)
        /\ [stream[Editor] EXCEPT !.queue = Tail(Facing)].queue = Tail(Facing)
        /\ [stream[Editor] EXCEPT !.queue = Tail(Facing)].lagged = stream[Editor].lagged
    BY <2>1, <2>2 DEF Bus!Channel
  <2>5. QED
    BY <2>1, <2>3, <2>4 DEF Facing
<1>4. /\ Len(Facing') = Len(Facing) - 1
      /\ \A i \in 1..Len(Facing') : Facing'[i] = Facing[i + 1]
  BY <1>1, <1>2, <1>3
<1>5. /\ Coming' = Coming /\ HoldToSay' = HoldToSay /\ PlanComing' = PlanComing
      /\ Whole' = Whole /\ proposals' = proposals /\ link' = link
  BY <1>1, <1>3 DEF daemonVars, Coming, HoldToSay, PlanComing, PlanToSay, Whole
<1>6. ASSUME NEW k \in Nat, NEW kinds, NoneAfter(Facing', k, kinds)
      PROVE  /\ NoneAfter(Facing, k + 1, kinds)
             /\ k = 0 /\ fact.kind \notin kinds => NoneAfter(Facing, 0, kinds)
  <2>1. \A j \in 1..Len(Facing) : j > 1 => j - 1 \in 1..Len(Facing') /\ Facing'[j - 1] = Facing[j]
    BY <1>2, <1>4
  <2>2. NoneAfter(Facing, k + 1, kinds)
    BY <1>2, <1>6, <2>1 DEF NoneAfter
  <2>3. QED
    BY <1>2, <2>2 DEF NoneAfter
<1>7. /\ link # "down" /\ held \in [hold : Nat, plan : Nat] /\ planText \in Nat
      /\ proposals \subseteq Nat \ {0}
  BY <1>1 DEF HoldsInv, HoldsTyped, ClientSound
<1>8. Whole /\ fact.timely =>
        /\ fact.kind \in HoldKinds /\ NoneAfter(Facing', 0, HoldKinds) /\ ~HoldToSay =>
             fact.hold = Coming
        /\ fact.kind \in PlanKinds /\ NoneAfter(Facing', 0, PlanKinds) /\ PlanComing =>
             fact.hold = Coming
  <2>1. \A kinds : NoneAfter(Facing', 0, kinds) => NoneAfter(Facing, 1, kinds)
    BY <1>6
  <2>2. 1 \in 1..Len(Facing)
    BY <1>2
  <2>3. QED
    BY <2>1, <2>2 DEF HoldsInv, QueueTells, Whole
<1>9. Whole /\ sure =>
        /\ NoneAfter(Facing', 0, HoldKinds) /\ ~HoldToSay /\ fact.kind \notin HoldKinds =>
             held.hold = Coming
        /\ NoneAfter(Facing', 0, PlanKinds) /\ PlanComing /\ fact.kind \notin PlanKinds =>
             planText = Coming
        /\ /\ NoneAfter(Facing', 0, HoldKinds) /\ NoneAfter(Facing', 0, PlanKinds)
           /\ ~HoldToSay /\ PlanComing /\ fact.kind \notin HoldKinds \cup PlanKinds
           => held.plan = Coming
  <2>1. \A kinds : NoneAfter(Facing', 0, kinds) /\ fact.kind \notin kinds =>
                     NoneAfter(Facing, 0, kinds)
    BY <1>6
  <2>2. QED
    BY <2>1 DEF HoldsInv, ShownTells
<1>10. PlanComing => Coming \in proposals /\ Coming # 0
  BY <1>7 DEF PlanComing
<1> HIDE DEF fact
<1>11. /\ held' \in [hold : Nat, plan : Nat] /\ planText' \in Nat
       /\ held'.hold \notin proposals => held'.plan = 0
       /\ Whole /\ sure /\ fact.timely =>
            /\ NoneAfter(Facing', 0, HoldKinds) /\ ~HoldToSay => held'.hold = Coming
            /\ NoneAfter(Facing', 0, PlanKinds) /\ PlanComing => planText' = Coming
            /\ /\ NoneAfter(Facing', 0, HoldKinds) /\ NoneAfter(Facing', 0, PlanKinds)
               /\ ~HoldToSay /\ PlanComing
               => held'.plan = Coming
  <2>1. CASE fact.kind = "plan"
    <3>1. fact.kind \in PlanKinds /\ fact.kind \notin HoldKinds
      BY <2>1 DEF PlanKinds, HoldKinds
    <3>2. /\ planText' = fact.hold
          /\ held' = IF held.hold \in proposals THEN [held EXCEPT !.plan = fact.hold] ELSE held
      BY <1>1, <2>1 DEF Apply
    <3>3. /\ held' \in [hold : Nat, plan : Nat] /\ held'.hold = held.hold
          /\ held'.plan = IF held.hold \in proposals THEN fact.hold ELSE held.plan
      BY <1>2, <1>7, <3>2
    <3>4. held.hold \notin proposals => held.plan = 0
      BY DEF HoldsInv, ClientSound
    <3>5. QED
      BY <1>2, <1>8, <1>9, <1>10, <3>1, <3>2, <3>3, <3>4
  <2>2. CASE fact.kind = "request"
    <3>1. fact.kind \notin PlanKinds /\ fact.kind \in HoldKinds
      BY <2>2 DEF PlanKinds, HoldKinds
    <3>2. /\ planText' = planText
          /\ held' = [hold |-> fact.hold, plan |-> IF fact.hold \in proposals THEN planText ELSE 0]
      BY <1>1, <2>2 DEF Apply
    <3>3. /\ held' \in [hold : Nat, plan : Nat] /\ held'.hold = fact.hold
          /\ held'.plan = IF fact.hold \in proposals THEN planText ELSE 0
      BY <1>2, <1>7, <3>2
    <3>4. QED
      BY <1>7, <1>8, <1>9, <1>10, <3>1, <3>2, <3>3
  <2>3. CASE fact.kind \in {"released", "removed"}
    <3>1. fact.kind \in HoldKinds /\ fact.hold = 0
      BY <1>2, <2>3 DEF HoldKinds
    <3>2. held' = NothingHeld /\ planText' = IF fact.kind = "removed" THEN 0 ELSE planText
      BY <1>1, <2>3 DEF Apply
    <3>3. held' \in [hold : Nat, plan : Nat] /\ held'.hold = 0 /\ held'.plan = 0
      BY <3>2 DEF NothingHeld
    <3>4. fact.kind \in PlanKinds <=> fact.kind = "removed"
      BY <2>3 DEF PlanKinds
    <3>5. QED
      BY <1>7, <1>8, <1>9, <1>10, <3>1, <3>2, <3>3, <3>4
  <2>4. CASE fact.kind = "waiting"
    <3>1. fact.kind \notin PlanKinds \cup HoldKinds
      BY <2>4 DEF PlanKinds, HoldKinds
    <3>2. UNCHANGED <<held, planText>>
      BY <1>1, <2>4 DEF Apply, clientVars
    <3>3. held.hold \notin proposals => held.plan = 0
      BY DEF HoldsInv, ClientSound
    <3>4. QED
      BY <1>7, <1>9, <3>1, <3>2, <3>3
  <2>5. QED
    BY <1>2, <2>1, <2>2, <2>3, <2>4 DEF FactKinds, HoldKinds, PlanKinds, SaidKinds
<1>12. /\ reads' \in [ReadIds -> Reads]
       /\ \A r \in ReadIds :
            /\ reads'[r].whole => /\ reads[r].whole /\ reads[r].ahead \in Nat \ {0}
                                  /\ reads'[r].ahead = reads[r].ahead - 1
                                  /\ reads'[r].hold = reads[r].hold
            /\ reads'[r].stage = reads[r].stage
  <2>1. reads' = [r \in ReadIds |-> IF reads[r].stage = "served" THEN Overtaken(reads[r])
                                    ELSE reads[r]]
    BY DEF HearFact
  <2>2. ASSUME NEW r \in ReadIds
        PROVE  /\ reads'[r] \in Reads /\ reads'[r].stage = reads[r].stage
               /\ reads'[r].whole => /\ reads[r].whole /\ reads[r].ahead \in Nat \ {0}
                                     /\ reads'[r].ahead = reads[r].ahead - 1
                                     /\ reads'[r].hold = reads[r].hold
    <3>1. reads[r] \in Reads /\ reads[r].ahead \in Nat
      BY DEF HoldsInv, HoldsTyped, Reads
    <3>2. CASE reads[r].stage # "served"
      <4>1. reads'[r] = reads[r] /\ ~reads[r].whole
        BY <2>1, <3>2 DEF HoldsInv, ClientSound
      <4>2. QED
        BY <3>1, <4>1
    <3>3. CASE reads[r].stage = "served" /\ reads[r].ahead = 0
      <4>1. reads'[r] = [reads[r] EXCEPT !.whole = FALSE]
        BY <2>1, <3>3 DEF Overtaken
      <4>2. QED
        BY <3>1, <4>1 DEF Reads
    <3>4. CASE reads[r].stage = "served" /\ reads[r].ahead # 0
      <4>1. reads'[r] = [reads[r] EXCEPT !.ahead = @ - 1]
        BY <2>1, <3>4 DEF Overtaken
      <4>2. QED
        BY <3>1, <3>4, <4>1 DEF Reads
    <3>5. QED
      BY <3>2, <3>3, <3>4
  <2>3. QED
    BY <2>1, <2>2
<1>13. HoldsTyped'
  <2>1. sure' \in BOOLEAN
    BY <1>1, <1>2 DEF HoldsInv, HoldsTyped
  <2>2. QED
    BY <1>1, <1>3, <1>11, <1>12, <2>1 DEF HoldsInv, HoldsTyped, daemonVars
<1>14. QueueTells'
  <2> SUFFICES ASSUME link = "open", NEW i \in 1..Len(Facing'), Facing'[i].timely
               PROVE  /\ /\ Facing'[i].kind \in HoldKinds
                         /\ NoneAfter(Facing', i, HoldKinds) /\ ~HoldToSay
                         => Facing'[i].hold = Coming
                      /\ /\ Facing'[i].kind \in PlanKinds
                         /\ NoneAfter(Facing', i, PlanKinds) /\ PlanComing
                         => Facing'[i].hold = Coming
    BY <1>5 DEF QueueTells
  <2>1. Facing'[i] = Facing[i + 1] /\ i + 1 \in 1..Len(Facing) /\ i \in Nat
    BY <1>2, <1>4
  <2>2. \A kinds : NoneAfter(Facing', i, kinds) => NoneAfter(Facing, i + 1, kinds)
    BY <1>6, <2>1
  <2>3. QED
    BY <2>1, <2>2 DEF HoldsInv, QueueTells
<1>15. ShownTells'
  BY <1>1, <1>5, <1>11 DEF ShownTells
<1>16. ReadsTell'
  <2> SUFFICES ASSUME NEW r \in ReadIds, Whole, reads'[r].whole
               PROVE  /\ reads'[r].ahead <= Len(Facing')
                      /\ NoneAfter(Facing', reads'[r].ahead, HoldKinds) /\ ~HoldToSay =>
                           reads'[r].hold = Coming
                      /\ NoneAfter(Facing', reads'[r].ahead, PlanKinds) /\ PlanComing =>
                           reads'[r].hold = Coming
    BY <1>5 DEF ReadsTell
  <2>1. /\ reads[r].whole /\ reads[r].ahead \in Nat \ {0} /\ reads'[r].hold = reads[r].hold
        /\ reads'[r].ahead = reads[r].ahead - 1 /\ reads'[r].ahead + 1 = reads[r].ahead
        /\ reads'[r].ahead \in Nat
    BY <1>12
  <2>2. \A kinds : NoneAfter(Facing', reads'[r].ahead, kinds) =>
                     NoneAfter(Facing, reads[r].ahead, kinds)
    BY <1>6, <2>1
  <2>3. reads[r].ahead <= Len(Facing)
    BY <2>1 DEF HoldsInv, ReadsTell
  <2>4. reads'[r].ahead <= Len(Facing')
    BY <1>2, <1>4, <2>1, <2>3
  <2>5. QED
    BY <2>1, <2>2, <2>4 DEF HoldsInv, ReadsTell
<1>17. ClientSound'
  BY <1>5, <1>7, <1>11, <1>12 DEF HoldsInv, ClientSound
<1>18. QED
  BY <1>13, <1>14, <1>15, <1>16, <1>17 DEF HoldsInv

\* A window that opens has heard nothing and asked once.
LEMMA HoldsStart == HoldsInit => HoldsInv
<1> SUFFICES ASSUME HoldsInit PROVE HoldsInv
  OBVIOUS
<1>1. stream = [r \in {Editor} |-> Bus!EmptyChannel]
  BY DEF HoldsInit, Bus!BusInit
<1>2. Bus!EmptyChannel \in Bus!Channel(Facts) /\ Bus!EmptyChannel.queue = <<>>
  BY DEF Bus!EmptyChannel, Bus!Channel
<1>3. stream \in [{Editor} -> Bus!Channel(Facts)] /\ Facing = <<>>
  BY <1>1, <1>2 DEF Facing
<1>4. reads \in [ReadIds -> Reads] /\ \A r \in ReadIds : ~reads[r].whole
  BY DEF HoldsInit, NoRead, Reads
<1>5. proposals \subseteq Nat \ {0}
  BY EditorHoldsAssumption DEF HoldsInit
<1>6. <<>> \in Seq(SaidKinds)
  OBVIOUS
<1>7. HoldsTyped
  BY <1>3, <1>4, <1>5, <1>6 DEF HoldsInit, HoldsTyped, NothingHeld
<1>8. ClientSound
  BY <1>3, <1>4 DEF HoldsInit, ClientSound, NothingHeld
<1>9. QED
  BY <1>4, <1>7, <1>8 DEF HoldsInit, HoldsInv, QueueTells, ShownTells, ReadsTell, Whole

\* The inductive invariant: the last fact on its way that says what is held, the answers on
\* their way and what is on show each agree with the registry as far as nothing later speaks.
THEOREM ShownAgrees == HoldsSpec => []HoldsInv
<1>1. HoldsInv /\ UNCHANGED editorHoldVars => HoldsInv'
  <2> SUFFICES ASSUME HoldsInv, UNCHANGED editorHoldVars PROVE HoldsInv'
    OBVIOUS
  <2>1. UNCHANGED <<proposals, latest, entering, waiter, saying, releasing, link, stream, reads,
                    held, planText, sure>>
    BY DEF editorHoldVars, daemonVars, clientVars
  <2>2. /\ Coming' = Coming /\ HoldToSay' = HoldToSay /\ PlanComing' = PlanComing /\ HoldsTyped'
    BY <2>1 DEF HoldsInv, HoldsTyped, Coming, HoldToSay, PlanComing, PlanToSay
  <2>3. QED
    BY <2>1, <2>2, DaemonMoves
<1>2. HoldsInv /\ HoldsNext => HoldsInv'
  BY RaiseKeeps, EnterKeeps, SayKeeps, VerdictKeeps, ReleaseKeeps, SupervisorKeeps, DeathKeeps,
     StartKeeps, StreamEndKeeps, ReconnectKeeps, LagKeeps, HearKeeps, ServeKeeps, TakeKeeps,
     FailKeeps DEF HoldsNext
<1>3. QED
  BY <1>1, <1>2, HoldsStart, PTL DEF HoldsSpec

\* For any holds, backlog, reads and mishaps, an editor that took a whole answer over a stream
\* without a gap shows what the registry holds once it has heard all there is to hear.
THEOREM ShownIsAlwaysHeld == HoldsSpec => []ShownIsHeld
<1>1. HoldsInv => ShownIsHeld
  <2> SUFFICES ASSUME HoldsInv, sure, AllSaid, AllHeard
               PROVE  held = IF waiter = 0 THEN NothingHeld ELSE RowOf(waiter)
    BY DEF ShownIsHeld
  <2>1. /\ saying = <<>> /\ ~releasing /\ entering = 0
        /\ Whole /\ Facing = <<>>
    BY DEF AllSaid, AllHeard, Bus!Drained, Whole, Facing
  <2>2. ~HoldToSay /\ ~PlanToSay /\ Coming = waiter /\ \A kinds : NoneAfter(Facing, 0, kinds)
    BY <2>1 DEF HoldToSay, PlanToSay, Coming, NoneAfter
  <2>3. held.hold = waiter /\ (waiter \in proposals => held.plan = waiter)
    BY <2>1, <2>2 DEF HoldsInv, ShownTells, PlanComing
  <2>4. waiter \notin proposals => held.plan = 0
    BY <2>3 DEF HoldsInv, ClientSound
  <2>5. held \in [hold : Nat, plan : Nat] /\ 0 \notin proposals
    BY DEF HoldsInv, HoldsTyped
  <2>6. QED
    BY <2>3, <2>4, <2>5 DEF NothingHeld, RowOf
<1>2. QED
  BY <1>1, ShownAgrees, PTL
=============================================================================
