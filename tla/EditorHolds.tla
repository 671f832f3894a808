----------------------------- MODULE EditorHolds -----------------------------
(***************************************************************************)
(* What an editor shows of a session's held approvals (VS Code gate-state  *)
(* .ts, events.ts; the JetBrains client is a port of both). The daemon     *)
(* announces a hold on a stream of facts and keeps it in a registry of one *)
(* slot; the editor folds the facts, and where the stream broke or lagged  *)
(* it reads the registry again, by a request that runs beside the stream.  *)
(* A session asks one thing at a time; a hold whose hook died stays until  *)
(* the next takes its slot.                                                *)
(***************************************************************************)
EXTENDS Naturals, Sequences, FiniteSets

CONSTANTS
  Backlog,      \* facts the stream keeps for a slow client (4096 in the daemon)
  PlanHolds,    \* which holds may be the plan proposals: sets of numbers
  MaxHeld,      \* bounds: holds ...
  MaxReads,     \* ... requests of the editor under way at once
  MaxMishaps    \* ... broken streams, dead daemons and facts of the supervisor

ASSUME EditorHoldsAssumption ==
  /\ Backlog \in Nat \ {0} /\ {MaxHeld, MaxReads, MaxMishaps} \subseteq Nat
  /\ PlanHolds \subseteq SUBSET (1 .. MaxHeld)

VARIABLES
  proposals,    \* the holds that are plan proposals; the others hold a tool or a verb
  latest,       \* how many holds there were: the last one's number
  entering,     \* the hold that is announced and not registered yet, or 0
  waiter,       \* PendingApprovals: the hold that waits, or 0
  saying,       \* what the hold's task has still to publish
  releasing,    \* a verdict took the slot and has not published it
  up,           \* the daemon runs
  link,         \* the editor's stream: "down", "open", or "cut" and not noticed yet
  stream,       \* what it holds for the editor
  reads,        \* the requests for /control/pending-approvals
  held,         \* GateState.held: the hold on show and its plan
  planText,     \* GateState.plans
  mishaps,      \* breaks, deaths and the supervisor's facts so far
  sure          \* history: a read came whole and nothing spoiled it since

daemonVars == <<proposals, latest, entering, waiter, saying, releasing, up>>
clientVars == <<held, planText>>
editorHoldVars == <<daemonVars, link, stream, reads, clientVars, mishaps, sure>>

ReadIds == 1 .. MaxReads

Editor == "editor"
Bus == INSTANCE EventBus WITH Receivers <- {Editor}, LateReceivers <- {},
                              Capacity <- Backlog, bus <- stream

NothingHeld == [hold |-> 0, plan |-> 0]
NoRead == [stage |-> "idle", hold |-> 0, ahead |-> 0, whole |-> FALSE]

\* A hold as the registry and the snapshot have it: only a plan hold has a plan.
RowOf(n) == [hold |-> n, plan |-> IF n \in proposals THEN n ELSE 0]

-----------------------------------------------------------------------------
(* The stream *)

\* What waits, or is about to.
Coming == IF entering # 0 THEN entering ELSE waiter

\* A fact is true of the registry when it is published: a release when nothing waits.
Tells(kind, n) ==
  CASE kind = "request" -> n = Coming
    [] kind \in {"released", "removed"} -> Coming = 0
    [] kind = "plan" -> Coming \in proposals => n = Coming
    [] kind = "waiting" -> TRUE

Fact(kind, n) == [kind |-> kind, hold |-> n, timely |-> Tells(kind, n)]

PublishFact(kind, n) ==
  IF link = "open" THEN Bus!Publish(<<Fact(kind, n)>>) ELSE UNCHANGED stream

\* BusNotifier: the plan if there is one, the request, the status.
Announcement(n) ==
  (IF n \in proposals THEN <<"plan">> ELSE <<>>) \o <<"request", "waiting">>

-----------------------------------------------------------------------------
(* The daemon *)

MayRaise == up /\ latest < MaxHeld /\ entering = 0 /\ saying = <<>>

\* ControlServer::hold announces, then registers ...
RaiseHook ==
  /\ MayRaise
  /\ latest' = latest + 1 /\ entering' = latest + 1
  /\ saying' = Announcement(latest + 1)
  /\ UNCHANGED <<proposals, waiter, releasing, up, link, stream, reads,
                 clientVars, mishaps, sure>>

EnterHook ==
  /\ entering # 0 /\ saying = <<>>
  /\ waiter' = entering /\ entering' = 0
  /\ UNCHANGED <<proposals, latest, saying, releasing, up, link, stream,
                 reads, clientVars, mishaps, sure>>

\* ... KeystoneApprovalGate::request the other way round, and it never has a plan.
RaiseVerb ==
  /\ MayRaise /\ latest + 1 \notin proposals
  /\ latest' = latest + 1 /\ waiter' = latest + 1
  /\ saying' = Announcement(latest + 1)
  /\ UNCHANGED <<proposals, entering, releasing, up, link, stream, reads,
                 clientVars, mishaps, sure>>

Say ==
  /\ saying # <<>>
  /\ PublishFact(Head(saying), latest) /\ saying' = Tail(saying)
  /\ UNCHANGED <<proposals, latest, entering, waiter, releasing, up, link,
                 reads, clientVars, mishaps, sure>>

\* route_approval, for whoever clicked: the slot first, the fact after.
GiveVerdict ==
  /\ waiter # 0 /\ ~releasing
  /\ waiter' = 0 /\ releasing' = TRUE
  /\ UNCHANGED <<proposals, latest, entering, saying, up, link, stream,
                 reads, clientVars, mishaps, sure>>

PublishRelease ==
  /\ releasing /\ releasing' = FALSE
  /\ PublishFact("released", 0)
  /\ UNCHANGED <<proposals, latest, entering, waiter, saying, up, link,
                 reads, clientVars, mishaps, sure>>

\* The supervisor's own facts: a status from the transcript, a plan read in it, a session
\* that is forgotten. None of them looks at the registry.
SupervisorSpeaks ==
  /\ up /\ mishaps < MaxMishaps /\ mishaps' = mishaps + 1
  /\ \/ PublishFact("released", 0)
     \/ PublishFact("removed", 0)
     \/ \E n \in proposals : n <= latest /\ PublishFact("plan", n)
  /\ UNCHANGED <<proposals, latest, entering, waiter, saying, releasing, up, link,
                 reads, clientVars, sure>>

\* The registry and its tasks die with the process; the editor has not noticed yet.
DaemonDies ==
  /\ up /\ mishaps < MaxMishaps /\ mishaps' = mishaps + 1
  /\ up' = FALSE /\ waiter' = 0 /\ entering' = 0 /\ saying' = <<>> /\ releasing' = FALSE
  /\ link' = IF link = "open" THEN "cut" ELSE link
  /\ UNCHANGED <<proposals, latest, stream, reads, clientVars, sure>>

DaemonStarts ==
  /\ ~up /\ up' = TRUE
  /\ UNCHANGED <<proposals, latest, entering, waiter, saying, releasing, link,
                 stream, reads, clientVars, mishaps, sure>>

\* pending_approvals: the answer to a request, on its way from now on.
ServeRead(r) ==
  /\ up /\ reads[r].stage = "asked"
  /\ reads' = [reads EXCEPT ![r] =
                 [stage |-> "served", hold |-> waiter, ahead |-> Len(stream[Editor].queue),
                  whole |-> link = "open" /\ entering = 0]]
  /\ UNCHANGED <<daemonVars, link, stream, clientVars, mishaps, sure>>

-----------------------------------------------------------------------------
(* The editor's stream *)

Free == {r \in ReadIds : reads[r].stage = "idle"}

\* onDesync: resyncHolds asks; what was on its way is no longer whole.
Desync ==
  /\ Free # {}
  /\ sure' = FALSE
  /\ LET r == CHOOSE r \in Free : \A q \in Free : r <= q
     IN reads' = [q \in ReadIds |-> IF q = r THEN [NoRead EXCEPT !.stage = "asked"]
                                    ELSE [reads[q] EXCEPT !.whole = FALSE]]

\* The stream ends: reported at once, and tried again after a while.
StreamEnds ==
  /\ \/ link = "cut" /\ mishaps' = mishaps
     \/ link = "open" /\ mishaps < MaxMishaps /\ mishaps' = mishaps + 1
  /\ link' = "down" /\ stream' = [stream EXCEPT ![Editor] = Bus!EmptyChannel]
  /\ Desync
  /\ UNCHANGED <<daemonVars, clientVars>>

RetryFails ==
  /\ link = "down" /\ ~up /\ Desync
  /\ UNCHANGED <<daemonVars, link, stream, clientVars, mishaps>>

\* A connection that succeeds reports nothing.
Reconnect ==
  /\ link = "down" /\ up /\ link' = "open"
  /\ UNCHANGED <<daemonVars, stream, reads, clientVars, mishaps, sure>>

HearLag ==
  /\ Bus!ReceiveLag(Editor) /\ Desync
  /\ UNCHANGED <<daemonVars, link, clientVars, mishaps>>

-----------------------------------------------------------------------------
(* GateState *)

\* GateState.apply: a plan patches a plan hold on show, a request shows a hold with the
\* plan last heard if it is one, and any status but waiting takes the hold away.
Apply(fact) ==
  CASE fact.kind = "plan" ->
         /\ planText' = fact.hold
         /\ held' = IF held.hold \in proposals THEN [held EXCEPT !.plan = fact.hold] ELSE held
    [] fact.kind = "request" ->
         /\ held' = [hold |-> fact.hold,
                     plan |-> IF fact.hold \in proposals THEN planText ELSE 0]
         /\ UNCHANGED planText
    [] fact.kind = "released" -> held' = NothingHeld /\ UNCHANGED planText
    [] fact.kind = "removed" -> held' = NothingHeld /\ planText' = 0
    [] fact.kind = "waiting" -> UNCHANGED clientVars

\* A snapshot taken before this fact was published has been overtaken by it.
Overtaken(read) ==
  IF read.ahead = 0 THEN [read EXCEPT !.whole = FALSE] ELSE [read EXCEPT !.ahead = @ - 1]

HearFact ==
  LET fact == Bus!Received(Editor) IN
  /\ Bus!Receive(Editor) /\ Apply(fact)
  /\ reads' = [r \in ReadIds |-> IF reads[r].stage = "served" THEN Overtaken(reads[r])
                                 ELSE reads[r]]
  /\ sure' = (sure /\ fact.timely)
  /\ UNCHANGED <<daemonVars, link, mishaps>>

\* Mutant: the rows are merged into what is on show.
Merged(n) ==
  /\ held' = IF n = 0 THEN held ELSE RowOf(n)
  /\ planText' = IF n \in proposals THEN n ELSE planText

\* GateState.resync: wholesale, and a plan outlives its hold.
Resync(n) ==
  /\ held' = IF n = 0 THEN NothingHeld ELSE RowOf(n)
  /\ planText' = IF n \in proposals THEN n ELSE planText

TakeRead(r) ==
  /\ reads[r].stage = "served"
  /\ Resync(reads[r].hold) /\ sure' = reads[r].whole
  /\ reads' = [reads EXCEPT ![r] = NoRead]
  /\ UNCHANGED <<daemonVars, link, stream, mishaps>>

\* A request that fails or times out is dropped without a word.
ReadFails(r) ==
  /\ reads[r].stage # "idle"
  /\ reads' = [reads EXCEPT ![r] = NoRead]
  /\ UNCHANGED <<daemonVars, link, stream, clientVars, mishaps, sure>>

-----------------------------------------------------------------------------
(* The specification *)

\* The window opens: it reads once and starts to listen.
HoldsInit ==
  /\ proposals \in PlanHolds
  /\ latest = 0 /\ entering = 0 /\ waiter = 0 /\ saying = <<>> /\ releasing = FALSE
  /\ up = TRUE /\ link = "down" /\ Bus!BusInit
  /\ reads = [r \in ReadIds |-> [NoRead EXCEPT !.stage = IF r = 1 THEN "asked" ELSE "idle"]]
  /\ held = NothingHeld /\ planText = 0
  /\ mishaps = 0 /\ sure = FALSE

HoldsNext ==
  \/ RaiseHook \/ EnterHook \/ RaiseVerb \/ Say \/ GiveVerdict \/ PublishRelease \/ SupervisorSpeaks
  \/ DaemonDies \/ DaemonStarts
  \/ StreamEnds \/ RetryFails \/ Reconnect \/ HearLag \/ HearFact
  \/ \E r \in ReadIds : ServeRead(r) \/ TakeRead(r) \/ ReadFails(r)

HoldsSpec == HoldsInit /\ [][HoldsNext]_editorHoldVars

-----------------------------------------------------------------------------
(* Properties *)

AllSaid == saying = <<>> /\ ~releasing /\ entering = 0
AllHeard == link = "open" /\ Bus!Drained(Editor)

\* Once a read came whole over an open stream, the facts after it keep the editor's hold
\* what the registry has, plan included, however the read and the facts passed each other:
\* until the stream mishaps, lags, or carries a fact that was not true when it was sent.
ShownIsHeld ==
  sure /\ AllSaid /\ AllHeard => held = IF waiter = 0 THEN NothingHeld ELSE RowOf(waiter)

\* "Reported for a reconnect as well as a lag: a client that reconnected silently would show
\* a plan gate that was answered while it was disconnected" (events.ts): a stream that comes
\* back with another hold on show than the one that waits has a read on its way.
ReconnectIsReported ==
  [][Reconnect /\ held.hold \notin {0, waiter} =>
       \E r \in ReadIds : reads'[r].stage # "idle"]_editorHoldVars
=============================================================================
