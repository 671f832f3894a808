---------------------------- MODULE ApprovalPopup ----------------------------
(***************************************************************************)
(* How the desktop keeps one session's held approval before the operator:  *)
(* the hook server's thread announces a hold on the bus, the engine's loop *)
(* routes the verdict, and two tasks fold the same facts: the workspace,   *)
(* which retains the hold (views/approvals.rs), and the session's monitor, *)
(* whose popup it is (session_monitor.rs).                                 *)
(***************************************************************************)
EXTENDS Naturals, Sequences

CONSTANTS
  MaxHolds, MaxFacts,   \* bounds: holds announced, facts waiting per task
  Observable            \* the statuses detection reports

ASSUME PopupAssumption == MaxHolds \in Nat /\ MaxFacts \in Nat /\ "Running" \in Observable

VARIABLES
  raised,    \* holds announced so far, numbered from 1
  unheld,    \* those announced and not yet registered
  ended,     \* those a verdict has let go
  slot,      \* the session's entry in PendingApprovals, or 0
  status,    \* the status on the supervisor's own row
  verdicts,  \* operator commands the engine's loop has not taken
  resolved,  \* whether a hold was resolved and its fact is still to be published
  wsFacts, monFacts,   \* facts the workspace and the monitor have not folded
  retained,  \* the workspace's copy of the hold (Approvals), or 0
  mounted, popup       \* the session's monitor: open or not, and the hold it shows

popupVars == <<raised, unheld, ended, slot, status, verdicts, resolved, wsFacts, monFacts,
               retained, mounted, popup>>
holdVars  == <<raised, unheld, ended, slot>>
uiVars    == <<retained, mounted, popup>>

Requested(h) == [kind |-> "ApprovalRequested", hold |-> h, status |-> "WaitingInput"]
State(s)     == [kind |-> "SessionStateChanged", hold |-> 0, status |-> s]
Upserted     == [kind |-> "SessionUpserted", hold |-> 0, status |-> status]
Transitioned == [kind |-> "PhaseTransitioned", hold |-> 0, status |-> status]

\* EventBus::publish to the two tasks; a monitor that is not open has no receiver.
PublishAll(facts) ==
  /\ Len(wsFacts) + Len(facts) <= MaxFacts /\ Len(monFacts) + Len(facts) <= MaxFacts
  /\ wsFacts' = wsFacts \o facts
  /\ monFacts' = IF mounted THEN monFacts \o facts ELSE <<>>

-----------------------------------------------------------------------------
(* The hook server and the engine's loop *)

\* HookServer::hold announces first (BusNotifier::approval_requested) ...
AnnounceHold ==
  /\ raised < MaxHolds /\ raised' = raised + 1 /\ unheld' = unheld \cup {raised + 1}
  /\ PublishAll(<<Requested(raised + 1), State("WaitingInput")>>)
  /\ UNCHANGED <<ended, slot, status, verdicts, resolved, uiVars>>

\* ... and registers then: the newer registration takes the slot.
RegisterHold(h) ==
  /\ h \in unheld /\ unheld' = unheld \ {h} /\ slot' = h
  /\ UNCHANGED <<raised, ended, status, verdicts, resolved, wsFacts, monFacts, uiVars>>

\* The budget of a held call elapses: the slot is emptied and nothing is published.
HoldElapses ==
  /\ slot # 0 /\ slot' = 0
  /\ UNCHANGED <<raised, unheld, ended, status, verdicts, resolved, wsFacts, monFacts, uiVars>>

\* A command or an observation that republishes the supervisor's row, or its phase.
Republish ==
  /\ PublishAll(<<Upserted>>) \/ PublishAll(<<Transitioned>>)
  /\ UNCHANGED <<holdVars, status, verdicts, resolved, uiVars>>

\* apply_status, from detection.
ApplyStatus(s) ==
  /\ status' = s /\ PublishAll(<<State(s)>>)
  /\ UNCHANGED <<holdVars, verdicts, resolved, uiVars>>

\* Another surface decides: the control API's verdict sends the same command.
DecideElsewhere ==
  /\ verdicts < MaxHolds /\ verdicts' = verdicts + 1
  /\ UNCHANGED <<holdVars, status, resolved, wsFacts, monFacts, uiVars>>

\* route_approval: the hook is let go first, the fact follows; with nothing held the
\* supervisor's own approval finds no port to resume by.
RouteApproval ==
  /\ verdicts > 0 /\ ~resolved /\ verdicts' = verdicts - 1
  /\ slot' = 0 /\ resolved' = (slot # 0) /\ ended' = ended \cup ({slot} \ {0})
  /\ UNCHANGED <<raised, unheld, status, wsFacts, monFacts, uiVars>>

PublishResolved ==
  /\ resolved /\ resolved' = FALSE
  /\ PublishAll(<<State("Running")>>)
  /\ UNCHANGED <<holdVars, status, verdicts, uiVars>>

-----------------------------------------------------------------------------
(* The window *)

\* Mutant: only a full row says that the hold is over.
FoldedByRow(hold, fact) ==
  CASE fact.kind = "ApprovalRequested" -> fact.hold
    [] fact.kind = "SessionUpserted" /\ fact.status # "WaitingInput" -> 0
    [] OTHER -> hold

\* What both folds make of a fact: a new hold replaces the old; a session that no longer
\* waits, or that moved on, has none.
Folded(hold, fact) ==
  CASE fact.kind = "ApprovalRequested" -> fact.hold
    [] fact.kind \in {"SessionUpserted", "SessionStateChanged"} ->
         IF fact.status = "WaitingInput" THEN hold ELSE 0
    [] OTHER -> 0

WorkspaceFolds ==
  /\ wsFacts # <<>> /\ wsFacts' = Tail(wsFacts)
  /\ retained' = Folded(retained, Head(wsFacts))
  /\ UNCHANGED <<holdVars, status, verdicts, resolved, monFacts, mounted, popup>>

MonitorFolds ==
  /\ monFacts # <<>> /\ monFacts' = Tail(monFacts)
  /\ popup' = Folded(popup, Head(monFacts))
  /\ UNCHANGED <<holdVars, status, verdicts, resolved, wsFacts, mounted, retained>>

\* SessionMonitor::build: subscribed from now on, and the retained hold shown.
OpenMonitor ==
  /\ ~mounted /\ mounted' = TRUE
  /\ popup' = retained
  /\ UNCHANGED <<holdVars, status, verdicts, resolved, wsFacts, monFacts, retained>>

CloseMonitor ==
  /\ mounted /\ mounted' = FALSE /\ popup' = 0 /\ monFacts' = <<>>
  /\ UNCHANGED <<holdVars, status, verdicts, resolved, wsFacts, retained>>

\* resolve_authorize: the command goes, both copies are dropped at once.
ResolveAuthorize ==
  /\ popup # 0 /\ verdicts < MaxHolds
  /\ verdicts' = verdicts + 1 /\ popup' = 0 /\ retained' = 0
  /\ UNCHANGED <<holdVars, status, resolved, wsFacts, monFacts, mounted>>

-----------------------------------------------------------------------------

PopupInit ==
  /\ raised = 0 /\ unheld = {} /\ ended = {} /\ slot = 0 /\ status = "Running" /\ verdicts = 0 /\ resolved = FALSE
  /\ wsFacts = <<>> /\ monFacts = <<>> /\ retained = 0 /\ mounted \in BOOLEAN /\ popup = 0

PopupNext ==
  \/ AnnounceHold \/ (\E h \in unheld : RegisterHold(h)) \/ HoldElapses \/ Republish \/ \E s \in Observable : ApplyStatus(s)
  \/ DecideElsewhere \/ RouteApproval \/ PublishResolved
  \/ WorkspaceFolds \/ MonitorFolds \/ OpenMonitor \/ CloseMonitor \/ ResolveAuthorize

PopupSpec == PopupInit /\ [][PopupNext]_popupVars

-----------------------------------------------------------------------------
(* Properties *)

Settled == wsFacts = <<>> /\ monFacts = <<>> /\ verdicts = 0 /\ ~resolved

\* Once every fact is folded, a hold that a verdict ended is not retained: a monitor opened
\* then does not offer it for a second verdict (session_monitor.rs, resolve_authorize).
SettledIsNotRetained == Settled => retained \notin ended
=============================================================================
