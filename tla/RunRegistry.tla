----------------------------- MODULE RunRegistry -----------------------------
(***************************************************************************)
(* The desktop's run registry (run.rs): one tab per run target, shared by  *)
(* the operator's Run window and the agents' run verbs. Every method holds *)
(* the registry's lock; the threads of a run, and the two halves of        *)
(* closing a tab, take it in between.                                      *)
(***************************************************************************)
EXTENDS Naturals, Sequences

CONSTANTS
  Targets,    \* run targets: a tab is found by its command
  MaxStarts   \* bound: launches, the failed ones included

ASSUME RunAssumption == MaxStarts \in Nat

VARIABLES
  tabs,          \* target -> its entry; a target outside the domain has no tab
  launches,      \* the launches so far: a process and its threads
  next_id,
  last_started,  \* id of the last tab started, or NoTab
  closing        \* ids that remove() has stopped and not yet dropped

runVars == <<tabs, launches, next_id, last_started, closing>>

NoTab  == 0    \* ids count from 1 here, and so do processes
NoProc == 0

Procs      == 1 .. Len(launches)
TabsOf(id) == {c \in DOMAIN tabs : tabs[c].id = id}
Alive(p)   == p # NoProc /\ launches[p].alive

\* `of' and `doomed' are history: the target, and whether its tab was being closed then.
Launched(c, id, epoch, ok) ==
  [id |-> id, epoch |-> epoch, alive |-> ok, threads |-> IF ok THEN "unborn" ELSE "none",
   reading |-> FALSE, waiting |-> FALSE, of |-> c, doomed |-> id \in closing]

\* Mutant: the tab is reused without killing what runs in it.
KillNothing(p) == launches

Kill(p) == IF p = NoProc THEN launches ELSE [launches EXCEPT ![p].alive = FALSE]

-----------------------------------------------------------------------------
(* Start, stop, close *)

\* The entry a start leaves: the target's own tab with a new epoch, or a new tab.
Restarted(c, ok) ==
  [id     |-> IF c \in DOMAIN tabs THEN tabs[c].id ELSE next_id,
   epoch  |-> IF c \in DOMAIN tabs THEN tabs[c].epoch + 1 ELSE 0,
   status |-> IF ok THEN "Running" ELSE "Failed",
   child  |-> IF ok THEN Len(launches) + 1 ELSE NoProc,
   lines  |-> {}]

\* start: a live child is killed first; ok says whether the spawn succeeds.
Start(c, ok) ==
  LET entry == Restarted(c, ok)
      old   == IF c \in DOMAIN tabs THEN tabs[c].child ELSE NoProc
  IN  /\ Len(launches) < MaxStarts
      /\ tabs' = [t \in DOMAIN tabs \cup {c} |-> IF t = c THEN entry ELSE tabs[t]]
      /\ launches' = Append(Kill(old), Launched(c, entry.id, entry.epoch, ok))
      /\ next_id' = IF c \in DOMAIN tabs THEN next_id ELSE next_id + 1
      /\ last_started' = IF ok THEN entry.id ELSE last_started
      /\ UNCHANGED closing

\* The end of start, after the lock is released.
SpawnThreads(p) ==
  /\ launches[p].threads = "unborn"
  /\ launches' = [launches EXCEPT ![p].threads = "born", ![p].reading = TRUE,
                                  ![p].waiting = TRUE]
  /\ UNCHANGED <<tabs, next_id, last_started, closing>>

\* What stop does to the tab c: a child that already exited is left to its waiter.
Stopped(c) ==
  IF Alive(tabs[c].child)
  THEN /\ tabs' = [tabs EXCEPT ![c].child = NoProc, ![c].status = "Killed"]
       /\ launches' = Kill(tabs[c].child)
  ELSE UNCHANGED <<tabs, launches>>

Stop(c) ==
  /\ c \in DOMAIN tabs /\ Alive(tabs[c].child) /\ Stopped(c)
  /\ UNCHANGED <<next_id, last_started, closing>>

\* remove: it stops the run under the lock, and drops the tab under the lock taken again.
CloseStops(c) ==
  /\ c \in DOMAIN tabs /\ tabs[c].id \notin closing /\ Stopped(c)
  /\ closing' = closing \cup {tabs[c].id}
  /\ UNCHANGED <<next_id, last_started>>

Newest(ids) == IF ids = {} THEN NoTab ELSE CHOOSE i \in ids : \A j \in ids : j <= i

CloseDrops(id) ==
  /\ id \in closing /\ closing' = closing \ {id}
  /\ tabs' = [t \in DOMAIN tabs \ TabsOf(id) |-> tabs[t]]
  /\ last_started' = IF last_started = id
                     THEN Newest({tabs[t].id : t \in DOMAIN tabs \ TabsOf(id)})
                     ELSE last_started
  /\ UNCHANGED <<launches, next_id>>

ClearLogs(c) ==
  /\ c \in DOMAIN tabs /\ tabs[c].lines # {}
  /\ tabs' = [tabs EXCEPT ![c].lines = {}]
  /\ UNCHANGED <<launches, next_id, last_started, closing>>

-----------------------------------------------------------------------------
(* The threads of a run *)

ProcessExits(p) ==
  /\ launches[p].alive /\ launches' = [launches EXCEPT ![p].alive = FALSE]
  /\ UNCHANGED <<tabs, next_id, last_started, closing>>

\* Mutant: the tab is recognised by its id alone.
OwnsById(p) == {c \in TabsOf(launches[p].id) : TRUE}

\* The tab that is still the launch p's: not closed, and not rerun.
Owns(p) == {c \in TabsOf(launches[p].id) : tabs[c].epoch = launches[p].epoch}

\* spawn_reader: a line of p, written before or after p ended, goes to its tab's ring.
ReaderTakesLine(p) ==
  /\ launches[p].reading
  /\ tabs' = [t \in DOMAIN tabs |-> IF t \in Owns(p)
                                    THEN [tabs[t] EXCEPT !.lines = @ \cup {p}] ELSE tabs[t]]
  /\ launches' = [launches EXCEPT ![p].reading = Owns(p) # {}]
  /\ UNCHANGED <<next_id, last_started, closing>>

ReaderEnds(p) ==
  /\ launches[p].reading /\ ~launches[p].alive
  /\ launches' = [launches EXCEPT ![p].reading = FALSE]
  /\ UNCHANGED <<tabs, next_id, last_started, closing>>

\* Mutant: a child that has exited is taken for one that was stopped.
FoldsNothing(p) == {}

\* The tab whose child the waiter of p finds exited.
Folds(p) == {c \in Owns(p) : tabs[c].child # NoProc /\ ~Alive(tabs[c].child)}

\* spawn_waiter, one poll: it ends with the run's tab, epoch or child, or folds its exit.
WaiterPolls(p) ==
  /\ launches[p].waiting
  /\ \A c \in Owns(p) : ~Alive(tabs[c].child)
  /\ tabs' = [t \in DOMAIN tabs |->
                IF t \in Folds(p) THEN [tabs[t] EXCEPT !.child = NoProc, !.status = "Exited"]
                ELSE tabs[t]]
  /\ launches' = [launches EXCEPT ![p].waiting = FALSE]
  /\ UNCHANGED <<next_id, last_started, closing>>

-----------------------------------------------------------------------------

RunInit == /\ tabs = [t \in {} |-> 0] /\ launches = <<>> /\ next_id = 1
           /\ last_started = NoTab /\ closing = {}

RunNext ==
  \/ \E c \in Targets : \/ \E ok \in BOOLEAN : Start(c, ok)
                        \/ Stop(c) \/ CloseStops(c) \/ ClearLogs(c)
  \/ \E id \in closing : CloseDrops(id)
  \/ \E p \in Procs : \/ SpawnThreads(p) \/ ProcessExits(p) \/ ReaderTakesLine(p)
                      \/ ReaderEnds(p) \/ WaiterPolls(p)

\* start goes on to spawn its threads, and a waiter's thread keeps polling.
RunGoesOn(p) == p \in Procs /\ (SpawnThreads(p) \/ WaiterPolls(p))

RunFairness == \A p \in 1 .. MaxStarts : WF_runVars(RunGoesOn(p))

RunSpec == RunInit /\ [][RunNext]_runVars /\ RunFairness

-----------------------------------------------------------------------------
(* Properties *)

\* What a tab shows was written by the process it runs, or ran last: no line of an earlier
\* run, whose reader may still be draining its pipe, gets into the console of the rerun
\* ("Stops touching state when the run was rerun (epoch bump) or its tab closed").
LinesAreTheRuns ==
  \A c \in DOMAIN tabs : \A p \in tabs[c].lines :
    launches[p].id = tabs[c].id /\ launches[p].epoch = tabs[c].epoch

\* Of two live processes of one target, the older was started while its tab was being closed
\* and has lost it: whoever starts, stops or reruns what, no other order leaks a process.
\* That is less than start says ("concurrent starts ... fully serialize instead of leaking
\* an orphan child"): remove drops a tab without looking at what runs in it by then.
OneProcessPerTarget ==
  \A p, q \in Procs :
    launches[p].alive /\ launches[q].alive /\ launches[p].of = launches[q].of /\ p < q
    => launches[p].doomed /\ TabsOf(launches[p].id) = {}

\* A process that has exited does not leave its tab on "running" forever, although a stop,
\* a rerun or a close of the tab may come between any two polls of its waiter.
Ended(c) == c \in DOMAIN tabs /\ tabs[c].status = "Running" /\ ~Alive(tabs[c].child)
ExitsAreShown == \A c \in Targets : Ended(c) ~> ~Ended(c)
=============================================================================
