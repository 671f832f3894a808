------------------------------ MODULE DeskProofs ------------------------------
(***************************************************************************)
(* Proofs about the operator's desk: the compaction armed on a terminal,   *)
(* the tabs of an edited file, the run registry, the approval popup and    *)
(* the review panel with the verdicts it gives of its files.               *)
(***************************************************************************)
EXTENDS MonitorTerminal, EditorTabs, RunRegistry, ApprovalPopup, ReviewPanel,
        ReviewVerdicts, FiniteSetTheorems, TLAPS

-----------------------------------------------------------------------------
(* MonitorTerminal *)

\* An armed injection is known to the monitor and has not fired since usage was low; one
\* that fired leaves the monitor believing it armed, which is what keeps it from arming
\* again on a stale reading.
CompactInv ==
  /\ auto_inject \in BOOLEAN /\ compact_armed \in BOOLEAN
  /\ compactions \in {0, 1}
  /\ auto_inject => compact_armed /\ compactions = 0
  /\ compactions = 1 => compact_armed

\* A monitor's start, or a fresh terminal, has nothing armed and nothing compacted.
LEMMA CompactInit == MonitorInit => CompactInv
<1>0. 0 # 1
  OBVIOUS
<1>1. MonitorInit => auto_inject = FALSE /\ compact_armed = FALSE /\ compactions = 0
  BY Zenon DEF MonitorInit
<1>2. QED
  BY <1>0, <1>1, Zenon DEF CompactInv

\* Every step of the monitor, its terminal and the operator keeps the invariant.
LEMMA CompactStep == CompactInv /\ [MonitorNext]_monitorVars => CompactInv'
<1> SUFFICES ASSUME CompactInv, [MonitorNext]_monitorVars PROVE CompactInv'
  OBVIOUS
<1>0. 0 # 1
  OBVIOUS
<1>1. ASSUME NEW level \in Levels, ObsNotifies(level) PROVE CompactInv'
  <2> DEFINE d == IF watched /\ term # "none" THEN Decided(level, compact_armed) ELSE "Hold"
  <2>1. /\ compactions' = IF level = "low" THEN 0 ELSE compactions
        /\ auto_inject' = (d = "Arm" \/ (auto_inject /\ d # "Disarm"))
        /\ compact_armed' = (d = "Arm" \/ (compact_armed /\ d # "Disarm"))
    BY <1>1 DEF ObsNotifies
  <2>2. /\ d \in {"Arm", "Disarm", "Hold"}
        /\ d = "Arm" => ~compact_armed
        /\ d = "Disarm" => level = "low"
    BY Zenon DEF Decided
  <2> HIDE DEF d
  <2>3. CASE d = "Arm"
    <3>1. auto_inject' = TRUE /\ compact_armed' = TRUE
      BY <2>1, <2>3
    <3>2. compactions' = 0
      BY <2>1, <2>2, <2>3 DEF CompactInv
    <3>3. QED
      BY <1>0, <3>1, <3>2, Zenon DEF CompactInv
  <2>4. CASE d = "Disarm"
    <3>1. auto_inject' = FALSE /\ compact_armed' = FALSE
      BY <2>1, <2>4
    <3>2. compactions' = 0
      BY <2>1, <2>2, <2>4
    <3>3. QED
      BY <1>0, <3>1, <3>2, Zenon DEF CompactInv
  <2>5. CASE d = "Hold"
    <3>1. auto_inject' = auto_inject /\ compact_armed' = compact_armed
      BY <2>1, <2>5 DEF CompactInv
    <3>2. compactions' = 0 \/ compactions' = compactions
      BY <2>1
    <3>3. QED
      BY <1>0, <3>1, <3>2, Zenon DEF CompactInv
  <2>6. QED
    BY <2>2, <2>3, <2>4, <2>5
<1>2. CASE TypeFreshMessage
  <2>1. /\ auto_inject = TRUE /\ auto_inject' = FALSE
        /\ compact_armed' = compact_armed /\ compactions' = compactions + 1
    BY <1>2, Zenon DEF TypeFreshMessage, CompactInv
  <2>2. compact_armed /\ compactions = 0
    BY <1>0, <2>1, Zenon DEF CompactInv
  <2>3. QED
    <3>1. compactions' = 1
      BY <2>1, <2>2
    <3>2. QED
      BY <1>0, <2>1, <2>2, <3>1, Zenon DEF CompactInv
<1>3. CASE CompactSession
  <2>1. auto_inject' = FALSE /\ compact_armed' = FALSE /\ compactions' = 0
    BY <1>3, Zenon DEF CompactSession
  <2>2. QED
    BY <1>0, <2>1, Zenon DEF CompactInv
<1>4. CASE TryResume
  <2>1. auto_inject' = FALSE /\ compact_armed' = FALSE /\ compactions' = 0
    BY <1>4, Zenon DEF TryResume, FreshTerminal
  <2>2. QED
    BY <1>0, <2>1, Zenon DEF CompactInv
<1>5. CASE AgentExits
  BY <1>5 DEF AgentExits, compactVars, CompactInv
<1>6. CASE CheckTerminalExit
  <2>1. \/ auto_inject' = FALSE /\ compact_armed' = FALSE /\ compactions' = 0
        \/ /\ auto_inject' = auto_inject /\ compact_armed' = compact_armed
           /\ compactions' = compactions
    BY <1>6 DEF CheckTerminalExit, FreshTerminal, compactVars
  <2>2. CASE auto_inject' = FALSE /\ compact_armed' = FALSE /\ compactions' = 0
    BY <1>0, <2>2, Zenon DEF CompactInv
  <2>3. CASE /\ auto_inject' = auto_inject /\ compact_armed' = compact_armed
             /\ compactions' = compactions
    BY <2>3, Zenon DEF CompactInv
  <2>4. QED
    BY <2>1, <2>2, <2>3
<1>7. CASE SendNudge
  BY <1>7 DEF SendNudge, compactVars, CompactInv
<1>8. ASSUME NEW b \in BOOLEAN, Alert(b) \/ SetAutoResume(b) PROVE CompactInv'
  BY <1>8 DEF Alert, SetAutoResume, compactVars, CompactInv
<1>9. CASE UNCHANGED monitorVars
  BY <1>9 DEF monitorVars, CompactInv
<1>10. QED
  BY <1>1, <1>2, <1>3, <1>4, <1>5, <1>6, <1>7, <1>8, <1>9 DEF MonitorNext

\* What is armed on the terminal is something the monitor knows it has to disarm
\* (session_monitor.rs check_auto_compact, compact_session, relaunch_after_exit).
THEOREM ArmedIsAlwaysKnown == MonitorSpec => []ArmedIsKnown
<1>1. CompactInv => ArmedIsKnown
  BY DEF CompactInv, ArmedIsKnown
<1>2. QED
  BY <1>1, CompactInit, CompactStep, PTL DEF MonitorSpec

\* The policy compacts at most once before usage is seen low again (auto_compact.rs).
THEOREM CompactsOncePerFill == MonitorSpec => []OncePerFill
<1>1. CompactInv => OncePerFill
  BY DEF CompactInv, OncePerFill
<1>2. QED
  BY <1>1, CompactInit, CompactStep, PTL DEF MonitorSpec

-----------------------------------------------------------------------------
(* EditorTabs *)

\* Every tab holds a buffer, and one that differs from what it last synced is dirty.
TabsInv ==
  /\ views \in [Tabs -> [open : BOOLEAN, shown : Nat, synced : Nat, dirty : BOOLEAN]]
  /\ disk.content \in Nat /\ made \in Nat
  /\ UnsavedIsMarked

\* Every step of a tab, the gate and the agent keeps the invariant.
LEMMA TabsStep == TabsInv /\ [EditorNext]_editorVars => TabsInv'
<1> SUFFICES ASSUME TabsInv, [EditorNext]_editorVars PROVE TabsInv'
  OBVIOUS
<1> USE DEF TabsInv, UnsavedIsMarked
<1>1. ASSUME NEW p \in EditPhases, Transition(p) PROVE TabsInv'
  BY <1>1 DEF Transition
<1>2. CASE GateFolds \/ GridFolds \/ FocusSession
  BY <1>2 DEF GateFolds, GridFolds, FocusSession
<1>3. CASE AgentWrites
  BY <1>3 DEF AgentWrites
<1>4. ASSUME NEW t \in Tabs, OpenTab(t) PROVE TabsInv'
  BY <1>4 DEF OpenTab
<1>5. ASSUME NEW t \in Tabs, CloseEditor(t) PROVE TabsInv'
  BY <1>5 DEF CloseEditor, Closed
<1>6. ASSUME NEW t \in Tabs, Type(t) \/ SetEol(t) PROVE TabsInv'
  BY <1>6 DEF Type, SetEol, Changed
<1>7. ASSUME NEW t \in Tabs, FormatDocument(t) PROVE TabsInv'
  <2>1. CASE UNCHANGED made
    <3>1. /\ disk' = [content |-> views[t].shown, by |-> "operator"]
          /\ views' = [views EXCEPT ![t].synced = views[t].shown]
      BY <1>7, <2>1 DEF FormatDocument
    <3>2. QED
      BY <2>1, <3>1
  <2>2. CASE made' = made + 1
    <3>1. /\ disk' = [content |-> made + 1, by |-> "operator"]
          /\ views' = [views EXCEPT ![t] = [open |-> TRUE, shown |-> made + 1,
                                            synced |-> made + 1, dirty |-> FALSE]]
      BY <1>7, <2>2 DEF FormatDocument
    <3>2. QED
      BY <2>2, <3>1
  <2>3. QED
    BY <1>7, <2>1, <2>2 DEF FormatDocument
<1>8. ASSUME NEW t \in Tabs, NEW ok \in BOOLEAN, Save(t, ok) PROVE TabsInv'
  BY <1>8 DEF Save, Write
<1>9. CASE UNCHANGED editorVars
  BY <1>9 DEF editorVars
<1>10. QED
  BY <1>1, <1>2, <1>3, <1>4, <1>5, <1>6, <1>7, <1>8, <1>9 DEF EditorNext

\* An operator's edit is in the file, put there by its tab, or marked unsaved, for any
\* number of tabs and edits (code_editor.rs save, format_document).
THEOREM UnsavedIsAlwaysMarked == EditorSpec => []UnsavedIsMarked
<1>1. EditorInit => TabsInv
  BY DEF EditorInit, TabsInv, UnsavedIsMarked, Closed
<1>2. TabsInv => UnsavedIsMarked
  BY DEF TabsInv
<1>3. QED
  BY <1>1, <1>2, TabsStep, PTL DEF EditorSpec
-----------------------------------------------------------------------------
(* RunRegistry *)

\* What a spawned process is.
Launch == [id : Nat, epoch : Nat, alive : BOOLEAN, threads : {"unborn", "born", "none"},
           reading : BOOLEAN, waiting : BOOLEAN, of : Targets, doomed : BOOLEAN]
\* What a tab of the console shows.
Entry  == [id : Nat, epoch : Nat, status : {"Running", "Failed", "Killed", "Exited"},
           child : Nat, lines : SUBSET Nat]

\* Ids are given once: a launch and a tab have one that is used up, no two tabs the same.
IdsAreGivenOnce ==
  /\ \A c \in DOMAIN tabs : tabs[c].id < next_id
  /\ \A p \in Procs : launches[p].id < next_id
  /\ \A c, d \in DOMAIN tabs : tabs[c].id = tabs[d].id => c = d

\* A process that is alive is the child its tab knows, as long as it has one.
AliveIsChild ==
  \A p \in Procs : \A c \in DOMAIN tabs :
    launches[p].alive /\ launches[p].id = tabs[c].id => tabs[c].child = p

\* A tab of the id a launch was given is its target's.
TabsAreTheTargets ==
  \A p \in Procs : \A c \in DOMAIN tabs :
    launches[p].id = tabs[c].id => launches[p].of = c

\* A live process that was not started under a close has its tab, and none is closing it.
DoomedOrKept ==
  \A p \in Procs : launches[p].alive /\ ~launches[p].doomed =>
    launches[p].id \notin closing /\ \E c \in DOMAIN tabs : tabs[c].id = launches[p].id

\* What every launch, kill, line and close keeps.
RunInv ==
  /\ launches \in Seq(Launch) /\ next_id \in Nat \ {0}
  /\ tabs \in [DOMAIN tabs -> Entry]
  /\ \A c \in DOMAIN tabs : tabs[c].child \in Procs \cup {NoProc} /\ tabs[c].lines \subseteq Procs
  /\ IdsAreGivenOnce /\ AliveIsChild /\ TabsAreTheTargets /\ DoomedOrKept
  /\ OneProcessPerTarget /\ LinesAreTheRuns

\* A step that launches nothing, and revives nothing.
Quiet ==
  /\ launches' \in Seq(Launch) /\ Len(launches') = Len(launches)
  /\ \A p \in Procs : /\ launches'[p].id = launches[p].id
                      /\ launches'[p].epoch = launches[p].epoch
                      /\ launches'[p].of = launches[p].of
                      /\ launches'[p].doomed = launches[p].doomed
                      /\ launches'[p].alive => launches[p].alive

\* A step that begins to close no tab of a process it leaves alive.
ClosesTheDead ==
  \A p \in Procs : launches'[p].alive /\ launches[p].id \in closing'
                    => launches[p].id \in closing

\* Killing a process leaves it dead and changes nothing else.
LEMMA KilledIs ==
  ASSUME launches \in Seq(Launch), NEW p \in Procs \cup {NoProc}
  PROVE  /\ Kill(p) \in Seq(Launch) /\ Len(Kill(p)) = Len(launches)
         /\ \A q \in Procs : /\ Kill(p)[q].id = launches[q].id
                             /\ Kill(p)[q].epoch = launches[q].epoch
                             /\ Kill(p)[q].of = launches[q].of
                             /\ Kill(p)[q].doomed = launches[q].doomed
                             /\ Kill(p)[q].alive => launches[q].alive
         /\ p # NoProc => ~Kill(p)[p].alive
<1>1. CASE p = NoProc
  BY <1>1 DEF Kill
<1>2. CASE p # NoProc
  <2>1. launches[p] \in Launch
    BY <1>2 DEF Procs, NoProc
  <2>2. [launches[p] EXCEPT !.alive = FALSE] \in Launch
    BY <2>1 DEF Launch
  <2>3. Kill(p) = [launches EXCEPT ![p] = [launches[p] EXCEPT !.alive = FALSE]]
    BY <1>2 DEF Kill
  <2>4. /\ [launches[p] EXCEPT !.alive = FALSE].id = launches[p].id
        /\ [launches[p] EXCEPT !.alive = FALSE].epoch = launches[p].epoch
        /\ [launches[p] EXCEPT !.alive = FALSE].of = launches[p].of
        /\ [launches[p] EXCEPT !.alive = FALSE].doomed = launches[p].doomed
        /\ ~[launches[p] EXCEPT !.alive = FALSE].alive
    BY <2>1 DEF Launch
  <2> HIDE DEF Launch
  <2>5. QED
    BY <1>2, <2>2, <2>3, <2>4 DEF Procs, NoProc
<1>3. QED
  BY <1>1, <1>2

\* A quiet step that leaves the tabs alone keeps the invariant.
LEMMA QuietKeeps ==
  ASSUME RunInv, Quiet, ClosesTheDead, UNCHANGED <<tabs, next_id>>
  PROVE  RunInv'
<1>1. DOMAIN tabs' = DOMAIN tabs /\ Procs' = Procs
  BY DEF Quiet, Procs
<1>2. IdsAreGivenOnce' /\ LinesAreTheRuns' /\ AliveIsChild' /\ TabsAreTheTargets'
  BY <1>1 DEF RunInv, Quiet, IdsAreGivenOnce, AliveIsChild, LinesAreTheRuns, TabsAreTheTargets
<1>3. DoomedOrKept' /\ OneProcessPerTarget'
  BY <1>1 DEF RunInv, Quiet, ClosesTheDead, DoomedOrKept, OneProcessPerTarget, TabsOf
<1>4. QED
  BY <1>1, <1>2, <1>3 DEF RunInv, Quiet

\* So does one that, beside it, takes the child from a tab whose process is dead.
LEMMA TakingChildKeeps ==
  ASSUME RunInv, Quiet, ClosesTheDead, UNCHANGED next_id, NEW S,
         tabs' \in [DOMAIN tabs -> Entry],
         \A c \in DOMAIN tabs : /\ tabs'[c].id = tabs[c].id /\ tabs'[c].epoch = tabs[c].epoch
                               /\ tabs'[c].lines = tabs[c].lines
                               /\ tabs'[c].child = IF c \in S THEN NoProc ELSE tabs[c].child,
         \A c \in S \cap DOMAIN tabs :
            tabs[c].child # NoProc => ~launches'[tabs[c].child].alive
  PROVE  RunInv'
<1>1. DOMAIN tabs' = DOMAIN tabs /\ Procs' = Procs
  BY DEF Quiet, Procs
<1>2. IdsAreGivenOnce' /\ LinesAreTheRuns' /\ TabsAreTheTargets'
  BY <1>1 DEF RunInv, Quiet, IdsAreGivenOnce, LinesAreTheRuns, TabsAreTheTargets
<1>3. AliveIsChild'
  BY <1>1 DEF RunInv, Quiet, AliveIsChild, Procs, NoProc
<1>4. DoomedOrKept' /\ OneProcessPerTarget'
  BY <1>1 DEF RunInv, Quiet, ClosesTheDead, DoomedOrKept, OneProcessPerTarget, TabsOf
<1>5. QED
  BY <1>1, <1>2, <1>3, <1>4 DEF RunInv, Quiet

\* A start that gives the tab of c a new run keeps the invariant: nothing of the same id
\* is alive after the kill, and its ring is empty.
LEMMA StartKeeps ==
  ASSUME RunInv, NEW c \in Targets, NEW ok \in BOOLEAN, Start(c, ok)
  PROVE  RunInv'
<1> DEFINE entry == Restarted(c, ok)
           old   == IF c \in DOMAIN tabs THEN tabs[c].child ELSE NoProc
           killed == Kill(old)
           new   == Launched(c, entry.id, entry.epoch, ok)
<1>1. /\ tabs' = [t \in DOMAIN tabs \cup {c} |-> IF t = c THEN entry ELSE tabs[t]]
      /\ launches' = Append(killed, new)
      /\ next_id' = IF c \in DOMAIN tabs THEN next_id ELSE next_id + 1
      /\ closing' = closing
  BY DEF Start
<1>2. old \in Procs \cup {NoProc} /\ Len(launches) \in Nat
  BY DEF RunInv
<1>3. /\ killed \in Seq(Launch) /\ Len(killed) = Len(launches)
      /\ \A p \in Procs : /\ killed[p].id = launches[p].id /\ killed[p].epoch = launches[p].epoch
                          /\ killed[p].of = launches[p].of
                          /\ killed[p].doomed = launches[p].doomed
                          /\ killed[p].alive => launches[p].alive
      /\ old # NoProc => ~killed[old].alive
  BY <1>2, KilledIs DEF RunInv
<1>4. /\ entry \in Entry /\ entry.lines = {}
      /\ entry.id = IF c \in DOMAIN tabs THEN tabs[c].id ELSE next_id
      /\ entry.child = IF ok THEN Len(launches) + 1 ELSE NoProc
  BY <1>2 DEF Restarted, Entry, RunInv, NoProc
<1>5. new \in Launch /\ new.id = entry.id /\ new.epoch = entry.epoch /\ new.alive = ok
      /\ new.of = c /\ new.doomed = (entry.id \in closing)
  BY <1>4 DEF Launched, Launch, Entry
<1> HIDE DEF entry, old, killed, new
<1>6. /\ launches' \in Seq(Launch) /\ Len(launches') = Len(launches) + 1
      /\ launches'[Len(launches) + 1] = new
      /\ \A p \in Procs : launches'[p] = killed[p]
      /\ Procs' = Procs \cup {Len(launches) + 1}
  BY <1>1, <1>2, <1>3, <1>5 DEF Procs
<1>6a. /\ DOMAIN tabs' = DOMAIN tabs \cup {c}
       /\ \A d \in DOMAIN tabs' : tabs'[d] = IF d = c THEN entry ELSE tabs[d]
  BY <1>1
<1>6b. \A p \in Procs :
         /\ launches'[p].id = launches[p].id /\ launches'[p].of = launches[p].of
         /\ launches'[p].doomed = launches[p].doomed
         /\ launches'[p].alive => launches[p].alive
  BY <1>3, <1>6
<1>7. next_id' \in Nat \ {0} /\ tabs' \in [DOMAIN tabs' -> Entry]
  BY <1>1, <1>4 DEF RunInv
<1>8. \A d \in DOMAIN tabs' :
        tabs'[d].child \in Procs' \cup {NoProc} /\ tabs'[d].lines \subseteq Procs'
  BY <1>1, <1>4, <1>6 DEF RunInv
<1>9. \A p \in Procs : ~(killed[p].alive /\ killed[p].id = entry.id)
  BY <1>3, <1>4, <1>2 DEF RunInv, AliveIsChild, IdsAreGivenOnce, Procs, NoProc, old
<1>10. IdsAreGivenOnce'
  <2>1. /\ entry.id < next_id' /\ next_id <= next_id'
        /\ \A d \in DOMAIN tabs : d # c => tabs[d].id # entry.id
    <3>1. next_id \in Nat /\ \A d \in DOMAIN tabs : tabs[d].id \in Nat /\ tabs[d].id < next_id
      BY DEF RunInv, IdsAreGivenOnce, Entry
    <3>2. QED
      BY <1>1, <1>4, <3>1 DEF RunInv, IdsAreGivenOnce
  <2>2. \A d \in DOMAIN tabs' : tabs'[d] = IF d = c THEN entry ELSE tabs[d]
    BY <1>1
  <2>3. /\ \A d \in DOMAIN tabs' : tabs'[d].id < next_id'
        /\ \A d, e \in DOMAIN tabs' : tabs'[d].id = tabs'[e].id => d = e
    <3>1. \A d \in DOMAIN tabs : tabs[d].id \in Nat /\ tabs[d].id < next_id'
      BY <1>7, <2>1 DEF RunInv, IdsAreGivenOnce, Entry
    <3>2. QED
      BY <1>1, <2>1, <2>2, <3>1 DEF RunInv, IdsAreGivenOnce
  <2>4. \A p \in Procs' : launches'[p].id < next_id'
    <3>1. \A p \in Procs : launches[p].id \in Nat /\ launches[p].id < next_id'
      <4>1. \A p \in Procs : launches[p] \in Launch
        BY DEF RunInv, Procs
      <4>2. \A p \in Procs : launches[p].id \in Nat
        BY <4>1 DEF Launch
      <4>3. \A p \in Procs : launches[p].id < next_id
        BY DEF RunInv, IdsAreGivenOnce
      <4>4. QED
        BY <1>7, <2>1, <4>2, <4>3 DEF RunInv
    <3>2. QED
      BY <1>3, <1>5, <1>6, <2>1, <3>1
  <2>5. QED
    BY <2>3, <2>4 DEF IdsAreGivenOnce
<1>11. AliveIsChild'
  <2> SUFFICES ASSUME NEW p \in Procs', NEW d \in DOMAIN tabs',
                      launches'[p].alive, launches'[p].id = tabs'[d].id
               PROVE  tabs'[d].child = p
    BY DEF AliveIsChild
  <2>1. CASE p \in Procs /\ d = c
    BY <1>1, <1>6, <1>9, <2>1
  <2>2. CASE p \in Procs /\ d # c
    <3>1. launches[p].alive /\ launches[p].id = tabs[d].id /\ d \in DOMAIN tabs
      BY <1>6a, <1>6b, <2>2
    <3>2. QED
      BY <1>1, <2>2, <3>1 DEF RunInv, AliveIsChild
  <2>3. CASE p = Len(launches) + 1 /\ d = c
    BY <1>1, <1>4, <1>5, <1>6, <2>3
  <2>4. CASE p = Len(launches) + 1 /\ d # c
    BY <1>1, <1>4, <1>5, <1>6, <2>4 DEF RunInv, IdsAreGivenOnce
  <2>5. QED
    BY <1>6, <2>1, <2>2, <2>3, <2>4
<1>12. \A p \in Procs : ~(\E d \in DOMAIN tabs : tabs[d].id = launches[p].id)
                        => launches[p].id # entry.id
  BY <1>4 DEF RunInv, IdsAreGivenOnce
<1>13. TabsAreTheTargets'
  <2> SUFFICES ASSUME NEW p \in Procs', NEW d \in DOMAIN tabs', launches'[p].id = tabs'[d].id
               PROVE  launches'[p].of = d
    BY Zenon DEF TabsAreTheTargets
  <2>1. CASE p \in Procs /\ d # c
    <3>1. launches[p].id = tabs[d].id /\ d \in DOMAIN tabs
      BY <1>6a, <1>6b, <2>1
    <3>2. launches[p].of = d
      BY <2>1, <3>1 DEF RunInv, TabsAreTheTargets
    <3>3. QED
      BY <1>6b, <2>1, <3>2
  <2>2. CASE p \in Procs /\ d = c
    <3>1. launches[p].id = entry.id /\ launches'[p].of = launches[p].of
      BY <1>1, <1>3, <1>6, <2>2
    <3>2. c \in DOMAIN tabs /\ tabs[c].id = entry.id
      BY <1>4, <3>1, <2>2 DEF RunInv, IdsAreGivenOnce
    <3>3. QED
      BY <2>2, <3>1, <3>2 DEF RunInv, TabsAreTheTargets
  <2>3. CASE p = Len(launches) + 1 /\ d # c
    BY <1>1, <1>4, <1>5, <1>6, <2>3 DEF RunInv, IdsAreGivenOnce
  <2>4. CASE p = Len(launches) + 1 /\ d = c
    BY <1>5, <1>6, <2>4
  <2>5. QED
    BY <1>6, <2>1, <2>2, <2>3, <2>4
<1>14. DoomedOrKept'
  <2> SUFFICES ASSUME NEW p \in Procs', launches'[p].alive, ~launches'[p].doomed
               PROVE  /\ launches'[p].id \notin closing
                      /\ \E d \in DOMAIN tabs' : tabs'[d].id = launches'[p].id
    BY <1>1 DEF DoomedOrKept
  <2>1. CASE p \in Procs
    <3>1. /\ launches[p].alive /\ ~launches[p].doomed /\ launches'[p].id = launches[p].id
      BY <1>3, <1>6, <2>1
    <3>2. PICK d \in DOMAIN tabs : tabs[d].id = launches[p].id
      BY <2>1, <3>1 DEF RunInv, DoomedOrKept
    <3>3. d \in DOMAIN tabs' /\ tabs'[d].id = tabs[d].id
      BY <1>1, <1>4
    <3>4. QED
      BY <2>1, <3>1, <3>2, <3>3 DEF RunInv, DoomedOrKept
  <2>2. CASE p = Len(launches) + 1
    BY <1>1, <1>5, <1>6, <2>2
  <2>3. QED
    BY <1>6, <2>1, <2>2
<1>15. \A p \in Procs : TabsOf(launches[p].id) = {} => TabsOf(launches[p].id)' = {}
  <2> SUFFICES ASSUME NEW p \in Procs, TabsOf(launches[p].id) = {},
                      NEW d \in DOMAIN tabs', tabs'[d].id = launches'[p].id
               PROVE  FALSE
    BY DEF TabsOf
  <2>1. launches'[p].id = launches[p].id
    BY <1>3, <1>6
  <2>2. QED
    BY <1>1, <1>12, <2>1 DEF TabsOf
<1>16. OneProcessPerTarget'
  <2> SUFFICES ASSUME NEW p \in Procs', NEW q \in Procs',
                      launches'[p].alive, launches'[q].alive,
                      launches'[p].of = launches'[q].of, p < q
               PROVE  launches'[p].doomed /\ TabsOf(launches[p].id)' = {}
    BY Zenon DEF OneProcessPerTarget
  <2>1. p \in Procs /\ launches[p].alive
    BY <1>2, <1>3, <1>6 DEF Procs
  <2>2. launches[p].doomed /\ TabsOf(launches[p].id) = {}
    <3>1. CASE q \in Procs
      <4>1. launches[q].alive /\ launches[p].of = launches[q].of
        BY <1>6b, <2>1, <3>1
      <4>2. QED
        BY <2>1, <3>1, <4>1 DEF RunInv, OneProcessPerTarget
    <3>2. CASE q = Len(launches) + 1
      <4>1. launches[p].of = c
        BY <1>5, <1>6, <1>6b, <2>1, <3>2
      <4>2. \A d \in DOMAIN tabs : tabs[d].id = launches[p].id => d = c
        BY <2>1, <4>1 DEF RunInv, TabsAreTheTargets
      <4>3. c \in DOMAIN tabs => tabs[c].id # launches[p].id
        BY <1>4, <1>6, <1>9, <1>3, <2>1
      <4>4. TabsOf(launches[p].id) = {}
        BY <4>2, <4>3 DEF TabsOf
      <4>5. QED
        BY <2>1, <4>4 DEF RunInv, DoomedOrKept, TabsOf
    <3>3. QED
      BY <1>6, <3>1, <3>2
  <2>3. QED
    BY <1>3, <1>6, <1>15, <2>1, <2>2
<1>17. LinesAreTheRuns'
  <2> SUFFICES ASSUME NEW d \in DOMAIN tabs', NEW p \in tabs'[d].lines
               PROVE  launches'[p].id = tabs'[d].id /\ launches'[p].epoch = tabs'[d].epoch
    BY DEF LinesAreTheRuns
  <2>1. d # c /\ d \in DOMAIN tabs /\ tabs'[d] = tabs[d]
    BY <1>1, <1>4
  <2>2. p \in Procs
    BY <2>1 DEF RunInv
  <2>3. QED
    BY <1>3, <1>6, <2>1, <2>2 DEF RunInv, LinesAreTheRuns
<1>18. QED
  BY <1>6, <1>7, <1>8, <1>10, <1>11, <1>13, <1>14, <1>16, <1>17 DEF RunInv

\* Writing one launch that keeps its id and epoch and is not revived is quiet.
LEMMA OneLaunchIsQuiet ==
  ASSUME launches \in Seq(Launch), NEW p \in Procs, NEW r \in Launch,
         r.id = launches[p].id, r.epoch = launches[p].epoch,
         r.of = launches[p].of, r.doomed = launches[p].doomed,
         r.alive => launches[p].alive,
         launches' = [launches EXCEPT ![p] = r]
  PROVE  Quiet
<1> HIDE DEF Launch
<1>1. QED
  BY DEF Quiet, Procs

\* A thread's own step, or a process's end, writes one launch and revives nothing.
LEMMA ThreadIsQuiet ==
  ASSUME RunInv, NEW p \in Procs,
         \/ SpawnThreads(p) \/ ProcessExits(p) \/ ReaderTakesLine(p)
         \/ ReaderEnds(p) \/ WaiterPolls(p)
  PROVE  Quiet
<1>1. launches \in Seq(Launch) /\ launches[p] \in Launch
  BY DEF RunInv, Procs
<1>2. CASE SpawnThreads(p)
  <2> DEFINE r == [launches[p] EXCEPT !.threads = "born", !.reading = TRUE, !.waiting = TRUE]
  <2>1. /\ r \in Launch /\ r.id = launches[p].id /\ r.epoch = launches[p].epoch
        /\ r.of = launches[p].of /\ r.doomed = launches[p].doomed
        /\ r.alive = launches[p].alive
    BY <1>1 DEF Launch
  <2>2. launches' = [launches EXCEPT ![p] = r]
    BY <1>2 DEF SpawnThreads
  <2> HIDE DEF r
  <2>3. QED
    BY <1>1, <2>1, <2>2, OneLaunchIsQuiet
<1>3. CASE ProcessExits(p)
  <2> DEFINE r == [launches[p] EXCEPT !.alive = FALSE]
  <2>1. /\ r \in Launch /\ r.id = launches[p].id /\ r.epoch = launches[p].epoch
        /\ r.of = launches[p].of /\ r.doomed = launches[p].doomed /\ ~r.alive
    BY <1>1 DEF Launch
  <2>2. launches' = [launches EXCEPT ![p] = r]
    BY <1>3 DEF ProcessExits
  <2> HIDE DEF r
  <2>3. QED
    BY <1>1, <2>1, <2>2, OneLaunchIsQuiet
<1>4. CASE ReaderTakesLine(p) \/ ReaderEnds(p)
  <2>1. PICK on \in BOOLEAN : launches' = [launches EXCEPT ![p].reading = on]
    BY <1>4 DEF ReaderTakesLine, ReaderEnds
  <2> DEFINE r == [launches[p] EXCEPT !.reading = on]
  <2>2. /\ r \in Launch /\ r.id = launches[p].id /\ r.epoch = launches[p].epoch
        /\ r.of = launches[p].of /\ r.doomed = launches[p].doomed
        /\ r.alive = launches[p].alive
    BY <1>1 DEF Launch
  <2>3. launches' = [launches EXCEPT ![p] = r]
    BY <2>1
  <2> HIDE DEF r
  <2>4. QED
    BY <1>1, <2>2, <2>3, OneLaunchIsQuiet
<1>5. CASE WaiterPolls(p)
  <2>0. launches' = [launches EXCEPT ![p].waiting = FALSE]
    BY <1>5 DEF WaiterPolls
  <2> DEFINE r == [launches[p] EXCEPT !.waiting = FALSE]
  <2>1. /\ r \in Launch /\ r.id = launches[p].id /\ r.epoch = launches[p].epoch
        /\ r.of = launches[p].of /\ r.doomed = launches[p].doomed
        /\ r.alive = launches[p].alive
    BY <1>1 DEF Launch
  <2>2. launches' = [launches EXCEPT ![p] = r]
    BY <2>0
  <2> HIDE DEF r
  <2>3. QED
    BY <1>1, <2>1, <2>2, OneLaunchIsQuiet
<1>6. QED
  BY <1>2, <1>3, <1>4, <1>5

\* Stopping what a tab runs keeps the invariant, whether it was alive or not.
LEMMA StoppedKeeps ==
  ASSUME RunInv, NEW c \in DOMAIN tabs, Stopped(c), UNCHANGED next_id,
         closing' \subseteq closing \cup {tabs[c].id}
  PROVE  RunInv'
<1>1. CASE ~Alive(tabs[c].child)
  <2>1. UNCHANGED <<tabs, launches>>
    BY <1>1 DEF Stopped
  <2>2. Quiet
    BY <2>1 DEF Quiet, RunInv
  <2>3. ClosesTheDead
    BY <1>1, <2>1 DEF ClosesTheDead, RunInv, AliveIsChild, Alive, Procs, NoProc
  <2>4. QED
    BY <2>1, <2>2, <2>3, QuietKeeps
<1>2. CASE Alive(tabs[c].child)
  <2>1. /\ tabs' = [tabs EXCEPT ![c].child = NoProc, ![c].status = "Killed"]
        /\ launches' = Kill(tabs[c].child)
    BY <1>2 DEF Stopped
  <2>2. tabs[c].child \in Procs /\ tabs[c].child # NoProc
    BY <1>2 DEF Alive, RunInv
  <2>3. Quiet /\ ~launches'[tabs[c].child].alive
    BY <2>1, <2>2, KilledIs DEF Quiet, RunInv
  <2>4. \A d \in DOMAIN tabs : tabs[d] \in Entry
    BY DEF RunInv
  <2>5. /\ tabs' \in [DOMAIN tabs -> Entry]
        /\ \A d \in DOMAIN tabs :
             /\ tabs'[d].id = tabs[d].id /\ tabs'[d].epoch = tabs[d].epoch
             /\ tabs'[d].lines = tabs[d].lines
             /\ tabs'[d].child = IF d \in {c} THEN NoProc ELSE tabs[d].child
    <3>1. /\ [tabs[c] EXCEPT !.child = NoProc, !.status = "Killed"] \in Entry
          /\ [tabs[c] EXCEPT !.child = NoProc, !.status = "Killed"].id = tabs[c].id
          /\ [tabs[c] EXCEPT !.child = NoProc, !.status = "Killed"].epoch = tabs[c].epoch
          /\ [tabs[c] EXCEPT !.child = NoProc, !.status = "Killed"].lines = tabs[c].lines
          /\ [tabs[c] EXCEPT !.child = NoProc, !.status = "Killed"].child = NoProc
      BY <2>4 DEF Entry, NoProc
    <3>2. tabs' = [tabs EXCEPT ![c] = [tabs[c] EXCEPT !.child = NoProc, !.status = "Killed"]]
      BY <2>1
    <3> HIDE DEF Entry
    <3>3. QED
      BY <2>4, <3>1, <3>2
  <2>6. ClosesTheDead
    BY <2>3 DEF ClosesTheDead, RunInv, AliveIsChild, Quiet
  <2>7. QED
    BY <2>3, <2>5, <2>6, TakingChildKeeps
<1>3. QED
  BY <1>1, <1>2

\* A ring that is emptied, or filled by the reader of the run it belongs to, keeps the
\* invariant: the epoch tells a rerun from the run before it.
LEMMA LinesKeep ==
  ASSUME RunInv, Quiet, UNCHANGED <<next_id, closing>>,
         tabs' \in [DOMAIN tabs -> Entry],
         \A c \in DOMAIN tabs :
           /\ tabs'[c].id = tabs[c].id /\ tabs'[c].epoch = tabs[c].epoch
           /\ tabs'[c].child = tabs[c].child
           /\ \A q \in tabs'[c].lines : q \in tabs[c].lines \/ (q \in Procs /\ c \in Owns(q))
  PROVE  RunInv'
<1>1. DOMAIN tabs' = DOMAIN tabs /\ Procs' = Procs
  BY DEF Quiet, Procs
<1>2. /\ IdsAreGivenOnce' /\ AliveIsChild' /\ TabsAreTheTargets'
      /\ DoomedOrKept' /\ OneProcessPerTarget'
  <2>1. IdsAreGivenOnce' /\ AliveIsChild' /\ TabsAreTheTargets'
    BY <1>1 DEF RunInv, Quiet, IdsAreGivenOnce, AliveIsChild, TabsAreTheTargets
  <2>2. DoomedOrKept' /\ OneProcessPerTarget'
    BY <1>1 DEF RunInv, Quiet, DoomedOrKept, OneProcessPerTarget, TabsOf
  <2>3. QED
    BY <2>1, <2>2
<1>3. \A c \in DOMAIN tabs : tabs'[c].lines \subseteq Procs
  BY DEF RunInv
<1>4. LinesAreTheRuns'
  <2> SUFFICES ASSUME NEW c \in DOMAIN tabs, NEW q \in tabs'[c].lines
               PROVE  launches'[q].id = tabs'[c].id /\ launches'[q].epoch = tabs'[c].epoch
    BY <1>1 DEF LinesAreTheRuns
  <2>1. q \in Procs
    BY <1>3
  <2>2. launches[q].id = tabs[c].id /\ launches[q].epoch = tabs[c].epoch
    BY DEF RunInv, LinesAreTheRuns, Owns, TabsOf
  <2>3. QED
    BY <2>1, <2>2 DEF Quiet
<1>5. QED
  BY <1>1, <1>2, <1>3, <1>4 DEF RunInv, Quiet

\* Dropping a tab keeps the invariant.
LEMMA DropKeeps ==
  ASSUME RunInv, NEW id, CloseDrops(id)
  PROVE  RunInv'
<1>1. /\ tabs' = [t \in DOMAIN tabs \ TabsOf(id) |-> tabs[t]]
      /\ launches' = launches /\ next_id' = next_id
  BY DEF CloseDrops
<1>2. tabs' \in [DOMAIN tabs' -> Entry]
  BY <1>1 DEF RunInv
<1>3. IdsAreGivenOnce' /\ AliveIsChild' /\ TabsAreTheTargets' /\ LinesAreTheRuns'
  BY <1>1
     DEF RunInv, IdsAreGivenOnce, AliveIsChild, TabsAreTheTargets, LinesAreTheRuns, Procs
<1>4. DoomedOrKept'
  BY <1>1 DEF RunInv, DoomedOrKept, CloseDrops, TabsOf, Procs
<1>5. OneProcessPerTarget'
  BY <1>1 DEF RunInv, OneProcessPerTarget, TabsOf, Procs
<1>6. QED
  BY <1>1, <1>2, <1>3, <1>4, <1>5 DEF RunInv, Procs

\* Every step of the registry, its threads and the processes keeps the invariant.
LEMMA RunStep == RunInv /\ [RunNext]_runVars => RunInv'
<1> SUFFICES ASSUME RunInv, [RunNext]_runVars PROVE RunInv'
  OBVIOUS
<1>0. \A c \in DOMAIN tabs : tabs[c] \in Entry
  BY DEF RunInv
<1>1. ASSUME NEW c \in Targets, NEW ok \in BOOLEAN, Start(c, ok) PROVE RunInv'
  BY <1>1, StartKeeps
<1>2. ASSUME NEW c \in Targets, Stop(c) \/ CloseStops(c) PROVE RunInv'
  <2>1. /\ c \in DOMAIN tabs /\ Stopped(c) /\ UNCHANGED next_id
        /\ closing' \subseteq closing \cup {tabs[c].id}
    BY <1>2 DEF Stop, CloseStops
  <2>2. QED
    BY <2>1, StoppedKeeps
<1>3. ASSUME NEW c \in Targets, ClearLogs(c) PROVE RunInv'
  <2>1. tabs' = [tabs EXCEPT ![c] = [tabs[c] EXCEPT !.lines = {}]] /\ c \in DOMAIN tabs
    BY <1>3 DEF ClearLogs
  <2>2. LET e == [tabs[c] EXCEPT !.lines = {}]
        IN  e \in Entry /\ e.id = tabs[c].id /\ e.epoch = tabs[c].epoch
              /\ e.child = tabs[c].child /\ e.lines = {}
    BY <1>0, <2>1 DEF Entry
  <2>3. Quiet /\ UNCHANGED <<next_id, closing>>
    BY <1>3 DEF ClearLogs, Quiet, RunInv
  <2>4. /\ tabs' \in [DOMAIN tabs -> Entry]
        /\ \A d \in DOMAIN tabs :
             /\ tabs'[d].id = tabs[d].id /\ tabs'[d].epoch = tabs[d].epoch
             /\ tabs'[d].child = tabs[d].child /\ tabs'[d].lines \subseteq tabs[d].lines
    <3> HIDE DEF Entry
    <3>1. QED
      BY <1>0, <2>1, <2>2
  <2>5. QED
    BY <2>3, <2>4, LinesKeep
<1>4. ASSUME NEW id \in closing, CloseDrops(id) PROVE RunInv'
  BY <1>4, DropKeeps
<1>5. ASSUME NEW p \in Procs, SpawnThreads(p) \/ ProcessExits(p) \/ ReaderEnds(p) PROVE RunInv'
  <2>1. Quiet
    BY <1>5, ThreadIsQuiet
  <2>2. UNCHANGED <<tabs, next_id, closing>>
    BY <1>5 DEF SpawnThreads, ProcessExits, ReaderEnds
  <2>3. QED
    BY <2>1, <2>2, QuietKeeps DEF ClosesTheDead
<1>6. ASSUME NEW p \in Procs, ReaderTakesLine(p) PROVE RunInv'
  <2>1. tabs' = [t \in DOMAIN tabs |-> IF t \in Owns(p)
                                      THEN [tabs[t] EXCEPT !.lines = @ \cup {p}] ELSE tabs[t]]
    BY <1>6 DEF ReaderTakesLine
  <2>2. Quiet /\ UNCHANGED <<next_id, closing>>
    BY <1>6, ThreadIsQuiet DEF ReaderTakesLine
  <2>3. \A t \in DOMAIN tabs :
          LET e == [tabs[t] EXCEPT !.lines = @ \cup {p}]
          IN  e \in Entry /\ e.id = tabs[t].id /\ e.epoch = tabs[t].epoch
                /\ e.child = tabs[t].child /\ e.lines = tabs[t].lines \cup {p}
    BY <1>0 DEF Entry, Procs
  <2>4. /\ tabs' \in [DOMAIN tabs -> Entry]
        /\ \A d \in DOMAIN tabs :
             /\ tabs'[d].id = tabs[d].id /\ tabs'[d].epoch = tabs[d].epoch
             /\ tabs'[d].child = tabs[d].child
             /\ \A q \in tabs'[d].lines : q \in tabs[d].lines \/ (q = p /\ d \in Owns(p))
    <3> HIDE DEF Entry
    <3>1. QED
      BY <1>0, <2>1, <2>3
  <2>5. QED
    BY <2>2, <2>4, LinesKeep
<1>7. ASSUME NEW p \in Procs, WaiterPolls(p) PROVE RunInv'
  <2>1. tabs' = [t \in DOMAIN tabs |->
                   IF t \in Folds(p) THEN [tabs[t] EXCEPT !.child = NoProc, !.status = "Exited"]
                   ELSE tabs[t]]
    BY <1>7 DEF WaiterPolls
  <2>2. Quiet /\ ClosesTheDead /\ UNCHANGED next_id
    <3>1. UNCHANGED <<next_id, closing>>
      BY <1>7 DEF WaiterPolls
    <3>2. QED
      BY <1>7, <3>1, ThreadIsQuiet DEF ClosesTheDead
  <2>3. \A t \in DOMAIN tabs :
          LET e == [tabs[t] EXCEPT !.child = NoProc, !.status = "Exited"]
          IN  e \in Entry /\ e.id = tabs[t].id /\ e.epoch = tabs[t].epoch
                /\ e.child = NoProc /\ e.lines = tabs[t].lines
    BY <1>0 DEF Entry, NoProc
  <2>4. /\ tabs' \in [DOMAIN tabs -> Entry]
        /\ \A d \in DOMAIN tabs :
             /\ tabs'[d].id = tabs[d].id /\ tabs'[d].epoch = tabs[d].epoch
             /\ tabs'[d].lines = tabs[d].lines
             /\ tabs'[d].child = IF d \in Folds(p) THEN NoProc ELSE tabs[d].child
    <3> HIDE DEF Entry
    <3>1. QED
      BY <1>0, <2>1, <2>3
  <2>5. \A d \in Folds(p) \cap DOMAIN tabs :
          tabs[d].child # NoProc => ~launches'[tabs[d].child].alive
    <3> SUFFICES ASSUME NEW d \in Folds(p) \cap DOMAIN tabs, tabs[d].child # NoProc
                 PROVE  ~launches'[tabs[d].child].alive
      OBVIOUS
    <3>1. ~launches[tabs[d].child].alive
      BY DEF Folds, Alive
    <3>2. tabs[d].child \in Procs
      BY DEF RunInv
    <3>3. QED
      BY <2>2, <3>1, <3>2 DEF Quiet
  <2>6. QED
    BY <2>2, <2>4, <2>5, TakingChildKeeps
<1>8. CASE UNCHANGED runVars
  <2>1. Quiet /\ ClosesTheDead
    BY <1>8 DEF runVars, Quiet, RunInv, ClosesTheDead
  <2>2. QED
    BY <1>8, <2>1, QuietKeeps DEF runVars
<1>9. QED
  BY <1>1, <1>2, <1>3, <1>4, <1>5, <1>6, <1>7, <1>8 DEF RunNext

\* The registry's invariant holds at every moment, for any targets and number of starts.
LEMMA AlwaysRuns == RunSpec => []RunInv
<1>1. RunInit => RunInv
  BY DEF RunInit, RunInv, IdsAreGivenOnce, AliveIsChild, TabsAreTheTargets, DoomedOrKept,
         OneProcessPerTarget, LinesAreTheRuns, Procs, Launch
<1>2. QED
  BY <1>1, RunStep, PTL DEF RunSpec

\* No line of an earlier run gets into the console of its rerun (run.rs spawn_reader).
THEOREM ConsolesAreTheRuns == RunSpec => []LinesAreTheRuns
<1>1. RunInv => LinesAreTheRuns
  BY DEF RunInv
<1>2. QED
  BY <1>1, AlwaysRuns, PTL

\* Of two live processes of one target, the older was started under a close of its tab that
\* then dropped it, and nothing else leaks one (run.rs start, remove).
THEOREM OneProcessAlive == RunSpec => []OneProcessPerTarget
<1>1. RunInv => OneProcessPerTarget
  BY DEF RunInv
<1>2. QED
  BY <1>1, AlwaysRuns, PTL

-----------------------------------------------------------------------------
(* ApprovalPopup *)

PopupFact ==
  [kind : {"ApprovalRequested", "SessionStateChanged", "SessionUpserted", "PhaseTransitioned"},
   hold : Nat, status : Observable \cup {"WaitingInput"}]

\* A fact that settles what is retained, whatever was: a request, a move, a row at work.
Decides(fact) ==
  ~(fact.kind \in {"SessionUpserted", "SessionStateChanged"} /\ fact.status = "WaitingInput")

\* Neither the hold in the copy nor one a waiting fact would bring in is among those gone, or
\* a later fact takes it out again.
GoneIsOut(gone, hold, facts) ==
  /\ hold \in gone => \E j \in 1..Len(facts) : Decides(facts[j])
  /\ \A i \in 1..Len(facts) :
       facts[i].kind = "ApprovalRequested" /\ facts[i].hold \in gone
         => \E j \in 1..Len(facts) : i < j /\ Decides(facts[j])

\* While a resolution is still to be published the copy may hold what it ended; at every
\* other moment the facts on their way take it out.
PopupInv ==
  /\ raised \in Nat /\ unheld \subseteq 1..raised /\ ended \subseteq 1..raised
  /\ slot \in 0..raised /\ status \in Observable \cup {"WaitingInput"}
  /\ resolved \in BOOLEAN /\ retained \in Nat /\ wsFacts \in Seq(PopupFact)
  /\ ~resolved => GoneIsOut(ended, retained, wsFacts)

\* Facts that announce nothing that is gone leave it out.
LEMMA AppendedIsOut ==
  ASSUME NEW gone, NEW hold, NEW facts \in Seq(PopupFact), NEW more \in Seq(PopupFact),
         GoneIsOut(gone, hold, facts),
         \A i \in 1..Len(more) : more[i].kind = "ApprovalRequested" => more[i].hold \notin gone
  PROVE  GoneIsOut(gone, hold, facts \o more)
<1>1. /\ Len(facts) \in Nat /\ Len(more) \in Nat /\ Len(facts \o more) = Len(facts) + Len(more)
      /\ \A i \in 1..Len(facts) : (facts \o more)[i] = facts[i]
      /\ \A i \in 1..Len(facts) + Len(more) :
           i \notin 1..Len(facts) => /\ i - Len(facts) \in 1..Len(more)
                                     /\ (facts \o more)[i] = more[i - Len(facts)]
  OBVIOUS
<1>2. \A i \in 1..Len(facts) : i \in 1..Len(facts \o more)
  BY <1>1
<1>3. QED
  BY <1>1, <1>2 DEF GoneIsOut

\* The resolution, published last, takes out whatever was there.
LEMMA ResolvedIsOut ==
  ASSUME NEW gone, NEW hold, NEW facts \in Seq(PopupFact)
  PROVE  GoneIsOut(gone, hold, facts \o <<State("Running")>>)
<1> DEFINE all == facts \o <<State("Running")>>
           last == Len(facts) + 1
<1>1. /\ Len(facts) \in Nat /\ Len(all) = last /\ all[last] = State("Running")
      /\ \A i \in 1..last : i = last \/ i < last
  OBVIOUS
<1>2. Decides(State("Running")) /\ State("Running").kind # "ApprovalRequested"
  BY DEF Decides, State
<1>3. last \in 1..Len(all)
  BY <1>1
<1> HIDE DEF all, last
<1>4. GoneIsOut(gone, hold, all)
  BY <1>1, <1>2, <1>3 DEF GoneIsOut
<1>5. QED
  BY <1>4 DEF all

\* Folding the first fact leaves out what is gone.
LEMMA FoldedIsOut ==
  ASSUME NEW gone, 0 \notin gone, NEW hold, NEW facts \in Seq(PopupFact), facts # <<>>,
         GoneIsOut(gone, hold, facts)
  PROVE  GoneIsOut(gone, Folded(hold, Head(facts)), Tail(facts))
<1> DEFINE rest == Tail(facts)
           after == Folded(hold, Head(facts))
<1>1. /\ Len(facts) \in Nat /\ Len(facts) > 0 /\ Head(facts) = facts[1]
      /\ Len(rest) = Len(facts) - 1 /\ 1 \in 1..Len(facts)
      /\ \A i \in 1..Len(rest) : i + 1 \in 1..Len(facts) /\ rest[i] = facts[i + 1]
      /\ \A j \in 1..Len(facts) : 1 < j => j - 1 \in 1..Len(rest) /\ rest[j - 1] = facts[j]
  OBVIOUS
<1>2. \/ after = 0
      \/ after = facts[1].hold /\ facts[1].kind = "ApprovalRequested"
      \/ after = hold /\ ~Decides(facts[1])
  BY <1>1 DEF Folded, Decides
<1> HIDE DEF rest, after
<1>3. after \in gone => \E j \in 1..Len(facts) : 1 < j /\ Decides(facts[j])
  <2>1. CASE after = 0
    BY <2>1
  <2>2. CASE after = facts[1].hold /\ facts[1].kind = "ApprovalRequested"
    BY <1>1, <2>2 DEF GoneIsOut
  <2>3. CASE after = hold /\ ~Decides(facts[1])
    <3>1. \A j \in 1..Len(facts) : j = 1 \/ 1 < j
      BY <1>1
    <3>2. QED
      BY <2>3, <3>1 DEF GoneIsOut
  <2>4. QED
    BY <1>2, <2>1, <2>2, <2>3
<1>4. after \in gone => \E j \in 1..Len(rest) : Decides(rest[j])
  BY <1>1, <1>3
<1>5. ASSUME NEW i \in 1..Len(rest), rest[i].kind = "ApprovalRequested", rest[i].hold \in gone
      PROVE  \E j \in 1..Len(rest) : i < j /\ Decides(rest[j])
  <2>1. PICK j \in 1..Len(facts) : i + 1 < j /\ Decides(facts[j])
    BY <1>1, <1>5 DEF GoneIsOut
  <2>2. 1 < j /\ i < j - 1
    BY <1>1, <2>1
  <2>3. QED
    BY <1>1, <2>1, <2>2
<1>6. GoneIsOut(gone, after, rest)
  BY <1>4, <1>5 DEF GoneIsOut
<1>7. QED
  BY <1>6 DEF after, rest

\* Facts published while nobody's verdict changes what is gone.
LEMMA PublishingKeeps ==
  ASSUME PopupInv, NEW more \in Seq(PopupFact), wsFacts' = wsFacts \o more,
         UNCHANGED <<ended, slot, resolved, retained>>,
         status' \in Observable \cup {"WaitingInput"},
         raised' \in Nat, raised' >= raised, unheld' \subseteq 1..raised',
         \A i \in 1..Len(more) : more[i].kind = "ApprovalRequested" => more[i].hold \notin ended
  PROVE  PopupInv'
<1>1. ended' = ended /\ slot' = slot /\ resolved' = resolved /\ retained' = retained
  OBVIOUS
<1>2. ended' \subseteq 1..raised' /\ slot' \in 0..raised'
  BY <1>1 DEF PopupInv
<1>3. wsFacts' \in Seq(PopupFact)
  BY DEF PopupInv
<1>4. ~resolved => GoneIsOut(ended', retained', wsFacts')
  BY <1>1, AppendedIsOut DEF PopupInv
<1>5. QED
  BY <1>1, <1>2, <1>3, <1>4 DEF PopupInv

\* Every step of the hook server, the loop, the two folds and the window keeps the invariant.
LEMMA PopupStep == PopupInv /\ [PopupNext]_popupVars => PopupInv'
<1> SUFFICES ASSUME PopupInv, [PopupNext]_popupVars PROVE PopupInv'
  OBVIOUS
<1> USE PopupAssumption
<1>0. /\ raised \in Nat /\ unheld \subseteq 1..raised /\ ended \subseteq 1..raised
      /\ slot \in 0..raised /\ status \in Observable \cup {"WaitingInput"}
      /\ retained \in Nat /\ wsFacts \in Seq(PopupFact) /\ 0 \notin ended
      /\ (~resolved => GoneIsOut(ended, retained, wsFacts))
  BY DEF PopupInv
<1>1. CASE AnnounceHold
  <2> DEFINE more == <<Requested(raised + 1), State("WaitingInput")>>
  <2>1. /\ more \in Seq(PopupFact)
        /\ \A i \in 1..Len(more) : more[i].kind = "ApprovalRequested" => more[i].hold \notin ended
    BY <1>0 DEF Requested, State, PopupFact
  <2>2. /\ wsFacts' = wsFacts \o more /\ UNCHANGED <<ended, slot, status, resolved, retained>>
        /\ raised' = raised + 1 /\ unheld' \subseteq 1..raised'
    BY <1>0, <1>1 DEF AnnounceHold, PublishAll, uiVars
  <2> HIDE DEF more
  <2>3. /\ raised' \in Nat /\ raised' >= raised
        /\ status' \in Observable \cup {"WaitingInput"}
        /\ UNCHANGED <<ended, slot, resolved, retained>>
    BY <1>0, <2>2
  <2>4. QED
    BY <2>1, <2>2, <2>3, PublishingKeeps, Zenon
<1>2. ASSUME NEW h \in unheld, RegisterHold(h) PROVE PopupInv'
  BY <1>0, <1>2 DEF RegisterHold, uiVars, PopupInv
<1>3. CASE HoldElapses
  BY <1>0, <1>3 DEF HoldElapses, uiVars, PopupInv
<1>4. CASE Republish
  <2>1. PICK fact \in {Upserted, Transitioned} : PublishAll(<<fact>>)
    BY <1>4 DEF Republish
  <2>2. /\ <<fact>> \in Seq(PopupFact)
        /\ \A i \in 1..Len(<<fact>>) :
             <<fact>>[i].kind = "ApprovalRequested" => <<fact>>[i].hold \notin ended
    BY <1>0 DEF Upserted, Transitioned, PopupFact
  <2>3. /\ wsFacts' = wsFacts \o <<fact>>
        /\ UNCHANGED <<raised, unheld, ended, slot, status, resolved, retained>>
    BY <1>4, <2>1 DEF Republish, PublishAll, holdVars, uiVars
  <2>4. /\ raised' \in Nat /\ raised' >= raised /\ unheld' \subseteq 1..raised'
        /\ status' \in Observable \cup {"WaitingInput"}
        /\ UNCHANGED <<ended, slot, resolved, retained>>
    BY <1>0, <2>3
  <2>5. QED
    BY <2>2, <2>3, <2>4, PublishingKeeps, Zenon
<1>5. ASSUME NEW s \in Observable, ApplyStatus(s) PROVE PopupInv'
  <2>1. /\ <<State(s)>> \in Seq(PopupFact)
        /\ \A i \in 1..Len(<<State(s)>>) :
             <<State(s)>>[i].kind = "ApprovalRequested" => <<State(s)>>[i].hold \notin ended
    BY DEF State, PopupFact
  <2>2. /\ wsFacts' = wsFacts \o <<State(s)>> /\ status' = s
        /\ UNCHANGED <<raised, unheld, ended, slot, resolved, retained>>
    BY <1>5 DEF ApplyStatus, PublishAll, holdVars, uiVars
  <2>3. /\ raised' \in Nat /\ raised' >= raised /\ unheld' \subseteq 1..raised'
        /\ status' \in Observable \cup {"WaitingInput"}
        /\ UNCHANGED <<ended, slot, resolved, retained>>
    BY <1>0, <2>2
  <2>4. QED
    BY <2>1, <2>2, <2>3, PublishingKeeps, Zenon
<1>6. CASE DecideElsewhere
  BY <1>0, <1>6 DEF DecideElsewhere, holdVars, uiVars, PopupInv
<1>7. CASE RouteApproval
  <2>1. /\ ended' = ended \cup ({slot} \ {0}) /\ slot' = 0 /\ resolved' = (slot # 0) /\ ~resolved
        /\ UNCHANGED <<raised, unheld, status, wsFacts, retained>>
    BY <1>7 DEF RouteApproval, uiVars
  <2>2. slot = 0 => ended' = ended
    BY <2>1
  <2>3. ended' \subseteq 1..raised
    BY <1>0, <2>1
  <2>4. ~resolved' => GoneIsOut(ended', retained', wsFacts')
    BY <1>0, <2>1, <2>2
  <2>5. QED
    BY <1>0, <2>1, <2>3, <2>4 DEF PopupInv
<1>8. CASE PublishResolved
  <2>1. /\ wsFacts' = wsFacts \o <<State("Running")>> /\ resolved' = FALSE
        /\ UNCHANGED <<raised, unheld, ended, slot, status, retained>>
    BY <1>8 DEF PublishResolved, PublishAll, holdVars, uiVars
  <2>2. <<State("Running")>> \in Seq(PopupFact)
    BY DEF State, PopupFact
  <2>3. wsFacts' \in Seq(PopupFact)
    BY <1>0, <2>1, <2>2
  <2>4. GoneIsOut(ended', retained', wsFacts')
    BY <1>0, <2>1, ResolvedIsOut
  <2>5. QED
    BY <1>0, <2>1, <2>3, <2>4 DEF PopupInv
<1>9. CASE WorkspaceFolds
  <2>1. /\ wsFacts # <<>> /\ wsFacts' = Tail(wsFacts)
        /\ retained' = Folded(retained, Head(wsFacts))
        /\ UNCHANGED <<raised, unheld, ended, slot, status, resolved>>
    BY <1>9 DEF WorkspaceFolds, holdVars
  <2>2. wsFacts' \in Seq(PopupFact) /\ Head(wsFacts) \in PopupFact
    BY <1>0, <2>1
  <2>3. retained' \in Nat
    BY <1>0, <2>1, <2>2 DEF Folded, PopupFact
  <2>4. ~resolved => GoneIsOut(ended', retained', wsFacts')
    BY <1>0, <2>1, FoldedIsOut
  <2>5. QED
    BY <1>0, <2>1, <2>2, <2>3, <2>4 DEF PopupInv
<1>10. CASE MonitorFolds
  BY <1>0, <1>10 DEF MonitorFolds, holdVars, PopupInv
<1>11. CASE OpenMonitor \/ CloseMonitor
  BY <1>0, <1>11 DEF OpenMonitor, CloseMonitor, holdVars, PopupInv
<1>12. CASE ResolveAuthorize
  <2>1. /\ retained' = 0
        /\ UNCHANGED <<raised, unheld, ended, slot, status, resolved, wsFacts>>
    BY <1>12 DEF ResolveAuthorize, holdVars
  <2>2. ~resolved => GoneIsOut(ended', retained', wsFacts')
    BY <1>0, <2>1 DEF GoneIsOut
  <2>3. QED
    BY <1>0, <2>1, <2>2 DEF PopupInv
<1>13. CASE UNCHANGED popupVars
  BY <1>0, <1>13 DEF popupVars, PopupInv
<1>14. QED
  BY <1>1, <1>2, <1>3, <1>4, <1>5, <1>6, <1>7, <1>8, <1>9, <1>10, <1>11, <1>12, <1>13
  DEF PopupNext

\* For any number of holds and any queues, a hold that a verdict ended is not retained once
\* every fact is folded, so no monitor opened then offers it again (approvals.rs).
THEOREM SettledIsNeverRetained == PopupSpec => []SettledIsNotRetained
<1>1. ASSUME PopupInit PROVE PopupInv
  <2>1. /\ raised = 0 /\ unheld = {} /\ ended = {} /\ slot = 0 /\ retained = 0 /\ wsFacts = <<>>
        /\ status \in Observable
    BY <1>1, PopupAssumption DEF PopupInit
  <2>2. resolved \in BOOLEAN
    BY <1>1, Zenon DEF PopupInit
  <2>3. wsFacts \in Seq(PopupFact) /\ slot \in 0..raised /\ raised \in Nat
    BY <2>1
  <2>4. GoneIsOut(ended, retained, wsFacts)
    BY <2>1 DEF GoneIsOut
  <2>5. QED
    BY <2>1, <2>2, <2>3, <2>4 DEF PopupInv
<1>2. PopupInv => SettledIsNotRetained
  BY DEF PopupInv, GoneIsOut, SettledIsNotRetained, Settled
<1>3. QED
  BY <1>1, <1>2, PopupStep, PTL DEF PopupSpec

-----------------------------------------------------------------------------
(* ReviewPanel *)

\* What the lists are made of, and that what is shown is what is selected in them.
PanelInv ==
  /\ touches \in [Paths -> Nat] /\ listed \in [Paths -> Nat]
  /\ dirty \subseteq Paths /\ git \subseteq Paths /\ base \in {"Session", "GitHead"}
  /\ ShownIsSelected

\* A list of files is finite, and a file of it has a place in it.
LEMMA PlaceInList ==
  ASSUME NEW set \in SUBSET Paths
  PROVE  /\ IsFiniteSet(set) /\ Cardinality(set) \in Nat
         /\ set # {} => 1 \in 1..Cardinality(set)
         /\ \A f \in set : IndexIn(set, f) \in 1..Cardinality(set)
<1>1. IsFiniteSet(Paths)
  BY FS_Interval, PanelAssumption DEF Paths
<1>2. IsFiniteSet(set) /\ Cardinality(set) \in Nat
  BY <1>1, FS_Subset, FS_CardinalityType
<1>3. set # {} => 1 \in 1..Cardinality(set)
  <2>1. set # {} => Cardinality(set) # 0
    BY <1>2, FS_EmptySet
  <2>2. QED
    BY <1>2, <2>1
<1>4. ASSUME NEW f \in set PROVE IndexIn(set, f) \in 1..Cardinality(set)
  <2> DEFINE upTo == {g \in set : g <= f}
  <2>1. /\ IsFiniteSet(upTo) /\ Cardinality(upTo) \in Nat
        /\ Cardinality(upTo) <= Cardinality(set)
    BY <1>2, FS_Subset, FS_CardinalityType
  <2>2. f \in upTo
    BY PanelAssumption DEF Paths
  <2>3. Cardinality(upTo) # 0
    BY <2>1, <2>2, FS_EmptySet
  <2>4. QED
    BY <1>2, <2>1, <2>3 DEF IndexIn
<1>5. QED
  BY <1>2, <1>3, <1>4

\* Two files of a list have different places.
LEMMA PlacesDiffer ==
  ASSUME NEW set \in SUBSET Paths, NEW f \in set, NEW g \in set, f < g
  PROVE  IndexIn(set, f) # IndexIn(set, g)
<1> DEFINE upTo(x) == {y \in set : y <= x}
<1>1. IsFiniteSet(set)
  BY PlaceInList
<1>2. IsFiniteSet(upTo(g)) /\ Cardinality(upTo(g)) \in Nat
  BY <1>1, FS_Subset, FS_CardinalityType
<1>3. \A y \in set : y \in Nat
  BY PanelAssumption DEF Paths
<1>4. upTo(f) \subseteq upTo(g) /\ g \in upTo(g) /\ g \notin upTo(f)
  BY <1>3
<1>5. Cardinality(upTo(f)) # Cardinality(upTo(g))
  <2> HIDE DEF upTo
  <2>1. upTo(f) # upTo(g)
    BY <1>4
  <2>2. QED
    BY <1>2, <1>4, <2>1, FS_Subset
<1>6. QED
  BY <1>5 DEF IndexIn

\* The file at a file's place is that file.
LEMMA FileAtItsPlace ==
  ASSUME NEW set \in SUBSET Paths, NEW f \in set
  PROVE  FileAt(set, IndexIn(set, f)) = f
<1> DEFINE g == FileAt(set, IndexIn(set, f))
<1>1. g \in set /\ IndexIn(set, g) = IndexIn(set, f)
  BY DEF FileAt
<1> HIDE DEF g
<1>2. f \in Nat /\ g \in Nat
  BY <1>1, PanelAssumption DEF Paths
<1>3. ~(f < g) /\ ~(g < f)
  BY <1>1, PlacesDiffer
<1>4. QED
  BY <1>2, <1>3 DEF g

\* Selecting a place of the list shows the file at it.
LEMMA SelectShows ==
  ASSUME NEW b, NEW l, NEW g, NEW i, Select(b, l, g, i), base' = b, listed' = l, git' = g
  PROVE  ShownIsSelected'
BY DEF Select, ShownIsSelected

\* Reading everything again shows the first file of what was read.
LEMMA ReloadShows ==
  ASSUME PanelInv, NEW b \in {"Session", "GitHead"}, NEW l \in [Paths -> Nat], Reload(b, l)
  PROVE  /\ listed' = l /\ base' \in {"Session", "GitHead"} /\ git' \subseteq Paths
         /\ ShownIsSelected'
<1> DEFINE to == IF b = "Session" /\ Listed(l) = {} THEN "GitHead" ELSE b
           set == ListOf(to, l, dirty)
<1>1. /\ base' = to /\ listed' = l /\ git' = (IF to = "GitHead" THEN dirty ELSE git)
      /\ selected' = (IF set = {} THEN 0 ELSE 1)
      /\ pane' = (IF set = {} THEN 0 ELSE FileAt(set, 1))
  BY DEF Reload
<1>2. to \in {"Session", "GitHead"} /\ git' \subseteq Paths
  BY <1>1 DEF PanelInv
<1>3. ListOf(base', listed', git') = set /\ set \in SUBSET Paths
  BY <1>1, <1>2 DEF ListOf, Listed, PanelInv
<1> HIDE DEF to, set
<1>4. ShownIsSelected'
  BY <1>1, <1>3, PlaceInList DEF ShownIsSelected
<1>5. QED
  BY <1>1, <1>2, <1>4

\* Following by path keeps what is shown the file that is selected.
LEMMA FollowingShows ==
  ASSUME PanelInv, base = "Session", NEW l \in [Paths -> Nat], FollowPath(l),
         listed' = l, UNCHANGED <<base, git>>
  PROVE  ShownIsSelected'
<1> DEFINE before == Listed(listed)
           showing == IF selected \in 1..Cardinality(before) THEN FileAt(before, selected)
                      ELSE 0
<1>1. /\ ListOf(base, listed, git) = before /\ ListOf(base', listed', git') = Listed(l)
      /\ Listed(l) \in SUBSET Paths /\ 0 \notin Listed(l)
  BY PanelAssumption DEF ListOf, Listed, Paths
<1>2. pane # 0 /\ before # {} => selected \in 1..Cardinality(before) /\ showing = pane
  BY <1>1 DEF PanelInv, ShownIsSelected
<1>3. before = {} => showing = 0
  BY FS_EmptySet
<1>4. CASE /\ showing \in Listed(l) /\ selected' = IndexIn(Listed(l), showing)
           /\ UNCHANGED pane
  <2> HIDE DEF before, showing
  <2>1. pane # 0 => showing = pane
    BY <1>1, <1>2, <1>3, <1>4
  <2>2. /\ IndexIn(Listed(l), showing) \in 1..Cardinality(Listed(l))
        /\ FileAt(Listed(l), IndexIn(Listed(l), showing)) = showing
    BY <1>1, <1>4, PlaceInList, FileAtItsPlace
  <2>3. QED
    BY <1>1, <1>4, <2>1, <2>2 DEF ShownIsSelected
<1>5. ASSUME NEW i, Select("Session", l, git, i) PROVE ShownIsSelected'
  BY <1>5, SelectShows
<1>6. CASE Listed(l) = {}
  BY <1>1, <1>6 DEF ShownIsSelected
<1>7. QED
  BY <1>4, <1>5, <1>6 DEF FollowPath

\* Nothing of the view moves.
LEMMA ViewStays ==
  ASSUME PanelInv, UNCHANGED <<base, listed, git, selected, pane>>,
         touches' \in [Paths -> Nat], dirty' \subseteq Paths
  PROVE  PanelInv'
BY DEF PanelInv, ShownIsSelected, ListOf, Listed

\* Every poll, click and write keeps the invariant.
LEMMA PanelStep == PanelInv /\ [PanelNext]_panelVars => PanelInv'
<1> SUFFICES ASSUME PanelInv, [PanelNext]_panelVars PROVE PanelInv'
  OBVIOUS
<1>0. /\ touches \in [Paths -> Nat] /\ listed \in [Paths -> Nat]
      /\ dirty \subseteq Paths /\ git \subseteq Paths /\ base \in {"Session", "GitHead"}
  BY DEF PanelInv
<1>1. ASSUME NEW f \in Paths, NEW same \in BOOLEAN, SessionWrites(f, same) PROVE PanelInv'
  <2>1. touches' \in [Paths -> Nat] /\ dirty' \subseteq Paths
    BY <1>0, <1>1 DEF SessionWrites
  <2>2. QED
    BY <1>1, <2>1, ViewStays DEF SessionWrites, viewVars
<1>2. ASSUME NEW f \in Paths, OperatorEdits(f) PROVE PanelInv'
  BY <1>0, <1>2, ViewStays DEF OperatorEdits, viewVars
<1>3. ASSUME NEW i \in Paths, SelectFile(i) PROVE PanelInv'
  BY <1>0, <1>3, SelectShows DEF SelectFile, worldVars, PanelInv
<1>4. CASE SelectLines
  BY <1>0, <1>4, ViewStays DEF SelectLines, worldVars
<1>5. CASE PollLedger
  <2>1. base = "Session" /\ UNCHANGED <<touches, dirty>>
    BY <1>5 DEF PollLedger, worldVars
  <2>2. CASE UNCHANGED viewVars
    BY <1>0, <2>1, <2>2, ViewStays DEF viewVars
  <2>3. CASE /\ listed' = touches /\ touches = listed
             /\ UNCHANGED <<base, git, selected, pane, selection, composer>>
    BY <1>0, <2>1, <2>3, ViewStays
  <2>4. CASE listed' = touches /\ FollowPath(touches) /\ UNCHANGED <<base, git>>
    <3>1. ShownIsSelected'
      BY <1>0, <2>1, <2>4, FollowingShows
    <3>2. QED
      BY <1>0, <2>1, <2>4, <3>1 DEF PanelInv
  <2>5. QED
    BY <1>5, <2>2, <2>3, <2>4 DEF PollLedger
<1>6. ASSUME NEW b \in {"Session", "GitHead"}, SetBase(b) PROVE PanelInv'
  <2>1. Reload(b, touches) /\ UNCHANGED <<touches, dirty>>
    BY <1>6 DEF SetBase, worldVars
  <2>2. QED
    BY <1>0, <2>1, ReloadShows DEF PanelInv
<1>7. CASE ApprovePass
  <2>1. touches' \in [Paths -> Nat] /\ Reload(base, touches') /\ dirty' = dirty
    BY <1>7 DEF ApprovePass
  <2>2. QED
    BY <1>0, <2>1, ReloadShows DEF PanelInv
<1>8. CASE ClearedElsewhere
  BY <1>0, <1>8, ViewStays DEF ClearedElsewhere, viewVars
<1>9. CASE BeginComment \/ BeginScopedComment \/ BeginEdit \/ CancelComment
  BY <1>0, <1>9, ViewStays
  DEF BeginComment, BeginScopedComment, BeginEdit, CancelComment, Compose, worldVars
<1>10. CASE SaveComment
  BY <1>0, <1>10, ViewStays DEF SaveComment, worldVars
<1>11. ASSUME NEW f \in Paths, IgnorePath(f) PROVE PanelInv'
  <2>1. UNCHANGED <<touches, dirty, base, listed, git>>
    BY <1>11 DEF IgnorePath, worldVars
  <2>2. ASSUME NEW i, Select(base, listed, git, i) PROVE PanelInv'
    BY <1>0, <2>1, <2>2, SelectShows DEF PanelInv
  <2>3. CASE UNCHANGED <<selected, pane>>
    BY <1>0, <2>1, <2>3, ViewStays
  <2>4. CASE pane' = 0
    BY <1>0, <2>1, <2>4 DEF PanelInv, ShownIsSelected
  <2>5. QED
    BY <1>11, <2>2, <2>3, <2>4 DEF IgnorePath
<1>12. ASSUME NEW f \in Paths, RevertFile(f) PROVE PanelInv'
  <2>1. UNCHANGED <<touches, base, listed, git>> /\ dirty' \subseteq Paths
    BY <1>0, <1>12 DEF RevertFile, worldVars, viewVars
  <2>2. ASSUME NEW i, Select(base, listed, git, i) PROVE PanelInv'
    BY <1>0, <2>1, <2>2, SelectShows DEF PanelInv
  <2>3. CASE UNCHANGED <<selected, pane>>
    BY <1>0, <2>1, <2>3, ViewStays
  <2>4. QED
    BY <1>12, <2>2, <2>3 DEF RevertFile, viewVars
<1>13. CASE ClearIgnored
  BY <1>0, <1>13, ViewStays DEF ClearIgnored, worldVars, viewVars
<1>14. CASE UNCHANGED panelVars
  BY <1>0, <1>14, ViewStays DEF panelVars
<1>15. QED
  BY <1>1, <1>2, <1>3, <1>4, <1>5, <1>6, <1>7, <1>8, <1>9, <1>10, <1>11, <1>12, <1>13, <1>14
  DEF PanelNext

\* For any number of files and of writes, the rows on screen are those of the file a comment
\* would name, however polls move the list under it (code_review.rs poll_ledger).
THEOREM ShownIsAlwaysSelected == PanelSpec => []ShownIsSelected
<1>1. ASSUME PanelInit PROVE PanelInv
  <2> DEFINE set == Listed(listed)
  <2>1. /\ listed = touches /\ touches = [f \in Paths |-> IF f = NFiles THEN 1 ELSE 0]
        /\ dirty = {NFiles} /\ git = {} /\ base = "Session" /\ selected = 1 /\ pane = NFiles
    BY <1>1 DEF PanelInit
  <2>2. NFiles \in Paths
    BY PanelAssumption DEF Paths
  <2>3. set = {NFiles} /\ ListOf(base, listed, git) = set
    BY <2>1, <2>2 DEF Listed, ListOf
  <2>4. IndexIn(set, NFiles) = 1 /\ Cardinality(set) = 1
    <3>1. {g \in {NFiles} : g <= NFiles} = {NFiles}
      BY PanelAssumption
    <3>2. QED
      BY <2>3, <3>1, FS_Singleton DEF IndexIn
  <2>5. FileAt(set, 1) = NFiles
    BY <2>2, <2>3, <2>4, FileAtItsPlace
  <2>6. QED
    BY <2>1, <2>2, <2>3, <2>4, <2>5 DEF PanelInv, ShownIsSelected
<1>2. PanelInv => ShownIsSelected
  BY DEF PanelInv
<1>3. QED
  BY <1>1, <1>2, PanelStep, PTL DEF PanelSpec

-----------------------------------------------------------------------------
(* ReviewVerdicts: what VerdictsSettle promises in the end, and what holds *)
(* of a verdict at any moment before.                                      *)

\* A listed file whose stamp is the one it was judged at is marked as having nothing left
\* exactly when it is its baseline, however many reads of it are on their way, were read
\* while it was being written, or arrive out of order (code_review.rs recheck_unchanged).
JudgedIsRight ==
  \A f \in Reviewed :
    shown.rows[f] # 0 /\ checked[f] = StampOf(shown.rows, f)
      => (f \in unchanged <=> onDisk[f].same)

Stamps == Nat \X Nat
Verdicts == [file : Reviewed, stamp : Stamps, same : {"unread", "yes", "no"}]

VerdictsTyped ==
  /\ row \in [Reviewed -> Nat] /\ writes \in Nat
  /\ onDisk \in [Reviewed -> [stamp : Nat, same : BOOLEAN]]
  /\ shown \in [session : BOOLEAN, rows : [Reviewed -> Nat]]
  /\ checked \in [Reviewed -> Stamps] /\ unchanged \subseteq Reviewed
  /\ reads \subseteq Verdicts

\* No stamp is of a write to come, so a write makes every stamp there is an old one.
StampsArePast ==
  /\ \A f \in Reviewed : onDisk[f].stamp <= writes /\ checked[f][2] <= writes
  /\ \A v \in reads : v.stamp[2] <= writes

\* The panel lists no file that has left the ledger: what empties the ledger reloads it.
ListedIsKept == \A f \in Reviewed : shown.rows[f] # 0 => row[f] # 0

\* A judgement as of the last write of a file in the ledger.
AsOfNow(stamp, f) == row[f] # 0 /\ stamp[1] # 0 /\ stamp[2] = onDisk[f].stamp

JudgedStands ==
  \A f \in Reviewed : AsOfNow(checked[f], f) => (f \in unchanged <=> onDisk[f].same)
ReadsStand ==
  \A v \in reads :
    AsOfNow(v.stamp, v.file) /\ v.same # "unread" => (v.same = "yes" <=> onDisk[v.file].same)

VerdictsInv == /\ VerdictsTyped /\ StampsArePast /\ ListedIsKept
               /\ JudgedStands /\ ReadsStand

\* The pair a stamp is.
LEMMA StampParts ==
  ASSUME NEW m \in Nat, NEW n \in Nat
  PROVE  <<m, n>> \in Stamps /\ <<m, n>>[1] = m /\ <<m, n>>[2] = n
BY DEF Stamps

\* A file is asked about at its stamp of now, and not yet read.
LEMMA AskedFor ==
  ASSUME VerdictsTyped, NEW l \in [Reviewed -> Nat], NEW files \in SUBSET Reviewed
  PROVE  \A v \in ReadsOf(l, files) :
           /\ v \in Verdicts /\ v.same = "unread"
           /\ v.stamp = StampOf(l, v.file)
<1> SUFFICES ASSUME NEW f \in files
             PROVE  LET v == [file |-> f, stamp |-> StampOf(l, f), same |-> "unread"] IN
                    v \in Verdicts /\ v.same = "unread" /\ v.stamp = StampOf(l, v.file)
  BY DEF ReadsOf
<1>1. StampOf(l, f) \in Stamps
  BY StampParts DEF StampOf, VerdictsTyped
<1>2. QED
  BY <1>1 DEF Verdicts

\* Asking again: nothing that was judged is judged otherwise, but for files that left.
LEMMA RecheckKeeps ==
  ASSUME VerdictsInv, NEW l \in [Reviewed -> Nat], Recheck(l)
  PROVE  /\ checked' \in [Reviewed -> Stamps] /\ unchanged' \subseteq Reviewed
         /\ reads' \subseteq Verdicts
         /\ \A f \in Reviewed :
              \/ checked'[f] = NoStamp
              \/ checked'[f] = checked[f] /\ (f \in unchanged' <=> f \in unchanged)
         /\ \A v \in reads' : v \in reads \/ (v.same = "unread" /\ v.stamp[2] <= writes)
<1>1. NoStamp \in Stamps
  BY StampParts DEF NoStamp
<1>2. /\ checked' = [f \in Reviewed |-> IF l[f] # 0 THEN checked[f] ELSE NoStamp]
      /\ unchanged' = {f \in unchanged : l[f] # 0}
      /\ reads' = reads \cup ReadsOf(l, {f \in Reviewed : l[f] # 0 /\ checked[f] # StampOf(l, f)})
  BY DEF Recheck
<1>3. \A v \in ReadsOf(l, {f \in Reviewed : l[f] # 0 /\ checked[f] # StampOf(l, f)}) :
        v \in Verdicts /\ v.same = "unread" /\ v.stamp = StampOf(l, v.file)
  BY AskedFor DEF VerdictsInv
<1>4. ASSUME NEW v \in ReadsOf(l, {f \in Reviewed : l[f] # 0 /\ checked[f] # StampOf(l, f)})
      PROVE  v.stamp[2] <= writes
  <2>1. v.file \in Reviewed /\ v.stamp = <<l[v.file], onDisk[v.file].stamp>>
    BY <1>3 DEF Verdicts, StampOf
  <2>2. v.stamp[2] = onDisk[v.file].stamp
    BY <2>1
  <2>3. QED
    BY <2>1, <2>2 DEF VerdictsInv, StampsArePast
<1>5. QED
  BY <1>1, <1>2, <1>3, <1>4 DEF VerdictsInv, VerdictsTyped

\* A step that writes nothing and asks again at most keeps what stands, if it keeps the
\* ledger or empties it.
LEMMA AskingKeeps ==
  ASSUME VerdictsInv, NEW l \in [Reviewed -> Nat],
         Recheck(l) \/ UNCHANGED judgeVars,
         UNCHANGED <<onDisk, writes>>,
         row' = row \/ row' = [f \in Reviewed |-> 0],
         shown' \in [session : BOOLEAN, rows : [Reviewed -> Nat]],
         \A f \in Reviewed : shown'.rows[f] # 0 => row'[f] # 0
  PROVE  VerdictsInv'
<1>1. /\ checked' \in [Reviewed -> Stamps] /\ unchanged' \subseteq Reviewed
      /\ reads' \subseteq Verdicts
      /\ \A f \in Reviewed :
           \/ checked'[f] = NoStamp
           \/ checked'[f] = checked[f] /\ (f \in unchanged' <=> f \in unchanged)
      /\ \A v \in reads' : v \in reads \/ (v.same = "unread" /\ v.stamp[2] <= writes)
  <2>1. CASE Recheck(l)
    BY <2>1, RecheckKeeps
  <2>2. CASE UNCHANGED judgeVars
    BY <2>2 DEF judgeVars, VerdictsInv, VerdictsTyped
  <2>3. QED
    BY <2>1, <2>2
<1>2. NoStamp[1] = 0 /\ NoStamp[2] = 0
  BY DEF NoStamp
<1>3. \A f \in Reviewed : row'[f] # 0 => row[f] # 0
  OBVIOUS
<1>4. VerdictsTyped'
  BY <1>1 DEF VerdictsInv, VerdictsTyped
<1>5. StampsArePast'
  <2>1. 0 <= writes
    BY DEF VerdictsInv, VerdictsTyped
  <2>2. \A f \in Reviewed : checked'[f][2] <= writes
    BY <1>1, <1>2, <2>1 DEF VerdictsInv, StampsArePast
  <2>3. QED
    BY <1>1, <2>2 DEF VerdictsInv, StampsArePast
<1>6. JudgedStands'
  BY <1>1, <1>2, <1>3 DEF VerdictsInv, JudgedStands, AsOfNow
<1>7. ReadsStand'
  BY <1>1, <1>3 DEF VerdictsInv, ReadsStand, AsOfNow, VerdictsTyped, Verdicts
<1>8. QED
  BY <1>4, <1>5, <1>6, <1>7 DEF VerdictsInv, ListedIsKept

\* A write, seen by the ledger or not, makes what was judged and read of the file old.
LEMMA WritingKeeps ==
  ASSUME VerdictsInv, NEW f \in Reviewed, NEW same \in BOOLEAN, NEW seen \in BOOLEAN,
         Writes(f, same, seen)
  PROVE  VerdictsInv'
<1> DEFINE state == [stamp |-> writes + 1, same |-> same]
<1>1. /\ writes' = writes + 1 /\ writes \in Nat
      /\ onDisk' = [onDisk EXCEPT ![f] = state]
      /\ row' = IF seen THEN [row EXCEPT ![f] = @ + 1] ELSE row
      /\ UNCHANGED <<shown, checked, unchanged, reads>>
  BY DEF Writes, judgeVars, VerdictsInv, VerdictsTyped
<1>2. /\ state \in [stamp : Nat, same : BOOLEAN] /\ state.stamp = writes + 1
  BY <1>1
<1> HIDE DEF state
<1>3. /\ onDisk'[f].stamp = writes + 1
      /\ \A g \in Reviewed \ {f} : onDisk'[g] = onDisk[g] /\ row'[g] = row[g]
      /\ \A g \in Reviewed : row[g] # 0 => row'[g] # 0
  BY <1>1, <1>2 DEF VerdictsInv, VerdictsTyped
<1>4. VerdictsTyped'
  BY <1>1, <1>2 DEF VerdictsInv, VerdictsTyped
<1>5. /\ \A g \in Reviewed : checked[g][2] \in Nat /\ checked[g][2] <= writes
      /\ \A v \in reads : v.stamp[2] \in Nat /\ v.stamp[2] <= writes /\ v.file \in Reviewed
  BY DEF VerdictsInv, VerdictsTyped, StampsArePast, Stamps, Verdicts
<1>6. StampsArePast'
  <2>1. \A g \in Reviewed : onDisk[g].stamp \in Nat /\ onDisk[g].stamp <= writes
    BY DEF VerdictsInv, VerdictsTyped, StampsArePast
  <2>2. \A g \in Reviewed : onDisk'[g].stamp <= writes + 1
    BY <1>1, <1>3, <2>1
  <2>3. QED
    BY <1>1, <1>5, <2>2 DEF StampsArePast
<1>7. \A stamp : stamp[2] \in Nat /\ stamp[2] <= writes => stamp[2] # onDisk'[f].stamp
  BY <1>1, <1>3
<1>8. JudgedStands'
  BY <1>1, <1>3, <1>5, <1>7 DEF VerdictsInv, JudgedStands, AsOfNow
<1>9. ReadsStand'
  BY <1>1, <1>3, <1>5, <1>7 DEF VerdictsInv, ReadsStand, AsOfNow
<1>10. ListedIsKept'
  BY <1>1, <1>3 DEF VerdictsInv, ListedIsKept
<1>11. QED
  BY <1>4, <1>6, <1>8, <1>9, <1>10 DEF VerdictsInv

\* The read looks at the file as it is: right, if nothing was written since it was asked for.
LEMMA ReadingKeeps ==
  ASSUME VerdictsInv, NEW v \in reads, ReadVerdict(v)
  PROVE  VerdictsInv'
<1> DEFINE is   == IF row[v.file] # 0 /\ onDisk[v.file].same THEN "yes" ELSE "no"
           read == [v EXCEPT !.same = is]
<1>1. v \in Verdicts /\ is \in {"yes", "no"}
  BY DEF VerdictsInv, VerdictsTyped
<1>2. is = "yes" <=> row[v.file] # 0 /\ onDisk[v.file].same
  OBVIOUS
<1>3. /\ reads' = (reads \ {v}) \cup {read}
      /\ UNCHANGED <<row, onDisk, writes, shown, checked, unchanged>>
  BY DEF ReadVerdict, outsideVars
<1> HIDE DEF is
<1>4. /\ read \in Verdicts /\ read.file = v.file /\ read.stamp = v.stamp /\ read.same = is
  BY <1>1 DEF Verdicts
<1> HIDE DEF read
<1>5. VerdictsTyped' /\ StampsArePast' /\ ListedIsKept' /\ JudgedStands'
  BY <1>3, <1>4 DEF VerdictsInv, VerdictsTyped, StampsArePast, ListedIsKept, JudgedStands, AsOfNow
<1>6. ReadsStand'
  <2> SUFFICES ASSUME NEW w \in reads', AsOfNow(w.stamp, w.file), w.same # "unread"
               PROVE  w.same = "yes" <=> onDisk[w.file].same
    BY <1>3 DEF ReadsStand, AsOfNow
  <2>1. CASE w = read
    BY <1>2, <1>4, <2>1 DEF AsOfNow
  <2>2. CASE w \in reads
    BY <2>2 DEF VerdictsInv, ReadsStand
  <2>3. QED
    BY <1>3, <2>1, <2>2
<1>7. QED
  BY <1>5, <1>6 DEF VerdictsInv

\* The panel takes a verdict with the stamp it was asked at, whatever was taken before.
LEMMA TakingKeeps ==
  ASSUME VerdictsInv, NEW v \in reads, TakeVerdict(v)
  PROVE  VerdictsInv'
<1>1. /\ v \in Verdicts /\ v.same # "unread"
      /\ reads' = reads \ {v}
      /\ checked' = [checked EXCEPT ![v.file] = v.stamp]
      /\ unchanged' = IF v.same = "yes" THEN unchanged \cup {v.file} ELSE unchanged \ {v.file}
      /\ UNCHANGED <<row, onDisk, writes, shown>>
  BY DEF TakeVerdict, outsideVars, VerdictsInv, VerdictsTyped
<1>2. /\ v.file \in Reviewed /\ v.stamp \in Stamps
      /\ checked'[v.file] = v.stamp
      /\ \A g \in Reviewed \ {v.file} : /\ checked'[g] = checked[g]
                                        /\ g \in unchanged' <=> g \in unchanged
      /\ v.file \in unchanged' <=> v.same = "yes"
  BY <1>1 DEF VerdictsInv, VerdictsTyped, Verdicts
<1>3. VerdictsTyped'
  BY <1>1, <1>2 DEF VerdictsInv, VerdictsTyped
<1>4. StampsArePast'
  BY <1>1, <1>2 DEF VerdictsInv, StampsArePast
<1>5. JudgedStands'
  BY <1>1, <1>2 DEF VerdictsInv, JudgedStands, ReadsStand, AsOfNow
<1>6. ReadsStand' /\ ListedIsKept'
  BY <1>1 DEF VerdictsInv, ReadsStand, ListedIsKept, AsOfNow
<1>7. QED
  BY <1>3, <1>4, <1>5, <1>6 DEF VerdictsInv

\* Every step of the panel, its reads and the tree keeps the invariant.
LEMMA VerdictsStep == VerdictsInv /\ [VerdictsNext]_verdictVars => VerdictsInv'
<1> SUFFICES ASSUME VerdictsInv, [VerdictsNext]_verdictVars PROVE VerdictsInv'
  OBVIOUS
<1>0. /\ row \in [Reviewed -> Nat] /\ shown \in [session : BOOLEAN, rows : [Reviewed -> Nat]]
      /\ shown.rows \in [Reviewed -> Nat] /\ shown.session \in BOOLEAN
      /\ \A f \in Reviewed : shown.rows[f] # 0 => row[f] # 0
  BY DEF VerdictsInv, VerdictsTyped, ListedIsKept
<1>1. CASE \E f \in Reviewed, same, seen \in BOOLEAN : Writes(f, same, seen)
  BY <1>1, WritingKeeps
<1>2. CASE \E f \in Reviewed : Reverts(f)
  BY <1>2, WritingKeeps DEF Reverts
<1>3. CASE Poll
  <2>1. /\ Recheck(shown.rows) /\ UNCHANGED <<row, onDisk, writes>>
        /\ shown' = IF composing THEN shown ELSE [shown EXCEPT !.rows = row]
    BY <1>3 DEF Poll, outsideVars
  <2>2. /\ shown' \in [session : BOOLEAN, rows : [Reviewed -> Nat]]
        /\ shown'.rows = shown.rows \/ shown'.rows = row
    BY <1>0, <2>1
  <2>3. QED
    BY <1>0, <2>1, <2>2, AskingKeeps
<1>4. CASE \E v \in reads : ReadVerdict(v) \/ TakeVerdict(v)
  BY <1>4, ReadingKeeps, TakingKeeps
<1>5. ASSUME NEW session \in BOOLEAN, NEW l \in [Reviewed -> Nat], Reloads(session, l)
      PROVE  /\ Recheck(l) \/ UNCHANGED judgeVars
             /\ shown' \in [session : BOOLEAN, rows : [Reviewed -> Nat]] /\ shown'.rows = l
  BY <1>5 DEF Reloads
<1>6. CASE PicksBase
  <2>1. Reloads(~shown.session, row) /\ UNCHANGED <<row, onDisk, writes>>
    BY <1>6 DEF PicksBase, outsideVars
  <2>2. QED
    BY <1>0, <1>5, <2>1, AskingKeeps
<1>7. CASE ApprovesPass
  <2>1. /\ row' = [f \in Reviewed |-> 0] /\ row' \in [Reviewed -> Nat]
        /\ Reloads(shown.session, row') /\ UNCHANGED <<onDisk, writes>>
    BY <1>7 DEF ApprovesPass
  <2>2. QED
    BY <1>0, <1>5, <2>1, AskingKeeps
<1>8. CASE Composes \/ UNCHANGED verdictVars
  <2>1. UNCHANGED judgeVars /\ UNCHANGED <<row, onDisk, writes, shown>>
    BY <1>8 DEF Composes, outsideVars, verdictVars, judgeVars
  <2>2. QED
    BY <1>0, <2>1, AskingKeeps
<1>9. QED
  BY <1>1, <1>2, <1>3, <1>4, <1>6, <1>7, <1>8 DEF VerdictsNext

\* When the panel opens everything listed is being read and nothing is judged.
LEMMA VerdictsStart == VerdictsInit => VerdictsInv
<1> SUFFICES ASSUME VerdictsInit PROVE VerdictsInv
  OBVIOUS
<1>1. /\ row \in [Reviewed -> Nat] /\ writes = 0
      /\ onDisk \in [Reviewed -> [stamp : Nat, same : BOOLEAN]]
      /\ \A f \in Reviewed : onDisk[f].stamp = 0
      /\ shown \in [session : BOOLEAN, rows : [Reviewed -> Nat]] /\ shown.rows = row
      /\ checked = [f \in Reviewed |-> NoStamp] /\ unchanged = {}
      /\ reads = ReadsOf(row, {f \in Reviewed : row[f] # 0})
  BY DEF VerdictsInit
<1>2. NoStamp \in Stamps /\ NoStamp[1] = 0 /\ NoStamp[2] = 0
  BY StampParts DEF NoStamp
<1>3. \A v \in reads : /\ v \in Verdicts /\ v.same = "unread" /\ v.file \in Reviewed
                       /\ v.stamp[2] = onDisk[v.file].stamp
  <2> SUFFICES ASSUME NEW f \in Reviewed
               PROVE  LET v == [file |-> f, stamp |-> StampOf(row, f), same |-> "unread"] IN
                      /\ v \in Verdicts /\ v.same = "unread" /\ v.file \in Reviewed
                      /\ v.stamp[2] = onDisk[v.file].stamp
    BY <1>1 DEF ReadsOf
  <2>1. StampOf(row, f) \in Stamps /\ StampOf(row, f)[2] = onDisk[f].stamp
    BY <1>1, StampParts DEF StampOf
  <2>2. QED
    BY <2>1 DEF Verdicts
<1>4. VerdictsTyped
  BY <1>1, <1>2, <1>3 DEF VerdictsTyped
<1>5. StampsArePast /\ ListedIsKept
  BY <1>1, <1>2, <1>3 DEF StampsArePast, ListedIsKept
<1>6. JudgedStands /\ ReadsStand
  BY <1>1, <1>2, <1>3 DEF JudgedStands, ReadsStand, AsOfNow
<1>7. QED
  BY <1>4, <1>5, <1>6 DEF VerdictsInv

\* The safety half of VerdictsSettle: a verdict whose stamp has not moved is right, whatever
\* polls, reads, writes, reverts and approvals come between (code_review.rs
\* recheck_unchanged).
THEOREM JudgedIsAlwaysRight == VerdictsSpec => []JudgedIsRight
<1>1. VerdictsInv => JudgedIsRight
  <2> SUFFICES ASSUME VerdictsInv, NEW f \in Reviewed, shown.rows[f] # 0,
                      checked[f] = StampOf(shown.rows, f)
               PROVE  f \in unchanged <=> onDisk[f].same
    BY DEF JudgedIsRight
  <2>1. checked[f][1] = shown.rows[f] /\ checked[f][2] = onDisk[f].stamp
    BY DEF StampOf
  <2>2. AsOfNow(checked[f], f)
    BY <2>1 DEF VerdictsInv, ListedIsKept, AsOfNow
  <2>3. QED
    BY <2>2 DEF VerdictsInv, JudgedStands
<1>2. QED
  BY <1>1, VerdictsStart, VerdictsStep, PTL DEF VerdictsSpec
=============================================================================
