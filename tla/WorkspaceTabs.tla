---------------------------- MODULE WorkspaceTabs ----------------------------
(***************************************************************************)
(* The centre tabs of the desktop window, space by space, and the file     *)
(* that brings them back: the tabs mounted now, the tracked set of each    *)
(* space, the sets not rebuilt yet since the last shutdown, the saves      *)
(* handed to the background executor, and the marker that breaks a boot    *)
(* loop.                                                                   *)
(*                                                                         *)
(* A tab is <<key, copy>>: the key names what it shows, the copy tells two *)
(* panels of one key apart. Only the kinds in Tracked (file, session,      *)
(* plan, code review, database file) are recognised in a dump of the       *)
(* centre; the others (a table, a console, the HTTP and gRPC builders)     *)
(* never are. The overview is a space like another here, and always known. *)
(* Which tab is frontmost is left out.                                     *)
(***************************************************************************)
EXTENDS Naturals, FiniteSets, Sequences

CONSTANTS Roots, Overview, Tracked, Transient, Torn, NoSave,
          MaxLaunches, MaxWrites, MaxCopies, MaxActs

ASSUME TabsAssumption ==
  /\ Overview \notin Roots /\ Tracked \cap Transient = {}
  /\ MaxLaunches \in Nat /\ MaxWrites \in Nat
  /\ MaxCopies \in Nat \ {0} /\ MaxActs \in Nat

Spaces == Roots \cup {Overview}
Keys == Tracked \cup Transient
Tab == Keys \X (1..MaxCopies)

(* What is saved: the tabs of each space, and the space that was active.   *)
Snapshot == [tabs : [Spaces -> SUBSET Tracked], active : Spaces]

(* The dock and what is tracked of it.                                     *)
Centre == [current : Spaces, panels : [Spaces -> SUBSET Tab],
           pending : [Spaces -> SUBSET Tracked], mounted : SUBSET Tab]

VARIABLES
  app,          \* "down", "booting", "restoring", "up", "quitting"
  file,         \* open_tabs.json: a snapshot, or Torn when it does not parse
  marker,       \* restore.lock
  projects,     \* the spaces of projects.json
  activeSpace,  \* ... and the one that is active
  centre,       \* [current, panels, pending, mounted]
  restoreDone,
  lastSaved,    \* last_saved_tabs
  writes,       \* saves spawned and not finished: [snap, begun]
  boots,        \* how often the app was launched; bounded by MaxLaunches
  acts,         \* what the operator has done; bounded by MaxActs
  atLaunch,     \* history: the file as this launch found it
  visited,      \* history: the spaces that were current since this launch
  closed,       \* history: <<space, key>> closed since last opened
  failures      \* history: launches in a row that died while restoring

tabsVars == <<app, file, marker, projects, activeSpace, centre, restoreDone,
              lastSaved, writes, boots, acts, atLaunch, visited, closed, failures>>

EmptyCentre(s) ==
  [current |-> s, panels |-> [x \in Spaces |-> {}],
   pending |-> [x \in Spaces |-> {}], mounted |-> {}]

KeysOf(tabs) == {t[1] : t \in tabs}

(* collect_panel_keys: the keys a dump of the centre yields.               *)
LiveKeys(c) == KeysOf(c.mounted) \cap Tracked

(* A panel built for the key, unlike any that still lives.                 *)
AllTabs(c) == c.mounted \cup UNION {c.panels[s] : s \in Spaces}
Build(c, k) ==
  <<k, CHOOSE n \in 1..MaxCopies : <<k, n>> \notin AllTabs(c)>>
CanBuild(c, k) == \E n \in 1..MaxCopies : <<k, n>> \notin AllTabs(c)

(* Mutant: a space that was not visited yet has nothing to save.           *)
CaptureVisited(c) ==
  [tabs |-> [s \in Spaces |->
      IF s = c.current THEN KeysOf(c.panels[s]) \cap LiveKeys(c)
      ELSE KeysOf(c.panels[s]) \cap Tracked],
   active |-> c.current]

(* capture_open_tabs                                                       *)
Capture(c) ==
  [tabs |-> [s \in Spaces |->
      IF s = c.current THEN KeysOf(c.panels[s]) \cap LiveKeys(c)
      ELSE IF c.panels[s] # {} THEN KeysOf(c.panels[s]) \cap Tracked
      ELSE c.pending[s]],
   active |-> c.current]

(* realize_pending                                                         *)
Realized(c, s) ==
  c.panels[s] \cup {Build(c, k) : k \in c.pending[s] \ KeysOf(c.panels[s])}

(* Mutant: the outgoing set is not compared with what is mounted.          *)
SwitchedBlindly(c, s) ==
  LET incoming == Realized(c, s)
  IN IF s = c.current THEN c
     ELSE [current |-> s, panels |-> [c.panels EXCEPT ![s] = incoming],
           pending |-> [c.pending EXCEPT ![s] = {}],
           mounted |-> (c.mounted \ c.panels[c.current]) \cup incoming]

(* switch_space: what the outgoing space still has mounted leaves, what the*)
(* incoming one has comes.                                                 *)
Switched(c, s) ==
  LET kept == {t \in c.panels[c.current] : t[1] \in LiveKeys(c)}
      incoming == Realized(c, s)
  IN IF s = c.current THEN c
     ELSE [current |-> s,
           panels |-> [c.panels EXCEPT ![c.current] = kept, ![s] = incoming],
           pending |-> [c.pending EXCEPT ![s] = {}],
           mounted |-> (c.mounted \ kept) \cup incoming]

(* prune_closed_spaces                                                     *)
Pruned(c, known) ==
  [c EXCEPT !.panels = [s \in Spaces |-> IF s \in known THEN c.panels[s] ELSE {}],
            !.pending = [s \in Spaces |-> IF s \in known THEN c.pending[s] ELSE {}]]

(* The tab half of open_in_center: an existing tab comes to the front, a   *)
(* closed one that is still tracked is mounted again, else one is built.   *)
Opened(c, k) ==
  LET have == {t \in c.panels[c.current] : t[1] = k}
      tab == IF have # {} THEN CHOOSE t \in have : TRUE ELSE Build(c, k)
  IN [c EXCEPT !.panels[c.current] = @ \cup {tab}, !.mounted = @ \cup {tab}]

(* restore_open_tabs: the current space's tabs are rebuilt and mounted, the*)
(* others kept for the first visit; a space since forgotten is dropped.    *)
Restored(c, known) ==
  IF file = Torn THEN c
  ELSE LET mine == {<<k, 1>> : k \in file.tabs[c.current]}
       IN [c EXCEPT !.panels[c.current] = mine, !.mounted = mine,
                    !.pending = [s \in Spaces |->
                       IF s \in known \ {c.current} THEN file.tabs[s] ELSE {}]]

Known == projects \cup {Overview}

TabsInit ==
  /\ app = "down" /\ marker = FALSE
  /\ projects = Roots
  /\ activeSpace \in Spaces
  /\ \E kept \in [Spaces -> SUBSET Tracked] :
        file = [tabs |-> kept, active |-> activeSpace]
  /\ centre = EmptyCentre(Overview)
  /\ restoreDone = FALSE /\ lastSaved = NoSave /\ writes = {}
  /\ boots = 0 /\ acts = 0 /\ atLaunch = file /\ visited = {} /\ closed = {} /\ failures = 0

------------------------------------------------------------------------------
(* persist_open_tabs_if_changed, called once for each of the given centres *)
(* in turn: nothing before the restore is done, and a write spawned for    *)
(* each that differs from the last save, which is replaced at once.        *)
Persist(steps) ==
  LET before(i) == IF i = 1 THEN lastSaved ELSE Capture(steps[i - 1])
      new == {i \in DOMAIN steps : Capture(steps[i]) # before(i)}
  IN IF restoreDone /\ steps # <<>>
     THEN /\ lastSaved' = Capture(steps[Len(steps)])
          /\ writes' = writes \cup
               {[snap |-> Capture(steps[i]), begun |-> FALSE] : i \in new}
          /\ Cardinality(writes') <= MaxWrites
     ELSE UNCHANGED <<lastSaved, writes>>

Act == acts < MaxActs /\ acts' = acts + 1

(* Workspace::new: nothing is mounted, nothing may be saved; a process     *)
(* that died left no memory behind.                                        *)
Launch ==
  /\ app = "down" /\ boots < MaxLaunches
  /\ app' = "booting" /\ boots' = boots + 1
  /\ centre' = EmptyCentre(activeSpace)
  /\ atLaunch' = file /\ visited' = {activeSpace}
  /\ UNCHANGED <<acts, file, marker, projects, activeSpace, restoreDone, lastSaved,
                 writes, closed, failures>>

(* restore_or_safe_mode on a marker: it is cleared and nothing restored.   *)
SafeMode ==
  /\ app = "booting" /\ marker
  /\ app' = "up" /\ marker' = FALSE /\ failures' = 0
  /\ UNCHANGED <<acts, file, projects, activeSpace, centre, restoreDone, lastSaved,
                 writes, boots, atLaunch, visited, closed>>

(* Mutant: the marker is not looked at.                                    *)
BeginRestoreAnyway ==
  /\ app = "booting"
  /\ app' = "restoring" /\ marker' = TRUE
  /\ UNCHANGED <<acts, file, projects, activeSpace, centre, restoreDone, lastSaved,
                 writes, boots, atLaunch, visited, closed, failures>>

(* ... and without one: the marker is written before the restore.          *)
BeginRestore ==
  /\ app = "booting" /\ ~marker
  /\ app' = "restoring" /\ marker' = TRUE
  /\ UNCHANGED <<acts, file, projects, activeSpace, centre, restoreDone, lastSaved,
                 writes, boots, atLaunch, visited, closed, failures>>

FinishRestore ==
  /\ app = "restoring"
  /\ app' = "up" /\ marker' = FALSE /\ restoreDone' = TRUE /\ failures' = 0
  /\ centre' = Restored(centre, Known)
  /\ lastSaved' = Capture(centre')
  /\ UNCHANGED <<acts, file, projects, activeSpace, writes, boots, atLaunch, visited, closed>>

(* The observer of the project space: the centre follows the active space, *)
(* and the sets of forgotten spaces go. The change is saved before they do.*)
Follow(known, s) ==
  LET there == Switched(centre, s)
  IN /\ \A k \in centre.pending[s] : CanBuild(centre, k)
     /\ centre' = Pruned(there, known)
     /\ Persist(IF s = centre.current THEN <<>> ELSE <<there>>)
     /\ visited' = visited \cup {s}

(* select_space, select_overview, toggle_overview and a focused session's  *)
(* space all make a known space the active one.                            *)
SelectSpace(s) ==
  /\ Act
  /\ app = "up" /\ s \in Known
  /\ activeSpace' = s
  /\ Follow(Known, s)
  /\ UNCHANGED <<app, file, marker, projects, restoreDone, boots, atLaunch,
                 closed, failures>>

(* open_root                                                               *)
OpenRoot(r) ==
  /\ Act
  /\ app = "up" /\ r \notin projects
  /\ projects' = projects \cup {r} /\ activeSpace' = r
  /\ Follow(Known \cup {r}, r)
  /\ UNCHANGED <<app, file, marker, restoreDone, boots, atLaunch, closed, failures>>

(* remove_space: the overview takes over from the active one.              *)
RemoveSpace(r) ==
  /\ Act
  /\ app = "up" /\ r \in projects
  /\ projects' = projects \ {r}
  /\ activeSpace' = IF activeSpace = r THEN Overview ELSE activeSpace
  /\ Follow(Known \ {r}, activeSpace')
  /\ closed' = {c \in closed : c[1] # r}
  /\ UNCHANGED <<app, file, marker, restoreDone, boots, atLaunch, failures>>

(* open_in_center: a gate of a session in another open space brings that   *)
(* space to the front first (activate_space_for_root); the untracked kinds *)
(* name no project. A tab that is still tracked returns early, unsaved.    *)
Open(k, root) ==
  LET s == IF root \in projects THEN root ELSE centre.current
      there == Switched(centre, s)
      done == Opened(there, k)
      had == k \in KeysOf(there.panels[s])
      moved == IF s = centre.current THEN <<>> ELSE <<there>>
  IN /\ Act
     /\ app = "up"
     /\ \A q \in centre.pending[s] : CanBuild(centre, q)
     /\ CanBuild(there, k)
     /\ centre' = done
     /\ activeSpace' = s
     /\ Persist(IF had THEN moved ELSE Append(moved, done))
     /\ visited' = visited \cup {s}
     /\ closed' = closed \ {<<s, k>>}
     /\ UNCHANGED <<app, file, marker, projects, restoreDone, boots, atLaunch, failures>>

(* The tab's own "x": the dock drops it, the workspace is not told.        *)
CloseTab(t) ==
  /\ Act
  /\ app = "up" /\ t \in centre.mounted
  /\ centre' = [centre EXCEPT !.mounted = @ \ {t}]
  /\ closed' = closed \cup {<<centre.current, t[1]>>}
  /\ UNCHANGED <<app, file, marker, projects, activeSpace, restoreDone, lastSaved,
                 writes, boots, atLaunch, visited, failures>>

(* The saver that runs every two seconds.                                  *)
Tick ==
  /\ app = "up"
  /\ Persist(<<centre>>)
  /\ UNCHANGED <<acts, app, file, marker, projects, activeSpace, centre, restoreDone,
                 boots, atLaunch, visited, closed, failures>>

(* fs::write on a thread of the executor: the file is emptied, then        *)
(* written. Two at once may leave one's text or a mixture of both.         *)
BeginWrite(w) ==
  /\ ~w.begun
  /\ writes' = (writes \ {w}) \cup {[w EXCEPT !.begun = TRUE]}
  /\ file' = Torn
  /\ UNCHANGED <<acts, app, marker, projects, activeSpace, centre, restoreDone, lastSaved,
                 boots, atLaunch, visited, closed, failures>>

EndWrite(w) ==
  /\ w.begun
  /\ writes' = writes \ {w}
  /\ file' \in {w.snap} \cup (IF file = Torn THEN {} ELSE {Torn})
  /\ UNCHANGED <<acts, app, marker, projects, activeSpace, centre, restoreDone, lastSaved,
                 boots, atLaunch, visited, closed, failures>>

(* on_app_quit: a last save, only if the restore was done.                 *)
Quit ==
  /\ app \in {"booting", "up"}
  /\ app' = "quitting"
  /\ writes' = IF restoreDone
               THEN writes \cup {[snap |-> Capture(centre), begun |-> FALSE]}
               ELSE writes
  /\ UNCHANGED <<acts, file, marker, projects, activeSpace, centre, restoreDone, lastSaved,
                 boots, atLaunch, visited, closed, failures>>

(* The process ends, after a quit or by a crash at any point: the writes   *)
(* it had not finished stay as they are.                                   *)
Die ==
  /\ app # "down"
  /\ app' = "down" /\ writes' = {}
  /\ failures' = IF app = "restoring" THEN failures + 1 ELSE failures
  /\ centre' = EmptyCentre(Overview) /\ restoreDone' = FALSE /\ lastSaved' = NoSave
  /\ atLaunch' = file /\ visited' = {} /\ closed' = {}
  /\ UNCHANGED <<acts, file, marker, projects, activeSpace, boots>>

TabsNext ==
  \/ Launch \/ SafeMode \/ BeginRestore \/ FinishRestore \/ Tick \/ Quit \/ Die
  \/ \E s \in Spaces : SelectSpace(s)
  \/ \E r \in Roots : OpenRoot(r) \/ RemoveSpace(r)
  \/ \E k \in Tracked, root \in Spaces : Open(k, root)
  \/ \E k \in Transient : Open(k, centre.current)
  \/ \E t \in centre.mounted : CloseTab(t)
  \/ \E w \in writes : BeginWrite(w) \/ EndWrite(w)

TabsSpec == TabsInit /\ [][TabsNext]_tabsVars
------------------------------------------------------------------------------
(* TYPE.                                                                   *)
TabsTypeOK ==
  /\ app \in {"down", "booting", "restoring", "up", "quitting"}
  /\ file \in Snapshot \cup {Torn} /\ lastSaved \in Snapshot \cup {NoSave}
  /\ projects \subseteq Roots /\ activeSpace \in Spaces /\ centre \in Centre
  /\ writes \subseteq [snap : Snapshot, begun : BOOLEAN]

(* THE UNVISITED ARE KEPT. Whatever the saves of this launch and in        *)
(* whatever order they reach the disk, safe mode or not, the tabs on file  *)
(* of a space that is still known and that nobody has visited since the    *)
(* launch are the ones the launch found there.                             *)
UnvisitedAreKept ==
  (file # Torn /\ atLaunch # Torn)
    => \A s \in (projects \cup {Overview}) \ visited : file.tabs[s] = atLaunch.tabs[s]

(* NO BOOT LOOP. A restore that kills the app is skipped by the next       *)
(* launch: no two launches in a row die in it.                             *)
NoBootLoop == failures <= 1

(* MOUNTED ONCE AND HERE. While the window is up, the tabs of the kinds    *)
(* the workspace recognises are those of the current space, and a key      *)
(* shows in one panel only: a session's terminal is never there twice.     *)
MountedOnceAndHere ==
  LET recognised == {t \in centre.mounted : t[1] \in Tracked}
  IN /\ recognised \subseteq centre.panels[centre.current]
     /\ \A t, u \in recognised : t[1] = u[1] => t = u

(* CLOSED STAYS CLOSED. A tab the operator closed is not mounted again in  *)
(* its space, nor captured by a save, until it is opened again: not by     *)
(* going away and coming back.                                             *)
ClosedStaysClosed ==
  \A c \in closed :
    c[2] \in Tracked =>
      /\ centre.current = c[1] => c[2] \notin LiveKeys(centre)
      /\ c[2] \notin Capture(centre).tabs[c[1]]
=============================================================================
