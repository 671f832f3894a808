--------------------------- MODULE HookRegistration ---------------------------
(***************************************************************************)
(* Who keeps the hooks registered (crates/control/src/hook_registration.rs *)
(* and the daemon's repair_registrations): the daemon that won the hook    *)
(* socket repairs Claude Code's settings.json, and the install and         *)
(* uninstall commands change it after a question to the operator. Each     *)
(* reads the whole file, works on its copy and writes the whole file,      *)
(* without a lock, while the operator edits it. The daemon and the         *)
(* uninstall command then do the same to the server entry in .claude.json. *)
(* A daemon killed and replaced, and the race of Startup, put a second     *)
(* start behind the first: nothing here keeps them apart. The backup each  *)
(* takes before it writes is read by nobody and left out.                  *)
(***************************************************************************)
EXTENDS Naturals

CONSTANTS
  Events,        \* the hook events of REGISTRATIONS
  Slots,         \* places for the entries of an event: a bound of the run
  Builds,        \* installed binaries
  Foreign,       \* hooks of the operator
  Writers, BuildOf,   \* processes that may be at work at once, and the binary each runs
  NoBuild,       \* no hook of ours in the entry, no server of ours
  Odd,           \* an event of a shape nobody understands
  Unreadable     \* a file that does not parse

\* An entry holds at most one hook of ours, beside any of the operator's. It is that of the
\* build whose command, timeout and matcher it has.
Entry  == [ours : Builds \cup {NoBuild}, theirs : SUBSET Foreign]
Vacant == [ours |-> NoBuild, theirs |-> {}]
SettingsFiles  == [Events -> [Slots -> Entry] \cup {Odd}]
Empty  == [e \in Events |-> [i \in Slots |-> Vacant]]

ASSUME HookAssumption ==
  /\ BuildOf \in [Writers -> Builds] /\ NoBuild \notin Builds /\ Slots # {}
  /\ Odd \notin [Slots -> Entry] /\ Unreadable \notin SettingsFiles

VARIABLES
  settings,      \* ~/.claude/settings.json
  verbs,         \* the moonlight server of ~/.claude.json: a build, NoBuild or Odd
  proc           \* [at, job, seen]: what each process is doing, on which copy

hookVars == <<settings, verbs, proc>>

Away == [at |-> "away", job |-> "daemon", seen |-> Empty]

-----------------------------------------------------------------------------
(* What the three jobs do to an event they can read *)

\* Mutant: a command is recognised by the path of the binary that asks.
IsOurs_ByPath(b, h) == h = b

\* Recognised by its subcommand, whichever binary it names.
IsOurs(b, h) == h # NoBuild

HasOurs(b, es) == \E i \in Slots : IsOurs(b, es[i].ours)
PlaceOfOurs(b, es) == CHOOSE i \in Slots : IsOurs(b, es[i].ours)
FreePlace(es)  == CHOOSE i \in Slots : es[i] = Vacant

Added(b, es) == [es EXCEPT ![FreePlace(es)] = [Vacant EXCEPT !.ours = b]]

\* Mutant: the entry is replaced by a fresh one.
Refreshed_Whole(b, es) ==
  [es EXCEPT ![PlaceOfOurs(b, es)] = [Vacant EXCEPT !.ours = b]]

\* Rewritten in place, whatever else the entry holds.
Refreshed(b, es) ==
  [es EXCEPT ![PlaceOfOurs(b, es)] = [@ EXCEPT !.ours = b]]

\* An entry goes as a whole.
Removed(b, es) == [i \in Slots |-> IF IsOurs(b, es[i].ours) THEN Vacant ELSE es[i]]

Readable(e, file) == file[e] # Odd

\* ensure_registered: repair_settings
Repaired(b, file) ==
  [e \in Events |-> IF ~Readable(e, file) THEN Odd
                    ELSE IF HasOurs(b, file[e]) THEN Refreshed(b, file[e])
                    ELSE Added(b, file[e])]

Lacking(b, file) == {e \in Events : Readable(e, file) /\ ~HasOurs(b, file[e])}
Holding(b, file) == {e \in Events : Readable(e, file) /\ HasOurs(b, file[e])}

Installed(b, file) ==
  [e \in Events |-> IF e \in Lacking(b, file) THEN Added(b, file[e]) ELSE file[e]]
Uninstalled(b, file) ==
  [e \in Events |-> IF e \in Holding(b, file) THEN Removed(b, file[e]) ELSE file[e]]

Edited(job, b, file) ==
  CASE job = "daemon"  -> Repaired(b, file)
    [] job = "install" -> Installed(b, file)
    [] OTHER           -> Uninstalled(b, file)

-----------------------------------------------------------------------------
(* The processes *)

\* A daemon that cannot read an event writes the file at every start: only Unchanged is
\* taken for nothing to do.
Unchanged(b, file) ==
  Repaired(b, file) = file /\ \A e \in Events : Readable(e, file)

\* What was read is kept until it is written or given up.
Goes(p, to) ==
  proc' = [proc EXCEPT ![p] =
    IF to = "away" THEN Away
    ELSE [at |-> to, job |-> @.job, seen |-> IF to = "write" THEN @.seen ELSE Empty]]

Loads(p, job, to) ==
  /\ proc[p].at = "away"
  /\ proc' = [proc EXCEPT ![p] =
       [at |-> to, job |-> job, seen |-> IF to = "verbs" THEN Empty ELSE settings]]
  /\ UNCHANGED <<settings, verbs>>

\* The daemon goes on to .claude.json whatever comes of the settings.
DaemonLoads(p) ==
  Loads(p, "daemon", IF settings = Unreadable \/ Unchanged(BuildOf[p], settings)
                     THEN "verbs" ELSE "write")

InstallLoads(p) ==
  settings # Unreadable /\ Lacking(BuildOf[p], settings) # {} /\ Loads(p, "install", "ask")

\* With no hook to remove it returns before it looks at .claude.json.
UninstallLoads(p) ==
  settings # Unreadable /\ Holding(BuildOf[p], settings) # {} /\ Loads(p, "uninstall", "ask")

\* The answer at the prompt may take any time.
Confirm(p) == proc[p].at = "ask" /\ Goes(p, "write") /\ UNCHANGED <<settings, verbs>>
Decline(p) == proc[p].at = "ask" /\ Goes(p, "away") /\ UNCHANGED <<settings, verbs>>

AfterSettings(p) == IF proc[p].job = "install" THEN "away" ELSE "verbs"

WriteSettings(p) ==
  /\ proc[p].at = "write"
  /\ settings' = Edited(proc[p].job, BuildOf[p], proc[p].seen)
  /\ Goes(p, AfterSettings(p)) /\ UNCHANGED verbs

WriteFails(p) ==
  proc[p].at = "write" /\ Goes(p, AfterSettings(p)) /\ UNCHANGED <<settings, verbs>>

\* Without a backup the commands stop; ensure_registered gives up, the daemon does not.
BackupFails(p) ==
  /\ proc[p].at = "write" /\ proc[p].job # "daemon"
  /\ Goes(p, "away") /\ UNCHANGED <<settings, verbs>>

WantedServer(p) == IF proc[p].job = "daemon" THEN BuildOf[p] ELSE NoBuild

\* ensure_mcp_registered, remove_mcp_registration: nothing is done to a file they cannot
\* read or that already says what it should.
LoadVerbs(p) ==
  /\ proc[p].at = "verbs"
  /\ Goes(p, IF verbs \in {Odd, WantedServer(p)} THEN "away" ELSE "serve")
  /\ UNCHANGED <<settings, verbs>>

WriteVerbs(p) ==
  /\ proc[p].at = "serve"
  /\ verbs' = WantedServer(p) /\ Goes(p, "away") /\ UNCHANGED settings

WriteVerbsFails(p) ==
  proc[p].at = "serve" /\ Goes(p, "away") /\ UNCHANGED <<settings, verbs>>

-----------------------------------------------------------------------------
(* The operator, in an editor *)

Edits(e, es) ==
  /\ settings # Unreadable /\ Readable(e, settings)
  /\ settings' = [settings EXCEPT ![e] = es] /\ UNCHANGED <<verbs, proc>>

\* A hook of the operator's own, in an entry of its own or beside ours. One place is left
\* for ours.
AddForeign(e, i, h) ==
  /\ settings # Unreadable /\ Readable(e, settings)
  /\ \A j \in Slots : h \notin settings[e][j].theirs
  /\ \E j \in Slots \ {i} : settings[e][j].ours # NoBuild \/ settings[e][j] = Vacant
  /\ Edits(e, [settings[e] EXCEPT ![i].theirs = @ \cup {h}])

\* The matcher, the timeout or the path of ours is changed: it is not this build's now.
Respell(e, i, b) ==
  /\ settings # Unreadable /\ Readable(e, settings) /\ settings[e][i].ours # NoBuild
  /\ Edits(e, [settings[e] EXCEPT ![i].ours = b])

DropEntry(e, i) ==
  /\ settings # Unreadable /\ Readable(e, settings) /\ settings[e][i] # Vacant
  /\ Edits(e, [settings[e] EXCEPT ![i] = Vacant])

Garble(e) == Edits(e, Odd)
Break == settings' = Unreadable /\ UNCHANGED <<verbs, proc>>
StartOver == settings' = Empty /\ UNCHANGED <<verbs, proc>>
GarbleVerbs == verbs' = Odd /\ UNCHANGED <<settings, proc>>

HookInit ==
  /\ settings = Empty /\ verbs = NoBuild
  /\ proc = [p \in Writers |-> Away]

HookNext ==
  \/ \E p \in Writers :
       \/ DaemonLoads(p) \/ InstallLoads(p) \/ UninstallLoads(p)
       \/ Confirm(p) \/ Decline(p)
       \/ WriteSettings(p) \/ WriteFails(p) \/ BackupFails(p)
       \/ LoadVerbs(p) \/ WriteVerbs(p) \/ WriteVerbsFails(p)
  \/ \E e \in Events, i \in Slots :
       \/ \E h \in Foreign : AddForeign(e, i, h)
       \/ \E b \in Builds : Respell(e, i, b)
       \/ DropEntry(e, i)
  \/ \E e \in Events : Garble(e)
  \/ Break \/ StartOver \/ GarbleVerbs

HookSpec == HookInit /\ [][HookNext]_hookVars

-----------------------------------------------------------------------------
(* Properties *)

HookTypeOK ==
  /\ settings \in SettingsFiles \cup {Unreadable}
  /\ verbs \in Builds \cup {NoBuild, Odd}
  /\ proc \in [Writers -> [at : {"away", "ask", "write", "verbs", "serve"},
                         job : {"daemon", "install", "uninstall"}, seen : SettingsFiles]]

OneIn(file) ==
  \A e \in Events : Readable(e, file) =>
    \A i, j \in Slots :
      file[e][i].ours # NoBuild /\ file[e][j].ours # NoBuild => i = j

\* No event ever holds two registrations of ours, whichever builds start, install and
\* uninstall in whatever order on copies as old as they like: "a second entry would
\* double-gate every tool call" (the test repair_repoints_an_entry_left_by_an_earlier_install).
OneOfOurs == settings # Unreadable => OneIn(settings)

Theirs(file) ==
  [e \in Events |-> IF Readable(e, file) THEN UNION {file[e][i].theirs : i \in Slots} ELSE {}]

Rewrites(p, jobs) == WriteSettings(p) /\ proc[p].job \in jobs /\ settings = proc[p].seen

\* A daemon that starts and an install that finishes leave every hook of the operator where
\* it is, unless the file was changed behind their back
\* (the test repair_leaves_foreign_hooks_alone).
RepairSparesForeign ==
  [][\A p \in Writers :
       Rewrites(p, {"daemon", "install"}) => Theirs(settings') = Theirs(settings)]_hookVars
=============================================================================
