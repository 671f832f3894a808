------------------------------- MODULE Detection -------------------------------
(***************************************************************************)
(* Detection of one conversation (crates/detection: lib.rs, jsonl.rs,      *)
(* antigravity.rs), what the supervisor makes of it and what the desktop   *)
(* shows of both. An agent appends lines to a transcript; every poll lists *)
(* the transcripts written lately, reads the new lines of this one, judges *)
(* it by its last turn and its age, and hands the events to the supervisor *)
(* in order. Polls and commands take turns in one task; the transcript is  *)
(* written at any moment. What the desktop folds is folded as it is        *)
(* published: nothing flows back, so a delay only delays what is shown.    *)
(***************************************************************************)
EXTENDS Naturals, Sequences

CONSTANTS
  Backends,            \* of {"claude", "agy"}: which transcripts, and which source
  Kinds,               \* the kinds of line the agent writes
  Absent,              \* no entry, no row
  None,                \* Option::None
  Mishaps,             \* of {"rewrite", "failure", "report", "restart", "hold", "resume",
                       \* "forget"}: what may happen
  MaxLines, MaxMishaps,   \* bounds of the run
  OperatorMoves        \* whether the operator moves phases

Turns == {"user", "tool", "assistant", "stop", "error"}
Modes == {"plan", "auto"}
Names == {"ai", "named", "request"}
Lines == Turns \cup Modes \cup Names \cup {"noise"}

\* The ages of a transcript the code tells apart, by where each begins: the working
\* window (20 s), the done window (120 s), the stall window (180 s) and the active
\* window (6 h), each far longer than the 750 ms between polls.
Quiet == 1
Settled == 2
Silent == 3
Gone == 4
Ages == 0 .. Gone

\* What a source may remember of a transcript.
FileState ==
  [offset : Nat, title : Names \cup {None}, custom : BOOLEAN, phase : Modes \cup {None},
   status : {"Errored", "Running", "WaitingInput", "Idle", None},
   turn : Turns \cup {None}, missed : Nat, alerted : BOOLEAN, stopped : BOOLEAN]

ASSUME DetectionAssumption ==
  /\ Backends \subseteq {"claude", "agy"} /\ Kinds \subseteq Lines
  /\ None \notin Lines \cup {"Incomplete", "Stuck"} /\ Absent \notin FileState
  /\ OperatorMoves \in BOOLEAN
  /\ MaxLines \in Nat /\ MaxMishaps \in Nat

VARIABLES
  backend,     \* whose conversation it is
  log,         \* the complete lines of the transcript
  partial,     \* a line is being written after them
  age,         \* how long ago it was written
  entry,       \* FileState: what the source remembers of it, or Absent
  poll,        \* where the poll is: "idle", "read" or "lines"
  listed,      \* the age the listing of this poll saw
  tail,        \* lines read and not yet parsed
  todo,        \* events of the poll the supervisor has not handled
  row,         \* the fleet's session, or Absent
  grid,        \* FleetModel: the tile of the session and its alert
  rewritten,   \* the file was replaced and no poll has noticed
  heard,       \* how many lines of this transcript any poll has ever read
  mishaps,     \* how many there were
  outside      \* history: what others than detection moved and it has not told anew, of
               \* {"tile", "status", "entry"}

fileVars  == <<log, partial, age, rewritten>>
pollVars  == <<entry, poll, listed, tail, heard>>
shownVars == <<row, grid>>
vars == <<backend, fileVars, pollVars, todo, shownVars, mishaps, outside>>

Mishap(m) == m \in Mishaps /\ mishaps < MaxMishaps /\ mishaps' = mishaps + 1

-----------------------------------------------------------------------------
(* The transcript: the agent's file *)

AtRest == poll = "idle" /\ todo = <<>>

\* The agent writes at any moment. A write while lines are parsed or events are handled,
\* neither of which looks at the file, is one made right after it.
FileMatters == IF poll = "lines" THEN tail = <<>> ELSE poll = "read" \/ todo = <<>>

\* Each append makes the file young again; a line becomes complete with its newline.
Write(l) ==
  /\ FileMatters /\ Len(log) < MaxLines
  /\ log' = Append(log, l) /\ partial' = FALSE /\ age' = 0
  /\ UNCHANGED <<backend, rewritten, pollVars, todo, shownVars, mishaps, outside>>

BeginLine ==
  /\ FileMatters /\ Len(log) < MaxLines
  /\ partial' = TRUE /\ age' = 0
  /\ UNCHANGED <<backend, log, rewritten, pollVars, todo, shownVars, mishaps, outside>>

\* The file is replaced by a shorter one.
Rewrite(l) ==
  /\ FileMatters /\ Mishap("rewrite")
  /\ log' = <<l>> /\ partial' = FALSE /\ age' = 0 /\ heard' = 0
  /\ rewritten' = (rewritten \/ (entry # Absent /\ entry.offset > 0))
  /\ UNCHANGED <<backend, entry, poll, listed, tail, todo, shownVars, outside>>

\* Time between polls: a boundary crossed during a poll is one crossed before it, unless
\* the file was written during the poll, and then it is young.
Ageing ==
  /\ age < Gone /\ AtRest
  /\ age' = age + 1
  /\ UNCHANGED <<backend, log, partial, rewritten, pollVars, todo, shownVars,
                 mishaps, outside>>

FileLen == Len(log) + (IF partial THEN 1 ELSE 0)

-----------------------------------------------------------------------------
(* The poll *)

FreshEntry ==
  [offset |-> 0, title |-> None, custom |-> FALSE, phase |-> None, status |-> None,
   turn |-> None, missed |-> 0, alerted |-> FALSE, stopped |-> FALSE]

DiscoveredEvent  == [kind |-> "Discovered"]
EndedEvent       == [kind |-> "Ended"]
StatusEvent(st)  == [kind |-> "StatusChanged", status |-> st]
AlertEvent(a)    == [kind |-> "Alert", alert |-> a]
TitleEvent(t)    == [kind |-> "TitleObserved", title |-> t]
\* `at`, the line it was read from, is there for ReplayMovesNoPhase alone.
PhaseEvent(m, n) == [kind |-> "PhaseObserved", phase |-> m, at |-> n]

Larger(a, b) == IF a > b THEN a ELSE b

\* How far the transcript has ever been read.
HeardBy(e) == IF e # Absent /\ ~rewritten THEN Larger(heard, e.offset) ELSE heard

\* recent_transcripts: a file in the active window is read.
PollLists ==
  /\ AtRest /\ FileLen > 0 /\ age < Gone
  /\ poll' = "read" /\ listed' = age /\ heard' = HeardBy(entry)
  /\ UNCHANGED <<backend, fileVars, entry, tail, todo, shownVars, mishaps, outside>>

StaleMisses == 3

\* A file out of it is missed, and after three misses forgotten.
PollMisses ==
  /\ AtRest /\ age = Gone /\ entry # Absent
  /\ heard' = HeardBy(entry)
  /\ \/ /\ entry.missed + 1 < StaleMisses
        /\ entry' = [entry EXCEPT !.missed = @ + 1]
        /\ UNCHANGED <<todo, rewritten>>
     \/ /\ entry.missed + 1 >= StaleMisses
        /\ entry' = Absent /\ todo' = <<EndedEvent>> /\ rewritten' = FALSE
  /\ UNCHANGED <<backend, log, partial, age, poll, listed, tail,
                 shownVars, mishaps, outside>>

\* or_default, and a reset when the file is shorter than what was read of it.
EntryFor(rotated) == IF entry = Absent \/ rotated THEN FreshEntry ELSE entry

\* Mutant: a line being written counts as read.
ConsumedAll == FileLen

\* The offset moves past the last newline and no further.
Consumed == Len(log)

\* read_tail: the bytes after the offset are taken as they are now.
PollReads ==
  LET rotated == entry # Absent /\ FileLen < entry.offset
      e == EntryFor(rotated)
  IN /\ poll = "read"
     /\ tail' = SubSeq(log, e.offset + 1, Len(log))
     /\ entry' = [e EXCEPT !.missed = 0, !.offset = Consumed]
     /\ todo' = IF entry = Absent \/ rotated THEN <<DiscoveredEvent>> ELSE <<>>
     /\ rewritten' = (rewritten /\ ~rotated)
     /\ poll' = "lines"
     /\ UNCHANGED <<backend, log, partial, age, listed, heard, shownVars,
                    mishaps, outside>>

\* A file that cannot be read now is left for the next poll.
PollFails ==
  /\ poll = "read" /\ Mishap("failure")
  /\ poll' = "idle" /\ listed' = 0
  /\ UNCHANGED <<backend, fileVars, entry, tail, heard, todo, shownVars, outside>>

\* parse_line, and what the entry keeps of its signals.
HeardClaude(e, l) ==
  CASE l \in Turns -> [e EXCEPT !.turn = l, !.stopped = @ \/ l = "stop"]
    [] l \in Modes -> [e EXCEPT !.phase = l]
    [] l = "named" -> [e EXCEPT !.title = l, !.custom = TRUE]
    [] l = "ai" /\ ~e.custom -> [e EXCEPT !.title = l]
    [] OTHER -> e

\* turn_for_agy_line and title_for_agy_line: the first request is the title.
HeardAgy(e, l) ==
  CASE l = "user" -> [e EXCEPT !.turn = l, !.title = "request"]
    [] l = "assistant" -> [e EXCEPT !.turn = l]
    [] OTHER -> e

HeardLine(e, l) == IF backend = "claude" THEN HeardClaude(e, l) ELSE HeardAgy(e, l)

\* A signal becomes an event when it changes what the entry holds.
ToldOf(e, e2, n) ==
  (IF e2.title # e.title THEN <<TitleEvent(e2.title)>> ELSE <<>>)
    \o (IF e2.phase # e.phase THEN <<PhaseEvent(e2.phase, n)>> ELSE <<>>)

PollParses ==
  LET e == HeardLine(entry, Head(tail))
      n == entry.offset - Len(tail) + 1
  IN /\ poll = "lines" /\ tail # <<>>
     /\ entry' = e /\ tail' = Tail(tail)
     /\ todo' = todo \o ToldOf(entry, e, n)
     /\ UNCHANGED <<backend, fileVars, poll, listed, heard, shownVars, mishaps, outside>>

\* status_for
StatusFor(turn, a) ==
  CASE turn = "error" -> "Errored"
    [] turn # "error" /\ a < Quiet -> "Running"
    [] turn \in {"user", "tool"} /\ a >= Quiet -> "Running"
    [] turn \in {"assistant", "stop"} /\ a >= Quiet /\ a < Settled -> "WaitingInput"
    [] OTHER -> "Idle"

\* A turn that should not stay last: a prompt, where no stop hook says otherwise, and a
\* reply without its stop, where one runs.
Interruptible(e) ==
  \/ e.turn = "user" /\ ~e.stopped
  \/ e.turn = "assistant" /\ e.stopped /\ backend = "claude"

\* Mutant: the age is the one the listing saw.
JudgedAgeListed == listed

\* file_age, read after the lines were.
JudgedAge == age

\* Mutant: the stall is raised before the status that would clear it.
VerdictAlertFirst(e, stalled, status) ==
  (IF stalled # e.alerted THEN <<AlertEvent(IF stalled THEN "Incomplete" ELSE None)>>
   ELSE <<>>)
    \o (IF e.status # status THEN <<StatusEvent(status)>> ELSE <<>>)

Verdict(e, stalled, status) ==
  (IF e.status # status THEN <<StatusEvent(status)>> ELSE <<>>)
    \o (IF stalled # e.alerted
        THEN <<AlertEvent(IF stalled THEN "Incomplete" ELSE None)>> ELSE <<>>)

\* What a verdict tells anew: a stall, to a tile that is as its session is, and a status.
Retold(e, stalled, status) ==
  {o \in outside :
     /\ o = "tile" => ~(stalled /\ ~e.alerted /\ row # Absent /\ grid.shown
                          /\ grid.status = row.status)
     /\ o = "status" => e.status = status}

\* Mutant: nothing new to read, nothing to judge.
PollJudgesNews ==
  LET stalled == Interruptible(entry) /\ JudgedAge >= Silent
      status  == StatusFor(entry.turn, JudgedAge)
      news    == heard < entry.offset \/ todo # <<>>
  IN /\ poll = "lines" /\ tail = <<>>
     /\ entry' = IF news THEN [entry EXCEPT !.status = status, !.alerted = stalled] ELSE entry
     /\ todo' = todo \o (IF news THEN Verdict(entry, stalled, status) ELSE <<>>)
     /\ outside' = IF news THEN Retold(entry, stalled, status) ELSE outside
     /\ poll' = "idle" /\ listed' = 0
     /\ UNCHANGED <<backend, fileVars, tail, heard, shownVars, mishaps>>

\* With or without new lines.
PollJudges ==
  LET stalled == Interruptible(entry) /\ JudgedAge >= Silent
      status  == StatusFor(entry.turn, JudgedAge)
  IN /\ poll = "lines" /\ tail = <<>>
     /\ entry' = [entry EXCEPT !.status = status, !.alerted = stalled]
     /\ todo' = todo \o Verdict(entry, stalled, status)
     /\ outside' = Retold(entry, stalled, status)
     /\ poll' = "idle" /\ listed' = 0
     /\ UNCHANGED <<backend, fileVars, tail, heard, shownVars, mishaps>>

-----------------------------------------------------------------------------
(* The supervisor and the folds of the desktop *)

Upserted(r)     == [kind |-> "SessionUpserted", row |-> r]
StateChanged(s) == [kind |-> "SessionStateChanged", status |-> s]
Alerted(a)      == [kind |-> "SessionAlert", alert |-> a]
Removed         == [kind |-> "SessionRemoved"]
Thin            == [kind |-> "PhaseTransitioned"]

NoTile == [shown |-> FALSE, status |-> "Idle", alert |-> None]

\* clear_alert_if_working: on the transition into Running.
Cleared(g, status) ==
  IF status = "Running" /\ ~(g.shown /\ g.status = "Running") THEN None ELSE g.alert

\* FleetModel::apply_event
OnGrid(g, f) ==
  CASE f.kind = "SessionUpserted" ->
         [shown |-> TRUE, status |-> f.row.status, alert |-> Cleared(g, f.row.status)]
    [] f.kind = "SessionStateChanged" ->
         [g EXCEPT !.status = IF g.shown THEN f.status ELSE @, !.alert = Cleared(g, f.status)]
    [] f.kind = "SessionRemoved" -> NoTile
    [] f.kind = "SessionAlert" -> [g EXCEPT !.alert = f.alert]
    [] OTHER -> g

Publish(f) == grid' = OnGrid(grid, f)

Governed == row # Absent /\ row.adopted
Movable  == row # Absent /\ ~row.pinned

Amended(r) == row' = r /\ Publish(Upserted(r))

DiscoveredRow ==
  [adopted |-> FALSE, phase |-> "Plan", pinned |-> FALSE, status |-> "Idle", title |-> None]

Discovered ==
  \/ row = Absent /\ Amended(DiscoveredRow)
  \/ row # Absent /\ UNCHANGED shownVars

StatusChanged(status) ==
  \/ row # Absent /\ row' = [row EXCEPT !.status = status] /\ Publish(StateChanged(status))
  \/ row = Absent /\ UNCHANGED shownVars

TitleObserved(title) ==
  \/ row # Absent /\ Amended([row EXCEPT !.title = title])
  \/ row = Absent /\ UNCHANGED shownVars

\* Only plan mode says something, and not to a pinned phase.
PhaseObserved(mode) ==
  \/ Movable /\ mode = "plan" /\ row' = [row EXCEPT !.phase = "Plan"] /\ Publish(Thin)
  \/ ~(Movable /\ mode = "plan") /\ UNCHANGED shownVars

\* An adopted session rests; another leaves the fleet, told as a change of status.
Ended ==
  \/ row = Absent /\ UNCHANGED shownVars
  \/ Governed /\ Amended([row EXCEPT !.status = "Idle"])
  \/ row # Absent /\ ~Governed /\ row' = Absent /\ Publish(StateChanged("Idle"))

\* on_detection, for the next event of the poll.
Handle ==
  LET ev == Head(todo) IN
  /\ poll = "idle" /\ todo # <<>>
  /\ todo' = Tail(todo)
  /\ \/ ev.kind = "Discovered" /\ Discovered
     \/ ev.kind = "StatusChanged" /\ StatusChanged(ev.status)
     \/ ev.kind = "TitleObserved" /\ TitleObserved(ev.title)
     \/ ev.kind = "PhaseObserved" /\ PhaseObserved(ev.phase)
     \/ ev.kind = "Ended" /\ Ended
     \/ ev.kind = "Alert" /\ UNCHANGED row /\ Publish(Alerted(ev.alert))
  /\ outside' = IF row = Absent /\ row' # Absent THEN outside \ {"entry"} ELSE outside
  /\ UNCHANGED <<backend, fileVars, pollVars, mishaps>>

\* report_blocked: the agent says it is stuck.
ReportBlocked ==
  /\ AtRest /\ Mishap("report")
  /\ UNCHANGED row /\ Publish(Alerted("Stuck"))
  /\ UNCHANGED <<backend, fileVars, pollVars, todo, outside>>

\* approval_requested and route_approval, on the gate's threads: a call of the session is
\* held, or its hold is resolved. The tile is told; the supervisor is not.
Told(status) ==
  /\ Mishap("hold")
  /\ UNCHANGED row /\ Publish(StateChanged(status))
  /\ outside' = outside \cup {"tile"}
  /\ UNCHANGED <<backend, fileVars, pollVars, todo>>

\* approve_action with nothing held, where the control port resumes (external: those the
\* program is built with answer that they cannot, and nothing changes).
Resumed ==
  /\ AtRest /\ Mishap("resume")
  /\ row' = IF row = Absent THEN Absent ELSE [row EXCEPT !.status = "Running"]
  /\ Publish(StateChanged("Running"))
  /\ outside' = outside \cup {"tile", "status"}
  /\ UNCHANGED <<backend, fileVars, pollVars, todo>>

\* forget_session: the row, its record and its tile go. What the source remembers of the
\* transcript stays.
Forget ==
  /\ AtRest /\ Mishap("forget")
  /\ row' = Absent /\ Publish(Removed)
  /\ outside' = outside \cup {"tile", "entry"}
  /\ UNCHANGED <<backend, fileVars, pollVars, todo>>

Command(r) ==
  /\ AtRest /\ row # Absent /\ r # row
  /\ Amended(r)
  /\ UNCHANGED <<backend, fileVars, pollVars, todo, mishaps, outside>>

Adopt == row # Absent /\ Command([row EXCEPT !.adopted = TRUE])

\* approve_plan moves an unpinned session on; a pick pins.
OperatorMovesPhase ==
  /\ OperatorMoves /\ row # Absent
  /\ \/ row.phase = "Plan" /\ ~row.pinned /\ Command([row EXCEPT !.phase = "AutoImplement"])
     \/ Command([row EXCEPT !.phase = "AutoImplement", !.pinned = TRUE])
     \/ Command([row EXCEPT !.pinned = FALSE])

\* The process starts again: an adopted session comes back from its row, at rest.
Restart ==
  /\ Mishap("restart")
  /\ heard' = HeardBy(entry)
  /\ entry' = Absent /\ poll' = "idle" /\ listed' = 0 /\ tail' = <<>> /\ todo' = <<>>
  /\ rewritten' = FALSE /\ outside' = {}
  /\ \/ /\ Governed
        /\ row' = [row EXCEPT !.status = "Idle"]
        /\ grid' = OnGrid(NoTile, Upserted(row'))
     \/ ~Governed /\ row' = Absent /\ grid' = NoTile
  /\ UNCHANGED <<backend, log, partial, age>>

-----------------------------------------------------------------------------
(* The specification *)

Init ==
  /\ backend \in Backends
  /\ log = <<>> /\ partial = FALSE /\ age = 0 /\ rewritten = FALSE /\ heard = 0
  /\ entry = Absent /\ poll = "idle" /\ listed = 0 /\ tail = <<>> /\ todo = <<>>
  /\ row = Absent /\ grid = NoTile
  /\ mishaps = 0 /\ outside = {}

\* What an agent of this backend writes.
Written == IF backend = "claude" THEN Kinds ELSE Kinds \cap {"user", "assistant", "noise"}

PollGoesOn == PollLists \/ PollMisses \/ PollReads \/ PollParses \/ PollJudges

Next ==
  \/ \E l \in Written : Write(l) \/ Rewrite(l)
  \/ BeginLine \/ Ageing
  \/ PollGoesOn \/ PollFails
  \/ Handle
  \/ ReportBlocked \/ Adopt \/ OperatorMovesPhase
  \/ \E status \in {"WaitingInput", "Running"} : Told(status)
  \/ Resumed \/ Forget
  \/ Restart

\* The loop polls for ever and hands on what a poll found before the next one.
Spec == Init /\ [][Next]_vars /\ WF_vars(PollGoesOn) /\ WF_vars(Handle)
-----------------------------------------------------------------------------
(* Properties *)

\* The last line of `lines` among `kinds`, or None.
LastOf(lines, kinds) ==
  LET at == {i \in DOMAIN lines : lines[i] \in kinds}
  IN IF at = {} THEN None ELSE lines[CHOOSE i \in at : \A j \in at : j <= i]

Has(lines, kind) == \E i \in DOMAIN lines : lines[i] = kind

TitleOf(lines) ==
  IF backend = "agy" THEN (IF Has(lines, "user") THEN "request" ELSE None)
  ELSE IF Has(lines, "named") THEN "named" ELSE LastOf(lines, {"ai"})

\* What has been parsed: all that was read but the tail.
Parsed == SubSeq(log, 1, entry.offset - Len(tail))

\* What the source holds of a transcript is what the lines it has read say, however they
\* were cut into polls, whatever was half written, and after a rotation it noticed: no line
\* is skipped and none is read into the wrong state.
TailIsTheTranscript ==
  entry # Absent /\ ~rewritten =>
    /\ entry.offset - Len(tail) \in 0 .. Len(log)
    /\ entry.turn = LastOf(Parsed, Turns)
    /\ entry.phase = LastOf(Parsed, Modes)
    /\ entry.stopped = Has(Parsed, "stop")
    /\ entry.title = TitleOf(Parsed)

\* A stall the source holds as raised is on the tile: nothing detection told with it or
\* after it took the overlay down, and no command, report or restart either. Others do: a
\* hold that is announced or resolved, a resume and a forgotten session take down an overlay
\* the source holds as raised and raises no second time, the agent still silent. From there
\* on this says nothing until a stall is raised on a tile that is as its session is.
StallIsShown ==
  AtRest /\ entry # Absent /\ entry.alerted /\ "tile" \notin outside => grid.alert # None

Unanswered ==
  \/ LastOf(log, Turns) = "user" /\ ~Has(log, "stop")
  \/ LastOf(log, Turns) = "assistant" /\ Has(log, "stop")

Raises == entry # Absent /\ entry'# Absent /\ ~entry.alerted /\ entry'.alerted

\* A stall is only raised on a conversation that, at that moment, has been silent for the
\* whole window after a turn that should not stay last: not on a prompt read just as the
\* agent answered, nor on one a session with a stop hook is thinking about.
StallIsReal == [][Raises /\ ~rewritten => age >= Silent /\ Unanswered]_vars

Says(a) ==
  /\ row # Absent
  /\ row.status = StatusFor(LastOf(log, Turns), a)
  /\ TitleOf(log) # None => row.title = TitleOf(log)

\* A transcript left alone, neither written nor crossing another boundary of age, ends up
\* told as it is: the session is in the fleet, with the status its last turn and its age
\* mean, and the operator's name if it has one. The fleet settles though lines came in
\* halves, a read failed, the session was ended and found again, the process restarted, or
\* holds told the tile other things. A session the operator forgot is not found again while
\* the source remembers its transcript, and the status a resume gave it stands until the
\* source has another to tell.
FleetTellsTheTranscript ==
  <>[][FALSE]_<<log, age>> =>
    <>[](log # <<>> /\ age < Gone /\ ~rewritten /\ outside \subseteq {"tile"} => Says(age))

ByReplay ==
  Handle /\ row # Absent /\ row' # Absent /\ row'.phase # row.phase => Head(todo).at > heard

\* "The one signal left is the operator shift-tabbing a live session into CC's own plan mode"
\* (supervisor.rs, PhaseObserved): a phase moves for a line nobody had read before.
ReplayMovesNoPhase == [][ByReplay]_vars

=============================================================================
