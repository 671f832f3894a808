---------------------------- MODULE DetectionProofs ----------------------------
(***************************************************************************)
(* Proofs about detection: what a source holds of a transcript is what the *)
(* lines it has parsed say, a stall is raised only on a silence, and a     *)
(* stall the source holds as raised is on the tile once all is handled.    *)
(* The log only grows, but for a replacement, which either is noticed or   *)
(* leaves `rewritten` set: what the first lines say is said for good.      *)
(***************************************************************************)
EXTENDS Detection, SequenceTheorems, TLAPS

-----------------------------------------------------------------------------
(* What the first lines of a transcript say *)

\* v is the last of the first n lines among some kinds, or None.
IsLast(v, kinds, lines, n) ==
  \/ v = None /\ \A i \in 1..n : lines[i] \notin kinds
  \/ \E i \in 1..n : /\ lines[i] = v /\ v \in kinds
                     /\ \A j \in 1..n : lines[j] \in kinds => j <= i

HasUpTo(kind, lines, n) == \E i \in 1..n : lines[i] = kind

TitleSays(e, lines, n) ==
  IF backend = "agy" THEN e.title = IF HasUpTo("user", lines, n) THEN "request" ELSE None
  ELSE /\ e.custom <=> HasUpTo("named", lines, n)
       /\ e.custom => e.title = "named"
       /\ ~e.custom => IsLast(e.title, {"ai"}, lines, n)

\* An entry says what the first n lines say.
EntrySays(e, lines, n) ==
  /\ IsLast(e.turn, Turns, lines, n) /\ IsLast(e.phase, Modes, lines, n)
  /\ e.stopped <=> HasUpTo("stop", lines, n)
  /\ TitleSays(e, lines, n)

\* It says what was parsed of the log, and what was read and not parsed is what follows.
ReadSays(e, rest, lines) ==
  /\ Len(rest) <= e.offset /\ e.offset <= Len(lines)
  /\ \A i \in 1..Len(rest) : rest[i] = lines[(e.offset - Len(rest)) + i]
  /\ EntrySays(e, lines, e.offset - Len(rest))

\* What is in flight is of its type, and is there only where the poll is that far.
DetTyped ==
  /\ backend \in {"claude", "agy"} /\ age \in Nat
  /\ log \in Seq(Written) /\ tail \in Seq(Written)
  /\ entry # Absent => entry \in FileState
  /\ poll # "lines" => tail = <<>>
  /\ poll = "lines" => entry # Absent

\* While a poll is at work on a transcript that is not young, it has read all of it.
SourceSays ==
  /\ entry # Absent /\ ~rewritten => ReadSays(entry, tail, log)
  /\ poll = "lines" /\ age # 0 /\ ~rewritten => entry.offset = Len(log)

SourceInv == DetTyped /\ SourceSays

-----------------------------------------------------------------------------
(* The stall on its way to the tile *)

Statuses == {"Errored", "Running", "WaitingInput", "Idle"}

Events ==
  {DiscoveredEvent, EndedEvent} \cup {StatusEvent(st) : st \in Statuses}
    \cup {AlertEvent(a) : a \in {"Incomplete", None}}
    \cup {TitleEvent(t) : t \in Names \cup {None}}
    \cup {PhaseEvent(m, n) : m \in Modes \cup {None}, n \in Int}

\* Whatever handles it, the overlay of a tile in step stays.
Harmless(ev) ==
  \/ ev.kind \in {"TitleObserved", "PhaseObserved"}
  \/ ev.kind = "StatusChanged" /\ ev.status # "Running"

\* What the supervisor and the tile may hold.
Rows ==
  [adopted : BOOLEAN, phase : {"Plan", "AutoImplement"}, pinned : BOOLEAN,
   status : Statuses, title : Names \cup {None}]

Tiles == [shown : BOOLEAN, status : Statuses, alert : {"Incomplete", "Stuck", None}]

ShownTyped == todo \in Seq(Events) /\ (row # Absent => row \in Rows) /\ grid \in Tiles

\* The tile has the status of the session.
InStep == row # Absent => grid.shown /\ grid.status = row.status

\* A raised stall is last in the queue, or on the tile with nothing to take it down.
RaisedIsComing ==
  \/ todo # <<>> /\ poll = "idle" /\ todo[Len(todo)] = AlertEvent("Incomplete")
  \/ grid.alert # None /\ \A i \in 1..Len(todo) : Harmless(todo[i])

\* The status a stall was raised with is cleared of it by no other stall.
RaisedWith ==
  /\ entry.status \in {"Running", "Idle"}
  /\ entry.status = "Idle" => entry.stopped

StallInv ==
  /\ ShownTyped
  /\ poll = "read" => todo = <<>>
  /\ entry # Absent /\ entry.alerted => RaisedWith
  /\ "tile" \notin outside =>
       InStep /\ (entry # Absent /\ entry.alerted => RaisedIsComing)

-----------------------------------------------------------------------------
(* What one more line says *)

\* The last among kinds, one line further.
LEMMA LastGrows ==
  ASSUME NEW v, NEW kinds, NEW lines, NEW n \in Nat, IsLast(v, kinds, lines, n)
  PROVE  IsLast(IF lines[n + 1] \in kinds THEN lines[n + 1] ELSE v, kinds, lines, n + 1)
<1> DEFINE m == n + 1
<1>1. \A i \in 1..m : i \in 1..n \/ i = m
  OBVIOUS
<1>2. m \in 1..m /\ (\A i \in 1..m : i <= m) /\ \A i \in 1..n : i \in 1..m
  OBVIOUS
<1> HIDE DEF m
<1>3. CASE lines[m] \in kinds
  <2>1. IsLast(lines[m], kinds, lines, m)
    BY <1>2, <1>3 DEF IsLast
  <2>2. QED
    BY <1>3, <2>1 DEF m
<1>4. CASE lines[m] \notin kinds
  <2>1. CASE v = None /\ \A i \in 1..n : lines[i] \notin kinds
    <3>1. \A i \in 1..m : lines[i] \notin kinds
      BY <1>1, <1>4, <2>1
    <3>2. IsLast(v, kinds, lines, m)
      BY <2>1, <3>1 DEF IsLast
    <3>3. QED
      BY <1>4, <3>2 DEF m
  <2>2. ASSUME NEW i \in 1..n, lines[i] = v, v \in kinds,
               \A j \in 1..n : lines[j] \in kinds => j <= i
        PROVE  IsLast(v, kinds, lines, m)
    <3>1. \A j \in 1..m : lines[j] \in kinds => j <= i
      BY <1>1, <1>4, <2>2
    <3>2. i \in 1..m
      BY <1>2
    <3>3. QED
      BY <2>2, <3>1, <3>2 DEF IsLast
  <2>3. IsLast(v, kinds, lines, m)
    <3>1. CASE v = None /\ \A i \in 1..n : lines[i] \notin kinds
      <4>1. \A i \in 1..m : lines[i] \notin kinds
        BY <1>1, <1>4, <3>1
      <4>2. QED
        BY <3>1, <4>1 DEF IsLast
    <3>2. CASE \E i \in 1..n : /\ lines[i] = v /\ v \in kinds
                               /\ \A j \in 1..n : lines[j] \in kinds => j <= i
      BY <2>2, <3>2
    <3>3. QED
      BY <3>1, <3>2 DEF IsLast
  <2>4. QED
    BY <1>4, <2>3 DEF m
<1>5. QED
  BY <1>3, <1>4

\* Whether a line is there, one line further.
LEMMA HasGrows ==
  ASSUME NEW kind, NEW lines, NEW n \in Nat
  PROVE  HasUpTo(kind, lines, n + 1) <=> HasUpTo(kind, lines, n) \/ lines[n + 1] = kind
<1>1. \A i : i \in 1..(n + 1) <=> i \in 1..n \/ i = n + 1
  OBVIOUS
<1>2. QED
  BY <1>1 DEF HasUpTo

\* What an agent of either backend writes is a line.
LEMMA WrittenAreLines ==
  /\ Written \subseteq Lines
  /\ backend = "agy" => Written \subseteq {"user", "assistant", "noise"}
BY DetectionAssumption DEF Written, Lines

\* A line changes what the entry says of the lines, and nothing else of it.
LEMMA HeardTyped ==
  ASSUME NEW e \in FileState, NEW l \in Lines
  PROVE  /\ HeardLine(e, l) \in FileState /\ HeardLine(e, l).offset = e.offset
         /\ HeardLine(e, l).status = e.status /\ HeardLine(e, l).alerted = e.alerted
         /\ e.stopped => HeardLine(e, l).stopped
<1>1. CASE backend = "claude"
  <2> DEFINE cleanly == e.stopped \/ l = "stop"
  <2>1. cleanly \in BOOLEAN /\ (e.stopped => cleanly)
    OBVIOUS
  <2>2. CASE l \in Turns
    <3>1. l \notin Modes /\ l # "named" /\ l # "ai"
      BY <2>2 DEF Turns, Modes
    <3>2. HeardClaude(e, l) = [e EXCEPT !.turn = l, !.stopped = cleanly]
      BY <2>2, <3>1, Zenon DEF HeardClaude
    <3> HIDE DEF cleanly
    <3>3. QED
      BY <1>1, <2>1, <2>2, <3>2 DEF HeardLine, FileState
  <2>3. CASE l \in Modes
    <3>1. HeardClaude(e, l) = [e EXCEPT !.phase = l]
      BY <2>3 DEF HeardClaude, Turns, Modes
    <3>2. QED
      BY <1>1, <2>3, <3>1 DEF HeardLine, FileState
  <2>4. CASE l \notin Turns \cup Modes
    <3>1. HeardClaude(e, l) = [e EXCEPT !.title = "named", !.custom = TRUE]
            \/ HeardClaude(e, l) = [e EXCEPT !.title = "ai"] \/ HeardClaude(e, l) = e
      BY <2>4 DEF HeardClaude
    <3>2. QED
      BY <1>1, <3>1 DEF HeardLine, FileState, Names
  <2>5. QED
    BY <2>2, <2>3, <2>4
<1>2. CASE backend # "claude"
  BY <1>2 DEF HeardLine, HeardAgy, FileState, Lines, Turns, Modes, Names
<1>3. QED
  BY <1>1, <1>2

\* An entry that says what the first lines say says, once the next is parsed, what one more
\* of them says (lib.rs, antigravity.rs).
LEMMA HeardSays ==
  ASSUME NEW e \in FileState, NEW lines, NEW n \in Nat, EntrySays(e, lines, n),
         lines[n + 1] \in Written, backend \in {"claude", "agy"}
  PROVE  EntrySays(HeardLine(e, lines[n + 1]), lines, n + 1)
<1> DEFINE l == lines[n + 1]
<1> DEFINE d == HeardLine(e, l)
<1>1. /\ IsLast(IF l \in Turns THEN l ELSE e.turn, Turns, lines, n + 1)
      /\ IsLast(IF l \in Modes THEN l ELSE e.phase, Modes, lines, n + 1)
  BY LastGrows DEF EntrySays
<1>2. \A kind : HasUpTo(kind, lines, n + 1) <=> HasUpTo(kind, lines, n) \/ l = kind
  BY HasGrows
<1>3. IsLast(e.title, {"ai"}, lines, n) =>
        IsLast(IF l = "ai" THEN l ELSE e.title, {"ai"}, lines, n + 1)
  BY LastGrows
<1>4. CASE backend = "claude"
  <2>1. l \in Lines
    BY WrittenAreLines
  <2> HIDE DEF l
  <2>2. /\ d.turn = (IF l \in Turns THEN l ELSE e.turn)
        /\ d.phase = (IF l \in Modes THEN l ELSE e.phase)
        /\ d.stopped <=> e.stopped \/ l = "stop"
        /\ d.custom <=> e.custom \/ l = "named"
        /\ d.title = (IF l = "named" THEN "named"
                      ELSE IF l = "ai" /\ ~e.custom THEN "ai" ELSE e.title)
    BY <1>4, <2>1 DEF HeardLine, HeardClaude, FileState, Lines, Turns, Modes, Names
  <2> HIDE DEF d
  <2>3. TitleSays(d, lines, n + 1)
    BY <1>2, <1>3, <1>4, <2>2 DEF TitleSays, EntrySays
  <2>4. IsLast(d.turn, Turns, lines, n + 1) /\ IsLast(d.phase, Modes, lines, n + 1)
    BY <1>1, <2>2
  <2>5. d.stopped <=> HasUpTo("stop", lines, n + 1)
    BY <1>2, <2>2 DEF EntrySays
  <2>6. QED
    BY <2>3, <2>4, <2>5 DEF EntrySays, d, l
<1>5. CASE backend = "agy"
  <2>1. l \in {"user", "assistant", "noise"}
    BY <1>5, WrittenAreLines
  <2> HIDE DEF l
  <2>2. /\ d.turn = (IF l \in Turns THEN l ELSE e.turn)
        /\ d.phase = (IF l \in Modes THEN l ELSE e.phase)
        /\ d.stopped = e.stopped
        /\ d.title = (IF l = "user" THEN "request" ELSE e.title)
    BY <1>5, <2>1 DEF HeardLine, HeardAgy, FileState, Turns, Modes
  <2> HIDE DEF d
  <2>3. TitleSays(d, lines, n + 1)
    BY <1>2, <1>5, <2>2 DEF TitleSays, EntrySays
  <2>4. IsLast(d.turn, Turns, lines, n + 1) /\ IsLast(d.phase, Modes, lines, n + 1)
    BY <1>1, <2>2
  <2>5. d.stopped <=> HasUpTo("stop", lines, n + 1)
    BY <1>2, <2>1, <2>2 DEF EntrySays
  <2>6. QED
    BY <2>3, <2>4, <2>5 DEF EntrySays, d, l
<1>6. QED
  BY <1>4, <1>5

\* What an entry says is in what it heard.
LEMMA SaysOfFields ==
  ASSUME NEW e, NEW d, NEW lines, NEW n, EntrySays(e, lines, n),
         d.turn = e.turn, d.phase = e.phase, d.stopped = e.stopped, d.title = e.title,
         d.custom = e.custom
  PROVE  EntrySays(d, lines, n)
BY DEF EntrySays, TitleSays

\* Of a transcript nothing was read of, a fresh entry says all there is.
LEMMA FreshSays ==
  ASSUME NEW lines
  PROVE  FreshEntry \in FileState /\ EntrySays(FreshEntry, lines, 0)
<1>1. FreshEntry \in FileState
  BY DEF FreshEntry, FileState
<1>2. QED
  BY <1>1 DEF FreshEntry, EntrySays, TitleSays, IsLast, HasUpTo

\* What is said of the first lines depends on nothing after them.
LEMMA SaysOfPrefix ==
  ASSUME NEW e, NEW lines, NEW more, NEW n \in Nat, \A i \in 1..n : more[i] = lines[i],
         EntrySays(e, lines, n)
  PROVE  EntrySays(e, more, n)
<1>1. \A v, kinds : IsLast(v, kinds, lines, n) => IsLast(v, kinds, more, n)
  BY DEF IsLast
<1>2. \A kind : HasUpTo(kind, lines, n) <=> HasUpTo(kind, more, n)
  BY DEF HasUpTo
<1>3. QED
  BY <1>1, <1>2 DEF EntrySays, TitleSays

\* The backend of a conversation stays.
LEMMA SaysStays ==
  ASSUME backend' = backend, ReadSays(entry', tail', log')
  PROVE  ReadSays(entry, tail, log)'
BY DEF ReadSays, EntrySays, TitleSays, IsLast, HasUpTo

-----------------------------------------------------------------------------
(* The source says what it has read *)

\* A log that grows leaves what was said of it.
LEMMA GrownSays ==
  ASSUME DetTyped, entry # Absent, ReadSays(entry, tail, log), NEW l \in Written
  PROVE  ReadSays(entry, tail, Append(log, l))
<1> DEFINE more == Append(log, l)
<1> DEFINE n == entry.offset - Len(tail)
<1>1. /\ log \in Seq(Written) /\ tail \in Seq(Written) /\ entry.offset \in Nat
      /\ Len(tail) \in Nat /\ Len(log) \in Nat
  BY DEF DetTyped, FileState
<1>2. Len(more) = Len(log) + 1 /\ \A i \in 1..Len(log) : more[i] = log[i]
  BY <1>1
<1>3. /\ Len(tail) <= entry.offset /\ entry.offset <= Len(log) /\ n \in Nat /\ n <= Len(log)
      /\ \A i \in 1..Len(tail) : n + i \in 1..Len(log)
  BY <1>1 DEF ReadSays
<1> HIDE DEF more
<1>4. EntrySays(entry, more, n)
  <2>1. EntrySays(entry, log, n) /\ \A i \in 1..n : more[i] = log[i]
    BY <1>1, <1>2, <1>3 DEF ReadSays
  <2> HIDE DEF n
  <2>2. QED
    BY <1>3, <2>1, SaysOfPrefix
<1>5. \A i \in 1..Len(tail) : tail[i] = more[n + i]
  BY <1>2, <1>3 DEF ReadSays
<1>6. ReadSays(entry, tail, more)
  BY <1>1, <1>2, <1>3, <1>4, <1>5 DEF ReadSays
<1>7. QED
  BY <1>6 DEF more

\* The file as the agent leaves it.
LEMMA FileKeepsSource ==
  ASSUME SourceInv,
         (\E l \in Written : Write(l) \/ Rewrite(l)) \/ BeginLine \/ Ageing
  PROVE  SourceInv'
<1>1. ASSUME NEW l \in Written, Write(l) PROVE SourceInv'
  <2>1. /\ log' = Append(log, l) /\ age' = 0
        /\ UNCHANGED <<backend, rewritten, entry, poll, tail>>
    BY <1>1 DEF Write, pollVars
  <2>2. DetTyped'
    BY <2>1 DEF SourceInv, DetTyped, Written
  <2>3. ASSUME entry # Absent, ~rewritten PROVE ReadSays(entry, tail, log)'
    BY <2>1, <2>3, GrownSays, SaysStays DEF SourceInv, SourceSays
  <2>4. QED
    BY <2>1, <2>2, <2>3 DEF SourceInv, SourceSays
<1>2. ASSUME NEW l \in Written, Rewrite(l) PROVE SourceInv'
  <2>1. /\ log' = <<l>> /\ age' = 0 /\ UNCHANGED <<backend, entry, poll, tail>>
        /\ rewritten' = (rewritten \/ (entry # Absent /\ entry.offset > 0))
    BY <1>2 DEF Rewrite
  <2>2. DetTyped'
    <3>1. Written' = Written
      BY <2>1 DEF Written
    <3>2. log' \in Seq(Written) /\ age' \in Nat
      BY <2>1
    <3>3. QED
      BY <2>1, <3>1, <3>2 DEF SourceInv, DetTyped
  <2>3. ASSUME entry # Absent, ~rewritten' PROVE ReadSays(entry, tail, log)'
    <3>1. ~rewritten /\ ~(entry.offset > 0)
      BY <2>1, <2>3, Zenon
    <3>2. ~rewritten /\ entry.offset = 0 /\ ReadSays(entry, tail, log)
      BY <2>3, <3>1 DEF SourceInv, SourceSays, DetTyped, FileState
    <3>3. Len(tail) = 0 /\ tail = <<>>
      BY <3>2 DEF ReadSays, SourceInv, DetTyped
    <3>4. EntrySays(entry, log, 0)
      BY <3>2, <3>3 DEF ReadSays
    <3>5. EntrySays(entry, log', 0)
      BY <3>4, SaysOfPrefix
    <3>6. Len(log') = 1
      BY <2>1
    <3>7. ReadSays(entry', tail', log')
      BY <2>1, <3>2, <3>3, <3>5, <3>6 DEF ReadSays
    <3>8. QED
      BY <2>1, <3>7, SaysStays
  <2>4. QED
    BY <2>1, <2>2, <2>3 DEF SourceInv, SourceSays
<1>3. CASE BeginLine
  <2>1. age' = 0 /\ UNCHANGED <<backend, log, rewritten, entry, poll, tail>>
    BY <1>3 DEF BeginLine, pollVars
  <2>2. QED
    BY <2>1, SaysStays DEF SourceInv, SourceSays, DetTyped, Written
<1>4. CASE Ageing
  <2>1. /\ age' = age + 1 /\ poll = "idle"
        /\ UNCHANGED <<backend, log, rewritten, entry, poll, tail>>
    BY <1>4 DEF Ageing, AtRest, pollVars
  <2>2. QED
    BY <2>1, SaysStays DEF SourceInv, SourceSays, DetTyped, Written
<1>5. QED
  BY <1>1, <1>2, <1>3, <1>4

\* What the poll reads follows what it had parsed, or is all there is of a new file.
LEMMA ReadingKeepsSource == ASSUME SourceInv, PollReads PROVE SourceInv'
<1> DEFINE rotated == entry # Absent /\ FileLen < entry.offset
<1> DEFINE e == EntryFor(rotated)
<1>1. /\ poll = "read" /\ tail = <<>> /\ backend' = backend /\ log' = log /\ age' = age
      /\ tail' = SubSeq(log, e.offset + 1, Len(log))
      /\ entry' = [e EXCEPT !.missed = 0, !.offset = Len(log)]
      /\ rewritten' = (rewritten /\ ~rotated) /\ poll' = "lines"
  BY DEF PollReads, Consumed, SourceInv, DetTyped
<1>2. e \in FileState /\ e = (IF entry = Absent \/ rotated THEN FreshEntry ELSE entry)
  BY FreshSays DEF EntryFor, SourceInv, DetTyped
<1>3. log \in Seq(Written) /\ Len(log) \in Nat
  BY DEF SourceInv, DetTyped
<1> HIDE DEF rotated, e
<1>4. /\ entry' \in FileState /\ entry'.offset = Len(log) /\ entry' # Absent
      /\ entry'.turn = e.turn /\ entry'.phase = e.phase /\ entry'.stopped = e.stopped
      /\ entry'.title = e.title /\ entry'.custom = e.custom /\ e.offset \in Nat
  <2>1. /\ entry'.turn = e.turn /\ entry'.phase = e.phase /\ entry'.stopped = e.stopped
        /\ entry'.title = e.title /\ entry'.custom = e.custom /\ e.offset \in Nat
        /\ entry'.offset = Len(log)
    BY <1>1, <1>2 DEF FileState
  <2>2. entry' \in FileState
    BY <1>1, <1>2, <1>3 DEF FileState
  <2>3. QED
    BY <2>1, <2>2, DetectionAssumption
<1>5. /\ tail' \in Seq(Written)
      /\ Len(tail') = IF e.offset + 1 <= Len(log) THEN Len(log) - e.offset ELSE 0
      /\ \A i \in 1..Len(tail') : tail'[i] = log[e.offset + i]
  <2> DEFINE m == e.offset + 1
  <2>1. m \in Int /\ Len(log) \in Int /\ \A i \in m .. Len(log) : log[i] \in Written
    BY <1>3, <1>4
  <2>2. /\ SubSeq(log, m, Len(log)) \in Seq(Written)
        /\ Len(SubSeq(log, m, Len(log))) = (IF m <= Len(log) THEN Len(log) - m + 1 ELSE 0)
        /\ \A i \in 1 .. Len(log) - m + 1 : SubSeq(log, m, Len(log))[i] = log[m + i - 1]
    BY <2>1, SubSeqProperties
  <2>3. \A i \in 1 .. Len(log) - m + 1 : m + i - 1 = e.offset + i
    BY <1>3, <1>4
  <2>4. /\ Len(tail') = IF e.offset + 1 <= Len(log) THEN Len(log) - e.offset ELSE 0
        /\ 1..Len(tail') = 1 .. Len(log) - m + 1
    BY <1>1, <1>3, <1>4, <2>2
  <2>5. QED
    BY <1>1, <2>2, <2>3, <2>4
<1>6. DetTyped'
  <2>1. Written' = Written
    BY <1>1 DEF Written
  <2>2. QED
    BY <1>1, <1>3, <1>4, <1>5, <2>1 DEF DetTyped, SourceInv
<1>7. ASSUME ~rewritten' PROVE ReadSays(entry, tail, log)'
  <2>1. e.offset <= Len(log) /\ EntrySays(e, log, e.offset)
    <3>1. CASE entry = Absent \/ rotated
      <4>1. e = FreshEntry /\ e.offset = 0
        BY <1>2, <3>1 DEF FreshEntry
      <4>2. QED
        BY <1>3, <4>1, FreshSays
    <3>2. CASE entry # Absent /\ ~rotated
      <4>1. e = entry /\ ~rewritten
        BY <1>1, <1>2, <1>7, <3>2
      <4>2. ReadSays(entry, tail, log) /\ Len(tail) = 0
        BY <1>1, <3>2, <4>1 DEF SourceInv, SourceSays
      <4>3. QED
        BY <1>4, <4>1, <4>2 DEF ReadSays
    <3>3. QED
      BY <3>1, <3>2
  <2>2. Len(tail') = Len(log) - e.offset
    BY <1>3, <1>4, <1>5, <2>1
  <2>3. EntrySays(entry', log, e.offset)
    BY <1>4, <2>1, SaysOfFields
  <2>4. entry'.offset - Len(tail') = e.offset
    BY <1>3, <1>4, <2>2
  <2>5. ReadSays(entry', tail', log')
    BY <1>1, <1>3, <1>4, <1>5, <2>1, <2>2, <2>3, <2>4 DEF ReadSays
  <2>6. QED
    BY <1>1, <2>5, SaysStays
<1>8. QED
  BY <1>1, <1>4, <1>6, <1>7 DEF SourceInv, SourceSays

\* The next line read is the next line of the log.
LEMMA ParsingKeepsSource == ASSUME SourceInv, PollParses PROVE SourceInv'
<1> DEFINE l == Head(tail)
<1> DEFINE e == HeardLine(entry, l)
<1>1. /\ poll = "lines" /\ tail # <<>> /\ entry' = e /\ tail' = Tail(tail)
      /\ UNCHANGED <<backend, log, age, rewritten, poll>>
  BY DEF PollParses, fileVars
<1>2. /\ tail \in Seq(Written) /\ entry \in FileState /\ entry # Absent
      /\ backend \in {"claude", "agy"} /\ Len(tail) \in Nat /\ entry.offset \in Nat
  BY <1>1 DEF SourceInv, DetTyped, FileState
<1>3. /\ l \in Written /\ l = tail[1] /\ Tail(tail) \in Seq(Written)
      /\ Len(tail') = Len(tail) - 1 /\ \A i \in 1..Len(tail') : tail'[i] = tail[i + 1]
  BY <1>1, <1>2, HeadTailProperties
<1>4. l \in Lines
  BY <1>3, WrittenAreLines
<1> HIDE DEF l
<1>5. e \in FileState /\ e.offset = entry.offset /\ e # Absent
  BY <1>2, <1>4, HeardTyped, DetectionAssumption
<1>6. DetTyped'
  <2>1. Written' = Written
    BY <1>1 DEF Written
  <2> HIDE DEF e
  <2>2. QED
    BY <1>1, <1>3, <1>5, <2>1 DEF DetTyped, SourceInv
<1>7. ASSUME ~rewritten PROVE ReadSays(entry, tail, log)'
  <2> DEFINE n == entry.offset - Len(tail)
  <2>1. ReadSays(entry, tail, log)
    BY <1>2, <1>7 DEF SourceInv, SourceSays
  <2>2. n \in Nat /\ EntrySays(entry, log, n) /\ Len(tail) > 0
    BY <1>1, <1>2, <2>1 DEF ReadSays
  <2>3. log[n + 1] = l
    BY <1>2, <1>3, <2>1, <2>2 DEF ReadSays
  <2>4. entry.offset - Len(tail') = n + 1
    BY <1>2, <1>3, <2>2
  <2>5. \A i \in 1..Len(tail') : tail'[i] = log[(n + 1) + i]
    <3>1. \A i \in 1..Len(tail) : tail[i] = log[n + i]
      BY <2>1 DEF ReadSays
    <3> HIDE DEF n
    <3>2. Len(tail') = Len(tail) - 1 /\ Len(tail) \in Nat /\ n \in Nat
      BY <1>2, <1>3, <2>2
    <3>3. \A i \in 1..Len(tail') : i + 1 \in 1..Len(tail) /\ (n + 1) + i = n + (i + 1)
      BY <3>2
    <3>4. QED
      BY <1>3, <3>1, <3>3
  <2> HIDE DEF n
  <2>6. EntrySays(e, log, n + 1)
    BY <1>2, <1>3, <2>2, <2>3, HeardSays
  <2> HIDE DEF e
  <2>7. ReadSays(entry', tail', log')
    BY <1>1, <1>2, <1>3, <1>5, <2>1, <2>4, <2>5, <2>6 DEF ReadSays
  <2>8. QED
    BY <1>1, <2>7, SaysStays
<1>8. entry'.offset = entry.offset
  BY <1>1, <1>5
<1>9. QED
  BY <1>1, <1>2, <1>6, <1>7, <1>8 DEF SourceInv, SourceSays

\* What a step leaves of the entry when it changes only what the entry counts and told.
LEMMA TouchingKeepsSource ==
  ASSUME SourceInv, poll' # "lines", UNCHANGED <<backend, log, age, rewritten, tail>>,
         tail = <<>>,
         entry' # Absent => /\ entry # Absent /\ entry' \in FileState
                            /\ entry'.offset = entry.offset
                            /\ entry'.turn = entry.turn /\ entry'.phase = entry.phase
                            /\ entry'.stopped = entry.stopped /\ entry'.title = entry.title
                            /\ entry'.custom = entry.custom
  PROVE  SourceInv'
<1>1. Written' = Written
  BY DEF Written
<1>2. DetTyped'
  BY <1>1 DEF SourceInv, DetTyped
<1>3. ASSUME entry' # Absent, ~rewritten' PROVE ReadSays(entry, tail, log)'
  <2> DEFINE n == entry.offset - Len(tail)
  <2>1. ReadSays(entry, tail, log) /\ EntrySays(entry, log, n)
    BY <1>3 DEF SourceInv, SourceSays, ReadSays
  <2>2. EntrySays(entry', log, n)
    <3> HIDE DEF n
    <3>1. QED
      BY <1>3, <2>1, SaysOfFields
  <2>3. ReadSays(entry', tail', log')
    BY <1>3, <2>1, <2>2 DEF ReadSays
  <2>4. QED
    BY <2>3, SaysStays
<1>4. QED
  BY <1>2, <1>3 DEF SourceInv, SourceSays

\* Judging changes what was told of the entry, not what it says.
LEMMA JudgingKeepsSource == ASSUME SourceInv, PollJudges PROVE SourceInv'
<1> DEFINE stalled == Interruptible(entry) /\ JudgedAge >= Silent
<1> DEFINE status == StatusFor(entry.turn, JudgedAge)
<1>1. /\ tail = <<>> /\ poll = "lines" /\ poll' = "idle"
      /\ entry' = [entry EXCEPT !.status = status, !.alerted = stalled]
      /\ UNCHANGED <<backend, log, age, rewritten, tail>>
  BY DEF PollJudges, fileVars
<1>2. entry # Absent /\ entry \in FileState
  BY <1>1 DEF SourceInv, DetTyped
<1>3. stalled \in BOOLEAN
  OBVIOUS
<1>4. status \in {"Errored", "Running", "WaitingInput", "Idle", None}
  BY DEF StatusFor
<1> HIDE DEF stalled, status
<1>5. entry' \in FileState
  BY <1>1, <1>2, <1>3, <1>4 DEF FileState
<1>6. /\ entry'.offset = entry.offset /\ entry'.turn = entry.turn /\ entry'.phase = entry.phase
      /\ entry'.stopped = entry.stopped /\ entry'.title = entry.title
      /\ entry'.custom = entry.custom
  BY <1>1, <1>2 DEF FileState
<1>7. QED
  BY <1>1, <1>2, <1>5, <1>6, TouchingKeepsSource

\* Nothing is read at first.
LEMMA SourceStarts == Init => SourceInv
BY DetectionAssumption DEF Init, SourceInv, DetTyped, SourceSays

\* Every step of the agent, the poll, the supervisor and the operator.
LEMMA SourceStepKeeps == SourceInv /\ [Next]_vars => SourceInv'
<1> SUFFICES ASSUME SourceInv, [Next]_vars PROVE SourceInv'
  OBVIOUS
<1>1. ASSUME UNCHANGED <<backend, fileVars, entry, poll, tail>> PROVE SourceInv'
  BY <1>1, SaysStays DEF SourceInv, SourceSays, DetTyped, Written, fileVars
<1>2. ASSUME NEW l \in Written, Write(l) \/ Rewrite(l) PROVE SourceInv'
  BY <1>2, FileKeepsSource
<1>3. CASE BeginLine \/ Ageing
  BY <1>3, FileKeepsSource
<1>4. CASE PollLists
  <2>1. poll = "idle" /\ poll' = "read" /\ UNCHANGED <<backend, fileVars, entry, tail>>
    BY <1>4 DEF PollLists, AtRest
  <2>2. QED
    BY <2>1, TouchingKeepsSource DEF fileVars, SourceInv, DetTyped
<1>5. CASE PollMisses
  <2>1. /\ poll = "idle" /\ entry # Absent /\ UNCHANGED <<backend, log, age, poll, tail>>
        /\ \/ entry' = [entry EXCEPT !.missed = @ + 1] /\ UNCHANGED rewritten
           \/ entry' = Absent
    BY <1>5 DEF PollMisses, AtRest
  <2>2. tail = <<>> /\ entry \in FileState
    BY <2>1 DEF SourceInv, DetTyped
  <2>3. CASE entry' = [entry EXCEPT !.missed = @ + 1] /\ UNCHANGED rewritten
    <3>1. /\ entry' \in FileState /\ entry'.offset = entry.offset
          /\ entry'.turn = entry.turn /\ entry'.phase = entry.phase
          /\ entry'.stopped = entry.stopped /\ entry'.title = entry.title
          /\ entry'.custom = entry.custom
      BY <2>2, <2>3 DEF FileState
    <3>2. QED
      BY <2>1, <2>2, <2>3, <3>1, TouchingKeepsSource
  <2>4. CASE entry' = Absent
    BY <2>1, <2>2, <2>4 DEF SourceInv, SourceSays, DetTyped, Written
  <2>5. QED
    BY <2>1, <2>3, <2>4
<1>6. CASE PollReads
  BY <1>6, ReadingKeepsSource
<1>7. CASE PollParses
  BY <1>7, ParsingKeepsSource
<1>8. CASE PollJudges
  BY <1>8, JudgingKeepsSource
<1>9. CASE PollFails
  <2>1. poll = "read" /\ poll' = "idle" /\ UNCHANGED <<backend, fileVars, entry, tail>>
    BY <1>9 DEF PollFails
  <2>2. QED
    BY <2>1, TouchingKeepsSource DEF fileVars, SourceInv, DetTyped
<1>10. CASE \/ Handle \/ ReportBlocked \/ Adopt \/ OperatorMovesPhase \/ Resumed \/ Forget
            \/ \E st \in {"WaitingInput", "Running"} : Told(st)
  BY <1>1, <1>10 DEF Handle, ReportBlocked, Adopt, OperatorMovesPhase, Command, Resumed, Forget,
                     Told, pollVars
<1>11. CASE Restart
  BY <1>11 DEF Restart, SourceInv, SourceSays, DetTyped, Written
<1>12. CASE UNCHANGED vars
  BY <1>1, <1>12 DEF vars, pollVars
<1>13. QED
  BY <1>2, <1>3, <1>4, <1>5, <1>6, <1>7, <1>8, <1>9, <1>10, <1>11, <1>12
  DEF Next, PollGoesOn

\* The inductive invariant of the source.
LEMMA SourceIsRight == Spec => []SourceInv
BY SourceStarts, SourceStepKeeps, PTL DEF Spec

-----------------------------------------------------------------------------
(* What it says is what a reader of the lines would *)

\* Of the first lines of the log, the last among kinds is the one the entry holds.
LEMMA LastIs ==
  ASSUME NEW S, NEW lines \in Seq(S), NEW n \in 0..Len(lines), NEW kinds, NEW v,
         IsLast(v, kinds, lines, n)
  PROVE  v = LastOf(SubSeq(lines, 1, n), kinds)
<1> DEFINE p == SubSeq(lines, 1, n)
<1> DEFINE at == {i \in DOMAIN p : p[i] \in kinds}
<1>1. DOMAIN p = 1..n /\ \A i \in 1..n : p[i] = lines[i]
  OBVIOUS
<1>2. LastOf(p, kinds) = IF at = {} THEN None ELSE p[CHOOSE i \in at : \A j \in at : j <= i]
  BY DEF LastOf
<1> HIDE DEF p
<1>3. CASE v = None /\ \A i \in 1..n : lines[i] \notin kinds
  BY <1>1, <1>2, <1>3 DEF p
<1>4. ASSUME NEW i \in 1..n, lines[i] = v, v \in kinds,
             \A j \in 1..n : lines[j] \in kinds => j <= i
      PROVE  v = LastOf(p, kinds)
  <2> DEFINE k == CHOOSE x \in at : \A j \in at : j <= x
  <2>1. i \in at /\ at \subseteq 1..n /\ \A j \in at : j <= i
    BY <1>1, <1>4
  <2> HIDE DEF at
  <2>2. k \in at /\ \A j \in at : j <= k
    BY <2>1
  <2> HIDE DEF k
  <2>3. k = i
    BY <2>1, <2>2
  <2>4. p[i] = v
    BY <1>1, <1>4
  <2>5. QED
    BY <1>2, <2>1, <2>3, <2>4 DEF k
<1>5. QED
  BY <1>3, <1>4 DEF IsLast, p

\* Whether a line is among the first.
LEMMA HasIs ==
  ASSUME NEW S, NEW lines \in Seq(S), NEW n \in 0..Len(lines), NEW kind
  PROVE  HasUpTo(kind, lines, n) <=> Has(SubSeq(lines, 1, n), kind)
<1>1. /\ DOMAIN SubSeq(lines, 1, n) = 1..n
      /\ \A i \in 1..n : SubSeq(lines, 1, n)[i] = lines[i]
  OBVIOUS
<1>2. QED
  BY <1>1 DEF HasUpTo, Has

\* An entry that says what the first lines say holds what a reader makes of them.
LEMMA SaysIs ==
  ASSUME NEW S, NEW lines \in Seq(S), NEW n \in 0..Len(lines), NEW e \in FileState,
         EntrySays(e, lines, n)
  PROVE  /\ e.turn = LastOf(SubSeq(lines, 1, n), Turns)
         /\ e.phase = LastOf(SubSeq(lines, 1, n), Modes)
         /\ e.stopped = Has(SubSeq(lines, 1, n), "stop")
         /\ e.title = TitleOf(SubSeq(lines, 1, n))
<1>1. /\ e.turn = LastOf(SubSeq(lines, 1, n), Turns)
      /\ e.phase = LastOf(SubSeq(lines, 1, n), Modes)
  BY LastIs DEF EntrySays
<1>2. e.stopped = Has(SubSeq(lines, 1, n), "stop")
  <2>1. e.stopped \in BOOLEAN /\ (e.stopped <=> Has(SubSeq(lines, 1, n), "stop"))
    BY HasIs DEF EntrySays, FileState
  <2>2. Has(SubSeq(lines, 1, n), "stop") \in BOOLEAN
    BY DEF Has
  <2>3. QED
    BY <2>1, <2>2
<1>3. e.title = TitleOf(SubSeq(lines, 1, n))
  <2>1. CASE backend = "agy"
    BY <2>1, HasIs DEF EntrySays, TitleSays, TitleOf
  <2>2. CASE backend # "agy"
    <3>1. HasUpTo("named", lines, n) <=> Has(SubSeq(lines, 1, n), "named")
      BY HasIs
    <3>2. ~e.custom => e.title = LastOf(SubSeq(lines, 1, n), {"ai"})
      BY <2>2, LastIs DEF EntrySays, TitleSays
    <3>3. QED
      BY <2>2, <3>1, <3>2 DEF EntrySays, TitleSays, TitleOf
  <2>3. QED
    BY <2>1, <2>2
<1>4. QED
  BY <1>1, <1>2, <1>3

\* What the source holds of a transcript is what the lines it parsed say, for any transcript
\* however long, cut into polls, half written, forgotten or replaced by a shorter one it saw.
THEOREM TailIsAlwaysTheTranscript == Spec => []TailIsTheTranscript
<1>1. SourceInv => TailIsTheTranscript
  <2> SUFFICES ASSUME SourceInv, entry # Absent, ~rewritten
               PROVE  /\ entry.offset - Len(tail) \in 0 .. Len(log)
                      /\ entry.turn = LastOf(Parsed, Turns)
                      /\ entry.phase = LastOf(Parsed, Modes)
                      /\ entry.stopped = Has(Parsed, "stop")
                      /\ entry.title = TitleOf(Parsed)
    BY DEF TailIsTheTranscript
  <2> DEFINE n == entry.offset - Len(tail)
  <2>1. /\ entry \in FileState /\ log \in Seq(Written) /\ tail \in Seq(Written)
        /\ ReadSays(entry, tail, log)
    BY DEF SourceInv, SourceSays, DetTyped
  <2>2. n \in 0..Len(log) /\ EntrySays(entry, log, n)
    BY <2>1 DEF ReadSays, FileState
  <2>3. Parsed = SubSeq(log, 1, n)
    BY DEF Parsed
  <2> HIDE DEF n
  <2>4. /\ entry.turn = LastOf(Parsed, Turns) /\ entry.phase = LastOf(Parsed, Modes)
        /\ entry.stopped = Has(Parsed, "stop") /\ entry.title = TitleOf(Parsed)
    BY <2>1, <2>2, <2>3, SaysIs
  <2>5. QED
    BY <2>2, <2>4 DEF n
<1>2. QED
  BY <1>1, SourceIsRight, PTL

\* Raising is for PollJudges alone, and a poll that judges a transcript too old to be young
\* has read all of it: the stall is one of the whole conversation (lib.rs file_age).
THEOREM StallIsAlwaysReal == Spec => StallIsReal
<1>1. SourceInv /\ [Next]_vars => (Raises /\ ~rewritten => age >= Silent /\ Unanswered)
  <2> SUFFICES ASSUME SourceInv, [Next]_vars, Raises, ~rewritten
               PROVE  age >= Silent /\ Unanswered
    OBVIOUS
  <2>1. entry \in FileState /\ entry # Absent /\ entry' # Absent /\ ~entry.alerted /\ entry'.alerted
    BY DEF Raises, SourceInv, DetTyped
  <2>2. PollJudges
    <3>1. entry' # entry
      BY <2>1
    <3>2. ~PollMisses
      BY <2>1 DEF PollMisses, FileState
    <3>3. ~PollReads
      BY <2>1 DEF PollReads, EntryFor, FreshEntry, FileState
    <3>4. ASSUME PollParses PROVE FALSE
      <4>1. entry' = HeardLine(entry, Head(tail)) /\ Head(tail) \in Lines
        BY <3>4, HeadTailProperties, WrittenAreLines DEF PollParses, SourceInv, DetTyped
      <4>2. QED
        BY <2>1, <4>1, HeardTyped
    <3>5. QED
      BY <2>1, <3>1, <3>2, <3>3, <3>4
      DEF Next, PollGoesOn, Write, Rewrite, BeginLine, Ageing, PollLists, PollFails, Handle,
          ReportBlocked, Adopt, OperatorMovesPhase, Command, Told, Resumed, Forget, Restart,
          vars, pollVars
  <2>3. /\ poll = "lines" /\ tail = <<>> /\ Interruptible(entry) /\ age >= Silent
    <3>1. /\ poll = "lines" /\ tail = <<>>
          /\ entry' = [entry EXCEPT !.status = StatusFor(entry.turn, age),
                                    !.alerted = Interruptible(entry) /\ age >= Silent]
      BY <2>2 DEF PollJudges, JudgedAge
    <3> DEFINE stalled == Interruptible(entry) /\ age >= Silent
    <3>2. entry'.alerted = stalled
      <4> HIDE DEF stalled
      <4>1. QED
        BY <2>1, <3>1 DEF FileState, stalled
    <3>3. QED
      BY <2>1, <3>1, <3>2
  <2>4. entry.offset = Len(log) /\ ReadSays(entry, tail, log) /\ log \in Seq(Written)
    BY <2>1, <2>3 DEF SourceInv, SourceSays, DetTyped, Silent
  <2>5. EntrySays(entry, log, Len(log)) /\ Len(log) \in 0..Len(log) /\ Len(log) \in Nat
    BY <2>3, <2>4 DEF ReadSays
  <2>6. SubSeq(log, 1, Len(log)) = log
    BY <2>4, SubSeqFull
  <2>7. entry.turn = LastOf(log, Turns) /\ (entry.stopped <=> Has(log, "stop"))
    <3> DEFINE n == Len(log)
    <3>1. n \in 0..Len(log) /\ EntrySays(entry, log, n) /\ SubSeq(log, 1, n) = log
      BY <2>5, <2>6
    <3> HIDE DEF n
    <3>2. /\ entry.turn = LastOf(SubSeq(log, 1, n), Turns)
          /\ entry.stopped = Has(SubSeq(log, 1, n), "stop")
      BY <2>1, <2>4, <3>1, SaysIs
    <3>3. QED
      BY <3>1, <3>2
  <2>8. Unanswered
    BY <2>3, <2>7 DEF Interruptible, Unanswered
  <2>9. QED
    BY <2>3, <2>8
<1>2. QED
  BY <1>1, SourceIsRight, PTL DEF Spec, StallIsReal

-----------------------------------------------------------------------------
(* The stall stays on the tile *)

\* A change of status is told to the tile, if there is one.
LEMMA StatusTells ==
  ASSUME grid \in Tiles, NEW st \in Statuses, Publish(StateChanged(st))
  PROVE  /\ grid' \in Tiles /\ grid'.shown = grid.shown
         /\ grid.shown => grid'.status = st
         /\ st # "Running" => grid'.alert = grid.alert
<1>1. /\ grid' = [grid EXCEPT !.status = IF grid.shown THEN st ELSE @,
                               !.alert = Cleared(grid, st)]
      /\ Cleared(grid, st) \in {None, grid.alert}
      /\ st # "Running" => Cleared(grid, st) = grid.alert
  BY DEF Publish, OnGrid, StateChanged, Cleared
<1>2. QED
  BY <1>1 DEF Tiles

\* An upsert puts the tile in step.
LEMMA UpsertTells ==
  ASSUME grid \in Tiles, NEW r \in Rows, Amended(r)
  PROVE  row' \in Rows /\ grid' \in Tiles /\ InStep'
<1>1. /\ grid' = [shown |-> TRUE, status |-> r.status, alert |-> Cleared(grid, r.status)]
      /\ Cleared(grid, r.status) \in {None, grid.alert} /\ row' = r
  BY DEF Amended, Publish, OnGrid, Upserted, Cleared
<1>2. QED
  BY <1>1 DEF Tiles, Rows, InStep

\* An upsert of a session in step with its tile takes no overlay down.
LEMMA UpsertSpares ==
  ASSUME grid \in Tiles, InStep, row # Absent, NEW r \in Rows, r.status = row.status,
         Amended(r)
  PROVE  /\ row' \in Rows /\ grid' \in Tiles /\ InStep'
         /\ grid'.alert = grid.alert
BY DEF Amended, Publish, OnGrid, Upserted, Cleared, InStep, Tiles, Rows

\* Nor does an event without harm, whatever the supervisor makes of it.
LEMMA HarmlessSpares ==
  ASSUME ShownTyped, InStep, NEW ev \in Events, Harmless(ev),
         \/ ev.kind = "StatusChanged" /\ StatusChanged(ev.status)
         \/ ev.kind = "TitleObserved" /\ TitleObserved(ev.title)
         \/ ev.kind = "PhaseObserved" /\ PhaseObserved(ev.phase)
  PROVE  /\ row' # Absent => row' \in Rows
         /\ grid' \in Tiles /\ InStep' /\ grid'.alert = grid.alert
<1>1. CASE ev.kind = "StatusChanged" /\ StatusChanged(ev.status)
  <2>1. ev.status \in Statuses \ {"Running"}
    BY <1>1 DEF Harmless, Events, DiscoveredEvent, EndedEvent, StatusEvent, AlertEvent,
                TitleEvent, PhaseEvent
  <2>2. CASE row = Absent
    BY <1>1, <2>2 DEF StatusChanged, shownVars, ShownTyped, InStep
  <2>3. CASE row # Absent
    <3>1. row' = [row EXCEPT !.status = ev.status] /\ row \in Rows /\ grid \in Tiles
      BY <1>1, <2>3 DEF StatusChanged, ShownTyped
    <3>2. /\ grid' = [grid EXCEPT !.status = IF grid.shown THEN ev.status ELSE @,
                                  !.alert = grid.alert]
          /\ grid.shown /\ grid.status = row.status
      BY <1>1, <2>1, <2>3 DEF StatusChanged, Publish, OnGrid, StateChanged, Cleared, InStep
    <3>3. QED
      BY <2>1, <3>1, <3>2 DEF Rows, Tiles, InStep
  <2>4. QED
    BY <2>2, <2>3
<1>2. CASE ev.kind = "TitleObserved" /\ TitleObserved(ev.title)
  <2>1. ev.title \in Names \cup {None}
    BY <1>2 DEF Events, DiscoveredEvent, EndedEvent, StatusEvent, AlertEvent,
                TitleEvent, PhaseEvent
  <2>2. CASE row = Absent
    BY <1>2, <2>2 DEF TitleObserved, shownVars, ShownTyped, InStep
  <2>3. CASE row # Absent
    <3> DEFINE r == [row EXCEPT !.title = ev.title]
    <3>1. r \in Rows /\ r.status = row.status
      BY <2>1, <2>3 DEF ShownTyped, Rows
    <3>2. Amended(r)
      BY <1>2, <2>3 DEF TitleObserved
    <3> HIDE DEF r
    <3>3. QED
      BY <2>3, <3>1, <3>2, UpsertSpares DEF ShownTyped
  <2>4. QED
    BY <2>2, <2>3
<1>3. CASE ev.kind = "PhaseObserved" /\ PhaseObserved(ev.phase)
  <2>1. CASE UNCHANGED shownVars
    BY <2>1 DEF shownVars, ShownTyped, InStep
  <2>2. CASE Movable /\ row' = [row EXCEPT !.phase = "Plan"] /\ Publish(Thin)
    <3>1. grid' = grid /\ row \in Rows /\ row # Absent
      BY <2>2 DEF Publish, OnGrid, Thin, Movable, ShownTyped
    <3>2. QED
      BY <2>2, <3>1 DEF ShownTyped, Rows, InStep
  <2>3. QED
    BY <1>3, <2>1, <2>2 DEF PhaseObserved
<1>4. QED
  BY <1>1, <1>2, <1>3

\* Whatever event is handled, the supervisor and the tile stay well formed, and in step if
\* they were.
LEMMA HandlingTyped ==
  ASSUME ShownTyped, NEW ev \in Events,
         \/ ev.kind = "Discovered" /\ Discovered
         \/ ev.kind = "StatusChanged" /\ StatusChanged(ev.status)
         \/ ev.kind = "TitleObserved" /\ TitleObserved(ev.title)
         \/ ev.kind = "PhaseObserved" /\ PhaseObserved(ev.phase)
         \/ ev.kind = "Ended" /\ Ended
         \/ ev.kind = "Alert" /\ UNCHANGED row /\ Publish(Alerted(ev.alert))
  PROVE  (row' # Absent => row' \in Rows) /\ grid' \in Tiles /\ (InStep => InStep')
<1>0. grid \in Tiles
  BY DEF ShownTyped
<1>1. CASE UNCHANGED shownVars
  BY <1>1 DEF shownVars, ShownTyped, InStep
<1>2. ASSUME NEW r \in Rows, Amended(r)
      PROVE  row' \in Rows /\ grid' \in Tiles /\ InStep'
  BY <1>0, <1>2, UpsertTells
<1>3. CASE row = Absent /\ Amended(DiscoveredRow)
  <2>1. DiscoveredRow \in Rows
    BY DEF DiscoveredRow, Rows, Statuses
  <2>2. QED
    BY <1>2, <1>3, <2>1
<1>4. CASE ev.kind = "StatusChanged" /\ row # Absent /\ StatusChanged(ev.status)
  <2>1. ev.status \in Statuses
    BY <1>4 DEF Events, DiscoveredEvent, EndedEvent, StatusEvent, AlertEvent,
                TitleEvent, PhaseEvent
  <2>2. row' = [row EXCEPT !.status = ev.status] /\ row \in Rows
    BY <1>4 DEF StatusChanged, ShownTyped
  <2>3. /\ grid' \in Tiles /\ grid'.shown = grid.shown
        /\ grid.shown => grid'.status = ev.status
    BY <1>0, <1>4, <2>1, StatusTells DEF StatusChanged
  <2>4. QED
    BY <1>4, <2>1, <2>2, <2>3 DEF Rows, InStep
<1>5. CASE ev.kind = "TitleObserved" /\ row # Absent /\ TitleObserved(ev.title)
  <2> DEFINE r == [row EXCEPT !.title = ev.title]
  <2>1. ev.title \in Names \cup {None}
    BY <1>5 DEF Events, DiscoveredEvent, EndedEvent, StatusEvent, AlertEvent,
                TitleEvent, PhaseEvent
  <2>2. r \in Rows
    BY <1>5, <2>1 DEF ShownTyped, Rows
  <2>3. Amended(r)
    BY <1>5 DEF TitleObserved
  <2> HIDE DEF r
  <2>4. QED
    BY <1>2, <2>2, <2>3
<1>6. CASE Movable /\ row' = [row EXCEPT !.phase = "Plan"] /\ Publish(Thin)
  <2>1. grid' = grid /\ row \in Rows /\ row # Absent
    BY <1>6 DEF Publish, OnGrid, Thin, Movable, ShownTyped
  <2>2. QED
    BY <1>0, <1>6, <2>1 DEF Rows, InStep
<1>7. CASE Governed /\ Amended([row EXCEPT !.status = "Idle"])
  <2> DEFINE r == [row EXCEPT !.status = "Idle"]
  <2>1. r \in Rows
    BY <1>7 DEF Governed, ShownTyped, Rows, Statuses
  <2> HIDE DEF r
  <2>2. QED
    BY <1>2, <1>7, <2>1 DEF r
<1>8. CASE row' = Absent /\ Publish(StateChanged("Idle"))
  BY <1>0, <1>8, StatusTells DEF Statuses, InStep
<1>9. CASE ev.kind = "Alert" /\ UNCHANGED row /\ Publish(Alerted(ev.alert))
  <2>1. ev.alert \in {"Incomplete", None}
    BY <1>9 DEF Events, DiscoveredEvent, EndedEvent, StatusEvent, AlertEvent,
                TitleEvent, PhaseEvent
  <2>2. grid' = [grid EXCEPT !.alert = ev.alert]
    BY <1>9 DEF Publish, OnGrid, Alerted
  <2>3. QED
    BY <1>9, <2>1, <2>2 DEF ShownTyped, Tiles, InStep
<1>10. QED
  BY <1>1, <1>3, <1>4, <1>5, <1>6, <1>7, <1>8, <1>9
  DEF Discovered, StatusChanged, TitleObserved, PhaseObserved, Ended

\* The events by their kinds.
LEMMA EventsAre ==
  /\ \A st \in Statuses : StatusEvent(st) \in Events
  /\ \A x \in {"Incomplete", None} : AlertEvent(x) \in Events
  /\ \A x \in Names \cup {None} : TitleEvent(x) \in Events
  /\ \A m \in Modes \cup {None}, k \in Int : PhaseEvent(m, k) \in Events
  /\ DiscoveredEvent \in Events /\ EndedEvent \in Events
<1>1. \A st \in Statuses : StatusEvent(st) \in Events
  BY DEF Events
<1>2. \A x \in {"Incomplete", None} : AlertEvent(x) \in Events
  BY DEF Events
<1>3. \A x \in Names \cup {None} : TitleEvent(x) \in Events
  BY DEF Events
<1>4. \A m \in Modes \cup {None}, k \in Int : PhaseEvent(m, k) \in Events
  BY DEF Events
<1>5. DiscoveredEvent \in Events /\ EndedEvent \in Events
  BY DEF Events
<1>6. QED
  BY <1>1, <1>2, <1>3, <1>4, <1>5

\* A line that is parsed tells nothing that takes an overlay down.
LEMMA ToldSpares ==
  ASSUME NEW e \in FileState, NEW d \in FileState, NEW n \in Int
  PROVE  /\ ToldOf(e, d, n) \in Seq(Events)
         /\ \A i \in 1..Len(ToldOf(e, d, n)) : Harmless(ToldOf(e, d, n)[i])
<1> DEFINE a == IF d.title # e.title THEN <<TitleEvent(d.title)>> ELSE <<>>
<1> DEFINE b == IF d.phase # e.phase THEN <<PhaseEvent(d.phase, n)>> ELSE <<>>
<1>1. /\ TitleEvent(d.title) \in Events /\ Harmless(TitleEvent(d.title))
      /\ PhaseEvent(d.phase, n) \in Events /\ Harmless(PhaseEvent(d.phase, n))
  <2>1. d.title \in Names \cup {None} /\ d.phase \in Modes \cup {None}
    BY DEF FileState
  <2>2. TitleEvent(d.title) \in Events /\ PhaseEvent(d.phase, n) \in Events
    BY <2>1, EventsAre
  <2>3. QED
    BY <2>2 DEF Harmless, TitleEvent, PhaseEvent
<1>2. a \in Seq(Events) /\ b \in Seq(Events)
  BY <1>1
<1>3. (\A i \in 1..Len(a) : Harmless(a[i])) /\ (\A i \in 1..Len(b) : Harmless(b[i]))
  BY <1>1
<1>4. ToldOf(e, d, n) = a \o b
  BY DEF ToldOf
<1> HIDE DEF a, b
<1>5. /\ a \o b \in Seq(Events) /\ Len(a \o b) = Len(a) + Len(b)
      /\ \A i \in 1..Len(a) + Len(b) :
            (a \o b)[i] = IF i <= Len(a) THEN a[i] ELSE b[i - Len(a)]
  BY <1>2
<1>6. \A i \in 1..Len(a) + Len(b) : i > Len(a) => i - Len(a) \in 1..Len(b)
  BY <1>2
<1>7. \A i \in 1..Len(a \o b) : Harmless((a \o b)[i])
  BY <1>2, <1>3, <1>5, <1>6
<1>8. QED
  BY <1>4, <1>5, <1>7

\* A verdict that raises ends with the alert; one that leaves the alert as it was has a
\* status at most.
LEMMA VerdictTells ==
  ASSUME NEW e \in FileState, NEW stalled \in BOOLEAN, NEW status \in Statuses
  PROVE  /\ Verdict(e, stalled, status) \in Seq(Events)
         /\ stalled /\ ~e.alerted =>
              /\ Verdict(e, stalled, status) # <<>>
              /\ Verdict(e, stalled, status)[Len(Verdict(e, stalled, status))]
                   = AlertEvent("Incomplete")
         /\ stalled = e.alerted =>
              \A i \in 1..Len(Verdict(e, stalled, status)) :
                 /\ Verdict(e, stalled, status)[i] = StatusEvent(status)
                 /\ e.status # status
<1> DEFINE a == IF e.status # status THEN <<StatusEvent(status)>> ELSE <<>>
<1> DEFINE alert == AlertEvent(IF stalled THEN "Incomplete" ELSE None)
<1> DEFINE b == IF stalled # e.alerted THEN <<alert>> ELSE <<>>
<1>1. StatusEvent(status) \in Events /\ alert \in Events
  BY EventsAre
<1>2. Verdict(e, stalled, status) = a \o b
  BY DEF Verdict
<1> HIDE DEF alert
<1>3. a \in Seq(Events) /\ b \in Seq(Events) /\ Len(a) \in {0, 1}
  BY <1>1
<1>4. \A i \in 1..Len(a) : a[i] = StatusEvent(status) /\ e.status # status
  OBVIOUS
<1>5. e.alerted \in BOOLEAN
  BY DEF FileState
<1>6. CASE stalled # e.alerted
  <2>1. b = <<alert>>
    BY <1>6
  <2> HIDE DEF a, b
  <2>2. /\ a \o b \in Seq(Events) /\ a \o b # <<>> /\ Len(a \o b) = Len(a) + 1
        /\ (a \o b)[Len(a) + 1] = alert
    BY <1>1, <1>3, <2>1
  <2>3. stalled => alert = AlertEvent("Incomplete")
    BY DEF alert
  <2>4. QED
    BY <1>2, <1>6, <2>2, <2>3
<1>7. CASE stalled = e.alerted
  <2>1. b = <<>>
    BY <1>7
  <2> HIDE DEF a, b
  <2>2. a \o b = a
    BY <1>3, <2>1
  <2>3. QED
    BY <1>2, <1>3, <1>4, <1>7, <2>2
<1>8. QED
  BY <1>5, <1>6, <1>7

\* What is appended to a queue without harm, itself without harm, leaves it so.
LEMMA HarmlessAppended ==
  ASSUME NEW q \in Seq(Events), NEW more \in Seq(Events),
         \A i \in 1..Len(q) : Harmless(q[i]), \A i \in 1..Len(more) : Harmless(more[i])
  PROVE  \A i \in 1..Len(q \o more) : Harmless((q \o more)[i])
<1>1. /\ Len(q \o more) = Len(q) + Len(more)
      /\ \A i \in 1..Len(q) + Len(more) :
            (q \o more)[i] = IF i <= Len(q) THEN q[i] ELSE more[i - Len(q)]
  OBVIOUS
<1>2. \A i \in 1..Len(q) + Len(more) : i > Len(q) => i - Len(q) \in 1..Len(more)
  OBVIOUS
<1>3. QED
  BY <1>1, <1>2

\* The statuses a turn can have.
LEMMA StatusTyped == ASSUME NEW turn, NEW a PROVE StatusFor(turn, a) \in Statuses
BY DEF StatusFor, Statuses

\* A stall is judged with the status that fits its turn.
LEMMA StalledStatus ==
  ASSUME NEW e \in FileState, NEW a \in Nat, Interruptible(e), a >= Silent
  PROVE  StatusFor(e.turn, a) = IF e.stopped THEN "Idle" ELSE "Running"
<1>1. ~(a < Quiet) /\ a >= Quiet /\ ~(a < Settled)
  BY DEF Silent, Quiet, Settled
<1>2. CASE e.turn = "user" /\ ~e.stopped
  BY <1>1, <1>2 DEF StatusFor
<1>3. CASE e.turn = "assistant" /\ e.stopped
  BY <1>1, <1>3 DEF StatusFor
<1>4. QED
  BY <1>2, <1>3 DEF Interruptible

\* The next event is handled.
LEMMA HandleKeepsStall == ASSUME SourceInv, StallInv, Handle PROVE StallInv'
<1> DEFINE ev == Head(todo)
<1>1. /\ poll = "idle" /\ todo # <<>> /\ todo' = Tail(todo) /\ UNCHANGED <<entry, poll>>
      /\ outside \subseteq outside' \cup {"entry"}
      /\ \/ ev.kind = "Discovered" /\ Discovered
         \/ ev.kind = "StatusChanged" /\ StatusChanged(ev.status)
         \/ ev.kind = "TitleObserved" /\ TitleObserved(ev.title)
         \/ ev.kind = "PhaseObserved" /\ PhaseObserved(ev.phase)
         \/ ev.kind = "Ended" /\ Ended
         \/ ev.kind = "Alert" /\ UNCHANGED row /\ Publish(Alerted(ev.alert))
  BY DEF Handle, pollVars
<1>2. todo \in Seq(Events) /\ ShownTyped
  BY DEF StallInv, ShownTyped
<1>3. /\ ev \in Events /\ ev = todo[1] /\ todo' \in Seq(Events)
      /\ Len(todo') = Len(todo) - 1 /\ Len(todo) \in Nat \ {0}
      /\ \A i \in 1..Len(todo') : todo'[i] = todo[i + 1]
  BY <1>1, <1>2, HeadTailProperties
<1> HIDE DEF ev
<1>4. ShownTyped' /\ (InStep => InStep')
  <2>1. (row' # Absent => row' \in Rows) /\ grid' \in Tiles /\ (InStep => InStep')
    BY <1>1, <1>2, <1>3, HandlingTyped
  <2>2. QED
    BY <1>3, <2>1 DEF ShownTyped
<1>5. ASSUME InStep, entry' # Absent, entry'.alerted, RaisedIsComing
      PROVE  RaisedIsComing'
  <2>2. CASE todo[Len(todo)] = AlertEvent("Incomplete") /\ Len(todo) > 1
    <3>1. todo'[Len(todo')] = todo[Len(todo)] /\ todo' # <<>>
      BY <1>3, <2>2
    <3>2. QED
      BY <1>1, <2>2, <3>1 DEF RaisedIsComing
  <2>3. CASE todo[Len(todo)] = AlertEvent("Incomplete") /\ ~(Len(todo) > 1)
    <3>1. ev = AlertEvent("Incomplete") /\ Len(todo') = 0
      BY <1>3, <2>3
    <3>2. grid' = [grid EXCEPT !.alert = "Incomplete"]
      BY <1>1, <3>1 DEF AlertEvent, Publish, OnGrid, Alerted
    <3>3. grid'.alert # None
      BY <1>2, <3>2, DetectionAssumption DEF ShownTyped, Tiles
    <3>4. QED
      BY <3>1, <3>3 DEF RaisedIsComing
  <2>4. CASE grid.alert # None /\ \A i \in 1..Len(todo) : Harmless(todo[i])
    <3>1. Harmless(ev) /\ \A i \in 1..Len(todo') : Harmless(todo'[i])
      BY <1>3, <2>4
    <3>2. grid'.alert = grid.alert
      <4>1. ev.kind \in {"StatusChanged", "TitleObserved", "PhaseObserved"}
        BY <3>1 DEF Harmless
      <4>2. QED
        BY <1>1, <1>2, <1>3, <1>5, <3>1, <4>1, HarmlessSpares
    <3>3. QED
      BY <2>4, <3>1, <3>2 DEF RaisedIsComing
  <2>5. QED
    BY <1>5, <2>2, <2>3, <2>4 DEF RaisedIsComing
<1>6. "tile" \notin outside' => "tile" \notin outside
  BY <1>1
<1>7. entry' # Absent /\ entry'.alerted => RaisedWith'
  BY <1>1 DEF StallInv, RaisedWith
<1>8. QED
  BY <1>1, <1>4, <1>5, <1>6, <1>7 DEF StallInv

\* A line is parsed: what it tells comes after what was told and takes no overlay down.
LEMMA ParsingKeepsStall == ASSUME SourceInv, StallInv, PollParses PROVE StallInv'
<1> DEFINE e == HeardLine(entry, Head(tail))
<1> DEFINE n == entry.offset - Len(tail) + 1
<1> DEFINE told == ToldOf(entry, e, n)
<1>1. /\ poll = "lines" /\ poll' = "lines" /\ entry' = e /\ todo' = todo \o told
      /\ UNCHANGED <<row, grid, outside>> /\ tail # <<>>
  BY DEF PollParses, shownVars
<1>2. entry \in FileState /\ entry # Absent /\ tail \in Seq(Written) /\ Head(tail) \in Lines
  BY <1>1, HeadTailProperties, WrittenAreLines DEF SourceInv, DetTyped
<1>3. /\ e \in FileState /\ e.alerted = entry.alerted /\ e.status = entry.status
      /\ entry.stopped => e.stopped
  BY <1>2, HeardTyped
<1>4. n \in Int
  BY <1>2 DEF FileState
<1> HIDE DEF e, n
<1>5. told \in Seq(Events) /\ \A i \in 1..Len(told) : Harmless(told[i])
  BY <1>2, <1>3, <1>4, ToldSpares
<1> HIDE DEF told
<1>6. todo \in Seq(Events)
  BY DEF StallInv, ShownTyped
<1>7. ShownTyped' /\ (InStep => InStep')
  BY <1>1, <1>5, <1>6 DEF StallInv, ShownTyped, InStep
<1>8. entry'.alerted => RaisedWith'
  BY <1>1, <1>2, <1>3 DEF StallInv, RaisedWith
<1>9. ASSUME RaisedIsComing PROVE RaisedIsComing'
  <2>1. grid.alert # None /\ \A i \in 1..Len(todo) : Harmless(todo[i])
    BY <1>1, <1>9 DEF RaisedIsComing
  <2>2. \A i \in 1..Len(todo') : Harmless(todo'[i])
    BY <1>1, <1>5, <1>6, <2>1, HarmlessAppended
  <2>3. QED
    BY <1>1, <2>1, <2>2 DEF RaisedIsComing
<1>10. QED
  BY <1>1, <1>2, <1>3, <1>7, <1>8, <1>9 DEF StallInv

\* The verdict: a stall is raised last, and one that stands is told nothing but a status
\* that is not Running.
LEMMA JudgingKeepsStall == ASSUME SourceInv, StallInv, PollJudges PROVE StallInv'
<1> DEFINE stalled == Interruptible(entry) /\ age >= Silent
<1> DEFINE status == StatusFor(entry.turn, age)
<1> DEFINE told == Verdict(entry, stalled, status)
<1>1. /\ poll = "lines" /\ poll' = "idle" /\ todo' = todo \o told
      /\ entry' = [entry EXCEPT !.status = status, !.alerted = stalled]
      /\ UNCHANGED <<row, grid>> /\ outside' = Retold(entry, stalled, status)
  BY DEF PollJudges, JudgedAge, shownVars
<1>2. entry \in FileState /\ entry # Absent /\ age \in Nat /\ todo \in Seq(Events)
  BY <1>1 DEF SourceInv, DetTyped, StallInv, ShownTyped
<1>3. stalled \in BOOLEAN /\ status \in Statuses
  BY StatusTyped
<1>4. stalled => status = IF entry.stopped THEN "Idle" ELSE "Running"
  BY <1>2, StalledStatus
<1> HIDE DEF stalled, status
<1>5. /\ told \in Seq(Events)
      /\ stalled /\ ~entry.alerted =>
           told # <<>> /\ told[Len(told)] = AlertEvent("Incomplete")
      /\ stalled = entry.alerted =>
           \A i \in 1..Len(told) : told[i] = StatusEvent(status) /\ entry.status # status
  BY <1>2, <1>3, VerdictTells
<1> HIDE DEF told
<1>6. /\ entry'.alerted = stalled /\ entry'.status = status /\ entry'.stopped = entry.stopped
      /\ todo' \in Seq(Events)
  BY <1>1, <1>2, <1>5 DEF FileState
<1>7. ShownTyped' /\ (InStep => InStep')
  BY <1>1, <1>6 DEF StallInv, ShownTyped, InStep
<1>8. entry'.alerted => RaisedWith'
  BY <1>2, <1>4, <1>6 DEF RaisedWith, FileState
<1>9. CASE stalled /\ ~entry.alerted
  <2>1. told # <<>> /\ told[Len(told)] = AlertEvent("Incomplete")
    BY <1>5, <1>9
  <2>2. todo' # <<>> /\ todo'[Len(todo')] = told[Len(told)]
    BY <1>1, <1>2, <1>5, <2>1
  <2>3. RaisedIsComing'
    BY <1>1, <2>1, <2>2 DEF RaisedIsComing
  <2>4. "tile" \notin outside' => "tile" \notin outside \/ InStep
    BY <1>1, <1>9 DEF Retold, InStep
  <2>5. QED
    BY <1>1, <1>7, <1>8, <2>3, <2>4 DEF StallInv
<1>10. CASE ~(stalled /\ ~entry.alerted)
  <2>1. "tile" \notin outside' => "tile" \notin outside
    BY <1>1, <1>10 DEF Retold
  <2>2. ASSUME entry'.alerted, RaisedIsComing PROVE RaisedIsComing'
    <3>1. stalled = entry.alerted /\ stalled
      BY <1>2, <1>3, <1>6, <1>10, <2>2 DEF FileState
    <3>2. grid.alert # None /\ (\A i \in 1..Len(todo) : Harmless(todo[i])) /\ RaisedWith
      BY <1>1, <1>2, <2>2, <3>1 DEF StallInv, RaisedIsComing
    <3>3. entry.status # status => status # "Running"
      BY <1>4, <3>1, <3>2 DEF RaisedWith
    <3>4. \A i \in 1..Len(told) : Harmless(told[i])
      <4>1. \A i \in 1..Len(told) : told[i] = StatusEvent(status) /\ entry.status # status
        BY <1>5, <3>1
      <4>2. QED
        BY <3>3, <4>1 DEF Harmless, StatusEvent
    <3>5. \A i \in 1..Len(todo') : Harmless(todo'[i])
      BY <1>1, <1>2, <1>5, <3>2, <3>4, HarmlessAppended
    <3>6. QED
      BY <1>1, <3>2, <3>5 DEF RaisedIsComing
  <2>3. entry'.alerted => entry.alerted
    BY <1>2, <1>3, <1>6, <1>10 DEF FileState
  <2>4. QED
    BY <1>1, <1>2, <1>7, <1>8, <2>1, <2>2, <2>3 DEF StallInv
<1>11. QED
  BY <1>9, <1>10

\* A command amends the session and keeps its status.
LEMMA CommandKeepsStall ==
  ASSUME SourceInv, StallInv, NEW r \in Rows, row # Absent, r.status = row.status, Command(r)
  PROVE  StallInv'
<1>1. /\ Amended(r) /\ poll = "idle" /\ todo = <<>> /\ UNCHANGED <<entry, poll, todo, outside>>
  BY DEF Command, AtRest, pollVars
<1>2. row' \in Rows /\ grid' \in Tiles /\ InStep'
  BY <1>1, UpsertTells DEF StallInv, ShownTyped
<1>3. InStep => grid'.alert = grid.alert
  BY <1>1, UpsertSpares DEF StallInv, ShownTyped
<1>4. QED
  BY <1>1, <1>2, <1>3 DEF StallInv, ShownTyped, RaisedIsComing, RaisedWith

\* Nothing is raised before anything is read.
LEMMA StallStarts == Init => StallInv
<1> SUFFICES ASSUME Init PROVE StallInv
  OBVIOUS
<1>1. todo = <<>> /\ row = Absent /\ grid = NoTile /\ entry = Absent
  BY DEF Init
<1>2. NoTile \in Tiles
  BY DEF NoTile, Tiles, Statuses
<1>3. QED
  BY <1>1, <1>2 DEF StallInv, ShownTyped, InStep

\* Every step of the agent, the poll, the supervisor and the operator.
LEMMA StallStepKeeps == SourceInv /\ StallInv /\ [Next]_vars => StallInv'
<1> SUFFICES ASSUME SourceInv, StallInv, [Next]_vars PROVE StallInv'
  OBVIOUS
<1>1. ASSUME UNCHANGED <<entry, poll, todo, shownVars, outside>> PROVE StallInv'
  BY <1>1 DEF StallInv, ShownTyped, InStep, RaisedIsComing, RaisedWith, shownVars
<1>2. CASE (\E l \in Written : Write(l) \/ Rewrite(l)) \/ BeginLine \/ Ageing
  BY <1>1, <1>2 DEF Write, Rewrite, BeginLine, Ageing, pollVars
<1>3. CASE PollLists
  <2>1. /\ poll = "idle" /\ todo = <<>> /\ poll' = "read"
        /\ UNCHANGED <<entry, todo, shownVars, outside>>
    BY <1>3 DEF PollLists, AtRest
  <2>2. QED
    BY <2>1 DEF StallInv, ShownTyped, InStep, RaisedIsComing, RaisedWith, shownVars
<1>4. CASE PollMisses
  <2>1. /\ poll = "idle" /\ todo = <<>> /\ entry # Absent /\ UNCHANGED <<poll, shownVars, outside>>
        /\ \/ entry' = [entry EXCEPT !.missed = @ + 1] /\ UNCHANGED todo
           \/ entry' = Absent /\ todo' = <<EndedEvent>>
    BY <1>4 DEF PollMisses, AtRest
  <2>2. CASE entry' = [entry EXCEPT !.missed = @ + 1] /\ UNCHANGED todo
    <3>1. /\ entry'.alerted = entry.alerted /\ entry'.status = entry.status
          /\ entry'.stopped = entry.stopped
      BY <2>1, <2>2 DEF SourceInv, DetTyped, FileState
    <3>2. QED
      BY <2>1, <2>2, <3>1
      DEF StallInv, ShownTyped, InStep, RaisedIsComing, RaisedWith, shownVars
  <2>3. CASE entry' = Absent /\ todo' = <<EndedEvent>>
    <3>1. todo' \in Seq(Events)
      BY <2>3, EventsAre
    <3>2. QED
      BY <2>1, <2>3, <3>1 DEF StallInv, ShownTyped, InStep, shownVars
  <2>4. QED
    BY <2>1, <2>2, <2>3
<1>5. CASE PollReads
  <2> DEFINE rotated == entry # Absent /\ FileLen < entry.offset
  <2> DEFINE e == EntryFor(rotated)
  <2>1. /\ poll = "read" /\ poll' = "lines" /\ UNCHANGED <<shownVars, outside>>
        /\ entry' = [e EXCEPT !.missed = 0, !.offset = Consumed]
        /\ todo' = IF entry = Absent \/ rotated THEN <<DiscoveredEvent>> ELSE <<>>
    BY <1>5 DEF PollReads
  <2>2. e = (IF entry = Absent \/ rotated THEN FreshEntry ELSE entry)
    BY DEF EntryFor
  <2> HIDE DEF rotated, e
  <2>3. todo' \in Seq(Events) /\ todo = <<>>
    BY <2>1, EventsAre DEF StallInv
  <2>4. ShownTyped' /\ (InStep => InStep')
    BY <2>1, <2>3 DEF StallInv, ShownTyped, InStep, shownVars
  <2>5. CASE entry = Absent \/ rotated
    <3>1. entry'.alerted = FALSE
      BY <2>1, <2>2, <2>5 DEF FreshEntry
    <3>2. QED
      BY <2>1, <2>4, <3>1 DEF StallInv
  <2>6. CASE ~(entry = Absent \/ rotated)
    <3>1. /\ entry'.alerted = entry.alerted /\ entry'.status = entry.status
          /\ entry'.stopped = entry.stopped /\ todo' = <<>>
      BY <2>1, <2>2, <2>6 DEF SourceInv, DetTyped, FileState
    <3>2. entry'.alerted => RaisedWith /\ (RaisedIsComing => grid.alert # None)
      BY <2>3, <2>6, <3>1 DEF StallInv, RaisedIsComing
    <3>3. QED
      BY <2>1, <2>4, <3>1, <3>2 DEF StallInv, RaisedIsComing, RaisedWith, shownVars
  <2>7. QED
    BY <2>5, <2>6
<1>6. CASE PollFails
  <2>1. poll = "read" /\ poll' = "idle" /\ UNCHANGED <<entry, todo, shownVars, outside>>
    BY <1>6 DEF PollFails
  <2>2. QED
    BY <2>1 DEF StallInv, ShownTyped, InStep, RaisedIsComing, RaisedWith, shownVars
<1>7. CASE PollParses
  BY <1>7, ParsingKeepsStall
<1>8. CASE PollJudges
  BY <1>8, JudgingKeepsStall
<1>9. CASE Handle
  BY <1>9, HandleKeepsStall
<1>10. CASE ReportBlocked
  <2>1. /\ grid' = [grid EXCEPT !.alert = "Stuck"] /\ todo = <<>>
        /\ UNCHANGED <<row, entry, poll, todo, outside>>
    BY <1>10 DEF ReportBlocked, Publish, OnGrid, Alerted, AtRest, pollVars
  <2>2. grid' \in Tiles /\ grid'.alert # None /\ (InStep => InStep')
    BY <2>1, DetectionAssumption DEF StallInv, ShownTyped, Tiles, InStep
  <2>3. QED
    BY <2>1, <2>2 DEF StallInv, ShownTyped, RaisedIsComing, RaisedWith
<1>11. CASE Adopt
  <2> DEFINE r == [row EXCEPT !.adopted = TRUE]
  <2>1. row # Absent /\ Command(r) /\ r \in Rows /\ r.status = row.status
    BY <1>11 DEF Adopt, StallInv, ShownTyped, Rows
  <2> HIDE DEF r
  <2>2. QED
    BY <2>1, CommandKeepsStall
<1>12. CASE OperatorMovesPhase
  <2>1. row # Absent /\ row \in Rows
    BY <1>12 DEF OperatorMovesPhase, StallInv, ShownTyped
  <2>2. PICK r : /\ Command(r)
                 /\ \/ r = [row EXCEPT !.phase = "AutoImplement"]
                    \/ r = [row EXCEPT !.phase = "AutoImplement", !.pinned = TRUE]
                    \/ r = [row EXCEPT !.pinned = FALSE]
    BY <1>12, Zenon DEF OperatorMovesPhase
  <2>3. r \in Rows /\ r.status = row.status
    BY <2>1, <2>2 DEF Rows
  <2>4. QED
    BY <2>1, <2>2, <2>3, CommandKeepsStall
<1>13. CASE Restart
  <2>1. /\ entry' = Absent /\ poll' = "idle" /\ todo' = <<>>
        /\ \/ /\ Governed
              /\ row' = [row EXCEPT !.status = "Idle"]
              /\ grid' = OnGrid(NoTile, Upserted(row'))
           \/ row' = Absent /\ grid' = NoTile
    BY <1>13 DEF Restart
  <2>2. CASE Governed /\ row' = [row EXCEPT !.status = "Idle"]
             /\ grid' = OnGrid(NoTile, Upserted(row'))
    <3>1. row' \in Rows /\ row'.status = "Idle"
      BY <2>2 DEF Governed, StallInv, ShownTyped, Rows, Statuses
    <3>2. grid' = [shown |-> TRUE, status |-> "Idle", alert |-> None]
      BY <2>2, <3>1 DEF OnGrid, Upserted, Cleared, NoTile
    <3>3. QED
      BY <2>1, <3>1, <3>2 DEF StallInv, ShownTyped, InStep, Tiles, Statuses
  <2>3. CASE row' = Absent /\ grid' = NoTile
    BY <2>1, <2>3 DEF StallInv, ShownTyped, InStep, Tiles, Statuses, NoTile
  <2>4. QED
    BY <2>1, <2>2, <2>3
<1>14. CASE \E st \in {"WaitingInput", "Running"} : Told(st)
  <2>1. PICK st \in Statuses : Told(st)
    BY <1>14 DEF Statuses
  <2>2. "tile" \in outside' /\ UNCHANGED <<row, entry, poll, todo>> /\ grid' \in Tiles
    BY <2>1, StatusTells DEF Told, pollVars, StallInv, ShownTyped
  <2>3. QED
    BY <2>2 DEF StallInv, ShownTyped, RaisedWith
<1>15. CASE Resumed
  <2>1. /\ "tile" \in outside' /\ UNCHANGED <<entry, poll, todo>> /\ grid' \in Tiles
        /\ row' = IF row = Absent THEN Absent ELSE [row EXCEPT !.status = "Running"]
    BY <1>15, StatusTells DEF Resumed, pollVars, StallInv, ShownTyped, Statuses
  <2>2. row' # Absent => row' \in Rows
    BY <2>1 DEF StallInv, ShownTyped, Rows, Statuses
  <2>3. QED
    BY <2>1, <2>2 DEF StallInv, ShownTyped, RaisedWith
<1>16. CASE Forget
  <2>1. /\ "tile" \in outside' /\ UNCHANGED <<entry, poll, todo>> /\ grid' = NoTile
        /\ row' = Absent
    BY <1>16 DEF Forget, pollVars, Publish, OnGrid, Removed
  <2>2. NoTile \in Tiles
    BY DEF NoTile, Tiles, Statuses
  <2>3. QED
    BY <2>1, <2>2 DEF StallInv, ShownTyped, RaisedWith
<1>17. CASE UNCHANGED vars
  BY <1>1, <1>17 DEF vars, pollVars
<1>18. QED
  BY <1>2, <1>3, <1>4, <1>5, <1>6, <1>7, <1>8, <1>9, <1>10, <1>11, <1>12, <1>13, <1>14,
     <1>15, <1>16, <1>17
  DEF Next, PollGoesOn

\* Once all of a poll is handled, a stall the source holds as raised is on the tile, for any
\* transcript and whatever the operator, the agent or a restart does between the polls: the
\* alert follows the status that would clear it, and no status after it does. A hold, a
\* resume or a forgotten session can take it down: from there on nothing is claimed until a
\* stall is raised on a tile that is as its session is.
THEOREM StallIsAlwaysShown == Spec => []StallIsShown
<1>1. StallInv => StallIsShown
  BY DEF StallInv, StallIsShown, RaisedIsComing, AtRest
<1>2. Spec => []StallInv
  BY StallStarts, StallStepKeeps, SourceIsRight, PTL DEF Spec
<1>3. QED
  BY <1>1, <1>2, PTL
=============================================================================
