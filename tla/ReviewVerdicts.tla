--------------------------- MODULE ReviewVerdicts ---------------------------
(***************************************************************************)
(* Which files of a session's ledger the review panel says have nothing    *)
(* left in them (apps/desktop code_review.rs recheck_unchanged): a cheap   *)
(* stamp on the two-second poll, an expensive read in the background, and  *)
(* a tree that the session and the operator go on writing meanwhile.       *)
(***************************************************************************)
EXTENDS Naturals

CONSTANTS Reviewed, MaxWrites   \* the files under review; bound: writes of the tree

ASSUME VerdictsAssumption == MaxWrites \in Nat

VARIABLES
  row,       \* file -> how often the ledger saw the session write it; 0: no row
  onDisk,    \* file -> [stamp, same]: its len and mtime, and whether it is its baseline
  writes,    \* writes of the tree so far
  shown,     \* the panel's copy of the ledger, and whether it is on that base at all
  composing, \* whether a comment is being written
  checked, unchanged, reads   \* stamps judged, files judged, background reads

verdictVars == <<row, onDisk, writes, shown, composing, checked, unchanged, reads>>
outsideVars == <<row, onDisk, writes>>
judgeVars   == <<checked, unchanged, reads>>

NoStamp == <<0, 0>>
StampOf(l, f) == <<l[f], onDisk[f].stamp>>

-----------------------------------------------------------------------------

\* The session writes a file, which the ledger sees; the operator's own edits it does not.
Writes(f, same, seen) ==
  /\ writes < MaxWrites /\ writes' = writes + 1
  /\ onDisk' = [onDisk EXCEPT ![f] = [stamp |-> writes + 1, same |-> same]]
  /\ row' = IF seen THEN [row EXCEPT ![f] = @ + 1] ELSE row
  /\ UNCHANGED <<shown, composing, judgeVars>>

\* revert_file: the baseline is written back; the ledger does not move.
Reverts(f) == shown.rows[f] # 0 /\ row[f] # 0 /\ Writes(f, TRUE, FALSE)

ReadsOf(l, files) == {[file |-> f, stamp |-> StampOf(l, f), same |-> "unread"] : f \in files}

\* Mutant: a file judged once is not asked about again.
RecheckOnce(l) ==
  /\ checked' = [f \in Reviewed |-> IF l[f] # 0 THEN checked[f] ELSE NoStamp]
  /\ unchanged' = {f \in unchanged : l[f] # 0}
  /\ reads' = reads \cup ReadsOf(l, {f \in Reviewed : l[f] # 0 /\ checked[f] = NoStamp})

\* recheck_unchanged: files that left the ledger lose their verdict; those whose stamp
\* moved are read again.
Recheck(l) ==
  /\ checked' = [f \in Reviewed |-> IF l[f] # 0 THEN checked[f] ELSE NoStamp]
  /\ unchanged' = {f \in unchanged : l[f] # 0}
  /\ reads' = reads \cup ReadsOf(l, {f \in Reviewed : l[f] # 0 /\ checked[f] # StampOf(l, f)})

\* poll_ledger: verdicts first; the list is left alone while a comment is composed.
Poll ==
  /\ shown.session
  /\ Recheck(shown.rows)
  /\ shown' = IF composing THEN shown ELSE [shown EXCEPT !.rows = row]
  /\ UNCHANGED <<outsideVars, composing>>

\* The background task looks at the file, then the panel takes the verdict, with the stamp
\* of before the read (is_back_to_baseline: no baseline is never "nothing left").
ReadVerdict(v) ==
  /\ v \in reads /\ v.same = "unread"
  /\ reads' = (reads \ {v}) \cup
       {[v EXCEPT !.same = IF row[v.file] # 0 /\ onDisk[v.file].same THEN "yes" ELSE "no"]}
  /\ UNCHANGED <<outsideVars, shown, composing, checked, unchanged>>

TakeVerdict(v) ==
  /\ v \in reads /\ v.same # "unread"
  /\ reads' = reads \ {v}
  /\ checked' = [checked EXCEPT ![v.file] = v.stamp]
  /\ unchanged' = IF v.same = "yes" THEN unchanged \cup {v.file} ELSE unchanged \ {v.file}
  /\ UNCHANGED <<outsideVars, shown, composing>>

\* reload, under the base the operator picks or after a pass was approved: an empty ledger
\* falls back to git.
Reloads(session, l) ==
  LET on == session /\ \E f \in Reviewed : l[f] # 0 IN
  /\ shown' = [session |-> on, rows |-> l] /\ composing' = FALSE
  /\ IF on THEN Recheck(l) ELSE UNCHANGED judgeVars

PicksBase == Reloads(~shown.session, row) /\ UNCHANGED outsideVars

ApprovesPass ==
  /\ row' = [f \in Reviewed |-> 0]
  /\ Reloads(shown.session, row')
  /\ UNCHANGED <<onDisk, writes>>

Composes == composing' = ~composing /\ UNCHANGED <<outsideVars, shown, judgeVars>>

-----------------------------------------------------------------------------

VerdictsInit ==
  /\ row \in [Reviewed -> {0, 1}]
  /\ onDisk = [f \in Reviewed |-> [stamp |-> 0, same |-> row[f] = 0]] /\ writes = 0
  /\ shown = [session |-> \E f \in Reviewed : row[f] # 0, rows |-> row] /\ composing = FALSE
  /\ checked = [f \in Reviewed |-> NoStamp] /\ unchanged = {}
  /\ reads = ReadsOf(row, {f \in Reviewed : row[f] # 0})

VerdictsNext ==
  \/ \E f \in Reviewed, same, seen \in BOOLEAN : Writes(f, same, seen)
  \/ \E f \in Reviewed : Reverts(f)
  \/ Poll
  \/ \E v \in reads : ReadVerdict(v) \/ TakeVerdict(v)
  \/ PicksBase \/ ApprovesPass \/ Composes

\* The two-second timer fires and the background reads end; nothing else need happen.
ReadGoesOn(f) == \E v \in reads : v.file = f /\ ReadVerdict(v)
ReadIsTaken(f) == \E v \in reads : v.file = f /\ TakeVerdict(v)

VerdictsFairness ==
  /\ WF_verdictVars(Poll)
  /\ \A f \in Reviewed : WF_verdictVars(ReadGoesOn(f)) /\ WF_verdictVars(ReadIsTaken(f))

VerdictsSpec == VerdictsInit /\ [][VerdictsNext]_verdictVars /\ VerdictsFairness

-----------------------------------------------------------------------------
(* Properties *)

\* Once the tree is left alone and the panel stays on the ledger, a listed file is marked
\* as having nothing left exactly when it is its baseline: a verdict read while the file
\* was moving, or taken after a later one, is asked for again (recheck_unchanged: "asks
\* again rather than trusting a stale answer").
VerdictsSettle ==
  <>[][UNCHANGED outsideVars]_verdictVars /\ <>[](shown.session /\ ~composing)
    => <>[](\A f \in Reviewed : shown.rows[f] # 0 => (f \in unchanged <=> onDisk[f].same))
=============================================================================
