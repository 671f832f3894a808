----------------------------- MODULE ReviewPanel -----------------------------
(***************************************************************************)
(* The desktop's review panel (apps/desktop code_review.rs) over a ledger  *)
(* that the session goes on writing: the two-second poll, the file on      *)
(* screen, and the composer that hangs on its lines.                       *)
(***************************************************************************)
EXTENDS Naturals, FiniteSets

CONSTANTS NFiles, MaxTouches   \* bounds: files, writes of each that the ledger sees

ASSUME PanelAssumption == NFiles \in Nat \ {0} /\ MaxTouches \in Nat

VARIABLES
  touches,    \* file -> how often the ledger saw the session write it; 0: no row
  dirty,      \* files that differ from HEAD
  base,       \* DiffBase: what the panes compare against
  listed,     \* the panel's copy of the ledger: file -> touches
  git,        \* the panel's list of files changed since HEAD
  selected,   \* index of the file on screen in the list of the base, or 0
  pane,       \* the file whose rows are on screen, or 0
  selection,  \* whether lines of those rows are selected
  composer,   \* whether comment_input is shown, and what it was editing
  ignored, armed    \* hidden files; the file a second click reverts, or 0

panelVars == <<touches, dirty, base, listed, git, selected, pane, selection, composer,
               ignored, armed>>
worldVars == <<touches, dirty>>
viewVars  == <<base, listed, git, selected, pane, selection, composer>>

Paths == 1..NFiles     \* in path order, as load_ledger sorts them
Listed(l) == {f \in Paths : l[f] # 0}

\* The list of the base, and the file at an index of it.
ListOf(b, l, g) == IF b = "Session" THEN Listed(l) ELSE g
IndexIn(set, f) == Cardinality({g \in set : g <= f})
FileAt(set, i)  == CHOOSE f \in set : IndexIn(set, f) = i

-----------------------------------------------------------------------------

\* The session writes a file, or is seen to have put it back as HEAD has it.
SessionWrites(f, same) ==
  /\ touches[f] < MaxTouches /\ touches' = [touches EXCEPT ![f] = @ + 1]
  /\ dirty' = IF same THEN dirty \ {f} ELSE dirty \cup {f}
  /\ UNCHANGED <<viewVars, ignored, armed>>

OperatorEdits(f) ==
  /\ dirty' = dirty \cup {f} /\ f \notin dirty
  /\ UNCHANGED <<touches, viewVars, ignored, armed>>

-----------------------------------------------------------------------------
(* Showing a file *)

Hidden == [shown |-> FALSE, editing |-> FALSE]
Dismissed(c) == [c EXCEPT !.shown = FALSE]

\* select: the panes are rebuilt; the composer goes, what it was editing does not.
Select(b, l, g, i) ==
  /\ selected' = i
  /\ pane' = IF i \in 1..Cardinality(ListOf(b, l, g)) THEN FileAt(ListOf(b, l, g), i) ELSE 0
  /\ selection' = FALSE
  /\ composer' = Dismissed(composer)

SelectFile(i) ==
  /\ i \in 1..Cardinality(ListOf(base, listed, git))
  /\ Select(base, listed, git, i)
  /\ UNCHANGED <<worldVars, base, listed, git, ignored, armed>>

\* begin_select: the composer goes here too.
SelectLines ==
  /\ pane # 0
  /\ selection' = TRUE /\ composer' = Dismissed(composer)
  /\ UNCHANGED <<worldVars, base, listed, git, selected, pane, ignored, armed>>

\* Mutant: the index is kept whatever moved in the list.
FollowIndex(l) ==
  IF selected # 0 /\ Listed(l) # {} THEN UNCHANGED <<selected, pane, selection, composer>>
  ELSE IF Listed(l) # {} THEN Select("Session", l, git, 1)
  ELSE UNCHANGED <<selected, pane, selection, composer>>

\* The shown file is followed by its path: re-pointed, or rebuilt when it was written
\* again; gone, the first one is shown.
FollowPath(l) ==
  LET before == Listed(listed)
      showing == IF selected \in 1..Cardinality(before) THEN FileAt(before, selected) ELSE 0
  IN
  \/ /\ showing \in Listed(l) /\ l[showing] = listed[showing]
     /\ selected' = IndexIn(Listed(l), showing)
     /\ UNCHANGED <<pane, selection, composer>>
  \/ /\ showing \in Listed(l) /\ l[showing] # listed[showing]
     /\ Select("Session", l, git, IndexIn(Listed(l), showing))
  \/ /\ showing \notin Listed(l) /\ Listed(l) # {}
     /\ Select("Session", l, git, 1)
  \/ /\ Listed(l) = {} /\ UNCHANGED <<selected, pane, selection, composer>>

\* poll_ledger: the list is left alone while a comment is composed.
PollLedger ==
  /\ base = "Session"
  /\ \/ composer.shown /\ UNCHANGED viewVars
     \/ /\ ~composer.shown
        /\ listed' = touches
        /\ IF touches = listed THEN UNCHANGED <<selected, pane, selection, composer>>
           ELSE FollowPath(touches)
        /\ UNCHANGED <<base, git>>
  /\ UNCHANGED <<worldVars, ignored, armed>>

\* reload: everything shown goes; an empty ledger falls back to git.
Reload(b, l) ==
  LET to == IF b = "Session" /\ Listed(l) = {} THEN "GitHead" ELSE b IN
  /\ base' = to /\ listed' = l
  /\ git' = IF to = "GitHead" THEN dirty ELSE git
  /\ selection' = FALSE /\ composer' = Dismissed(composer)
  /\ LET set == ListOf(to, l, dirty) IN
       /\ selected' = IF set = {} THEN 0 ELSE 1
       /\ pane' = IF set = {} THEN 0 ELSE FileAt(set, 1)

SetBase(b) ==
  /\ b # base /\ Reload(b, touches)
  /\ UNCHANGED <<worldVars, ignored, armed>>

\* approve_now: the session's rows go, and the pass with them.
ApprovePass ==
  /\ touches' = [f \in Paths |-> 0]
  /\ ignored' = {} /\ Reload(base, touches')
  /\ UNCHANGED <<dirty, armed>>

\* clear_changes, in the session monitor: the rows go and no panel is told.
ClearedElsewhere ==
  /\ touches' = [f \in Paths |-> 0]
  /\ UNCHANGED <<dirty, viewVars, ignored, armed>>

-----------------------------------------------------------------------------
(* The composer *)

Compose(c) ==
  /\ composer' = c
  /\ UNCHANGED <<worldVars, base, listed, git, selected, pane, selection, ignored, armed>>

\* The comment button hangs under the selection while nothing is being composed.
BeginComment == selection /\ ~composer.shown /\ Compose([composer EXCEPT !.shown = TRUE])
BeginScopedComment == Compose([shown |-> TRUE, editing |-> FALSE])
BeginEdit == Compose([shown |-> TRUE, editing |-> TRUE])
CancelComment == composer # Hidden /\ Compose(Hidden)

\* save_comment: rewrites the comment it is editing, or adds one on the selected lines,
\* unless it is blank.
SaveComment ==
  /\ composer.shown
  /\ composer' = Hidden
  /\ \/ UNCHANGED selection
     \/ ~composer.editing /\ selection' = FALSE
  /\ UNCHANGED <<worldVars, base, listed, git, selected, pane, ignored, armed>>

-----------------------------------------------------------------------------
(* Hiding and reverting files *)

\* ignore_path: the shown file may be the one hidden.
IgnorePath(f) ==
  LET left == {i \in 1..Cardinality(Listed(listed)) :
                 FileAt(Listed(listed), i) \notin ignored \cup {f}} IN
  /\ base = "Session" /\ f \in Listed(listed) \ ignored
  /\ ignored' = ignored \cup {f}
  /\ \/ selected \in left /\ UNCHANGED <<selected, pane, selection, composer>>
     \/ /\ selected \notin left /\ left # {}
        /\ Select(base, listed, git, CHOOSE i \in left : \A j \in left : i <= j)
     \/ /\ left = {}
        /\ selected' = 0 /\ pane' = 0 /\ UNCHANGED <<selection, composer>>
  /\ UNCHANGED <<worldVars, base, listed, git, armed>>

ClearIgnored ==
  /\ ignored # {} /\ ignored' = {}
  /\ UNCHANGED <<worldVars, viewVars, armed>>

\* revert_file: the second click writes the baseline back and shows the file.
RevertFile(f) ==
  /\ base = "Session" /\ f \in Listed(listed)
  /\ \/ /\ armed # f /\ armed' = f
        /\ UNCHANGED <<worldVars, viewVars>>
     \/ /\ armed = f /\ armed' = 0
        /\ \/ /\ touches[f] # 0 /\ dirty' = dirty \ {f}
              /\ Select(base, listed, git, IndexIn(Listed(listed), f))
           \/ touches[f] = 0 /\ UNCHANGED <<dirty, selected, pane, selection, composer>>
        /\ UNCHANGED <<touches, base, listed, git>>
  /\ UNCHANGED ignored

-----------------------------------------------------------------------------
(* The specification *)

PanelInit ==
  /\ touches = [f \in Paths |-> IF f = NFiles THEN 1 ELSE 0]
  /\ dirty = {NFiles}
  /\ base = "Session" /\ listed = touches /\ git = {}
  /\ selected = 1 /\ pane = NFiles /\ selection = FALSE /\ composer = Hidden
  /\ ignored = {} /\ armed = 0

PanelNext ==
  \/ \E f \in Paths : \/ \E same \in BOOLEAN : SessionWrites(f, same)
                      \/ OperatorEdits(f)
  \/ \E i \in Paths : SelectFile(i)
  \/ SelectLines \/ PollLedger
  \/ \E b \in {"Session", "GitHead"} : SetBase(b)
  \/ ApprovePass \/ ClearedElsewhere
  \/ BeginComment \/ BeginScopedComment \/ BeginEdit \/ CancelComment \/ SaveComment
  \/ \E f \in Paths : IgnorePath(f) \/ RevertFile(f)
  \/ ClearIgnored

PanelSpec == PanelInit /\ [][PanelNext]_panelVars

-----------------------------------------------------------------------------
(* Properties *)

\* While the list is not empty, the rows on screen are those of the file that a comment on
\* them would name, however the session's writes reorder and grow the list
\* (poll_ledger: "follow it by path rather than by position").
ShownIsSelected ==
  LET set == ListOf(base, listed, git) IN
  pane # 0 /\ set # {} => selected \in 1..Cardinality(set) /\ FileAt(set, selected) = pane
=============================================================================
