------------------------------ MODULE EditorTabs ------------------------------
(***************************************************************************)
(* A project file open in editor tabs (code_editor.rs) while an agent may  *)
(* be writing it. The edit gate (edit_gate.rs) folds the focused session's *)
(* phase off the bus and locks the tabs while that session implements.     *)
(* Contents are numbered: 0 is the file as it was, every edit and every    *)
(* write of the agent makes a new one.                                     *)
(***************************************************************************)
EXTENDS Naturals, Sequences

CONSTANTS
  Tabs,                    \* the tabs a split may show the file in
  MaxContents, MaxMoves    \* bounds: contents made, phase facts not yet folded

ASSUME EditorAssumption == MaxContents \in Nat /\ MaxMoves \in Nat

VARIABLES
  phase,     \* the session's phase in the engine
  gateFacts, tileFacts,   \* its phase facts the gate and the grid have not folded
  tile,      \* the phase on the grid's tile
  focused_phase,   \* the gate's, or Unfocused
  disk,      \* the file: its content and who wrote it
  views,      \* per tab: open, the content shown, dirty, and the content it last synced
  made       \* contents made so far

editorVars == <<phase, gateFacts, tileFacts, tile, focused_phase, disk, views, made>>
focusVars   == <<phase, gateFacts, tileFacts, tile, focused_phase>>

EditPhases    == {"AutoImplement", "Review"}
Unfocused == "Unfocused"
Closed    == [open |-> FALSE, shown |-> 0, synced |-> 0, dirty |-> FALSE]

\* editable_for, of a file under the focused session's root.
Locked == focused_phase = "AutoImplement"

-----------------------------------------------------------------------------
(* The engine, the bus and the gate *)

Transition(p) ==
  /\ p # phase /\ phase' = p
  /\ Len(gateFacts) < MaxMoves /\ gateFacts' = Append(gateFacts, p)
  /\ Len(tileFacts) < MaxMoves /\ tileFacts' = Append(tileFacts, p)
  /\ UNCHANGED <<tile, focused_phase, disk, views, made>>

GateFolds ==
  /\ gateFacts # <<>> /\ gateFacts' = Tail(gateFacts)
  /\ focused_phase' = IF focused_phase = Unfocused THEN Unfocused ELSE Head(gateFacts)
  /\ UNCHANGED <<phase, tileFacts, tile, disk, views, made>>

GridFolds ==
  /\ tileFacts # <<>> /\ tileFacts' = Tail(tileFacts) /\ tile' = Head(tileFacts)
  /\ UNCHANGED <<phase, gateFacts, focused_phase, disk, views, made>>

\* open_session: the gate is seeded with the phase the grid's tile shows.
FocusSession ==
  /\ focused_phase' = tile
  /\ UNCHANGED <<phase, gateFacts, tileFacts, tile, disk, views, made>>

\* The agent writes the file; no tab hears of it.
AgentWrites ==
  /\ phase = "AutoImplement" /\ made < MaxContents
  /\ made' = made + 1 /\ disk' = [content |-> made + 1, by |-> "agent"]
  /\ UNCHANGED <<focusVars, views>>

-----------------------------------------------------------------------------
(* The tabs *)

\* open, also of a split: the file is read once.
OpenTab(t) ==
  /\ ~views[t].open
  /\ views' = [views EXCEPT ![t] = [open |-> TRUE, shown |-> disk.content,
                                  synced |-> disk.content, dirty |-> FALSE]]
  /\ UNCHANGED <<focusVars, disk, made>>

CloseEditor(t) ==
  /\ views[t].open /\ views' = [views EXCEPT ![t] = Closed]
  /\ UNCHANGED <<focusVars, disk, made>>

Changed(t) ==
  /\ views[t].open /\ made < MaxContents /\ made' = made + 1
  /\ views' = [views EXCEPT ![t].shown = made + 1, ![t].dirty = TRUE]
  /\ UNCHANGED <<focusVars, disk>>

\* The input takes keys unless it is rendered disabled.
Type(t) == ~Locked /\ Changed(t)

\* set_eol: another line ending on the next save.
SetEol(t) == Changed(t)

\* Mutant: the tab is marked clean before the write has succeeded.
WriteMarksFirst(t, ok) ==
  /\ disk' = IF ok THEN [content |-> views[t].shown, by |-> "operator"] ELSE disk
  /\ views' = [views EXCEPT ![t].dirty = FALSE,
                          ![t].synced = IF ok THEN views[t].shown ELSE @]

\* The write of save: the tab is clean if it succeeds.
Write(t, ok) ==
  /\ disk' = IF ok THEN [content |-> views[t].shown, by |-> "operator"] ELSE disk
  /\ views' = IF ok THEN [views EXCEPT ![t].dirty = FALSE, ![t].synced = views[t].shown]
                   ELSE views

Save(t, ok) ==
  /\ views[t].open /\ views[t].dirty
  /\ Write(t, ok)
  /\ UNCHANGED <<focusVars, made>>

\* format_document: the buffer is written, dirty or not; without a formatter, or when it
\* fails, it stays at that; else the tab shows what the formatter made of the file.
FormatDocument(t) ==
  /\ views[t].open /\ ~Locked
  /\ \/ /\ disk' = [content |-> views[t].shown, by |-> "operator"]
        /\ views' = [views EXCEPT ![t].synced = views[t].shown]
        /\ UNCHANGED made
     \/ /\ made < MaxContents /\ made' = made + 1
        /\ disk' = [content |-> made + 1, by |-> "operator"]
        /\ views' = [views EXCEPT ![t] = [open |-> TRUE, shown |-> made + 1,
                                        synced |-> made + 1, dirty |-> FALSE]]
  /\ UNCHANGED focusVars

-----------------------------------------------------------------------------

EditorInit ==
  /\ phase \in EditPhases /\ gateFacts = <<>> /\ tileFacts = <<>> /\ tile = phase
  /\ focused_phase = Unfocused /\ disk = [content |-> 0, by |-> "agent"]
  /\ views = [t \in Tabs |-> Closed] /\ made = 0

EditorNext ==
  \/ \E p \in EditPhases : Transition(p)
  \/ GateFolds \/ GridFolds \/ FocusSession \/ AgentWrites
  \/ \E t \in Tabs : \/ OpenTab(t) \/ CloseEditor(t) \/ Type(t) \/ SetEol(t) \/ FormatDocument(t)
                     \/ \E ok \in BOOLEAN : Save(t, ok)

EditorSpec == EditorInit /\ [][EditorNext]_editorVars

-----------------------------------------------------------------------------
(* Properties *)

\* What a tab shows was once in the file, read from it or put there by this tab, or it is
\* marked as unsaved, through failed saves, formatters that fail half-way and a second tab on
\* the file. What the file holds now is another matter: the agent or the other tab may have
\* written it since, and the next save goes over that (code_editor.rs save).
UnsavedIsMarked == \A t \in Tabs : views[t].shown # views[t].synced => views[t].dirty
=============================================================================
