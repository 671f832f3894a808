---------------------------- MODULE ReviewThreads ----------------------------
(***************************************************************************)
(* The comments of one session's review, as two surfaces write them: the   *)
(* control API (crates/mcp-server control_api.rs), whose handlers read the *)
(* store, then write it, and the desktop's review panel (code_review.rs),  *)
(* which writes rows out of the mirror it loaded when it opened.           *)
(***************************************************************************)
EXTENDS Naturals, FiniteSets

CONSTANTS
  Ids,        \* comment ids: each is given once
  AuthorOf,   \* id -> who writes that comment: the operator, or the session answering
  MaxAsks,    \* bound: API requests under way at once
  NoComment   \* no comment, no parent

ASSUME ThreadsAssumption ==
  /\ NoComment \notin Ids /\ MaxAsks \in Nat
  /\ AuthorOf \in [Ids -> {"Operator", "Agent"}]

VARIABLES
  table,      \* id -> its row of review_comment, or NoComment
  mirror,     \* id -> the panel's copy, or NoComment
  used,       \* the ids given so far
  asks        \* API requests that have read the store and not yet written

threadVars == <<table, mirror, used, asks>>

\* The text is left out: what matters of it is whether it was sent.
Comment == [parent : Ids \cup {NoComment}, sent : BOOLEAN, resolved : BOOLEAN]

Present(rows) == {id \in Ids : rows[id] # NoComment}

\* ReviewComment::thread_id.
ThreadId(rows, id) == IF rows[id].parent = NoComment THEN id ELSE rows[id].parent

\* Mutant: everything unsent and unsettled is pending, whoever wrote it.
PendingOfAnyone(rows) == {id \in Present(rows) : ~rows[id].sent /\ ~rows[id].resolved}

\* pending_feedback: written by a reviewer, not delivered, not settled.
Pending(rows) ==
  {id \in Present(rows) :
     AuthorOf[id] = "Operator" /\ ~rows[id].sent /\ ~rows[id].resolved}

-----------------------------------------------------------------------------
(* The store *)

\* Mutant: an update inserts what it does not find.
UpdatedOrInserted(rows, id, c) == [rows EXCEPT ![id] = c]

\* Store::update_comment: by id, and only if it is there; whom it answers, like its author
\* and time, is not among the columns it writes.
Updated(rows, id, c) ==
  IF rows[id] = NoComment THEN rows
  ELSE [rows EXCEPT ![id] = [c EXCEPT !.parent = rows[id].parent]]

\* Store::mark_comments_sent, in one transaction.
MarkedSent(rows, ids) ==
  [id \in Ids |-> IF id \in ids /\ rows[id] # NoComment THEN [rows[id] EXCEPT !.sent = TRUE]
                  ELSE rows[id]]

-----------------------------------------------------------------------------
(* The control API *)

Begin(ask) == Cardinality(asks) < MaxAsks /\ asks' = asks \cup {ask}

New(parent) == [parent |-> parent, sent |-> FALSE, resolved |-> FALSE]

\* Mutant: an answer is kept under the comment it was written to.
ThreadForDirect(parent) == parent

\* add_comment resolves the thread from the stored parent; an unknown parent is refused.
ThreadFor(parent) == IF parent = NoComment THEN NoComment ELSE ThreadId(table, parent)

AddComment(id, parent) ==
  /\ id \notin used /\ (parent # NoComment => table[parent] # NoComment)
  /\ used' = used \cup {id}
  /\ Begin([op |-> "add", id |-> id, row |-> New(ThreadFor(parent))])
  /\ UNCHANGED <<table, mirror>>

AddCommentWrites(ask) ==
  /\ ask \in asks /\ ask.op = "add"
  /\ asks' = asks \ {ask} /\ table' = [table EXCEPT ![ask.id] = ask.row]
  /\ UNCHANGED <<mirror, used>>

\* update_comment: new text clears the stamp; a resolution is stamped on the root as well,
\* as a row of its own, before the comment that was named.
Reworded(c) == [c EXCEPT !.sent = FALSE]

UpdateComment(id, rewords, resolve) ==
  LET row == IF rewords THEN Reworded(table[id]) ELSE table[id]
      root == ThreadId(table, id)
  IN
  /\ table[id] # NoComment
  /\ \/ resolve = "leave" /\ rewords
        /\ Begin([op |-> "update", id |-> id, row |-> row])
     \/ resolve # "leave" /\ (root = id \/ table[root] = NoComment)
        /\ Begin([op |-> "update", id |-> id, row |-> [row EXCEPT !.resolved = (resolve = "settle")]])
     \/ resolve # "leave" /\ root # id /\ table[root] # NoComment
        /\ Begin([op |-> "settle", id |-> id, row |-> [row EXCEPT !.resolved = (resolve = "settle")],
                  root |-> root,
                  rootRow |-> [table[root] EXCEPT !.resolved = (resolve = "settle")]])
  /\ UNCHANGED <<table, mirror, used>>

UpdateCommentRoot(ask) ==
  /\ ask \in asks /\ ask.op = "settle"
  /\ table' = Updated(table, ask.root, ask.rootRow)
  /\ asks' = (asks \ {ask}) \cup {[op |-> "update", id |-> ask.id, row |-> ask.row]}
  /\ UNCHANGED <<mirror, used>>

UpdateCommentWrites(ask) ==
  /\ ask \in asks /\ ask.op = "update"
  /\ table' = Updated(table, ask.id, ask.row)
  /\ asks' = asks \ {ask}
  /\ UNCHANGED <<mirror, used>>

DeleteComment(id) ==
  /\ table[id] # NoComment
  /\ table' = [table EXCEPT ![id] = NoComment]
  /\ UNCHANGED <<mirror, used, asks>>

\* submit_review: the message is rendered from what was read; the ids pending in it are
\* stamped once it is queued, or by mark_delivered when a client delivered it.
SubmitReview ==
  /\ Pending(table) # {}
  /\ Begin([op |-> "stamp", ids |-> Pending(table)])
  /\ UNCHANGED <<table, mirror, used>>

SubmitStamps(ask) ==
  /\ ask \in asks /\ ask.op = "stamp"
  /\ table' = MarkedSent(table, ask.ids)
  /\ asks' = asks \ {ask}
  /\ UNCHANGED <<mirror, used>>

-----------------------------------------------------------------------------
(* The desktop's panel *)

\* The panel opens on what the store holds, and does not read it again.
OpenPanel ==
  /\ mirror' = table
  /\ UNCHANGED <<table, used, asks>>

\* The panel writes its own copy of the row.
PanelWrites(id, c) ==
  /\ mirror' = [mirror EXCEPT ![id] = c]
  /\ table' = Updated(table, id, c)
  /\ UNCHANGED <<used, asks>>

\* save_comment, while a comment is edited: its text is new and so unsent.
SaveEdit(id) ==
  /\ mirror[id] # NoComment
  /\ PanelWrites(id, Reworded(mirror[id]))

\* save_comment, otherwise: a root of the operator's.
SaveNew(id) ==
  /\ id \notin used /\ AuthorOf[id] = "Operator"
  /\ used' = used \cup {id}
  /\ table' = [table EXCEPT ![id] = New(NoComment)]
  /\ mirror' = [mirror EXCEPT ![id] = New(NoComment)]
  /\ UNCHANGED asks

ToggleResolved(id) ==
  /\ mirror[id] # NoComment
  /\ PanelWrites(id, [mirror[id] EXCEPT !.resolved = ~@])

ResendComment(id) ==
  /\ mirror[id] # NoComment /\ mirror[id].sent
  /\ PanelWrites(id, [mirror[id] EXCEPT !.sent = FALSE])

PanelDeletes(id) ==
  /\ mirror[id] # NoComment
  /\ mirror' = [mirror EXCEPT ![id] = NoComment]
  /\ table' = [table EXCEPT ![id] = NoComment]
  /\ UNCHANGED <<used, asks>>

\* send_review: the panel's pending comments are delivered and stamped.
Sent(rows) == MarkedSent(rows, Pending(mirror))

SendReview ==
  /\ Pending(mirror) # {}
  /\ table' = Sent(table) /\ mirror' = Sent(mirror)
  /\ UNCHANGED <<used, asks>>

\* approve_now and clear_pass: the session's rows go, the panel keeps what was not sent.
ApproveNow(rows) ==
  /\ table' = [id \in Ids |-> NoComment]
  /\ mirror' = [id \in Ids |-> IF rows[id] # NoComment /\ rows[id].sent THEN NoComment ELSE rows[id]]
  /\ UNCHANGED <<used, asks>>

Approve == ApproveNow(mirror)

\* clear_changes, in the session monitor: the rows go and no panel is told.
ClearChanges ==
  /\ Present(table) # {} /\ table' = [id \in Ids |-> NoComment]
  /\ UNCHANGED <<mirror, used, asks>>

SendThenApprove ==
  /\ Pending(mirror) # {}
  /\ ApproveNow(Sent(mirror))

-----------------------------------------------------------------------------
(* The specification *)

ThreadsInit ==
  /\ table = [id \in Ids |-> NoComment] /\ mirror = [id \in Ids |-> NoComment]
  /\ used = {} /\ asks = {}

ThreadsNext ==
  \/ \E id \in Ids, parent \in Ids \cup {NoComment} : AddComment(id, parent)
  \/ \E ask \in asks : \/ AddCommentWrites(ask) \/ UpdateCommentRoot(ask)
                       \/ UpdateCommentWrites(ask) \/ SubmitStamps(ask)
  \/ \E id \in Ids, rewords \in BOOLEAN, resolve \in {"leave", "settle", "reopen"} :
       UpdateComment(id, rewords, resolve)
  \/ SubmitReview
  \/ \E id \in Ids : \/ DeleteComment(id) \/ SaveEdit(id) \/ SaveNew(id) \/ ToggleResolved(id)
                     \/ ResendComment(id) \/ PanelDeletes(id)
  \/ OpenPanel \/ SendReview \/ Approve \/ SendThenApprove \/ ClearChanges

ThreadsSpec == ThreadsInit /\ [][ThreadsNext]_threadVars

-----------------------------------------------------------------------------
(* Properties *)

\* The store and the panel's copy hold comments.
ThreadsTypeOK ==
  /\ table \in [Ids -> Comment \cup {NoComment}] /\ mirror \in [Ids -> Comment \cup {NoComment}]

\* Threads are flat in the store, whatever was answered, deleted or approved between the
\* lookup of a thread and the writing of an answer in it: a comment answers nobody or the
\* root of its thread, never itself and never an answer (changes.rs thread_id looks one
\* parent up and no further).
ThreadsAreFlat ==
  \A id \in Present(table) :
    LET parent == table[id].parent IN
    parent # NoComment =>
      parent # id /\ (parent \in Present(table) => table[parent].parent = NoComment)

\* A step gives no row to an id that was given before, but the one that adds it.
NothingComesBack ==
  \A id \in Ids : id \in used /\ table[id] = NoComment /\ table'[id] # NoComment
     => \E ask \in asks : ask.op = "add" /\ ask.id = id

\* A comment that was deleted, or whose pass was approved, stays gone: neither the panel's
\* copy of it nor a request that read it before brings it back.
DeletedStaysDeleted == [][NothingComesBack]_threadVars

\* The session's own replies are never stamped as feedback delivered to it
\* (changes.rs pending_feedback: "which is how a review turns into a loop").
AgentIsNotFed ==
  \A id \in Present(table) : AuthorOf[id] = "Agent" => ~table[id].sent
=============================================================================
