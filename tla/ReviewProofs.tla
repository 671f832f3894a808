----------------------------- MODULE ReviewProofs -----------------------------
(***************************************************************************)
(* Proofs about a session's review: the ledger of what it wrote, and the   *)
(* threads of comments on it.                                              *)
(***************************************************************************)
EXTENDS ChangeLedger, ReviewThreads, TLAPS

-----------------------------------------------------------------------------
(* ReviewThreads *)

\* A row the surfaces may hold of the comment id, whose thread is par[id].
Good(par, id, c) ==
  /\ c \in Comment /\ c.parent = par[id] /\ id \in used
  /\ AuthorOf[id] = "Agent" => ~c.sent

\* Who answers whom, for good: nobody, or a comment that answers nobody.
FlatParents(par) ==
  /\ par \in [Ids -> Ids \cup {NoComment}]
  /\ \A id \in Ids : par[id] # NoComment => /\ par[id] # id /\ par[id] \in used
                                          /\ par[par[id]] = NoComment

\* A table of rows that agrees with it.
GoodRows(par, kept) ==
  /\ kept \in [Ids -> Comment \cup {NoComment}]
  /\ \A id \in Ids : kept[id] # NoComment => Good(par, id, kept[id])

\* A request under way whose rows agree with the table.
GoodAsk(par, ask) ==
  \/ /\ ask.op \in {"add", "update"} /\ ask.id \in Ids /\ Good(par, ask.id, ask.row)
  \/ /\ ask.op = "settle" /\ ask.id \in Ids /\ Good(par, ask.id, ask.row)
     /\ ask.root \in Ids /\ Good(par, ask.root, ask.rootRow)
  \/ /\ ask.op = "stamp" /\ \A id \in ask.ids : AuthorOf[id] = "Operator"

\* Every copy of a comment, in the store, on the panel or in a request, answers the same
\* comment, and so does every write of one.
ThreadsAgree(par) ==
  /\ FlatParents(par) /\ GoodRows(par, table) /\ GoodRows(par, mirror)
  /\ \A ask \in asks : GoodAsk(par, ask)

\* Settling or reopening a comment keeps its row good.
LEMMA GoodSettled ==
  ASSUME NEW par, NEW id \in Ids, NEW c, Good(par, id, c), NEW b \in BOOLEAN
  PROVE  Good(par, id, [c EXCEPT !.resolved = b])
  BY DEF Good, Comment

\* So does taking its stamp off.
LEMMA GoodUnsent ==
  ASSUME NEW par, NEW id \in Ids, NEW c, Good(par, id, c)
  PROVE  Good(par, id, [c EXCEPT !.sent = FALSE])
  BY DEF Good, Comment

\* So does new text.
LEMMA GoodReworded ==
  ASSUME NEW par, NEW id \in Ids, NEW c, Good(par, id, c)
  PROVE  Good(par, id, Reworded(c))
  BY DEF Good, Comment, Reworded

\* So does a stamp, on what the operator wrote.
LEMMA GoodStamped ==
  ASSUME NEW par, NEW id \in Ids, NEW c, Good(par, id, c), AuthorOf[id] = "Operator"
  PROVE  Good(par, id, [c EXCEPT !.sent = TRUE])
  BY DEF Good, Comment

\* A good row is a comment.
LEMMA GoodIsComment ==
  ASSUME NEW par, NEW id \in Ids, NEW c, Good(par, id, c)
  PROVE  c \in Comment
  BY DEF Good

\* Both ways of writing a row keep a table good.
LEMMA UpdatedIsGood ==
  ASSUME NEW par, NEW kept, GoodRows(par, kept), NEW id \in Ids, NEW c, Good(par, id, c)
  PROVE  GoodRows(par, Updated(kept, id, c)) /\ GoodRows(par, [kept EXCEPT ![id] = c])
<1>1. GoodRows(par, [kept EXCEPT ![id] = c])
  BY GoodIsComment DEF GoodRows
<1>2. CASE kept[id] = NoComment
  BY <1>1, <1>2 DEF Updated
<1>3. CASE kept[id] # NoComment
  <2>1. kept[id].parent = par[id] /\ par[id] \in Ids \cup {NoComment}
    BY <1>3 DEF GoodRows, Good, Comment
  <2>2. PICK d : d = [c EXCEPT !.parent = par[id]]
    OBVIOUS
  <2>3. Good(par, id, d)
    BY <2>1, <2>2 DEF Good, Comment
  <2>4. Updated(kept, id, c) = [kept EXCEPT ![id] = d]
    BY <1>3, <2>1, <2>2 DEF Updated
  <2>5. QED
    BY <1>1, <2>3, <2>4, GoodIsComment DEF GoodRows
<1>4. QED
  BY <1>2, <1>3

\* A deletion keeps a table good.
LEMMA DroppedIsGood ==
  ASSUME NEW par, NEW kept, GoodRows(par, kept), NEW id \in Ids
  PROVE  GoodRows(par, [kept EXCEPT ![id] = NoComment])
  BY DEF GoodRows

\* Stamping the operator's comments keeps a table good.
LEMMA MarkedIsGood ==
  ASSUME NEW par, NEW kept, GoodRows(par, kept), NEW ids,
         \A id \in ids : AuthorOf[id] = "Operator"
  PROVE  GoodRows(par, MarkedSent(kept, ids))
<1>1. \A id \in Ids : id \in ids /\ kept[id] # NoComment
        => Good(par, id, [kept[id] EXCEPT !.sent = TRUE])
  BY GoodStamped DEF GoodRows
<1>2. QED
  BY <1>1, GoodIsComment DEF GoodRows, MarkedSent

\* Pending feedback is the operator's.
LEMMA PendingIsOperators ==
  ASSUME NEW kept
  PROVE  \A id \in Pending(kept) : AuthorOf[id] = "Operator"
  BY DEF Pending

\* A fixed thread table goes on: a step that gives no id, and whose tables and requests
\* are good.
LEMMA SameThreads ==
  ASSUME NEW par, ThreadsAgree(par), UNCHANGED used,
         GoodRows(par, table'), GoodRows(par, mirror'),
         \A ask \in asks' : ask \in asks \/ GoodAsk(par, ask)
  PROVE  ThreadsAgree(par)'
  BY DEF ThreadsAgree, FlatParents, GoodRows, GoodAsk, Good

\* A comment is added under the root of its thread: that extends the table, and what was
\* good stays good under it.
LEMMA AddingAgrees ==
  ASSUME NEW par, ThreadsAgree(par), NEW id \in Ids, id \notin used,
         NEW p \in Ids \cup {NoComment}, p # NoComment => p \in used /\ par[p] = NoComment,
         used' = used \cup {id}, NEW q, q = [par EXCEPT ![id] = p]
  PROVE  /\ FlatParents(q)'
         /\ \A i \in Ids : \A c : Good(par, i, c) => Good(q, i, c)'
         /\ \A c \in Comment : c.parent = p /\ ~c.sent => Good(q, id, c)'
<1>1. par \in [Ids -> Ids \cup {NoComment}] /\ q \in [Ids -> Ids \cup {NoComment}]
  BY DEF ThreadsAgree, FlatParents
<1>2. q[id] = p /\ \A i \in Ids \ {id} : q[i] = par[i]
  BY <1>1
<1>3. NoComment \notin Ids
  BY ThreadsAssumption
<1>4. FlatParents(q)'
  <2> SUFFICES ASSUME NEW i \in Ids, q[i] # NoComment
               PROVE  q[i] # i /\ q[i] \in used' /\ q[q[i]] = NoComment
    BY <1>1 DEF FlatParents
  <2>1. CASE i = id
    BY <1>1, <1>2, <1>3, <2>1
  <2>2. CASE i # id
    <3>1. par[i] # NoComment /\ par[i] # i /\ par[i] \in used /\ par[par[i]] = NoComment
      BY <1>2, <2>2 DEF ThreadsAgree, FlatParents
    <3>2. QED
      BY <1>1, <1>2, <2>2, <3>1
  <2>3. QED
    BY <2>1, <2>2
<1>5. \A i \in Ids : \A c : Good(par, i, c) => Good(q, i, c)'
  BY <1>2 DEF Good
<1>6. \A c \in Comment : c.parent = p /\ ~c.sent => Good(q, id, c)'
  BY <1>2 DEF Good
<1>7. QED
  BY <1>4, <1>5, <1>6

\* The tables and requests of a step that gives the id a row, or none.
LEMMA AddingKeeps ==
  ASSUME NEW par, ThreadsAgree(par), NEW id \in Ids, id \notin used,
         NEW p \in Ids \cup {NoComment}, p # NoComment => p \in used /\ par[p] = NoComment,
         used' = used \cup {id}, NEW q, q = [par EXCEPT ![id] = p],
         NEW c \in Comment, c.parent = p, ~c.sent,
         \/ table' = table /\ mirror' = mirror
         \/ table' = [table EXCEPT ![id] = c] /\ mirror' = [mirror EXCEPT ![id] = c],
         \A ask \in asks' : ask \in asks \/ ask = [op |-> "add", id |-> id, row |-> c]
  PROVE  ThreadsAgree(q)'
<1>1. /\ FlatParents(q)' /\ Good(q, id, c)'
      /\ \A i \in Ids : \A d : Good(par, i, d) => Good(q, i, d)'
  BY AddingAgrees
<1>2. \A ask \in asks' : GoodAsk(q, ask)'
  <2> SUFFICES ASSUME NEW ask \in asks' PROVE GoodAsk(q, ask)'
    OBVIOUS
  <2>1. CASE ask \in asks
    <3>1. GoodAsk(par, ask)
      BY <2>1 DEF ThreadsAgree
    <3>2. QED
      BY <1>1, <3>1 DEF GoodAsk
  <2>2. CASE ask = [op |-> "add", id |-> id, row |-> c]
    BY <1>1, <2>2 DEF GoodAsk
  <2>3. QED
    BY <2>1, <2>2
<1>3. GoodRows(q, table)' /\ GoodRows(q, mirror)'
  BY <1>1 DEF ThreadsAgree, GoodRows
<1>4. QED
  BY <1>1, <1>2, <1>3 DEF ThreadsAgree

\* The thread a new answer joins is led by a comment that was given and answers nobody.
LEMMA ThreadForIsRoot ==
  ASSUME NEW par, ThreadsAgree(par), NEW parent \in Ids \cup {NoComment},
         parent # NoComment => table[parent] # NoComment
  PROVE  /\ ThreadFor(parent) \in Ids \cup {NoComment}
         /\ ThreadFor(parent) # NoComment
              => ThreadFor(parent) \in used /\ par[ThreadFor(parent)] = NoComment
<1>1. CASE parent = NoComment
  BY <1>1 DEF ThreadFor
<1>2. CASE parent # NoComment
  <2>1. Good(par, parent, table[parent])
    BY <1>2 DEF ThreadsAgree, GoodRows
  <2>2. table[parent].parent = par[parent] /\ parent \in used
    BY <2>1 DEF Good
  <2>3. QED
    BY <1>2, <2>2 DEF ThreadFor, ThreadId, ThreadsAgree, FlatParents
<1>3. QED
  BY <1>1, <1>2

\* Every request that begins is good.
LEMMA BegunIsGood ==
  ASSUME NEW par, ThreadsAgree(par), NEW id \in Ids, NEW rewords \in BOOLEAN,
         NEW resolve \in {"leave", "settle", "reopen"}, UpdateComment(id, rewords, resolve)
  PROVE  \A ask \in asks' : ask \in asks \/ GoodAsk(par, ask)
<1> DEFINE row == IF rewords THEN Reworded(table[id]) ELSE table[id]
           root == ThreadId(table, id)
           settled == [row EXCEPT !.resolved = (resolve = "settle")]
           rootSettled == [table[root] EXCEPT !.resolved = (resolve = "settle")]
<1>1. table[id] # NoComment /\ Good(par, id, table[id])
  BY DEF UpdateComment, ThreadsAgree, GoodRows
<1>2. Good(par, id, row)
  BY <1>1, GoodReworded DEF UpdateComment
<1>3. (resolve = "settle") \in BOOLEAN
  OBVIOUS
<1>4. Good(par, id, settled)
  <2> HIDE DEF row
  <2> QED BY <1>2, <1>3, GoodSettled
<1>5. root \in Ids /\ (table[root] # NoComment => Good(par, root, rootSettled))
  <2>1. root \in Ids
    BY <1>1 DEF ThreadId, Good, Comment
  <2>2. table[root] # NoComment => Good(par, root, table[root])
    BY <2>1 DEF ThreadsAgree, GoodRows
  <2> HIDE DEF root
  <2>3. QED
    BY <2>1, <2>2, <1>3, GoodSettled
<1>6. CASE Begin([op |-> "update", id |-> id, row |-> row])
  <2> HIDE DEF row
  <2>1. GoodAsk(par, [op |-> "update", id |-> id, row |-> row])
    BY <1>2 DEF GoodAsk
  <2>2. QED
    BY <1>6, <2>1 DEF Begin
<1>7. CASE Begin([op |-> "update", id |-> id, row |-> settled])
  <2> HIDE DEF settled
  <2>1. GoodAsk(par, [op |-> "update", id |-> id, row |-> settled])
    BY <1>4 DEF GoodAsk
  <2>2. QED
    BY <1>7, <2>1 DEF Begin
<1>8. CASE /\ table[root] # NoComment
           /\ Begin([op |-> "settle", id |-> id, row |-> settled,
                     root |-> root, rootRow |-> rootSettled])
  <2> HIDE DEF settled, root, rootSettled
  <2>1. GoodAsk(par, [op |-> "settle", id |-> id, row |-> settled,
                      root |-> root, rootRow |-> rootSettled])
    BY <1>4, <1>5, <1>8 DEF GoodAsk
  <2>2. QED
    BY <1>8, <2>1 DEF Begin
<1>9. QED
  BY <1>6, <1>7, <1>8 DEF UpdateComment

\* No step leaves the copies of a comment disagreeing about its thread.
LEMMA ThreadsStep ==
  ASSUME NEW par, ThreadsAgree(par), [ThreadsNext]_threadVars
  PROVE  \E q : ThreadsAgree(q)'
<1> DEFINE Settles == /\ UNCHANGED used /\ GoodRows(par, table') /\ GoodRows(par, mirror')
                      /\ \A ask \in asks' : ask \in asks \/ GoodAsk(par, ask)
<1>a. Settles => ThreadsAgree(par)'
  BY SameThreads
<1>b. GoodRows(par, table) /\ GoodRows(par, mirror) /\ \A ask \in asks : GoodAsk(par, ask)
  BY DEF ThreadsAgree
<1>c. \A id \in Ids : mirror[id] # NoComment => Good(par, id, mirror[id])
  BY <1>b DEF GoodRows
<1>1. ASSUME NEW id \in Ids, NEW parent \in Ids \cup {NoComment}, AddComment(id, parent)
      PROVE  \E q : ThreadsAgree(q)'
  <2>0. PICK p : p = ThreadFor(parent)
    OBVIOUS
  <2> DEFINE q == [par EXCEPT ![id] = p]
             c == New(p)
  <2>1. p \in Ids \cup {NoComment} /\ (p # NoComment => p \in used /\ par[p] = NoComment)
    BY <1>1, <2>0, ThreadForIsRoot DEF AddComment
  <2>2. c \in Comment /\ c.parent = p /\ ~c.sent
    BY <2>1, ThreadsAssumption DEF New, Comment
  <2>3. /\ id \notin used /\ used' = used \cup {id} /\ table' = table /\ mirror' = mirror
        /\ \A ask \in asks' : ask \in asks \/ ask = [op |-> "add", id |-> id, row |-> c]
    BY <1>1, <2>0 DEF AddComment, Begin
  <2> HIDE DEF c
  <2>4. ThreadsAgree(q)'
    BY <2>1, <2>2, <2>3, AddingKeeps
  <2>5. QED
    BY <2>4
<1>2. ASSUME NEW id \in Ids, SaveNew(id)
      PROVE  \E q : ThreadsAgree(q)'
  <2> DEFINE c == New(NoComment)
             q == [par EXCEPT ![id] = NoComment]
  <2>1. c \in Comment /\ c.parent = NoComment /\ ~c.sent
    BY ThreadsAssumption DEF New, Comment
  <2>2. /\ id \notin used /\ used' = used \cup {id} /\ asks' = asks
        /\ table' = [table EXCEPT ![id] = c] /\ mirror' = [mirror EXCEPT ![id] = c]
    BY <1>2 DEF SaveNew
  <2> HIDE DEF c
  <2>3. ThreadsAgree(q)'
    BY <2>1, <2>2, AddingKeeps
  <2>4. QED
    BY <2>3
<1>3. ASSUME NEW ask \in asks, AddCommentWrites(ask) \/ UpdateCommentRoot(ask)
                                \/ UpdateCommentWrites(ask) \/ SubmitStamps(ask)
      PROVE  Settles
  <2>1. GoodAsk(par, ask)
    BY <1>b
  <2>2. CASE AddCommentWrites(ask)
    BY <2>1, <2>2, <1>b, UpdatedIsGood DEF AddCommentWrites, GoodAsk
  <2>3. CASE UpdateCommentRoot(ask)
    <3>1. ask.id \in Ids /\ Good(par, ask.id, ask.row) /\ ask.root \in Ids
          /\ Good(par, ask.root, ask.rootRow)
      BY <2>1, <2>3 DEF GoodAsk, UpdateCommentRoot
    <3>2. GoodAsk(par, [op |-> "update", id |-> ask.id, row |-> ask.row])
      BY <3>1 DEF GoodAsk
    <3>3. QED
      BY <3>1, <3>2, <2>3, <1>b, UpdatedIsGood DEF UpdateCommentRoot
  <2>4. CASE UpdateCommentWrites(ask)
    BY <2>1, <2>4, <1>b, UpdatedIsGood DEF UpdateCommentWrites, GoodAsk
  <2>5. CASE SubmitStamps(ask)
    BY <2>1, <2>5, <1>b, MarkedIsGood DEF SubmitStamps, GoodAsk
  <2>6. QED
    BY <1>3, <2>2, <2>3, <2>4, <2>5
<1>4. ASSUME NEW id \in Ids, NEW rewords \in BOOLEAN,
             NEW resolve \in {"leave", "settle", "reopen"}, UpdateComment(id, rewords, resolve)
      PROVE  Settles
  BY <1>4, <1>b, BegunIsGood DEF UpdateComment
<1>5. ASSUME SubmitReview PROVE Settles
  <2>1. GoodAsk(par, [op |-> "stamp", ids |-> Pending(table)])
    BY PendingIsOperators DEF GoodAsk
  <2>2. QED
    BY <1>5, <1>b, <2>1 DEF SubmitReview, Begin
<1>6. ASSUME NEW id \in Ids, DeleteComment(id) \/ PanelDeletes(id) PROVE Settles
  BY <1>6, <1>b, DroppedIsGood DEF DeleteComment, PanelDeletes
<1>7. ASSUME NEW id \in Ids, SaveEdit(id) \/ ToggleResolved(id) \/ ResendComment(id)
      PROVE  Settles
  <2>1. ASSUME NEW c, Good(par, id, c), PanelWrites(id, c) PROVE Settles
    BY <2>1, <1>b, UpdatedIsGood DEF PanelWrites
  <2>2. CASE SaveEdit(id)
    <3>1. mirror[id] # NoComment /\ PanelWrites(id, Reworded(mirror[id]))
      BY <2>2 DEF SaveEdit
    <3>2. Good(par, id, mirror[id])
      BY <3>1, <1>c, Zenon
    <3>3. Good(par, id, Reworded(mirror[id]))
      BY <3>1, <3>2, GoodReworded, Zenon
    <3>4. QED
      BY <3>1, <3>3, <2>1, Zenon
  <2>3. CASE ToggleResolved(id)
    <3>1. PICK b \in BOOLEAN : b = ~mirror[id].resolved
      OBVIOUS
    <3>2. mirror[id] # NoComment /\ PanelWrites(id, [mirror[id] EXCEPT !.resolved = b])
      BY <2>3, <3>1, Zenon DEF ToggleResolved
    <3>3. Good(par, id, mirror[id])
      BY <3>2, <1>c, Zenon
    <3>4. Good(par, id, [mirror[id] EXCEPT !.resolved = b])
      BY <3>3, GoodSettled, Zenon
    <3>5. QED
      BY <2>1, <3>2, <3>4, Zenon
  <2>4. CASE ResendComment(id)
    <3>1. mirror[id] # NoComment /\ PanelWrites(id, [mirror[id] EXCEPT !.sent = FALSE])
      BY <2>4 DEF ResendComment
    <3>2. Good(par, id, mirror[id])
      BY <3>1, <1>c, Zenon
    <3>3. Good(par, id, [mirror[id] EXCEPT !.sent = FALSE])
      BY <3>2, GoodUnsent, Zenon
    <3>4. QED
      BY <3>1, <3>3, <2>1, Zenon
  <2>5. QED
    BY <1>7, <2>2, <2>3, <2>4
<1>8. ASSUME OpenPanel PROVE Settles
  BY <1>8, <1>b DEF OpenPanel
<1>9. GoodRows(par, Sent(table)) /\ GoodRows(par, Sent(mirror))
  BY <1>b, MarkedIsGood, PendingIsOperators DEF Sent
<1>10. ASSUME SendReview PROVE Settles
  BY <1>10, <1>9, <1>b DEF SendReview
<1>11. ASSUME Approve \/ SendThenApprove \/ ClearChanges PROVE Settles
  <2>1. ASSUME NEW kept, GoodRows(par, kept), ApproveNow(kept) PROVE Settles
    BY <2>1, <1>b DEF ApproveNow, GoodRows
  <2>2. QED
    BY <1>11, <2>1, <1>9, <1>b DEF Approve, SendThenApprove, ClearChanges, GoodRows
<1>12. ASSUME UNCHANGED threadVars PROVE Settles
  BY <1>12, <1>b DEF threadVars
<1>13. QED
  <2> HIDE DEF Settles
  <2>1. CASE UNCHANGED threadVars
    BY <2>1, <1>12, <1>a
  <2>2. CASE ThreadsNext
    BY <2>2, <1>a, <1>1, <1>2, <1>3, <1>4, <1>5, <1>6, <1>7, <1>8, <1>10, <1>11
    DEF ThreadsNext
  <2>3. QED
    BY <2>1, <2>2

\* The surfaces always agree on who answers whom.
ThreadsInv == \E par : ThreadsAgree(par)

\* No interleaving of requests, panel writes, deletes and approvals makes two copies of a
\* comment disagree on the comment it answers.
THEOREM ThreadsAlwaysAgree == ThreadsSpec => []ThreadsInv
<1>1. ThreadsInit => ThreadsInv
  <2> SUFFICES ASSUME ThreadsInit PROVE ThreadsInv
    OBVIOUS
  <2>1. ThreadsAgree([id \in Ids |-> NoComment])
    BY DEF ThreadsInit, ThreadsAgree, FlatParents, GoodRows
  <2>2. QED
    BY <2>1 DEF ThreadsInv
<1>2. ThreadsInv /\ [ThreadsNext]_threadVars => ThreadsInv'
  BY ThreadsStep DEF ThreadsInv
<1>3. QED
  BY <1>1, <1>2, PTL DEF ThreadsSpec

\* Threads stay flat: the one level that thread_id looks up is always enough.
THEOREM ThreadsStayFlat == ThreadsSpec => []ThreadsAreFlat
<1>1. ASSUME ThreadsInv PROVE ThreadsAreFlat
  <2>1. PICK par : ThreadsAgree(par)
    BY <1>1 DEF ThreadsInv
  <2>2. \A id \in Present(table) : id \in Ids /\ table[id].parent = par[id]
    BY <2>1 DEF ThreadsAgree, GoodRows, Good, Present
  <2>3. QED
    BY <2>1, <2>2 DEF ThreadsAreFlat, ThreadsAgree, FlatParents, Present
<1>2. QED
  BY <1>1, ThreadsAlwaysAgree, PTL

\* A session's own replies are never stamped as delivered to it, by any of the three
\* places that stamp.
THEOREM AgentIsNeverFed == ThreadsSpec => []AgentIsNotFed
<1>1. ASSUME ThreadsInv PROVE AgentIsNotFed
  BY <1>1 DEF ThreadsInv, ThreadsAgree, GoodRows, Good, Present, AgentIsNotFed
<1>2. QED
  BY <1>1, ThreadsAlwaysAgree, PTL

\* A comment that is gone is brought back by nothing but the request that was adding it.
THEOREM DeletedIsForGood == ThreadsSpec => DeletedStaysDeleted
<1>1. ASSUME ThreadsInv, [ThreadsNext]_threadVars PROVE NothingComesBack
  <2> SUFFICES ASSUME NEW i \in Ids, i \in used, table[i] = NoComment, table'[i] # NoComment
               PROVE  \E ask \in asks : ask.op = "add" /\ ask.id = i
    BY DEF NothingComesBack
  <2>1. DOMAIN table = Ids /\ table = [j \in Ids |-> table[j]]
    BY <1>1 DEF ThreadsInv, ThreadsAgree, GoodRows
  <2>2. PICK par : ThreadsAgree(par)
    BY <1>1 DEF ThreadsInv
  <2>3. table' # table
    OBVIOUS
  <2>4. \A j \in Ids : \A c : Updated(table, j, c)[i] = NoComment
    BY <2>1 DEF Updated
  <2>5. \A ids : MarkedSent(table, ids)[i] = NoComment
    BY DEF MarkedSent
  <2>6. \A j \in Ids : [table EXCEPT ![j] = NoComment][i] = NoComment
    BY <2>1
  <2>7. ASSUME NEW ask \in asks, AddCommentWrites(ask)
        PROVE  ask.op = "add" /\ ask.id = i
    <3>1. ask.op = "add" /\ table' = [table EXCEPT ![ask.id] = ask.row]
      BY <2>7 DEF AddCommentWrites
    <3>2. CASE ask.id = i
      BY <3>1, <3>2
    <3>3. CASE ask.id # i
      <4>1. table'[i] = table[i]
        BY <3>1, <3>3, <2>1
      <4>2. QED
        BY <4>1
    <3>4. QED
      BY <3>2, <3>3
  <2>8. ASSUME NEW ask \in asks,
               UpdateCommentRoot(ask) \/ UpdateCommentWrites(ask) \/ SubmitStamps(ask)
        PROVE  FALSE
    <3>1. GoodAsk(par, ask)
      BY <2>2 DEF ThreadsAgree
    <3>2. QED
      BY <2>8, <3>1, <2>4, <2>5
      DEF GoodAsk, UpdateCommentRoot, UpdateCommentWrites, SubmitStamps
  <2>9. ASSUME NEW j \in Ids, SaveNew(j) PROVE FALSE
    BY <2>1, <2>9 DEF SaveNew
  <2>10. ASSUME NEW j \in Ids,
                SaveEdit(j) \/ ToggleResolved(j) \/ ResendComment(j) PROVE FALSE
    <3>1. \A c : ~PanelWrites(j, c)
      BY <2>4 DEF PanelWrites
    <3>2. QED
      BY <2>10, <3>1 DEF SaveEdit, ToggleResolved, ResendComment
  <2>11. ASSUME NEW j \in Ids, DeleteComment(j) \/ PanelDeletes(j) PROVE FALSE
    BY <2>11, <2>6 DEF DeleteComment, PanelDeletes
  <2>12. ~SendReview /\ ~Approve /\ ~SendThenApprove /\ ~ClearChanges
    BY <2>5 DEF SendReview, Sent, Approve, SendThenApprove, ApproveNow, ClearChanges
  <2>13. /\ \A id \in Ids, parent \in Ids \cup {NoComment} : ~AddComment(id, parent)
         /\ \A id \in Ids, rewords \in BOOLEAN, resolve \in {"leave", "settle", "reopen"} :
              ~UpdateComment(id, rewords, resolve)
         /\ ~SubmitReview /\ ~OpenPanel /\ ~UNCHANGED threadVars
    BY <2>3 DEF AddComment, UpdateComment, SubmitReview, OpenPanel, threadVars
  <2>14. QED
    BY <1>1, <2>7, <2>8, <2>9, <2>10, <2>11, <2>12, <2>13 DEF ThreadsNext
<1>2. QED
  BY <1>1, ThreadsAlwaysAgree, PTL DEF ThreadsSpec, DeletedStaysDeleted

-----------------------------------------------------------------------------
(* ChangeLedger *)

\* What a file's content is.
Content == [by : Agents \cup {Nobody}, owed : BOOLEAN, at : 0..MaxClock,
            since : 0..MaxClock, clean : BOOLEAN]
\* What a row of the ledger is.
LedgerRow == [kind : {"none", "Created", "Text"}, before : Befores,
              last : 0..MaxClock, reviewed : 0..MaxClock]
\* What a tool call under way is.
ToolCall == [tool : {"Edit", "Bash", "SafeBash"}, file : Files, stage : {"held", "running"},
             since : 0..MaxClock, seen : BOOLEAN]

\* A row that can stand in a session's ledger.
GoodRow(row) ==
  /\ row \in LedgerRow /\ row.last <= now /\ row.reviewed <= now /\ row.before # "owed"
  /\ row.kind = "none" => row = NoRow

\* A content that can stand in the tree.
GoodContent(c) ==
  /\ c \in Content /\ c.at <= now
  /\ c.by \in Agents => ~c.clean /\ c.since <= now

\* A content that is work of s the ledger owes an account of.
Owed(s, c) == c.by = s /\ c.owed

\* The ledger lists the work of s on f, as of a time no mark before it covers.
Listed(s, f) == rows[s][f].kind # "none" /\ disk[f].since <= rows[s][f].last

\* The ledger owes it: a scan is open that did not see the content, and the command whose
\* end closes the scan is running.
Scanning(c) == c.tool = "Bash" /\ c.stage = "running" /\ c.seen
\* The work of s on f is owed by the scan that is open around its command.
Owing(s, f) ==
  /\ shell_pre[s] # NoScan /\ <<f, disk[f].at>> \notin shell_pre[s]
  /\ \E c \in calls[s] : Scanning(c)

\* A call that can be under way for s: the scan or the row it needs is there.
GoodCall(s, c) ==
  /\ c \in ToolCall /\ c.since <= now
  /\ Scanning(c) => shell_pre[s] # NoScan
  /\ c.tool = "Edit" /\ c.stage = "running" /\ c.seen
       => rows[s][c.file].kind # "none" /\ c.since <= rows[s][c.file].last

\* The ledger's shape.
LedgerShape ==
  /\ now \in 1..MaxClock /\ head \subseteq Files
  /\ DOMAIN disk = Files /\ disk = [f \in Files |-> disk[f]]
  /\ rows = [s \in Agents |-> [f \in Files |-> rows[s][f]]]
  /\ shell_pre = [s \in Agents |-> shell_pre[s]]
  /\ calls = [s \in Agents |-> calls[s]]

\* What every step of the ledger, the tree and the operator keeps.
LedgerInv ==
  /\ LedgerShape
  /\ \A f \in Files : GoodContent(disk[f])
  /\ \A s \in Agents, f \in Files : GoodRow(rows[s][f])
  /\ \A s \in Agents : shell_pre[s] = NoScan \/ shell_pre[s] \subseteq Files \X (0..now)
  /\ \A s \in Agents : \A c \in calls[s] : calls[s] = {c} /\ GoodCall(s, c)
  /\ \A s \in Agents, f \in Files : Owed(s, disk[f]) => Listed(s, f) \/ Owing(s, f)

\* record_touch leaves a row that lists the file as of now, and keeps a baseline.
LEMMA TouchedIsGood ==
  ASSUME now \in 1..MaxClock, NEW row, GoodRow(row),
         NEW kind \in {"Created", "Text"}, NEW before \in Befores,
         row.kind = "none" => before # "owed"
  PROVE  /\ GoodRow(Touched(row, kind, before))
         /\ Touched(row, kind, before).kind # "none" /\ Touched(row, kind, before).last = now
<1>1. now <= now /\ 0 <= now /\ now \in 0..MaxClock /\ 0 \in 0..MaxClock
  BY LedgerAssumption
<1>2. CASE row.kind = "none"
  BY <1>1, <1>2 DEF Touched, GoodRow, LedgerRow
<1>3. CASE row.kind # "none"
  <2> DEFINE t == [row EXCEPT !.last = now]
  <2>1. row \in LedgerRow
    BY DEF GoodRow
  <2>2. /\ t \in LedgerRow /\ t.kind = row.kind /\ t.before = row.before /\ t.last = now
        /\ t.reviewed = row.reviewed
    BY <1>1, <2>1 DEF LedgerRow
  <2> HIDE DEF t
  <2>3. GoodRow(t)
    BY <1>1, <1>3, <2>2 DEF GoodRow
  <2>4. Touched(row, kind, before) = t
    BY <1>3 DEF Touched, t
  <2>5. QED
    BY <1>3, <2>2, <2>3, <2>4
<1>4. QED
  BY <1>2, <1>3

\* A call that is let through: it is recorded, or its scan is open, before it runs.
LEMMA LettingThrough ==
  ASSUME LedgerInv, NEW s \in Agents, NEW f \in Files,
         NEW tool \in {"Edit", "Bash", "SafeBash"}, Observe(s, tool, f),
         \A c \in calls[s] : c.stage # "running",
         calls' = [calls EXCEPT ![s] = {Call(tool, f, "running")}],
         UNCHANGED <<now, disk, head>>
  PROVE  LedgerInv'
<1>0. PICK c : c = Call(tool, f, "running")
  OBVIOUS
<1>1. /\ LedgerShape /\ now \in 1..MaxClock /\ MaxClock \in Nat
      /\ \A g \in Files : GoodContent(disk[g])
      /\ \A r \in Agents, g \in Files : GoodRow(rows[r][g])
  BY LedgerAssumption DEF LedgerInv, LedgerShape
<1>2. /\ c \in ToolCall /\ c.tool = tool /\ c.file = f /\ c.stage = "running" /\ c.seen
      /\ c.since <= now
  BY <1>0, <1>1 DEF Call, ToolCall
<1>3. /\ calls' = [r \in Agents |-> calls'[r]] /\ calls'[s] = {c}
      /\ \A r \in Agents \ {s} : calls'[r] = calls[r]
  BY <1>0, <1>1 DEF LedgerShape
<1>4. \A g \in Files : Owed(s, disk[g]) => Listed(s, g)
  BY DEF LedgerInv, Owing, Scanning
<1>5. /\ rows' = [r \in Agents |-> [g \in Files |-> rows'[r][g]]]
      /\ \A r \in Agents, g \in Files : rows'[r][g] = rows[r][g] \/
            /\ r = s /\ g = f /\ tool = "Edit" /\ GoodRow(rows'[r][g])
            /\ rows'[r][g].kind # "none" /\ rows'[r][g].last = now
      /\ tool = "Edit" => rows'[s][f].kind # "none" /\ rows'[s][f].last = now
  <2>1. CASE tool = "Edit"
    <3> DEFINE kind == IF disk[f] = Gone THEN "Created" ELSE "Text"
               before == BeforeOf(s, disk[f])
               t == Touched(rows[s][f], kind, before)
    <3>1. rows' = [rows EXCEPT ![s][f] = t]
      BY <2>1 DEF Observe, TouchDeclared
    <3>2. GoodRow(t) /\ t.kind # "none" /\ t.last = now
      <4>1. before \in Befores /\ kind \in {"Created", "Text"}
        BY DEF BeforeOf, Befores
      <4>2. rows[s][f].kind = "none" => before # "owed"
        BY <1>4 DEF Listed, Owed, BeforeOf
      <4> HIDE DEF kind, before
      <4>3. QED
        BY <1>1, <4>1, <4>2, TouchedIsGood
    <3> HIDE DEF t
    <3>3. /\ rows' = [r \in Agents |-> [g \in Files |-> rows'[r][g]]]
          /\ rows'[s][f] = t
          /\ \A r \in Agents, g \in Files : r # s \/ g # f => rows'[r][g] = rows[r][g]
      <4>1. DOMAIN rows = Agents /\ \A r \in Agents : DOMAIN rows[r] = Files
        BY <1>1 DEF LedgerShape
      <4>2. /\ rows' = [r \in Agents |-> rows'[r]]
            /\ rows'[s] = [rows[s] EXCEPT ![f] = t]
            /\ \A r \in Agents \ {s} : rows'[r] = rows[r]
        BY <3>1, <4>1
      <4>3. \A r \in Agents : rows'[r] = [g \in Files |-> rows'[r][g]]
        BY <4>1, <4>2, <1>1 DEF LedgerShape
      <4>4. QED
        BY <4>1, <4>2, <4>3
    <3>4. QED
      BY <2>1, <3>2, <3>3
  <2>2. CASE tool # "Edit"
    BY <1>1, <2>2 DEF Observe, LedgerShape
  <2>3. QED
    BY <2>1, <2>2
<1>6. /\ shell_pre' = [r \in Agents |-> shell_pre'[r]]
      /\ \A r \in Agents : \/ shell_pre'[r] = shell_pre[r]
                             \/ /\ shell_pre'[r] \subseteq Files \X (0..now)
                                /\ shell_pre'[r] # NoScan /\ r = s
      /\ tool = "Bash" => shell_pre'[s] # NoScan
  <2>1. CASE tool = "Bash"
    <3>1. Fingerprint \subseteq Files \X (0..now)
      BY <1>1 DEF Fingerprint, GoodContent, Content
    <3>2. Fingerprint # NoScan
      BY <3>1, <1>1, LedgerAssumption DEF NoScan
    <3>3. shell_pre' = [shell_pre EXCEPT ![s] = Fingerprint]
      BY <2>1 DEF Observe
    <3> HIDE DEF Observe
    <3>4. QED
      BY <1>1, <3>1, <3>2, <3>3 DEF LedgerShape
  <2>2. CASE tool # "Bash"
    BY <1>1, <2>2 DEF Observe, LedgerShape
  <2>3. QED
    BY <2>1, <2>2
<1>7. LedgerShape'
  BY <1>1, <1>3, <1>5, <1>6 DEF LedgerShape
<1>8. \A g \in Files : GoodContent(disk[g])'
  BY <1>1 DEF GoodContent
<1>9. \A r \in Agents, g \in Files : GoodRow(rows[r][g])'
  <2>1. \A r \in Agents, g \in Files : GoodRow(rows'[r][g])
    BY <1>1, <1>5
  <2>2. QED
    BY <2>1 DEF GoodRow
<1>10. \A r \in Agents : shell_pre'[r] = NoScan \/ shell_pre'[r] \subseteq Files \X (0..now')
  BY <1>6 DEF LedgerInv
<1>11. \A r \in Agents, g \in Files : Owed(r, disk[g]) => (Listed(r, g) \/ Owing(r, g))'
  <2> SUFFICES ASSUME NEW r \in Agents, NEW g \in Files, Owed(r, disk[g])
               PROVE  (Listed(r, g) \/ Owing(r, g))'
    OBVIOUS
  <2>1. disk[g].since <= now
    BY <1>1 DEF GoodContent, Owed
  <2>2. CASE Listed(r, g)
    <3>1. Listed(r, g)'
      BY <1>5, <2>1, <2>2 DEF Listed
    <3>2. QED
      BY <3>1
  <2>3. CASE r # s /\ Owing(r, g)
    BY <1>3, <1>6, <2>3 DEF Owing
  <2>4. QED
    BY <1>4, <2>2, <2>3 DEF LedgerInv
<1>12. \A r \in Agents : \A d \in calls'[r] : calls'[r] = {d} /\ GoodCall(r, d)'
  <2> SUFFICES ASSUME NEW r \in Agents, NEW d \in calls'[r]
               PROVE  calls'[r] = {d} /\ GoodCall(r, d)'
    OBVIOUS
  <2>1. CASE r = s
    <3>1. d = c /\ calls'[r] = {d}
      BY <1>3, <2>1
    <3>2. GoodCall(s, c)'
      BY <1>1, <1>2, <1>5, <1>6 DEF GoodCall, Scanning
    <3>3. QED
      BY <2>1, <3>1, <3>2
  <2>2. CASE r # s
    <3>1. calls'[r] = calls[r] /\ calls[r] = {d} /\ GoodCall(r, d)
      BY <1>3, <2>2 DEF LedgerInv
    <3>2. shell_pre'[r] = shell_pre[r] /\ \A g \in Files : rows'[r][g] = rows[r][g]
      BY <1>5, <1>6, <2>2
    <3>3. d \in ToolCall /\ d.file \in Files
      BY <3>1 DEF GoodCall, ToolCall
    <3>4. QED
      BY <1>3, <2>2, <3>1, <3>2, <3>3 DEF GoodCall
  <2>3. QED
    BY <2>1, <2>2
<1>13. QED
  BY <1>7, <1>8, <1>9, <1>10, <1>11, <1>12 DEF LedgerInv

\* A call that is held, refused or over owes nothing: what its session wrote is listed.
LEMMA NothingOwed ==
  ASSUME LedgerInv, NEW s \in Agents, \A c \in calls[s] : ~Scanning(c),
         NEW new, new = {} \/ \E d : new = {d} /\ GoodCall(s, d),
         calls' = [calls EXCEPT ![s] = new],
         UNCHANGED <<now, disk, head, rows, shell_pre>>
  PROVE  LedgerInv'
<1>1. LedgerShape /\ UNCHANGED <<now, disk, head, rows, shell_pre>>
  BY DEF LedgerInv
<1>2. /\ calls' = [r \in Agents |-> calls'[r]] /\ calls'[s] = new
      /\ \A r \in Agents \ {s} : calls'[r] = calls[r]
  BY <1>1 DEF LedgerShape
<1>3. LedgerShape'
  BY <1>1, <1>2 DEF LedgerShape
<1>4. /\ \A f \in Files : GoodContent(disk[f])'
      /\ \A r \in Agents, f \in Files : GoodRow(rows[r][f])'
      /\ \A r \in Agents : (shell_pre[r] = NoScan \/ shell_pre[r] \subseteq Files \X (0..now))'
  BY <1>1 DEF LedgerInv, GoodContent, GoodRow
<1>5. \A r \in Agents, f \in Files : Owed(r, disk[f]) => (Listed(r, f) \/ Owing(r, f))'
  <2> SUFFICES ASSUME NEW r \in Agents, NEW f \in Files, Owed(r, disk[f])
               PROVE  (Listed(r, f) \/ Owing(r, f))'
    OBVIOUS
  <2>1. Listed(r, f) \/ (r # s /\ Owing(r, f))
    BY DEF LedgerInv, Owing
  <2>2. QED
    BY <1>1, <1>2, <2>1 DEF Listed, Owing
<1>6. \A r \in Agents : \A d \in calls'[r] : calls'[r] = {d} /\ GoodCall(r, d)'
  <2>1. \A r \in Agents : \A d \in calls'[r] : calls'[r] = {d} /\ GoodCall(r, d)
    BY <1>2 DEF LedgerInv
  <2>2. QED
    BY <1>1, <2>1 DEF GoodCall
<1>7. QED
  BY <1>1, <1>3, <1>4, <1>5, <1>6 DEF LedgerInv

\* A change of the tree by what the ledger lists, owes, or need not account for.
LEMMA TreeChanges ==
  ASSUME LedgerInv, disk' = [f \in Files |-> disk'[f]], head' \subseteq Files,
         \A f \in Files : \/ disk'[f] = disk[f]
                          \/ /\ GoodContent(disk'[f])
                             /\ \A s \in Agents : Owed(s, disk'[f]) => (Listed(s, f) \/ Owing(s, f))',
         UNCHANGED <<now, rows, shell_pre, calls>>
  PROVE  LedgerInv'
<1>1. LedgerShape /\ UNCHANGED <<now, rows, shell_pre, calls>>
  BY DEF LedgerInv
<1>2. LedgerShape'
  BY <1>1 DEF LedgerShape
<1>3. \A f \in Files : GoodContent(disk'[f])
  BY DEF LedgerInv
<1>4. \A f \in Files : GoodContent(disk[f])'
  BY <1>1, <1>3 DEF GoodContent
<1>5. /\ \A r \in Agents, f \in Files : GoodRow(rows[r][f])'
      /\ \A r \in Agents : (shell_pre[r] = NoScan \/ shell_pre[r] \subseteq Files \X (0..now))'
      /\ \A r \in Agents : \A d \in calls'[r] : calls'[r] = {d} /\ GoodCall(r, d)'
  BY <1>1 DEF LedgerInv, GoodRow, GoodCall
<1>6. \A r \in Agents, f \in Files : Owed(r, disk'[f]) => (Listed(r, f) \/ Owing(r, f))'
  <2> SUFFICES ASSUME NEW r \in Agents, NEW f \in Files, Owed(r, disk'[f])
               PROVE  (Listed(r, f) \/ Owing(r, f))'
    OBVIOUS
  <2>1. CASE disk'[f] = disk[f]
    BY <1>1, <2>1 DEF LedgerInv, Listed, Owing
  <2>2. QED
    BY <2>1
<1>7. QED
  BY <1>2, <1>4, <1>5, <1>6 DEF LedgerInv

\* A write lands where the row or the scan it needs already is.
LEMMA Landing ==
  ASSUME LedgerInv, NEW s \in Agents, NEW c \in calls[s], NEW f \in Files, Land(s, c, f)
  PROVE  LedgerInv'
<1>1. /\ LedgerShape /\ now \in 1..MaxClock /\ MaxClock \in Nat /\ GoodCall(s, c)
      /\ c \in ToolCall /\ c.since \in 0..MaxClock /\ c.since <= now /\ Nobody \notin Agents
  BY LedgerAssumption DEF LedgerInv, LedgerShape, GoodCall, ToolCall
<1>2. /\ c.stage = "running" /\ c.tool \in {"Edit", "Bash"} /\ (c.tool = "Edit" => c.file = f)
      /\ UNCHANGED <<now, head, rows, shell_pre, calls>>
  BY DEF Land
<1>3. ASSUME NEW x, GoodContent(x), disk' = [disk EXCEPT ![f] = x],
             \A r \in Agents : Owed(r, x) => (Listed(r, f) \/ Owing(r, f))'
      PROVE  LedgerInv'
  <2>1. /\ disk' = [g \in Files |-> disk'[g]] /\ disk'[f] = x
        /\ \A g \in Files \ {f} : disk'[g] = disk[g]
    BY <1>1, <1>3 DEF LedgerShape
  <2>2. head' \subseteq Files
    BY <1>1, <1>2 DEF LedgerShape
  <2>3. QED
    BY <1>2, <1>3, <2>1, <2>2, TreeChanges
<1>4. GoodContent(Gone) /\ GoodContent(Clean) /\ ~Gone.owed /\ ~Clean.owed
  BY <1>1 DEF GoodContent, Content, Gone, Clean
<1>5. CASE disk' = [disk EXCEPT ![f] = Gone] \/ disk' = [disk EXCEPT ![f] = Clean]
  BY <1>1, <1>3, <1>4, <1>5 DEF Owed
<1>6. ASSUME NEW owed \in BOOLEAN, NEW since \in 0..MaxClock, Put(f, s, owed, since),
             since <= now, owed => ~Unseen(c, f),
             since = (IF c.tool = "Edit" THEN c.since ELSE now)
      PROVE  LedgerInv'
  <2>1. PICK x : x = [by |-> s, owed |-> owed, at |-> now, clean |-> FALSE,
                      since |-> IF owed THEN since ELSE 0]
    OBVIOUS
  <2>2. /\ x.by = s /\ x.owed = owed /\ x.at = now /\ (owed => x.since = since)
        /\ disk' = [disk EXCEPT ![f] = x]
    BY <2>1, <1>6 DEF Put
  <2>3. GoodContent(x)
    BY <1>1, <1>6, <2>1 DEF GoodContent, Content
  <2>4. disk'[f] = x
    BY <1>1, <2>2 DEF LedgerShape
  <2>5. CASE owed
    <3>1. c.seen /\ <<f, now>> \notin shell_pre[s]
      BY <1>6, <2>5 DEF Unseen
    <3>2. ASSUME c.tool = "Edit" PROVE Listed(s, f)'
      BY <1>1, <1>2, <1>6, <2>2, <2>4, <2>5, <3>1, <3>2 DEF GoodCall, Listed
    <3>3. ASSUME c.tool = "Bash" PROVE Owing(s, f)'
      BY <1>1, <1>2, <2>2, <2>4, <3>1, <3>3 DEF GoodCall, Scanning, Owing
    <3>4. \A r \in Agents : Owed(r, x) => (Listed(r, f) \/ Owing(r, f))'
      BY <1>2, <2>2, <3>2, <3>3 DEF Owed
    <3>5. QED
      BY <1>3, <2>2, <2>3, <3>4
  <2>6. CASE ~owed
    BY <1>3, <2>2, <2>3, <2>6 DEF Owed
  <2>7. QED
    BY <2>5, <2>6
<1>7. QED
  <2>1. CASE Put(f, s, ~Unseen(c, f), IF c.tool = "Edit" THEN c.since ELSE now)
    <3>1. PICK owed \in BOOLEAN : owed = ~Unseen(c, f)
      OBVIOUS
    <3>2. PICK since : since = IF c.tool = "Edit" THEN c.since ELSE now
      OBVIOUS
    <3>3. since \in 0..MaxClock /\ since <= now
      BY <1>1, <3>2
    <3>4. Put(f, s, owed, since)
      BY <2>1, <3>1, <3>2
    <3>5. QED
      BY <1>6, <3>1, <3>2, <3>3, <3>4
  <2>2. QED
    BY <1>5, <2>1 DEF Land

\* The operator's own writes, and a commit, are nobody's work.
LEMMA OutsideWrites ==
  ASSUME LedgerInv, Commit \/ \E f \in Files : OperatorWrites(f)
  PROVE  LedgerInv'
<1>1. /\ LedgerShape /\ now \in 1..MaxClock /\ MaxClock \in Nat /\ Nobody \notin Agents
  BY LedgerAssumption DEF LedgerInv, LedgerShape
<1>2. GoodContent(Gone) /\ GoodContent(Clean) /\ ~Gone.owed /\ ~Clean.owed
  BY <1>1 DEF GoodContent, Content, Gone, Clean
<1>3. CASE Commit
  <2>1. /\ disk' = [f \in Files |-> disk'[f]] /\ head' \subseteq Files
        /\ \A f \in Files : disk'[f] \in {Clean, Gone}
        /\ UNCHANGED <<now, rows, shell_pre, calls>>
    BY <1>3 DEF Commit
  <2>2. QED
    BY <1>1, <1>2, <2>1, TreeChanges DEF Owed
<1>4. ASSUME NEW f \in Files, OperatorWrites(f) PROVE LedgerInv'
  <2>1. PICK x : x = [by |-> Nobody, owed |-> FALSE, at |-> now, clean |-> FALSE, since |-> 0]
    OBVIOUS
  <2>2. disk' = [disk EXCEPT ![f] = x] /\ UNCHANGED <<now, head, rows, shell_pre, calls>>
    BY <1>4, <2>1 DEF OperatorWrites, Put
  <2>3. GoodContent(x) /\ ~x.owed
    BY <1>1, <2>1 DEF GoodContent, Content
  <2>4. /\ disk' = [g \in Files |-> disk'[g]] /\ disk'[f] = x
        /\ \A g \in Files \ {f} : disk'[g] = disk[g]
    BY <1>1, <2>2 DEF LedgerShape
  <2>5. QED
    BY <1>1, <2>2, <2>3, <2>4, TreeChanges DEF LedgerShape, Owed
<1>5. QED
  BY <1>3, <1>4

\* What an open scan owes is what its end would list.
LEMMA OwingIsScanned ==
  ASSUME LedgerInv, NEW s \in Agents, NEW f \in Files, disk[f].by = s, Owing(s, f)
  PROVE  f \in Scanned(s)
<1>1. GoodContent(disk[f]) /\ Nobody \notin Agents
  BY LedgerAssumption DEF LedgerInv
<1>2. ~disk[f].clean /\ disk[f] # Gone
  BY <1>1 DEF GoodContent, Gone
<1>3. QED
  BY <1>2 DEF Owing, Scanned, WrittenSince, Fingerprint

\* A command's end records everything its session is owed an account of.
LEMMA ScanCloses ==
  ASSUME LedgerInv, NEW s \in Agents, NEW c \in calls[s], c.stage = "running",
         calls' = [calls EXCEPT ![s] = {}], CloseScan(s), UNCHANGED <<now, disk, head>>
  PROVE  LedgerInv'
<1>1. /\ LedgerShape /\ now \in 1..MaxClock /\ MaxClock \in Nat /\ Nobody \notin Agents
      /\ \A g \in Files : GoodContent(disk[g])
      /\ \A r \in Agents, g \in Files : GoodRow(rows[r][g])
      /\ UNCHANGED <<now, disk, head>>
  BY LedgerAssumption DEF LedgerInv, LedgerShape
<1>2. /\ calls' = [r \in Agents |-> calls'[r]] /\ calls'[s] = {}
      /\ \A r \in Agents \ {s} : calls'[r] = calls[r]
  BY <1>1 DEF LedgerShape
<1>3. PICK written : written = Scanned(s)
  OBVIOUS
<1>4. /\ rows' = [r \in Agents |-> rows'[r]] /\ \A r \in Agents \ {s} : rows'[r] = rows[r]
      /\ rows'[s] = [g \in Files |->
           IF g \notin written THEN rows[s][g]
           ELSE Touched(rows[s][g], IF g \in head THEN "Text" ELSE "Created", "foreign")]
      /\ shell_pre' = [r \in Agents |-> shell_pre'[r]] /\ shell_pre'[s] = NoScan
      /\ \A r \in Agents \ {s} : shell_pre'[r] = shell_pre[r]
  <2>1. PICK new : new = [g \in Files |->
           IF g \notin written THEN rows[s][g]
           ELSE Touched(rows[s][g], IF g \in head THEN "Text" ELSE "Created", "foreign")]
    OBVIOUS
  <2>2. /\ rows' = [rows EXCEPT ![s] = new] /\ shell_pre' = [shell_pre EXCEPT ![s] = NoScan]
    BY <1>3, <2>1 DEF CloseScan
  <2>3. DOMAIN rows = Agents /\ DOMAIN shell_pre = Agents
    BY <1>1 DEF LedgerShape
  <2>4. /\ rows' = [r \in Agents |-> rows'[r]] /\ rows'[s] = new
        /\ \A r \in Agents \ {s} : rows'[r] = rows[r]
        /\ shell_pre' = [r \in Agents |-> shell_pre'[r]] /\ shell_pre'[s] = NoScan
        /\ \A r \in Agents \ {s} : shell_pre'[r] = shell_pre[r]
    BY <2>2, <2>3
  <2>5. QED
    BY <2>1, <2>4
<1>5. \A r \in Agents : rows'[r] = [g \in Files |-> rows'[r][g]]
  BY <1>1, <1>4 DEF LedgerShape
<1>6. \A g \in Files : \/ rows'[s][g] = rows[s][g] /\ g \notin written
                       \/ /\ g \in written /\ GoodRow(rows'[s][g])
                          /\ rows'[s][g].kind # "none" /\ rows'[s][g].last = now
  <2> SUFFICES ASSUME NEW g \in Files, g \in written
               PROVE  /\ GoodRow(rows'[s][g])
                      /\ rows'[s][g].kind # "none" /\ rows'[s][g].last = now
    BY <1>4
  <2>1. PICK kind \in {"Created", "Text"} : kind = IF g \in head THEN "Text" ELSE "Created"
    OBVIOUS
  <2>2. rows'[s][g] = Touched(rows[s][g], kind, "foreign")
    BY <1>4, <2>1
  <2>3. QED
    BY <1>1, <2>2, TouchedIsGood DEF Befores
<1>7. LedgerShape'
  BY <1>1, <1>2, <1>4, <1>5 DEF LedgerShape
<1>8. \A g \in Files : GoodContent(disk[g])'
  BY <1>1 DEF GoodContent
<1>9. \A r \in Agents, g \in Files : GoodRow(rows[r][g])'
  <2>1. \A r \in Agents, g \in Files : GoodRow(rows'[r][g])
    BY <1>1, <1>4, <1>6
  <2>2. QED
    BY <1>1, <2>1 DEF GoodRow
<1>10. \A r \in Agents : shell_pre'[r] = NoScan \/ shell_pre'[r] \subseteq Files \X (0..now')
  BY <1>1, <1>4 DEF LedgerInv
<1>11. ASSUME NEW r \in Agents, NEW g \in Files, Owed(r, disk[g])
       PROVE  (Listed(r, g) \/ Owing(r, g))'
  <2>1. disk[g].since <= now
    BY <1>1, <1>11 DEF GoodContent, Owed
  <2>2. CASE r # s
    <3>1. Listed(r, g) \/ Owing(r, g)
      BY <1>11 DEF LedgerInv
    <3>2. QED
      BY <1>1, <1>2, <1>4, <2>2, <3>1 DEF Listed, Owing
  <2>3. CASE r = s /\ Listed(s, g)
    <3>1. Listed(s, g)'
      BY <1>1, <1>6, <2>1, <2>3 DEF Listed
    <3>2. QED
      BY <2>3, <3>1
  <2>4. CASE r = s /\ Owing(s, g)
    <3>1. g \in written
      <4>1. disk[g].by = s /\ Owing(s, g)
        BY <1>11, <2>4 DEF Owed
      <4>2. g \in Scanned(s)
        BY <4>1, OwingIsScanned
      <4>3. QED
        BY <1>3, <4>2
    <3>2. Listed(s, g)'
      BY <1>1, <1>6, <2>1, <3>1 DEF Listed
    <3>3. QED
      BY <2>4, <3>2
  <2>5. QED
    BY <1>11, <2>2, <2>3, <2>4 DEF LedgerInv
<1>12. \A r \in Agents : \A d \in calls'[r] : calls'[r] = {d} /\ GoodCall(r, d)'
  <2> SUFFICES ASSUME NEW r \in Agents, NEW d \in calls'[r]
               PROVE  calls'[r] = {d} /\ GoodCall(r, d)'
    OBVIOUS
  <2>1. r # s /\ calls'[r] = calls[r] /\ d \in calls[r]
    BY <1>2
  <2>2. calls[r] = {d} /\ GoodCall(r, d)
    BY <2>1 DEF LedgerInv
  <2>3. QED
    BY <1>1, <1>4, <2>1, <2>2 DEF GoodCall
<1>13. QED
  BY <1>1, <1>7, <1>8, <1>9, <1>10, <1>11, <1>12 DEF LedgerInv

\* Work whose scan is lost is owed no longer, and the rest of the tree is as it was.
LEMMA UntrackedContent ==
  ASSUME LedgerInv, NEW whose \in SUBSET Agents, NEW f \in Files
  PROVE  /\ GoodContent(Untracked(whose)[f])
         /\ Untracked(whose)[f].owed
              => /\ Untracked(whose)[f] = disk[f]
                 /\ ~(disk[f].by \in whose /\ f \in Scanned(disk[f].by))
<1>1. GoodContent(disk[f]) /\ now \in 1..MaxClock /\ MaxClock \in Nat
  BY LedgerAssumption DEF LedgerInv, LedgerShape
<1>2. CASE disk[f].by \in whose /\ f \in Scanned(disk[f].by)
  <2>1. PICK y : y = [disk[f] EXCEPT !.owed = FALSE]
    OBVIOUS
  <2>2. /\ y \in Content /\ y.by = disk[f].by /\ ~y.owed /\ y.at = disk[f].at
        /\ y.clean = disk[f].clean
    BY <1>1, <2>1 DEF GoodContent, Content
  <2>3. PICK x : x = [y EXCEPT !.since = 0]
    OBVIOUS
  <2>4. 0 \in 0..MaxClock /\ 0 <= now
    BY <1>1
  <2>5. /\ x \in Content /\ x.by = y.by /\ ~x.owed /\ x.at = y.at
        /\ x.clean = y.clean /\ x.since = 0
    BY <2>2, <2>3, <2>4 DEF Content
  <2>6. Untracked(whose)[f] = x
    BY <1>2, <2>1, <2>3 DEF Untracked
  <2>7. QED
    BY <1>1, <2>2, <2>4, <2>5, <2>6 DEF GoodContent
<1>3. CASE ~(disk[f].by \in whose /\ f \in Scanned(disk[f].by))
  <2>1. Untracked(whose)[f] = disk[f]
    BY <1>3 DEF Untracked
  <2>2. QED
    BY <1>1, <1>3, <2>1
<1>4. QED
  BY <1>2, <1>3

\* Work an ended pass had listed is nobody's, and the rest of the tree is as it was.
LEMMA SettledContent ==
  ASSUME LedgerInv, NEW s \in Agents, NEW f \in Files
  PROVE  /\ GoodContent(Settled(s)[f])
         /\ Settled(s)[f].owed
              => Settled(s)[f] = disk[f] /\ ~(disk[f].by = s /\ rows[s][f] # NoRow)
<1>1. /\ GoodContent(disk[f]) /\ now \in 1..MaxClock /\ MaxClock \in Nat
      /\ Nobody \notin Agents
  BY LedgerAssumption DEF LedgerInv, LedgerShape
<1>2. CASE disk[f].by = s /\ rows[s][f] # NoRow
  <2>1. PICK z : z = [disk[f] EXCEPT !.by = Nobody]
    OBVIOUS
  <2>2. z \in Content /\ z.by = Nobody /\ z.at = disk[f].at
    BY <1>1, <2>1 DEF GoodContent, Content
  <2>3. PICK y : y = [z EXCEPT !.owed = FALSE]
    OBVIOUS
  <2>4. y \in Content /\ y.by = Nobody /\ ~y.owed /\ y.at = z.at
    BY <2>2, <2>3 DEF Content
  <2>5. PICK x : x = [y EXCEPT !.since = 0]
    OBVIOUS
  <2>6. x \in Content /\ x.by = Nobody /\ ~x.owed /\ x.at = y.at
    <3>1. 0 \in 0..MaxClock
      BY <1>1
    <3>2. QED
      BY <2>4, <2>5, <3>1 DEF Content
  <2>7. Settled(s)[f] = x
    BY <1>2, <2>1, <2>3, <2>5 DEF Settled
  <2>8. QED
    BY <1>1, <2>2, <2>4, <2>6, <2>7 DEF GoodContent
<1>3. CASE ~(disk[f].by = s /\ rows[s][f] # NoRow)
  <2>1. Settled(s)[f] = disk[f]
    BY <1>3 DEF Settled
  <2>2. QED
    BY <1>1, <1>3, <2>1
<1>4. QED
  BY <1>2, <1>3

\* Rows, scans or calls may go where no work is left that they were owed.
LEMMA Forgiving ==
  ASSUME LedgerInv, disk' = [f \in Files |-> disk'[f]], UNCHANGED <<now, head>>,
         \A f \in Files : GoodContent(disk'[f]),
         calls' = [s \in Agents |-> calls'[s]],
         rows' = [s \in Agents |-> [f \in Files |-> rows'[s][f]]],
         shell_pre' = [s \in Agents |-> shell_pre'[s]],
         \A s \in Agents, f \in Files : rows'[s][f] = rows[s][f] \/ rows'[s][f] = NoRow,
         \A s \in Agents : shell_pre'[s] = shell_pre[s] \/ shell_pre'[s] = NoScan,
         \A s \in Agents : \A c \in calls'[s] : calls'[s] = {c} /\ GoodCall(s, c)',
         \A s \in Agents, f \in Files :
           Owed(s, disk'[f]) => (Listed(s, f) \/ Owing(s, f))'
  PROVE  LedgerInv'
<1>1. /\ LedgerShape /\ now \in 1..MaxClock /\ MaxClock \in Nat
      /\ \A r \in Agents, g \in Files : GoodRow(rows[r][g]) /\ GoodRow(NoRow)
      /\ UNCHANGED <<now, head>>
  BY LedgerAssumption DEF LedgerInv, LedgerShape, GoodRow, LedgerRow, NoRow, Befores
<1>2. LedgerShape'
  BY <1>1 DEF LedgerShape
<1>3. \A f \in Files : GoodContent(disk[f])'
  BY <1>1 DEF GoodContent
<1>4. \A r \in Agents, f \in Files : GoodRow(rows[r][f])'
  <2>1. \A r \in Agents, f \in Files : GoodRow(rows'[r][f])
    BY <1>1
  <2>2. QED
    BY <1>1, <2>1 DEF GoodRow
<1>5. \A r \in Agents : shell_pre'[r] = NoScan \/ shell_pre'[r] \subseteq Files \X (0..now')
  BY <1>1 DEF LedgerInv
<1>6. QED
  BY <1>1, <1>2, <1>3, <1>4, <1>5 DEF LedgerInv

\* An interrupted command leaves owed only what was listed before it.
LEMMA Interrupting ==
  ASSUME LedgerInv, NEW s \in Agents, NEW c \in calls[s], Interrupt(s, c)
  PROVE  LedgerInv'
<1>1. LedgerShape
  BY DEF LedgerInv
<1>2. /\ UNCHANGED <<now, head, rows, shell_pre>> /\ disk' = Untracked({s})
      /\ calls' = [calls EXCEPT ![s] = {}]
  BY DEF Interrupt
<1>3. /\ calls' = [r \in Agents |-> calls'[r]] /\ calls'[s] = {}
      /\ \A r \in Agents \ {s} : calls'[r] = calls[r]
  BY <1>1, <1>2 DEF LedgerShape
<1>4. \A r \in Agents : \A d \in calls'[r] : calls'[r] = {d} /\ GoodCall(r, d)
  BY <1>3 DEF LedgerInv
<1>5. \A r \in Agents : \A d \in calls'[r] : calls'[r] = {d} /\ GoodCall(r, d)'
  BY <1>2, <1>4 DEF GoodCall
<1>6. /\ disk' = [f \in Files |-> disk'[f]]
      /\ \A f \in Files :
           /\ GoodContent(disk'[f])
           /\ disk'[f].owed => disk'[f] = disk[f] /\ ~(disk[f].by = s /\ f \in Scanned(s))
  <2>1. PICK whose \in SUBSET Agents : whose = {s}
    OBVIOUS
  <2>2. disk' = Untracked(whose)
    BY <1>2, <2>1
  <2>3. disk' = [f \in Files |-> disk'[f]]
    BY <1>2 DEF Untracked
  <2>4. \A f \in Files :
           /\ GoodContent(disk'[f])
           /\ disk'[f].owed
                => disk'[f] = disk[f] /\ ~(disk[f].by \in whose /\ f \in Scanned(disk[f].by))
    BY <2>2, UntrackedContent
  <2>5. QED
    BY <2>1, <2>3, <2>4
<1>7. ASSUME NEW r \in Agents, NEW f \in Files, Owed(r, disk'[f])
      PROVE  (Listed(r, f) \/ Owing(r, f))'
  <2>1. disk'[f] = disk[f] /\ ~(disk[f].by = s /\ f \in Scanned(s)) /\ disk[f].by = r
    BY <1>6, <1>7 DEF Owed
  <2>2. Listed(r, f) \/ Owing(r, f)
    BY <1>7, <2>1 DEF LedgerInv
  <2>3. CASE Listed(r, f)
    BY <1>2, <2>1, <2>3 DEF Listed
  <2>4. CASE r # s /\ Owing(r, f)
    BY <1>2, <1>3, <2>1, <2>4 DEF Owing
  <2>5. QED
    BY <2>1, <2>2, <2>3, <2>4, OwingIsScanned
<1>8. /\ rows' = [r \in Agents |-> [f \in Files |-> rows'[r][f]]]
      /\ shell_pre' = [r \in Agents |-> shell_pre'[r]]
  BY <1>1, <1>2 DEF LedgerShape
<1>9. QED
  BY <1>2, <1>3, <1>5, <1>6, <1>7, <1>8, Forgiving

\* A restart of the daemon leaves owed only what was listed before it.
LEMMA Crashing ==
  ASSUME LedgerInv, LedgerCrash
  PROVE  LedgerInv'
<1> DEFINE failed(c) == [c EXCEPT !.stage = "running",
                                  !.seen = c.seen /\ c.stage = "running" /\ c.tool = "Edit"]
<1>1. /\ LedgerShape /\ UNCHANGED <<now, head, rows>> /\ disk' = Untracked(Agents)
      /\ shell_pre' = [s \in Agents |-> NoScan]
      /\ calls' = [s \in Agents |-> {failed(c) : c \in calls[s]}]
  BY DEF LedgerInv, LedgerCrash
<1>2. ASSUME NEW s \in Agents, NEW c \in calls[s] PROVE GoodCall(s, failed(c))'
  <2>1. c \in ToolCall /\ GoodCall(s, c)
    BY DEF LedgerInv, GoodCall
  <2>2. PICK b \in BOOLEAN : b = (c.seen /\ c.stage = "running" /\ c.tool = "Edit")
    OBVIOUS
  <2>3. PICK e : e = [c EXCEPT !.stage = "running"]
    OBVIOUS
  <2>4. e \in ToolCall /\ e.tool = c.tool /\ e.file = c.file /\ e.since = c.since
    BY <2>1, <2>3 DEF ToolCall
  <2>5. PICK d : d = [e EXCEPT !.seen = b]
    OBVIOUS
  <2>6. /\ d \in ToolCall /\ d.tool = c.tool /\ d.file = c.file /\ d.since = c.since /\ d.seen = b
    BY <2>4, <2>5 DEF ToolCall
  <2>7. failed(c) = d
    BY <2>2, <2>3, <2>5
  <2> HIDE DEF failed
  <2>8. d.seen => c.seen /\ c.stage = "running" /\ c.tool = "Edit"
    BY <2>2, <2>6, Zenon
  <2>9. GoodCall(s, d)'
    <3>1. ~Scanning(d)
      BY <2>6, <2>8 DEF Scanning
    <3>2. d.seen => rows[s][d.file].kind # "none" /\ d.since <= rows[s][d.file].last
      BY <2>1, <2>6, <2>8 DEF GoodCall
    <3>3. QED
      BY <1>1, <2>1, <2>6, <3>1, <3>2 DEF GoodCall, Scanning
  <2>10. QED
    BY <2>7, <2>9
<1>3. \A s \in Agents : \A d \in calls'[s] : calls'[s] = {d} /\ GoodCall(s, d)'
  <2> SUFFICES ASSUME NEW s \in Agents, NEW d \in calls'[s]
               PROVE  calls'[s] = {d} /\ GoodCall(s, d)'
    OBVIOUS
  <2> HIDE DEF failed
  <2>1. PICK c \in calls[s] : d = failed(c)
    BY <1>1
  <2>2. calls[s] = {c}
    BY DEF LedgerInv
  <2>3. QED
    BY <1>1, <1>2, <2>1, <2>2
<1>4. /\ disk' = [f \in Files |-> disk'[f]]
      /\ \A f \in Files :
           /\ GoodContent(disk'[f])
           /\ disk'[f].owed
                => disk'[f] = disk[f] /\ ~(disk[f].by \in Agents /\ f \in Scanned(disk[f].by))
  <2>1. Agents \in SUBSET Agents
    OBVIOUS
  <2>2. QED
    BY <1>1, <2>1, UntrackedContent DEF Untracked
<1>5. ASSUME NEW r \in Agents, NEW f \in Files, Owed(r, disk'[f])
      PROVE  Listed(r, f)'
  <2>1. disk'[f] = disk[f] /\ f \notin Scanned(r) /\ disk[f].by = r
    BY <1>4, <1>5 DEF Owed
  <2>2. Listed(r, f)
    BY <1>5, <2>1, OwingIsScanned DEF LedgerInv
  <2>3. QED
    BY <1>1, <2>1, <2>2 DEF Listed
<1>6. QED
  <2> HIDE DEF failed
  <2>1. /\ calls' = [s \in Agents |-> calls'[s]]
        /\ rows' = [s \in Agents |-> [f \in Files |-> rows'[s][f]]]
        /\ shell_pre' = [s \in Agents |-> shell_pre'[s]]
        /\ \A s \in Agents : shell_pre'[s] = NoScan
    BY <1>1 DEF LedgerShape
  <2>2. QED
    BY <1>1, <1>3, <1>4, <1>5, <2>1, Forgiving

\* A pass that ends leaves owed only what a scan under way has yet to list.
LEMMA Forgetting ==
  ASSUME LedgerInv, NEW s \in Agents, ForgetChanges(s)
  PROVE  LedgerInv'
<1> DEFINE forgot(c) == [c EXCEPT !.seen = c.seen /\ (c.tool = "Edit" => c.stage = "held")]
<1>1. /\ LedgerShape /\ UNCHANGED <<now, head, shell_pre>> /\ disk' = Settled(s)
      /\ rows' = [rows EXCEPT ![s] = [f \in Files |-> NoRow]]
      /\ calls' = [calls EXCEPT ![s] = {forgot(c) : c \in calls[s]}]
  BY DEF LedgerInv, ForgetChanges
<1>2. ASSUME NEW c \in calls[s] PROVE GoodCall(s, forgot(c))'
  <2>1. c \in ToolCall /\ GoodCall(s, c)
    BY DEF LedgerInv, GoodCall
  <2>2. PICK b \in BOOLEAN : b = (c.seen /\ (c.tool = "Edit" => c.stage = "held"))
    OBVIOUS
  <2>3. PICK d : d = [c EXCEPT !.seen = b]
    OBVIOUS
  <2>4. /\ d \in ToolCall /\ d.tool = c.tool /\ d.stage = c.stage /\ d.since = c.since /\ d.seen = b
    BY <2>1, <2>3 DEF ToolCall
  <2>5. forgot(c) = d
    BY <2>2, <2>3
  <2> HIDE DEF forgot
  <2>6. d.seen => c.seen /\ (c.tool = "Edit" => c.stage = "held")
    BY <2>2, <2>4, Zenon
  <2>7. GoodCall(s, d)'
    BY <1>1, <2>1, <2>4, <2>6 DEF GoodCall, Scanning
  <2>8. QED
    BY <2>5, <2>7
<1> HIDE DEF forgot
<1>3. /\ calls' = [r \in Agents |-> calls'[r]] /\ calls'[s] = {forgot(c) : c \in calls[s]}
      /\ \A r \in Agents \ {s} : calls'[r] = calls[r]
  BY <1>1 DEF LedgerShape
<1>4. /\ rows' = [r \in Agents |-> [f \in Files |-> rows'[r][f]]]
      /\ \A f \in Files : rows'[s][f] = NoRow
      /\ \A r \in Agents \ {s} : rows'[r] = rows[r]
  <2>1. PICK empty : empty = [f \in Files |-> NoRow]
    OBVIOUS
  <2>2. rows' = [rows EXCEPT ![s] = empty] /\ DOMAIN rows = Agents
    BY <1>1, <2>1 DEF LedgerShape
  <2>3. /\ rows' = [r \in Agents |-> rows'[r]] /\ rows'[s] = empty
        /\ \A r \in Agents \ {s} : rows'[r] = rows[r]
    BY <2>2
  <2>4. \A r \in Agents : rows'[r] = [f \in Files |-> rows'[r][f]]
    BY <1>1, <2>1, <2>3 DEF LedgerShape
  <2>5. QED
    BY <2>1, <2>3, <2>4
<1>5. \A r \in Agents : \A d \in calls'[r] : calls'[r] = {d} /\ GoodCall(r, d)'
  <2> SUFFICES ASSUME NEW r \in Agents, NEW d \in calls'[r]
               PROVE  calls'[r] = {d} /\ GoodCall(r, d)'
    OBVIOUS
  <2>1. CASE r = s
    <3>1. PICK c \in calls[s] : d = forgot(c)
      BY <1>3, <2>1
    <3>2. calls[s] = {c}
      BY DEF LedgerInv
    <3>3. QED
      BY <1>2, <1>3, <2>1, <3>1, <3>2
  <2>2. CASE r # s
    <3>1. calls'[r] = {d} /\ GoodCall(r, d)
      BY <1>3, <2>2 DEF LedgerInv
    <3>2. QED
      BY <1>1, <1>4, <2>2, <3>1 DEF GoodCall
  <2>3. QED
    BY <2>1, <2>2
<1>6. /\ disk' = [f \in Files |-> disk'[f]]
      /\ \A f \in Files :
           /\ GoodContent(disk'[f])
           /\ disk'[f].owed => disk'[f] = disk[f] /\ ~(disk[f].by = s /\ rows[s][f] # NoRow)
  BY <1>1, SettledContent DEF Settled
<1>7. \A d \in calls[s] : Scanning(d) => Scanning(forgot(d))
  <2> SUFFICES ASSUME NEW c \in calls[s], Scanning(c) PROVE Scanning(forgot(c))
    OBVIOUS
  <2>1. c \in ToolCall
    BY DEF LedgerInv, GoodCall
  <2>2. QED
    BY <2>1 DEF forgot, Scanning, ToolCall
<1>8. ASSUME NEW r \in Agents, NEW f \in Files, Owed(r, disk'[f])
      PROVE  (Listed(r, f) \/ Owing(r, f))'
  <2>1. disk'[f] = disk[f] /\ ~(r = s /\ rows[s][f] # NoRow)
    BY <1>6, <1>8 DEF Owed
  <2>2. Listed(r, f) \/ Owing(r, f)
    BY <1>8, <2>1 DEF LedgerInv
  <2>3. CASE r # s
    BY <1>1, <1>3, <1>4, <2>1, <2>2, <2>3 DEF Listed, Owing
  <2>4. CASE r = s
    <3>1. Owing(s, f)
      BY <2>1, <2>2, <2>4 DEF Listed, NoRow
    <3>2. PICK c \in calls[s] : Scanning(c)
      BY <3>1 DEF Owing
    <3>3. forgot(c) \in calls'[s] /\ Scanning(forgot(c))
      BY <1>3, <1>7, <3>2
    <3>4. QED
      BY <1>1, <2>1, <2>4, <3>1, <3>3 DEF Owing
  <2>5. QED
    BY <2>3, <2>4
<1>9. shell_pre' = [r \in Agents |-> shell_pre'[r]]
  BY <1>1 DEF LedgerShape
<1>10. \A r \in Agents, f \in Files : rows'[r][f] = rows[r][f] \/ rows'[r][f] = NoRow
  BY <1>4
<1>11. QED
  BY <1>1, <1>3, <1>4, <1>5, <1>6, <1>8, <1>9, <1>10, Forgiving

\* Marking a file reviewed, or taking the mark back, moves no row's time or baseline.
LEMMA Marking ==
  ASSUME LedgerInv, UNCHANGED <<now, disk, head, shell_pre, calls>>,
         rows' = [s \in Agents |-> [f \in Files |-> rows'[s][f]]],
         \A s \in Agents, f \in Files : \/ rows'[s][f] = rows[s][f]
           \/ /\ rows[s][f].kind # "none"
              /\ \E t \in 0..now : rows'[s][f] = [rows[s][f] EXCEPT !.reviewed = t]
  PROVE  LedgerInv'
<1>1. /\ LedgerShape /\ now \in 1..MaxClock /\ MaxClock \in Nat
      /\ UNCHANGED <<now, disk, head, shell_pre, calls>>
  BY LedgerAssumption DEF LedgerInv, LedgerShape
<1>2. ASSUME NEW s \in Agents, NEW f \in Files
      PROVE  /\ GoodRow(rows'[s][f]) /\ rows'[s][f].kind = rows[s][f].kind
             /\ rows'[s][f].last = rows[s][f].last
  <2>1. GoodRow(rows[s][f])
    BY DEF LedgerInv
  <2>2. ASSUME NEW t \in 0..now, rows[s][f].kind # "none",
               rows'[s][f] = [rows[s][f] EXCEPT !.reviewed = t]
        PROVE  /\ GoodRow(rows'[s][f]) /\ rows'[s][f].kind = rows[s][f].kind
               /\ rows'[s][f].last = rows[s][f].last
    <3>1. t \in 0..MaxClock /\ t <= now
      BY <1>1
    <3>2. PICK row : row = rows[s][f]
      OBVIOUS
    <3>3. PICK new : new = [row EXCEPT !.reviewed = t]
      OBVIOUS
    <3>4. row \in LedgerRow
      BY <2>1, <3>2 DEF GoodRow
    <3>5. /\ new \in LedgerRow /\ new.kind = row.kind /\ new.last = row.last /\ new.before = row.before
          /\ new.reviewed = t
      BY <3>1, <3>3, <3>4 DEF LedgerRow
    <3>6. QED
      BY <2>1, <2>2, <3>1, <3>2, <3>3, <3>5 DEF GoodRow
  <2>3. QED
    BY <2>1, <2>2
<1>3. LedgerShape'
  BY <1>1 DEF LedgerShape
<1>4. \A r \in Agents, f \in Files : GoodRow(rows[r][f])'
  BY <1>1, <1>2 DEF GoodRow
<1>5. /\ \A f \in Files : GoodContent(disk[f])'
      /\ \A r \in Agents : (shell_pre[r] = NoScan \/ shell_pre[r] \subseteq Files \X (0..now))'
  BY <1>1 DEF LedgerInv, GoodContent
<1>6. \A r \in Agents : \A d \in calls'[r] : calls'[r] = {d} /\ GoodCall(r, d)'
  <2> SUFFICES ASSUME NEW r \in Agents, NEW d \in calls'[r]
               PROVE  calls'[r] = {d} /\ GoodCall(r, d)'
    OBVIOUS
  <2>1. calls'[r] = {d} /\ GoodCall(r, d)
    BY <1>1 DEF LedgerInv
  <2>2. d.file \in Files
    BY <2>1 DEF GoodCall, ToolCall
  <2>3. QED
    BY <1>1, <1>2, <2>1, <2>2 DEF GoodCall
<1>7. \A r \in Agents, f \in Files : Owed(r, disk'[f]) => (Listed(r, f) \/ Owing(r, f))'
  BY <1>1, <1>2 DEF LedgerInv, Listed, Owing, Owed
<1>8. QED
  BY <1>1, <1>3, <1>4, <1>5, <1>6, <1>7 DEF LedgerInv

\* Time passes.
LEMMA Ticking ==
  ASSUME LedgerInv, Tick
  PROVE  LedgerInv'
<1>1. /\ LedgerShape /\ now \in 1..MaxClock /\ MaxClock \in Nat
      /\ now' = now + 1 /\ now' \in 1..MaxClock /\ UNCHANGED <<disk, head, rows, shell_pre, calls>>
  BY LedgerAssumption DEF LedgerInv, LedgerShape, Tick
<1>2. LedgerShape'
  BY <1>1 DEF LedgerShape
<1>3. \A f \in Files : GoodContent(disk[f])'
  BY <1>1 DEF LedgerInv, GoodContent, Content
<1>4. \A r \in Agents, f \in Files : GoodRow(rows[r][f])'
  BY <1>1 DEF LedgerInv, GoodRow, LedgerRow
<1>5. \A r \in Agents : (shell_pre[r] = NoScan \/ shell_pre[r] \subseteq Files \X (0..now))'
  BY <1>1 DEF LedgerInv
<1>6. \A r \in Agents : \A d \in calls'[r] : calls'[r] = {d} /\ GoodCall(r, d)'
  BY <1>1 DEF LedgerInv, GoodCall, ToolCall
<1>7. \A r \in Agents, f \in Files : Owed(r, disk'[f]) => (Listed(r, f) \/ Owing(r, f))'
  BY <1>1 DEF LedgerInv, Listed, Owing
<1>8. QED
  BY <1>1, <1>2, <1>3, <1>4, <1>5, <1>6, <1>7 DEF LedgerInv

\* Every step keeps it.
LEMMA LedgerStep ==
  ASSUME LedgerInv, [LedgerNext]_ledgerVars
  PROVE  LedgerInv'
<1>1. /\ LedgerShape /\ now \in 1..MaxClock /\ MaxClock \in Nat
      /\ \A s \in Agents : ToolsOf[s] \subseteq {"Edit", "Bash", "SafeBash"}
  BY LedgerAssumption DEF LedgerInv, LedgerShape
<1>2. \A s \in Agents, f \in Files, tool \in {"Edit", "Bash", "SafeBash"} :
        LET c == Call(tool, f, "held") IN GoodCall(s, c)
  BY <1>1 DEF Call, GoodCall, Scanning, ToolCall
<1>3. ASSUME NEW s \in Agents, NEW f \in Files, NEW verdict \in {"Allow", "Hold", "Deny"},
             NEW tool \in {"Edit", "Bash", "SafeBash"}, AskTool(s, tool, f, verdict)
      PROVE  LedgerInv'
  <2>1. calls[s] = {} /\ UNCHANGED <<now, disk, head>>
    BY <1>3 DEF AskTool
  <2>2. CASE verdict = "Allow"
    <3>1. Observe(s, tool, f) /\ calls' = [calls EXCEPT ![s] = {Call(tool, f, "running")}]
      BY <1>3, <2>2 DEF AskTool
    <3>2. QED
      BY <2>1, <3>1, LettingThrough
  <2>3. CASE verdict = "Hold"
    <3>1. PICK d : d = Call(tool, f, "held")
      OBVIOUS
    <3>2. /\ UNCHANGED <<rows, shell_pre>> /\ calls' = [calls EXCEPT ![s] = {d}]
          /\ GoodCall(s, d)
      BY <1>2, <1>3, <2>3, <3>1 DEF AskTool
    <3>3. QED
      BY <2>1, <3>2, NothingOwed
  <2>4. CASE verdict = "Deny"
    <3>1. UNCHANGED <<rows, shell_pre>> /\ calls' = [calls EXCEPT ![s] = {}]
      BY <1>1, <1>3, <2>1, <2>4 DEF AskTool, LedgerShape
    <3>2. QED
      BY <2>1, <3>1, NothingOwed
  <2>5. QED
    BY <2>2, <2>3, <2>4
<1>4. ASSUME NEW s \in Agents, NEW c \in calls[s], NEW allowed \in BOOLEAN, Settle(s, c, allowed)
      PROVE  LedgerInv'
  <2>1. calls[s] = {c} /\ c \in ToolCall /\ c.stage = "held" /\ UNCHANGED <<now, disk, head>>
    BY <1>4 DEF LedgerInv, GoodCall, Settle
  <2>2. CASE allowed
    <3>1. /\ Observe(s, c.tool, c.file)
          /\ calls' = [calls EXCEPT ![s] = {Call(c.tool, c.file, "running")}]
      BY <1>4, <2>2 DEF Settle
    <3>2. c.tool \in {"Edit", "Bash", "SafeBash"} /\ c.file \in Files
      BY <2>1 DEF ToolCall
    <3>3. \A d \in calls[s] : d.stage # "running"
      BY <2>1
    <3>4. QED
      BY <2>1, <3>1, <3>2, <3>3, LettingThrough
  <2>3. CASE ~allowed
    <3>1. UNCHANGED <<rows, shell_pre>> /\ calls' = [calls EXCEPT ![s] = {}]
      BY <1>4, <2>3 DEF Settle
    <3>2. \A d \in calls[s] : ~Scanning(d)
      BY <2>1 DEF Scanning
    <3>3. QED
      BY <2>1, <3>1, <3>2, NothingOwed
  <2>4. QED
    BY <2>2, <2>3
<1>5. ASSUME NEW s \in Agents, NEW c \in calls[s], Finish(s, c) PROVE LedgerInv'
  <2>1. /\ calls[s] = {c} /\ c.stage = "running" /\ calls' = [calls EXCEPT ![s] = {}]
        /\ UNCHANGED <<now, disk, head>>
    BY <1>5 DEF LedgerInv, Finish
  <2>2. CASE c.tool = "Edit"
    <3>1. UNCHANGED <<rows, shell_pre>>
      BY <1>5, <2>2 DEF Finish
    <3>2. \A d \in calls[s] : ~Scanning(d)
      BY <2>1, <2>2 DEF Scanning
    <3>3. QED
      BY <2>1, <3>1, <3>2, NothingOwed
  <2>3. CASE c.tool # "Edit"
    <3>1. CloseScan(s)
      BY <1>5, <2>3 DEF Finish
    <3>2. QED
      BY <2>1, <3>1, ScanCloses
  <2>4. QED
    BY <2>2, <2>3
<1>6. ASSUME NEW s \in Agents, NEW fs \in SUBSET Files, MarkReviewed(s, fs) PROVE LedgerInv'
  <2>1. PICK new : new = [f \in Files |-> IF f \in fs THEN [rows[s][f] EXCEPT !.reviewed = now]
                                         ELSE rows[s][f]]
    OBVIOUS
  <2>2. /\ rows' = [rows EXCEPT ![s] = new] /\ UNCHANGED <<now, disk, head, shell_pre, calls>>
        /\ \A f \in fs : rows[s][f].kind # "none"
    BY <1>6, <2>1 DEF MarkReviewed
  <2>3. DOMAIN rows = Agents
    BY <1>1 DEF LedgerShape
  <2>4. /\ rows' = [r \in Agents |-> rows'[r]] /\ rows'[s] = new
        /\ \A r \in Agents \ {s} : rows'[r] = rows[r]
    BY <2>2, <2>3
  <2>5. \A r \in Agents : rows'[r] = [f \in Files |-> rows'[r][f]]
    BY <1>1, <2>1, <2>4 DEF LedgerShape
  <2>6. now \in 0..now
    BY <1>1
  <2>7. \A r \in Agents, f \in Files : \/ rows'[r][f] = rows[r][f]
          \/ /\ rows[r][f].kind # "none"
             /\ \E t \in 0..now : rows'[r][f] = [rows[r][f] EXCEPT !.reviewed = t]
    BY <2>1, <2>2, <2>4, <2>6
  <2>8. QED
    BY <2>2, <2>4, <2>5, <2>7, Marking
<1>7. ASSUME NEW s \in Agents, NEW f \in Files, Unmark(s, f) PROVE LedgerInv'
  <2>1. PICK new : new = [rows[s][f] EXCEPT !.reviewed = 0]
    OBVIOUS
  <2>2. /\ rows' = [rows EXCEPT ![s][f] = new] /\ UNCHANGED <<now, disk, head, shell_pre, calls>>
        /\ rows[s][f].reviewed # 0
    BY <1>7, <2>1 DEF Unmark
  <2>3. DOMAIN rows = Agents /\ \A r \in Agents : DOMAIN rows[r] = Files
    BY <1>1 DEF LedgerShape
  <2>4. /\ rows' = [r \in Agents |-> rows'[r]] /\ rows'[s] = [rows[s] EXCEPT ![f] = new]
        /\ \A r \in Agents \ {s} : rows'[r] = rows[r]
    BY <2>2, <2>3
  <2>5. \A r \in Agents : rows'[r] = [g \in Files |-> rows'[r][g]]
    BY <1>1, <2>3, <2>4 DEF LedgerShape
  <2>6. 0 \in 0..now /\ rows[s][f].kind # "none"
    BY <1>1, <2>2 DEF LedgerInv, GoodRow, NoRow
  <2>7. \A r \in Agents, g \in Files : \/ rows'[r][g] = rows[r][g]
          \/ /\ rows[r][g].kind # "none"
             /\ \E t \in 0..now : rows'[r][g] = [rows[r][g] EXCEPT !.reviewed = t]
    BY <2>1, <2>3, <2>4, <2>6
  <2>8. QED
    BY <2>2, <2>4, <2>5, <2>7, Marking
<1>8. CASE UNCHANGED ledgerVars
  <2>1. /\ rows' = [s \in Agents |-> [f \in Files |-> rows'[s][f]]]
        /\ rows' = rows /\ UNCHANGED <<now, disk, head, shell_pre, calls>>
    BY <1>1, <1>8 DEF ledgerVars, LedgerShape
  <2>2. QED
    BY <2>1, Marking
<1>9. CASE LedgerNext
  <2>1. CASE \E s \in Agents, f \in Files, verdict \in {"Allow", "Hold", "Deny"} :
               \E tool \in ToolsOf[s] : AskTool(s, tool, f, verdict)
    BY <1>1, <1>3, <2>1
  <2>2. CASE \E s \in Agents : \E c \in calls[s] :
               \/ \E allowed \in BOOLEAN : Settle(s, c, allowed)
               \/ \E f \in Files : Land(s, c, f)
               \/ Finish(s, c) \/ Interrupt(s, c)
    BY <1>4, <1>5, <2>2, Landing, Interrupting
  <2>3. QED
    BY <1>6, <1>7, <1>9, <2>1, <2>2, OutsideWrites, Crashing, Ticking, Forgetting DEF LedgerNext
<1>10. QED
  BY <1>8, <1>9

\* The ledger starts with nothing owed.
LEMMA LedgerStarts ==
  ASSUME LedgerInit PROVE LedgerInv
<1>1. /\ 1 \in 1..MaxClock /\ Tracked \subseteq Files /\ Nobody \notin Agents /\ MaxClock \in Nat
      /\ 0 \in 0..MaxClock /\ 0 <= now /\ now = 1
  BY LedgerAssumption DEF LedgerInit
<1>2. GoodContent(Gone) /\ GoodContent(Clean) /\ GoodContent([Clean EXCEPT !.clean = FALSE])
      /\ ~Gone.owed /\ ~Clean.owed /\ ~[Clean EXCEPT !.clean = FALSE].owed
  BY <1>1 DEF GoodContent, Content, Gone, Clean
<1>3. /\ disk = [f \in Files |-> disk[f]]
      /\ \A f \in Files : disk[f] \in {Gone, Clean, [Clean EXCEPT !.clean = FALSE]}
  BY DEF LedgerInit
<1>4. GoodRow(NoRow)
  BY <1>1 DEF GoodRow, LedgerRow, NoRow, Befores
<1>5. /\ LedgerShape
      /\ \A s \in Agents, f \in Files : rows[s][f] = NoRow
      /\ \A s \in Agents : shell_pre[s] = NoScan /\ calls[s] = {}
  BY <1>1, <1>3 DEF LedgerInit, LedgerShape
<1>6. QED
  BY <1>1, <1>2, <1>3, <1>4, <1>5 DEF LedgerInv, Owed

\* The ledger's inductive invariant.
THEOREM LedgerIsKept == LedgerSpec => []LedgerInv
<1>1. LedgerInit => LedgerInv
  BY LedgerStarts
<1>2. LedgerInv /\ [LedgerNext]_ledgerVars => LedgerInv'
  BY LedgerStep
<1>3. QED
  BY <1>1, <1>2, PTL DEF LedgerSpec

\* Every tree, row, fingerprint and time is one the code can store.
THEOREM LedgerTypeCorrect == LedgerSpec => []LedgerTypeOK
<1>1. ASSUME LedgerInv PROVE LedgerTypeOK
  <2>1. /\ LedgerShape /\ now \in 1..MaxClock /\ head \subseteq Files /\ MaxClock \in Nat
        /\ \A f \in Files : disk[f] \in Content /\ disk[f].at <= now
        /\ \A s \in Agents, f \in Files : GoodRow(rows[s][f])
    BY <1>1, LedgerAssumption DEF LedgerInv, LedgerShape, GoodContent
  <2>2. disk \in [Files -> Content]
    BY <2>1 DEF LedgerShape
  <2>3. ASSUME NEW s \in Agents PROVE rows[s] \in [Files -> LedgerRow]
    <3>1. rows[s] = [f \in Files |-> rows[s][f]]
      BY <2>1 DEF LedgerShape
    <3>2. \A f \in Files : rows[s][f] \in LedgerRow
      BY <2>1 DEF GoodRow
    <3>3. QED
      BY <3>1, <3>2
  <2>4. rows \in [Agents -> [Files -> LedgerRow]]
    BY <2>1, <2>3 DEF LedgerShape
  <2>5. QED
    BY <1>1, <2>1, <2>2, <2>4 DEF LedgerTypeOK, LedgerInv, Content, LedgerRow, GoodRow
<1>2. QED
  BY <1>1, LedgerIsKept, PTL

\* What a session wrote through calls the server saw is listed once they have ended, and
\* no earlier mark counts as a review of it.
THEOREM WritesAreAlwaysListed == LedgerSpec => []WritesAreListed
<1>1. ASSUME LedgerInv PROVE WritesAreListed
  <2> SUFFICES ASSUME NEW s \in Agents, NEW f \in Files,
                      calls[s] = {}, disk[f].by = s, disk[f].owed
               PROVE  /\ rows[s][f].kind # "none"
                      /\ Reviewed(rows[s][f]) => rows[s][f].reviewed >= disk[f].since
    BY DEF WritesAreListed
  <2>1. Listed(s, f)
    BY <1>1 DEF LedgerInv, Owing, Owed
  <2>2. rows[s][f] \in LedgerRow /\ disk[f] \in Content
    BY <1>1 DEF LedgerInv, GoodRow, GoodContent
  <2>3. /\ rows[s][f].last \in Nat /\ rows[s][f].reviewed \in Nat /\ disk[f].since \in Nat
    BY <2>2, LedgerAssumption DEF LedgerRow, Content
  <2>4. QED
    BY <2>1, <2>3 DEF Listed, Reviewed
<1>2. QED
  BY <1>1, LedgerIsKept, PTL

\* No baseline is work of the session's own that the ledger had, or owed, an account of.
THEOREM BaselineIsAlwaysForeign == LedgerSpec => []BaselineIsForeign
<1>1. LedgerInv => BaselineIsForeign
  BY DEF LedgerInv, GoodRow, BaselineIsForeign
<1>2. QED
  BY <1>1, LedgerIsKept, PTL
=============================================================================
