---------------------------- MODULE ChangeLedger ----------------------------
(***************************************************************************)
(* The review ledger: which files a session wrote, what they held before,  *)
(* and which the operator has reviewed.  A declared write is recorded when *)
(* its hook is allowed, before it lands; a shell command is fingerprinted  *)
(* around its run (crates/control server.rs decide, open_shell_scan,       *)
(* close_shell_scan).  The rows live in crates/persistence store.rs.       *)
(***************************************************************************)
EXTENDS Naturals

CONSTANTS
  Agents,       \* the sessions that write
  Files,
  Tracked,      \* the files the repository holds at the start
  ToolsOf,      \* session -> the tools it uses
  Interrupts,   \* the sessions of which a command may end without its PostToolUse
  Crashes,      \* whether the daemon may die
  MaxClock,     \* bound: milliseconds
  Nobody        \* the author of what no session wrote

ASSUME LedgerAssumption ==
  /\ Tracked \subseteq Files /\ Nobody \notin Agents
  /\ Interrupts \subseteq Agents /\ Crashes \in BOOLEAN
  /\ ToolsOf \in [Agents -> SUBSET {"Edit", "Bash", "SafeBash"}]
  /\ MaxClock \in Nat \ {0}
  /\ \A f \in Files, t \in 0..MaxClock : <<f, t>> # Nobody

VARIABLES
  now,        \* wall clock, ms
  disk,       \* file -> what is in the tree, or Gone
  head,       \* the files HEAD has
  rows,       \* session -> file -> its row of session_file_change, or NoRow
  shell_pre,  \* session -> the fingerprint an open shell scan took, or NoScan
  calls       \* session -> the tool calls the hook server has been asked about: one at
              \* a time ("Claude Code runs a session's tools one at a time")

ledgerVars == <<now, disk, head, rows, shell_pre, calls>>

\* `by' is the session that wrote a file last; Nobody, when the operator wrote it,
\* or since it was committed or the pass it was listed in was ended.  `owed' is history:
\* whether the ledger has, or a call still open will bring, an account of that work; it
\* never had one of what it could not see written (Unseen) or lost track of (Interrupt,
\* LedgerCrash).  `clean' is the text of HEAD.
Gone    == [by |-> Nobody, owed |-> FALSE, at |-> 0, since |-> 0, clean |-> FALSE]
Clean   == [by |-> Nobody, owed |-> FALSE, at |-> 0, since |-> 0, clean |-> TRUE]
NoScan  == {Nobody}

\* `before' says what the baseline of a row holds: text that is not the session's own work,
\* work of its own that was owed, or work of its own that was lost.
NoRow   == [kind |-> "none", before |-> "foreign", last |-> 0, reviewed |-> 0]
Befores == {"foreign", "owed", "lost"}
BeforeOf(s, content) ==
  IF content.by # s THEN "foreign" ELSE IF content.owed THEN "owed" ELSE "lost"

-----------------------------------------------------------------------------
(* The store *)

Reviewed(row) == row.kind # "none" /\ row.reviewed # 0 /\ row.reviewed >= row.last

\* Mutant: the upsert writes the baseline again.
TouchedOver(row, kind, before) == [row EXCEPT !.kind = kind, !.before = before, !.last = now]

\* Store::record_touch: the insert writes the baseline, a conflict moves the time only.
Touched(row, kind, before) ==
  IF row.kind = "none" THEN [kind |-> kind, before |-> before, last |-> now, reviewed |-> 0]
  ELSE [row EXCEPT !.last = now]

-----------------------------------------------------------------------------
(* The hook server *)

\* read_baseline: the file as the blocked call finds it; none to read is a creation.
TouchDeclared(s, f) ==
  rows' = [rows EXCEPT ![s][f] =
             Touched(@, IF disk[f] = Gone THEN "Created" ELSE "Text", BeforeOf(s, disk[f]))]

\* Fingerprint::of over dirty_paths: the stamps of the files that differ from HEAD.
Fingerprint == {<<f, disk[f].at>> : f \in {g \in Files : disk[g] # Gone /\ ~disk[g].clean}}

\* open_shell_scan, for a command that could write; record_touch, for a declared one.
Observe(s, tool, f) ==
  /\ IF tool = "Edit" THEN TouchDeclared(s, f) ELSE UNCHANGED rows
  /\ shell_pre' = IF tool = "Bash" THEN [shell_pre EXCEPT ![s] = Fingerprint] ELSE shell_pre

Call(tool, f, stage) ==
  [tool |-> tool, file |-> f, stage |-> stage, seen |-> TRUE,
   since |-> IF tool = "Edit" /\ stage = "running" THEN now ELSE 0]

\* decide: an allowed call is recorded and runs; a denied one leaves nothing behind; a
\* held one waits.  The verdict is the gate's.
AskTool(s, tool, f, verdict) ==
  /\ calls[s] = {}
  /\ \/ verdict = "Allow" /\ Observe(s, tool, f)
        /\ calls' = [calls EXCEPT ![s] = {Call(tool, f, "running")}]
     \/ verdict = "Hold" /\ UNCHANGED <<rows, shell_pre>>
        /\ calls' = [calls EXCEPT ![s] = {Call(tool, f, "held")}]
     \/ verdict = "Deny" /\ UNCHANGED <<rows, shell_pre, calls>>
  /\ UNCHANGED <<now, disk, head>>

\* Mutant: a held call that is let through is not recorded.
SettleUnseen(s, c, allowed) ==
  /\ c \in calls[s] /\ c.stage = "held"
  /\ calls' = [calls EXCEPT ![s] = IF allowed THEN {Call(c.tool, c.file, "running")} ELSE {}]
  /\ UNCHANGED <<now, disk, head, rows, shell_pre>>

\* The hold returns: an approved call is recorded as it goes.
Settle(s, c, allowed) ==
  /\ c \in calls[s] /\ c.stage = "held"
  /\ calls' = [calls EXCEPT ![s] = IF allowed THEN {Call(c.tool, c.file, "running")} ELSE {}]
  /\ IF allowed THEN Observe(s, c.tool, c.file) ELSE UNCHANGED <<rows, shell_pre>>
  /\ UNCHANGED <<now, disk, head>>

\* Fingerprint::written_since: the dirty files whose stamp is new.
WrittenSince(before) == {f \in Files : <<f, disk[f].at>> \in Fingerprint \ before}

\* What the open scan of s would list now.
Scanned(s) == IF shell_pre[s] = NoScan THEN {} ELSE WrittenSince(shell_pre[s])

\* close_shell_scan, at any Bash's PostToolUse: what the command wrote, with HEAD's text.
CloseScan(s) ==
  /\ shell_pre' = [shell_pre EXCEPT ![s] = NoScan]
  /\ rows' = [rows EXCEPT ![s] = [f \in Files |->
       IF f \notin Scanned(s) THEN @[f]
       ELSE Touched(@[f], IF f \in head THEN "Text" ELSE "Created", "foreign")]]

\* A call ends: the hook of a Bash that ended runs, other tools have no PostToolUse.
Finish(s, c) ==
  /\ c \in calls[s] /\ c.stage = "running"
  /\ calls' = [calls EXCEPT ![s] = {}]
  /\ IF c.tool = "Edit" THEN UNCHANGED <<rows, shell_pre>> ELSE CloseScan(s)
  /\ UNCHANGED <<now, disk, head>>

-----------------------------------------------------------------------------
(* The tree: what sessions and the operator write, outside the daemon. *)

Put(f, by, owed, since) ==
  disk' = [disk EXCEPT ![f] = [by |-> by, owed |-> owed, at |-> now, clean |-> FALSE,
                               since |-> IF owed THEN since ELSE 0]]

\* What the server cannot see written: a call it was not asked about, and a write that
\* leaves a file with the stamp a scan took of it.
Unseen(c, f) == ~c.seen \/ \E s \in Agents : <<f, now>> \in shell_pre[s]

\* An edit lands on its file; a command writes, removes or restores what it likes, more
\* than once.
Land(s, c, f) ==
  /\ c \in calls[s] /\ c.stage = "running" /\ c.tool \in {"Edit", "Bash"}
  /\ c.tool = "Edit" => c.file = f
  /\ \/ Put(f, s, ~Unseen(c, f), IF c.tool = "Edit" THEN c.since ELSE now)
     \/ c.tool = "Bash" /\ disk' = [disk EXCEPT ![f] = Gone]
     \/ c.tool = "Bash" /\ f \in head /\ disk' = [disk EXCEPT ![f] = Clean]
  /\ UNCHANGED <<now, head, rows, shell_pre, calls>>

OperatorWrites(f) ==
  /\ Put(f, Nobody, FALSE, now)
  /\ UNCHANGED <<now, head, rows, shell_pre, calls>>

\* disk with the work only an open scan of `whose' would have listed no longer owed.
Untracked(whose) ==
  [f \in Files |-> IF disk[f].by \in whose /\ f \in Scanned(disk[f].by)
                  THEN [disk[f] EXCEPT !.owed = FALSE, !.since = 0] ELSE disk[f]]

\* disk with the work listed for s nobody's in particular.
Settled(s) ==
  [f \in Files |-> IF disk[f].by = s /\ rows[s][f] # NoRow
                  THEN [disk[f] EXCEPT !.by = Nobody, !.owed = FALSE, !.since = 0] ELSE disk[f]]

\* A command, or the operator, commits what is in the tree.
Commit ==
  /\ head' = {f \in Files : disk[f] # Gone}
  /\ disk' = [f \in Files |-> IF f \in head' THEN Clean ELSE Gone]
  /\ UNCHANGED <<now, rows, shell_pre, calls>>

\* The operator interrupts a command: no PostToolUse follows. Its scan stays open until the
\* next command of the session opens another over it.
Interrupt(s, c) ==
  /\ s \in Interrupts /\ c \in calls[s] /\ c.stage = "running" /\ c.tool = "Bash"
  /\ calls' = [calls EXCEPT ![s] = {}]
  /\ disk' = Untracked({s})
  /\ UNCHANGED <<now, head, rows, shell_pre>>

\* The daemon restarts: the scans are gone and held calls fail open, unseen.
LedgerCrash ==
  /\ Crashes
  /\ shell_pre' = [s \in Agents |-> NoScan]
  /\ calls' = [s \in Agents |->
       {[c EXCEPT !.stage = "running",
                  !.seen = c.seen /\ c.stage = "running" /\ c.tool = "Edit"] : c \in calls[s]}]
  /\ disk' = Untracked(Agents)
  /\ UNCHANGED <<now, head, rows>>

-----------------------------------------------------------------------------
(* The operator's review *)

\* mark_reviewed_at: a file, or every unreviewed file of an ignored directory, in one ms.
MarkReviewed(s, fs) ==
  /\ \A f \in fs : rows[s][f].kind # "none"
  /\ rows' = [rows EXCEPT ![s] = [f \in Files |->
                IF f \in fs THEN [@[f] EXCEPT !.reviewed = now] ELSE @[f]]]
  /\ UNCHANGED <<now, disk, head, shell_pre, calls>>

\* mark_reviewed with no time: the mark is taken back.
Unmark(s, f) ==
  /\ rows[s][f].reviewed # 0
  /\ rows' = [rows EXCEPT ![s][f].reviewed = 0]
  /\ UNCHANGED <<now, disk, head, shell_pre, calls>>

\* forget_session_changes: a pass that is approved or cleared leaves no row, not even of an
\* edit that was let through and has not landed.
ForgetChanges(s) ==
  /\ \E f \in Files : rows[s][f] # NoRow
  /\ rows' = [rows EXCEPT ![s] = [f \in Files |-> NoRow]]
  /\ calls' = [calls EXCEPT ![s] =
       {[c EXCEPT !.seen = @ /\ (c.tool = "Edit" => c.stage = "held")] : c \in calls[s]}]
  /\ disk' = Settled(s)
  /\ UNCHANGED <<now, head, shell_pre>>

\* created_then_deleted: what the session created and removed again is not listed.
CreatedThenDeleted(s, f) == rows[s][f].kind = "Created" /\ disk[f] = Gone

\* collect_review_queue_filtered, without the ignore masks.
Queue(s) == {f \in Files : /\ rows[s][f].kind # "none" /\ ~Reviewed(rows[s][f])
                           /\ ~CreatedThenDeleted(s, f)}

Tick ==
  /\ now < MaxClock /\ now' = now + 1
  /\ UNCHANGED <<disk, head, rows, shell_pre, calls>>

-----------------------------------------------------------------------------
(* The specification *)

LedgerInit ==
  /\ now = 1 /\ head = Tracked
  /\ disk \in {[f \in Files |-> IF f \in Tracked THEN Clean
                                ELSE IF f \in untracked THEN [Clean EXCEPT !.clean = FALSE]
                                ELSE Gone] : untracked \in SUBSET (Files \ Tracked)}
  /\ rows = [s \in Agents |-> [f \in Files |-> NoRow]]
  /\ shell_pre = [s \in Agents |-> NoScan]
  /\ calls = [s \in Agents |-> {}]

LedgerNext ==
  \/ \E s \in Agents, f \in Files, verdict \in {"Allow", "Hold", "Deny"} :
       \E tool \in ToolsOf[s] : AskTool(s, tool, f, verdict)
  \/ \E s \in Agents : \E c \in calls[s] :
       \/ \E allowed \in BOOLEAN : Settle(s, c, allowed)
       \/ \E f \in Files : Land(s, c, f)
       \/ Finish(s, c) \/ Interrupt(s, c)
  \/ \E f \in Files : OperatorWrites(f)
  \/ Commit \/ LedgerCrash \/ Tick
  \/ \E s \in Agents, fs \in SUBSET Files : fs # {} /\ MarkReviewed(s, fs)
  \/ \E s \in Agents, f \in Files : Unmark(s, f)
  \/ \E s \in Agents : ForgetChanges(s)

LedgerSpec == LedgerInit /\ [][LedgerNext]_ledgerVars

-----------------------------------------------------------------------------
(* Properties *)

\* Every content of the tree, row and fingerprint is one the code can store, nothing is
\* dated ahead of the clock, and a mark alone never makes a row (store.rs mark_reviewed is
\* an UPDATE).
LedgerTypeOK ==
  /\ now \in 1..MaxClock /\ head \subseteq Files
  /\ disk \in [Files -> [by : Agents \cup {Nobody}, owed : BOOLEAN, at : 0..MaxClock,
                          since : 0..MaxClock, clean : BOOLEAN]]
  /\ rows \in [Agents -> [Files -> [kind : {"none", "Created", "Text"},
                 before : Befores, last : 0..MaxClock, reviewed : 0..MaxClock]]]
  /\ \A s \in Agents : \/ shell_pre[s] = NoScan
                         \/ shell_pre[s] \subseteq Files \X (0..now)
  /\ \A s \in Agents, f \in Files :
       /\ disk[f].at <= now /\ rows[s][f].last <= now /\ rows[s][f].reviewed <= now
       /\ rows[s][f].kind = "none" => rows[s][f] = NoRow

\* What a session wrote through calls the server saw to their end is in the ledger, and is
\* unreviewed unless a mark was made after the call was let through: no hold, no other
\* session, no second scan and no earlier mark hides a write (server.rs close_shell_scan,
\* store.rs record_touch). What a command wrote that was interrupted, or that the daemon
\* did not survive, is not covered.
WritesAreListed ==
  \A s \in Agents, f \in Files :
    calls[s] = {} /\ disk[f].by = s /\ disk[f].owed
    => rows[s][f].kind # "none"
       /\ (Reviewed(rows[s][f]) => rows[s][f].reviewed >= disk[f].since)

\* A baseline holds the session's own open work only where the ledger had no account of that
\* work: no touch, no scan, no mark and no ended pass makes work that was listed, or was
\* about to be, the "before" of its own review ("Captured only on the first touch of this
\* file by this session"). That is less than changes.rs says of it, "what it held before
\* the session's first write ... so it is exact": the work of an interrupted command, of a
\* call let through unseen, or of a scan a restart forgot does become the baseline of the
\* next edit.
BaselineIsForeign == \A s \in Agents, f \in Files : rows[s][f].before # "owed"
=============================================================================
