# MoonlightCode: a verification of its governance core

MoonlightCode governs a fleet of coding-agent sessions. A daemon, `moonlightd`, discovers
the sessions from their transcripts, keeps what the operator decided about each of them
(adopted or not, phase, trust tier, pause), answers the hook that precedes every tool
call, holds the calls the operator has to decide, keeps a ledger of what each session
wrote, and serves a control API and an MCP actor. A desktop application hosts the same
engine and shows it: popups for held calls, a review panel, terminals, runs, an editor.

What must not go wrong is governance: a call that should be refused is allowed, a decision
is lost by a crash or by a queue that overran, a verdict reaches the wrong call, a held
call waits for ever, a write escapes the review, a stall is not shown. These TLA+ modules
model that core. TLC checks them on small instances, and TLAPS proves the main invariants
for every instance.

All source paths below are relative to `src/`.

## Inventory

| Part | Source | State it keeps | Operations | What makes it correct |
|---|---|---|---|---|
| Workflow vocabulary | `crates/domain/src/phase.rs`, `trust.rs` | none | `next`, `allows_writes`, `min_autonomous_tier`, ... | the phase cycle is closed; freezes nest |
| Policy decision point | `crates/trust/src/lib.rs` | none | `decide` | no order of early returns lets danger or a frozen write through |
| Hook gate verdict | `crates/control/src/gate.rs`, `classify.rs` | `GateView` entries | `evaluate` | a paused or frozen session is held to it, an unadopted one is not touched |
| Session supervisor | `crates/engine/src/supervisor.rs` | the fleet map | about twenty commands, nine detection events, hydrate, republish | governance survives a crash; only the operator unlocks |
| Managed-session store | `crates/persistence/src/store.rs`, `crates/domain/src/ports/store.rs` | SQLite rows | upsert, update, remove, load | a row agrees with memory |
| Event bus | `crates/engine/src/bus.rs` | one tokio broadcast channel | publish, recv | a slow receiver is told of its gap |
| Read-models and command channel | `apps/daemon/src/main.rs`, `crates/mcp-server/src/adapters.rs`, `control_api.rs` | gate view, fleet view, policy view, an unbounded queue | folds, resynchronisation, API commands | a view that has read everything agrees with the fleet |
| Held approvals | `crates/control/src/pending.rs`, `server.rs`, `lib.rs` | one slot per session with a one-shot sender | hold, register, resolve, cancel | nobody is stranded; one approval allows at most one call |
| MCP actor and phase verbs | `crates/mcp-server/src/lib.rs`, `phase_verbs.rs` | none of its own | `run`, `request_phase` | an auto-approved move unlocks nothing |
| Launch registry | `crates/control/src/launches.rs`, `main.rs` `keep_launches_governed` | process to conversation | record, adopt, retry | a launched session ends up governed; its verbs follow it |
| Single instance | `server.rs` `bind_singleton_unix_socket`, discovery file | a socket, a JSON file | claim, serve, exit | the file names the process that governs |
| Review ledger | `crates/domain/src/changes.rs`, `server.rs`, `shell_scan.rs`, store | touches, baselines, marks | touch, scan, mark, approve, forget | no write goes unlisted; no listed or owed work becomes a baseline |
| Review comments | `changes.rs`, store, `control_api.rs`, `code_review.rs` | threads, delivery stamps | add, reply, edit, settle, delete, deliver | threads stay flat; deleted stays deleted; the agent is not fed its own words |
| Transcript detection | `crates/detection`, `supervisor.rs` `on_detection`, `grid_home.rs` | per-file offset, last turn, alert | poll, judge, forget | what is shown is what the transcript says |
| Desktop: approval popup | `views/approvals.rs`, `session_monitor.rs`, `workspace.rs` | the hold shown | two folds, verdict | a settled hold is not shown |
| Desktop: monitor and terminal | `session_monitor.rs`, `terminal.rs`, `auto_compact.rs` | armed commands, resume prompts | arm, fire, take over, relaunch | one compaction per fill; nothing armed is forgotten |
| Desktop: editor | `code_editor.rs`, `edit_gate.rs` | tabs, dirty marks, lock | edit, save, format | unsaved text is marked |
| Desktop: run registry | `run.rs` | tabs, children, epochs | start, stop, close, read, wait | one process per target, but for a start during a close; its own lines; its exit shown |
| Desktop: review panel | `code_review.rs` | the list, the file shown, verdicts | poll, select, mark, compose | what is shown is what is selected; verdicts settle |
| Desktop: workspace tabs | `workspace.rs`, `open_tabs.rs`, `restore_guard.rs`, `project_space.rs` | the tabs of each space, `open_tabs.json`, `restore.lock` | open, close, switch, prune, capture, save, restore | what a space left open comes back; what was closed does not; no boot loop |
| Desktop: gRPC panel | `grpc_panel.rs` | target, schema, method, form and JSON text, saved requests | connect, pick, edit, send, save, load | a message is lost only with its method's form |
| Hook registration | `hook_registration.rs`, `main.rs` `repair_registrations` | entries in `settings.json`, a server in `.claude.json` | repair, install, uninstall | one registration per event; the operator's own hooks stay |
| Editor clients: held approvals | `clients/vscode`: `events.ts`, `gate-state.ts`, `extension.ts`; the same in `clients/jetbrains` | the hold on show, the last plan | fold a fact, read the registry, reconnect | what is shown is what waits |
| Desktop: other views; the rest of the editor clients; transport; helpers | `apps/desktop`, `clients`, ... | views | I/O | display |

How they interact. Every change of the fleet goes through one task, the supervisor loop,
fed by an unbounded command channel (control API, MCP verbs, the cockpit, the launch
keeper) and by detection. The loop persists to the store and publishes facts on the bus.
Three folds subscribe: one task keeps the gate's view and the fleet view, another the
policy view. Hooks are answered from the gate's view; API calls are checked against the
fleet view; the MCP actor decides on the policy view. A held call leaves this picture: it
waits on a one-shot channel in the registry of pending approvals, and a verdict of any
client goes to the registry first and to the supervisor only when nothing waited there.

The desktop hangs off the same bus: every view folds facts in a task of its own, and calls
back into the engine by commands. The ledger and the comments live in the store, written
by the hook server's threads, by control API handlers and by the review panel, each with
its own reading of a row in between.

What is hard here: the views trail the fleet, the bus drops the oldest facts of a slow
reader, a decision is taken on one state and served on another, several asks of a session
compete for one slot, verdicts name a session and not an ask, transcripts are read while
they are written, rows are written back late, threads of a process that was replaced
still run, the process can die between any two steps, and a store call can fail.
`PROJECT.json` lists these hazards at their lines.

## The modules

| Module | What it is |
|---|---|
| `Workflow` | phases, tiers, verbs, the policy decision and the gate's `evaluate` as operators |
| `GateVerdict` | one session moving through its governance while a call of any kind is judged |
| `HeldCall` | the same verdict with the hold it may lead to |
| `EventBus` | the broadcast channel: a bounded queue per receiver with a lag mark |
| `Supervisor` | fleet, store and published facts; one action per handler, and the crash |
| `SupervisorProofs` | type correctness, durability and the action properties, proved |
| `Approvals` | the promise of the approval keystone, abstractly |
| `HoldGate` | asks, registry, verdicts, budgets, crash; it implements `Approvals` |
| `EditorHolds` | an editor's view of the held approvals: the stream of facts, the reads beside it, the folding of both |
| `HoldGateProofs` | soundness of the registry, the refinement of `Approvals`, and what an editor shows; proved |
| `Daemon`, `DaemonProofs` | `Supervisor` composed with the command channel, the three folds and the environment; that the folds catch up, and that the daemon keeps what the supervisor keeps, proved |
| `Launches` | which conversation a launched process is in, and the keeper that adopts it |
| `Startup` | processes claiming the hook socket and publishing their control API |
| `ChangeLedger`, `ReviewThreads`, `ReviewProofs` | what sessions wrote and the comments on it; the safety of both, proved |
| `ReviewPanel`, `ReviewVerdicts` | the desktop's review panel: what is on screen, and the verdict per file |
| `Detection`, `DetectionProofs` | one transcript, the source that tails it, the supervisor's handlers and the grid's tile; its safety, proved |
| `ApprovalPopup`, `MonitorTerminal`, `EditorTabs`, `RunRegistry`, `DeskProofs` | the other parts of the desktop, and proofs about these four, the review panel and its verdicts |
| `WorkspaceTabs`, `GrpcPanel`, `ToolProofs` | the centre tabs of the window with the file that brings them back; the gRPC request builder; the safety of both, proved |
| `HookRegistration` | the settings file, the processes that rewrite it and the operator who edits it |
| `GateProofs` | what the verdict protects, and what the registration keeps; proved |
| `MC_HoldGate`, `MC_Daemon` | instances for TLC |
| `MC_Store`, `MC_Desk`, `MC_Progress` | instances of several parts at once |

`Workflow` and `EventBus` are extended by `Supervisor`, and `Supervisor` by `Daemon`.

The last three MC modules put parts side by side that share no variable, with a variable
`focus` that picks at the start the one that moves. A part's properties speak of its own
variables only, so a behaviour of one part at a time is every behaviour there is of each,
and the state space is the sum of the parts' and not their product. The start of the parts
that stand still is fixed, for the same reason.

Operators named with the word *Mutant* in the comment before them are faulty variants of
the definition that follows; no specification uses them. They show that the properties can
fail.

### Supervisor

`fleet` is the engine's `HashMap<SessionId, Session>`; `store` is the `managed_sessions`
table. One task runs one handler at a time and awaits nothing that gives the fleet to
somebody else, so a handler is one action: it changes the entry, persists it (`Persist`,
an UPDATE that inserts only for an adopted session) and publishes its facts in order. The
facts of one handler are published in one step, because nothing that reads the fleet can
run in between; the receivers may have drained the channel in between, which only makes
fewer facts lost.

`StatusChanged` is `apply_status` with the checkpoint that follows it; `WorkspaceObserved`
includes the `maybe_auto_adopt` at its end. `CrashRestart` empties memory and hydrates
from the rows. `RecordLaunch` is the desktop's write of an adopted row before it starts an
agent: another process, the same database. With `StoreFaults` every store call may fail,
as the code allows: it logs and goes on.

Commands and detection interleave freely. The loop drains its queue, applies one batch of
detection events and waits, so the model has more behaviours than the loop. Hydration
publishes in any order, where the code follows the order of the rows.

Left out: timestamps, `mode` (always Auto here), the audit log, message texts, and
`conversation_id`, by which a managed row can be found under another session id.

### HoldGate

An ask is one invocation of a held tool hook (`ControlServer::hold`) or of a held MCP verb
(`KeystoneApprovalGate::request`). A hook announces and then registers, a verb registers
and then announces: two actions each, because the verdict of an attentive operator can
arrive between them. `reply` is what the one-shot receiver would yield: registering over a
session drops the previous sender. `Elapse` and `Cancel` are the timeout of a hold with a
budget and the cancel that follows it, which empties the session's slot whoever is in it;
another ask may have registered in between. `RouteVerdict` is `route_approval`. `Crash`
drops the registry: a hook client that loses its connection lets the call through
(`query_hook`), a verb's caller sees an error. The hook client's own timeout (days) ends
the same way as a crash and has no action of its own.

`SingleThreaded` says whether a session asks nothing more while a blocking ask of it is
open, which `pending.rs` takes for granted; agents that issue tool calls in parallel do
not. The passing run does not assume it; the violation run does, so that what it shows does
not rest on denying the code its own premise.

`Approvals` is the promise: a session has a number of approvals left, an ask is allowed by
spending one, an approval that finds no ask is wasted, and a dying process lets go what it
held (`Lose`). `ImplementsApprovals` maps the registry to it: an approval is left as long
as it is on its way to the registry or sits in a channel its ask has not read.

### Daemon

`commands` is the channel into the loop, `gate`, `view` and `policy` the three views.
`FoldReadModels` is one `recv` of the task that folds the first two; `ReadModelsLag` is its
`Lagged` arm, which sends `RepublishFleet`. `PolicyLags` is the other fold's
`while let Ok(..)`, which a gap ends: its channel is not read any more after that. A late
receiver (`LateReceivers`) subscribes only after the supervisor task was spawned and may
miss boot facts, as the policy fold does. `HookObserved` is the launch keeper asking for
what the gate's view does not show. `RequestPhase` is an agent's `request_phase` that
needs no operator; it is decided on the policy view and served from the queue. `Announces`
stands for the other publishers on the bus: it takes places in the queues. `Launches` is the
desktop's write of a launch record, from a process of its own, between any two steps.

`ApiCommands` are those the control API sends after checking its view. `CockpitCommands`
are those of the desktop, which hosts the same supervisor, the same gate and the same
`apply_gate_event` in its own process and sends them unchecked. The module composes both
surfaces around the daemon's folds: for the daemon these are behaviours it does not need,
and what holds with them holds without them. The desktop's own folds continue after a gap
without a resynchronisation (below).

### HeldCall, Launches, Startup

`HeldCall` is `decide` and `hold`: `evaluate` runs once, and a held call's answer is the
operator's, whatever the gate's state has become.

In `Launches` a process starts hooks in the conversation it is in, and hooks are answered
in any order, so one from before a `/resume` may arrive last. `ServeHook` is the registry's
`observe` and the keeper's request for adoption with its retry guard (`asked`, `Cooled`);
`Serve` is the engine, which drops an adoption of a conversation detection has not seen;
`Fold` the gate's view. `Restart` keeps what the store kept.

In `Startup` a claim of the socket is probe, remove, bind, step by step, and publishing
the discovery file is another step, which the desktop takes in another thread. A process
may die at any of them and leaves its files behind.

### Detection

`log` is the transcript as complete lines, `partial` says a line is being written. A poll
is `PollLists` (which files are young enough), `PollReads` (the bytes after the offset, as
they are then, with the reset of a file that shrank), one `PollParses` per line, and
`PollJudges` (status and stall, from an age read anew); or `PollFails`, or `PollMisses` for
a file out of the window, which is forgotten after three. Its events wait in `todo` and
are handled one by one before the next poll, as `run_supervisor_loop` does; commands come
between. `grid` is the tile the desktop folds from what the supervisor publishes.

Ages are the five bands the code tells apart: under 20 s, 120 s, 180 s, 6 h, and over. The
bands are far longer than a poll, so time passes between polls; and a write while lines
are parsed or events are handled, which look at no file, is one made right after. Both
reductions keep every order of a write against the reads of the file.

Others than detection move the tile or forget what it found: a hold that is announced or
resolved says its status on the bus (`Told`), an approval that finds no hold resumes the
session (`Resumed`; the two control ports in `crates/control` answer that they cannot, so
with them it changes nothing), and the operator forgets a session (`Forget`, the removal of
the tile with it). `outside` is history: what they moved and detection has not told anew, of
the tile, of the status in the fleet and of the entry in the fleet.

Titles and modes other than the ones a run enumerates are in the model (`Names`, `Modes`).
`rewritten` marks a file that was replaced and grew past the old offset before a poll
looked, which `read_tail` cannot notice; what a source says then is not judged.

### ChangeLedger, ReviewThreads

A content is told by who wrote it and when. A declared edit is recorded when its hook is
allowed, before it lands; a shell command is fingerprinted before and after (`shell_pre`).
`Unseen` marks what the server could not know about: a call it was not asked about, or a
write within one stamp of a fingerprint. Calls end, are interrupted without a
`PostToolUse`, or the daemon restarts and drops its scans; other sessions, the operator and
commits move the tree at any time. A session runs its tools one at a time. A content keeps
its author until it is committed or the pass that lists it is ended (`Commit`, `Settled`);
from then on it is nobody's in particular. `owed` is history: the ledger has, or a call
still open will bring, an account of it; it is FALSE from the start for what was `Unseen`,
and from then on for what only an interrupted command's scan, or one a restart dropped,
would have listed (`Untracked`). The baseline of a row says which of three it holds
(`before`): text of others, own work that was owed, own work that was lost.

A comment is written by two surfaces. The control API reads the store and then writes
(`asks` holds what it read); the panel writes rows out of the mirror it loaded. A late write
carries old values of all the columns `update_comment` sets, which whom a comment answers,
its author and its time are not among. `ClearChanges` is the monitor's button, which ends a
pass behind the panel's back.

### ReviewPanel, ReviewVerdicts

`ReviewPanel` is the list in path order, which polls lengthen and shorten, the index the
panel keeps into it, the file on screen, the selection and the composer. `ReviewVerdicts` is
the per-file "nothing left" mark: a background read (`reads`) of a file against its baseline
is stamped with the row and the file's length and time it was asked for, and is taken later,
possibly after a newer one.

### The rest of the desktop

`ApprovalPopup`: a hold is announced on the bus, registered, answered; the workspace and the
monitor fold the same facts in two tasks, and the resolution is published by the engine's
loop. `MonitorTerminal`: automatic compaction armed on a terminal, written before the
operator's next message, and what takeover, exit, relaunch and manual compaction do to it;
the prompts that tell a relaunched or stalled session to go on. `EditorTabs`: a file in two
tabs, the agent writing it, the lock while an agent implements, saving, formatting, line
endings. `RunRegistry`: one tab per command, the child under a lock, the reader and waiter
threads of each start with their epoch, and the two locks `remove` takes one after the
other. A launch remembers its target and whether its tab was being closed when it was made
(`of`, `doomed`, both history).

### WorkspaceTabs, GrpcPanel

`WorkspaceTabs`: a launch mounts nothing until the restore, which builds the active space's
tabs and leaves the other spaces' in `pending` until they are visited. The operator opens,
closes and switches; a tab closed by its cross is only noticed when the next capture
compares the tracked set with what the dock holds (`LiveKeys`). A save takes a snapshot and
is written by another thread, begun and finished in two steps, as `fs::write` empties the
file before it fills it. A quit writes once more; a crash happens anywhere, the restore
included, which leaves the marker that makes the next launch skip it.

`GrpcPanel`: Connect and Send run on another thread and each answer is taken when it comes,
for whatever target and method are picked by then. `Rebuilt` is the form made anew for a
schema and a method, with the text that seeds it; a connect only marks the form
(`formDirty`, `formSeed`) and `Render` rebuilds it on the next frame, as the code does. A
message is told by the call whose fields it has. `written` is history: the operator's last
message and whether the method picked had fields for it. Only the operator changes it: no
answer of a connect and no frame does.

### Hook registration

The two files are shared and nobody locks them. A process reads the whole file, holds a
copy (`seen`), perhaps waits at its prompt, and writes back what `Repaired`, `Installed` or
`Uninstalled` makes of the copy. A daemon goes on to the server entry of `.claude.json`
whatever came of the settings; an uninstall does so once it has written or tried to. The
operator edits between any two steps: hooks of their own, beside ours or apart, a
registration respelled or dropped, an event of another shape, a file that does not parse.
An event has a few places (`Slots`); the operator leaves one for ours, where the code's
list simply grows. The three events do not interact.

### EditorHolds

The daemon keeps one session's slot (`waiter`) and says what happens to it on the bus; the
editor folds those facts into the hold it shows (`held`) and the plan it last heard
(`planText`). Where its stream broke or lagged it asks for `/control/pending-approvals`, a
request that runs beside the stream (`reads`): it may be answered before or after any fact,
and taken before or after any fact is heard, or fail. A hook announces and then registers, a
verb the other way round, and each fact of an announcement is published in a step of its
own. The daemon may die and start again; the stream may break while it lives. The supervisor
publishes statuses and plans of its own that look at no registry (`SupervisorSpeaks`). The
daemon passes no limit for a hold, so none elapses here; a session asks one thing at a time,
as `pending.rs` 17 has it (`HoldGate` does without that). `EventBus` is the stream.

`sure`, `whole`, `ahead` and `timely` are history: a read is whole when the stream was open
and no announced hold was still to be registered as it was answered, and no fact published
later is folded before it is taken; `sure` says that such a read was the last word, and that
every fact since was true of the registry when it was published. `ShownIsHeld` is stated
for then. A JetBrains window is the same program written in Kotlin.

## The runs

Every `.cfg` states its bounds; each bound is a constant whose comment says what it counts.

| Run | Instance | States | What it shows |
|---|---|---|---|
| `Store` | in the fleet one session, two tiers, two roots, one of them auto-adopted, one listener; in the ledger two sessions, one tracked file, one edits and both run commands, two instants, interrupts of the one that edits, a restart; in the threads two comments of the operator, which are interchangeable, and one of the agent, one request under way | 1 million | with a store that works, a row agrees with memory at every moment; a released session stays released; a restart gives governance back; only the operator unlocks writes; governance is opted into; a pinned phase holds; no write the server saw to its end goes unlisted or is hidden by an earlier mark; no baseline holds work the ledger has or owes an account of; threads stay flat; deleted stays deleted; the agent is not fed its own answers |
| `Daemon_folds` | one session, one root, bus of one event, four moves | 542 thousand | a settled view agrees with the fleet, whatever was lost; the gate's view settles |
| `Desk` | every gate state and call; two holds, two facts waiting per task; two compactions; two tabs, three contents; two run targets, three starts; two processes of two builds on one event with two places; two holds, the first with a plan, a backlog of two facts, two reads at once, one mishap; a project space and the overview with two tracked tabs and one that is not, two launches, three acts; three servers, two methods, five steps, two calls in flight; in the review panel two files, a touch of each between two passes | 1.77 million | the bounds of the verdict; a settled hold is not retained; one compaction per fill; unsaved text is marked; a console's lines are its run's, and only a start during a close leaks a process; one registration of ours whoever writes when, and a repair spares the operator's hooks; an editor shows the hold that waits; unvisited spaces keep their tabs, closed tabs stay closed, no boot loop; a message in hand is lost only with the form of its method; what is shown is selected |
| `Progress` | two sessions with a hook, a detached and a blocking verb, budgets and a crash; one launch, two conversations, a restart; one run target, three starts; one reviewed file, one write | 60 thousand | no open ask is stranded and no slot outlives its ask; the registry implements `Approvals`; bounded asks end and a click on the slot answers; exits are shown; verdicts settle; launches are governed and their verbs follow them |
| `Detection` | both sources, two lines at a time of five kinds, one mishap of seven (a replaced file, a failed read, the agent's report, a restart, a hold, a resume, a forgotten session), operator moves | 1.7 million | what the source holds is what it read; a stall is real, and is shown until a hold, a resume or a forgotten session moves the tile; a transcript left alone is told as it is, unless its session was forgotten or resumed |

Why the bounds are enough to mean something. Sessions do not interact in the supervisor:
every handler touches one entry and one row, so one session shows every behaviour of one
(the proofs do not depend on it). The listener never reads: its queue holds the last fact,
which tells apart two handlers that leave the same entry, so that an observation cannot
pass for an operator's pick in the action properties. Three asks are the least with which
one ask supersedes another while a third is cancelled or answered. A bus of one event makes
every handler that publishes two facts overrun a receiver that has not run; four moves
reach discovery, adoption, a phase move and a restart in one behaviour. `GateVerdict` has
no bound.

In the ledger two sessions are the least that can take each other's writes for their own,
two instants the least that tell a mark before a call from one after it; files do not
interact in the ledger or in the verdicts. In the threads, three comments are a root, a
reply and a reply to that, the least that tells a thread's root from a direct parent, and
one request under way beside the panel's mirror is a late write. The operator's two are told
apart by nothing but their ids, so swapping them is a symmetry. Three starts
are a run, its rerun and the rerun of that while the first one's reader still reads, or a
run, a start while it is closed and another start after. Two
lines are a prompt and its answer, or the answer and the stop that follows, and with the
replacement of the file a transcript has up to two more; one mishap keeps what each of them
does apart from the others, and the misses that forget a session, ageing and half lines
cost none. With at most that many writes every behaviour's transcript is in the end left
alone, which is the premise of `FleetTellsTheTranscript`.

Two launches are a save and the restore of it, or a restore that dies and the launch after
it; three acts are enough to open in one space, leave it and close in another. In the
request builder five steps reach a message written, a method picked anew and two connects
that cross; the third server is one the panel refuses to call, and no two servers offer the
same methods.

For an editor two holds are the least that can be taken for each other, a backlog of two
facts is shorter than what a plan's hold announces, so that the stream lags by itself, and
two reads can pass each other.

Deadlock is checked nowhere: every instance holds a part that comes to rest when its bounds
are used up (each ask is made once, the environment has a budget,
starts and writes are counted).

### Fairness

`HoldGate`: a task that can go on is polled (tokio), a verdict that reached the process is
served, a due timer fires. Nobody makes the operator click.

`Daemon`: the loop serves its queue (weak fairness) and the folds keep reading. Weak
fairness is not enough for the folds: after each lag report the republish could overrun
the channel again before a single `recv`, for ever. The fold's next `recv` is ready when
the report has been read and needs one poll, while a republish needs the loop's task to be
scheduled, so strong fairness of the fold says what the runtime does. Nothing is assumed
of the environment.

`Launches`: the loop, the fold, the clock of the retry and detection go on. A hook that is
started is answered; strong fairness, because hooks of one launch in one conversation are
one element of a set that the next hook makes again. Nothing makes a process start hooks:
the properties are about one that keeps doing it.

`RunRegistry`: a start goes on to spawn its threads, and the waiter's thread polls. No
process has to exit and no reader has to read. `ReviewVerdicts`: the two-second timer fires
and background reads end. `Detection`: the loop polls and handles what a poll found; the
agent, time and the operator do what they like.

### Disagreements the runs find

Each has a run that checks one property and that TLC refutes; the finding in
`PROJECT.json` quotes the sentence.

- `Daemon_PauseReachesGate`: the fold into the gate's view assigns phase, trust and
  adoption but not `paused`, next to a comment that says it must. A paused session's
  tools are not denied.
- `Daemon_AgentNeverUnlocksWrites`: `request_phase` is approved on the policy view's
  snapshot; by the time it is served the phase may be a frozen one, and a move that
  should have asked the operator unlocks writes.
- `HoldGate_ClickIsHeard`: a hook announces before it registers; a verdict in between
  finds nobody, and an unbounded hold then waits for a second click that no question
  prompts.
- `HeldCall_HaltStopsHeld`: a call held before the operator paused the session runs on an
  approval given during the pause; the verdict is not taken again.
- `Startup_DiscoveryNamesTheGate`: the desktop publishes its control API although a daemon
  holds the hook socket, so clients are sent to a process that governs nothing.
- `EditorHolds_ReconnectIsReported`: an editor's stream comes back without a report, though
  the comment says reconnects are reported for this very case: a hold read while the stream
  was down and answered before it came back stays on show, with a button nobody is behind.
- `Detection_ReplayMovesNoPhase`: after a restart, or six quiet hours, a transcript is read
  from its start, and an old plan-mode line moves an unpinned session back to Plan.

Others met while reading and modelling, without a run of their own:

Sessions, the daemon and the gate:

- `main.rs` 470: the policy fold ends at the first gap, although `bus.rs` 20 says that
  consumers must tolerate gaps. `PolicyLags` models it, and `PolicyCatchesUp` is stated
  for as long as the fold lives.
- `main.rs` 466: the policy fold subscribes late and is not seeded, although
  `adapters.rs` 36 describes a seed for this purpose. `PolicyCatchesUp` is therefore about
  the sessions it knows.
- `adapters.rs` 180: the gate's view keeps the entry of a forgotten session, which stays
  gated. `adapters.rs` 112: the fleet view does not fold `PhaseTransitioned`, so a listed
  phase can be stale. `supervisor.rs` 736: an unadopted session that ends leaves the fleet
  without `SessionRemoved`, so `knows()` answers yes for it. The properties about these
  views are stated for what they do fold.
- `mcp-server/src/lib.rs` 196: an auto-approved `request_phase` moves a pinned phase as the
  operator's own command would. `PinnedPhaseHolds` names the command, not who sent it.
- `server.rs` 675: a daemon that dies while it holds a hook lets the call through, by
  design of the client; the doc of `hold` does not say so. It is `Lose` in `Approvals`.
- `pending.rs` 152: a verdict given on one ask allows the ask that superseded it, since it
  names the session only.
- `supervisor.rs` 711: release, end, rediscovery and a new adoption write the pause of a
  row away.
- `apps/desktop/src/main.rs` 197: the desktop's folds ignore a gap and go on, without the
  republish the daemon asks for.
- `supervisor.rs` 711: a session forgotten by the operator is not discovered again while
  detection keeps its entry: only an ended or new transcript is announced.
- `supervisor.rs` 93 says the trust tier is not persisted; it is, and restored.
- `pending.rs` 17 says one approval is outstanding per session; a detached `request_phase`
  and a hook can both be.
- `main.rs` 32-38 and 575-577 describe a 45 second hold; line 587 passes no limit.
- `phase_verbs.rs` 8-11 says every change is approved by the operator; moves that gain
  nothing are approved at once.

Detection and what is shown of it:

- `grid_home.rs` 123: one slot holds the agent's own report and the detector's stall, so a
  recovery that meant the stall takes down the report, though line 153 says a report
  raised mid-turn does not flicker away.
- `crates/detection/src/lib.rs` 227: a replaced transcript resets the entry, `alerted`
  included, and an alert that was up is not taken down, though line 50 says it is emitted
  once on stall and once on recovery.
- `grid_home.rs` 118, 157: a hold that is announced and resolved, a resume, or a session that
  is forgotten takes the overlay of a stall down while the source still holds it as raised,
  and as the agent stays silent no second one is raised, though
  `crates/detection/src/lib.rs` 74 says it is cleared when the session writes again.
  `StallIsShown` is stated for tiles that none of these has moved since.
- `workspace.rs` 907: the workspace keeps an alert the grid clears on the transition into
  Running, though line 522 says it mirrors the grid.
- `supervisor.rs` 736: an unadopted session that ends leaves its tile on the grid.

The review and the desktop:

- `changes.rs` 58: a baseline is said to be what the file "held before the session's first
  write", read while the tool was blocked, "so it is exact". A command that is interrupted
  sends no `PostToolUse`, a restart drops the scans under way, and a call that was let
  through while nobody served the hooks was never asked about: what they wrote has no row,
  and the session's next edit of the file takes it for the "before". `BaselineIsForeign` is
  stated for the work the ledger has, or owes, an account of.
- `server.rs` 512: a file that stood untracked before a command is listed as created by
  it, with no earlier text, though `changes.rs` 67 says of Created that the agent created
  the file.
- `control_api.rs` 1694: feedback is stamped as delivered by id; a comment reworded between
  its collection and the stamp is marked with a text nobody was sent.
- `control_api.rs` 1131: approving a pass while an edit that was let through has not landed
  leaves that edit without a row.
- `code_review.rs` 2848: only closing the composer forgets what was being edited; picking
  lines or another file hides it, and the next comment is saved over the old one. Line 2718
  is where it is used.
- `workspace.rs` 700: the workspace drops the hold it retains at any upsert of a session
  whose row is not waiting, though `approvals.rs` 13 says it keeps the last outstanding one.
- `run.rs` 242: `remove` stops under one lock and drops the tab under another; a start in
  between leaves a process without a tab, and the next start of the target a second one
  alive beside it, though line 147 says concurrent starts leak no child.
  `OneProcessPerTarget` says that this is the only way to two live processes of a target.
- `code_editor.rs` 7: saving and changing line endings do not look at `editable`, and
  nothing compares the file with what was read, so the agent's newer text is overwritten.

The desktop's tools and the editor clients:

- `workspace.rs` 2591: `collect_panel_keys` knows the kinds of panel a tab file can hold;
  the shared HTTP and gRPC builders, tables and consoles (`center_requests.rs` 75, 82) are
  none of them, so a switch of space leaves theirs mounted and a second one is built beside
  it, though each is documented as one shared tab.
- `open_tabs.rs` 75: `fs::write` empties the file before it fills it; a crash in between
  leaves a file that does not parse and loses every space's tabs, though `workspace.rs`
  1200 says a crash costs a couple of seconds of changes.
- `workspace.rs` 1267: what was saved last is noted before the write is made, and two writes
  may land in the other order; the older set then stays until something changes again.
- `grpc_panel.rs` 520: a connect that fails clears the form's rows, and the message in them;
  line 495: one that answers, even for the server that was connected, picks the first
  service's first method, and the message of another method does not fit its form. Either
  loses what was filled in, though line 514 says that reconnecting never costs the work.
  `BoundWorkSurvives` says that these are the only ways.
- `grpc_panel.rs` 807: a saved call loaded with no schema at hand seeds a form that has no
  rows; the Connect that would bring them reads the message from the form, so in the form
  tab it is gone, against the same line 514. `BoundWorkSurvives` is stated for messages the
  method had fields for.
- `grpc_panel.rs` 766: names are cut at sixty characters, so two long methods of one service
  overwrite each other's saved call, though line 755 says they are told by service and
  method.
- `extension.ts` 198: nothing orders the read of the registry against the stream, and
  `resync` replaces what is shown wholesale. A read answered before a hold is registered and
  taken after its facts were folded hides a live hold; one overtaken by the release shows a
  dead one, against `gate-state.ts` 4.
- `server.rs` 573: a hold is announced before it is registered, so a read between the two
  misses it though its fact was already published.
- `gate-state.ts` 103: any status but waiting takes the hold away, and detection publishes
  `Running` of a session whose hook is still held.
- `hook_registration.rs` 383: uninstall drops the entry a hook of ours is in, with the
  operator's own hooks in the same entry, though line 361 says foreign hooks are left alone.
  `RepairSparesForeign` is stated for starts and installs.
- `hook_registration.rs` 387: uninstall looks at `.claude.json` only when it found a hook to
  remove, so a removal of the server that failed is not tried again, and what line 414 calls
  the split-brain stays.

## The proofs

All constants are arbitrary, up to the named assumptions `SupervisorAssumption`,
`AbsentAssumption`, `BusAssumption`, `HoldAssumption` and those of the desktop and review
modules, which TLC evaluates in the runs.
`Sessions` is assumed finite because facts are published in orderings of a set of
sessions; nothing bounds it otherwise.

`SupervisorProofs`, to begin with: delivering any sequence of facts leaves a channel of
facts no longer than `Capacity` (`DeliverIsChannel`), and `Spec => []TypeOK`, with or
without store faults. `TypeOK` is inductive. Each handler has a lemma for the entry it
leaves (`AmendedIsSession` and the like), the row (`PersistedRowTyped`) and the facts
(`PhaseFactsTyped`, `UpsertAllTyped`).

Then durability, for a store that does not fail. The claim that an
adopted session has a row that agrees with it is not inductive, for two reasons. A
release keeps the row, and the session can be discovered again from it: so what a row says
of a released session is part of the invariant (`ReleasedIsDurable`). And `Discovered` seeds
three fields of a row and drops its pin, pause, hidden mark and title: so a row that would
be adopted on discovery must hold none of those (`UndiscoveredRowIsFresh`). It holds since
the only such rows are launches nobody has touched, because an adopted session never
leaves the fleet but by `ForgetSession`, which removes its row, or by a restart, which
restores it. `Durable` joins the three; `DurableBySession` and `OneSessionStep` reduce a
step to the session it touches, and `PersistingIsDurable` is the case of every handler that
persists what it leaves. `GovernanceIsDurable` is the property the run checks.

Last, what a step may do to one entry is proved once for all handlers (`Effect` for a
command, `ObservedEffect` for an observation), and the four action properties follow.
`PinnedIsTheOperators` and `GovernanceIsOptedInto` need only types and hold whatever the
store does. `RestartGivesBack` and `WritesAreTheOperators` also need `Durable`: a restart
restores what the row says, and the row says what was there.

`HoldGateProofs`, first half: nobody is stranded and slots are live, with or without
budgets, crashes and concurrent asks. `NoAskStranded` is not inductive: `SlotIsOpen` adds
that the ask in a slot is the session's own and its channel has received nothing, so a
verdict or a cancel for the slot disturbs no other ask, and `VerdictsAreGiven` that a
verdict on its way is one the operator gave.

Second half: `PromiseIsKept`, that every behaviour of the registry is one of `Approvals`.
`PromiseInv` adds to the invariant that the approvals on their way and received are finite
sets, so that what is left is a number, and that an ask that has not registered, or whose
time is up, holds none of them. Each action then has a lemma: it is a step of the promise
or changes neither where an ask stands nor what is left (`Kept`). `RoutingKeeps` is the
heart: an approval passes from its way into a channel, or is wasted.

Last, what an editor shows (`ShownIsAlwaysHeld`). `HoldsInv` looks at what is still on its
way and asks of each thing whether something behind it speaks of the same: the last fact
that says which hold waits, or which plan, says it rightly if it was true when published
(`QueueTells`); a snapshot is right unless a fact published after it speaks (`ReadsTell`,
with `ahead` counting the facts it already covers); and what is on show is right unless
anything on its way will speak (`ShownTells`), in each case once the daemon has nothing
left to say itself. Publishing is one lemma for all publishers (`PublishingKeeps`), which
covers a backlog that overruns; folding a fact is another (`HearKeeps`).

`DaemonProofs`: the folds end right, for any sessions, capacity and commands. Folding a
queue is an induction over data; the invariant does without it. `Ends` says that the last
thing a queue tells of a session is what the fleet has of it, or that it tells nothing of it
and the view has it already; `FoldsAlwaysEndRight` keeps that for the gate's view, the fleet
view and the policy view, unless a gap is marked, a republish is on its way (the gate's and
the fleet view) or the fold has ended (the policy's). Every supervisor handler is covered by
what it may publish: the facts of a step say last of each session what the step leaves of
it. An overrun keeps the end of the queue, so it either keeps what was told last or marks
the gap. The proof assumes of `ApiCommands` and `CockpitCommands` that they are commands
(`CommandsAssumption`), and uses that the task of the first two folds subscribes before the
supervisor starts (it is not among `LateReceivers`).

Second, the daemon implements the supervisor (`DaemonRunsTheSupervisor`): a step of the
composed system is one of the supervisor's handlers, or leaves `governed`, the fleet and the
rows, alone. The bus is left out of that claim, for the folds read it and the notifier
publishes on it. The lemmas of `SupervisorProofs` are stated for such steps, so its theorems
hold in the daemon: governance is durable with commands waiting and launches written by
another process (`DaemonKeepsGovernance`), a restart that loses the channels and the views
gives it back (`DaemonRestartGivesBack`), and it is opted into (`DaemonOptsIn`). The daemon
says more of the phase than the supervisor can: `PhasesAreCommanded`, that a pinned phase
moves, or a frozen session gains writes, only in a step that serves `SetPhase`,
`AdvancePhase` or, unpinned, `ApprovePlan` for that very session from the head of the
channel. It does not say whose command it was: an agent's `request_phase` travels on the
same channel, which is the divergence `Daemon_AgentNeverUnlocksWrites` shows.

`DetectionProofs`: `TailIsTheTranscript` speaks of recursive readings of the log only
through what the first n lines say (`IsLast`, `HasUpTo`), and that is what the invariant
(`SourceInv`) carries: the entry agrees with the lines it parsed, the bytes read are the log
from the parsed line on, and the log only grows unless `rewritten` says otherwise.
`StallIsAlwaysReal` follows: whoever judges a file old enough has read all of it.
`StallIsAlwaysShown` needs `StallInv`: as long as nobody else has moved the tile since
(`outside`), a stall the source holds as raised is on the tile in step with the engine's
status, or its alert is still queued, with no status behind it that clears it.
`DetectionAssumption` keeps the markers `None` and `Absent` apart from lines and entries;
the model's own constants do.

`ToolProofs`. The tabs: nothing is captured before the restore is over, what an unvisited
space left open rests in memory, in the file and in every save under way alike, and a tab
the operator closed has nowhere to come from (`TabsInv`, of which `UnvisitedRest` and
`ClosedAreGone` are the parts that cost most). The builder: a form that is to be built anew
while it shows the operator's last message is seeded with it (`BoundIsSeeded`), so drawing
it keeps the message wherever the method drawn is its own. `BoundStays` goes through the
steps: only a failed connect and a form of another method lose it. Nothing is proved of
saved calls, whose names are cut short and do not tell the methods apart.

`GateProofs`, the verdict: what `evaluate` and `decide` promise, for every gate state and
call; `UnlockWidens`, that unlocking a phase takes nothing away that was allowed.

`ReviewProofs`. The threads: one assignment of parents that never changes explains every
row, every copy of a row and every reply on its way (`ThreadsInv`). An update leaves the
parent it finds, and a reply's parent is the root of the thread its own parent is in, so no
thread gets deep. The ledger: a write a session is owed an account of is listed, or a call
still open will list it (a fingerprint that lacks it, a row recorded before it lands); that
is what survives other sessions' scans, marks and commits, and what an interrupt and a
restart give up only for what the scan they drop would have listed (`LedgerInv`). A session
has one call at a time, so when an edit is let through nothing else of the session is under
way: what it finds owed has a row already, and a row keeps the baseline it has.
`BaselineIsAlwaysForeign` follows.

`DeskProofs`: the armed terminal (`ArmedIsAlwaysKnown` besides the property of the run),
unsaved text, and the run registry, where the invariant ties the epochs and the ids of tabs
to the starts that made them, and a live process that is not its tab's child to a start
during a close; the popup, where a copy may hold what a verdict ended only
while the resolution is still to be published or folded, and at every other moment a later
fact takes it out; the review panel, whose list has every place once, so that following a
file by its path through an edit of the list keeps the rows on screen and the selection
together.

Its verdicts (`ReviewVerdicts`): the run asks that they settle, which is liveness, and
`JudgedIsAlwaysRight` is what holds before they do. A listed file whose stamp of now is the
stamp it was judged at is marked exactly when it is its baseline, though reads overlap, see
the file while it is written and are taken out of order. The stamp is taken before the read,
no stamp is of a write to come (`StampsArePast`), so a write makes every verdict of the file
old at once; and the panel lists nothing that has left the ledger (`ListedIsKept`), so that a
read that found no row was asked for before an approval, not since. Taking the stamp when the
verdict arrives would break it.

The registration: no event ever holds two registrations of ours. What makes it inductive is that
every copy a process holds is as sound as the file (`SoundFile`): at most one registration,
and room for one. A repair, an install and an uninstall turn a sound copy of any age into a
sound file (`EditedIsSound`).

Each theorem is about its module's own specification; the runs compose some of those
modules, part by part. Proved, and checked by no run: the type invariants of `ChangeLedger`,
`HoldGate` and `HookRegistration`, `UndiscoveredRowIsFresh`, and the theorems listed in
`PROJECT.json` without a property.

With a store that may fail (`StoreFaults`), `TypeCorrect`, `PinnedIsTheOperators`,
`GovernanceIsOptedInto`, `DaemonRunsTheSupervisor` and `DaemonOptsIn` are proved and no run
is made; durability is false then, by design.

Every invariant and every action property of the passing runs is proved. Only model-checked
is what holds under fairness, which is out of the prover's reach: `GateConverges`,
`BoundedAsksEnd`, `ClickOnSlotAnswers`, `ExitsAreShown`, `VerdictsSettle`,
`LaunchesAreGoverned`, `VerbsFollow` and `FleetTellsTheTranscript`. No theorem speaks of
`Launches`, `Startup` or `HeldCall`: what the runs ask of the first is liveness, and of the
others a claim that is refuted.

## What is not modelled, and the plan

Not modelled:

- `classify.rs`: how a command line is classified is text parsing; its result is an input
  of `GateVerdict`. The parsing of a transcript line is left out in the same way: a line
  is its kind.
- Detection's working directory, plan and summary signals, which pass through unread; the
  workspace's copy of a tile's alert and the notifier's thin status.
- Turn briefs, the audit log, schema migrations, ignore masks, renames, large and binary
  files and the rendering of diffs.
- `config.rs` (a file read once per start or directory), HTTP and stdio framing,
  `crates/core` (aggregation for display), the lists, panels and plan rendering of the editor
  clients (their view of held approvals is `EditorHolds`; elsewhere they appear as senders
  of the control API's commands), and the placeholder crates `rtk` and `worktree`.
- The desktop's other views: HTTP, database and service panels, git views, terminal
  emulation, docks and settings, and of the tabs which is frontmost. They are GPUI rendering
  and calls to outside programs with no state that another part of the system reads; most of
  the repository's lines are theirs, so the share of the code these modules cover stays
  small.

What a next step would add, in this order:

1. What `Launches` keeps before it converges, with its proof: that a request the engine
   dropped leaves the conversation to be asked for again.
2. Refinement: an abstract read-model (what the fleet says, seen late) that the three folds
   implement, with `FoldsAlwaysEndRight` as the inductive half of the proof.
3. The desktop's composition of the engine's folds, with gaps that nobody repairs.
