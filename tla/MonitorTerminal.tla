---------------------------- MODULE MonitorTerminal ----------------------------
(***************************************************************************)
(* One session's monitor and the terminal its agent runs in                *)
(* (session_monitor.rs, terminal.rs, auto_compact.rs): the automatic       *)
(* /compact armed on the terminal before the operator's next message, the  *)
(* takeover, the relaunch of a process that exited and the prompts that    *)
(* tell a stopped session to continue.                                     *)
(***************************************************************************)
EXTENDS Naturals

CONSTANTS
  MaxExitResumes,  \* MAX_EXIT_RESUMES
  MaxRuns          \* bound: automatic compactions counted

ASSUME MonitorAssumption == MaxExitResumes \in Nat /\ MaxRuns \in Nat \ {0, 1}

\* The context usage against the policy's two levels: under threshold_pct - REARM_MARGIN,
\* between the two, at or over threshold_pct.
Levels == {"low", "between", "high"}

VARIABLES
  term,            \* the monitor's terminal: "none", "live" or "exited"
  watched,         \* built with a terminal: the obs observer and the exit watch exist
  auto_inject,     \* whether /compact is armed on the terminal
  compact_armed,   \* what the monitor believes of it
  usage,           \* the usage the obs read-model last showed
  incomplete,      \* last_alert is Incomplete
  resume_armed, exit_handled, exit_resumes,
  nudge,           \* a relaunch still has to send its continue prompt
  optedIn,         \* the project's auto-resume setting
  compactions      \* automatic compactions since usage was last low

monitorVars == <<term, watched, auto_inject, compact_armed, usage, incomplete, resume_armed,
                 exit_handled, exit_resumes, nudge, optedIn, compactions>>
compactVars == <<auto_inject, compact_armed, usage, compactions>>
resumeVars  == <<incomplete, resume_armed, exit_handled, exit_resumes, nudge>>

-----------------------------------------------------------------------------
(* Auto-compact *)

\* Mutant: the margin is dropped, anything under the threshold disarms.
DecideAtThreshold(level, armed) ==
  CASE ~armed /\ level = "high" -> "Arm"
    [] armed /\ level # "high"  -> "Disarm"
    [] OTHER                    -> "Hold"

\* auto_compact::decide, enabled: arm at the threshold, disarm under the lower level.
Decided(level, armed) ==
  CASE ~armed /\ level = "high" -> "Arm"
    [] armed /\ level = "low"   -> "Disarm"
    [] OTHER                    -> "Hold"

\* The obs store notifies, for this session or another: check_auto_compact.
ObsNotifies(level) ==
  /\ usage' = level
  /\ compactions' = IF level = "low" THEN 0 ELSE compactions
  /\ LET decision == IF watched /\ term # "none" THEN Decided(level, compact_armed) ELSE "Hold"
     IN  /\ auto_inject' = (decision = "Arm" \/ (auto_inject /\ decision # "Disarm"))
         /\ compact_armed' = (decision = "Arm" \/ (compact_armed /\ decision # "Disarm"))
  /\ UNCHANGED <<term, watched, resumeVars, optedIn>>

\* on_key_down: a compose key after a typing lull takes the armed injection and writes it
\* before the key; to a terminal whose process is gone it is written all the same.
TypeFreshMessage ==
  /\ term # "none" /\ auto_inject
  /\ auto_inject' = FALSE
  /\ compactions < MaxRuns /\ compactions' = compactions + 1
  /\ UNCHANGED <<term, watched, compact_armed, usage, resumeVars, optedIn>>

\* compact_session: the operator compacts by hand.
CompactSession ==
  /\ term # "none"
  /\ auto_inject' = FALSE /\ compact_armed' = FALSE /\ compactions' = 0
  /\ UNCHANGED <<term, watched, usage, resumeVars, optedIn>>

-----------------------------------------------------------------------------
(* Takeover, exit and restart *)

FreshTerminal == /\ term' = "live" /\ auto_inject' = FALSE /\ compact_armed' = FALSE
                 /\ compactions' = 0

\* try_resume: the operator takes an observed session over.
TryResume ==
  /\ term = "none" /\ FreshTerminal
  /\ UNCHANGED <<watched, usage, resumeVars, optedIn>>

\* The agent's process ends; only the terminal notices.
AgentExits ==
  /\ term = "live" /\ term' = "exited"
  /\ UNCHANGED <<watched, compactVars, resumeVars, optedIn>>

MayRelaunch == optedIn /\ exit_resumes < MaxExitResumes

\* check_terminal_exit, every EXIT_POLL_INTERVAL: a live terminal re-arms the watch, an exit
\* not acted on is acted on once, with relaunch_after_exit when that is wanted.
CheckTerminalExit ==
  /\ watched
  /\ \/ term = "live" /\ exit_handled /\ exit_handled' = FALSE
        /\ UNCHANGED <<term, compactVars, exit_resumes, nudge>>
     \/ term = "exited" /\ ~exit_handled /\ exit_handled' = TRUE
        /\ IF MayRelaunch
           THEN /\ FreshTerminal /\ exit_resumes' = exit_resumes + 1
                /\ nudge' = TRUE /\ UNCHANGED usage
           ELSE UNCHANGED <<term, compactVars, exit_resumes, nudge>>
  /\ UNCHANGED <<watched, incomplete, resume_armed, optedIn>>

\* The task relaunch_after_exit spawned: the screen shows something or 8 s have passed.
SendNudge ==
  /\ nudge /\ nudge' = FALSE
  /\ UNCHANGED <<term, watched, compactVars, incomplete, resume_armed, exit_handled,
                 exit_resumes, optedIn>>

\* maybe_auto_resume: an alert is folded; the edge into Incomplete sends the restored
\* session one prompt, if its project opted in and it has a terminal.
Alert(stalled) ==
  /\ incomplete' = stalled
  /\ resume_armed' = (resume_armed /\ ~(stalled /\ ~incomplete /\ optedIn /\ term # "none"))
  /\ UNCHANGED <<term, watched, compactVars, exit_handled, exit_resumes, nudge, optedIn>>

SetAutoResume(on) ==
  /\ on # optedIn /\ optedIn' = on
  /\ UNCHANGED <<term, watched, compactVars, resumeVars>>

-----------------------------------------------------------------------------

\* SessionMonitor::build, and arm_restore_resume for a session the restart restored.
MonitorInit ==
  /\ term \in {"none", "live"} /\ watched = (term = "live")
  /\ resume_armed \in {FALSE, watched} /\ optedIn \in BOOLEAN
  /\ auto_inject = FALSE /\ compact_armed = FALSE /\ usage = "low" /\ compactions = 0
  /\ incomplete = FALSE /\ exit_handled = FALSE /\ exit_resumes = 0 /\ nudge = FALSE

MonitorNext ==
  \/ \E level \in Levels : ObsNotifies(level)
  \/ TypeFreshMessage \/ CompactSession \/ TryResume \/ AgentExits
  \/ CheckTerminalExit \/ SendNudge
  \/ \E b \in BOOLEAN : Alert(b) \/ SetAutoResume(b)

MonitorSpec == MonitorInit /\ [][MonitorNext]_monitorVars

-----------------------------------------------------------------------------
(* Properties *)

\* terminal.rs and session_monitor.rs hold one half of the policy's state each: what is
\* armed on the terminal is always something the monitor knows it has to disarm, through
\* takeovers, relaunches and compactions by hand.
ArmedIsKnown == auto_inject => compact_armed

\* The policy compacts at most once before usage is seen low again, unless the operator
\* compacts by hand or the terminal is replaced in between (auto_compact.rs: "one fired
\* injection can't immediately re-arm off a stale high reading").
OncePerFill == compactions <= 1
=============================================================================
