----------------------------- MODULE MC_Progress -----------------------------
(***************************************************************************)
(* Four parts that must get somewhere: held asks and their verdicts,       *)
(* launched processes and their governance, the run registry, the review   *)
(* panel's verdicts. They share no variable, so a behaviour of one at a    *)
(* time, picked at the start, is every behaviour there is of each.         *)
(***************************************************************************)
EXTENDS MC_HoldGate, Launches, RunRegistry, ReviewVerdicts

VARIABLE focus

progressVars == <<vars, launchVars, runVars, verdictVars, focus>>

ProgressInit ==
  /\ Init /\ LaunchInit /\ RunInit /\ VerdictsInit
  /\ focus \in {"holds", "launches", "runs", "verdicts"}
  /\ focus # "verdicts" => \A f \in Reviewed : row[f] = 0

ProgressNext ==
  /\ UNCHANGED focus
  /\ \/ focus = "holds" /\ Next /\ UNCHANGED <<launchVars, runVars, verdictVars>>
     \/ focus = "launches" /\ LaunchNext /\ UNCHANGED <<vars, runVars, verdictVars>>
     \/ focus = "runs" /\ RunNext /\ UNCHANGED <<vars, launchVars, verdictVars>>
     \/ focus = "verdicts" /\ VerdictsNext /\ UNCHANGED <<vars, launchVars, runVars>>

\* The fairness of each part, where it is the one that moves.
ProgressFairness ==
  /\ \A a \in Asks : /\ WF_vars(focus = "holds" /\ Task(a))
                    /\ WF_vars(focus = "holds" /\ RouteVerdict(a))
                    /\ WF_vars(focus = "holds" /\ Elapse(a))
  /\ \A c \in Conversations :
       /\ \A l \in LaunchIds : SF_launchVars(focus = "launches" /\ ServeHook(l, c))
       /\ WF_launchVars(focus = "launches" /\ Discover(c))
       /\ WF_launchVars(focus = "launches" /\ RetryPasses(c))
       /\ WF_launchVars(focus = "launches" /\ Fold(c))
       /\ \A b \in BOOLEAN : WF_launchVars(focus = "launches" /\ Serve(c, b))
  /\ \A p \in 1 .. MaxStarts : WF_runVars(focus = "runs" /\ RunGoesOn(p))
  /\ WF_verdictVars(focus = "verdicts" /\ Poll)
  /\ \A f \in Reviewed : /\ WF_verdictVars(focus = "verdicts" /\ ReadGoesOn(f))
                         /\ WF_verdictVars(focus = "verdicts" /\ ReadIsTaken(f))

ProgressSpec == ProgressInit /\ [][ProgressNext]_progressVars /\ ProgressFairness
=============================================================================
