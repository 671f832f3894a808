------------------------------ MODULE MC_Daemon ------------------------------
(***************************************************************************)
(* Small instances of Daemon.  The bus keeps one or two events a receiver, *)
(* so that every pair of facts published before a fold runs makes it lag.  *)
(***************************************************************************)
EXTENDS Daemon

CONSTANT s1

OneSession   == {s1}
TwoTiers     == {"Observed", "Trusted"}
TwoStatuses  == {"Running", "Idle"}
BothFolds    == {"readmodels", "policy"}
PolicyIsLate == {"policy"}
Nothing      == {}

Adopt(s)  == [op |-> "SetAdopted", session |-> s, adopted |-> TRUE]
Toggle(s) == [op |-> "ToggleAdoption", session |-> s]
Trust(s)  == [op |-> "SetTrust", session |-> s, tier |-> "Trusted"]
Pause(s)  == [op |-> "TogglePause", session |-> s]
Unpin(s)  == [op |-> "SetPhasePinned", session |-> s, pinned |-> FALSE]
Forget(s) == [op |-> "ForgetSession", session |-> s]
Plan(s)   == [op |-> "ApprovePlan", session |-> s]

\* What the daemon's control API offers.
ApiOfOne == {Adopt(s1), MoveTo(s1, "Test", "operator"), MoveOn(s1, "operator")}

\* What the cockpit adds.
CockpitOfOne == {Toggle(s1), Trust(s1), Pause(s1), Unpin(s1), Plan(s1), Forget(s1)}

SomeTargets == {"next", "Plan", "Test", "unknown"}
=============================================================================
