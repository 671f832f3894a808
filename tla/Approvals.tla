------------------------------ MODULE Approvals ------------------------------
(***************************************************************************)
(* What the operator is promised of the approval keystone, whoever asks    *)
(* and however the question travels: an approval is spent by at most one   *)
(* ask of the session it was given for, and nothing is allowed without     *)
(* one, save the calls a dying process lets go.  HoldGate implements it.   *)
(***************************************************************************)
EXTENDS Naturals

CONSTANTS Sessions, Asks, SessionOf,
          FailOpen     \* the asks that are allowed when nobody is left to answer

VARIABLES outcome,     \* ask -> where it stands
          approvals    \* session -> approvals given and not yet spent

vars == <<outcome, approvals>>

Ask(a) ==
  /\ outcome[a] = "unasked"
  /\ outcome' = [outcome EXCEPT ![a] = "asked"]
  /\ UNCHANGED approvals

Approve(s) ==
  /\ approvals' = [approvals EXCEPT ![s] = @ + 1]
  /\ UNCHANGED outcome

\* An approval may find nothing to allow any more.
Waste(s) ==
  /\ approvals[s] > 0
  /\ approvals' = [approvals EXCEPT ![s] = @ - 1]
  /\ UNCHANGED outcome

Allow(a) ==
  /\ outcome[a] = "asked" /\ approvals[SessionOf[a]] > 0
  /\ outcome' = [outcome EXCEPT ![a] = "allowed"]
  /\ approvals' = [approvals EXCEPT ![SessionOf[a]] = @ - 1]

Deny(a) ==
  /\ outcome[a] = "asked"
  /\ outcome' = [outcome EXCEPT ![a] = "denied"]
  /\ UNCHANGED approvals

\* The process that holds the asks dies: the approvals it had not spent die with it.
Lose ==
  /\ outcome' = [a \in Asks |-> IF outcome[a] # "asked" THEN outcome[a]
                                ELSE IF a \in FailOpen THEN "allowed" ELSE "denied"]
  /\ approvals' = [s \in Sessions |-> 0]

Init ==
  /\ outcome = [a \in Asks |-> "unasked"]
  /\ approvals = [s \in Sessions |-> 0]

Next ==
  \/ \E a \in Asks : Ask(a) \/ Allow(a) \/ Deny(a)
  \/ \E s \in Sessions : Approve(s) \/ Waste(s)
  \/ Lose

Spec == Init /\ [][Next]_vars
=============================================================================
