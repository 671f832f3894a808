------------------------------- MODULE MC_Store -------------------------------
(***************************************************************************)
(* What the store keeps, part by part: the fleet's rows, the ledger of     *)
(* what sessions wrote, and the comments on it. The parts share no         *)
(* variable, so a behaviour of one at a time, picked at the start, is      *)
(* every behaviour there is of each. In the fleet sessions do not          *)
(* interact, so one shows every behaviour of one; where somebody listens,  *)
(* the bus keeps the last fact only, and tells apart two handlers that     *)
(* leave the same entry.                                                   *)
(***************************************************************************)
EXTENDS Supervisor, ChangeLedger, ReviewThreads, TLC

CONSTANTS s1, s2, inside, outside, aTitle, c1, c2, c3

OneSession  == {s1}
TwoTiers    == {"Observed", "Trusted"}
SomeStatus  == {"Running", "Done", "Idle"}
OneTitle    == {aTitle}
TwoRoots    == {inside, outside}
OneRoot     == {inside}
NoReceiver  == {}
OneReceiver == {"witness"}

TwoTools == (s1 :> {"Edit", "Bash"}) @@ (s2 :> {"Bash"})
Authors  == (c1 :> "Operator") @@ (c2 :> "Agent") @@ (c3 :> "Operator")

(* The operator's comments are told apart by nothing but their ids.        *)
Interchangeable == Permutations({c1, c3})

VARIABLE focus

storeVars == <<vars, ledgerVars, threadVars, focus>>

StoreInit ==
  /\ Init /\ LedgerInit /\ ThreadsInit
  /\ focus \in {"fleet", "ledger", "threads"}
  /\ focus # "ledger" => \A f \in Files : disk[f] = Gone \/ f \in Tracked

StoreNext ==
  /\ UNCHANGED focus
  /\ \/ focus = "fleet" /\ Next /\ UNCHANGED <<ledgerVars, threadVars>>
     \/ focus = "ledger" /\ LedgerNext /\ UNCHANGED <<vars, threadVars>>
     \/ focus = "threads" /\ ThreadsNext /\ UNCHANGED <<vars, ledgerVars>>

StoreSpec == StoreInit /\ [][StoreNext]_storeVars
=============================================================================
