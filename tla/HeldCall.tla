------------------------------- MODULE HeldCall -------------------------------
(***************************************************************************)
(* One tool call from its verdict to its answer (crates/control server.rs  *)
(* decide and hold). The verdict is taken on the gate's state when the call *)
(* comes in; a held call waits for the operator outside the lock, and what *)
(* the operator answers is the answer, whatever the state has become.      *)
(***************************************************************************)
EXTENDS Workflow

VARIABLES
  gate,      \* the session's GateState
  call,      \* the tool call
  stage      \* "asked", "held", "allowed" or "denied"

heldVars == <<gate, call, stage>>

StageOf(verdict) ==
  CASE verdict = "Allow" -> "allowed" [] verdict = "Deny" -> "denied" [] OTHER -> "held"

\* decide: evaluate under the read lock, once.
DecideCall ==
  /\ stage = "asked"
  /\ stage' = StageOf(Evaluate(gate, call))
  /\ UNCHANGED <<gate, call>>

\* hold: an approval allows, with nothing looked at again.
Approved ==
  stage = "held" /\ stage' = "allowed" /\ UNCHANGED <<gate, call>>

\* A denial, a dropped sender, or the budget.
Refused ==
  stage = "held" /\ stage' = "denied" /\ UNCHANGED <<gate, call>>

NextCall(c) ==
  /\ stage \in {"allowed", "denied"}
  /\ call' = c /\ stage' = "asked" /\ UNCHANGED gate

\* What the fleet does to the gate's state meanwhile.
GateMoves ==
  /\ UNCHANGED <<call, stage>>
  /\ \/ \E p \in Phases : gate' = [gate EXCEPT !.phase = p]
     \/ \E t \in TrustTiers : gate' = [gate EXCEPT !.trust = t]
     \/ gate' = [gate EXCEPT !.paused = ~@]
     \/ gate' = [gate EXCEPT !.adopted = ~@]

HeldInit == gate = DefaultGate /\ call \in ToolCall /\ stage = "asked"

HeldNext ==
  \/ DecideCall \/ Approved \/ Refused \/ GateMoves
  \/ \E c \in ToolCall : NextCall(c)

HeldSpec == HeldInit /\ [][HeldNext]_heldVars

-----------------------------------------------------------------------------
(* Properties *)

\* A paused session runs no tool ("The operator paused this session (safety halt) - deny
\* everything", gate.rs): no call of an adopted session is let through while it is paused.
HaltStopsHeld ==
  [][stage # "allowed" /\ stage' = "allowed" => ~(gate.adopted /\ gate.paused)]_heldVars
=============================================================================
