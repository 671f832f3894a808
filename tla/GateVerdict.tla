----------------------------- MODULE GateVerdict -----------------------------
(***************************************************************************)
(* What the gate answers a tool call (crates/control/src/gate.rs evaluate  *)
(* over crates/trust), as one session's state moves under a call it keeps  *)
(* repeating: every state of the gate, every call, every move between.     *)
(***************************************************************************)
EXTENDS Workflow

VARIABLES gate, call

gateVars == <<gate, call>>

Verdict == Evaluate(gate, call)

GateInit == gate \in GateState /\ call \in ToolCall

\* The operator, or a done checkpoint, moves the session on.
MovesOn ==
  gate' = [gate EXCEPT !.phase = NextPhase(@)] /\ UNCHANGED call

Picks(p) == gate' = [gate EXCEPT !.phase = p] /\ UNCHANGED call

Entrusts(tier) == gate' = [gate EXCEPT !.trust = tier] /\ UNCHANGED call

Pauses == gate' = [gate EXCEPT !.paused = ~@] /\ UNCHANGED call

Adopts == gate' = [gate EXCEPT !.adopted = ~@] /\ UNCHANGED call

GateNext ==
  \/ MovesOn
  \/ \E p \in Phases : Picks(p)
  \/ \E tier \in TrustTiers : Entrusts(tier)
  \/ Pauses \/ Adopts

GateSpec == GateInit /\ [][GateNext]_gateVars

-----------------------------------------------------------------------------
(* Properties *)

\* The phase cycle never leaves the five phases.
GateTypeOK == gate \in GateState /\ call \in ToolCall

\* In a frozen phase an adopted session writes no project file by itself, and a write
\* whose target is unknown counts as one; only an external MCP tool may be put to the
\* operator instead of refused (phase.rs allows_writes, trust lib.rs decide).
FrozenProtectsProject ==
  /\ gate.adopted /\ ~AllowsWrites(gate.phase) /\ ~call.is_plan
  /\ call.danger = "Risky" /\ call.write_scope \in {"Project", "NoScope"}
  => \/ Verdict = "Deny"
     \/ Verdict = "HoldMcpAuthorize" /\ call.external_mcp

\* No phase, tier or scope makes a danger-zone call of an adopted session autonomous.
DangerIsNeverAutonomous ==
  gate.adopted /\ call.danger = "DangerZone" => Verdict # "Allow"

\* A frozen phase freezes writes and nothing else: reading is allowed in every phase
\* at every tier, unless the session is paused.
ReadsAlwaysPass ==
  gate.adopted /\ ~gate.paused /\ ~call.is_plan /\ call.danger = "Safe"
  => Verdict = "Allow"

\* What a verdict never overrides, whatever the tier and the scope: the freeze, danger, and
\* that a freeze is of writes only.
VerdictKeepsItsBounds ==
  FrozenProtectsProject /\ DangerIsNeverAutonomous /\ ReadsAlwaysPass

\* Unlocking only widens: leaving a frozen phase for one that writes never takes away
\* what the session was allowed.
UnlockOnlyWidens ==
  [][(/\ ~AllowsWrites(gate.phase) /\ AllowsWrites(gate'.phase)
       /\ Verdict = "Allow") => Verdict' = "Allow"]_gateVars
=============================================================================
