------------------------------ MODULE Workflow ------------------------------
(***************************************************************************)
(* The vocabulary every other module speaks: the workflow phases, the      *)
(* trust tiers, the policy decision point and the hook gate's verdict.     *)
(* Pure operators, no state: crates/domain (phase.rs, trust.rs),           *)
(* crates/trust and the deciding half of crates/control/src/gate.rs.       *)
(***************************************************************************)
EXTENDS Naturals

-----------------------------------------------------------------------------
(* Phases *)

Phases == {"Plan", "AutoImplement", "Test", "Review", "Commit"}

NextPhase(p) ==
  CASE p = "Plan"          -> "AutoImplement"
    [] p = "AutoImplement" -> "Test"
    [] p = "Test"          -> "Review"
    [] p = "Review"        -> "Commit"
    [] p = "Commit"        -> "Plan"

AllowsWrites(p) == p \in {"AutoImplement", "Test", "Review"}

AllowsAiWorkspaceWrites(p) == p # "Commit"

\* Mutant: a done checkpoint also leaves Plan.
AutoAdvancesFromPlan(p) == p \in {"Plan", "AutoImplement"}

AutoAdvancesOnDone(p) == p = "AutoImplement"

-----------------------------------------------------------------------------
(* Trust tiers, in their derived order *)

TrustTiers == {"Observed", "ReadOnly", "Standard", "Trusted"}

TierRank(t) ==
  CASE t = "Observed" -> 0
    [] t = "ReadOnly" -> 1
    [] t = "Standard" -> 2
    [] t = "Trusted"  -> 3

-----------------------------------------------------------------------------
(* MCP verbs.  NoVerb is the hook gate's `verb: None`. *)

NoVerb == "NoVerb"

Verbs == {"RunWithCoverage", "QueryDb", "HttpRequest", "OpenReview", "StartDebug",
          "RunStart", "RunStop", "RunStatus", "RunLogs", "RunListTargets",
          "RequestPhase", "ReportBlocked", "PhaseStatus", "PresentPlan"}

MinAutonomousTier(v) ==
  CASE v \in {"ReportBlocked", "PhaseStatus", "PresentPlan"}          -> "Observed"
    [] v \in {"RunWithCoverage", "HttpRequest", "QueryDb",
              "RunStatus", "RunLogs", "RunListTargets"}               -> "ReadOnly"
    [] v \in {"OpenReview", "RunStart", "RunStop"}                    -> "Standard"
    [] v \in {"StartDebug", "RequestPhase"}                           -> "Trusted"

IsPhaseControl(v) == v = "RequestPhase"

IsReadOnlyVerb(v) ==
  v \in {"RunWithCoverage", "QueryDb", "HttpRequest", "RunStatus", "RunLogs",
         "RunListTargets", "ReportBlocked", "PhaseStatus", "PresentPlan"}

\* The baseline danger class the actor gives a verb before asking the PDP.
VerbDanger(v) ==
  IF v \in {"RunStart", "RunStop", "HttpRequest", "StartDebug"} THEN "Risky" ELSE "Safe"

-----------------------------------------------------------------------------
(* The policy decision point *)

DangerClasses == {"Safe", "Risky", "DangerZone"}
\* NoScope is `write_scope: None`, a write whose target is unknown.
WriteScopes == {"Ephemeral", "AiWorkspace", "Project", "NoScope"}

PermissionRequest ==
  [phase : Phases, trust_tier : TrustTiers, verb : Verbs \cup {NoVerb},
   danger : DangerClasses, write_scope : WriteScopes, prompt_on_project_freeze : BOOLEAN]

\* Mutant: an unknown target is taken for scratch space.
EffectiveScopeEphemeral(req) ==
  IF req.write_scope = "NoScope" THEN "Ephemeral" ELSE req.write_scope

EffectiveScope(req) ==
  IF req.write_scope = "NoScope" THEN "Project" ELSE req.write_scope

IsWrite(req) ==
  \/ req.danger = "Risky"
  \/ req.verb # NoVerb /\ ~IsReadOnlyVerb(req.verb)

WritePermitted(req) ==
  CASE EffectiveScope(req) = "Ephemeral"   -> TRUE
    [] EffectiveScope(req) = "AiWorkspace" -> AllowsAiWorkspaceWrites(req.phase)
    [] EffectiveScope(req) = "Project"     -> AllowsWrites(req.phase)

\* DefaultPdp::decide, in the order of its early returns.
Decide(req) ==
  IF req.danger = "DangerZone" \/ IsPhaseControl(req.verb) THEN "Prompt"
  ELSE IF IsWrite(req) /\ ~WritePermitted(req)
  THEN IF EffectiveScope(req) = "Project" /\ req.prompt_on_project_freeze
       THEN "Prompt" ELSE "Deny"
  ELSE IF /\ req.verb # NoVerb
          /\ TierRank(req.trust_tier) < TierRank(MinAutonomousTier(req.verb))
  THEN "Prompt" ELSE "Allow"

-----------------------------------------------------------------------------
(* The hook gate.  A tool call is what the gate can tell about it: whether it *)
(* is one of the two plan tools, whether it belongs to an external MCP server,*)
(* its danger class (Safe when vouched) and the part of the tree it writes.   *)

ToolCall ==
  [is_plan : BOOLEAN, external_mcp : BOOLEAN, danger : DangerClasses,
   write_scope : WriteScopes]

GateState == [phase : Phases, trust : TrustTiers, paused : BOOLEAN, adopted : BOOLEAN]

\* GateState::default, the posture of a session no fact has described yet.
DefaultGate == [phase |-> "Plan", trust |-> "Observed", paused |-> FALSE, adopted |-> FALSE]

GateRequest(gate, call) ==
  [phase |-> gate.phase, trust_tier |-> gate.trust, verb |-> NoVerb,
   danger |-> call.danger, write_scope |-> call.write_scope,
   prompt_on_project_freeze |-> call.external_mcp]

\* gate::evaluate for a session the read-model knows; an unknown one is allowed
\* exactly as an unadopted one is.
Evaluate(gate, call) ==
  IF ~gate.adopted THEN "Allow"
  ELSE IF gate.paused THEN "Deny"
  ELSE IF call.is_plan THEN "HoldPlan"
  ELSE LET verdict == Decide(GateRequest(gate, call))
       IN IF verdict # "Prompt" THEN verdict
          ELSE IF call.external_mcp THEN "HoldMcpAuthorize" ELSE "HoldDanger"

-----------------------------------------------------------------------------
(* request_phase: which moves the actor may approve without the operator *)

\* A request names a phase, asks for the next one, or cannot be parsed.
PhaseTargets == Phases \cup {"next", "unknown"}

PhaseTarget(current, target) ==
  IF target = "next" THEN NextPhase(current) ELSE target

PhaseChangeNeedsOperator(current, target) ==
  \/ target = "unknown"
  \/ ~AllowsWrites(current) /\ AllowsWrites(PhaseTarget(current, target))
=============================================================================
