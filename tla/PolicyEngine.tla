---------------------------- MODULE PolicyEngine ----------------------------
(***************************************************************************)
(* The deterministic policy engine (app/policy/engine.py).  A proposal is  *)
(* a set of risk signals; the ordered rules judge it, the first rule that  *)
(* matches wins.  The rules of one decision are adjacent in the source, so *)
(* which of them matches does not change the decision: they are one        *)
(* predicate here.  The module is constant.                                *)
(***************************************************************************)
EXTENDS Naturals

\* The signals that block outright, and that ask for a developer.
BlockingSignals == {
    "bypasses_policy", "modifies_core_or_orchestrator",
    "modifies_agent_system_prompt", "admin_privilege", "accesses_secret",
    "external_network_server", "mvp_blocked_domain"}

ExpertSignals == {
    "creates_credentials", "permission_escalation", "org_wide_registration",
    "new_model_adapter", "large_architecture_change"}

\* The signals that only count together with others.  in_allowlist,
\* reuse_existing and project_scoped speak for a proposal.
OtherSignals == {
    "write_access", "is_new_external_connection",
    "in_allowlist", "reuse_existing", "project_scoped"}

Signals == BlockingSignals \cup ExpertSignals \cup OtherSignals

RiskLevels == {"LOW", "MEDIUM", "HIGH"}
DataClasses == {"PUBLIC", "INTERNAL", "CONFIDENTIAL"}

Proposals == [
    kind    : {"AGENT", "MCP_CONNECTION"},
    signals : SUBSET Signals,
    risk    : RiskLevels,
    data    : DataClasses]

Decisions == {"AUTO_APPROVE", "USER_APPROVAL", "EXPERT_REQUIRED", "AUTO_BLOCKED"}

\* How restrictive a decision is (_SEVERITY of expansion/service.py).
Severity == [
    AUTO_APPROVE |-> 0, USER_APPROVAL |-> 1, EXPERT_REQUIRED |-> 2, AUTO_BLOCKED |-> 3]

-----------------------------------------------------------------------------

\* A new connection to a server that is not on the allowlist.
NewAndUnlisted(p) ==
    "is_new_external_connection" \in p.signals /\ "in_allowlist" \notin p.signals

Blocks(p) ==
    \/ p.signals \cap BlockingSignals # {}
    \/ NewAndUnlisted(p) /\ (p.data = "CONFIDENTIAL" \/ p.risk = "HIGH")

NeedsExpert(p) == p.signals \cap ExpertSignals # {} \/ NewAndUnlisted(p)

NeedsUser(p) ==
    /\ "in_allowlist" \in p.signals
    /\ p.signals \cap {"write_access", "is_new_external_connection"} # {}

\* The rule of read-only tools of low risk.
HarmlessTool(p) ==
    /\ "in_allowlist" \in p.signals
    /\ p.signals \cap {"write_access", "is_new_external_connection"} = {}
    /\ p.risk = "LOW"
    /\ p.data # "CONFIDENTIAL"

\* The rule of project-scoped agents.
ProjectAgent(p) ==
    /\ p.kind = "AGENT"
    /\ "project_scoped" \in p.signals
    /\ p.signals \cap {"accesses_secret", "permission_escalation"} = {}

AutoApproves(p) == "reuse_existing" \in p.signals \/ HarmlessTool(p) \/ ProjectAgent(p)

\* PolicyEngine.decide: the rules in order, and the fallback.
Decide(p) ==
    IF Blocks(p) THEN "AUTO_BLOCKED"
    ELSE IF NeedsExpert(p) THEN "EXPERT_REQUIRED"
    ELSE IF NeedsUser(p) THEN "USER_APPROVAL"
    ELSE IF AutoApproves(p) THEN "AUTO_APPROVE"
    ELSE "USER_APPROVAL"
=============================================================================
