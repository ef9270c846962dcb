---------------------------- MODULE Transitions ----------------------------
(***************************************************************************)
(* The declarative transition tables of the orchestrator                   *)
(* (app/orchestrator/transitions.py): the single source of truth for how a *)
(* project (Product machine) and a development task (Development machine)  *)
(* may change state.  The module is constant: it has no variables.         *)
(*                                                                         *)
(* A guard is a name that transition_guard.py resolves.  Two names stand   *)
(* for guards that always pass: "none" (the row has no guard) and          *)
(* "deferred" (the row names a guard of a later phase, which the registry  *)
(* lets pass after logging it).                                            *)
(***************************************************************************)

\* The destination that means: the state of the subject's latest checkpoint.
CHECKPOINT == "CHECKPOINT"

\* One row of a table.
T(source, event, target, guard) ==
    [source |-> source, event |-> event, target |-> target, guard |-> guard]

-----------------------------------------------------------------------------
(* Product machine *)

ProductMain == {
    T("IDEA_RECEIVED", "ANALYSIS_STARTED", "DOCUMENT_ANALYZING", "has_planning_input"),
    T("DOCUMENT_ANALYZING", "ANALYSIS_COMPLETED", "CLASSIFYING", "deferred"),
    T("DOCUMENT_ANALYZING", "AGENT_OUTPUT_INVALID", "AGENT_VALIDATION_FAILED", "deferred"),
    T("DOCUMENT_ANALYZING", "ANALYSIS_FAILED", "FAILED", "deferred"),
    T("CLASSIFYING", "CLASSIFIED_SELF_SERVICE", "REQUIREMENT_DRAFTING", "classification_saved"),
    T("CLASSIFYING", "CLASSIFIED_AI_ASSISTED", "WAITING_APPROVAL", "classification_saved"),
    T("CLASSIFYING", "CLASSIFIED_EXPERT_REVIEW", "WAITING_EXPERT_CONFIRMATION", "expert_not_confirmed"),
    T("CLASSIFYING", "EXPERT_CONFIRMED_PROCEED", "REQUIREMENT_DRAFTING", "expert_confirmed"),
    T("CLASSIFYING", "CLASSIFIED_UNSUPPORTED", "CANCELLED", "classification_saved"),
    T("CLASSIFYING", "PROHIBITED_SCOPE_DETECTED", "AUTO_BLOCKED_BY_POLICY", "prohibited_detected"),
    T("REQUIREMENT_DRAFTING", "DRAFT_HAS_UNKNOWNS", "WAITING_REQUIREMENT_INPUT", "open_questions_exist"),
    T("REQUIREMENT_DRAFTING", "DRAFT_COMPLETED", "WAITING_REQUIREMENT_APPROVAL", "no_open_questions"),
    T("REQUIREMENT_DRAFTING", "AGENT_OUTPUT_INVALID", "AGENT_VALIDATION_FAILED", "deferred"),
    T("WAITING_REQUIREMENT_INPUT", "USER_ANSWERED", "REQUIREMENT_DRAFTING", "answered_question_exists"),
    T("WAITING_REQUIREMENT_APPROVAL", "REQUIREMENTS_APPROVED", "SPECIFICATION_GENERATING", "requirements_approval_exists"),
    T("WAITING_REQUIREMENT_APPROVAL", "CHANGES_REQUESTED", "REQUIREMENT_DRAFTING", "requirements_change_request_exists"),
    T("SPECIFICATION_GENERATING", "SPEC_COMPLETED", "CAPABILITY_ANALYZING", "prd_document_exists"),
    T("SPECIFICATION_GENERATING", "AGENT_OUTPUT_INVALID", "AGENT_VALIDATION_FAILED", "deferred"),
    T("CAPABILITY_ANALYZING", "NO_GAP_FOUND", "BACKLOG_GENERATING", "capability_no_gap"),
    T("CAPABILITY_ANALYZING", "GAP_FOUND", "EXPANSION_PROPOSING", "capability_gap_exists"),
    T("EXPANSION_PROPOSING", "PROPOSAL_AUTO_APPROVED", "BACKLOG_GENERATING", "policy_decision_auto_approve"),
    T("EXPANSION_PROPOSING", "PROPOSAL_NEEDS_USER", "WAITING_EXPANSION_APPROVAL", "policy_decision_user_approval"),
    T("EXPANSION_PROPOSING", "PROPOSAL_NEEDS_EXPERT", "WAITING_EXPERT_CONFIRMATION", "policy_decision_expert_required"),
    T("EXPANSION_PROPOSING", "PROPOSAL_BLOCKED", "AUTO_BLOCKED_BY_POLICY", "policy_decision_auto_blocked"),
    T("WAITING_EXPANSION_APPROVAL", "EXPANSION_APPROVED", "BACKLOG_GENERATING", "expansion_approval_exists"),
    T("WAITING_EXPANSION_APPROVAL", "EXPANSION_DENIED", "EXPANSION_REJECTED", "none"),
    T("BACKLOG_GENERATING", "BACKLOG_READY_NEW_REPO", "BOOTSTRAPPING", "deferred"),
    T("BACKLOG_GENERATING", "BACKLOG_READY_EXISTING", "READY_FOR_DEVELOPMENT", "backlog_document_exists"),
    T("BOOTSTRAPPING", "BOOTSTRAP_COMPLETED", "READY_FOR_DEVELOPMENT", "deferred"),
    T("BOOTSTRAPPING", "BOOTSTRAP_FAILED", "FAILED", "deferred")
}

\* The states whose work calls a model, and which a spent budget interrupts.
BudgetSources == {
    "DOCUMENT_ANALYZING", "CLASSIFYING", "REQUIREMENT_DRAFTING",
    "SPECIFICATION_GENERATING", "CAPABILITY_ANALYZING", "EXPANSION_PROPOSING",
    "BACKLOG_GENERATING"}

ProductBudget == {
    T(s, "BUDGET_EXHAUSTED", "TOKEN_BUDGET_EXCEEDED", "deferred") : s \in BudgetSources}

ProductRecovery == {
    T("WAITING_APPROVAL", "APPROVAL_GRANTED", "REQUIREMENT_DRAFTING", "reduced_scope_approval_exists"),
    T("WAITING_APPROVAL", "APPROVAL_DENIED", "CANCELLED", "none"),
    T("WAITING_EXPERT_CONFIRMATION", "EXPERT_ANSWER_UNBLOCKS", "CHECKPOINT", "expert_confirmed_with_checkpoint"),
    T("WAITING_EXPERT_CONFIRMATION", "EXPERT_ANSWER_ADJUSTS_SCOPE", "REQUIREMENT_DRAFTING", "none"),
    T("WAITING_EXPERT_CONFIRMATION", "EXPERT_ANSWER_STOPS", "CANCELLED", "none"),
    T("BLOCKED", "BLOCK_RESOLVED", "CHECKPOINT", "checkpoint_exists"),
    T("FAILED", "RETRY_SCHEDULED", "CHECKPOINT", "can_retry"),
    T("FAILED", "RETRY_EXHAUSTED_SCOPE_DOWN", "REQUIREMENT_DRAFTING", "none"),
    T("FAILED", "RETRY_EXHAUSTED_CONSULT", "WAITING_EXPERT_CONFIRMATION", "none"),
    T("FAILED", "RETRY_EXHAUSTED_STOP", "CANCELLED", "none"),
    T("TOKEN_BUDGET_EXCEEDED", "BUDGET_INCREASE_APPROVED", "CHECKPOINT", "checkpoint_exists"),
    T("TOKEN_BUDGET_EXCEEDED", "BUDGET_INCREASE_DENIED", "REQUIREMENT_DRAFTING", "none"),
    T("TOKEN_BUDGET_EXCEEDED", "BUDGET_DENIED_STOP", "CANCELLED", "none"),
    T("EXPANSION_REJECTED", "SCOPE_REDUCED_RETRY", "BACKLOG_GENERATING", "none"),
    T("EXPANSION_REJECTED", "REJECT_ACCEPTED_STOP", "CANCELLED", "none"),
    T("MCP_CONNECTION_FAILED", "MCP_RETRY_SUCCEEDED", "CHECKPOINT", "checkpoint_exists"),
    T("MCP_CONNECTION_FAILED", "MCP_ALTERNATIVE_SELECTED", "EXPANSION_PROPOSING", "none"),
    T("MCP_CONNECTION_FAILED", "MCP_RETRY_EXHAUSTED", "WAITING_EXPERT_CONFIRMATION", "none"),
    T("AGENT_VALIDATION_FAILED", "CORRECTION_SUCCEEDED", "CHECKPOINT", "checkpoint_exists"),
    T("AGENT_VALIDATION_FAILED", "CORRECTION_EXHAUSTED", "FAILED", "none"),
    T("AUTO_BLOCKED_BY_POLICY", "ALTERNATIVE_ACCEPTED", "DOCUMENT_ANALYZING", "has_planning_input"),
    T("AUTO_BLOCKED_BY_POLICY", "BLOCK_ACKNOWLEDGED_STOP", "CANCELLED", "none")
}

ProductTransitions == ProductMain \cup ProductBudget \cup ProductRecovery

ProductExceptionStates == {
    "WAITING_APPROVAL", "WAITING_EXPERT_CONFIRMATION", "BLOCKED", "FAILED",
    "CANCELLED", "TOKEN_BUDGET_EXCEEDED", "EXPANSION_REJECTED",
    "MCP_CONNECTION_FAILED", "AGENT_VALIDATION_FAILED", "AUTO_BLOCKED_BY_POLICY"}

ProductTerminalStates == {"CANCELLED"}

-----------------------------------------------------------------------------
(* Development machine *)

DevelopmentMain == {
    T("RECEIVED", "TASK_ACCEPTED", "VALIDATING", "deferred"),
    T("VALIDATING", "VALIDATION_PASSED", "CONTEXT_BUILDING", "deferred"),
    T("VALIDATING", "VALIDATION_FAILED", "FAILED", "none"),
    T("VALIDATING", "DEPENDENCY_UNMET", "WAITING_DEPENDENCY", "deferred"),
    T("CONTEXT_BUILDING", "CONTEXT_READY", "SUPERVISING", "deferred"),
    T("CONTEXT_BUILDING", "INFO_MISSING", "WAITING_INFORMATION", "none"),
    T("SUPERVISING", "PLAN_AUTO_APPROVED", "WORKSPACE_CREATING", "policy_decision_auto_approve"),
    T("SUPERVISING", "PLAN_NEEDS_USER", "WAITING_PLAN_APPROVAL", "none"),
    T("SUPERVISING", "PLAN_NEEDS_EXPERT", "WAITING_EXPERT_CONFIRMATION", "none"),
    T("SUPERVISING", "PLAN_BLOCKED", "AUTO_BLOCKED_BY_POLICY", "none"),
    T("SUPERVISING", "AGENT_OUTPUT_INVALID", "AGENT_VALIDATION_FAILED", "deferred"),
    T("WAITING_PLAN_APPROVAL", "PLAN_APPROVED", "WORKSPACE_CREATING", "plan_approval_exists"),
    T("WAITING_PLAN_APPROVAL", "PLAN_REJECTED", "SUPERVISING", "deferred"),
    T("WORKSPACE_CREATING", "WORKSPACE_READY", "IMPLEMENTING", "deferred"),
    T("WORKSPACE_CREATING", "LOCK_CONFLICT", "CONFLICTED", "none"),
    T("IMPLEMENTING", "CODE_COMPLETED", "LOCAL_VALIDATING", "deferred"),
    T("IMPLEMENTING", "BUDGET_EXHAUSTED", "TOKEN_BUDGET_EXCEEDED", "deferred"),
    T("IMPLEMENTING", "AGENT_OUTPUT_INVALID", "AGENT_VALIDATION_FAILED", "deferred"),
    T("IMPLEMENTING", "IMPLEMENT_FAILED", "FAILED", "none"),
    T("LOCAL_VALIDATING", "QUALITY_GATE_PASSED", "COMMITTING", "deferred"),
    T("LOCAL_VALIDATING", "QUALITY_GATE_FAILED", "REPAIRING", "deferred"),
    T("LOCAL_VALIDATING", "REPAIR_LIMIT_EXCEEDED", "WAITING_USER_REVIEW", "none"),
    T("COMMITTING", "PUSHED", "PR_CREATING", "deferred"),
    T("COMMITTING", "BASE_DRIFT_DETECTED", "CONFLICTED", "none"),
    T("PR_CREATING", "PR_CREATED", "CI_RUNNING", "deferred"),
    T("PR_CREATING", "PR_CREATE_FAILED", "FAILED", "none"),
    T("CI_RUNNING", "CI_PASSED", "REVIEWING", "deferred"),
    T("CI_RUNNING", "CI_FAILED", "REPAIRING", "deferred"),
    T("REVIEWING", "REVIEW_APPROVED", "PACKAGING", "deferred"),
    T("REVIEWING", "REVIEW_CHANGES_REQUESTED", "REPAIRING", "deferred"),
    T("REVIEWING", "AGENT_OUTPUT_INVALID", "AGENT_VALIDATION_FAILED", "deferred"),
    T("REPAIRING", "REPAIR_COMPLETED", "LOCAL_VALIDATING", "deferred"),
    T("REPAIRING", "REPAIR_LIMIT_EXCEEDED", "WAITING_USER_REVIEW", "none"),
    T("REPAIRING", "BUDGET_EXHAUSTED", "TOKEN_BUDGET_EXCEEDED", "deferred"),
    T("PACKAGING", "PACKAGE_READY", "WAITING_USER_REVIEW", "deferred"),
    T("PACKAGING", "PACKAGING_FAILED", "REPAIRING", "deferred"),
    T("WAITING_USER_REVIEW", "USER_APPROVED", "READY_FOR_MERGE", "result_approval_exists"),
    T("WAITING_USER_REVIEW", "USER_FEEDBACK", "REPAIRING", "deferred"),
    T("WAITING_USER_REVIEW", "USER_CANCELLED", "CANCELLED", "none"),
    T("READY_FOR_MERGE", "MERGE_COMPLETED", "MERGED", "result_approval_exists"),
    T("READY_FOR_MERGE", "MERGE_CONFLICT", "CONFLICTED", "none"),
    T("MERGED", "DELIVERED_TO_USER", "DELIVERED", "deferred"),
    T("DELIVERED", "MEMORY_UPDATED", "CLEANUP", "deferred"),
    T("CLEANUP", "CLEANUP_COMPLETED", "COMPLETED", "deferred")
}

DevelopmentRecovery == {
    T("WAITING_INFORMATION", "INFO_PROVIDED", "CHECKPOINT", "checkpoint_exists"),
    T("WAITING_DEPENDENCY", "DEPENDENCY_RESOLVED", "CHECKPOINT", "checkpoint_exists"),
    T("WAITING_EXPERT_CONFIRMATION", "EXPERT_ANSWER_UNBLOCKS", "CHECKPOINT", "checkpoint_exists"),
    T("WAITING_EXPERT_CONFIRMATION", "EXPERT_ANSWER_ADJUSTS_SCOPE", "SUPERVISING", "none"),
    T("WAITING_EXPERT_CONFIRMATION", "EXPERT_ANSWER_STOPS", "CANCELLED", "none"),
    T("BLOCKED", "BLOCK_RESOLVED", "CHECKPOINT", "checkpoint_exists"),
    T("CONFLICTED", "REBASE_SUCCEEDED", "LOCAL_VALIDATING", "deferred"),
    T("CONFLICTED", "REBASE_FAILED", "SUPERVISING", "none"),
    T("FAILED", "RETRY_SCHEDULED", "CHECKPOINT", "can_retry"),
    T("FAILED", "RETRY_EXHAUSTED_SCOPE_DOWN", "SUPERVISING", "none"),
    T("FAILED", "RETRY_EXHAUSTED_CONSULT", "WAITING_EXPERT_CONFIRMATION", "none"),
    T("FAILED", "RETRY_EXHAUSTED_STOP", "CANCELLED", "none"),
    T("TOKEN_BUDGET_EXCEEDED", "BUDGET_INCREASE_APPROVED", "CHECKPOINT", "checkpoint_exists"),
    T("TOKEN_BUDGET_EXCEEDED", "BUDGET_INCREASE_DENIED", "SUPERVISING", "none"),
    T("TOKEN_BUDGET_EXCEEDED", "BUDGET_DENIED_STOP", "CANCELLED", "none"),
    T("MCP_CONNECTION_FAILED", "MCP_RETRY_SUCCEEDED", "CHECKPOINT", "checkpoint_exists"),
    T("MCP_CONNECTION_FAILED", "MCP_ALTERNATIVE_SELECTED", "SUPERVISING", "none"),
    T("MCP_CONNECTION_FAILED", "MCP_RETRY_EXHAUSTED", "WAITING_EXPERT_CONFIRMATION", "none"),
    T("AGENT_VALIDATION_FAILED", "CORRECTION_SUCCEEDED", "CHECKPOINT", "checkpoint_exists"),
    T("AGENT_VALIDATION_FAILED", "CORRECTION_EXHAUSTED", "FAILED", "none"),
    T("AUTO_BLOCKED_BY_POLICY", "ALTERNATIVE_ACCEPTED", "SUPERVISING", "none"),
    T("AUTO_BLOCKED_BY_POLICY", "REQUIREMENT_CHANGE_NEEDED", "CANCELLED", "none"),
    T("AUTO_BLOCKED_BY_POLICY", "BLOCK_ACKNOWLEDGED_STOP", "CANCELLED", "none")
}

DevelopmentTransitions == DevelopmentMain \cup DevelopmentRecovery

DevelopmentExceptionStates == {
    "WAITING_INFORMATION", "WAITING_DEPENDENCY", "WAITING_EXPERT_CONFIRMATION",
    "BLOCKED", "CONFLICTED", "FAILED", "CANCELLED", "TOKEN_BUDGET_EXCEEDED",
    "MCP_CONNECTION_FAILED", "AGENT_VALIDATION_FAILED", "AUTO_BLOCKED_BY_POLICY"}

DevelopmentTerminalStates == {"CANCELLED", "COMPLETED"}
=============================================================================
