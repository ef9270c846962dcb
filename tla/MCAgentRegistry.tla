-------------------------- MODULE MCAgentRegistry --------------------------
(***************************************************************************)
(* Instances of AgentRegistry and PolicyOrder for TLC: a harmless agent,   *)
(* definitions that differ from it in one respect each, and proposals that *)
(* differ in the signals, levels and data that rules treat in a way of     *)
(* their own.                                                              *)
(***************************************************************************)
EXTENDS AgentRegistry, PolicyOrder, TLC

Harmless == [
    id |-> "excel-report-agent",  provider |-> "mock",
    filesystem |-> "read_write_scoped",  network |-> "denied",  shell |-> "denied",
    admin |-> FALSE,  accesses_secret |-> FALSE,
    allowed_paths |-> TRUE,  capabilities |-> TRUE,  quality_gates |-> TRUE,
    mcp_dependencies |-> {"jira-mcp"},  max_input |-> 200,  max_output |-> 64,
    lifecycle |-> "project_scoped",  in_project |-> TRUE,  expires_after_project |-> TRUE]

Persistent == [Harmless EXCEPT !.lifecycle = "persistent", !.expires_after_project = FALSE]

Administrator == [Harmless EXCEPT !.admin = TRUE]

\* What the sessions register, valid or not.
MCDefinitions == {Harmless, Persistent, Administrator}

\* What is assessed.
Variants == MCDefinitions \cup {
    [Harmless EXCEPT !.in_project = FALSE],
    [Harmless EXCEPT !.network = "allowlisted"],
    [Harmless EXCEPT !.shell = "allowlisted"],
    [Harmless EXCEPT !.shell = "everything"],
    [Harmless EXCEPT !.accesses_secret = TRUE],
    [Harmless EXCEPT !.allowed_paths = FALSE],
    [Harmless EXCEPT !.quality_gates = FALSE],
    [Harmless EXCEPT !.capabilities = FALSE],
    [Harmless EXCEPT !.provider = "gpt-magic"],
    [Harmless EXCEPT !.mcp_dependencies = {"ghost-mcp"}],
    [Harmless EXCEPT !.max_input = 201],
    [Harmless EXCEPT !.max_output = 65]}

ASSUME VariantsAreJudgedByAccess ==
    \A d \in Variants : d \in DefinitionRecords /\ JudgedByAccess(d)

\* One signal of each kind that some rule names.
ComparedSignals == {
    "accesses_secret", "permission_escalation", "write_access",
    "is_new_external_connection", "in_allowlist", "reuse_existing", "project_scoped"}

Compared == [
    kind    : {"AGENT", "MCP_CONNECTION"},
    signals : SUBSET ComparedSignals,
    risk    : {"LOW", "HIGH"},
    data    : {"PUBLIC", "CONFIDENTIAL"}]

ASSUME ComparedAreJudgedMonotonely == \A p, q \in Compared : JudgedMonotonely(p, q)

MCRowIds == 1..3

SessionSymmetry == Permutations(Sessions)
=============================================================================
