---------------------------- MODULE AgentRegistry ----------------------------
(***************************************************************************)
(* Agents of a project (app/agents/): a definition is validated and judged *)
(* by the policy engine (assess), and registered as a row of               *)
(* agent_definitions (register); at the end of the project its agents      *)
(* expire.  Nothing calls the factory yet.  Register does not look at the  *)
(* assessment, and the project it is given is not the scope that the       *)
(* definition names: here a session registers any definition for any       *)
(* project, and commits.                                                   *)
(*                                                                         *)
(* Sessions run side by side.  The database refuses a second row of one    *)
(* agent and project, unless the project is NULL, and an update writes the *)
(* columns that differ from the row that the session loaded.               *)
(***************************************************************************)
EXTENDS FiniteSets, PolicyEngine

CONSTANTS
    Sessions,
    Definitions,      \* the agent definitions that are proposed
    Projects,
    NoProject,        \* project_id NULL: an agent of the whole organisation
    KnownServers,     \* ids of the MCP registry
    RowIds,           \* bound on the rows of agent_definitions
    NoDefinition

FilesystemLevels == {"denied", "read_only", "read_write_scoped"}
AccessLevels == {"denied", "allowlisted"}         \* of network and shell
ModelProviders == {"mock", "claude-code", "codex"}

\* What the schema lets pass; paths, capabilities and gates: some are named.
\* Token budgets count in thousands.
DefinitionRecords == [
    id : STRING,                     provider : STRING,
    filesystem : STRING,             network : STRING,        shell : STRING,
    admin : BOOLEAN,                 accesses_secret : BOOLEAN,
    allowed_paths : BOOLEAN,         capabilities : BOOLEAN,  quality_gates : BOOLEAN,
    mcp_dependencies : SUBSET STRING,
    max_input : Nat,                 max_output : Nat,
    lifecycle : {"project_scoped", "task_scoped", "persistent"},
    in_project : BOOLEAN,            expires_after_project : BOOLEAN]

ASSUME DefinitionAssumption == \A d \in Definitions : d \in DefinitionRecords

ASSUME ProjectAssumption == NoProject \notin Projects

VARIABLES
    table,       \* id -> committed row of agent_definitions
    call,        \* session -> what it is asked for
    session      \* session -> how far it is, what it loaded and wrote

vars == <<table, call, session>>

NoRows == [id \in {} |-> {}]

NoCall == [kind |-> "none", definition |-> NoDefinition, project |-> NoProject]

Closed == [at |-> "closed", loaded |-> NoRows, writes |-> NoRows]

Init ==
    /\ table = NoRows
    /\ call = [s \in Sessions |-> NoCall]
    /\ session = [s \in Sessions |-> Closed]

-----------------------------------------------------------------------------
(* Validation and judgment                                                 *)

Writes(d) == d.filesystem = "read_write_scoped"

PermissionsValid(d) ==
    /\ ~d.admin /\ ~d.accesses_secret
    /\ d.filesystem \in FilesystemLevels
    /\ d.network \in AccessLevels /\ d.shell \in AccessLevels
    /\ Writes(d) => d.allowed_paths

ModelValid(d) == d.provider \in ModelProviders

DependenciesValid(d) == d.mcp_dependencies \subseteq KnownServers

BudgetValid(d) == d.max_input <= 200 /\ d.max_output <= 64

SandboxPasses(d) == d.capabilities /\ (Writes(d) => d.quality_gates)

\* run_validation_chain
Valid(d) ==
    /\ PermissionsValid(d) /\ ModelValid(d) /\ DependenciesValid(d)
    /\ BudgetValid(d) /\ SandboxPasses(d)

\* derive_proposal; what it does not set has the default of the schema.
Derived(d) == [
    kind |-> "AGENT", risk |-> "LOW", data |-> "INTERNAL",
    signals |-> {s \in Signals :
        \/ s = "in_allowlist"
        \/ s = "project_scoped" /\ d.in_project /\ d.lifecycle \in {"project_scoped", "task_scoped"}
        \/ s = "accesses_secret" /\ d.accesses_secret
        \/ s = "admin_privilege" /\ d.admin
        \/ s = "permission_escalation" /\ (d.network # "denied" \/ d.shell # "denied")
        \/ s = "org_wide_registration" /\ d.lifecycle = "persistent"}]

\* assess: what is not valid is not judged.
Assessed(d) == IF Valid(d) THEN Decide(Derived(d)) ELSE "AGENT_VALIDATION_FAILED"

-----------------------------------------------------------------------------
(* The registry                                                            *)

RowsOf(project) == {id \in DOMAIN table : table[id].project = project}

\* Rows of other sessions that are not committed.
Locked(s) == UNION {DOMAIN session[o].writes : o \in Sessions \ {s}}

Loads(s, ids) ==
    /\ session[s].at = "closed"
    /\ session' = [session EXCEPT ![s] =
           [at |-> "write", loaded |-> [id \in ids |-> table[id]], writes |-> NoRows]]
    /\ UNCHANGED table

\* get of register, which fails if there are two such rows.
Register(s, d, project) ==
    LET found == {id \in RowsOf(project) : table[id].agent_id = d.id}
    IN  /\ Cardinality(found) <= 1
        /\ Loads(s, found)
        /\ call' = [call EXCEPT ![s] =
               [kind |-> "register", definition |-> d, project |-> project]]

\* expire_for_project lists the rows.
Expire(s, project) ==
    /\ Loads(s, RowsOf(project))
    /\ call' = [call EXCEPT ![s] =
           [kind |-> "expire", definition |-> NoDefinition, project |-> project]]

\* The row of a definition; the tests register agents as ACTIVE.
RowFor(d, project) == [
    agent_id |-> d.id,  project |-> project,  status |-> "ACTIVE",  definition |-> d,
    lifecycle_type |-> d.lifecycle,  expires_after_project |-> d.expires_after_project]

\* An update writes every column, as a statement of one's own would.
ChangedOrNot(row, before) == [c \in DOMAIN row |-> row[c]]

\* The columns of an update.
Changed(row, before) ==
    LET columns == {c \in DOMAIN row : row[c] # before[c]}
    IN  [c \in columns |-> row[c]]

\* A session writes these rows; each is locked until it ends.
Flushes(s, changes) ==
    /\ DOMAIN changes \cap Locked(s) = {}
    /\ session' = [session EXCEPT ![s].at = "commit", ![s].writes = changes]
    /\ UNCHANGED <<table, call>>

Ends(s) ==
    /\ call' = [call EXCEPT ![s] = NoCall]
    /\ session' = [session EXCEPT ![s] = Closed]

Update(s) ==
    LET row == RowFor(call[s].definition, call[s].project)
        loaded == session[s].loaded
    IN  /\ session[s].at = "write" /\ call[s].kind = "register" /\ loaded # NoRows
        /\ Flushes(s, [id \in {n \in DOMAIN loaded : row # loaded[n]} |-> Changed(row, loaded[id])])

SameScope(row, d, project) == row.agent_id = d.id /\ row.project = project

\* Nothing makes agent and project unique.
TakenNever(rows, d, project) == FALSE

\* These rows, committed or inserted by another session, take the unique key of
\* the agent and the project; NULL is not equal to NULL.
TakenBy(rows, d, project) ==
    \E id \in DOMAIN rows :
        project # NoProject /\ "agent_id" \in DOMAIN rows[id] /\ SameScope(rows[id], d, project)

\* The new row has to wait for the session that may take its unique key, and is
\* refused if that one commits.
Insert(s) ==
    LET d == call[s].definition
        project == call[s].project
    IN  /\ session[s].at = "write" /\ call[s].kind = "register" /\ session[s].loaded = NoRows
        /\ \A o \in Sessions \ {s} : ~TakenBy(session[o].writes, d, project)
        /\ \/ TakenBy(table, d, project) /\ Ends(s) /\ UNCHANGED table
           \/ /\ ~TakenBy(table, d, project)
              /\ \E id \in RowIds \ (DOMAIN table \cup Locked(s)) :
                    Flushes(s, [n \in {id} |-> RowFor(d, project)])

\* Each listed agent that ends with its project and has not expired expires.
WriteExpiry(s) ==
    LET loaded == session[s].loaded
        ending == {id \in DOMAIN loaded :
                      loaded[id].expires_after_project /\ loaded[id].status # "EXPIRED"}
    IN  /\ session[s].at = "write" /\ call[s].kind = "expire"
        /\ Flushes(s, [id \in ending |-> [status |-> "EXPIRED"]])

\* The columns written are all that is left of the row.
MergedBare(changes) ==
    [id \in DOMAIN table \cup DOMAIN changes |->
        IF id \in DOMAIN changes THEN changes[id] ELSE table[id]]

\* The row with these columns written over it.
Overwritten(row, columns) ==
    [c \in DOMAIN row |-> IF c \in DOMAIN columns THEN columns[c] ELSE row[c]]

\* The columns written replace those of the committed row; a new row is whole.
Merged(changes) ==
    [id \in DOMAIN table \cup DOMAIN changes |->
        IF id \notin DOMAIN changes THEN table[id]
        ELSE IF id \notin DOMAIN table THEN changes[id]
        ELSE Overwritten(table[id], changes[id])]

Commit(s) ==
    /\ session[s].at = "commit"
    /\ table' = Merged(session[s].writes)
    /\ Ends(s)

RollBack(s) == session[s].at # "closed" /\ Ends(s) /\ UNCHANGED table

Next ==
    \E s \in Sessions :
        \/ \E d \in Definitions, project \in Projects \cup {NoProject} : Register(s, d, project)
        \/ \E project \in Projects : Expire(s, project)
        \/ Update(s) \/ Insert(s) \/ WriteExpiry(s) \/ Commit(s) \/ RollBack(s)

Spec == Init /\ [][Next]_vars

-----------------------------------------------------------------------------
(* Properties                                                              *)

Rows == [
    agent_id : {d.id : d \in Definitions},    project : Projects \cup {NoProject},
    status : {"ACTIVE", "EXPIRED"},           definition : Definitions,
    lifecycle_type : {d.lifecycle : d \in Definitions},
    expires_after_project : BOOLEAN]

\* Committed rows are whole, whichever columns the last sessions wrote.
TypeOK == \A id \in DOMAIN table : id \in RowIds /\ table[id] \in Rows

\* An agent that expired with its project comes back only by a registration that
\* had seen it expired, never by one that read it before and writes after: the
\* status that such a registration sets is the one it loaded, so that its update
\* leaves the column alone (registry.py).
ExpiryIsNotUndone ==
    [][ \A id \in DOMAIN table :
          table[id].status = "EXPIRED" /\ table'[id].status = "ACTIVE" =>
              \E s \in Sessions :
                  /\ session[s].at = "commit" /\ session'[s] = Closed
                  /\ id \in DOMAIN session[s].loaded
                  /\ session[s].loaded[id].status = "EXPIRED"
      ]_vars

\* Validation and policy leave no gap: what the validators let pass
\* (validators.py) is nothing that policy blocks (engine.py), and nobody is asked
\* exactly about the valid definitions without network, shell and a life beyond
\* their project.  Whether a definition names a project plays no part: the rule
\* of read-only tools applies to every agent that asks for nothing more.
JudgedByAccess(d) ==
    /\ Valid(d) => Assessed(d) # "AUTO_BLOCKED"
    /\ Assessed(d) = "AUTO_APPROVE" <=>
          Valid(d) /\ d.network = "denied" /\ d.shell = "denied" /\ d.lifecycle # "persistent"

\* However many sessions register an agent of a project for the first time, it
\* has one row: with two of them get raises, and the agent could never be
\* registered again (registry.py).  Agents without a project have no such
\* protection.
LookupFindsOne ==
    \A i, j \in DOMAIN table :
        table[i].project # NoProject /\ SameScope(table[i], table[j].definition, table[j].project)
            => i = j
=============================================================================
