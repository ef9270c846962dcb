------------------------- MODULE AgentRegistryProofs -------------------------
(***************************************************************************)
(* The validators and the policy engine fit together for every definition, *)
(* not only for those that TLC looks at; and sessions that register and    *)
(* expire agents side by side leave one whole row for each agent of a      *)
(* project, which they do not bring back once it has expired.              *)
(***************************************************************************)
EXTENDS AgentRegistry, TLAPS

\* Calls name definitions and projects, or none.
CallsOK ==
    /\ call \in [Sessions ->
           [kind : {"none", "register", "expire"},
            definition : Definitions \cup {NoDefinition},
            project : Projects \cup {NoProject}]]
    /\ \A s \in Sessions :
          call[s].kind = "register" => call[s].definition \in Definitions

\* The signals of a valid definition: none that blocks, and those that ask for a
\* developer say what the definition asks for.
LEMMA DerivedSignals ==
    ASSUME NEW d \in DefinitionRecords, Valid(d)
    PROVE  /\ Derived(d).signals \cap BlockingSignals = {}
           /\ "is_new_external_connection" \notin Derived(d).signals
           /\ "write_access" \notin Derived(d).signals
           /\ "in_allowlist" \in Derived(d).signals
           /\ Derived(d).signals \cap ExpertSignals # {} <=>
                 d.network # "denied" \/ d.shell # "denied" \/ d.lifecycle = "persistent"
  <1>1. \A s \in Derived(d).signals :
            s \in {"in_allowlist", "project_scoped", "permission_escalation", "org_wide_registration"}
    BY DEF Derived, Valid, PermissionsValid
  <1>2. /\ "in_allowlist" \in Derived(d).signals
        /\ "permission_escalation" \in Derived(d).signals <=>
              d.network # "denied" \/ d.shell # "denied"
        /\ "org_wide_registration" \in Derived(d).signals <=> d.lifecycle = "persistent"
    BY DEF Derived, BlockingSignals, ExpertSignals, OtherSignals, Signals
  <1> QED
    BY <1>1, <1>2 DEF BlockingSignals, ExpertSignals

\* For every definition, whatever it asks for: assess (factory.py) blocks none
\* that the validators let pass, and approves automatically exactly the valid ones
\* that ask for neither network nor shell nor a life beyond their project.
THEOREM AgentsAreJudgedByAccess == ASSUME NEW d \in DefinitionRecords PROVE JudgedByAccess(d)
  <1>1. CASE ~Valid(d)
    BY <1>1 DEF JudgedByAccess, Assessed
  <1>2. CASE Valid(d)
    <2> DEFINE p == Derived(d)
    <2>1. p.risk = "LOW" /\ p.data = "INTERNAL"
      BY DEF Derived
    <2>2. ~Blocks(p)
      BY <1>2, <2>1, DerivedSignals DEF Blocks, NewAndUnlisted
    <2>3. NeedsExpert(p) <=> d.network # "denied" \/ d.shell # "denied" \/ d.lifecycle = "persistent"
      BY <1>2, DerivedSignals DEF NeedsExpert, NewAndUnlisted
    <2>4. ~NeedsUser(p)
      BY <1>2, DerivedSignals DEF NeedsUser
    <2>5. AutoApproves(p)
      BY <1>2, <2>1, DerivedSignals DEF AutoApproves, HarmlessTool
    <2> HIDE DEF p
    <2>6. /\ Decide(p) # "AUTO_BLOCKED"
          /\ Decide(p) = "AUTO_APPROVE" <=> ~NeedsExpert(p)
      BY <2>2, <2>4, <2>5 DEF Decide
    <2> QED
      BY <1>2, <2>3, <2>6 DEF JudgedByAccess, Assessed, p
  <1> QED
    BY <1>1, <1>2

(***************************************************************************)
(* One row for each agent of a project                                     *)
(***************************************************************************)

Loaded(s) == session[s].loaded

Written(s) == session[s].writes

\* A row of the table, kept with the definition of its own agent.
IsRow(r) == r \in Rows /\ r.definition.id = r.agent_id

SameKey(r, q) == r.agent_id = q.agent_id /\ r.project = q.project

\* Columns that may be written over a row: none of its key.
IsChange(c, r) ==
    /\ DOMAIN c \subseteq {"status", "definition", "lifecycle_type", "expires_after_project"}
    /\ "status" \in DOMAIN c => c["status"] \in {"ACTIVE", "EXPIRED"}
    /\ "definition" \in DOMAIN c =>
          c["definition"] \in Definitions /\ c["definition"].id = r.agent_id
    /\ "lifecycle_type" \in DOMAIN c => c["lifecycle_type"] \in {d.lifecycle : d \in Definitions}
    /\ "expires_after_project" \in DOMAIN c => c["expires_after_project"] \in BOOLEAN

SessionsOK ==
    /\ session = [s \in Sessions |-> session[s]]
    /\ \A s \in Sessions :
          /\ DOMAIN session[s] = {"at", "loaded", "writes"}
          /\ session[s].at # "commit" => DOMAIN Written(s) = {}

\* What a session loaded has the keys of the committed rows, and a registration
\* loads rows of its own agent.
LoadsOK ==
    \A s \in Sessions : \A id \in DOMAIN Loaded(s) :
        /\ id \in DOMAIN table
        /\ IsRow(Loaded(s)[id]) /\ SameKey(Loaded(s)[id], table[id])
        /\ call[s].kind = "register" =>
              Loaded(s)[id].agent_id = call[s].definition.id /\ Loaded(s)[id].project = call[s].project

\* No two sessions write one row.
WritesOK ==
    \A s \in Sessions : \A id \in DOMAIN Written(s) :
        /\ id \in DOMAIN table => IsChange(Written(s)[id], table[id])
        /\ id \notin DOMAIN table => id \in RowIds /\ IsRow(Written(s)[id])
        /\ \A o \in Sessions \ {s} : id \notin DOMAIN Written(o)

TableOK == \A id \in DOMAIN table : id \in RowIds /\ IsRow(table[id])

\* Keys of committed rows, and of rows about to be committed.
KeysUnique ==
    /\ \A i, j \in DOMAIN table :
          table[i].project # NoProject /\ SameKey(table[i], table[j]) => i = j
    /\ \A s \in Sessions : \A i \in DOMAIN Written(s) \ DOMAIN table :
          Written(s)[i].project # NoProject =>
              /\ \A j \in DOMAIN table : ~SameKey(Written(s)[i], table[j])
              /\ \A o \in Sessions : \A j \in DOMAIN Written(o) \ DOMAIN table :
                    SameKey(Written(s)[i], Written(o)[j]) => i = j

RInv == CallsOK /\ SessionsOK /\ LoadsOK /\ WritesOK /\ TableOK /\ KeysUnique

LEMMA InitRows == Init => RInv
  BY DEF Init, NoRows, NoCall, Closed, RInv, CallsOK, SessionsOK, LoadsOK, WritesOK, TableOK,
      KeysUnique, Loaded, Written

\* Columns written over a row make a row with the same key.
LEMMA ChangeMakesRow ==
    ASSUME NEW r, IsRow(r), NEW c, IsChange(c, r)
    PROVE  IsRow(Overwritten(r, c)) /\ SameKey(Overwritten(r, c), r)
  <1> DEFINE m == Overwritten(r, c)
  <1>1. /\ DOMAIN r = {"agent_id", "project", "status", "definition", "lifecycle_type",
                       "expires_after_project"}
        /\ r \in Rows
    BY DEF IsRow, Rows
  <1>2. m = [x \in DOMAIN r |-> IF x \in DOMAIN c THEN c[x] ELSE r[x]]
    BY DEF Overwritten
  <1>3. m["agent_id"] = r["agent_id"] /\ m["project"] = r["project"]
    BY <1>1, <1>2 DEF IsChange
  <1>4. /\ m["status"] \in {"ACTIVE", "EXPIRED"}
        /\ m["lifecycle_type"] \in {d.lifecycle : d \in Definitions}
        /\ m["expires_after_project"] \in BOOLEAN
    BY <1>1, <1>2 DEF IsChange, Rows
  <1>5. m["definition"] \in Definitions /\ m["definition"].id = r["agent_id"]
    BY <1>1, <1>2 DEF IsChange, Rows, IsRow
  <1>6. m \in Rows
    BY <1>1, <1>2, <1>3, <1>4, <1>5 DEF Rows
  <1> HIDE DEF m
  <1>7. IsRow(m) /\ SameKey(m, r)
    BY <1>3, <1>5, <1>6 DEF IsRow, SameKey
  <1> QED
    BY <1>7 DEF m

LEMMA NewRowIsRow ==
    ASSUME NEW d \in Definitions, NEW project \in Projects \cup {NoProject}
    PROVE  /\ IsRow(RowFor(d, project))
           /\ RowFor(d, project).agent_id = d.id /\ RowFor(d, project).project = project
  BY DefinitionAssumption DEF RowFor, IsRow, Rows, DefinitionRecords

\* An update of a row writes none of its key.
LEMMA UpdateIsChange ==
    ASSUME NEW d \in Definitions, NEW project \in Projects \cup {NoProject},
           NEW before, before.agent_id = d.id, before.project = project,
           NEW r, SameKey(before, r)
    PROVE  IsChange(Changed(RowFor(d, project), before), r)
  <1> DEFINE row == RowFor(d, project)
             c == Changed(row, before)
  <1>1. DOMAIN row = {"agent_id", "project", "status", "definition", "lifecycle_type",
                      "expires_after_project"}
    BY DEF RowFor
  <1>2. row["agent_id"] = before["agent_id"] /\ row["project"] = before["project"]
    BY DEF RowFor
  <1>3. /\ DOMAIN c \subseteq {"status", "definition", "lifecycle_type", "expires_after_project"}
        /\ \A x \in DOMAIN c : c[x] = row[x]
    BY <1>1, <1>2 DEF Changed
  <1>4. /\ row["status"] = "ACTIVE"            /\ row["definition"] = d
        /\ row["lifecycle_type"] = d.lifecycle
        /\ row["expires_after_project"] = d.expires_after_project
    BY DEF RowFor
  <1>5. d.expires_after_project \in BOOLEAN
    BY DefinitionAssumption DEF DefinitionRecords
  <1>6. d.id = r.agent_id
    BY DEF SameKey
  <1> HIDE DEF row, c
  <1>7. IsChange(c, r)
    BY <1>3, <1>4, <1>5, <1>6 DEF IsChange
  <1> QED
    BY <1>7 DEF c, row

\* Only one session's record changes, and stays a record.
Acts(s) ==
    /\ session' = [o \in Sessions |-> session'[o]]
    /\ DOMAIN session'[s] = {"at", "loaded", "writes"}
    /\ \A o \in Sessions \ {s} : session'[o] = session[o]

\* A session that loads rows, or ends.
LEMMA LoadingKeepsRows ==
    ASSUME RInv, CallsOK', NEW s \in Sessions, Acts(s), table' = table,
           session'[s].at # "commit", DOMAIN session'[s].writes = {},
           \A o \in Sessions \ {s} : call'[o] = call[o],
           \A id \in DOMAIN session'[s].loaded :
              /\ id \in DOMAIN table /\ session'[s].loaded[id] = table[id]
              /\ call'[s].kind = "register" =>
                    /\ session'[s].loaded[id].agent_id = call'[s].definition.id
                    /\ session'[s].loaded[id].project = call'[s].project
    PROVE  RInv'
  <1> DEFINE loaded == session'[s].loaded
  <1>1. /\ Loaded(s)' = loaded /\ DOMAIN Written(s)' = {}
        /\ \A o \in Sessions \ {s} : Loaded(o)' = Loaded(o) /\ Written(o)' = Written(o)
    BY DEF Acts, Loaded, Written
  <1>2. SessionsOK'
    BY <1>1 DEF RInv, SessionsOK, Acts
  <1>3. LoadsOK'
    <2>1. ASSUME NEW id \in DOMAIN loaded PROVE IsRow(loaded[id]) /\ SameKey(loaded[id], table[id])
      BY DEF RInv, TableOK, SameKey
    <2> QED
      BY <1>1, <2>1 DEF RInv, LoadsOK
  <1>4. WritesOK' /\ TableOK'
    BY <1>1 DEF RInv, WritesOK, TableOK
  <1>5. KeysUnique'
    BY <1>1 DEF RInv, KeysUnique
  <1> QED
    BY <1>2, <1>3, <1>4, <1>5 DEF RInv

\* The record of a session is replaced by another one.
LEMMA ReplacingActs ==
    ASSUME RInv, NEW s \in Sessions, NEW record, DOMAIN record = {"at", "loaded", "writes"},
           session' = [session EXCEPT ![s] = record]
    PROVE  Acts(s) /\ session'[s] = record
  BY DEF RInv, SessionsOK, Acts

LEMMA EndingKeepsRows ==
    ASSUME RInv, NEW s \in Sessions, Ends(s), table' = table
    PROVE  RInv'
  <1>1. CallsOK' /\ \A o \in Sessions \ {s} : call'[o] = call[o]
    BY DEF RInv, CallsOK, Ends, NoCall
  <1>2. DOMAIN Closed = {"at", "loaded", "writes"}
    BY DEF Closed
  <1>3. Acts(s) /\ session'[s] = Closed
    BY <1>2, ReplacingActs DEF Ends
  <1>4. DOMAIN NoRows = {}
    BY DEF NoRows
  <1> QED
    BY <1>1, <1>3, <1>4, LoadingKeepsRows DEF Closed

\* What Loads does to the record of its session.
LEMMA LoadsActs ==
    ASSUME RInv, NEW s \in Sessions, NEW ids, Loads(s, ids)
    PROVE  /\ Acts(s) /\ table' = table
           /\ session'[s].at # "commit" /\ DOMAIN session'[s].writes = {}
           /\ session'[s].loaded = [id \in ids |-> table[id]]
  <1> DEFINE record == [at |-> "write", loaded |-> [id \in ids |-> table[id]], writes |-> NoRows]
  <1>1. session' = [session EXCEPT ![s] = record] /\ table' = table
    BY DEF Loads
  <1>2. /\ DOMAIN record = {"at", "loaded", "writes"} /\ record.at = "write"
        /\ record.loaded = [id \in ids |-> table[id]] /\ DOMAIN record.writes = {}
    BY DEF NoRows
  <1> HIDE DEF record
  <1>3. Acts(s) /\ session'[s] = record
    BY <1>1, <1>2, ReplacingActs
  <1> QED
    BY <1>1, <1>2, <1>3

LEMMA RegisterKeepsRows ==
    ASSUME RInv, NEW s \in Sessions, NEW d \in Definitions, NEW project \in Projects \cup {NoProject},
           Register(s, d, project)
    PROVE  RInv'
  <1> DEFINE found == {id \in RowsOf(project) : table[id].agent_id = d.id}
  <1>1. /\ Loads(s, found)
        /\ call' = [call EXCEPT ![s] = [kind |-> "register", definition |-> d, project |-> project]]
    BY DEF Register
  <1>2. CallsOK'
    BY <1>1 DEF RInv, CallsOK
  <1>3. /\ call'[s].definition = d /\ call'[s].project = project
        /\ \A o \in Sessions \ {s} : call'[o] = call[o]
    BY <1>1 DEF RInv, CallsOK
  <1>4. /\ Acts(s) /\ table' = table
        /\ session'[s].at # "commit" /\ DOMAIN session'[s].writes = {}
        /\ session'[s].loaded = [id \in found |-> table[id]]
    BY <1>1, LoadsActs
  <1>5. \A id \in found : id \in DOMAIN table /\ table[id].agent_id = d.id /\ table[id].project = project
    BY DEF RowsOf
  <1> HIDE DEF found
  <1>6. \A id \in DOMAIN session'[s].loaded :
            /\ id \in DOMAIN table /\ session'[s].loaded[id] = table[id]
            /\ session'[s].loaded[id].agent_id = d.id /\ session'[s].loaded[id].project = project
    BY <1>4, <1>5
  <1> QED
    BY <1>2, <1>3, <1>4, <1>6, LoadingKeepsRows

LEMMA ExpireKeepsRows ==
    ASSUME RInv, NEW s \in Sessions, NEW project \in Projects, Expire(s, project)
    PROVE  RInv'
  <1>1. /\ Loads(s, RowsOf(project))
        /\ call' = [call EXCEPT ![s] =
               [kind |-> "expire", definition |-> NoDefinition, project |-> project]]
    BY DEF Expire
  <1>2. CallsOK' /\ call'[s].kind # "register" /\ \A o \in Sessions \ {s} : call'[o] = call[o]
    BY <1>1 DEF RInv, CallsOK
  <1>3. /\ Acts(s) /\ table' = table
        /\ session'[s].at # "commit" /\ DOMAIN session'[s].writes = {}
        /\ session'[s].loaded = [id \in RowsOf(project) |-> table[id]]
    BY <1>1, LoadsActs
  <1>4. RowsOf(project) \subseteq DOMAIN table
    BY DEF RowsOf
  <1>5. \A id \in DOMAIN session'[s].loaded : id \in DOMAIN table /\ session'[s].loaded[id] = table[id]
    BY <1>3, <1>4
  <1> QED
    BY <1>2, <1>3, <1>5, LoadingKeepsRows

\* A session that writes rows nobody else writes: over rows of the table, or
\* new ones whose keys are free.
LEMMA FlushingKeepsRows ==
    ASSUME RInv, NEW s \in Sessions, NEW changes, Flushes(s, changes), session[s].at = "write",
           \A id \in DOMAIN changes :
              /\ id \in DOMAIN table => IsChange(changes[id], table[id])
              /\ id \notin DOMAIN table =>
                    /\ id \in RowIds /\ IsRow(changes[id])
                    /\ \A j \in DOMAIN changes \ DOMAIN table : j = id
                    /\ changes[id].project # NoProject =>
                          /\ \A j \in DOMAIN table : ~SameKey(changes[id], table[j])
                          /\ \A o \in Sessions \ {s} : \A j \in DOMAIN Written(o) \ DOMAIN table :
                                ~SameKey(changes[id], Written(o)[j])
    PROVE  RInv'
  <1>1. /\ DOMAIN changes \cap Locked(s) = {} /\ table' = table /\ call' = call
        /\ session' = [session EXCEPT ![s].at = "commit", ![s].writes = changes]
    BY DEF Flushes
  <1>2. session' = [session EXCEPT ![s] = [session[s] EXCEPT !.at = "commit", !.writes = changes]]
    BY <1>1 DEF RInv, SessionsOK
  <1>3. /\ Acts(s) /\ session'[s].at = "commit" /\ session'[s].writes = changes
        /\ session'[s].loaded = session[s].loaded
    <2> DEFINE record == [session[s] EXCEPT !.at = "commit", !.writes = changes]
    <2>1. /\ DOMAIN record = {"at", "loaded", "writes"} /\ record.at = "commit"
          /\ record.writes = changes /\ record.loaded = session[s].loaded
      BY DEF RInv, SessionsOK
    <2> HIDE DEF record
    <2>2. Acts(s) /\ session'[s] = record
      BY <1>2, <2>1, ReplacingActs DEF record
    <2> QED
      BY <2>1, <2>2
  <1>4. /\ Loaded(s)' = Loaded(s) /\ Written(s)' = changes
        /\ \A o \in Sessions \ {s} : Loaded(o)' = Loaded(o) /\ Written(o)' = Written(o)
    BY <1>3 DEF Acts, Loaded, Written
  <1>5. \A o \in Sessions \ {s} : DOMAIN changes \cap DOMAIN Written(o) = {}
    BY <1>1 DEF Locked, Written
  <1>6. CallsOK'
    BY <1>1 DEF RInv, CallsOK
  <1>7. SessionsOK'
    BY <1>3, <1>4 DEF RInv, SessionsOK, Acts
  <1>8. LoadsOK'
    BY <1>1, <1>4 DEF RInv, LoadsOK
  <1>9. WritesOK' /\ TableOK'
    BY <1>1, <1>4, <1>5 DEF RInv, WritesOK, TableOK
  <1>10. KeysUnique'
    <2> SUFFICES ASSUME NEW r \in Sessions, NEW i \in DOMAIN Written(r)' \ DOMAIN table,
                        Written(r)'[i].project # NoProject
                 PROVE  /\ \A j \in DOMAIN table : ~SameKey(Written(r)'[i], table[j])
                        /\ \A o \in Sessions : \A j \in DOMAIN Written(o)' \ DOMAIN table :
                              SameKey(Written(r)'[i], Written(o)'[j]) => i = j
      BY <1>1 DEF RInv, KeysUnique
    <2>1. CASE r = s
      BY <1>4, <2>1
    <2>2. CASE r # s
      <3>1. /\ Written(r)' = Written(r)
            /\ \A j \in DOMAIN table : ~SameKey(Written(r)[i], table[j])
            /\ \A o \in Sessions : \A j \in DOMAIN Written(o) \ DOMAIN table :
                  SameKey(Written(r)[i], Written(o)[j]) => i = j
        BY <1>4, <2>2 DEF RInv, KeysUnique
      <3>2. ASSUME NEW j \in DOMAIN changes \ DOMAIN table
            PROVE  ~SameKey(Written(r)[i], changes[j])
        <4>1. SameKey(Written(r)[i], changes[j]) => SameKey(changes[j], Written(r)[i])
          BY DEF SameKey
        <4>2. SameKey(Written(r)[i], changes[j]) => changes[j].project # NoProject
          BY <3>1 DEF SameKey
        <4> QED
          BY <2>2, <3>1, <4>1, <4>2
      <3> QED
        BY <1>4, <3>1, <3>2
    <2> QED
      BY <2>1, <2>2
  <1> QED
    BY <1>6, <1>7, <1>8, <1>9, <1>10 DEF RInv
LEMMA UpdateKeepsRows ==
    ASSUME RInv, NEW s \in Sessions, Update(s)
    PROVE  RInv'
  <1> DEFINE d == call[s].definition
             project == call[s].project
             loaded == Loaded(s)
             changes == [id \in {n \in DOMAIN loaded : RowFor(d, project) # loaded[n]} |->
                            Changed(RowFor(d, project), loaded[id])]
  <1>1. session[s].at = "write" /\ call[s].kind = "register" /\ Flushes(s, changes)
    BY DEF Update, Loaded
  <1>2. d \in Definitions /\ project \in Projects \cup {NoProject}
    BY <1>1 DEF RInv, CallsOK
  <1>3. ASSUME NEW id \in DOMAIN changes
        PROVE  id \in DOMAIN table /\ IsChange(changes[id], table[id])
    <2>1. /\ id \in DOMAIN table /\ SameKey(loaded[id], table[id])
          /\ loaded[id].agent_id = d.id /\ loaded[id].project = project
      BY <1>1 DEF RInv, LoadsOK
    <2>2. changes[id] = Changed(RowFor(d, project), loaded[id])
      OBVIOUS
    <2> HIDE DEF d, project, loaded, changes
    <2>3. IsChange(Changed(RowFor(d, project), loaded[id]), table[id])
      BY <1>2, <2>1, UpdateIsChange
    <2> QED
      BY <2>1, <2>2, <2>3
  <1> HIDE DEF changes
  <1> QED
    BY <1>1, <1>3, FlushingKeepsRows

LEMMA InsertKeepsRows ==
    ASSUME RInv, NEW s \in Sessions, Insert(s)
    PROVE  RInv'
  <1> DEFINE d == call[s].definition
             project == call[s].project
             row == RowFor(d, project)
  <1>1. /\ session[s].at = "write" /\ call[s].kind = "register"
        /\ \A o \in Sessions \ {s} : ~TakenBy(Written(o), d, project)
    BY DEF Insert, Written
  <1>2. d \in Definitions /\ project \in Projects \cup {NoProject}
    BY <1>1 DEF RInv, CallsOK
  <1>3. IsRow(row) /\ row.agent_id = d.id /\ row.project = project
    BY <1>2, NewRowIsRow
  <1>4. \A r : IsRow(r) => "agent_id" \in DOMAIN r
    BY DEF IsRow, Rows
  <1>5. CASE TakenBy(table, d, project) /\ Ends(s) /\ UNCHANGED table
    BY <1>5, EndingKeepsRows
  <1>6. ASSUME ~TakenBy(table, d, project), NEW new \in RowIds \ (DOMAIN table \cup Locked(s)),
               Flushes(s, [n \in {new} |-> row])
        PROVE  RInv'
    <2> DEFINE changes == [n \in {new} |-> row]
    <2>1. DOMAIN changes = {new} /\ changes[new] = row
      OBVIOUS
    <2>2. ASSUME project # NoProject, NEW j \in DOMAIN table PROVE ~SameKey(row, table[j])
      BY <1>3, <1>4, <1>6, <2>2 DEF TakenBy, SameScope, SameKey, RInv, TableOK
    <2>3. ASSUME project # NoProject, NEW o \in Sessions \ {s}, NEW j \in DOMAIN Written(o) \ DOMAIN table
          PROVE  ~SameKey(row, Written(o)[j])
      <3>1. "agent_id" \in DOMAIN Written(o)[j]
        BY <1>4 DEF RInv, WritesOK
      <3>2. ~SameScope(Written(o)[j], d, project)
        BY <1>1, <2>3, <3>1 DEF TakenBy
      <3> QED
        BY <1>3, <3>2 DEF SameScope, SameKey
    <2>4. Flushes(s, changes) /\ new \in RowIds /\ new \notin DOMAIN table
      BY <1>6
    <2> HIDE DEF changes, row, d, project
    <2> QED
      BY <1>1, <1>3, <2>1, <2>2, <2>3, <2>4, FlushingKeepsRows
  <1> QED
    BY <1>5, <1>6 DEF Insert

LEMMA WriteExpiryKeepsRows ==
    ASSUME RInv, NEW s \in Sessions, WriteExpiry(s)
    PROVE  RInv'
  <1> DEFINE loaded == Loaded(s)
             ending == {id \in DOMAIN loaded :
                           loaded[id].expires_after_project /\ loaded[id].status # "EXPIRED"}
             changes == [id \in ending |-> [status |-> "EXPIRED"]]
  <1>1. session[s].at = "write" /\ Flushes(s, changes)
    BY DEF WriteExpiry, Loaded
  <1>2. DOMAIN changes \subseteq DOMAIN table
    BY DEF RInv, LoadsOK
  <1>3. ASSUME NEW id \in DOMAIN changes PROVE IsChange(changes[id], table[id])
    BY DEF IsChange
  <1> HIDE DEF changes
  <1> QED
    BY <1>1, <1>2, <1>3, FlushingKeepsRows

\* What a commit makes of the rows.
LEMMA MergedRows ==
    ASSUME RInv, NEW s \in Sessions, table' = Merged(Written(s))
    PROVE  /\ DOMAIN table' = DOMAIN table \cup DOMAIN Written(s)
           /\ \A id \in DOMAIN table : IsRow(table'[id]) /\ SameKey(table'[id], table[id])
           /\ \A id \in DOMAIN table \ DOMAIN Written(s) : table'[id] = table[id]
           /\ \A id \in DOMAIN Written(s) \ DOMAIN table :
                 table'[id] = Written(s)[id] /\ IsRow(table'[id]) /\ id \in RowIds
  <1>1. /\ DOMAIN table' = DOMAIN table \cup DOMAIN Written(s)
        /\ \A id \in DOMAIN table \ DOMAIN Written(s) : table'[id] = table[id]
        /\ \A id \in DOMAIN Written(s) \ DOMAIN table : table'[id] = Written(s)[id]
        /\ \A id \in DOMAIN table \cap DOMAIN Written(s) :
              table'[id] = Overwritten(table[id], Written(s)[id])
    BY DEF Merged
  <1>2. ASSUME NEW id \in DOMAIN table \cap DOMAIN Written(s)
        PROVE  IsRow(table'[id]) /\ SameKey(table'[id], table[id])
    <2>1. IsRow(table[id]) /\ IsChange(Written(s)[id], table[id])
      BY DEF RInv, TableOK, WritesOK
    <2> QED
      BY <1>1, <2>1, ChangeMakesRow
  <1>3. \A id \in DOMAIN table \ DOMAIN Written(s) : IsRow(table'[id]) /\ SameKey(table'[id], table[id])
    BY <1>1 DEF RInv, TableOK, SameKey
  <1>4. \A id \in DOMAIN Written(s) \ DOMAIN table : IsRow(table'[id]) /\ id \in RowIds
    BY <1>1 DEF RInv, WritesOK
  <1> QED
    BY <1>1, <1>2, <1>3, <1>4

LEMMA CommitKeepsRows ==
    ASSUME RInv, NEW s \in Sessions, Commit(s)
    PROVE  RInv'
  <1> DEFINE old == DOMAIN table
             mine == DOMAIN Written(s)
  <1>1. table' = Merged(Written(s)) /\ Ends(s)
    BY DEF Commit, Written
  <1>2. /\ DOMAIN table' = old \cup mine
        /\ \A id \in old : IsRow(table'[id]) /\ SameKey(table'[id], table[id])
        /\ \A id \in old \ mine : table'[id] = table[id]
        /\ \A id \in mine \ old : table'[id] = Written(s)[id] /\ IsRow(table'[id]) /\ id \in RowIds
    BY <1>1, MergedRows
  <1>3. CallsOK' /\ \A o \in Sessions \ {s} : call'[o] = call[o]
    BY <1>1 DEF RInv, CallsOK, Ends, NoCall
  <1>4. Acts(s) /\ session'[s] = Closed
    <2>1. DOMAIN Closed = {"at", "loaded", "writes"}
      BY DEF Closed
    <2> QED
      BY <1>1, <2>1, ReplacingActs DEF Ends
  <1>5. /\ DOMAIN Loaded(s)' = {} /\ DOMAIN Written(s)' = {}
        /\ \A o \in Sessions \ {s} : Loaded(o)' = Loaded(o) /\ Written(o)' = Written(o)
    BY <1>4 DEF Acts, Loaded, Written, Closed, NoRows
  <1>6. SessionsOK'
    BY <1>4, <1>5 DEF RInv, SessionsOK, Acts
  <1>7. TableOK'
    BY <1>2 DEF RInv, TableOK
  <1>8. LoadsOK'
    <2> SUFFICES ASSUME NEW o \in Sessions \ {s}, NEW id \in DOMAIN Loaded(o)
                 PROVE  /\ id \in DOMAIN table'
                        /\ IsRow(Loaded(o)[id]) /\ SameKey(Loaded(o)[id], table'[id])
                        /\ call[o].kind = "register" =>
                              /\ Loaded(o)[id].agent_id = call[o].definition.id
                              /\ Loaded(o)[id].project = call[o].project
      BY <1>3, <1>5 DEF LoadsOK
    <2>1. /\ id \in old /\ IsRow(Loaded(o)[id]) /\ SameKey(Loaded(o)[id], table[id])
          /\ call[o].kind = "register" =>
                /\ Loaded(o)[id].agent_id = call[o].definition.id
                /\ Loaded(o)[id].project = call[o].project
      BY DEF RInv, LoadsOK
    <2> QED
      BY <1>2, <2>1 DEF SameKey
  <1>9. \A o \in Sessions \ {s} : DOMAIN Written(o) \cap mine = {}
    BY DEF RInv, WritesOK
  <1>10. WritesOK'
    <2> SUFFICES ASSUME NEW o \in Sessions \ {s}, NEW id \in DOMAIN Written(o)
                 PROVE  /\ id \in DOMAIN table' => IsChange(Written(o)[id], table'[id])
                        /\ id \notin DOMAIN table' => id \in RowIds /\ IsRow(Written(o)[id])
                        /\ \A r \in Sessions \ {o} : id \notin DOMAIN Written(r)'
      BY <1>5 DEF WritesOK
    <2>1. id \notin mine
      BY <1>9
    <2> QED
      BY <1>2, <1>5, <2>1 DEF RInv, WritesOK
  <1>11. KeysUnique'
    <2>1. ASSUME NEW i \in DOMAIN table', NEW j \in DOMAIN table',
                 table'[i].project # NoProject, SameKey(table'[i], table'[j])
          PROVE  i = j
      <3>1. CASE i \in old /\ j \in old
        <4>1. table[i].project # NoProject /\ SameKey(table[i], table[j])
          BY <1>2, <2>1, <3>1 DEF SameKey
        <4> QED
          BY <3>1, <4>1 DEF RInv, KeysUnique
      <3>2. CASE i \in mine \ old /\ j \in mine \ old
        BY <1>2, <2>1, <3>2 DEF RInv, KeysUnique
      <3>3. CASE i \in mine \ old /\ j \in old
        <4>1. SameKey(Written(s)[i], table[j]) /\ Written(s)[i].project # NoProject
          BY <1>2, <2>1, <3>3 DEF SameKey
        <4> QED
          BY <3>3, <4>1 DEF RInv, KeysUnique
      <3>4. CASE i \in old /\ j \in mine \ old
        <4>1. SameKey(Written(s)[j], table[i]) /\ Written(s)[j].project # NoProject
          BY <1>2, <2>1, <3>4 DEF SameKey
        <4> QED
          BY <3>4, <4>1 DEF RInv, KeysUnique
      <3> QED
        BY <1>2, <3>1, <3>2, <3>3, <3>4
    <2>2. ASSUME NEW o \in Sessions, NEW i \in DOMAIN Written(o)' \ DOMAIN table',
                 Written(o)'[i].project # NoProject
          PROVE  /\ \A j \in DOMAIN table' : ~SameKey(Written(o)'[i], table'[j])
                 /\ \A r \in Sessions : \A j \in DOMAIN Written(r)' \ DOMAIN table' :
                       SameKey(Written(o)'[i], Written(r)'[j]) => i = j
      <3>1. o # s /\ Written(o)' = Written(o) /\ i \in DOMAIN Written(o) \ old
        BY <1>2, <1>5, <2>2
      <3>2. /\ \A j \in old : ~SameKey(Written(o)[i], table[j])
            /\ \A r \in Sessions : \A j \in DOMAIN Written(r) \ old :
                  SameKey(Written(o)[i], Written(r)[j]) => i = j
        BY <2>2, <3>1 DEF RInv, KeysUnique
      <3>3. ASSUME NEW j \in DOMAIN table' PROVE ~SameKey(Written(o)[i], table'[j])
        <4>1. CASE j \in old
          BY <1>2, <3>2, <4>1 DEF SameKey
        <4>2. CASE j \in mine \ old
          BY <1>2, <2>2, <3>2, <4>2
        <4> QED
          BY <1>2, <4>1, <4>2
      <3>4. ASSUME NEW r \in Sessions, NEW j \in DOMAIN Written(r)' \ DOMAIN table'
            PROVE  SameKey(Written(o)[i], Written(r)'[j]) => i = j
        BY <1>2, <1>5, <3>2
      <3> QED
        BY <3>1, <3>3, <3>4
    <2> QED
      BY <2>1, <2>2 DEF KeysUnique
  <1> QED
    BY <1>3, <1>6, <1>7, <1>8, <1>10, <1>11 DEF RInv

LEMMA NextKeepsRows == RInv /\ [Next]_vars => RInv'
  <1> SUFFICES ASSUME RInv, [Next]_vars PROVE RInv'
    OBVIOUS
  <1>1. ASSUME NEW s \in Sessions, RollBack(s) PROVE RInv'
    BY <1>1, EndingKeepsRows DEF RollBack
  <1>2. CASE UNCHANGED vars
    BY <1>2 DEF vars, RInv, CallsOK, SessionsOK, LoadsOK, WritesOK, TableOK, KeysUnique,
        Loaded, Written
  <1> QED
    BY <1>1, <1>2, RegisterKeepsRows, ExpireKeepsRows, UpdateKeepsRows, InsertKeepsRows,
       WriteExpiryKeepsRows, CommitKeepsRows DEF Next

\* Whatever columns the last sessions wrote, a committed row is whole
\* (agents/registry.py).
THEOREM TypeCorrect == Spec => []TypeOK
  <1>1. RInv => TypeOK
    BY DEF RInv, TableOK, IsRow, TypeOK
  <1> QED
    BY <1>1, InitRows, NextKeepsRows, PTL DEF Spec

\* With any number of sessions that register it at once, an agent of a project
\* keeps one row, and the lookup of registry.py finds it.
THEOREM AgentsAreFound == Spec => []LookupFindsOne
  <1>1. RInv => LookupFindsOne
    BY DEF RInv, TableOK, IsRow, KeysUnique, SameKey, SameScope, LookupFindsOne
  <1> QED
    BY <1>1, InitRows, NextKeepsRows, PTL DEF Spec

(***************************************************************************)
(* What has expired stays so                                               *)
(***************************************************************************)

\* A session about to make a committed agent active loaded it expired.
RevivesOK ==
    \A s \in Sessions : \A id \in DOMAIN Written(s) \cap DOMAIN table :
        "status" \in DOMAIN Written(s)[id] /\ Written(s)[id].status = "ACTIVE" =>
            id \in DOMAIN Loaded(s) /\ Loaded(s)[id].status = "EXPIRED"

\* A session that writes nothing, or rows it may write, and leaves the table alone.
LEMMA ActingRevivesOnlySeen ==
    ASSUME RInv, RevivesOK, NEW s \in Sessions, table' = table,
           \A o \in Sessions \ {s} : session'[o] = session[o],
           \A id \in DOMAIN session'[s].writes \cap DOMAIN table :
              "status" \in DOMAIN session'[s].writes[id] /\ session'[s].writes[id].status = "ACTIVE" =>
                  id \in DOMAIN session'[s].loaded /\ session'[s].loaded[id].status = "EXPIRED"
    PROVE  RevivesOK'
  BY DEF RevivesOK, Written, Loaded

\* A session that ends, or loads, has written nothing.
LEMMA OpeningRevivesNone ==
    ASSUME RInv, RevivesOK, NEW s \in Sessions, table' = table,
           Ends(s) \/ \E ids : Loads(s, ids)
    PROVE  RevivesOK'
  <1>1. Acts(s) /\ DOMAIN session'[s].writes = {}
    <2>1. CASE Ends(s)
      <3>1. DOMAIN Closed = {"at", "loaded", "writes"} /\ DOMAIN Closed.writes = {}
        BY DEF Closed, NoRows
      <3> QED
        BY <2>1, <3>1, ReplacingActs DEF Ends
    <2>2. CASE \E ids : Loads(s, ids)
      BY <2>2, LoadsActs
    <2> QED
      BY <2>1, <2>2
  <1> QED
    BY <1>1, ActingRevivesOnlySeen DEF Acts

\* A session that flushes keeps what it loaded.
LEMMA FlushingActs ==
    ASSUME RInv, NEW s \in Sessions, NEW changes, Flushes(s, changes)
    PROVE  /\ \A o \in Sessions \ {s} : session'[o] = session[o]
           /\ session'[s].writes = changes /\ session'[s].loaded = session[s].loaded
           /\ table' = table
  <1>1. session' = [session EXCEPT ![s] = [session[s] EXCEPT !.at = "commit", !.writes = changes]]
    BY DEF Flushes, RInv, SessionsOK
  <1> DEFINE record == [session[s] EXCEPT !.at = "commit", !.writes = changes]
  <1>2. /\ DOMAIN record = {"at", "loaded", "writes"}
        /\ record.writes = changes /\ record.loaded = session[s].loaded
    BY DEF RInv, SessionsOK
  <1> HIDE DEF record
  <1>3. Acts(s) /\ session'[s] = record
    BY <1>1, <1>2, ReplacingActs DEF record
  <1> QED
    BY <1>2, <1>3 DEF Acts, Flushes

\* An update writes a status only if it differs from the one it loaded.
LEMMA UpdateRevivesOnlySeen ==
    ASSUME RInv, RevivesOK, NEW s \in Sessions, Update(s)
    PROVE  RevivesOK'
  <1> DEFINE row == RowFor(call[s].definition, call[s].project)
             loaded == session[s].loaded
             changes == [id \in {n \in DOMAIN loaded : row # loaded[n]} |-> Changed(row, loaded[id])]
  <1>1. Flushes(s, changes)
    BY DEF Update
  <1>2. row.status = "ACTIVE"
    BY DEF RowFor
  <1>3. ASSUME NEW id \in DOMAIN changes, "status" \in DOMAIN changes[id]
        PROVE  id \in DOMAIN loaded /\ loaded[id].status = "EXPIRED"
    <2>1. loaded[id] \in Rows
      BY DEF RInv, LoadsOK, IsRow, Loaded
    <2>2. changes[id] = Changed(row, loaded[id])
      OBVIOUS
    <2>3. loaded[id].status # row.status
      BY <1>3, <2>2 DEF Changed
    <2> QED
      BY <1>2, <2>1, <2>3 DEF Rows
  <1> HIDE DEF changes, row
  <1> QED
    BY <1>1, <1>3, FlushingActs, ActingRevivesOnlySeen

LEMMA InsertRevivesNone ==
    ASSUME RInv, RevivesOK, NEW s \in Sessions, Insert(s)
    PROVE  RevivesOK'
  <1>1. CASE Ends(s) /\ UNCHANGED table
    BY <1>1, OpeningRevivesNone
  <1>2. ASSUME NEW new \in RowIds \ (DOMAIN table \cup Locked(s)), NEW row,
               Flushes(s, [n \in {new} |-> row])
        PROVE  RevivesOK'
    <2> DEFINE changes == [n \in {new} |-> row]
    <2>1. DOMAIN changes \cap DOMAIN table = {} /\ Flushes(s, changes)
      BY <1>2
    <2> HIDE DEF changes
    <2> QED
      BY <2>1, FlushingActs, ActingRevivesOnlySeen
  <1> QED
    BY <1>1, <1>2 DEF Insert

LEMMA WriteExpiryRevivesNone ==
    ASSUME RInv, RevivesOK, NEW s \in Sessions, WriteExpiry(s)
    PROVE  RevivesOK'
  <1> DEFINE loaded == session[s].loaded
             ending == {id \in DOMAIN loaded :
                           loaded[id].expires_after_project /\ loaded[id].status # "EXPIRED"}
             changes == [id \in ending |-> [status |-> "EXPIRED"]]
  <1>1. Flushes(s, changes)
    BY DEF WriteExpiry
  <1>2. \A id \in DOMAIN changes : changes[id].status = "EXPIRED"
    OBVIOUS
  <1> HIDE DEF changes
  <1> QED
    BY <1>1, <1>2, FlushingActs, ActingRevivesOnlySeen

\* A commit puts no row into the table that another session writes.
LEMMA CommitRevivesOnlySeen ==
    ASSUME RInv, RevivesOK, NEW s \in Sessions, Commit(s)
    PROVE  RevivesOK'
  <1>1. DOMAIN table' = DOMAIN table \cup DOMAIN Written(s)
    BY DEF Commit, Written, Merged
  <1>2. Acts(s) /\ session'[s] = Closed /\ DOMAIN Closed.writes = {}
    <2>1. DOMAIN Closed = {"at", "loaded", "writes"} /\ DOMAIN Closed.writes = {}
      BY DEF Closed, NoRows
    <2> QED
      BY <2>1, ReplacingActs DEF Commit, Ends
  <1>3. \A o \in Sessions \ {s} : /\ Written(o)' = Written(o) /\ Loaded(o)' = Loaded(o)
                                  /\ DOMAIN Written(o) \cap DOMAIN Written(s) = {}
    BY <1>2 DEF Acts, Written, Loaded, RInv, WritesOK
  <1> QED
    BY <1>1, <1>2, <1>3 DEF RevivesOK, Written

LEMMA NextRevivesOnlySeen == RInv /\ RevivesOK /\ [Next]_vars => RevivesOK'
  <1> SUFFICES ASSUME RInv, RevivesOK, [Next]_vars PROVE RevivesOK'
    OBVIOUS
  <1>1. ASSUME NEW s \in Sessions, NEW d \in Definitions, NEW project \in Projects \cup {NoProject},
               Register(s, d, project)
        PROVE  RevivesOK'
    BY <1>1, OpeningRevivesNone DEF Register, Loads
  <1>2. ASSUME NEW s \in Sessions, NEW project \in Projects, Expire(s, project) PROVE RevivesOK'
    BY <1>2, OpeningRevivesNone DEF Expire, Loads
  <1>3. ASSUME NEW s \in Sessions, RollBack(s) PROVE RevivesOK'
    BY <1>3, OpeningRevivesNone DEF RollBack
  <1>4. CASE UNCHANGED vars
    BY <1>4 DEF vars, RevivesOK, Written, Loaded
  <1> QED
    BY <1>1, <1>2, <1>3, <1>4, UpdateRevivesOnlySeen, InsertRevivesNone, WriteExpiryRevivesNone,
       CommitRevivesOnlySeen DEF Next

\* Only a commit changes the table, and it makes active what its session wrote so.
LEMMA RevivalWasSeen ==
    ASSUME RInv, RevivesOK, [Next]_vars, NEW id \in DOMAIN table,
           table[id].status = "EXPIRED", table'[id].status = "ACTIVE"
    PROVE  \E s \in Sessions :
              /\ session[s].at = "commit" /\ session'[s] = Closed
              /\ id \in DOMAIN session[s].loaded
              /\ session[s].loaded[id].status = "EXPIRED"
  <1>1. table' # table
    OBVIOUS
  <1>2. PICK s \in Sessions : Commit(s)
    BY <1>1 DEF Next, Register, Expire, Loads, Update, Insert, WriteExpiry, Flushes, RollBack, vars
  <1>3. session[s].at = "commit" /\ session'[s] = Closed /\ table' = Merged(Written(s))
    BY <1>2 DEF Commit, Ends, RInv, SessionsOK, Written
  <1>4. id \in DOMAIN Written(s)
    BY <1>3 DEF Merged
  <1>5. table'[id] = Overwritten(table[id], Written(s)[id])
    BY <1>3, <1>4 DEF Merged
  <1>6. "status" \in DOMAIN table[id]
    BY DEF RInv, TableOK, IsRow, Rows
  <1>7. "status" \in DOMAIN Written(s)[id] /\ Written(s)[id]["status"] = "ACTIVE"
    BY <1>5, <1>6 DEF Overwritten
  <1> QED
    BY <1>3, <1>4, <1>7 DEF RevivesOK, Written, Loaded

\* With any number of sessions that register and expire agents, none that expired
\* comes back by a registration that did not know of it (agents/registry.py).
THEOREM ExpiredStayExpired == Spec => ExpiryIsNotUndone
  <1>1. Init => RevivesOK
    BY DEF Init, NoRows, RevivesOK
  <1>2. RInv /\ RevivesOK /\ [Next]_vars =>
          \A id \in DOMAIN table :
            table[id].status = "EXPIRED" /\ table'[id].status = "ACTIVE" =>
                \E s \in Sessions :
                    /\ session[s].at = "commit" /\ session'[s] = Closed
                    /\ id \in DOMAIN session[s].loaded
                    /\ session[s].loaded[id].status = "EXPIRED"
    BY RevivalWasSeen
  <1> QED
    BY <1>1, <1>2, InitRows, NextKeepsRows, NextRevivesOnlySeen, PTL DEF Spec, ExpiryIsNotUndone
=============================================================================
