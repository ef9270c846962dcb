------------------------ MODULE ProductWorkflowProofs ------------------------
(***************************************************************************)
(* What holds of the product definition workflow for every planning text,  *)
(* catalogue, configuration of servers and bound on the decisions.         *)
(*                                                                         *)
(* One invariant, IInv, carries all of it.  Sound is about the rows        *)
(* whatever the project is doing; Phase relates them to its status and to  *)
(* the piece of work that remains.  Both speak of any rows: of the         *)
(* committed ones, which wait for a request (Idle), and of those of the    *)
(* open session.                                                           *)
(***************************************************************************)
EXTENDS ProductWorkflow, TLAPS

Columns == {
    "status", "checkpoint", "idea", "documents", "verdict", "open", "answered", "decisions",
    "approvals", "prd", "backlog", "proposals", "providers", "servers", "consultation", "earlier"}

Shape(rows) ==
    /\ DOMAIN rows = Columns
    /\ DOMAIN rows.verdict = {"text", "confirmed", "answered"}
    /\ DOMAIN rows.consultation = {"trigger", "status"}

\* Policy blocks a connection to this server while it is not approved, and the
\* configuration does not approve it.
Forbidden(server) ==
    LET spec == ServerSpecs[server]
    IN  /\ spec.status # "APPROVED"
        /\ spec.external \/ (server \notin Allowlist /\ (spec.data = "CONFIDENTIAL" \/ spec.risk = "HIGH"))

\* A server is approved if it always was; a forbidden one is never, and no
\* proposal for it ever waits for approval.
ServersKept(rows) ==
    /\ DOMAIN rows.servers = DOMAIN ServerSpecs
    /\ \A s \in DOMAIN ServerSpecs :
          /\ ServerSpecs[s].status = "APPROVED" => rows.servers[s] = "APPROVED"
          /\ Forbidden(s) => rows.servers[s] # "APPROVED"
    /\ \A p \in rows.proposals :
          p.server \in DOMAIN ServerSpecs =>
              /\ p.decision = "AUTO_BLOCKED" => Forbidden(p.server)
              /\ Forbidden(p.server) => p.status = "BLOCKED"

Sound(rows) ==
    /\ Shape(rows)
    /\ RowsOK(rows) /\ rows.open \cap rows.answered = {}
    /\ ServersKept(rows)

-----------------------------------------------------------------------------
(* The rows and the status                                                 *)

Expert == "WAITING_EXPERT_CONFIRMATION"

\* The work a project is in, or comes back to from the developer.
Underway(rows) == IF rows.status = Expert THEN rows.checkpoint ELSE rows.status

HarmlessText(text) ==
    text # NoText /\ ~Mentions(text, "prohibited") /\ ~Mentions(text, "unsupported")

Cleared(verdict) ==
    /\ HarmlessText(verdict.text)
    /\ Mentions(verdict.text, "expert_review") => verdict.confirmed \/ verdict.answered
    /\ Mentions(verdict.text, "risky") /\ ~Mentions(verdict.text, "expert_review") => verdict.answered

\* Whoever waits for a person has a text that person may decide on.
VerdictFits(rows) ==
    /\ rows.status \in PastGate => Cleared(rows.verdict)
    /\ rows.status \in {"WAITING_APPROVAL", Expert} => HarmlessText(rows.verdict.text)

\* The developer has fresh material, and sends the project back to the gate or
\* to its expansion.
ExpertFits(rows) ==
    rows.status = Expert =>
        /\ rows.checkpoint \in {"CLASSIFYING", "EXPANSION_PROPOSING"}
        /\ rows.consultation.status = "PENDING"

\* From the end of the draft on no question is open.
QuestionsFit(rows) ==
    /\ rows.status = "WAITING_REQUIREMENT_INPUT" => rows.open # {}
    /\ Underway(rows) \in {
          "WAITING_REQUIREMENT_APPROVAL", "SPECIFICATION_GENERATING", "CAPABILITY_ANALYZING",
          "EXPANSION_PROPOSING", "WAITING_EXPANSION_APPROVAL", "BACKLOG_GENERATING",
          "READY_FOR_DEVELOPMENT"} => rows.open = {}

\* Whatever the PRD needs has a provider, or a proposal of one of these.
Provided(rows, statuses) ==
    \A c \in Needs(rows.prd) :
        c \in rows.providers \/ \E p \in rows.proposals : p.capability = c /\ p.status \in statuses

Promised(rows) == Provided(rows, {"AUTO_APPROVED", "PENDING_USER", "PENDING_EXPERT"})

ProvidersFit(rows) ==
    /\ rows.status \in {"BACKLOG_GENERATING", "READY_FOR_DEVELOPMENT"} =>
           Provided(rows, {"AUTO_APPROVED"})
    /\ rows.status = "WAITING_EXPANSION_APPROVAL" => Promised(rows)
    /\ rows.status = Expert /\ rows.checkpoint = "EXPANSION_PROPOSING" => Promised(rows)

StatusOf == [
    analyze  |-> "DOCUMENT_ANALYZING",        classify |-> "CLASSIFYING",
    draft    |-> "REQUIREMENT_DRAFTING",      specify  |-> "SPECIFICATION_GENERATING",
    gap      |-> "CAPABILITY_ANALYZING",      expand   |-> "EXPANSION_PROPOSING",
    backlog  |-> "BACKLOG_GENERATING"]

\* A piece of work starts in its own state, and finds what it works on.
PieceFits(rows, piece) ==
    /\ piece = Idle => rows.status \in RestingStates
    /\ piece \in DOMAIN StatusOf => rows.status = StatusOf[piece]
    /\ piece \in {"gap", "expand"} => rows.prd = Text(rows)
    /\ piece = "expand" => Missing(rows) # {}
    /\ piece = "resume" =>
          /\ rows.status \in {"CLASSIFYING", "EXPANSION_PROPOSING"}
          /\ HarmlessText(rows.verdict.text) /\ rows.verdict.confirmed /\ rows.verdict.answered
          /\ rows.status = "EXPANSION_PROPOSING" => Promised(rows)

Phase(rows, piece) ==
    /\ VerdictFits(rows) /\ ExpertFits(rows) /\ QuestionsFit(rows) /\ ProvidersFit(rows)
    /\ PieceFits(rows, piece)

NoInput(rows) == rows.idea = NoText /\ rows.documents = NoText

IInv ==
    /\ step \in Steps
    /\ Sound(db) /\ Phase(db, Idle)
    /\ step \in {Idle, "refused"} => tx = db
    /\ step \in Pieces => Sound(tx) /\ Phase(tx, step)
    /\ step = "refused" => NoInput(db)

-----------------------------------------------------------------------------
(* The rows of the transition table that the workflow fires                *)

Fired == {
    T("IDEA_RECEIVED", "ANALYSIS_STARTED", "DOCUMENT_ANALYZING", "has_planning_input"),
    T("AUTO_BLOCKED_BY_POLICY", "ALTERNATIVE_ACCEPTED", "DOCUMENT_ANALYZING", "has_planning_input"),
    T("DOCUMENT_ANALYZING", "ANALYSIS_COMPLETED", "CLASSIFYING", "deferred"),
    T("CLASSIFYING", "CLASSIFIED_SELF_SERVICE", "REQUIREMENT_DRAFTING", "classification_saved"),
    T("CLASSIFYING", "CLASSIFIED_AI_ASSISTED", "WAITING_APPROVAL", "classification_saved"),
    T("CLASSIFYING", "CLASSIFIED_EXPERT_REVIEW", "WAITING_EXPERT_CONFIRMATION", "expert_not_confirmed"),
    T("CLASSIFYING", "EXPERT_CONFIRMED_PROCEED", "REQUIREMENT_DRAFTING", "expert_confirmed"),
    T("CLASSIFYING", "CLASSIFIED_UNSUPPORTED", "CANCELLED", "classification_saved"),
    T("CLASSIFYING", "PROHIBITED_SCOPE_DETECTED", "AUTO_BLOCKED_BY_POLICY", "prohibited_detected"),
    T("WAITING_APPROVAL", "APPROVAL_GRANTED", "REQUIREMENT_DRAFTING", "reduced_scope_approval_exists"),
    T("WAITING_APPROVAL", "APPROVAL_DENIED", "CANCELLED", "none"),
    T("WAITING_EXPERT_CONFIRMATION", "EXPERT_ANSWER_UNBLOCKS", "CHECKPOINT", "expert_confirmed_with_checkpoint"),
    T("WAITING_EXPERT_CONFIRMATION", "EXPERT_ANSWER_ADJUSTS_SCOPE", "REQUIREMENT_DRAFTING", "none"),
    T("WAITING_EXPERT_CONFIRMATION", "EXPERT_ANSWER_STOPS", "CANCELLED", "none"),
    T("REQUIREMENT_DRAFTING", "DRAFT_HAS_UNKNOWNS", "WAITING_REQUIREMENT_INPUT", "open_questions_exist"),
    T("REQUIREMENT_DRAFTING", "DRAFT_COMPLETED", "WAITING_REQUIREMENT_APPROVAL", "no_open_questions"),
    T("WAITING_REQUIREMENT_INPUT", "USER_ANSWERED", "REQUIREMENT_DRAFTING", "answered_question_exists"),
    T("WAITING_REQUIREMENT_APPROVAL", "REQUIREMENTS_APPROVED", "SPECIFICATION_GENERATING", "requirements_approval_exists"),
    T("WAITING_REQUIREMENT_APPROVAL", "CHANGES_REQUESTED", "REQUIREMENT_DRAFTING", "requirements_change_request_exists"),
    T("SPECIFICATION_GENERATING", "SPEC_COMPLETED", "CAPABILITY_ANALYZING", "prd_document_exists"),
    T("CAPABILITY_ANALYZING", "NO_GAP_FOUND", "BACKLOG_GENERATING", "capability_no_gap"),
    T("CAPABILITY_ANALYZING", "GAP_FOUND", "EXPANSION_PROPOSING", "capability_gap_exists"),
    T("EXPANSION_PROPOSING", "PROPOSAL_AUTO_APPROVED", "BACKLOG_GENERATING", "policy_decision_auto_approve"),
    T("EXPANSION_PROPOSING", "PROPOSAL_NEEDS_USER", "WAITING_EXPANSION_APPROVAL", "policy_decision_user_approval"),
    T("EXPANSION_PROPOSING", "PROPOSAL_NEEDS_EXPERT", "WAITING_EXPERT_CONFIRMATION", "policy_decision_expert_required"),
    T("EXPANSION_PROPOSING", "PROPOSAL_BLOCKED", "AUTO_BLOCKED_BY_POLICY", "policy_decision_auto_blocked"),
    T("WAITING_EXPANSION_APPROVAL", "EXPANSION_APPROVED", "BACKLOG_GENERATING", "expansion_approval_exists"),
    T("WAITING_EXPANSION_APPROVAL", "EXPANSION_DENIED", "EXPANSION_REJECTED", "none"),
    T("BACKLOG_GENERATING", "BACKLOG_READY_EXISTING", "READY_FOR_DEVELOPMENT", "backlog_document_exists")}

LEMMA FiredAreRows == Fired \subseteq ProductTransitions
  BY DEF Fired, ProductTransitions, ProductMain, ProductRecovery

\* No other row has one of their events.
LEMMA FiredAlone ==
    ASSUME NEW t \in ProductTransitions, NEW u \in Fired, t.event = u.event
    PROVE  t = u
  <1>1. CASE t \in ProductMain
    BY <1>1 DEF Fired, ProductMain, T
  <1>2. CASE t \in ProductRecovery
    BY <1>2 DEF Fired, ProductRecovery, T
  <1>3. CASE t \in ProductBudget
    BY <1>3 DEF Fired, ProductBudget, T
  <1> QED
    BY <1>1, <1>2, <1>3 DEF ProductTransitions

ProductStates ==
    {t.source : t \in ProductTransitions} \cup ({t.target : t \in ProductTransitions} \ {"CHECKPOINT"})

LEMMA EngineStates == ASSUME NEW rows PROVE Engine(rows)!States = ProductStates
  BY DEF Engine!States, Engine!CHECKPOINT, ProductStates

\* Where the fired rows begin and end.
LEMMA FiredStates ==
    ASSUME NEW t \in Fired
    PROVE  t.source \in ProductStates /\ (t.target # "CHECKPOINT" => t.target \in ProductStates)
  BY FiredAreRows DEF ProductStates

LEMMA StatesNamed ==
    {"IDEA_RECEIVED", "AUTO_BLOCKED_BY_POLICY", "DOCUMENT_ANALYZING", "CLASSIFYING",
     "WAITING_APPROVAL", "WAITING_EXPERT_CONFIRMATION", "REQUIREMENT_DRAFTING",
     "WAITING_REQUIREMENT_INPUT", "WAITING_REQUIREMENT_APPROVAL", "SPECIFICATION_GENERATING",
     "CAPABILITY_ANALYZING", "EXPANSION_PROPOSING", "WAITING_EXPANSION_APPROVAL",
     "EXPANSION_REJECTED", "BACKLOG_GENERATING", "READY_FOR_DEVELOPMENT", "CANCELLED"}
        \subseteq ProductStates
  <1> DEFINE sources == {t.source : t \in Fired}
             targets == {t.target : t \in Fired} \ {"CHECKPOINT"}
  <1>1. sources \cup targets \subseteq ProductStates
    BY FiredStates
  <1>2. {"IDEA_RECEIVED", "AUTO_BLOCKED_BY_POLICY", "DOCUMENT_ANALYZING", "CLASSIFYING",
         "WAITING_APPROVAL", "WAITING_EXPERT_CONFIRMATION", "REQUIREMENT_DRAFTING",
         "WAITING_REQUIREMENT_INPUT", "WAITING_REQUIREMENT_APPROVAL", "SPECIFICATION_GENERATING",
         "CAPABILITY_ANALYZING", "EXPANSION_PROPOSING", "WAITING_EXPANSION_APPROVAL",
         "BACKLOG_GENERATING"} \subseteq sources
    BY DEF Fired, T
  <1>3. {"EXPANSION_REJECTED", "READY_FOR_DEVELOPMENT", "CANCELLED"} \subseteq targets
    BY DEF Fired, T
  <1> HIDE DEF sources, targets
  <1> QED
    BY <1>1, <1>2, <1>3

-----------------------------------------------------------------------------
(* What the engine makes of an event                                       *)

\* The project in another state; an interruption leaves a checkpoint.
Moved(rows, target) == [rows EXCEPT
    !.status = target,
    !.checkpoint = IF target \in ProductExceptionStates /\ rows.status \notin ProductExceptionStates
                   THEN rows.status ELSE @]

\* The guards of fired rows that ask only the rows and the context.
Agrees(rows, guard, context) == guard \in {"none", "deferred"} \/ RowsAgree(rows, guard, context)

LEMMA MovedFields ==
    ASSUME NEW rows, Shape(rows), NEW target
    PROVE  /\ Shape(Moved(rows, target))
           /\ Moved(rows, target).status = target
           /\ Moved(rows, target).checkpoint =
                 IF target \in ProductExceptionStates /\ rows.status \notin ProductExceptionStates
                 THEN rows.status ELSE rows.checkpoint
           /\ \A c \in Columns \ {"status", "checkpoint"} : Moved(rows, target)[c] = rows[c]
  BY DEF Shape, Columns, Moved

\* A row that is not a way back is applied, unless its guard refuses.
LEMMA FireOutcome ==
    ASSUME NEW rows, Shape(rows), NEW t \in Fired, t.target # "CHECKPOINT", t.source = rows.status,
           NEW context, NEW rest, Fire(rows, t.event, context, rest)
    PROVE  \/ Proceed(Moved(rows, t.target), rest)
           \/ /\ ~Agrees(rows, t.guard, context)
              /\ tx' = db /\ step' = "refused" /\ db' = db
  <1>1. Row(rows, t.event) = {t}
    BY FiredAreRows, FiredAlone DEF Row
  <1>2. Engine(rows)!Target(Project, t) = t.target
    BY DEF Engine!Target, Engine!CHECKPOINT
  <1>3. t.guard \notin {"checkpoint_exists", "can_retry", "expert_confirmed_with_checkpoint"}
    BY DEF Fired, T
  <1>4. t.target # "none"
    BY DEF Fired, T
  <1>5. Engine(rows)!Accepts(Project, t, RowsAgree(rows, t.guard, context))
           <=> Agrees(rows, t.guard, context)
    BY <1>2, <1>3, <1>4
    DEF Engine!Accepts, Engine!GuardHolds, Engine!CheckpointGuards, Engine!EngineGuards,
        Engine!Unconditional, Agrees, Project
  <1>6. [rows EXCEPT !.status = t.target,
                     !.checkpoint = Engine(rows)!Checkpointed(Project, t.target)[Project]]
           = Moved(rows, t.target)
    <2>1. Engine(rows)!Checkpointed(Project, t.target)[Project] =
             IF t.target \in ProductExceptionStates /\ rows.status \notin ProductExceptionStates
             THEN rows.status ELSE rows.checkpoint
      BY DEF Engine!Checkpointed, Engine!Saves, Project
    <2> QED
      BY <2>1 DEF Moved, Shape, Columns
  <1> DEFINE holds(u) == Engine(rows)!Accepts(Project, u, RowsAgree(rows, u.guard, context))
             after(target) == [rows EXCEPT
                 !.status = target,
                 !.checkpoint = Engine(rows)!Checkpointed(Project, target)[Project]]
  <1>7. \/ (~ \E u \in {t} : holds(u)) /\ tx' = db /\ step' = "refused" /\ UNCHANGED db
        \/ \E u \in {t} :
              holds(u) /\ \E target \in {Engine(rows)!Target(Project, u)} : Proceed(after(target), rest)
    BY <1>1 DEF Fire
  <1>8. holds(t) <=> Agrees(rows, t.guard, context)
    BY <1>5
  <1>9. after(t.target) = Moved(rows, t.target)
    BY <1>6
  <1> HIDE DEF holds, after
  <1> QED
    BY <1>2, <1>7, <1>8, <1>9

\* The way back from the developer.
LEMMA UnblockOutcome ==
    ASSUME NEW rows, Shape(rows), rows.status = Expert, NEW context, NEW rest,
           Judged(rows), rows.verdict.confirmed,
           rows.checkpoint \in {"CLASSIFYING", "EXPANSION_PROPOSING"},
           Fire(rows, "EXPERT_ANSWER_UNBLOCKS", context, rest)
    PROVE  Proceed(Moved(rows, rows.checkpoint), rest)
  <1> DEFINE t == T("WAITING_EXPERT_CONFIRMATION", "EXPERT_ANSWER_UNBLOCKS", "CHECKPOINT",
                    "expert_confirmed_with_checkpoint")
  <1>1. /\ t \in Fired /\ t.source = rows.status /\ t.event = "EXPERT_ANSWER_UNBLOCKS"
        /\ t.target = "CHECKPOINT" /\ t.guard = "expert_confirmed_with_checkpoint"
    BY DEF Fired, T, Expert
  <1> HIDE DEF t
  <1>2. Row(rows, "EXPERT_ANSWER_UNBLOCKS") = {t}
    BY <1>1, FiredAreRows, FiredAlone DEF Row
  <1>3. Engine(rows)!Target(Project, t) = rows.checkpoint
    BY <1>1 DEF Engine!Target, Engine!CHECKPOINT, Project
  <1>4. RowsAgree(rows, t.guard, context)
    BY <1>1 DEF RowsAgree, GateRowsAgree
  <1>5. Engine(rows)!Accepts(Project, t, RowsAgree(rows, t.guard, context))
    BY <1>1, <1>3, <1>4
    DEF Engine!Accepts, Engine!GuardHolds, Engine!CheckpointGuards, Engine!EngineGuards,
        Engine!Unconditional, Project
  <1>6. [rows EXCEPT !.status = rows.checkpoint,
                     !.checkpoint = Engine(rows)!Checkpointed(Project, rows.checkpoint)[Project]]
           = Moved(rows, rows.checkpoint)
    <2>1. Engine(rows)!Checkpointed(Project, rows.checkpoint)[Project] =
             IF rows.checkpoint \in ProductExceptionStates /\ rows.status \notin ProductExceptionStates
             THEN rows.status ELSE rows.checkpoint
      BY DEF Engine!Checkpointed, Engine!Saves, Project
    <2> QED
      BY <2>1 DEF Moved, Shape, Columns
  <1> QED
    BY <1>2, <1>3, <1>5, <1>6 DEF Fire

-----------------------------------------------------------------------------
(* How a step keeps the invariant                                          *)

LEMMA MovedIsSound ==
    ASSUME NEW rows, Sound(rows), NEW target \in ProductStates
    PROVE  Sound(Moved(rows, target))
  <1> DEFINE moved == Moved(rows, target)
  <1>1. /\ Shape(rows) /\ RowsOK(rows) /\ rows.open \cap rows.answered = {} /\ ServersKept(rows)
        /\ rows.status \in ProductStates
    BY EngineStates DEF Sound, RowsOK
  <1>2. /\ Shape(moved) /\ moved.status = target /\ moved.checkpoint \in {rows.status, rows.checkpoint}
        /\ \A c \in Columns \ {"status", "checkpoint"} : moved[c] = rows[c]
    BY <1>1, MovedFields
  <1> HIDE DEF moved
  <1>3. /\ moved.idea = rows.idea /\ moved.documents = rows.documents /\ moved.prd = rows.prd
        /\ moved.verdict = rows.verdict /\ moved.open = rows.open /\ moved.answered = rows.answered
        /\ moved.decisions = rows.decisions /\ moved.proposals = rows.proposals
        /\ moved.providers = rows.providers /\ moved.servers = rows.servers
    BY <1>2 DEF Columns
  <1>4. RowsOK(moved)
    BY <1>1, <1>2, <1>3, EngineStates DEF RowsOK
  <1>5. ServersKept(moved)
    BY <1>1, <1>3 DEF ServersKept
  <1>6. Sound(moved)
    BY <1>1, <1>2, <1>3, <1>4, <1>5 DEF Sound
  <1> QED
    BY <1>6 DEF moved

\* A piece of work is done, and these rows are left.
LEMMA ProceedKeeps ==
    ASSUME IInv, NEW rows, NEW rest \in Pieces \cup {Idle}, Sound(rows), Phase(rows, rest),
           Proceed(rows, rest)
    PROVE  IInv'
  <1>1. tx' = rows /\ step' = rest /\ db' = IF rest = Idle THEN rows ELSE db
    BY DEF Proceed
  <1>2. Idle \notin Pieces /\ "refused" \notin Pieces /\ Idle # "refused"
    BY IdleAssumption DEF Pieces
  <1>3. Sound(db') /\ Phase(db', Idle)
    BY <1>1 DEF IInv
  <1>4. step' \in {Idle, "refused"} => tx' = db'
    BY <1>1, <1>2
  <1>5. step' \in Pieces => Sound(tx') /\ Phase(tx', step')
    BY <1>1
  <1> QED
    BY <1>1, <1>2, <1>3, <1>4, <1>5 DEF IInv, Steps

\* The same with a row of the table.
LEMMA MoveKeeps ==
    ASSUME IInv, NEW rows, Sound(rows), NEW target \in ProductStates,
           NEW rest \in Pieces \cup {Idle}, Phase(Moved(rows, target), rest),
           Proceed(Moved(rows, target), rest)
    PROVE  IInv'
  BY MovedIsSound, ProceedKeeps

\* The session goes back to the committed rows.
LEMMA BackKeeps ==
    ASSUME IInv, tx' = db, db' = db, step' \in {Idle, "refused"}, step' = "refused" => NoInput(db)
    PROVE  IInv'
  <1>1. Idle \notin Pieces /\ "refused" \notin Pieces
    BY IdleAssumption DEF Pieces
  <1> QED
    BY <1>1 DEF IInv, Steps, NoInput

\* The session of a request that has begun, and the rows of one that has not.
LEMMA SessionRows ==
    ASSUME IInv
    PROVE  /\ step = Idle => Sound(db) /\ Phase(db, Idle)
           /\ \A piece \in Pieces : step = piece => Sound(tx) /\ Phase(tx, piece)
  BY DEF IInv

\* With a planning text that is one or nothing, its features are features.
LEMMA TextOfFeatures ==
    ASSUME NEW rows, RowsOK(rows)
    PROVE  Text(rows) \subseteq Features /\ Text(rows) # NoText
  BY TextAssumption DEF RowsOK, Text, Words

-----------------------------------------------------------------------------
(* Requests that leave the status alone                                    *)

LEMMA InitHolds == Init => IInv
  <1> SUFFICES ASSUME Init PROVE IInv
    OBVIOUS
  <1> DEFINE new == NewProject
  <1>1. /\ DOMAIN new = Columns /\ new.status = "IDEA_RECEIVED" /\ new.checkpoint = "none"
        /\ new.idea = NoText /\ new.documents = NoText /\ new.prd = NoText
        /\ new.verdict = NoVerdict /\ new.consultation = NoConsultation
        /\ new.open = {} /\ new.answered = {} /\ new.decisions = 0 /\ new.proposals = {}
        /\ new.providers = Available
        /\ new.servers = [s \in DOMAIN ServerSpecs |-> ServerSpecs[s].status]
    BY DEF NewProject, Columns
  <1> HIDE DEF new
  <1>2. /\ DOMAIN new.verdict = {"text", "confirmed", "answered"} /\ new.verdict.text = NoText
        /\ DOMAIN new.consultation = {"trigger", "status"}
    BY <1>1 DEF NoVerdict, NoConsultation
  <1>3. RowsOK(new)
    BY <1>1, <1>2, StatesNamed, EngineStates, QuestionAssumption DEF RowsOK
  <1>4. ServersKept(new)
    BY <1>1 DEF ServersKept, Forbidden
  <1>5. Sound(new)
    BY <1>1, <1>2, <1>3, <1>4 DEF Sound, Shape
  <1>6. Phase(new, Idle)
    BY <1>1, IdleAssumption
    DEF Phase, VerdictFits, ExpertFits, QuestionsFit, ProvidersFit, PieceFits, Underway, Expert,
        PastGate, RestingStates, StatusOf, Pieces
  <1>7. db = new /\ tx = new /\ step = Idle
    BY DEF Init, new
  <1> QED
    BY <1>5, <1>6, <1>7, IdleAssumption DEF IInv, Steps, Pieces

\* The text and the consultation may change while a project waits.
LEMMA TextKeeps ==
    ASSUME IInv, step = Idle, NEW rows, DOMAIN rows = Columns,
           \A c \in Columns \ {"idea", "documents"} : rows[c] = db[c],
           \A text \in {rows.idea, rows.documents} : text = NoText \/ text \subseteq Features,
           Proceed(rows, Idle)
    PROVE  IInv'
  <1>1. /\ rows.status = db.status /\ rows.checkpoint = db.checkpoint /\ rows.prd = db.prd
        /\ rows.verdict = db.verdict /\ rows.open = db.open /\ rows.answered = db.answered
        /\ rows.decisions = db.decisions /\ rows.proposals = db.proposals
        /\ rows.providers = db.providers /\ rows.servers = db.servers
        /\ rows.consultation = db.consultation
    BY DEF Columns
  <1>2. Sound(db) /\ Phase(db, Idle)
    BY DEF IInv
  <1>3. Sound(rows)
    BY <1>1, <1>2, EngineStates DEF Sound, Shape, RowsOK, ServersKept
  <1>4. Phase(rows, Idle)
    BY <1>1, <1>2, IdleAssumption
    DEF Phase, VerdictFits, ExpertFits, QuestionsFit, ProvidersFit, PieceFits, Underway, Promised,
        Provided, StatusOf, Pieces
  <1> QED
    BY <1>3, <1>4, ProceedKeeps

LEMMA UpdateIdeaKeeps ==
    ASSUME IInv, NEW text \in Ideas, UpdateIdea(text)
    PROVE  IInv'
  <1> DEFINE rows == [db EXCEPT !.idea = text]
  <1>1. step = Idle /\ Proceed(rows, Idle)
    BY DEF UpdateIdea
  <1>2. DOMAIN db = Columns /\ (db.documents = NoText \/ db.documents \subseteq Features)
    BY DEF IInv, Sound, Shape, RowsOK
  <1>3. /\ DOMAIN rows = Columns /\ \A c \in Columns \ {"idea", "documents"} : rows[c] = db[c]
        /\ rows.idea = text /\ rows.documents = db.documents
    BY <1>2 DEF Columns
  <1>4. text \subseteq Features
    BY TextAssumption
  <1> HIDE DEF rows
  <1> QED
    BY <1>1, <1>2, <1>3, <1>4, TextKeeps

LEMMA UploadDocumentKeeps ==
    ASSUME IInv, NEW text \in Ideas, UploadDocument(text)
    PROVE  IInv'
  <1> DEFINE rows == [db EXCEPT !.documents = Words(@) \cup text]
  <1>1. step = Idle /\ Proceed(rows, Idle)
    BY DEF UploadDocument
  <1>2. /\ DOMAIN db = Columns
        /\ db.idea = NoText \/ db.idea \subseteq Features
        /\ db.documents = NoText \/ db.documents \subseteq Features
    BY DEF IInv, Sound, Shape, RowsOK
  <1>3. /\ DOMAIN rows = Columns /\ \A c \in Columns \ {"idea", "documents"} : rows[c] = db[c]
        /\ rows.documents = Words(db.documents) \cup text /\ rows.idea = db.idea
    BY <1>2 DEF Columns
  <1>4. Words(db.documents) \cup text \subseteq Features
    BY <1>2, TextAssumption DEF Words
  <1> HIDE DEF rows
  <1> QED
    BY <1>1, <1>2, <1>3, <1>4, TextKeeps

\* Fresh material for the developer replaces no answer that is needed.
LEMMA ConsultedFields ==
    ASSUME NEW rows, Shape(rows), NEW trigger
    PROVE  /\ Shape(Consulted(rows, trigger))
           /\ Consulted(rows, trigger).consultation.status = "PENDING"
           /\ \A c \in Columns \ {"consultation", "earlier"} : Consulted(rows, trigger)[c] = rows[c]
  BY DEF Shape, Columns, Consulted

LEMMA ConsultedIsSound ==
    ASSUME NEW rows, Sound(rows), NEW trigger
    PROVE  Sound(Consulted(rows, trigger))
  <1> DEFINE new == Consulted(rows, trigger)
  <1>1. Shape(new) /\ \A c \in Columns \ {"consultation", "earlier"} : new[c] = rows[c]
    BY ConsultedFields DEF Sound
  <1> HIDE DEF new
  <1>2. /\ new.status = rows.status /\ new.checkpoint = rows.checkpoint /\ new.prd = rows.prd
        /\ new.idea = rows.idea /\ new.documents = rows.documents
        /\ new.verdict = rows.verdict /\ new.open = rows.open /\ new.answered = rows.answered
        /\ new.decisions = rows.decisions /\ new.proposals = rows.proposals
        /\ new.providers = rows.providers /\ new.servers = rows.servers
    BY <1>1 DEF Columns
  <1>3. Sound(new)
    BY <1>1, <1>2, EngineStates DEF Sound, RowsOK, ServersKept
  <1> QED
    BY <1>3 DEF new

LEMMA CreateManualConsultationKeeps ==
    ASSUME IInv, CreateManualConsultation
    PROVE  IInv'
  <1> DEFINE rows == Consulted(db, "USER_REQUESTED")
  <1>1. step = Idle /\ Proceed(rows, Idle)
    BY DEF CreateManualConsultation
  <1>2. Sound(db) /\ Phase(db, Idle)
    BY DEF IInv
  <1>3. Sound(rows)
    BY <1>2, ConsultedIsSound
  <1>4. /\ rows.consultation.status = "PENDING"
        /\ \A c \in Columns \ {"consultation", "earlier"} : rows[c] = db[c]
    BY <1>2, ConsultedFields DEF Sound
  <1> HIDE DEF rows
  <1>5. /\ rows.status = db.status /\ rows.checkpoint = db.checkpoint /\ rows.prd = db.prd
        /\ rows.verdict = db.verdict /\ rows.open = db.open /\ rows.proposals = db.proposals
        /\ rows.providers = db.providers
    BY <1>4 DEF Columns
  <1>6. Phase(rows, Idle)
    BY <1>2, <1>4, <1>5, IdleAssumption
    DEF Phase, VerdictFits, ExpertFits, QuestionsFit, ProvidersFit, PieceFits, Underway, Promised,
        Provided, StatusOf, Pieces
  <1> QED
    BY <1>1, <1>3, <1>6, ProceedKeeps

LEMMA RollBackKeeps ==
    ASSUME IInv, RollBack
    PROVE  IInv'
  BY BackKeeps, IdleAssumption DEF RollBack

\* A restart takes approvals of servers back, and keeps providers.
LEMMA RestartKeeps ==
    ASSUME IInv, Restart
    PROVE  IInv'
  <1> DEFINE rows == Restarted(db)
  <1>1. db' = rows /\ tx' = rows /\ step' = Idle
    BY DEF Restart
  <1>2. Sound(db) /\ Phase(db, Idle)
    BY DEF IInv
  <1>3. /\ Shape(rows) /\ \A c \in Columns \ {"servers", "providers"} : rows[c] = db[c]
        /\ rows.servers = [s \in DOMAIN ServerSpecs |-> ServerSpecs[s].status]
        /\ rows.providers = db.providers \cup Available
    BY <1>2 DEF Restarted, Sound, Shape, Columns
  <1> HIDE DEF rows
  <1>4. /\ rows.status = db.status /\ rows.checkpoint = db.checkpoint /\ rows.prd = db.prd
        /\ rows.idea = db.idea /\ rows.documents = db.documents
        /\ rows.verdict = db.verdict /\ rows.open = db.open /\ rows.answered = db.answered
        /\ rows.decisions = db.decisions /\ rows.proposals = db.proposals
        /\ rows.consultation = db.consultation
    BY <1>3 DEF Columns
  <1>5. ServersKept(rows)
    BY <1>2, <1>3, <1>4 DEF Sound, ServersKept, Forbidden
  <1>6. Sound(rows)
    BY <1>2, <1>3, <1>4, <1>5, EngineStates DEF Sound, RowsOK
  <1>7. Phase(rows, Idle)
    BY <1>2, <1>3, <1>4, IdleAssumption
    DEF Phase, VerdictFits, ExpertFits, QuestionsFit, ProvidersFit, PieceFits, Underway, Promised,
        Provided, StatusOf, Pieces
  <1> QED
    BY <1>1, <1>6, <1>7, IdleAssumption DEF IInv, Steps, Pieces

-----------------------------------------------------------------------------
(* Requests that fire events: the analysis and the gate                    *)

\* What Phase looks at, after a move.
LEMMA MovedColumns ==
    ASSUME NEW rows, Sound(rows), NEW target
    PROVE  /\ Moved(rows, target).status = target
           /\ Moved(rows, target).checkpoint =
                 IF target \in ProductExceptionStates /\ rows.status \notin ProductExceptionStates
                 THEN rows.status ELSE rows.checkpoint
           /\ Moved(rows, target).verdict = rows.verdict
           /\ Moved(rows, target).open = rows.open
           /\ Moved(rows, target).prd = rows.prd
           /\ Moved(rows, target).proposals = rows.proposals
           /\ Moved(rows, target).providers = rows.providers
           /\ Moved(rows, target).consultation = rows.consultation
           /\ Text(Moved(rows, target)) = Text(rows)
  <1>1. Shape(rows)
    BY DEF Sound
  <1>2. /\ Moved(rows, target).idea = rows.idea
        /\ Moved(rows, target).documents = rows.documents
    BY <1>1, MovedFields DEF Columns
  <1> QED
    BY <1>1, <1>2, MovedFields DEF Columns, Text

\* A row of the table whose guard agrees, and that leads where the work goes on.
LEMMA FireKeeps ==
    ASSUME IInv, NEW source, NEW event, NEW target, NEW guard,
           T(source, event, target, guard) \in Fired, target # "CHECKPOINT",
           NEW rows, Sound(rows), rows.status = source,
           NEW context, Agrees(rows, guard, context),
           NEW rest \in Pieces \cup {Idle}, Phase(Moved(rows, target), rest),
           Fire(rows, event, context, rest)
    PROVE  IInv'
  <1> DEFINE t == T(source, event, target, guard)
  <1>1. t.source = source /\ t.event = event /\ t.target = target /\ t.guard = guard
    BY DEF T
  <1> HIDE DEF t
  <1>2. t \in Fired /\ target \in ProductStates
    BY <1>1, FiredStates DEF t
  <1>3. Proceed(Moved(rows, target), rest)
    BY <1>1, <1>2, FireOutcome DEF Sound
  <1> QED
    BY <1>2, <1>3, MoveKeeps

\* The analysis alone may be refused: of a project with no text.
LEMMA StartKeeps ==
    ASSUME IInv, step = Idle, NEW source, NEW event,
           T(source, event, "DOCUMENT_ANALYZING", "has_planning_input") \in Fired,
           db.status = source, Fire(db, event, NoContext, "analyze")
    PROVE  IInv'
  <1> DEFINE t == T(source, event, "DOCUMENT_ANALYZING", "has_planning_input")
  <1>1. /\ t.source = source /\ t.event = event /\ t.target = "DOCUMENT_ANALYZING"
        /\ t.guard = "has_planning_input"
    BY DEF T
  <1> HIDE DEF t
  <1>2. Sound(db) /\ Phase(db, Idle)
    BY DEF IInv
  <1>3. CASE Proceed(Moved(db, "DOCUMENT_ANALYZING"), "analyze")
    <2>1. Phase(Moved(db, "DOCUMENT_ANALYZING"), "analyze")
      BY <1>2, MovedColumns, IdleAssumption
      DEF Phase, VerdictFits, ExpertFits, QuestionsFit, ProvidersFit, PieceFits, Underway, Expert,
          PastGate, StatusOf, Pieces
    <2> QED
      BY <1>2, <1>3, <2>1, MoveKeeps, StatesNamed DEF Pieces
  <1>4. CASE ~Agrees(db, "has_planning_input", NoContext) /\ tx' = db /\ step' = "refused" /\ db' = db
    <2>1. NoInput(db)
      BY <1>4 DEF Agrees, RowsAgree, GateRowsAgree, NoInput
    <2> QED
      BY <1>4, <2>1, BackKeeps
  <1> QED
    BY <1>1, <1>2, <1>3, <1>4, FireOutcome DEF Sound, t

LEMMA RunAnalysisKeeps ==
    ASSUME IInv, RunAnalysis
    PROVE  IInv'
  <1>1. /\ T("IDEA_RECEIVED", "ANALYSIS_STARTED", "DOCUMENT_ANALYZING", "has_planning_input") \in Fired
        /\ T("AUTO_BLOCKED_BY_POLICY", "ALTERNATIVE_ACCEPTED", "DOCUMENT_ANALYZING",
             "has_planning_input") \in Fired
    BY DEF Fired
  <1> QED
    BY <1>1, StartKeeps DEF RunAnalysis, Request

LEMMA AnalyzeKeeps ==
    ASSUME IInv, Analyze
    PROVE  IInv'
  <1>1. Sound(tx) /\ Phase(tx, "analyze") /\ Fire(tx, "ANALYSIS_COMPLETED", NoContext, "classify")
    BY SessionRows DEF Analyze, Pieces
  <1>2. tx.status = "DOCUMENT_ANALYZING"
    BY <1>1 DEF Phase, PieceFits, StatusOf
  <1>3. T("DOCUMENT_ANALYZING", "ANALYSIS_COMPLETED", "CLASSIFYING", "deferred") \in Fired
    BY DEF Fired
  <1>4. Phase(Moved(tx, "CLASSIFYING"), "classify")
    BY <1>1, MovedColumns, IdleAssumption
    DEF Phase, VerdictFits, ExpertFits, QuestionsFit, ProvidersFit, PieceFits, Underway, Expert,
        PastGate, StatusOf, Pieces
  <1> QED
    BY <1>1, <1>2, <1>3, <1>4, FireKeeps DEF Agrees, Pieces

\* A new verdict, on texts that are features, is as good as the one before.
LEMMA VerdictIsSound ==
    ASSUME NEW rows, Sound(rows), NEW new, DOMAIN new = Columns,
           DOMAIN new.verdict = {"text", "confirmed", "answered"},
           new.verdict.text = NoText \/ new.verdict.text \subseteq Features,
           \A c \in Columns \ {"verdict"} : new[c] = rows[c]
    PROVE  Sound(new)
  <1>1. /\ new.status = rows.status /\ new.checkpoint = rows.checkpoint /\ new.prd = rows.prd
        /\ new.idea = rows.idea /\ new.documents = rows.documents
        /\ new.open = rows.open /\ new.answered = rows.answered
        /\ new.decisions = rows.decisions /\ new.proposals = rows.proposals
        /\ new.providers = rows.providers /\ new.servers = rows.servers
        /\ new.consultation = rows.consultation
    BY DEF Columns
  <1> QED
    BY <1>1, EngineStates DEF Sound, Shape, RowsOK, ServersKept

LEMMA ClassifyKeeps ==
    ASSUME IInv, Classify
    PROVE  IInv'
  <1> DEFINE gate == Gate(Text(tx))
             carried == tx.verdict.confirmed
             verdict == [text |-> Text(tx), confirmed |-> carried, answered |-> FALSE]
             rows == [tx EXCEPT !.verdict = verdict]
  <1>1. /\ step = "classify"
        /\ \/ gate = "BLOCKED" /\ Fire(rows, "PROHIBITED_SCOPE_DETECTED", NoContext, Idle)
           \/ gate = "UNSUPPORTED" /\ Fire(rows, "CLASSIFIED_UNSUPPORTED", NoContext, Idle)
           \/ /\ gate = "NEEDS_EXPERT" /\ carried
              /\ Fire(rows, "EXPERT_CONFIRMED_PROCEED", NoContext, "draft")
           \/ /\ gate = "NEEDS_EXPERT" /\ ~carried
              /\ Fire(ExpertAsked(rows), "CLASSIFIED_EXPERT_REVIEW", NoContext, Idle)
           \/ gate = "NEEDS_APPROVAL" /\ Fire(rows, "CLASSIFIED_AI_ASSISTED", NoContext, Idle)
           \/ gate = "PROCEED" /\ Fire(rows, "CLASSIFIED_SELF_SERVICE", NoContext, "draft")
    BY DEF Classify
  <1>2. Sound(tx) /\ Phase(tx, "classify")
    BY <1>1, SessionRows DEF Pieces
  <1>3. tx.status = "CLASSIFYING"
    BY <1>2 DEF Phase, PieceFits, StatusOf
  <1>4. Text(tx) \subseteq Features /\ Text(tx) # NoText
    BY <1>2, TextOfFeatures DEF Sound
  <1>5. /\ DOMAIN rows = Columns /\ rows.verdict = verdict
        /\ \A c \in Columns \ {"verdict"} : rows[c] = tx[c]
    BY <1>2 DEF Sound, Shape, Columns
  <1>6. /\ DOMAIN verdict = {"text", "confirmed", "answered"}
        /\ verdict.text = Text(tx) /\ verdict.confirmed = carried /\ verdict.answered = FALSE
    OBVIOUS
  <1> HIDE DEF rows, verdict
  <1>7. Sound(rows)
    BY <1>2, <1>4, <1>5, <1>6, VerdictIsSound
  <1>8. rows.status = "CLASSIFYING"
    BY <1>3, <1>5 DEF Columns
  <1>9. /\ rows.verdict.text = Text(tx) /\ rows.verdict.confirmed = carried
        /\ Judged(rows)
    BY <1>4, <1>5, <1>6 DEF Judged
  <1>10. /\ gate = "BLOCKED" <=> Mentions(Text(tx), "prohibited")
         /\ gate \in {"NEEDS_EXPERT", "NEEDS_APPROVAL", "PROCEED"} => HarmlessText(Text(tx))
         /\ gate = "NEEDS_EXPERT" => Mentions(Text(tx), "expert_review")
         /\ gate = "PROCEED" => ~Mentions(Text(tx), "expert_review")
         /\ gate = "PROCEED" => ~Mentions(Text(tx), "risky")
    BY <1>4 DEF Gate, HarmlessText
  <1> HIDE DEF gate, carried
  <1>11. CASE gate = "BLOCKED" /\ Fire(rows, "PROHIBITED_SCOPE_DETECTED", NoContext, Idle)
    <2>1. T("CLASSIFYING", "PROHIBITED_SCOPE_DETECTED", "AUTO_BLOCKED_BY_POLICY",
            "prohibited_detected") \in Fired
      BY DEF Fired
    <2>2. Agrees(rows, "prohibited_detected", NoContext)
      BY <1>9, <1>10, <1>11 DEF Agrees, RowsAgree, GateRowsAgree
    <2>3. Phase(Moved(rows, "AUTO_BLOCKED_BY_POLICY"), Idle)
      BY <1>7, MovedColumns, IdleAssumption
      DEF Phase, VerdictFits, ExpertFits, QuestionsFit, ProvidersFit, PieceFits, Underway, Expert,
          PastGate, RestingStates, StatusOf, Pieces
    <2> QED
      BY <1>7, <1>8, <1>11, <2>1, <2>2, <2>3, FireKeeps
  <1>12. CASE gate = "UNSUPPORTED" /\ Fire(rows, "CLASSIFIED_UNSUPPORTED", NoContext, Idle)
    <2>1. T("CLASSIFYING", "CLASSIFIED_UNSUPPORTED", "CANCELLED", "classification_saved") \in Fired
      BY DEF Fired
    <2>2. Agrees(rows, "classification_saved", NoContext)
      BY <1>9 DEF Agrees, RowsAgree, GateRowsAgree
    <2>3. Phase(Moved(rows, "CANCELLED"), Idle)
      BY <1>7, MovedColumns, IdleAssumption
      DEF Phase, VerdictFits, ExpertFits, QuestionsFit, ProvidersFit, PieceFits, Underway, Expert,
          PastGate, RestingStates, StatusOf, Pieces
    <2> QED
      BY <1>7, <1>8, <1>12, <2>1, <2>2, <2>3, FireKeeps
  <1>13. CASE gate = "NEEDS_EXPERT" /\ carried
                 /\ Fire(rows, "EXPERT_CONFIRMED_PROCEED", NoContext, "draft")
    <2>1. T("CLASSIFYING", "EXPERT_CONFIRMED_PROCEED", "REQUIREMENT_DRAFTING",
            "expert_confirmed") \in Fired
      BY DEF Fired
    <2>2. Agrees(rows, "expert_confirmed", NoContext)
      BY <1>9, <1>13 DEF Agrees, RowsAgree, GateRowsAgree
    <2>3. Cleared(rows.verdict)
      BY <1>9, <1>10, <1>13 DEF Cleared
    <2>4. Phase(Moved(rows, "REQUIREMENT_DRAFTING"), "draft")
      BY <1>7, <2>3, MovedColumns, IdleAssumption
      DEF Phase, VerdictFits, ExpertFits, QuestionsFit, ProvidersFit, PieceFits, Underway, Expert,
          StatusOf, Pieces
    <2> QED
      BY <1>7, <1>8, <1>13, <2>1, <2>2, <2>4, FireKeeps DEF Pieces
  <1>14. CASE gate = "NEEDS_EXPERT" /\ ~carried
                 /\ Fire(ExpertAsked(rows), "CLASSIFIED_EXPERT_REVIEW", NoContext, Idle)
    <2> DEFINE asked == Consulted(rows, "EXPERT_REQUIRED")
    <2>1. T("CLASSIFYING", "CLASSIFIED_EXPERT_REVIEW", "WAITING_EXPERT_CONFIRMATION",
            "expert_not_confirmed") \in Fired
      BY DEF Fired
    <2>2. Sound(asked)
      BY <1>7, ConsultedIsSound
    <2>3. /\ asked.consultation.status = "PENDING"
          /\ asked.status = "CLASSIFYING" /\ asked.verdict = rows.verdict
      BY <1>7, <1>8, ConsultedFields DEF Sound, Columns
    <2>4. Fire(asked, "CLASSIFIED_EXPERT_REVIEW", NoContext, Idle)
      BY <1>14 DEF ExpertAsked
    <2> HIDE DEF asked
    <2>5. Agrees(asked, "expert_not_confirmed", NoContext)
      BY <1>9, <1>14, <2>3 DEF Agrees, RowsAgree, GateRowsAgree, Judged
    <2>6. HarmlessText(asked.verdict.text)
      BY <1>9, <1>10, <1>14, <2>3
    <2>7. Phase(Moved(asked, "WAITING_EXPERT_CONFIRMATION"), Idle)
      BY <2>2, <2>3, <2>6, MovedColumns, IdleAssumption
      DEF Phase, VerdictFits, ExpertFits, QuestionsFit, ProvidersFit, PieceFits, Underway, Expert,
          PastGate, RestingStates, StatusOf, Pieces, ProductExceptionStates
    <2> QED
      BY <2>1, <2>2, <2>3, <2>4, <2>5, <2>7, FireKeeps
  <1>15. CASE gate = "NEEDS_APPROVAL" /\ Fire(rows, "CLASSIFIED_AI_ASSISTED", NoContext, Idle)
    <2>1. T("CLASSIFYING", "CLASSIFIED_AI_ASSISTED", "WAITING_APPROVAL", "classification_saved") \in Fired
      BY DEF Fired
    <2>2. Agrees(rows, "classification_saved", NoContext)
      BY <1>9 DEF Agrees, RowsAgree, GateRowsAgree
    <2>3. HarmlessText(rows.verdict.text)
      BY <1>9, <1>10, <1>15
    <2>4. Phase(Moved(rows, "WAITING_APPROVAL"), Idle)
      BY <1>7, <2>3, MovedColumns, IdleAssumption
      DEF Phase, VerdictFits, ExpertFits, QuestionsFit, ProvidersFit, PieceFits, Underway, Expert,
          PastGate, RestingStates, StatusOf, Pieces
    <2> QED
      BY <1>7, <1>8, <1>15, <2>1, <2>2, <2>4, FireKeeps
  <1>16. CASE gate = "PROCEED" /\ Fire(rows, "CLASSIFIED_SELF_SERVICE", NoContext, "draft")
    <2>1. T("CLASSIFYING", "CLASSIFIED_SELF_SERVICE", "REQUIREMENT_DRAFTING",
            "classification_saved") \in Fired
      BY DEF Fired
    <2>2. Agrees(rows, "classification_saved", NoContext)
      BY <1>9 DEF Agrees, RowsAgree, GateRowsAgree
    <2>3. Cleared(rows.verdict)
      BY <1>9, <1>10, <1>16 DEF Cleared
    <2>4. Phase(Moved(rows, "REQUIREMENT_DRAFTING"), "draft")
      BY <1>7, <2>3, MovedColumns, IdleAssumption
      DEF Phase, VerdictFits, ExpertFits, QuestionsFit, ProvidersFit, PieceFits, Underway, Expert,
          StatusOf, Pieces
    <2> QED
      BY <1>7, <1>8, <1>16, <2>1, <2>2, <2>4, FireKeeps DEF Pieces
  <1> QED
    BY <1>1, <1>11, <1>12, <1>13, <1>14, <1>15, <1>16

-----------------------------------------------------------------------------
(* Drafts, answers and decisions of the user                               *)

\* Questions, decisions and approvals are written; the rest stays.
LEMMA AnswersAreSound ==
    ASSUME NEW rows, Sound(rows), NEW new, DOMAIN new = Columns,
           \A c \in Columns \ {"open", "answered", "decisions", "approvals"} : new[c] = rows[c],
           new.open \cup new.answered \subseteq QuestionKeys, new.open \cap new.answered = {},
           new.decisions \in 0..MaxDecisions
    PROVE  /\ Sound(new)
           /\ new.status = rows.status /\ new.checkpoint = rows.checkpoint
           /\ new.verdict = rows.verdict /\ new.prd = rows.prd /\ new.proposals = rows.proposals
           /\ new.providers = rows.providers /\ new.consultation = rows.consultation
  <1>1. /\ new.status = rows.status /\ new.checkpoint = rows.checkpoint /\ new.prd = rows.prd
        /\ new.idea = rows.idea /\ new.documents = rows.documents /\ new.verdict = rows.verdict
        /\ new.proposals = rows.proposals /\ new.providers = rows.providers
        /\ new.servers = rows.servers /\ new.consultation = rows.consultation
    BY DEF Columns
  <1> QED
    BY <1>1, EngineStates DEF Sound, Shape, RowsOK, ServersKept

\* A draft asks what was not asked before.
LEMMA DraftKeeps ==
    ASSUME IInv, Draft
    PROVE  IInv'
  <1>1. Sound(tx) /\ Phase(tx, "draft")
    BY SessionRows DEF Draft, Pieces
  <1>2. PICK asked \in SUBSET Unasked(tx) :
            LET rows == [tx EXCEPT !.open = @ \cup asked]
            IN  \/ rows.open # {} /\ Fire(rows, "DRAFT_HAS_UNKNOWNS", NoContext, Idle)
                \/ rows.open = {} /\ Fire(rows, "DRAFT_COMPLETED", NoContext, Idle)
    BY DEF Draft
  <1> DEFINE rows == [tx EXCEPT !.open = @ \cup asked]
  <1>3. /\ DOMAIN rows = Columns /\ rows.open = tx.open \cup asked
        /\ \A c \in Columns \ {"open"} : rows[c] = tx[c]
    BY <1>1 DEF Sound, Shape, Columns
  <1>4. \/ rows.open # {} /\ Fire(rows, "DRAFT_HAS_UNKNOWNS", NoContext, Idle)
        \/ rows.open = {} /\ Fire(rows, "DRAFT_COMPLETED", NoContext, Idle)
    BY <1>2
  <1> HIDE DEF rows
  <1>5. /\ tx.open \cup tx.answered \subseteq QuestionKeys /\ tx.open \cap tx.answered = {}
        /\ tx.decisions \in 0..MaxDecisions
    BY <1>1 DEF Sound, RowsOK
  <1>6. asked \subseteq QuestionKeys /\ asked \cap (tx.open \cup tx.answered) = {}
    BY <1>5, QuestionAssumption DEF Unasked, Conflicts, QuestionKeys
  <1>7. rows.answered = tx.answered /\ rows.decisions = tx.decisions
    BY <1>3 DEF Columns
  <1>8. /\ Sound(rows)
        /\ rows.status = tx.status /\ rows.verdict = tx.verdict
    BY <1>1, <1>3, <1>5, <1>6, <1>7, AnswersAreSound
  <1>9. rows.status = "REQUIREMENT_DRAFTING" /\ Cleared(rows.verdict)
    BY <1>1, <1>8 DEF Phase, PieceFits, StatusOf, VerdictFits, PastGate
  <1>10. CASE rows.open # {} /\ Fire(rows, "DRAFT_HAS_UNKNOWNS", NoContext, Idle)
    <2>1. T("REQUIREMENT_DRAFTING", "DRAFT_HAS_UNKNOWNS", "WAITING_REQUIREMENT_INPUT",
            "open_questions_exist") \in Fired
      BY DEF Fired
    <2>2. Agrees(rows, "open_questions_exist", NoContext)
      BY <1>10 DEF Agrees, RowsAgree, GateRowsAgree
    <2>3. Phase(Moved(rows, "WAITING_REQUIREMENT_INPUT"), Idle)
      BY <1>8, <1>9, <1>10, MovedColumns, IdleAssumption
      DEF Phase, VerdictFits, ExpertFits, QuestionsFit, ProvidersFit, PieceFits, Underway, Expert,
          RestingStates, StatusOf, Pieces
    <2> QED
      BY <1>8, <1>9, <1>10, <2>1, <2>2, <2>3, FireKeeps
  <1>11. CASE rows.open = {} /\ Fire(rows, "DRAFT_COMPLETED", NoContext, Idle)
    <2>1. T("REQUIREMENT_DRAFTING", "DRAFT_COMPLETED", "WAITING_REQUIREMENT_APPROVAL",
            "no_open_questions") \in Fired
      BY DEF Fired
    <2>2. Agrees(rows, "no_open_questions", NoContext)
      BY <1>11 DEF Agrees, RowsAgree, GateRowsAgree
    <2>3. Phase(Moved(rows, "WAITING_REQUIREMENT_APPROVAL"), Idle)
      BY <1>8, <1>9, <1>11, MovedColumns, IdleAssumption
      DEF Phase, VerdictFits, ExpertFits, QuestionsFit, ProvidersFit, PieceFits, Underway, Expert,
          RestingStates, StatusOf, Pieces
    <2> QED
      BY <1>8, <1>9, <1>11, <2>1, <2>2, <2>3, FireKeeps
  <1> QED
    BY <1>4, <1>10, <1>11

LEMMA AnswerQuestionKeeps ==
    ASSUME IInv, NEW key, AnswerQuestion(key)
    PROVE  IInv'
  <1> DEFINE rows == Answered(key)
  <1>1. /\ step = Idle /\ db.status = "WAITING_REQUIREMENT_INPUT"
        /\ key \in db.open /\ db.decisions < MaxDecisions
        /\ \/ rows.open # {} /\ Proceed(rows, Idle)
           \/ rows.open = {} /\ Fire(rows, "USER_ANSWERED", NoContext, "draft")
    BY DEF AnswerQuestion, Request
  <1>2. Sound(db) /\ Phase(db, Idle)
    BY DEF IInv
  <1>3. /\ DOMAIN rows = Columns
        /\ rows.open = db.open \ {key} /\ rows.answered = db.answered \cup {key}
        /\ rows.decisions = db.decisions + 1
        /\ \A c \in Columns \ {"open", "answered", "decisions"} : rows[c] = db[c]
    BY <1>2 DEF Answered, Noted, Sound, Shape, Columns
  <1> HIDE DEF rows
  <1>4. /\ db.open \cup db.answered \subseteq QuestionKeys /\ db.open \cap db.answered = {}
        /\ db.decisions \in 0..MaxDecisions
    BY <1>2 DEF Sound, RowsOK
  <1>5. rows.decisions \in 0..MaxDecisions
    BY <1>1, <1>3, <1>4, QuestionAssumption
  <1>6. /\ Sound(rows) /\ rows.status = db.status /\ rows.checkpoint = db.checkpoint
        /\ rows.verdict = db.verdict /\ rows.consultation = db.consultation
    BY <1>1, <1>2, <1>3, <1>4, <1>5, AnswersAreSound
  <1>7. Cleared(rows.verdict)
    BY <1>1, <1>2, <1>6 DEF Phase, VerdictFits, PastGate
  <1>8. CASE rows.open # {} /\ Proceed(rows, Idle)
    <2>1. Phase(rows, Idle)
      BY <1>1, <1>6, <1>7, <1>8, IdleAssumption
      DEF Phase, VerdictFits, ExpertFits, QuestionsFit, ProvidersFit, PieceFits, Underway, Expert,
          RestingStates, StatusOf, Pieces
    <2> QED
      BY <1>6, <1>8, <2>1, ProceedKeeps
  <1>9. CASE rows.open = {} /\ Fire(rows, "USER_ANSWERED", NoContext, "draft")
    <2>1. T("WAITING_REQUIREMENT_INPUT", "USER_ANSWERED", "REQUIREMENT_DRAFTING",
            "answered_question_exists") \in Fired
      BY DEF Fired
    <2>2. Agrees(rows, "answered_question_exists", NoContext)
      BY <1>3 DEF Agrees, RowsAgree, GateRowsAgree
    <2>3. Phase(Moved(rows, "REQUIREMENT_DRAFTING"), "draft")
      BY <1>6, <1>7, MovedColumns, IdleAssumption
      DEF Phase, VerdictFits, ExpertFits, QuestionsFit, ProvidersFit, PieceFits, Underway, Expert,
          StatusOf, Pieces
    <2> QED
      BY <1>1, <1>6, <1>9, <2>1, <2>2, <2>3, FireKeeps DEF Pieces
  <1> QED
    BY <1>1, <1>8, <1>9

\* A decision of the user adds its approval, and nothing else.
LEMMA DecidedIsSound ==
    ASSUME IInv, NEW type, NEW approved
    PROVE  LET rows == Decided(type, approved)
           IN  /\ Sound(rows) /\ <<type, approved>> \in rows.approvals
               /\ \A c \in Columns \ {"approvals"} : rows[c] = db[c]
  <1> DEFINE rows == Decided(type, approved)
  <1>1. Sound(db)
    BY DEF IInv
  <1>2. /\ DOMAIN rows = Columns /\ <<type, approved>> \in rows.approvals
        /\ \A c \in Columns \ {"approvals"} : rows[c] = db[c]
    BY <1>1 DEF Decided, Sound, Shape, Columns
  <1> HIDE DEF rows
  <1>3. /\ rows.open \cup rows.answered \subseteq QuestionKeys /\ rows.open \cap rows.answered = {}
        /\ rows.decisions \in 0..MaxDecisions
    BY <1>1, <1>2 DEF Sound, RowsOK, Columns
  <1>4. Sound(rows)
    BY <1>1, <1>2, <1>3, AnswersAreSound
  <1> QED
    BY <1>2, <1>4 DEF rows

LEMMA DecideRequirementsKeeps ==
    ASSUME IInv, NEW approved \in BOOLEAN, DecideRequirements(approved)
    PROVE  IInv'
  <1> DEFINE rows == Decided("REQUIREMENTS", approved)
  <1>1. /\ step = Idle /\ db.status = "WAITING_REQUIREMENT_APPROVAL"
        /\ \/ approved /\ Fire(rows, "REQUIREMENTS_APPROVED", NoContext, "specify")
           \/ ~approved /\ Fire(rows, "CHANGES_REQUESTED", NoContext, "draft")
    BY DEF DecideRequirements, Request
  <1>2. Phase(db, Idle)
    BY DEF IInv
  <1>3. /\ Sound(rows) /\ <<"REQUIREMENTS", approved>> \in rows.approvals
        /\ \A c \in Columns \ {"approvals"} : rows[c] = db[c]
    BY DecidedIsSound
  <1> HIDE DEF rows
  <1>4. /\ rows.status = "WAITING_REQUIREMENT_APPROVAL"
        /\ rows.verdict = db.verdict /\ rows.open = db.open
    BY <1>1, <1>3 DEF Columns
  <1>5. Cleared(rows.verdict) /\ rows.open = {}
    BY <1>1, <1>2, <1>4 DEF Phase, VerdictFits, PastGate, QuestionsFit, Underway, Expert
  <1>6. CASE approved /\ Fire(rows, "REQUIREMENTS_APPROVED", NoContext, "specify")
    <2>1. T("WAITING_REQUIREMENT_APPROVAL", "REQUIREMENTS_APPROVED", "SPECIFICATION_GENERATING",
            "requirements_approval_exists") \in Fired
      BY DEF Fired
    <2>2. approved = TRUE
      BY <1>6
    <2>3. Agrees(rows, "requirements_approval_exists", NoContext)
      BY <1>3, <2>2 DEF Agrees, RowsAgree, ApprovalRowsAgree
    <2>4. Phase(Moved(rows, "SPECIFICATION_GENERATING"), "specify")
      BY <1>3, <1>4, <1>5, MovedColumns, IdleAssumption
      DEF Phase, VerdictFits, ExpertFits, QuestionsFit, ProvidersFit, PieceFits, Underway, Expert,
          StatusOf, Pieces
    <2> QED
      BY <1>3, <1>4, <1>6, <2>1, <2>3, <2>4, FireKeeps DEF Pieces
  <1>7. CASE ~approved /\ Fire(rows, "CHANGES_REQUESTED", NoContext, "draft")
    <2>1. T("WAITING_REQUIREMENT_APPROVAL", "CHANGES_REQUESTED", "REQUIREMENT_DRAFTING",
            "requirements_change_request_exists") \in Fired
      BY DEF Fired
    <2>2. approved = FALSE
      BY <1>7
    <2>3. Agrees(rows, "requirements_change_request_exists", NoContext)
      BY <1>3, <2>2 DEF Agrees, RowsAgree, ApprovalRowsAgree
    <2>4. Phase(Moved(rows, "REQUIREMENT_DRAFTING"), "draft")
      BY <1>3, <1>4, <1>5, MovedColumns, IdleAssumption
      DEF Phase, VerdictFits, ExpertFits, QuestionsFit, ProvidersFit, PieceFits, Underway, Expert,
          StatusOf, Pieces
    <2> QED
      BY <1>3, <1>4, <1>7, <2>1, <2>3, <2>4, FireKeeps DEF Pieces
  <1> QED
    BY <1>1, <1>6, <1>7

\* Somebody decides on the verdict of sound rows, and may confirm it.
LEMMA DecidedVerdict ==
    ASSUME NEW rows, Sound(rows), NEW new, DOMAIN new = Columns,
           DOMAIN new.verdict = {"text", "confirmed", "answered"},
           new.verdict.text = rows.verdict.text, new.verdict.answered = TRUE,
           \A c \in Columns \ {"verdict"} : new[c] = rows[c]
    PROVE  /\ Sound(new)
           /\ HarmlessText(rows.verdict.text) => Cleared(new.verdict)
  <1>1. rows.verdict.text = NoText \/ rows.verdict.text \subseteq Features
    BY DEF Sound, RowsOK
  <1>2. Sound(new)
    BY <1>1, VerdictIsSound
  <1>3. HarmlessText(rows.verdict.text) => Cleared(new.verdict)
    BY DEF Cleared
  <1> QED
    BY <1>2, <1>3

LEMMA DecideReducedScopeKeeps ==
    ASSUME IInv, NEW approved \in BOOLEAN, DecideReducedScope(approved)
    PROVE  IInv'
  <1> DEFINE rows == Decided("REDUCED_SCOPE", approved)
             noted == Noted(rows)
             answered == [noted EXCEPT !.verdict.answered = TRUE]
  <1>1. /\ step = Idle /\ db.status = "WAITING_APPROVAL"
        /\ \/ /\ approved /\ db.decisions < MaxDecisions
              /\ Fire(answered, "APPROVAL_GRANTED", NoContext, "draft")
           \/ ~approved /\ Fire(rows, "APPROVAL_DENIED", NoContext, Idle)
    BY DEF DecideReducedScope, Request
  <1>2. Sound(db) /\ Phase(db, Idle)
    BY DEF IInv
  <1>3. /\ Sound(rows) /\ <<"REDUCED_SCOPE", approved>> \in rows.approvals
        /\ \A c \in Columns \ {"approvals"} : rows[c] = db[c]
    BY DecidedIsSound
  <1>4. noted = [rows EXCEPT !.decisions = @ + 1]
    BY DEF Noted
  <1> HIDE DEF rows, noted, answered
  <1>5. /\ rows.status = "WAITING_APPROVAL" /\ rows.verdict = db.verdict
        /\ rows.decisions = db.decisions
    BY <1>1, <1>3 DEF Columns
  <1>6. HarmlessText(rows.verdict.text)
    BY <1>1, <1>2, <1>5 DEF Phase, VerdictFits
  <1>7. CASE approved /\ db.decisions < MaxDecisions
                /\ Fire(answered, "APPROVAL_GRANTED", NoContext, "draft")
    <2>1. approved = TRUE
      BY <1>7
    <2>2. /\ DOMAIN noted = Columns /\ noted.decisions = rows.decisions + 1
          /\ \A c \in Columns \ {"decisions"} : noted[c] = rows[c]
      BY <1>3, <1>4 DEF Sound, Shape, Columns
    <2>3. rows.decisions \in 0..MaxDecisions /\ noted.decisions \in 0..MaxDecisions
      BY <1>2, <1>5, <1>7, <2>2, QuestionAssumption DEF Sound, RowsOK
    <2>4. /\ noted.open \cup noted.answered \subseteq QuestionKeys
          /\ noted.open \cap noted.answered = {}
      BY <1>3, <2>2 DEF Sound, RowsOK, Columns
    <2>5. Sound(noted) /\ noted.status = rows.status /\ noted.verdict = rows.verdict
      BY <1>3, <2>2, <2>3, <2>4, AnswersAreSound
    <2>6. /\ DOMAIN answered = Columns
          /\ answered.verdict = [noted.verdict EXCEPT !.answered = TRUE]
          /\ \A c \in Columns \ {"verdict"} : answered[c] = noted[c]
      BY <2>2 DEF answered, Columns
    <2>7. /\ DOMAIN answered.verdict = {"text", "confirmed", "answered"}
          /\ answered.verdict.text = noted.verdict.text /\ answered.verdict.answered = TRUE
      BY <2>5, <2>6 DEF Sound, Shape
    <2>8. Sound(answered) /\ Cleared(answered.verdict)
      BY <1>6, <2>5, <2>6, <2>7, DecidedVerdict
    <2>9. answered.status = "WAITING_APPROVAL" /\ answered.approvals = rows.approvals
      BY <1>5, <2>2, <2>6 DEF Columns
    <2>10. T("WAITING_APPROVAL", "APPROVAL_GRANTED", "REQUIREMENT_DRAFTING",
             "reduced_scope_approval_exists") \in Fired
      BY DEF Fired
    <2>11. Agrees(answered, "reduced_scope_approval_exists", NoContext)
      BY <1>3, <2>1, <2>9 DEF Agrees, RowsAgree, ApprovalRowsAgree
    <2>12. Phase(Moved(answered, "REQUIREMENT_DRAFTING"), "draft")
      BY <2>8, MovedColumns, IdleAssumption
      DEF Phase, VerdictFits, ExpertFits, QuestionsFit, ProvidersFit, PieceFits, Underway, Expert,
          StatusOf, Pieces
    <2> QED
      BY <1>7, <2>8, <2>9, <2>10, <2>11, <2>12, FireKeeps DEF Pieces
  <1>8. CASE ~approved /\ Fire(rows, "APPROVAL_DENIED", NoContext, Idle)
    <2>1. T("WAITING_APPROVAL", "APPROVAL_DENIED", "CANCELLED", "none") \in Fired
      BY DEF Fired
    <2>2. Agrees(rows, "none", NoContext)
      BY DEF Agrees
    <2>3. Phase(Moved(rows, "CANCELLED"), Idle)
      BY <1>3, MovedColumns, IdleAssumption
      DEF Phase, VerdictFits, ExpertFits, QuestionsFit, ProvidersFit, PieceFits, Underway, Expert,
          PastGate, RestingStates, StatusOf, Pieces
    <2> QED
      BY <1>3, <1>5, <1>8, <2>1, <2>2, <2>3, FireKeeps
  <1> QED
    BY <1>1, <1>7, <1>8

-----------------------------------------------------------------------------
(* Specification, capability gap and backlog                               *)

\* Documents are generated from the rows; the rest stays.
LEMMA DocumentsAreSound ==
    ASSUME NEW rows, Sound(rows), NEW new, DOMAIN new = Columns,
           \A c \in Columns \ {"prd", "backlog"} : new[c] = rows[c],
           new.prd = NoText \/ new.prd \subseteq Features
    PROVE  /\ Sound(new)
           /\ new.status = rows.status /\ new.verdict = rows.verdict /\ new.open = rows.open
           /\ new.proposals = rows.proposals /\ new.providers = rows.providers
           /\ Text(new) = Text(rows)
  <1>1. /\ new.status = rows.status /\ new.checkpoint = rows.checkpoint
        /\ new.idea = rows.idea /\ new.documents = rows.documents /\ new.verdict = rows.verdict
        /\ new.open = rows.open /\ new.answered = rows.answered /\ new.decisions = rows.decisions
        /\ new.proposals = rows.proposals /\ new.providers = rows.providers
        /\ new.servers = rows.servers /\ new.consultation = rows.consultation
    BY DEF Columns
  <1> QED
    BY <1>1, EngineStates DEF Sound, Shape, RowsOK, ServersKept, Text

LEMMA SpecifyKeeps ==
    ASSUME IInv, Specify
    PROVE  IInv'
  <1> DEFINE rows == [tx EXCEPT !.prd = Text(tx)]
  <1>1. Sound(tx) /\ Phase(tx, "specify") /\ Fire(rows, "SPEC_COMPLETED", NoContext, "gap")
    BY SessionRows DEF Specify, Pieces
  <1>2. Text(tx) \subseteq Features /\ Text(tx) # NoText
    BY <1>1, TextOfFeatures DEF Sound
  <1>3. /\ DOMAIN rows = Columns /\ rows.prd = Text(tx)
        /\ \A c \in Columns \ {"prd"} : rows[c] = tx[c]
    BY <1>1 DEF Sound, Shape, Columns
  <1> HIDE DEF rows
  <1>4. /\ Sound(rows) /\ rows.status = tx.status /\ rows.verdict = tx.verdict
        /\ rows.open = tx.open /\ Text(rows) = Text(tx)
    BY <1>1, <1>2, <1>3, DocumentsAreSound
  <1>5. rows.status = "SPECIFICATION_GENERATING" /\ Cleared(rows.verdict) /\ rows.open = {}
    BY <1>1, <1>4
    DEF Phase, PieceFits, StatusOf, VerdictFits, PastGate, QuestionsFit, Underway, Expert
  <1>6. T("SPECIFICATION_GENERATING", "SPEC_COMPLETED", "CAPABILITY_ANALYZING",
          "prd_document_exists") \in Fired
    BY DEF Fired
  <1>7. Agrees(rows, "prd_document_exists", NoContext)
    BY <1>2, <1>3 DEF Agrees, RowsAgree, ApprovalRowsAgree
  <1>8. Phase(Moved(rows, "CAPABILITY_ANALYZING"), "gap")
    BY <1>3, <1>4, <1>5, MovedColumns, IdleAssumption
    DEF Phase, VerdictFits, ExpertFits, QuestionsFit, ProvidersFit, PieceFits, Underway, Expert,
        StatusOf, Pieces
  <1> QED
    BY <1>1, <1>4, <1>5, <1>6, <1>7, <1>8, FireKeeps DEF Pieces

LEMMA AnalyzeGapKeeps ==
    ASSUME IInv, AnalyzeGap
    PROVE  IInv'
  <1> DEFINE context == [NoContext EXCEPT !.missing = Missing(tx)]
  <1>1. /\ Sound(tx) /\ Phase(tx, "gap")
        /\ \/ Missing(tx) # {} /\ Fire(tx, "GAP_FOUND", context, "expand")
           \/ Missing(tx) = {} /\ Fire(tx, "NO_GAP_FOUND", context, "backlog")
    BY SessionRows DEF AnalyzeGap, Pieces
  <1>2. context.missing = Missing(tx)
    BY DEF NoContext
  <1> HIDE DEF context
  <1>3. /\ tx.status = "CAPABILITY_ANALYZING" /\ Cleared(tx.verdict) /\ tx.open = {}
        /\ tx.prd = Text(tx)
    BY <1>1
    DEF Phase, PieceFits, StatusOf, VerdictFits, PastGate, QuestionsFit, Underway, Expert
  <1>4. CASE Missing(tx) # {} /\ Fire(tx, "GAP_FOUND", context, "expand")
    <2>1. T("CAPABILITY_ANALYZING", "GAP_FOUND", "EXPANSION_PROPOSING",
            "capability_gap_exists") \in Fired
      BY DEF Fired
    <2>2. Agrees(tx, "capability_gap_exists", context)
      BY <1>2, <1>4 DEF Agrees, RowsAgree, ContextAgrees
    <2>3. Missing(Moved(tx, "EXPANSION_PROPOSING")) = Missing(tx)
      BY <1>1, MovedColumns DEF Missing
    <2>4. Phase(Moved(tx, "EXPANSION_PROPOSING"), "expand")
      BY <1>1, <1>3, <1>4, <2>3, MovedColumns, IdleAssumption
      DEF Phase, VerdictFits, ExpertFits, QuestionsFit, ProvidersFit, PieceFits, Underway, Expert,
          StatusOf, Pieces
    <2> QED
      BY <1>1, <1>3, <1>4, <2>1, <2>2, <2>4, FireKeeps DEF Pieces
  <1>5. CASE Missing(tx) = {} /\ Fire(tx, "NO_GAP_FOUND", context, "backlog")
    <2>1. T("CAPABILITY_ANALYZING", "NO_GAP_FOUND", "BACKLOG_GENERATING", "capability_no_gap") \in Fired
      BY DEF Fired
    <2>2. Agrees(tx, "capability_no_gap", context)
      BY <1>2, <1>5 DEF Agrees, RowsAgree, ContextAgrees
    <2>3. Needs(tx.prd) \subseteq tx.providers
      BY <1>3, <1>5 DEF Missing
    <2>4. Phase(Moved(tx, "BACKLOG_GENERATING"), "backlog")
      BY <1>1, <1>3, <2>3, MovedColumns, IdleAssumption
      DEF Phase, VerdictFits, ExpertFits, QuestionsFit, ProvidersFit, PieceFits, Underway, Expert,
          StatusOf, Pieces, Provided
    <2> QED
      BY <1>1, <1>3, <1>5, <2>1, <2>2, <2>4, FireKeeps DEF Pieces
  <1> QED
    BY <1>1, <1>4, <1>5

LEMMA GenerateBacklogKeeps ==
    ASSUME IInv, GenerateBacklog
    PROVE  IInv'
  <1> DEFINE rows == [tx EXCEPT !.backlog = TRUE]
  <1>1. Sound(tx) /\ Phase(tx, "backlog") /\ Fire(rows, "BACKLOG_READY_EXISTING", NoContext, Idle)
    BY SessionRows DEF GenerateBacklog, Pieces
  <1>2. /\ DOMAIN rows = Columns /\ rows.backlog = TRUE /\ rows.prd = tx.prd
        /\ \A c \in Columns \ {"backlog"} : rows[c] = tx[c]
    BY <1>1 DEF Sound, Shape, Columns
  <1> HIDE DEF rows
  <1>3. tx.prd = NoText \/ tx.prd \subseteq Features
    BY <1>1 DEF Sound, RowsOK
  <1>4. /\ Sound(rows) /\ rows.status = tx.status /\ rows.verdict = tx.verdict
        /\ rows.open = tx.open /\ rows.proposals = tx.proposals /\ rows.providers = tx.providers
    BY <1>1, <1>2, <1>3, DocumentsAreSound
  <1>5. /\ rows.status = "BACKLOG_GENERATING" /\ Cleared(rows.verdict) /\ rows.open = {}
        /\ Provided(rows, {"AUTO_APPROVED"})
    BY <1>1, <1>2, <1>4
    DEF Phase, PieceFits, StatusOf, VerdictFits, PastGate, QuestionsFit, ProvidersFit, Provided,
        Underway, Expert
  <1>6. T("BACKLOG_GENERATING", "BACKLOG_READY_EXISTING", "READY_FOR_DEVELOPMENT",
          "backlog_document_exists") \in Fired
    BY DEF Fired
  <1>7. Agrees(rows, "backlog_document_exists", NoContext)
    BY <1>2 DEF Agrees, RowsAgree, ApprovalRowsAgree
  <1>8. Phase(Moved(rows, "READY_FOR_DEVELOPMENT"), Idle)
    BY <1>4, <1>5, MovedColumns, IdleAssumption
    DEF Phase, VerdictFits, ExpertFits, QuestionsFit, ProvidersFit, PieceFits, Underway, Expert,
        RestingStates, StatusOf, Pieces, Provided
  <1> QED
    BY <1>1, <1>4, <1>5, <1>6, <1>7, <1>8, FireKeeps

-----------------------------------------------------------------------------
(* Expansion                                                               *)

\* What policy makes of a server the catalogue names: it is blocked if and only
\* if it is not approved and forbidden.
LEMMA BlockedIsForbidden ==
    ASSUME NEW server \in DOMAIN ServerSpecs, NEW new \in BOOLEAN, NEW write,
           new => ServerSpecs[server].status # "APPROVED", Forbidden(server) => new
    PROVE  Decide(ConnectionProposal(server, new, write)) = "AUTO_BLOCKED" <=> Forbidden(server)
  <1> DEFINE p == ConnectionProposal(server, new, write)
             spec == ServerSpecs[server]
  <1>1. p.risk = spec.risk /\ p.data = spec.data
    BY DEF ConnectionProposal
  <1>2. /\ "is_new_external_connection" \in p.signals <=> new
        /\ "in_allowlist" \in p.signals <=> server \in Allowlist
        /\ p.signals \cap BlockingSignals # {} <=> new /\ spec.external
    BY DEF ConnectionProposal, Signals, BlockingSignals, ExpertSignals, OtherSignals
  <1> HIDE DEF p
  <1>3. Blocks(p) <=> Forbidden(server)
    BY <1>1, <1>2 DEF Blocks, NewAndUnlisted, Forbidden
  <1>4. Decide(p) = "AUTO_BLOCKED" <=> Blocks(p)
    BY DEF Decide
  <1> QED
    BY <1>3, <1>4 DEF p

\* Whoever knows no way to provide a capability asks a developer.
LEMMA UnknownIsForExpert == Decide(UnknownProposal) = "EXPERT_REQUIRED"
  BY DEF Decide, UnknownProposal, Blocks, NewAndUnlisted, NeedsExpert, BlockingSignals, ExpertSignals

LEMMA DecideIsDecision == ASSUME NEW p PROVE Decide(p) \in Decisions
  BY DEF Decide, Decisions

\* The row for a needed capability is a proposal, and keeps to forbidden servers.
LEMMA RecordIsProposal ==
    ASSUME NEW rows, Sound(rows), NEW c \in Missing(rows)
    PROVE  LET p == ProposalRecord(rows, c)
           IN  /\ p \in ProposalRows /\ p.capability = c /\ p.status = StatusByDecision[p.decision]
               /\ p.server \in DOMAIN ServerSpecs =>
                     /\ p.decision = "AUTO_BLOCKED" => Forbidden(p.server)
                     /\ Forbidden(p.server) => p.status = "BLOCKED"
  <1> DEFINE p == ProposalRecord(rows, c)
             decision == DecisionFor(rows, c)
             server == ServerOf(c)
  <1>1. c \in UNION {NeedsOf[f] : f \in Features}
    BY TextOfFeatures DEF Sound, Missing, Needs
  <1>2. server \in DOMAIN ServerSpecs \cup UNION {NeedsOf[f] : f \in Features}
    BY <1>1 DEF ServerOf, Resolvable
  <1>3. decision \in Decisions
    BY DecideIsDecision DEF DecisionFor
  <1>4. /\ StatusByDecision[decision] \in {"AUTO_APPROVED", "PENDING_USER", "PENDING_EXPERT", "BLOCKED"}
        /\ decision = "AUTO_BLOCKED" <=> StatusByDecision[decision] = "BLOCKED"
    BY <1>3 DEF StatusByDecision, Decisions
  <1>5. ASSUME server \in DOMAIN ServerSpecs
        PROVE  decision = "AUTO_BLOCKED" <=> Forbidden(server)
    <2>1. Resolvable(c)
      BY <1>1, <1>5, NameAssumption DEF ServerOf, Resolvable
    <2> DEFINE new == rows.servers[server] # "APPROVED"
    <2>2. decision = Decide(ConnectionProposal(server, new, Catalog[c].write))
      BY <2>1 DEF DecisionFor, ProposalFor, ServerOf
    <2>3. /\ new => ServerSpecs[server].status # "APPROVED"
          /\ Forbidden(server) => new
      BY <1>5 DEF Sound, ServersKept
    <2> HIDE DEF new, server, decision
    <2>4. new \in BOOLEAN
      BY DEF new
    <2> QED
      BY <1>5, <2>2, <2>3, <2>4, BlockedIsForbidden
  <1>6. p = [capability |-> c, server |-> server, decision |-> decision,
             status |-> StatusByDecision[decision]]
    BY DEF ProposalRecord
  <1> HIDE DEF p, decision, server
  <1>7. /\ p.capability = c /\ p.server = server /\ p.decision = decision
        /\ p.status = StatusByDecision[decision]
    BY <1>6
  <1>8. p \in ProposalRows
    BY <1>1, <1>2, <1>3, <1>4, <1>6 DEF ProposalRows
  <1>9. /\ p.capability = c /\ p.status = StatusByDecision[p.decision]
        /\ p.server \in DOMAIN ServerSpecs =>
              /\ p.decision = "AUTO_BLOCKED" => Forbidden(p.server)
              /\ Forbidden(p.server) => p.status = "BLOCKED"
    BY <1>4, <1>5, <1>7
  <1> QED
    BY <1>8, <1>9 DEF p

\* Proposals are recorded; the rest stays.
LEMMA ProposalsAreSound ==
    ASSUME NEW rows, Sound(rows), NEW new, DOMAIN new = Columns,
           \A c \in Columns \ {"proposals"} : new[c] = rows[c],
           \A p \in new.proposals :
              /\ p \in ProposalRows
              /\ p.server \in DOMAIN ServerSpecs =>
                    /\ p.decision = "AUTO_BLOCKED" => Forbidden(p.server)
                    /\ Forbidden(p.server) => p.status = "BLOCKED"
    PROVE  /\ Sound(new)
           /\ new.status = rows.status /\ new.checkpoint = rows.checkpoint
           /\ new.verdict = rows.verdict /\ new.open = rows.open /\ new.prd = rows.prd
           /\ new.providers = rows.providers /\ new.consultation = rows.consultation
  <1>1. /\ new.status = rows.status /\ new.checkpoint = rows.checkpoint /\ new.prd = rows.prd
        /\ new.idea = rows.idea /\ new.documents = rows.documents /\ new.verdict = rows.verdict
        /\ new.open = rows.open /\ new.answered = rows.answered /\ new.decisions = rows.decisions
        /\ new.providers = rows.providers /\ new.servers = rows.servers
        /\ new.consultation = rows.consultation
    BY DEF Columns
  <1>2. new.proposals \subseteq ProposalRows
    OBVIOUS
  <1>3. ServersKept(new)
    BY <1>1 DEF Sound, ServersKept
  <1>4. RowsOK(new)
    BY <1>1, <1>2, EngineStates DEF Sound, RowsOK
  <1> QED
    BY <1>1, <1>3, <1>4 DEF Sound, Shape

LEMMA ActivatedFields ==
    ASSUME NEW rows, Shape(rows), NEW proposals
    PROVE  LET new == Activated(rows, proposals)
           IN  /\ DOMAIN new = Columns
               /\ new.servers = [s \in DOMAIN rows.servers |->
                     IF \E p \in proposals : p.server = s THEN "APPROVED" ELSE rows.servers[s]]
               /\ new.providers = rows.providers \cup {p.capability : p \in proposals}
               /\ \A c \in Columns \ {"servers", "providers"} : new[c] = rows[c]
  BY DEF Shape, Columns, Activated, Registered, Approved

\* What is not blocked may be activated.
LEMMA ActivatedIsSound ==
    ASSUME NEW rows, Sound(rows), NEW proposals \in SUBSET rows.proposals,
           \A p \in proposals : p.status # "BLOCKED"
    PROVE  LET new == Activated(rows, proposals)
           IN  /\ Sound(new)
               /\ new.status = rows.status /\ new.checkpoint = rows.checkpoint
               /\ new.verdict = rows.verdict /\ new.open = rows.open /\ new.prd = rows.prd
               /\ new.proposals = rows.proposals /\ new.approvals = rows.approvals
               /\ new.providers = rows.providers \cup {p.capability : p \in proposals}
  <1> DEFINE new == Activated(rows, proposals)
  <1>1. /\ DOMAIN new = Columns
        /\ new.servers = [s \in DOMAIN rows.servers |->
              IF \E p \in proposals : p.server = s THEN "APPROVED" ELSE rows.servers[s]]
        /\ new.providers = rows.providers \cup {p.capability : p \in proposals}
        /\ \A c \in Columns \ {"servers", "providers"} : new[c] = rows[c]
    BY ActivatedFields DEF Sound
  <1> HIDE DEF new
  <1>2. /\ new.status = rows.status /\ new.checkpoint = rows.checkpoint /\ new.prd = rows.prd
        /\ new.idea = rows.idea /\ new.documents = rows.documents /\ new.verdict = rows.verdict
        /\ new.open = rows.open /\ new.answered = rows.answered /\ new.decisions = rows.decisions
        /\ new.proposals = rows.proposals /\ new.consultation = rows.consultation
        /\ new.approvals = rows.approvals
    BY <1>1 DEF Columns
  <1>3. ServersKept(new)
    <2>1. /\ DOMAIN rows.servers = DOMAIN ServerSpecs
          /\ \A s \in DOMAIN ServerSpecs :
                /\ ServerSpecs[s].status = "APPROVED" => rows.servers[s] = "APPROVED"
                /\ Forbidden(s) => rows.servers[s] # "APPROVED"
          /\ \A p \in rows.proposals :
                p.server \in DOMAIN ServerSpecs =>
                    /\ p.decision = "AUTO_BLOCKED" => Forbidden(p.server)
                    /\ Forbidden(p.server) => p.status = "BLOCKED"
      BY DEF Sound, ServersKept
    <2>2. ASSUME NEW s \in DOMAIN ServerSpecs
          PROVE  /\ ServerSpecs[s].status = "APPROVED" => new.servers[s] = "APPROVED"
                 /\ Forbidden(s) => new.servers[s] # "APPROVED"
      <3>1. new.servers[s] = IF \E p \in proposals : p.server = s THEN "APPROVED" ELSE rows.servers[s]
        BY <1>1, <2>1
      <3>2. Forbidden(s) => ~ \E p \in proposals : p.server = s
        BY <2>1
      <3> QED
        BY <2>1, <3>1, <3>2
    <2>3. DOMAIN new.servers = DOMAIN ServerSpecs
      BY <1>1, <2>1
    <2> QED
      BY <1>2, <2>1, <2>2, <2>3 DEF ServersKept
  <1>4. {p.capability : p \in proposals} \subseteq UNION {NeedsOf[f] : f \in Features}
    BY DEF Sound, RowsOK, ProposalRows
  <1>5. new.providers \subseteq Available \cup UNION {NeedsOf[f] : f \in Features}
    BY <1>1, <1>4 DEF Sound, RowsOK
  <1>6. RowsOK(new)
    BY <1>2, <1>5, EngineStates DEF Sound, RowsOK
  <1>7. Sound(new)
    BY <1>1, <1>2, <1>3, <1>6 DEF Sound, Shape
  <1> QED
    BY <1>1, <1>2, <1>7 DEF new

\* The approval of all that waits gives each promised capability a provider.
LEMMA PendingApprovedIsSound ==
    ASSUME NEW rows, Sound(rows)
    PROVE  LET new == PendingApproved(rows)
           IN  /\ Sound(new)
               /\ new.status = rows.status /\ new.checkpoint = rows.checkpoint
               /\ new.verdict = rows.verdict /\ new.open = rows.open /\ new.prd = rows.prd
               /\ new.approvals = rows.approvals
               /\ Promised(rows) => Provided(new, {"AUTO_APPROVED"})
  <1> DEFINE active == Activated(rows, Pending(rows))
             new == PendingApproved(rows)
             approved == {[p EXCEPT !.status = "APPROVED"] : p \in Pending(rows)}
  <1>1. /\ Pending(rows) \in SUBSET rows.proposals
        /\ \A p \in Pending(rows) : p.status # "BLOCKED"
    BY DEF Pending
  <1>2. /\ Sound(active)
        /\ active.status = rows.status /\ active.checkpoint = rows.checkpoint
        /\ active.verdict = rows.verdict /\ active.open = rows.open /\ active.prd = rows.prd
        /\ active.proposals = rows.proposals /\ active.approvals = rows.approvals
        /\ active.providers = rows.providers \cup {p.capability : p \in Pending(rows)}
    BY <1>1, ActivatedIsSound
  <1> HIDE DEF active
  <1>3. /\ DOMAIN new = Columns
        /\ new.proposals = (rows.proposals \ Pending(rows)) \cup approved
        /\ \A c \in Columns \ {"proposals"} : new[c] = active[c]
    BY <1>2 DEF PendingApproved, active, Sound, Shape, Columns
  <1> HIDE DEF new
  <1>4. ASSUME NEW p \in rows.proposals
        PROVE  /\ p \in ProposalRows
               /\ p.server \in DOMAIN ServerSpecs =>
                     /\ p.decision = "AUTO_BLOCKED" => Forbidden(p.server)
                     /\ Forbidden(p.server) => p.status = "BLOCKED"
    BY DEF Sound, RowsOK, ServersKept
  <1>5. ASSUME NEW q \in approved
        PROVE  /\ q \in ProposalRows
               /\ q.server \in DOMAIN ServerSpecs =>
                     /\ q.decision = "AUTO_BLOCKED" => Forbidden(q.server)
                     /\ Forbidden(q.server) => q.status = "BLOCKED"
    <2>1. PICK p \in Pending(rows) : q = [p EXCEPT !.status = "APPROVED"]
      OBVIOUS
    <2>2. /\ p \in ProposalRows
          /\ p.server \in DOMAIN ServerSpecs =>
                /\ p.decision = "AUTO_BLOCKED" => Forbidden(p.server)
                /\ Forbidden(p.server) => p.status = "BLOCKED"
      BY <1>1, <1>4
    <2>3. q \in ProposalRows /\ q.server = p.server /\ q.decision = p.decision
      BY <2>1, <2>2 DEF ProposalRows
    <2>4. p.status # "BLOCKED"
      BY <1>1
    <2> QED
      BY <2>2, <2>3, <2>4
  <1>6. \A p \in new.proposals :
           /\ p \in ProposalRows
           /\ p.server \in DOMAIN ServerSpecs =>
                 /\ p.decision = "AUTO_BLOCKED" => Forbidden(p.server)
                 /\ Forbidden(p.server) => p.status = "BLOCKED"
    BY <1>3, <1>4, <1>5
  <1> HIDE DEF approved
  <1>7. /\ Sound(new)
        /\ new.status = active.status /\ new.checkpoint = active.checkpoint
        /\ new.verdict = active.verdict /\ new.open = active.open /\ new.prd = active.prd
        /\ new.providers = active.providers
    BY <1>2, <1>3, <1>6, ProposalsAreSound
  <1>8. new.approvals = rows.approvals
    BY <1>2, <1>3 DEF Columns
  <1>9. ASSUME Promised(rows) PROVE Provided(new, {"AUTO_APPROVED"})
    <2> SUFFICES ASSUME NEW c \in Needs(new.prd), c \notin new.providers
                 PROVE  \E p \in new.proposals : p.capability = c /\ p.status \in {"AUTO_APPROVED"}
      BY DEF Provided
    <2>1. c \notin rows.providers /\ \A p \in Pending(rows) : p.capability # c
      BY <1>2, <1>7
    <2>2. PICK p \in rows.proposals :
              p.capability = c /\ p.status \in {"AUTO_APPROVED", "PENDING_USER", "PENDING_EXPERT"}
      BY <1>2, <1>7, <1>9, <2>1 DEF Promised, Provided
    <2>3. p \notin Pending(rows) /\ p.status = "AUTO_APPROVED"
      BY <2>1, <2>2 DEF Pending
    <2> QED
      BY <1>3, <2>2, <2>3
  <1> QED
    BY <1>2, <1>7, <1>8, <1>9 DEF new

LEMMA AggregateIsStrictest ==
    ASSUME NEW D \in SUBSET Decisions, D # {}
    PROVE  Aggregate(D) \in D /\ \A e \in D : Severity[e] <= Severity[Aggregate(D)]
  <1>1. \E d \in D : \A e \in D : Severity[e] <= Severity[d]
    <2>1. CASE "AUTO_BLOCKED" \in D
      BY <2>1 DEF Decisions, Severity
    <2>2. CASE "AUTO_BLOCKED" \notin D /\ "EXPERT_REQUIRED" \in D
      BY <2>2 DEF Decisions, Severity
    <2>3. CASE "AUTO_BLOCKED" \notin D /\ "EXPERT_REQUIRED" \notin D /\ "USER_APPROVAL" \in D
      BY <2>3 DEF Decisions, Severity
    <2>4. CASE D = {"AUTO_APPROVE"}
      BY <2>4 DEF Decisions, Severity
    <2> QED
      BY <2>1, <2>2, <2>3, <2>4 DEF Decisions
  <1> QED
    BY <1>1 DEF Aggregate

Recorded(rows) == {ProposalRecord(rows, c) : c \in Missing(rows)}

Strictest(rows) == Aggregate({p.decision : p \in Recorded(rows)})

\* What is recorded when capabilities are missing: a proposal for each, so
\* that all of them are promised unless one is blocked.
LEMMA RecordsAreSound ==
    ASSUME NEW rows, Sound(rows), rows.prd = Text(rows), Missing(rows) # {},
           NEW new, DOMAIN new = Columns, new.proposals = rows.proposals \cup Recorded(rows),
           \A c \in Columns \ {"proposals"} : new[c] = rows[c]
    PROVE  /\ Sound(new)
           /\ new.status = rows.status /\ new.checkpoint = rows.checkpoint
           /\ new.verdict = rows.verdict /\ new.open = rows.open /\ new.prd = rows.prd
           /\ Strictest(rows) # "AUTO_BLOCKED" => Promised(new)
           /\ Strictest(rows) = "AUTO_APPROVE" =>
                 /\ \A p \in Recorded(rows) : p.status = "AUTO_APPROVED"
                 /\ Provided(new, {"AUTO_APPROVED"})
  <1> DEFINE proposals == Recorded(rows)
             decision == Strictest(rows)
  <1>1. ASSUME NEW p \in proposals
        PROVE  /\ p \in ProposalRows /\ p.status = StatusByDecision[p.decision]
               /\ p.server \in DOMAIN ServerSpecs =>
                     /\ p.decision = "AUTO_BLOCKED" => Forbidden(p.server)
                     /\ Forbidden(p.server) => p.status = "BLOCKED"
    BY RecordIsProposal DEF Recorded
  <1>2. ASSUME NEW p \in rows.proposals
        PROVE  /\ p \in ProposalRows
               /\ p.server \in DOMAIN ServerSpecs =>
                     /\ p.decision = "AUTO_BLOCKED" => Forbidden(p.server)
                     /\ Forbidden(p.server) => p.status = "BLOCKED"
    BY DEF Sound, RowsOK, ServersKept
  <1>3. \A c \in Missing(rows) : \E p \in proposals : p.capability = c
    BY RecordIsProposal DEF Recorded
  <1>4. /\ Sound(new)
        /\ new.status = rows.status /\ new.checkpoint = rows.checkpoint
        /\ new.verdict = rows.verdict /\ new.open = rows.open /\ new.prd = rows.prd
        /\ new.providers = rows.providers
    BY <1>1, <1>2, ProposalsAreSound
  <1>5. ASSUME NEW statuses, \A p \in proposals : p.status \in statuses
        PROVE  Provided(new, statuses)
    BY <1>3, <1>4, <1>5 DEF Provided, Missing
  <1> DEFINE D == {p.decision : p \in proposals}
  <1>6. D \in SUBSET Decisions /\ D # {}
    BY <1>1, <1>3 DEF ProposalRows
  <1>7. decision \in D /\ \A e \in D : Severity[e] <= Severity[decision]
    BY <1>6, AggregateIsStrictest DEF Strictest
  <1>8. ASSUME decision # "AUTO_BLOCKED", NEW p \in proposals
        PROVE  p.status \in {"AUTO_APPROVED", "PENDING_USER", "PENDING_EXPERT"}
    <2>1. /\ p.decision \in Decisions /\ decision \in Decisions
          /\ Severity[p.decision] <= Severity[decision]
      BY <1>6, <1>7
    <2>2. p.decision # "AUTO_BLOCKED"
      BY <1>8, <2>1 DEF Severity, Decisions
    <2> QED
      BY <1>1, <2>1, <2>2 DEF StatusByDecision, Decisions
  <1>9. ASSUME decision = "AUTO_APPROVE", NEW p \in proposals
        PROVE  p.status = "AUTO_APPROVED"
    <2>1. p.decision \in Decisions /\ Severity[p.decision] <= Severity[decision]
      BY <1>6, <1>7
    <2>2. p.decision = "AUTO_APPROVE"
      BY <1>9, <2>1 DEF Severity, Decisions
    <2> QED
      BY <1>1, <2>2 DEF StatusByDecision
  <1>10. decision # "AUTO_BLOCKED" => Promised(new)
    BY <1>5, <1>8 DEF Promised
  <1>11. decision = "AUTO_APPROVE" => Provided(new, {"AUTO_APPROVED"})
    BY <1>5, <1>9
  <1> QED
    BY <1>4, <1>9, <1>10, <1>11

LEMMA ExpandKeeps ==
    ASSUME IInv, Expand
    PROVE  IInv'
  <1> DEFINE proposals == Recorded(tx)
             decision == Strictest(tx)
             rows == [tx EXCEPT !.proposals = @ \cup proposals]
             context == [NoContext EXCEPT !.decision = decision]
             active == Activated(rows, proposals)
             asked == Consulted(rows, "EXPERT_REQUIRED")
  <1>1. /\ step = "expand"
        /\ \/ decision = "AUTO_APPROVE" /\ Fire(active, "PROPOSAL_AUTO_APPROVED", context, "backlog")
           \/ decision = "USER_APPROVAL" /\ Fire(rows, "PROPOSAL_NEEDS_USER", context, Idle)
           \/ decision = "EXPERT_REQUIRED" /\ Fire(asked, "PROPOSAL_NEEDS_EXPERT", context, Idle)
           \/ decision = "AUTO_BLOCKED" /\ Fire(rows, "PROPOSAL_BLOCKED", context, Idle)
    BY DEF Expand, ExpertAsked, Recorded, Strictest
  <1>2. Sound(tx) /\ Phase(tx, "expand")
    BY <1>1, SessionRows DEF Pieces
  <1>3. /\ tx.status = "EXPANSION_PROPOSING" /\ Cleared(tx.verdict) /\ tx.open = {}
        /\ tx.prd = Text(tx) /\ Missing(tx) # {}
    BY <1>2 DEF Phase, PieceFits, StatusOf, VerdictFits, PastGate, QuestionsFit, Underway, Expert
  <1>4. /\ DOMAIN rows = Columns /\ rows.proposals = tx.proposals \cup proposals
        /\ \A c \in Columns \ {"proposals"} : rows[c] = tx[c]
    BY <1>2 DEF Sound, Shape, Columns
  <1>5. context.decision = decision
    BY DEF NoContext
  <1> HIDE DEF rows, context
  <1>6. /\ Sound(rows)
        /\ rows.status = tx.status /\ rows.verdict = tx.verdict /\ rows.open = tx.open
        /\ decision # "AUTO_BLOCKED" => Promised(rows)
        /\ decision = "AUTO_APPROVE" =>
              /\ \A p \in proposals : p.status = "AUTO_APPROVED"
              /\ Provided(rows, {"AUTO_APPROVED"})
    BY <1>2, <1>3, <1>4, RecordsAreSound
  <1> HIDE DEF proposals, decision
  <1>7. /\ rows.status = "EXPANSION_PROPOSING" /\ Cleared(rows.verdict)
        /\ HarmlessText(rows.verdict.text) /\ rows.open = {}
    BY <1>3, <1>6 DEF Cleared
  <1>8. CASE decision = "AUTO_APPROVE" /\ Fire(active, "PROPOSAL_AUTO_APPROVED", context, "backlog")
    <2>1. proposals \in SUBSET rows.proposals /\ \A p \in proposals : p.status # "BLOCKED"
      BY <1>4, <1>6, <1>8
    <2>2. /\ Sound(active) /\ active.status = rows.status /\ active.verdict = rows.verdict
          /\ active.open = rows.open /\ active.prd = rows.prd /\ active.proposals = rows.proposals
          /\ rows.providers \subseteq active.providers
      BY <1>6, <2>1, ActivatedIsSound
    <2> HIDE DEF active
    <2>3. Provided(active, {"AUTO_APPROVED"})
      BY <1>6, <1>8, <2>2 DEF Provided
    <2>4. T("EXPANSION_PROPOSING", "PROPOSAL_AUTO_APPROVED", "BACKLOG_GENERATING",
            "policy_decision_auto_approve") \in Fired
      BY DEF Fired
    <2>5. Agrees(active, "policy_decision_auto_approve", context)
      BY <1>5, <1>8 DEF Agrees, RowsAgree, ContextAgrees
    <2>6. Phase(Moved(active, "BACKLOG_GENERATING"), "backlog")
      BY <1>7, <2>2, <2>3, MovedColumns, IdleAssumption
      DEF Phase, VerdictFits, ExpertFits, QuestionsFit, ProvidersFit, PieceFits, Underway, Expert,
          StatusOf, Pieces, Provided
    <2> QED
      BY <1>7, <1>8, <2>2, <2>4, <2>5, <2>6, FireKeeps DEF Pieces
  <1>9. CASE decision = "USER_APPROVAL" /\ Fire(rows, "PROPOSAL_NEEDS_USER", context, Idle)
    <2>1. T("EXPANSION_PROPOSING", "PROPOSAL_NEEDS_USER", "WAITING_EXPANSION_APPROVAL",
            "policy_decision_user_approval") \in Fired
      BY DEF Fired
    <2>2. Agrees(rows, "policy_decision_user_approval", context)
      BY <1>5, <1>9 DEF Agrees, RowsAgree, ContextAgrees
    <2>3. Phase(Moved(rows, "WAITING_EXPANSION_APPROVAL"), Idle)
      BY <1>6, <1>7, <1>9, MovedColumns, IdleAssumption
      DEF Phase, VerdictFits, ExpertFits, QuestionsFit, ProvidersFit, PieceFits, Underway, Expert,
          RestingStates, StatusOf, Pieces, Promised, Provided
    <2> QED
      BY <1>6, <1>7, <1>9, <2>1, <2>2, <2>3, FireKeeps
  <1>10. CASE decision = "EXPERT_REQUIRED" /\ Fire(asked, "PROPOSAL_NEEDS_EXPERT", context, Idle)
    <2>1. Sound(asked)
      BY <1>6, ConsultedIsSound
    <2>2. /\ asked.consultation.status = "PENDING" /\ asked.status = rows.status
          /\ asked.verdict = rows.verdict /\ asked.open = rows.open /\ asked.prd = rows.prd
          /\ asked.proposals = rows.proposals /\ asked.providers = rows.providers
      BY <1>6, ConsultedFields DEF Sound, Columns
    <2> HIDE DEF asked
    <2>3. T("EXPANSION_PROPOSING", "PROPOSAL_NEEDS_EXPERT", "WAITING_EXPERT_CONFIRMATION",
            "policy_decision_expert_required") \in Fired
      BY DEF Fired
    <2>4. Agrees(asked, "policy_decision_expert_required", context)
      BY <1>5, <1>10 DEF Agrees, RowsAgree, ContextAgrees
    <2>5. Promised(asked)
      BY <1>6, <1>10, <2>2 DEF Promised, Provided
    <2>6. Phase(Moved(asked, "WAITING_EXPERT_CONFIRMATION"), Idle)
      BY <1>7, <2>1, <2>2, <2>5, MovedColumns, IdleAssumption
      DEF Phase, VerdictFits, ExpertFits, QuestionsFit, ProvidersFit, PieceFits, Underway, Expert,
          PastGate, RestingStates, StatusOf, Pieces, ProductExceptionStates, Promised, Provided
    <2> QED
      BY <1>7, <1>10, <2>1, <2>2, <2>3, <2>4, <2>6, FireKeeps
  <1>11. CASE decision = "AUTO_BLOCKED" /\ Fire(rows, "PROPOSAL_BLOCKED", context, Idle)
    <2>1. T("EXPANSION_PROPOSING", "PROPOSAL_BLOCKED", "AUTO_BLOCKED_BY_POLICY",
            "policy_decision_auto_blocked") \in Fired
      BY DEF Fired
    <2>2. Agrees(rows, "policy_decision_auto_blocked", context)
      BY <1>5, <1>11 DEF Agrees, RowsAgree, ContextAgrees
    <2>3. Phase(Moved(rows, "AUTO_BLOCKED_BY_POLICY"), Idle)
      BY <1>6, MovedColumns, IdleAssumption
      DEF Phase, VerdictFits, ExpertFits, QuestionsFit, ProvidersFit, PieceFits, Underway, Expert,
          PastGate, RestingStates, StatusOf, Pieces
    <2> QED
      BY <1>6, <1>7, <1>11, <2>1, <2>2, <2>3, FireKeeps
  <1> QED
    BY <1>1, <1>8, <1>9, <1>10, <1>11

LEMMA DecideExpansionKeeps ==
    ASSUME IInv, NEW approved \in BOOLEAN, DecideExpansion(approved)
    PROVE  IInv'
  <1> DEFINE rows == Decided("EXPANSION", approved)
             active == PendingApproved(rows)
  <1>1. /\ step = Idle /\ db.status = "WAITING_EXPANSION_APPROVAL"
        /\ \/ approved /\ Fire(active, "EXPANSION_APPROVED", NoContext, "backlog")
           \/ ~approved /\ Fire(rows, "EXPANSION_DENIED", NoContext, Idle)
    BY DEF DecideExpansion, Request
  <1>2. Phase(db, Idle)
    BY DEF IInv
  <1>3. /\ Sound(rows) /\ <<"EXPANSION", approved>> \in rows.approvals
        /\ \A c \in Columns \ {"approvals"} : rows[c] = db[c]
    BY DecidedIsSound
  <1>4. /\ Sound(active) /\ active.status = rows.status /\ active.verdict = rows.verdict
        /\ active.open = rows.open /\ active.approvals = rows.approvals
        /\ Promised(rows) => Provided(active, {"AUTO_APPROVED"})
    BY <1>3, PendingApprovedIsSound
  <1> HIDE DEF rows, active
  <1>5. /\ rows.status = "WAITING_EXPANSION_APPROVAL" /\ rows.verdict = db.verdict
        /\ rows.open = db.open /\ rows.prd = db.prd /\ rows.proposals = db.proposals
        /\ rows.providers = db.providers
    BY <1>1, <1>3 DEF Columns
  <1>6. Cleared(rows.verdict) /\ rows.open = {} /\ Promised(rows)
    BY <1>1, <1>2, <1>5
    DEF Phase, VerdictFits, PastGate, QuestionsFit, ProvidersFit, Promised, Provided, Underway, Expert
  <1>7. CASE approved /\ Fire(active, "EXPANSION_APPROVED", NoContext, "backlog")
    <2>1. T("WAITING_EXPANSION_APPROVAL", "EXPANSION_APPROVED", "BACKLOG_GENERATING",
            "expansion_approval_exists") \in Fired
      BY DEF Fired
    <2>2. approved = TRUE
      BY <1>7
    <2>3. Agrees(active, "expansion_approval_exists", NoContext)
      BY <1>3, <1>4, <2>2 DEF Agrees, RowsAgree, ApprovalRowsAgree
    <2>4. Phase(Moved(active, "BACKLOG_GENERATING"), "backlog")
      BY <1>4, <1>6, MovedColumns, IdleAssumption
      DEF Phase, VerdictFits, ExpertFits, QuestionsFit, ProvidersFit, PieceFits, Underway, Expert,
          StatusOf, Pieces, Provided
    <2> QED
      BY <1>4, <1>5, <1>7, <2>1, <2>3, <2>4, FireKeeps DEF Pieces
  <1>8. CASE ~approved /\ Fire(rows, "EXPANSION_DENIED", NoContext, Idle)
    <2>1. T("WAITING_EXPANSION_APPROVAL", "EXPANSION_DENIED", "EXPANSION_REJECTED", "none") \in Fired
      BY DEF Fired
    <2>2. Agrees(rows, "none", NoContext)
      BY DEF Agrees
    <2>3. Phase(Moved(rows, "EXPANSION_REJECTED"), Idle)
      BY <1>3, <1>6, MovedColumns, IdleAssumption
      DEF Phase, VerdictFits, ExpertFits, QuestionsFit, ProvidersFit, PieceFits, Underway, Expert,
          RestingStates, StatusOf, Pieces
    <2> QED
      BY <1>3, <1>5, <1>8, <2>1, <2>2, <2>3, FireKeeps
  <1> QED
    BY <1>1, <1>7, <1>8

-----------------------------------------------------------------------------
(* The answer of the developer                                             *)

LEMMA AppliedIsSound ==
    ASSUME NEW rows, Sound(rows)
    PROVE  /\ Sound(Applied(rows))
           /\ \A c \in Columns \ {"consultation"} : Applied(rows)[c] = rows[c]
  <1> DEFINE new == Applied(rows)
  <1>1. Shape(new) /\ \A c \in Columns \ {"consultation"} : new[c] = rows[c]
    BY DEF Applied, Sound, Shape, Columns
  <1> HIDE DEF new
  <1>2. /\ new.status = rows.status /\ new.checkpoint = rows.checkpoint /\ new.prd = rows.prd
        /\ new.idea = rows.idea /\ new.documents = rows.documents
        /\ new.verdict = rows.verdict /\ new.open = rows.open /\ new.answered = rows.answered
        /\ new.decisions = rows.decisions /\ new.proposals = rows.proposals
        /\ new.providers = rows.providers /\ new.servers = rows.servers
    BY <1>1 DEF Columns
  <1>3. Sound(new)
    BY <1>1, <1>2, EngineStates DEF Sound, RowsOK, ServersKept
  <1> QED
    BY <1>1, <1>3 DEF new

LEMMA AnswerConsultationKeeps ==
    ASSUME IInv, NEW resolution, AnswerConsultation(resolution)
    PROVE  IInv'
  <1> DEFINE rows == Applied(db)
             adjusted == [rows EXCEPT !.verdict.answered = TRUE]
             confirmed == Confirmed(rows)
  <1>1. /\ step = Idle /\ db.status = "WAITING_EXPERT_CONFIRMATION"
        /\ \/ Fire(rows, "EXPERT_ANSWER_STOPS", NoContext, Idle)
           \/ Fire(adjusted, "EXPERT_ANSWER_ADJUSTS_SCOPE", NoContext, "draft")
           \/ Fire(confirmed, "EXPERT_ANSWER_UNBLOCKS", NoContext, "resume")
    BY DEF AnswerConsultation, Request
  <1>2. Sound(db) /\ Phase(db, Idle)
    BY DEF IInv
  <1>3. Sound(rows) /\ \A c \in Columns \ {"consultation"} : rows[c] = db[c]
    BY <1>2, AppliedIsSound
  <1> HIDE DEF rows
  <1>4. /\ DOMAIN adjusted = Columns /\ adjusted.verdict = [rows.verdict EXCEPT !.answered = TRUE]
        /\ \A c \in Columns \ {"verdict"} : adjusted[c] = rows[c]
        /\ DOMAIN confirmed = Columns
        /\ confirmed.verdict = [rows.verdict EXCEPT !.confirmed = TRUE, !.answered = TRUE]
        /\ \A c \in Columns \ {"verdict"} : confirmed[c] = rows[c]
    BY <1>3 DEF Confirmed, Sound, Shape, Columns
  <1> HIDE DEF adjusted, confirmed
  <1>5. /\ DOMAIN adjusted.verdict = {"text", "confirmed", "answered"}
        /\ adjusted.verdict.text = rows.verdict.text /\ adjusted.verdict.answered = TRUE
        /\ DOMAIN confirmed.verdict = {"text", "confirmed", "answered"}
        /\ confirmed.verdict.text = rows.verdict.text /\ confirmed.verdict.answered = TRUE
        /\ confirmed.verdict.confirmed = TRUE
    BY <1>3, <1>4 DEF Sound, Shape
  <1>6. /\ rows.status = Expert /\ rows.checkpoint = db.checkpoint
        /\ rows.verdict = db.verdict /\ rows.open = db.open /\ rows.prd = db.prd
        /\ rows.proposals = db.proposals /\ rows.providers = db.providers
    BY <1>1, <1>3 DEF Columns, Expert
  <1>7. /\ HarmlessText(rows.verdict.text)
        /\ rows.checkpoint \in {"CLASSIFYING", "EXPANSION_PROPOSING"}
        /\ rows.checkpoint = "EXPANSION_PROPOSING" => rows.open = {} /\ Promised(rows)
    BY <1>1, <1>2, <1>6
    DEF Phase, VerdictFits, ExpertFits, QuestionsFit, ProvidersFit, Promised, Provided, Underway, Expert
  <1>8. CASE Fire(rows, "EXPERT_ANSWER_STOPS", NoContext, Idle)
    <2>1. T(Expert, "EXPERT_ANSWER_STOPS", "CANCELLED", "none") \in Fired
      BY DEF Fired, Expert
    <2>2. Agrees(rows, "none", NoContext)
      BY DEF Agrees
    <2>3. Phase(Moved(rows, "CANCELLED"), Idle)
      BY <1>3, MovedColumns, IdleAssumption
      DEF Phase, VerdictFits, ExpertFits, QuestionsFit, ProvidersFit, PieceFits, Underway, Expert,
          PastGate, RestingStates, StatusOf, Pieces
    <2> QED
      BY <1>3, <1>6, <1>8, <2>1, <2>2, <2>3, FireKeeps
  <1>9. CASE Fire(adjusted, "EXPERT_ANSWER_ADJUSTS_SCOPE", NoContext, "draft")
    <2>1. T(Expert, "EXPERT_ANSWER_ADJUSTS_SCOPE", "REQUIREMENT_DRAFTING", "none") \in Fired
      BY DEF Fired, Expert
    <2>2. Agrees(adjusted, "none", NoContext)
      BY DEF Agrees
    <2>3. Sound(adjusted) /\ Cleared(adjusted.verdict)
      BY <1>3, <1>4, <1>5, <1>7, DecidedVerdict
    <2>4. adjusted.status = Expert
      BY <1>4, <1>6 DEF Columns
    <2>5. Phase(Moved(adjusted, "REQUIREMENT_DRAFTING"), "draft")
      BY <2>3, MovedColumns, IdleAssumption
      DEF Phase, VerdictFits, ExpertFits, QuestionsFit, ProvidersFit, PieceFits, Underway, Expert,
          StatusOf, Pieces
    <2> QED
      BY <1>9, <2>1, <2>2, <2>3, <2>4, <2>5, FireKeeps DEF Pieces
  <1>10. CASE Fire(confirmed, "EXPERT_ANSWER_UNBLOCKS", NoContext, "resume")
    <2>1. Sound(confirmed) /\ Cleared(confirmed.verdict)
      BY <1>3, <1>4, <1>5, <1>7, DecidedVerdict
    <2>2. /\ confirmed.status = Expert /\ confirmed.checkpoint = rows.checkpoint
          /\ confirmed.open = rows.open /\ confirmed.prd = rows.prd
          /\ confirmed.proposals = rows.proposals /\ confirmed.providers = rows.providers
      BY <1>4, <1>6 DEF Columns
    <2>3. HarmlessText(confirmed.verdict.text) /\ Judged(confirmed)
      BY <1>5, <1>7 DEF HarmlessText, Judged
    <2> DEFINE target == confirmed.checkpoint
    <2>4. Proceed(Moved(confirmed, target), "resume")
      BY <1>5, <1>7, <1>10, <2>1, <2>2, <2>3, UnblockOutcome DEF Sound
    <2>5. target = "EXPANSION_PROPOSING" => confirmed.open = {} /\ Promised(confirmed)
      BY <1>7, <2>2 DEF Promised, Provided
    <2>6. target \in {"CLASSIFYING", "EXPANSION_PROPOSING"}
      BY <1>7, <2>2
    <2> HIDE DEF target
    <2>7. Phase(Moved(confirmed, target), "resume")
      BY <1>5, <2>1, <2>3, <2>5, <2>6, MovedColumns, IdleAssumption
      DEF Phase, VerdictFits, ExpertFits, QuestionsFit, ProvidersFit, PieceFits, Underway, Expert,
          PastGate, StatusOf, Pieces, Promised, Provided
    <2>8. target \in ProductStates
      BY <2>6, StatesNamed
    <2> QED
      BY <2>1, <2>4, <2>7, <2>8, MoveKeeps DEF Pieces
  <1> QED
    BY <1>1, <1>8, <1>9, <1>10

LEMMA ResumeKeeps ==
    ASSUME IInv, Resume
    PROVE  IInv'
  <1> DEFINE context == [NoContext EXCEPT !.decision = "AUTO_APPROVE"]
             active == PendingApproved(tx)
  <1>1. Sound(tx) /\ Phase(tx, "resume")
    BY SessionRows DEF Resume, Pieces
  <1>2. /\ tx.status \in {"CLASSIFYING", "EXPANSION_PROPOSING"}
        /\ HarmlessText(tx.verdict.text) /\ tx.verdict.confirmed /\ tx.verdict.answered
        /\ tx.status = "EXPANSION_PROPOSING" => tx.open = {} /\ Promised(tx)
    BY <1>1 DEF Phase, PieceFits, QuestionsFit, Underway, Expert
  <1>3. Cleared(tx.verdict)
    BY <1>2 DEF Cleared
  <1>4. CASE tx.status = "CLASSIFYING" /\ Fire(tx, "EXPERT_CONFIRMED_PROCEED", NoContext, "draft")
    <2>1. T("CLASSIFYING", "EXPERT_CONFIRMED_PROCEED", "REQUIREMENT_DRAFTING",
            "expert_confirmed") \in Fired
      BY DEF Fired
    <2>2. Agrees(tx, "expert_confirmed", NoContext)
      BY <1>2 DEF Agrees, RowsAgree, GateRowsAgree, Judged, HarmlessText
    <2>3. Phase(Moved(tx, "REQUIREMENT_DRAFTING"), "draft")
      BY <1>1, <1>3, MovedColumns, IdleAssumption
      DEF Phase, VerdictFits, ExpertFits, QuestionsFit, ProvidersFit, PieceFits, Underway, Expert,
          StatusOf, Pieces
    <2> QED
      BY <1>1, <1>4, <2>1, <2>2, <2>3, FireKeeps DEF Pieces
  <1>5. CASE tx.status = "EXPANSION_PROPOSING"
                /\ Fire(active, "PROPOSAL_AUTO_APPROVED", context, "backlog")
    <2>1. /\ Sound(active) /\ active.status = tx.status /\ active.verdict = tx.verdict
          /\ active.open = tx.open /\ Provided(active, {"AUTO_APPROVED"})
      BY <1>1, <1>2, <1>5, PendingApprovedIsSound
    <2> HIDE DEF active
    <2>2. T("EXPANSION_PROPOSING", "PROPOSAL_AUTO_APPROVED", "BACKLOG_GENERATING",
            "policy_decision_auto_approve") \in Fired
      BY DEF Fired
    <2>3. Agrees(active, "policy_decision_auto_approve", context)
      BY DEF Agrees, RowsAgree, ContextAgrees, NoContext
    <2> HIDE DEF context
    <2>4. Phase(Moved(active, "BACKLOG_GENERATING"), "backlog")
      BY <1>2, <1>3, <1>5, <2>1, MovedColumns, IdleAssumption
      DEF Phase, VerdictFits, ExpertFits, QuestionsFit, ProvidersFit, PieceFits, Underway, Expert,
          StatusOf, Pieces, Provided
    <2> QED
      BY <1>5, <2>1, <2>2, <2>3, <2>4, FireKeeps DEF Pieces
  <1> QED
    BY <1>2, <1>4, <1>5 DEF Resume

-----------------------------------------------------------------------------
(* The specification                                                       *)

LEMMA NextKeeps == IInv /\ [Next]_vars => IInv'
  <1> SUFFICES ASSUME IInv, [Next]_vars PROVE IInv'
    OBVIOUS
  <1>1. CASE UNCHANGED vars
    BY <1>1
    DEF vars, IInv, Steps, Sound, Shape, RowsOK, ServersKept, Phase, VerdictFits, ExpertFits,
        QuestionsFit, ProvidersFit, Promised, Provided, PieceFits, Underway, NoInput
  <1>2. CASE \E text \in Ideas : UpdateIdea(text) \/ UploadDocument(text)
    BY <1>2, UpdateIdeaKeeps, UploadDocumentKeeps
  <1>3. CASE RunAnalysis
    BY <1>3, RunAnalysisKeeps
  <1>4. CASE \E key \in db.open : AnswerQuestion(key)
    BY <1>4, AnswerQuestionKeeps
  <1>5. CASE \E approved \in BOOLEAN :
                \/ DecideRequirements(approved)
                \/ DecideReducedScope(approved)
                \/ DecideExpansion(approved)
    BY <1>5, DecideRequirementsKeeps, DecideReducedScopeKeeps, DecideExpansionKeeps
  <1>6. CASE CreateManualConsultation
    BY <1>6, CreateManualConsultationKeeps
  <1>7. CASE \E resolution \in {"UNBLOCK", "ADJUST_SCOPE", "STOP"} : AnswerConsultation(resolution)
    BY <1>7, AnswerConsultationKeeps
  <1>8. CASE Work
    BY <1>8, AnalyzeKeeps, ClassifyKeeps, DraftKeeps, SpecifyKeeps, AnalyzeGapKeeps, ExpandKeeps,
       ResumeKeeps, GenerateBacklogKeeps
    DEF Work
  <1>9. CASE RollBack
    BY <1>9, RollBackKeeps
  <1>10. CASE Restart
    BY <1>10, RestartKeeps
  <1> QED
    BY <1>1, <1>2, <1>3, <1>4, <1>5, <1>6, <1>7, <1>8, <1>9, <1>10 DEF Next, Handling

\* Sound rows in the phase their status and the work at hand call for: what the
\* theorems below follow from.
THEOREM WorkflowInvariant == Spec => []IInv
  BY InitHolds, NextKeeps, PTL DEF Spec

\* The rows of the session are sound, whether it works or not, and fit some
\* phase of the work.
LEMMA SessionIsSound ==
    ASSUME IInv
    PROVE  Sound(tx) /\ \E piece \in Pieces \cup {Idle} : Phase(tx, piece)
  <1>1. CASE step \in Pieces
    BY <1>1 DEF IInv
  <1>2. CASE step \in {Idle, "refused"}
    <2>1. tx = db /\ Sound(db) /\ Phase(db, Idle)
      BY <1>2 DEF IInv
    <2> QED
      BY <2>1
  <1> QED
    BY <1>1, <1>2 DEF IInv, Steps

\* Whatever the users, agents and configuration do, the columns of a project
\* keep to their types, and no question is open and answered at once.
THEOREM WorkflowIsTyped == Spec => []TypeOK
  <1>1. IInv => TypeOK
    BY SessionIsSound DEF IInv, Sound, TypeOK
  <1> QED
    BY <1>1, WorkflowInvariant, PTL

\* No draft, specification, expansion or backlog is made for a text that holds
\* something prohibited or unsupported in the words that were judged, or that
\* needed a decision nobody took: through answers of the developer, returns to
\* a checkpoint, redrafts, failures and restarts.
THEOREM GateIsHeld == Spec => []GateHeld
  <1>1. IInv => GateHeld
    BY SessionIsSound DEF Phase, VerdictFits, Cleared, HarmlessText, GateHeld
  <1> QED
    BY <1>1, WorkflowInvariant, PTL

\* A project is committed only where a request of somebody, or nobody, is
\* waited for: no chain of work ends in the middle.
THEOREM WorkflowSettles == Spec => []Settled
  <1>1. IInv => Settled
    BY DEF IInv, Phase, PieceFits, Settled
  <1> QED
    BY <1>1, WorkflowInvariant, PTL

\* Who waits for answers has a question, and who asks for approval or is ready
\* has none.
THEOREM QuestionsMatch == Spec => []QuestionsMatchPhase
  <1>1. IInv => QuestionsMatchPhase
    BY DEF IInv, Phase, QuestionsFit, Underway, Expert, QuestionsMatchPhase
  <1> QED
    BY <1>1, WorkflowInvariant, PTL

\* No guard of the transition table refuses an event the workflow fires, except
\* the one that asks for a text before the analysis.
THEOREM NothingElseIsRefused == Spec => []OnlyEmptyTextIsRefused
  <1>1. IInv => OnlyEmptyTextIsRefused
    BY DEF IInv, NoInput, OnlyEmptyTextIsRefused
  <1> QED
    BY <1>1, WorkflowInvariant, PTL

\* Each piece of shared work is entered in the state its assertion names.
THEOREM WorkIsInItsState == Spec => []WorkMatchesStatus
  <1>1. IInv => WorkMatchesStatus
    BY DEF IInv, Pieces, Phase, PieceFits, StatusOf, WorkMatchesStatus
  <1> QED
    BY <1>1, WorkflowInvariant, PTL

\* The developer who is waited for was handed material that has no answer yet.
THEOREM ConsultationStaysFresh == Spec => []ConsultationIsFresh
  <1>1. IInv => ConsultationIsFresh
    BY DEF IInv, Phase, ExpertFits, Expert, ConsultationIsFresh
  <1> QED
    BY <1>1, WorkflowInvariant, PTL

\* For every catalogue, allowlist and configuration of servers: the approval of
\* all that waits never connects a server that policy blocked, in this round of
\* expansion or an earlier one.
THEOREM BlockedIsNeverConnected == Spec => []BlockedStaysUnconnected
  <1>1. IInv => BlockedStaysUnconnected
    BY SessionIsSound DEF Sound, ServersKept, BlockedStaysUnconnected
  <1> QED
    BY <1>1, WorkflowInvariant, PTL

\* A project ready for development lacks no capability of its PRD but those that
\* policy approved automatically and the workflow did not activate.
THEOREM OthersAreProvided == Spec => []OnlyAutoApprovedIsLeftOut
  <1>1. IInv => OnlyAutoApprovedIsLeftOut
    BY DEF IInv, Phase, ProvidersFit, Provided, OnlyAutoApprovedIsLeftOut
  <1> QED
    BY <1>1, WorkflowInvariant, PTL
=============================================================================
