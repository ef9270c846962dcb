--------------------------- MODULE ProductWorkflow ---------------------------
(***************************************************************************)
(* The product definition workflow of one project                          *)
(* (app/product/workflow.py): from an idea, through the suitability gate,  *)
(* question cards, approvals, expert consultation and capability           *)
(* expansion, to a backlog ready for development.                          *)
(*                                                                         *)
(* A request opens a database session, does its work in steps and commits  *)
(* at the end; an error anywhere rolls all of it back.  db holds the       *)
(* committed rows, tx what the open session sees, step the work that       *)
(* remains.  Requests of one project come one at a time here.              *)
(*                                                                         *)
(* A planning text is the set of features it asks for.  What the agents    *)
(* write (question cards, conflicts with earlier decisions) is any choice  *)
(* the code accepts.                                                       *)
(***************************************************************************)
EXTENDS FiniteSets, PolicyEngine, Transitions

CONSTANTS
    Features,         \* what a planning text may ask for
    KeywordsOf,       \* feature -> the keyword list it is on, or "none"
    NeedsOf,          \* feature -> the capabilities it needs
    Ideas,            \* the planning texts the user may write
    Cards,            \* the questions the requirement agent may ask
    Contradicting,    \* features whose requirements overlap each decision twice
    Available,        \* the capabilities that have a provider from the start
    Catalog,          \* capability -> [server, write], for some capabilities
    ServerSpecs,      \* server -> [status, risk, data, external]
    Allowlist,
    MaxDecisions,     \* bound on the project's project_decisions rows
    NoText,           \* nothing was written yet
    Idle              \* no request is being served

ASSUME TextAssumption ==
    /\ Ideas \subseteq SUBSET Features
    /\ Contradicting \subseteq Features
    /\ \A text \in SUBSET Features : text # NoText
    /\ KeywordsOf \in [Features -> {"prohibited", "unsupported", "expert_review", "risky", "none"}]

\* Question keys of cards and of conflicts (the number of a decision) differ.
ASSUME QuestionAssumption ==
    MaxDecisions \in Nat /\ \A card \in Cards : card \notin 1..MaxDecisions

\* A capability nobody knows how to provide is approved under its own name
\* (approve_pending), which then is not the id of a server.
ASSUME NameAssumption ==
    \A f \in Features : \A c \in NeedsOf[f] :
        c \in DOMAIN ServerSpecs =>
            c \in DOMAIN Catalog /\ Catalog[c].server \in DOMAIN ServerSpecs

VARIABLES
    db,       \* the committed rows
    tx,       \* the rows as the open session sees them
    step      \* what the request being served does next, or Idle

vars == <<db, tx, step>>

\* The latest project_classifications row: the text it judged and the flag
\* expert_confirmed.  answered observes whether a person decided on that row.
NoVerdict == [text |-> NoText, confirmed |-> FALSE, answered |-> FALSE]

NoConsultation == [trigger |-> "none", status |-> "none"]

NewProject == [
    status       |-> "IDEA_RECEIVED",
    checkpoint   |-> "none",
    idea         |-> NoText,
    documents    |-> NoText,       \* the features of all uploaded documents
    verdict      |-> NoVerdict,
    open         |-> {},           \* requirement_questions, by key
    answered     |-> {},
    decisions    |-> 0,
    approvals    |-> {},           \* user_approvals, as <<type, approved>>
    prd          |-> NoText,       \* the text the latest PRD was written from
    backlog      |-> FALSE,
    proposals    |-> {},           \* expansion_proposals
    providers    |-> Available,    \* capabilities with an available provider
    servers      |-> [s \in DOMAIN ServerSpecs |-> ServerSpecs[s].status],
    consultation |-> NoConsultation,  \* the latest expert_consultations row
    earlier      |-> {}]              \* and what the ones before it are like

Init == db = NewProject /\ tx = NewProject /\ step = Idle

-----------------------------------------------------------------------------
(* The planning text and its gate                                          *)

Words(text) == IF text = NoText THEN {} ELSE text

\* ProjectInput.combined_text: the idea and every uploaded document.
Text(rows) == Words(rows.idea) \cup Words(rows.documents)

Mentions(text, list) == \E f \in text : KeywordsOf[f] = list

\* The lists asked in the wrong order: an expert may answer for a prohibited
\* feature.
GateExpertFirst(text) ==
    IF Mentions(text, "expert_review") THEN "NEEDS_EXPERT"
    ELSE IF Mentions(text, "prohibited") THEN "BLOCKED"
    ELSE IF Mentions(text, "unsupported") THEN "UNSUPPORTED"
    ELSE IF Mentions(text, "risky") THEN "NEEDS_APPROVAL"
    ELSE "PROCEED"

\* Classifier.classify: the first list that matches decides.
Gate(text) ==
    IF Mentions(text, "prohibited") THEN "BLOCKED"
    ELSE IF Mentions(text, "unsupported") THEN "UNSUPPORTED"
    ELSE IF Mentions(text, "expert_review") THEN "NEEDS_EXPERT"
    ELSE IF Mentions(text, "risky") THEN "NEEDS_APPROVAL"
    ELSE "PROCEED"

Needs(text) == UNION {NeedsOf[f] : f \in text}

Missing(rows) == Needs(Text(rows)) \ rows.providers

-----------------------------------------------------------------------------
(* Firing events: the engine of StateMachine on the rows of the session    *)

Project == "project"
NoContext == [missing |-> {}, decision |-> "none"]

Engine(rows) == INSTANCE StateMachine WITH
    Subjects <- {Project}, Table <- ProductTransitions,
    ExceptionStates <- ProductExceptionStates, TerminalStates <- ProductTerminalStates,
    InitialState <- "IDEA_RECEIVED", MaxRetries <- 3, Keys <- {}, NoKey <- "none",
    NoState <- "none",
    status <- [p \in {Project} |-> rows.status],
    checkpoint <- [p \in {Project} |-> rows.checkpoint],
    retries <- [p \in {Project} |-> 0], usedKeys <- {}

Judged(rows) == rows.verdict.text # NoText

\* What the rows answer to the guards on the text, the verdict and the questions,
GateRowsAgree(rows, guard) ==
    \/ guard = "has_planning_input" /\ (rows.idea # NoText \/ rows.documents # NoText)
    \/ guard = "classification_saved" /\ Judged(rows)
    \/ guard = "prohibited_detected" /\ Judged(rows) /\ Mentions(rows.verdict.text, "prohibited")
    \/ guard = "expert_not_confirmed" /\ Judged(rows) /\ ~rows.verdict.confirmed
    \/ /\ guard \in {"expert_confirmed", "expert_confirmed_with_checkpoint"}
       /\ Judged(rows) /\ rows.verdict.confirmed
    \/ guard = "open_questions_exist" /\ rows.open # {}
    \/ guard = "no_open_questions" /\ rows.open = {}
    \/ guard = "answered_question_exists" /\ rows.answered # {}

\* to those on approvals and generated documents,
ApprovalRowsAgree(rows, guard) ==
    \/ guard = "requirements_approval_exists" /\ <<"REQUIREMENTS", TRUE>> \in rows.approvals
    \/ guard = "requirements_change_request_exists" /\ <<"REQUIREMENTS", FALSE>> \in rows.approvals
    \/ guard = "reduced_scope_approval_exists" /\ <<"REDUCED_SCOPE", TRUE>> \in rows.approvals
    \/ guard = "expansion_approval_exists" /\ <<"EXPANSION", TRUE>> \in rows.approvals
    \/ guard = "prd_document_exists" /\ rows.prd # NoText
    \/ guard = "backlog_document_exists" /\ rows.backlog

\* and what the context of the event answers to the guards on the expansion.
ContextAgrees(context, guard) ==
    \/ guard = "capability_no_gap" /\ context.missing = {}
    \/ guard = "capability_gap_exists" /\ context.missing # {}
    \/ guard = "policy_decision_auto_approve" /\ context.decision = "AUTO_APPROVE"
    \/ guard = "policy_decision_user_approval" /\ context.decision = "USER_APPROVAL"
    \/ guard = "policy_decision_expert_required" /\ context.decision = "EXPERT_REQUIRED"
    \/ guard = "policy_decision_auto_blocked" /\ context.decision = "AUTO_BLOCKED"

RowsAgree(rows, guard, context) ==
    GateRowsAgree(rows, guard) \/ ApprovalRowsAgree(rows, guard) \/ ContextAgrees(context, guard)

Row(rows, event) == {t \in ProductTransitions : t.source = rows.status /\ t.event = event}

\* The session continues with these rows, or commits them when nothing remains.
Proceed(rows, rest) ==
    /\ tx' = rows
    /\ step' = rest
    /\ db' = IF rest = Idle THEN rows ELSE db

\* fire: the event is applied and the request goes on with the rest of its
\* work, or the state machine refuses, the request answers 409 and rolls back.
Fire(rows, event, context, rest) ==
    \E r \in {rows} :
        \/ /\ ~ \E t \in Row(r, event) :
                 Engine(r)!Accepts(Project, t, RowsAgree(r, t.guard, context))
           /\ tx' = db
           /\ step' = "refused"
           /\ UNCHANGED db
        \/ \E t \in Row(r, event) :
             /\ Engine(r)!Accepts(Project, t, RowsAgree(r, t.guard, context))
             /\ \E target \in {Engine(r)!Target(Project, t)} :
                  Proceed([r EXCEPT
                             !.status = target,
                             !.checkpoint = Engine(r)!Checkpointed(Project, target)[Project]],
                          rest)

\* A request for a project in this state; in any other it answers 409.
Request(status) == step = Idle /\ db.status = status

-----------------------------------------------------------------------------
(* Input, analysis and the gate                                            *)

\* PATCH /projects/{id} accepts a new text in any state.
UpdateIdea(text) ==
    /\ step = Idle
    /\ Proceed([db EXCEPT !.idea = text], Idle)

\* So does the upload of a document.
UploadDocument(text) ==
    /\ step = Idle
    /\ Proceed([db EXCEPT !.documents = Words(@) \cup text], Idle)

RunAnalysis ==
    \/ Request("IDEA_RECEIVED") /\ Fire(db, "ANALYSIS_STARTED", NoContext, "analyze")
    \/ Request("AUTO_BLOCKED_BY_POLICY") /\ Fire(db, "ALTERNATIVE_ACCEPTED", NoContext, "analyze")

Analyze == step = "analyze" /\ Fire(tx, "ANALYSIS_COMPLETED", NoContext, "classify")

\* A consultation that exists is used again.
ConsultedOnce(rows, trigger) ==
    IF rows.consultation = NoConsultation
    THEN [rows EXCEPT !.consultation = [trigger |-> trigger, status |-> "PENDING"]]
    ELSE rows

\* ConsultationService.create: the new row is the latest one.
Consulted(rows, trigger) == [rows EXCEPT
    !.consultation = [trigger |-> trigger, status |-> "PENDING"],
    !.earlier = @ \cup ({rows.consultation} \ {NoConsultation})]

\* The gate and the expansion ask an expert in the same way.
ExpertAsked(rows) == Consulted(rows, "EXPERT_REQUIRED")

\* The verdict is saved, the expert's confirmation carried over from the
\* previous one, and the gate decides how the project goes on.
Classify ==
    LET gate == Gate(Text(tx))
        carried == tx.verdict.confirmed
        rows == [tx EXCEPT !.verdict =
                    [text |-> Text(tx), confirmed |-> carried, answered |-> FALSE]]
    IN  /\ step = "classify"
        /\ \/ gate = "BLOCKED" /\ Fire(rows, "PROHIBITED_SCOPE_DETECTED", NoContext, Idle)
           \/ gate = "UNSUPPORTED" /\ Fire(rows, "CLASSIFIED_UNSUPPORTED", NoContext, Idle)
           \/ /\ gate = "NEEDS_EXPERT" /\ carried
              /\ Fire(rows, "EXPERT_CONFIRMED_PROCEED", NoContext, "draft")
           \/ /\ gate = "NEEDS_EXPERT" /\ ~carried
              /\ Fire(ExpertAsked(rows), "CLASSIFIED_EXPERT_REVIEW", NoContext, Idle)
           \/ gate = "NEEDS_APPROVAL" /\ Fire(rows, "CLASSIFIED_AI_ASSISTED", NoContext, Idle)
           \/ gate = "PROCEED" /\ Fire(rows, "CLASSIFIED_SELF_SERVICE", NoContext, "draft")

-----------------------------------------------------------------------------
(* Requirements                                                            *)

\* The requirements may conflict with any decision: none is ever superseded.
Conflicts(rows) == 1..rows.decisions

\* The text asks for something whose requirements conflict twice with a decision.
Contradicts(rows) == Text(rows) \cap Contradicting # {}

\* Two conflicts with one decision make one question key, of which only rows
\* written before are looked up (_create_conflict_questions): unless that question
\* exists, two rows with one key are written, and the database refuses.
KeyTakenTwice(rows) ==
    Contradicts(rows) /\ Conflicts(rows) \ (rows.open \cup rows.answered) # {}

\* Only questions still open are recognised as asked before.
UnaskedOrAnswered(rows) == (Cards \cup Conflicts(rows)) \ rows.open

\* The cards the agent may come up with and one question for every decision in
\* conflict, less those whose key exists.
Unasked(rows) == (Cards \cup Conflicts(rows)) \ (rows.open \cup rows.answered)

\* DecisionLog.add
Noted(rows) == [rows EXCEPT !.decisions = @ + 1]

\* The question answered, and the answer noted as a decision.
Answered(key) == [Noted(db) EXCEPT !.open = @ \ {key}, !.answered = @ \cup {key}]

\* The requirements are refined again, which may ask questions; the project
\* then waits for answers or for approval.  If a key is taken twice, nothing
\* remains but to roll back.
Draft ==
    /\ step = "draft" /\ ~KeyTakenTwice(tx)
    /\ \E asked \in SUBSET Unasked(tx) :
         LET rows == [tx EXCEPT !.open = @ \cup asked]
         IN  \/ rows.open # {} /\ Fire(rows, "DRAFT_HAS_UNKNOWNS", NoContext, Idle)
             \/ rows.open = {} /\ Fire(rows, "DRAFT_COMPLETED", NoContext, Idle)

\* The open questions are counted before the answer is flushed.
AnswerQuestionCountedEarly(key) ==
    /\ Request("WAITING_REQUIREMENT_INPUT")
    /\ key \in db.open
    /\ db.decisions < MaxDecisions
    /\ Proceed(Answered(key), Idle)

\* Every answer becomes a decision; the last one sends the project back to
\* drafting.
AnswerQuestion(key) ==
    LET rows == Answered(key)
    IN  /\ Request("WAITING_REQUIREMENT_INPUT")
        /\ key \in db.open
        /\ db.decisions < MaxDecisions
        /\ \/ rows.open # {} /\ Proceed(rows, Idle)
           \/ rows.open = {} /\ Fire(rows, "USER_ANSWERED", NoContext, "draft")

\* The approval is not saved before the event is fired.
DecidedUnsaved(type, approved) == db

Decided(type, approved) == [db EXCEPT !.approvals = @ \cup {<<type, approved>>}]

\* The redraft starts without the event that leads to drafting.
DecideRequirementsWithoutEvent(approved) ==
    LET rows == Decided("REQUIREMENTS", approved)
    IN  /\ Request("WAITING_REQUIREMENT_APPROVAL")
        /\ \/ approved /\ Fire(rows, "REQUIREMENTS_APPROVED", NoContext, "specify")
           \/ ~approved /\ Proceed(rows, "draft")

DecideRequirements(approved) ==
    LET rows == Decided("REQUIREMENTS", approved)
    IN  /\ Request("WAITING_REQUIREMENT_APPROVAL")
        /\ \/ approved /\ Fire(rows, "REQUIREMENTS_APPROVED", NoContext, "specify")
           \/ ~approved /\ Fire(rows, "CHANGES_REQUESTED", NoContext, "draft")

\* Approving the reduced scope is recorded as a decision of the project.
DecideReducedScope(approved) ==
    LET rows == Decided("REDUCED_SCOPE", approved)
    IN  /\ Request("WAITING_APPROVAL")
        /\ \/ /\ approved /\ db.decisions < MaxDecisions
              /\ Fire([Noted(rows) EXCEPT !.verdict.answered = TRUE],
                      "APPROVAL_GRANTED", NoContext, "draft")
           \/ ~approved /\ Fire(rows, "APPROVAL_DENIED", NoContext, Idle)

-----------------------------------------------------------------------------
(* Specification, capability gap and expansion                             *)

Specify ==
    /\ step = "specify"
    /\ Fire([tx EXCEPT !.prd = Text(tx)], "SPEC_COMPLETED", NoContext, "gap")

AnalyzeGap ==
    LET context == [NoContext EXCEPT !.missing = Missing(tx)]
    IN  /\ step = "gap"
        /\ \/ Missing(tx) # {} /\ Fire(tx, "GAP_FOUND", context, "expand")
           \/ Missing(tx) = {} /\ Fire(tx, "NO_GAP_FOUND", context, "backlog")

\* The catalogue resolves the capability with a server the registry knows.
Resolvable(capability) ==
    capability \in DOMAIN Catalog /\ Catalog[capability].server \in DOMAIN ServerSpecs

ServerOf(capability) ==
    IF Resolvable(capability) THEN Catalog[capability].server ELSE capability

\* build_connection_proposal: a server that is not approved is a new connection.
ConnectionProposal(server, new, write) == [
    kind    |-> "MCP_CONNECTION",
    risk    |-> ServerSpecs[server].risk,
    data    |-> ServerSpecs[server].data,
    signals |-> {s \in Signals :
        \/ s = "project_scoped"
        \/ s = "write_access" /\ write
        \/ s = "in_allowlist" /\ server \in Allowlist
        \/ s = "is_new_external_connection" /\ new
        \/ s = "external_network_server" /\ new /\ ServerSpecs[server].external}]

\* The proposal for a capability nobody knows how to provide.
UnknownProposal == [
    kind    |-> "MCP_CONNECTION", risk |-> "LOW", data |-> "INTERNAL",
    signals |-> {"project_scoped", "is_new_external_connection"}]

\* ProposalPlanner.plan
ProposalFor(rows, capability) ==
    IF Resolvable(capability)
    THEN LET entry == Catalog[capability]
         IN  ConnectionProposal(entry.server, rows.servers[entry.server] # "APPROVED", entry.write)
    ELSE UnknownProposal

DecisionFor(rows, capability) == Decide(ProposalFor(rows, capability))

StatusByDecision == [
    AUTO_APPROVE    |-> "AUTO_APPROVED",  USER_APPROVAL |-> "PENDING_USER",
    EXPERT_REQUIRED |-> "PENDING_EXPERT", AUTO_BLOCKED  |-> "BLOCKED"]

\* The most restrictive decision wins.
Aggregate(decisions) ==
    CHOOSE d \in decisions : \A e \in decisions : Severity[e] <= Severity[d]

\* The row that remembers the proposal for a capability and its judgment.
ProposalRecord(rows, capability) ==
    LET decision == DecisionFor(rows, capability)
    IN  [capability |-> capability, server |-> ServerOf(capability),
         decision |-> decision, status |-> StatusByDecision[decision]]

\* McpRegistry.set_status: a server nobody registered is passed over.
Approved(rows, proposals) == [rows EXCEPT
    !.servers = [s \in DOMAIN @ |-> IF \E p \in proposals : p.server = s THEN "APPROVED" ELSE @[s]]]

\* CapabilityRegistry.upsert: each capability has an available provider.
Registered(rows, proposals) ==
    [rows EXCEPT !.providers = @ \cup {p.capability : p \in proposals}]

Activated(rows, proposals) == Registered(Approved(rows, proposals), proposals)

\* Approval of everything not yet approved.
PendingOrBlocked(rows) ==
    {p \in rows.proposals : p.status \in {"PENDING_USER", "PENDING_EXPERT", "BLOCKED"}}

Pending(rows) == {p \in rows.proposals : p.status \in {"PENDING_USER", "PENDING_EXPERT"}}

\* approve_pending: whoever was meant to approve them, all waiting proposals
\* of the project are activated.
PendingApproved(rows) ==
    [Activated(rows, Pending(rows)) EXCEPT
        !.proposals = (@ \ Pending(rows)) \cup {[p EXCEPT !.status = "APPROVED"] : p \in Pending(rows)}]

\* Every missing capability is judged and recorded; the strictest decision
\* routes the project, and only if that is AUTO_APPROVE are the automatically
\* approved proposals activated.
Expand ==
    LET proposals == {ProposalRecord(tx, c) : c \in Missing(tx)}
        decision == Aggregate({p.decision : p \in proposals})
        rows == [tx EXCEPT !.proposals = @ \cup proposals]
        context == [NoContext EXCEPT !.decision = decision]
    IN  /\ step = "expand"
        /\ \/ /\ decision = "AUTO_APPROVE"
              /\ Fire(Activated(rows, proposals), "PROPOSAL_AUTO_APPROVED", context, "backlog")
           \/ decision = "USER_APPROVAL" /\ Fire(rows, "PROPOSAL_NEEDS_USER", context, Idle)
           \/ /\ decision = "EXPERT_REQUIRED"
              /\ Fire(ExpertAsked(rows), "PROPOSAL_NEEDS_EXPERT", context, Idle)
           \/ decision = "AUTO_BLOCKED" /\ Fire(rows, "PROPOSAL_BLOCKED", context, Idle)

DecideExpansion(approved) ==
    LET rows == Decided("EXPANSION", approved)
    IN  /\ Request("WAITING_EXPANSION_APPROVAL")
        /\ \/ approved /\ Fire(PendingApproved(rows), "EXPANSION_APPROVED", NoContext, "backlog")
           \/ ~approved /\ Fire(rows, "EXPANSION_DENIED", NoContext, Idle)

GenerateBacklog ==
    /\ step = "backlog"
    /\ Fire([tx EXCEPT !.backlog = TRUE], "BACKLOG_READY_EXISTING", NoContext, Idle)

-----------------------------------------------------------------------------
(* Expert consultation                                                     *)

\* The user asks for consultation material, in any state.
CreateManualConsultation ==
    /\ step = Idle
    /\ Proceed(Consulted(db, "USER_REQUESTED"), Idle)

\* The expert's confirmation does not reach the verdict.
ConfirmedNowhere(rows) == [rows EXCEPT !.verdict.answered = TRUE]

\* The latest verdict is marked as confirmed by an expert.
Confirmed(rows) == [rows EXCEPT !.verdict.confirmed = TRUE, !.verdict.answered = TRUE]

\* record_answer and mark_applied, on the latest consultation.
Applied(rows) == [rows EXCEPT !.consultation.status = "APPLIED"]

\* The answer is recorded on the latest consultation; to unblock is to confirm
\* the verdict and to return to the checkpoint.
AnswerConsultation(resolution) ==
    LET rows == Applied(db)
    IN  /\ Request("WAITING_EXPERT_CONFIRMATION")
        /\ db.consultation # NoConsultation
        /\ \/ resolution = "STOP" /\ Fire(rows, "EXPERT_ANSWER_STOPS", NoContext, Idle)
           \/ /\ resolution = "ADJUST_SCOPE"
              /\ Fire([rows EXCEPT !.verdict.answered = TRUE],
                      "EXPERT_ANSWER_ADJUSTS_SCOPE", NoContext, "draft")
           \/ /\ resolution = "UNBLOCK"
              /\ Fire(Confirmed(rows), "EXPERT_ANSWER_UNBLOCKS", NoContext, "resume")

\* A project unblocked at the gate is not taken further, or one unblocked in
\* its expansion.
ResumeInExpansionOnly ==
    /\ step = "resume"
    /\ \/ /\ tx.status = "EXPANSION_PROPOSING"
          /\ Fire(PendingApproved(tx), "PROPOSAL_AUTO_APPROVED",
                  [NoContext EXCEPT !.decision = "AUTO_APPROVE"], "backlog")
       \/ tx.status # "EXPANSION_PROPOSING" /\ Proceed(tx, Idle)
ResumeAtTheGateOnly ==
    /\ step = "resume"
    /\ \/ tx.status = "CLASSIFYING" /\ Fire(tx, "EXPERT_CONFIRMED_PROCEED", NoContext, "draft")
       \/ tx.status # "CLASSIFYING" /\ Proceed(tx, Idle)

\* The work the checkpoint stands for goes on.
Resume ==
    /\ step = "resume"
    /\ \/ /\ tx.status = "CLASSIFYING"
          /\ Fire(tx, "EXPERT_CONFIRMED_PROCEED", NoContext, "draft")
       \/ /\ tx.status = "EXPANSION_PROPOSING"
          /\ Fire(PendingApproved(tx), "PROPOSAL_AUTO_APPROVED",
                  [NoContext EXCEPT !.decision = "AUTO_APPROVE"], "backlog")
       \/ /\ tx.status \notin {"CLASSIFYING", "EXPANSION_PROPOSING"}
          /\ Proceed(tx, Idle)

-----------------------------------------------------------------------------

\* An agent call, the database or the process fails, or the state machine has
\* refused: the session is closed without a commit.
RollBack == step # Idle /\ tx' = db /\ step' = Idle /\ UNCHANGED db

\* The configuration replaces what was registered since.
RestartedAfresh(rows) == [rows EXCEPT
    !.servers = [s \in DOMAIN ServerSpecs |-> ServerSpecs[s].status],
    !.providers = Available]

\* sync_from_config of both registries: the configured status of each server is
\* written over the approved one; providers registered since stay.
Restarted(rows) == [rows EXCEPT
    !.servers = [s \in DOMAIN ServerSpecs |-> ServerSpecs[s].status],
    !.providers = @ \cup Available]

\* The process stops and starts again: what is uncommitted is lost.
Restart ==
    /\ db' = Restarted(db)
    /\ tx' = Restarted(db)
    /\ step' = Idle

Work ==
    Analyze \/ Classify \/ Draft \/ Specify \/ AnalyzeGap \/ Expand \/ Resume \/ GenerateBacklog

\* The requests that take a project further, whoever makes them.
Handling ==
    \/ RunAnalysis
    \/ \E key \in db.open : AnswerQuestion(key)
    \/ \E approved \in BOOLEAN :
         \/ DecideRequirements(approved)
         \/ DecideReducedScope(approved)
         \/ DecideExpansion(approved)
    \/ \E resolution \in {"UNBLOCK", "ADJUST_SCOPE", "STOP"} : AnswerConsultation(resolution)

Next ==
    \/ \E text \in Ideas : UpdateIdea(text) \/ UploadDocument(text)
    \/ Handling
    \/ CreateManualConsultation
    \/ Work
    \/ RollBack
    \/ Restart

Spec == Init /\ [][Next]_vars

-----------------------------------------------------------------------------
(* Properties                                                              *)

Pieces == {"analyze", "classify", "draft", "specify", "gap", "expand", "resume", "backlog"}

Steps == Pieces \cup {"refused", Idle}

ASSUME IdleAssumption == Idle \notin Pieces \cup {"refused"}

QuestionKeys == Cards \cup 1..MaxDecisions

ProposalRows == [
    capability : UNION {NeedsOf[f] : f \in Features},
    server     : DOMAIN ServerSpecs \cup UNION {NeedsOf[f] : f \in Features},
    decision   : Decisions,
    status     : {"AUTO_APPROVED", "PENDING_USER", "PENDING_EXPERT", "BLOCKED", "APPROVED"}]

RowsOK(rows) ==
    /\ rows.status \in Engine(rows)!States
    /\ rows.checkpoint \in Engine(rows)!States \cup {"none"}
    /\ \A text \in {rows.idea, rows.documents, rows.prd, rows.verdict.text} :
          text = NoText \/ text \subseteq Features
    /\ rows.open \cup rows.answered \subseteq QuestionKeys
    /\ rows.decisions \in 0..MaxDecisions
    /\ rows.proposals \subseteq ProposalRows
    /\ rows.providers \subseteq Available \cup UNION {NeedsOf[f] : f \in Features}

\* Types, and: a question is open or answered, never both; between requests
\* the session is what the database holds.
TypeOK ==
    /\ step \in Steps
    /\ RowsOK(db) /\ RowsOK(tx)
    /\ tx.open \cap tx.answered = {}
    /\ step = Idle => tx = db

\* The states past the gate of the suitability verdict.
PastGate == {
    "REQUIREMENT_DRAFTING", "WAITING_REQUIREMENT_INPUT", "WAITING_REQUIREMENT_APPROVAL",
    "SPECIFICATION_GENERATING", "CAPABILITY_ANALYZING", "EXPANSION_PROPOSING",
    "WAITING_EXPANSION_APPROVAL", "EXPANSION_REJECTED", "BACKLOG_GENERATING",
    "READY_FOR_DEVELOPMENT"}

\* Requirements are drafted and everything after them happens only for a text
\* that was judged, holds nothing prohibited or unsupported, and, if it needs
\* a developer or a reduced scope, that someone decided on (run_analysis).
GateHeld ==
    tx.status \in PastGate =>
        LET text == tx.verdict.text
        IN  /\ text # NoText
            /\ ~Mentions(text, "prohibited") /\ ~Mentions(text, "unsupported")
            /\ Mentions(text, "expert_review") => tx.verdict.confirmed \/ tx.verdict.answered
            /\ Mentions(text, "risky") /\ ~Mentions(text, "expert_review") => tx.verdict.answered

\* The states a project may be left in: those that some request accepts, the two
\* ends, and EXPANSION_REJECTED, a dead end (SomeoneCanGoOn).
RestingStates == {
    "IDEA_RECEIVED", "WAITING_APPROVAL", "WAITING_EXPERT_CONFIRMATION",
    "WAITING_REQUIREMENT_INPUT", "WAITING_REQUIREMENT_APPROVAL",
    "WAITING_EXPANSION_APPROVAL", "AUTO_BLOCKED_BY_POLICY",
    "READY_FOR_DEVELOPMENT", "CANCELLED", "EXPANSION_REJECTED"}

\* No request commits a project in the middle of its own work: in a state of
\* analysis, drafting, specification or expansion, which nothing would ever pick
\* up again.  Wherever a checkpoint leads, the request that returned there knows
\* how to go on.
Settled == db.status \in RestingStates

\* While answers are waited for there is a question to answer, and no question
\* is left open once requirements are put up for approval or used: otherwise
\* the project hangs, or is specified without the answers.
QuestionsMatchPhase ==
    /\ db.status = "WAITING_REQUIREMENT_INPUT" => db.open # {}
    /\ db.status \in {"WAITING_REQUIREMENT_APPROVAL", "WAITING_EXPANSION_APPROVAL",
                      "READY_FOR_DEVELOPMENT"} => db.open = {}

\* The workflow never asks the state machine for something it refuses, but for
\* the analysis of a project without any text: no request fails half way with
\* a conflict the user cannot resolve.
OnlyEmptyTextIsRefused ==
    step = "refused" => db.idea = NoText /\ db.documents = NoText

\* The drafting of requirements starts in the state it asserts
\* (_draft_requirements), as do the other pieces of shared work.
WorkMatchesStatus ==
    /\ step = "draft" => tx.status = "REQUIREMENT_DRAFTING"
    /\ step = "expand" => tx.status = "EXPANSION_PROPOSING"
    /\ step = "backlog" => tx.status = "BACKLOG_GENERATING"

\* A project that waits for a developer has an unanswered consultation, so the
\* answer goes to fresh material and not to one applied before.
ConsultationIsFresh ==
    db.status = "WAITING_EXPERT_CONFIRMATION" => db.consultation.status = "PENDING"

\* A server whose connection policy blocked is never activated, whatever other
\* proposals of the project are approved later (approve_pending).
BlockedStaysUnconnected ==
    \A p \in tx.proposals :
        p.decision = "AUTO_BLOCKED" /\ p.server \in DOMAIN ServerSpecs =>
            tx.servers[p.server] # "APPROVED"

\* What lacks a provider when development may start was at some time approved
\* automatically, beside a stricter decision that routed the project, and so not
\* activated (_resolve_expansion).  Nothing else is built upon without a provider,
\* over any number of scope adjustments, refusals, restarts and earlier rounds.
OnlyAutoApprovedIsLeftOut ==
    db.status = "READY_FOR_DEVELOPMENT" =>
        \A c \in Needs(db.prd) \ db.providers :
            \E p \in db.proposals : p.capability = c /\ p.status = "AUTO_APPROVED"

-----------------------------------------------------------------------------
(* What the documentation says and the code does not do                    *)

\* The items the MVP blocks automatically are blocked whatever a consultation
\* says (classifier.py): no PRD of a project that is ready asks for them.
ProhibitedIsNeverSpecified ==
    db.status = "READY_FOR_DEVELOPMENT" => ~Mentions(Words(db.prd), "prohibited")

\* What is approved automatically is activated: MCP server approved, provider
\* registered (expansion/service.py), and an expansion that was approved ends in
\* the registry (transitions.py).  So when development may start, each capability
\* the PRD needs has a provider.
ReadyIsProvided == db.status = "READY_FOR_DEVELOPMENT" => Needs(db.prd) \subseteq db.providers

\* Until the workflow is done with a project, the user or an expert can do
\* something about it: also after a refused expansion, when the user is told to
\* go on with less or to stop (decide_expansion).
SomeoneCanGoOn ==
    step = Idle /\ db.status \notin {"READY_FOR_DEVELOPMENT", "CANCELLED"} => ENABLED Handling

-----------------------------------------------------------------------------
(* Progress                                                                *)

\* Users and developers who are waited for answer in the end, and an agent does
\* not fail for ever.  A draft whose question key is taken twice does: it is not
\* enabled, and fairness asks nothing of it.
Fairness ==
    /\ WF_vars(RollBack)
    /\ SF_vars(Analyze) /\ SF_vars(Classify) /\ SF_vars(Draft) /\ SF_vars(Specify)
    /\ SF_vars(AnalyzeGap) /\ SF_vars(Expand) /\ SF_vars(Resume) /\ SF_vars(GenerateBacklog)
    /\ WF_vars(RunAnalysis)
    /\ WF_vars(\E approved \in BOOLEAN : DecideRequirements(approved))
    /\ WF_vars(\E approved \in BOOLEAN : DecideReducedScope(approved))
    /\ WF_vars(\E approved \in BOOLEAN : DecideExpansion(approved))
    /\ WF_vars(\E r \in {"UNBLOCK", "ADJUST_SCOPE", "STOP"} : AnswerConsultation(r))

FairSpec == Spec /\ Fairness

\* No wait for a person is entered again and again by the very answers that
\* should end it: the expert's answer, the decision on a reduced scope and the
\* decision on an expansion move the project on, whichever they are, unless the
\* text is one whose requirements cannot be drafted beside a decision.
WaitingEnds ==
    \A s \in {"WAITING_EXPERT_CONFIRMATION", "WAITING_APPROVAL", "WAITING_EXPANSION_APPROVAL"} :
        db.status = s ~> db.status # s \/ Contradicts(db)
=============================================================================
