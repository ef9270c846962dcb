------------------------- MODULE ConcurrentRequests -------------------------
(***************************************************************************)
(* Requests for one project served at the same time.                       *)
(*                                                                         *)
(* Nothing locks a project for the length of a request: app/db/session.py  *)
(* gives each its own session, and the requests of app/product/workflow.py *)
(* meet only in the rows of the database.  A session reads what is         *)
(* committed and what it wrote itself (READ COMMITTED, the default of the  *)
(* configured PostgreSQL), except that the project's status is read once,  *)
(* when the request loads the project, and kept.  A write locks its row,   *)
(* or the value of its unique key, until the session ends; the writer of   *)
(* the same row or key waits for that.                                     *)
(*                                                                         *)
(* One action is one statement of a session, or a stretch of statements    *)
(* that no other session can tell from one.  ProductWorkflow has the       *)
(* requests in full, one at a time; here they are what sessions can see of *)
(* each other: status, questions, decision numbers, requirement versions   *)
(* and the audit log.                                                      *)
(***************************************************************************)
EXTENDS FiniteSets, Naturals, SequencesExt, Transitions

CONSTANTS
    Sessions,
    Questions,        \* question keys a draft may ask
    Requirements,     \* requirement keys a draft may hold
    MaxDecisions,     \* bound on decisions when a request is accepted
    MaxVersion,       \* bound on the versions of a requirement
    NoQuestion,
    NoStatus

ASSUME BoundAssumption == MaxDecisions \in Nat /\ MaxVersion \in Nat
ASSUME AbsentAssumption == NoQuestion \notin Questions

VARIABLES
    db,          \* the committed rows
    session      \* session -> the request it serves, and its uncommitted writes

vars == <<db, session>>

\* What a session has written; all of it is committed or none.  version: the
\* versions that are new, active: the requirements in use after a draft.
NoWrites == [status |-> NoStatus, asked |-> {}, answered |-> {}, number |-> 0,
             audit |-> {}, version |-> [r \in Requirements |-> 0], active |-> {}]

\* A session that serves nothing.  at: the statement it does next; seen: the
\* status it loaded; number: the decision number it counted; locked: it has
\* written the project row.
Closed == [at |-> "closed", kind |-> "none", key |-> NoQuestion, seen |-> NoStatus,
           number |-> 0, locked |-> FALSE, writes |-> NoWrites]

NewProject == [
    status    |-> "IDEA_RECEIVED",
    planned   |-> FALSE,                            \* there is something to analyze
    open      |-> {},                               \* requirement_questions
    answered  |-> {},
    decisions |-> {},                               \* numbers of project_decisions
    version   |-> [r \in Requirements |-> 0],       \* project_requirements, 0: no row
    active    |-> {},
    audit     |-> {}]                               \* kinds of audit_logs rows

Init == db = NewProject /\ session = [s \in Sessions |-> Closed]

-----------------------------------------------------------------------------
(* What a session sees                                                     *)

Writes(s) == session[s].writes

OpenFor(s) == (db.open \cup Writes(s).asked) \ Writes(s).answered

AnsweredFor(s) == db.answered \cup Writes(s).answered

\* Numbers that another session has taken and not committed are counted, too.
CountedWithTaken(s) == Cardinality((db.decisions \cup {Writes(o).number : o \in Sessions}) \ {0})

\* The committed decisions: a session counts before it adds its only one.
CountedFor(s) == Cardinality(db.decisions)

Others(s) == Sessions \ {s}

\* The connection is reused without ending the transaction.
CloseUnended(s) == session' = [session EXCEPT ![s].at = "closed"]

\* Everything the session wrote is lost and its locks are free again.
Close(s) == session' = [session EXCEPT ![s] = Closed]

-----------------------------------------------------------------------------
(* The kinds of request                                                    *)

\* The status each request asks for before anything else (its first check).
Expected == [
    analyze |-> "IDEA_RECEIVED",                 answer  |-> "WAITING_REQUIREMENT_INPUT",
    approve |-> "WAITING_REQUIREMENT_APPROVAL",  change  |-> "WAITING_REQUIREMENT_APPROVAL",
    reduce  |-> "WAITING_APPROVAL",              stop    |-> "WAITING_APPROVAL"]

\* The events it fires before it drafts requirements or ends.
Events == [
    analyze |-> {<<"ANALYSIS_STARTED", "ANALYSIS_COMPLETED", "CLASSIFIED_SELF_SERVICE">>,
                 <<"ANALYSIS_STARTED", "ANALYSIS_COMPLETED", "CLASSIFIED_AI_ASSISTED">>},
    answer  |-> {<<"USER_ANSWERED">>},
    approve |-> {<<"REQUIREMENTS_APPROVED", "SPEC_COMPLETED", "NO_GAP_FOUND",
                   "BACKLOG_READY_EXISTING">>},
    change  |-> {<<"CHANGES_REQUESTED">>},
    reduce  |-> {<<"APPROVAL_GRANTED">>},
    stop    |-> {<<"APPROVAL_DENIED">>}]

\* The approval of a reduced scope fires its event before it notes the decision.
StatementsEventFirst == [
    analyze |-> <<"fire", "write">>,
    answer  |-> <<"find", "answer", "count", "note", "left", "fire", "write">>,
    approve |-> <<"fire", "write">>,
    change  |-> <<"fire", "write">>,
    reduce  |-> <<"fire", "write", "count", "note">>,
    stop    |-> <<"fire", "write">>]

\* The statements after the project is loaded, in order.
Statements == [
    analyze |-> <<"fire", "write">>,
    answer  |-> <<"find", "answer", "count", "note", "left", "fire", "write">>,
    approve |-> <<"fire", "write">>,
    change  |-> <<"fire", "write">>,
    reduce  |-> <<"count", "note", "fire", "write">>,
    stop    |-> <<"fire", "write">>]

\* What follows a statement; at the end, requirements are drafted if the status
\* calls for it, and the request is committed.
Following(kind, at, status) ==
    IF at = Last(Statements[kind])
    THEN IF status = "REQUIREMENT_DRAFTING" THEN "draft" ELSE "commit"
    ELSE LET i == CHOOSE n \in DOMAIN Statements[kind] : Statements[kind][n] = at
         IN  Statements[kind][i + 1]

Row(status, event) ==
    CHOOSE t \in ProductTransitions : t.source = status /\ t.event = event

\* Where events lead from a status, each a row of the table.
After(status, events) == FoldLeft(LAMBDA from, event : Row(from, event).target, status, events)

ProjectStates == {t.source : t \in ProductTransitions} \cup {t.target : t \in ProductTransitions}

\* The events of a request lead from the state it expects to a state, and so do
\* those that end a draft.
ASSUME EventAssumption ==
    /\ \A kind \in DOMAIN Expected :
          /\ Expected[kind] \in ProjectStates
          /\ \A events \in Events[kind] : After(Expected[kind], events) \in ProjectStates
    /\ \A event \in {"DRAFT_HAS_UNKNOWNS", "DRAFT_COMPLETED"} :
          Row("REQUIREMENT_DRAFTING", event).target \in ProjectStates

\* No event but the end of a draft with unknowns leads to the wait for answers.
ASSUME WaitAssumption ==
    /\ \A kind \in DOMAIN Expected : \A events \in Events[kind] :
          After(Expected[kind], events) # "WAITING_REQUIREMENT_INPUT"
    /\ Row("REQUIREMENT_DRAFTING", "DRAFT_COMPLETED").target # "WAITING_REQUIREMENT_INPUT"

\* A reduced scope leads to a draft.
ASSUME ReductionAssumption ==
    \A events \in Events["reduce"] : After(Expected["reduce"], events) = "REQUIREMENT_DRAFTING"

ASSUME StatusAssumption == NoStatus \notin ProjectStates

\* The guards that look at rows other sessions write; the rows the others ask
\* for were written by the request itself.
RowsAgree(s, guard) ==
    /\ guard = "has_planning_input" => db.planned
    /\ guard = "answered_question_exists" => AnsweredFor(s) # {}
    /\ guard = "open_questions_exist" => OpenFor(s) # {}
    /\ guard = "no_open_questions" => OpenFor(s) = {}

-----------------------------------------------------------------------------
(* Requests                                                                *)

\* PATCH /projects/{id}, one statement: there is a text now.
UpdateIdea ==
    /\ \A s \in Sessions : ~session[s].locked
    /\ db' = [db EXCEPT !.planned = TRUE]
    /\ UNCHANGED session

\* get_owned_project and the first check of the request.
Load(s, kind, key) ==
    /\ session[s] = Closed
    /\ db.status = Expected[kind]
    /\ kind \in {"answer", "reduce"} => Cardinality(db.decisions) < MaxDecisions
    /\ session' = [session EXCEPT ![s] =
           [Closed EXCEPT !.at = Statements[kind][1], !.kind = kind, !.key = key, !.seen = db.status]]
    /\ UNCHANGED db

\* The session does this statement, which writes these rows, and goes on.
Does(s, statement, writes) ==
    /\ session[s].at = statement
    /\ session' = [session EXCEPT
           ![s].at = Following(session[s].kind, statement, writes.status), ![s].writes = writes]
    /\ UNCHANGED db

\* The question is read; one already answered is a conflict.
FindQuestion(s) ==
    \/ session[s].key \in db.open /\ Does(s, "find", Writes(s))
    \/ session[s].key \notin db.open /\ session[s].at = "find" /\ Close(s) /\ UNCHANGED db

\* The answer is written to the row, whatever it holds by now.
WriteAnswer(s) ==
    /\ \A o \in Others(s) : session[s].key \notin Writes(o).answered
    /\ Does(s, "answer", [Writes(s) EXCEPT !.answered = {session[s].key}])

\* DecisionLog.add counts the decisions,
CountDecisions(s) ==
    /\ session[s].at = "count"
    /\ session' = [session EXCEPT
           ![s].at = Following(session[s].kind, "count", Writes(s).status),
           ![s].number = CountedFor(s) + 1]
    /\ UNCHANGED db

\* Nothing makes decision keys unique.
NoteDecisionTwice(s) == Does(s, "note", [Writes(s) EXCEPT !.number = session[s].number])

\* and inserts the next one.  The unique key refuses a number that is taken,
\* and makes the session wait while another one may take it.
NoteDecision(s) ==
    /\ \A o \in Others(s) : Writes(o).number # session[s].number
    /\ \/ /\ session[s].number \notin db.decisions
          /\ Does(s, "note", [Writes(s) EXCEPT !.number = session[s].number])
       \/ session[s].number \in db.decisions /\ session[s].at = "note" /\ Close(s) /\ UNCHANGED db

\* Only the answer to the last open question goes on; the others are done.
CountOpenQuestions(s) ==
    \/ OpenFor(s) = {} /\ Does(s, "left", Writes(s))
    \/ /\ OpenFor(s) # {} /\ session[s].at = "left"
       /\ session' = [session EXCEPT ![s].at = "commit"]
       /\ UNCHANGED db

-----------------------------------------------------------------------------
(* Firing events                                                           *)

\* The guard of the first event, by the row that applies to the loaded status.
GuardAgrees(s, event) == RowsAgree(s, Row(session[s].seen, event).guard)

\* The guard reads the rows.  A refusal is noted in the audit log before the
\* error is raised.
Fire(s) ==
    /\ session[s].at = "fire"
    /\ \E events \in Events[session[s].kind] :
         \/ GuardAgrees(s, Head(events)) /\ Does(s, "fire", Writes(s))
         \/ /\ ~GuardAgrees(s, Head(events))
            /\ session' = [session EXCEPT ![s].at = "refused", ![s].writes.audit = {"GUARD_REJECTED"}]
            /\ UNCHANGED db

\* The rows of the session with the status the events lead to.
Moved(s, events) == [Writes(s) EXCEPT !.status = After(session[s].seen, events),
                                      !.audit = {"STATE_TRANSITION"}]

\* The status is assigned but not sent to the database before the commit.
WriteStatusUnflushed(s) ==
    /\ session[s].at = "write"
    /\ \E events \in Events[session[s].kind] : Does(s, "write", Moved(s, events))

\* The new status is written to the project row, over whatever it holds by
\* now; further events of the request find the row locked already.
WriteStatus(s) ==
    /\ session[s].at = "write"
    /\ \A o \in Others(s) : ~session[o].locked
    /\ \E events \in Events[session[s].kind] :
         session' = [session EXCEPT
             ![s].at = Following(session[s].kind, "write", Moved(s, events).status),
             ![s].locked = TRUE,
             ![s].writes = Moved(s, events)]
    /\ UNCHANGED db

-----------------------------------------------------------------------------
(* Drafting requirements                                                   *)

\* A requirement that is taken up again unchanged keeps its version.
RevisedUnlessTakenUpAgain(drafted, changed) ==
    {r \in Requirements :
        \/ r \in drafted /\ (db.version[r] = 0 \/ r \in changed)
        \/ r \notin drafted /\ r \in db.active}

\* RequirementStore.sync: a requirement of the draft is new, changed or taken
\* up again, one that is not in it is put aside; each of these is a version.
Revised(drafted, changed) ==
    {r \in Requirements :
        \/ r \in drafted /\ (db.version[r] = 0 \/ r \in changed \/ r \notin db.active)
        \/ r \notin drafted /\ r \in db.active}

\* What the session has written after a draft.
DraftWrites(s, drafted, changed, asked) == [Writes(s) EXCEPT
    !.asked   = asked,
    !.active  = drafted,
    !.version = [r \in Requirements |->
                    IF r \in Revised(drafted, changed) THEN db.version[r] + 1 ELSE 0]]

\* _draft_requirements up to the count of open questions: requirements and
\* the questions whose key does not exist.
Draft(s) ==
    /\ session[s].at = "draft"
    /\ \E drafted, changed \in SUBSET Requirements, asked \in SUBSET Questions :
         /\ changed \subseteq drafted
         /\ asked \cap (db.open \cup AnsweredFor(s)) = {}
         /\ \A r \in Revised(drafted, changed) : db.version[r] < MaxVersion
         /\ session' = [session EXCEPT
                ![s].at = "settle", ![s].writes = DraftWrites(s, drafted, changed, asked)]
    /\ UNCHANGED db

\* The draft ends in a wait for answers or for approval.
Settle(s) ==
    LET event == IF OpenFor(s) # {} THEN "DRAFT_HAS_UNKNOWNS" ELSE "DRAFT_COMPLETED"
    IN  /\ session[s].at = "settle"
        /\ session' = [session EXCEPT ![s].at = "commit",
                                      ![s].writes.status = Row(Writes(s).status, event).target]
        /\ UNCHANGED db

-----------------------------------------------------------------------------

Drafted(s) == Writes(s).active # {} \/ \E r \in Requirements : Writes(s).version[r] # 0

\* The end of a request that succeeded.
Commit(s) ==
    LET w == Writes(s)
    IN  /\ session[s].at = "commit"
        /\ db' = [db EXCEPT
                    !.status    = IF w.status = NoStatus THEN @ ELSE w.status,
                    !.open      = OpenFor(s),
                    !.answered  = AnsweredFor(s),
                    !.decisions = @ \cup ({w.number} \ {0}),
                    !.version   = [r \in Requirements |-> IF w.version[r] # 0 THEN w.version[r] ELSE @[r]],
                    !.active    = IF Drafted(s) THEN w.active ELSE @,
                    !.audit     = @ \cup w.audit]
        /\ Close(s)

\* The endpoint answers 409 and the session is closed without a commit; so it
\* is when an agent, the database or the process fails at any statement.
RollBack(s) == session[s] # Closed /\ Close(s) /\ UNCHANGED db

Request(s) ==
    \/ \E kind \in DOMAIN Expected \ {"answer"} : Load(s, kind, NoQuestion)
    \/ \E key \in Questions : Load(s, "answer", key)

Next ==
    \/ UpdateIdea
    \/ \E s \in Sessions :
         \/ Request(s)
         \/ FindQuestion(s) \/ WriteAnswer(s) \/ CountDecisions(s) \/ NoteDecision(s)
         \/ CountOpenQuestions(s) \/ Fire(s) \/ WriteStatus(s) \/ Draft(s) \/ Settle(s)
         \/ Commit(s) \/ RollBack(s)

Spec == Init /\ [][Next]_vars

-----------------------------------------------------------------------------
(* Properties                                                              *)

Places == {"closed", "find", "answer", "count", "note", "left", "fire", "write", "draft",
           "settle", "commit", "refused"}

AuditKinds == {"STATE_TRANSITION", "GUARD_REJECTED"}

Rows == [
    status : ProjectStates,     planned : BOOLEAN,
    open : SUBSET Questions,    answered : SUBSET Questions,
    decisions : SUBSET Nat,     version : [Requirements -> Nat],
    active : SUBSET Requirements,
    audit : SUBSET AuditKinds]

WrittenRows == [
    status : ProjectStates \cup {NoStatus},
    asked : SUBSET Questions,   answered : SUBSET Questions,
    number : Nat,               audit : SUBSET AuditKinds,
    version : [Requirements -> Nat],
    active : SUBSET Requirements]

SessionRecords == [
    at : Places,                           kind : DOMAIN Expected \cup {"none"},
    key : Questions \cup {NoQuestion},     seen : ProjectStates \cup {NoStatus},
    number : Nat,                          locked : BOOLEAN,
    writes : WrittenRows]

\* Types; a session that serves nothing holds nothing.
TypeOK ==
    /\ db \in Rows
    /\ session \in [Sessions -> SessionRecords]
    /\ \A s \in Sessions : session[s].at = "closed" => session[s] = Closed

\* Two last answers given at the same time do not each leave the other one the
\* duty to go on (answer_question): a project that waits for answers has a
\* question to answer.  Only the unique decision key makes this so.
NeverStranded == db.status = "WAITING_REQUIREMENT_INPUT" => db.open # {}

\* Decisions are numbered without gaps, whoever counted when (DecisionLog.add);
\* with a gap the next number would be taken for ever, and no answer accepted.
DecisionsAreDense == db.decisions = 1..Cardinality(db.decisions)

\* Requirements, their versions and the questions of a draft are compared with
\* rows that nobody changes before the draft is committed (RequirementStore.sync
\* locks nothing): each version about to be written is the next one, and no
\* question about to be asked exists.  Every way to a draft locks the project.
DraftsAreUpToDate ==
    \A s \in Sessions :
        /\ \A r \in Requirements : Writes(s).version[r] \in {0, db.version[r] + 1}
        /\ Writes(s).asked \cap (db.open \cup db.answered) = {}

\* What a session waits for: a question's row, a decision key or the project.
WaitsFor(s, o) ==
    \/ session[s].at = "answer" /\ session[s].key \in Writes(o).answered
    \/ session[s].at = "note" /\ Writes(o).number = session[s].number
    \/ session[s].at = "write" /\ session[o].locked

\* No sessions wait for each other in a circle: rows and keys are locked in
\* the order question, decision, project.
NoDeadlock ==
    \A circle \in (SUBSET Sessions) \ {{}} :
        \E s \in circle : \A o \in circle \ {s} : ~WaitsFor(s, o)

Memory == INSTANCE ProjectMemory WITH
    decisions <- db.decisions,  open <- db.open,  answered <- db.answered,
    version <- db.version,      active <- db.active

\* Decisions, questions and requirements change as if requests came one at a
\* time (ProjectMemory), although their sessions overlap, count what is out of
\* date and overwrite each other's status: no decision, answer or version of a
\* requirement is lost, doubled or kept in part.
MemoryIsSequential == Memory!Spec

-----------------------------------------------------------------------------
(* What the documentation says and the code does not do                    *)

\* Only transitions of the table happen to a project (IMPLEMENTATION_PLAN.md
\* 6.3): the first event a session commits starts in the state the project is
\* in by then.
EventsFollowEachOther ==
    [][ \A s \in Sessions :
          Commit(s) /\ session[s].locked => session[s].seen = db.status ]_vars
=============================================================================
