# The orchestrator in TLA+

The repository is an orchestrator that turns the idea of a person who does not
program into a specified, planned and (later) developed project. Language
models will write texts; *code* decides what happens next: two state machines,
a policy engine, and a workflow that calls both. This directory models that
code, checks the models with TLC, and proves the parts that hold for every
instance with TLAPS.

Paths are relative to the repository: `app/...` is `src/app/...`.

## 1. The system

A FastAPI process serves requests of users. Each request opens one database
session (`app/db/session.py`), performs its whole piece of work in it, calling
the agents on the way, and commits once at the end; an exception rolls
everything back. There are no background workers: whatever a request leaves
unfinished stays so until another request takes it up.

| Component | State it keeps | Operations | Talks to |
|---|---|---|---|
| Transition tables `app/orchestrator/transitions.py` | none (data) | 59 Product rows, 67 Development rows; exception and terminal states | read by the engine |
| State machine engine `app/orchestrator/state_machine.py`, `transition_guard.py`, `checkpoints.py` | `projects.status`, `tasks.status`, `workflow_events`, `workflow_checkpoints` | `fire(subject, event, idempotency_key)` | guards read rows of every other component; writes the audit log |
| Product workflow `app/product/workflow.py` and the API routers | a project, its texts, verdicts, questions, approvals, documents | `run_analysis`, `answer_question`, `decide_requirements`, `decide_reduced_scope`, `decide_expansion`, `apply_consultation_answer`, `create_manual_consultation`; `PATCH /projects`, upload | fires events, calls agents, classifier, memory, expansion, consultation |
| Suitability gate `app/product/classifier.py` | none | `classify(text)` | workflow |
| Policy engine `app/policy/engine.py` | none | `decide(proposal)` | expansion |
| Capability expansion `app/expansion/`, `app/mcp/connection.py`, `allowlist.py`, `app/capabilities/gap_analyzer.py`, `matcher.py` | `expansion_proposals` | `plan_and_judge`, `activate`, `approve_pending` | policy engine, both registries |
| MCP and capability registries `app/mcp/registry.py`, `app/capabilities/registry.py` | `mcp_servers`, `capabilities`, `capability_providers` | `upsert`, `set_status`, `sync_from_config` at every start (`app/main.py`) | expansion, gap analysis |
| Expert consultation `app/consultation/` | `expert_consultations` | `create`, `latest_for_project`, `record_answer`, `mark_applied` | workflow |
| Project memory `app/project_memory/` | requirements and their versions, decisions, feedback | `sync`, `add`, `supersede`, `detect_conflicts` | workflow |
| Planning agents `app/product/core_agent.py`, `requirement_agent.py`, `specification_agent.py` | none | `analyze`, `refine`, `generate` (mocks of language models) | workflow |
| Database sessions `app/db/session.py`, `app/api/deps.py` | uncommitted writes and their locks | one session for each request: read, write, commit or close | every request |
| Timeout checker `app/orchestrator/timeout_checker.py` | its reminders in `audit_logs` | `check(subject, state, now)` | reads workflow events and the audit log; no scheduler calls it yet, only tests |
| Agent factory and registry `app/agents/` | `agent_definitions` | `assess` (validate, judge), `register`, `expire_for_project` | policy engine; nobody calls it yet, only tests |
| Authentication `app/api/auth.py`, `app/core/security.py`, repositories | users, sessions | login, logout, look-up | every request |

### What is hard in it

* *Interruptions.* Ten Product states and eleven Development states interrupt the
  work (a failure, a spent budget, a wait for a developer...). They follow one
  another; only the first of a chain saves a checkpoint, and the way back reads
  the latest one.
* *Texts change under verdicts.* The planning text may be edited in every
  state, while it is judged only at the gate.
* *Shared work.* Redrafting is entered from five requests, the expansion from
  one and left through four, the return from a consultation depends on a
  checkpoint written long ago.
* *Several rounds.* Proposals, consultations, questions and verdicts of earlier
  rounds stay in their tables, and look-ups ask for "the latest" or "all pending".
* *Atomicity.* One request is many flushes and one commit; a failure anywhere
  must leave nothing.
* *Concurrent sessions.* Nothing locks a project; two requests for it run side by
  side, and only row locks and unique indexes stand between them.
* *Late rows.* A row is stamped when it is flushed and visible when its session
  commits: whoever computes with stamps, as the timeout checker does, sees rows
  appear that say they are old.
* *Restarts.* The configuration is written over both registries at every start.

### What makes each component correct

* Engine: the status is always a state; every interruption can be left again,
  to where it began or along a row of the table; retries are bounded; a refused
  event changes nothing.
* Tables: no row, recovery rows included, enters a state that relies on an
  approval or on a check without it.
* Policy engine: more risk never makes a decision milder.
* Workflow: no request leaves the project in the middle of its work; the gate's
  verdict holds for whatever is drafted; no request is refused half-way; waits end
  when they are answered. That every project can go on until it is done is promised,
  and not so: a refused expansion is a dead end (`RejectedForGood`).
* Expansion: what policy blocks is never connected; development starts with a
  provider for every capability, restarts or not, except those approved
  automatically beside a stricter decision (`UnprovidedStart`).
* Sessions: answers given together leave nobody waiting for nothing; numbers
  counted from rows stay dense; a draft continues the rows it was compared with;
  requests do not block one another for ever; what overlapping requests leave in the
  memory of the project is what they would leave one after the other.
* Timeout checker: nobody is reminded twice of one kind of wait within its limit.
* Agents: what passes the validators is nothing policy blocks; what is registered is
  whole and found as one row; an agent that expired with its project is not brought
  back by a registration that came too late.

## 2. The modules

| Module | Models | Notes |
|---|---|---|
| `Transitions` | `transitions.py` | every row as `[source, event, target, guard]`. A `deferred:` guard always passes in the code (`GuardRegistry.evaluate`) and is `"deferred"` here; no guard is `"none"`. |
| `StateMachine` | `StateMachine.fire`, `CheckpointStore`, the guards the engine's own tables decide | parameterised by the table. One call is one step: `Apply`, `Reject` or `Replay`. What other components' rows answer to a data guard is the input `rowsAgree`. |
| `Lifecycle` | the abstract promise about interruptions | `StateMachine` implements it: the resume point is the checkpoint while the subject is interrupted. |
| `Clearances` | approvals and checks, observed | extends the engine with the history variable `cleared`; which events grant a clearance, which states withdraw it and which rely on it is data (`RequirementsApproved`, `PlanApproved`, `QualityPassed`, `ResultApproved`). |
| `PolicyEngine` | the rules of `engine.py`, signals of `policy/schemas.py` | constant module; adjacent rules with one decision are one predicate. |
| `PolicyOrder` | which proposal is riskier than which | constant module; `JudgedMonotonely` compares the verdicts of two proposals. |
| `ProductWorkflow` | one project and all its requests | fires its events through an instance of `StateMachine` over its rows (`Engine(rows)`), judges proposals with `PolicyEngine`. |
| `ConcurrentRequests` | six requests of the workflow, in sessions that run side by side | the statements at which sessions can see each other; events from `Transitions`. |
| `ProjectMemory` | the abstract promise about decisions, questions and requirements | one request at a time, each whole. `ConcurrentRequests` implements it: `MemoryIsSequential`. |
| `TimeoutChecker` | `timeout_checker.py`, the rows it reads, the requests and the clock that make them | one worker, one subject at a time. |
| `AgentRegistry` | `app/agents/`: validators, derivation of the proposal, registry | `Assessed` judges with `PolicyEngine`; sessions that register and expire run side by side and do not ask it. |
| `MCProductWorkflow`, `MCConcurrentRequests`, `MCTimeoutChecker`, `MCAgentRegistry` | instances for TLC | features, catalogue and servers after `src/configs/`; agents after `tests/`. `MCAgentRegistry` also has the assumptions by which TLC evaluates the two pure statements, `JudgedByAccess` and `JudgedMonotonely`. |
| `StateMachineProofs`, `ClearancesProofs`, `PolicyProofs`, `ProductWorkflowProofs`, `ConcurrentRequestsProofs`, `OverlapProofs`, `TimeoutCheckerProofs`, `AgentRegistryProofs` | the theorems | section 5. |

### How `ProductWorkflow` corresponds to the code

`db` is what is committed, `tx` what the open session sees, `step` what the
request being served does next (`Idle` between requests). A request reads `db`
and performs its first stretch of work; each later stretch up to and including
one `fire` is a step of `Work` on `tx`; the last one commits (`Proceed(rows, Idle)`
assigns `db'`). Between any two steps an agent call, the database or the
process may fail: `RollBack`. If the engine refuses an event, the request
answers 409: `step = "refused"`, and then the rollback.

| Action | Code |
|---|---|
| `UpdateIdea`, `UploadDocument` | `PATCH /projects/{id}`, `POST /documents` |
| `RunAnalysis`, `Analyze`, `Classify` | `run_analysis` |
| `Draft` | `_draft_requirements`, `_upsert_questions`, `_create_conflict_questions` |
| `AnswerQuestion`, `DecideRequirements`, `DecideReducedScope`, `DecideExpansion` | methods of the same names |
| `Specify`, `AnalyzeGap`, `Expand`, `GenerateBacklog` | `_generate_specification`, `_resolve_expansion`, `_generate_backlog` |
| `AnswerConsultation`, `Resume` | `apply_consultation_answer`, `_unblock_after_expert` |
| `CreateManualConsultation` | `create_manual_consultation` |
| `Restart` | the process stops and starts: `lifespan` in `app/main.py`, `sync_from_config` of both registries |

A planning text is the set of features it asks for; `KeywordsOf` says on which
list of `auto-block-policy.yaml` a feature's words are, `NeedsOf` which
capabilities the analysis (any `CoreAgent`) derives from it. The cards a requirement agent asks and
the decisions the conflict detector objects to are any subset of those whose key
does not exist: the code accepts any. Decisions are a count, because
`decision_key` is a number. Features in `Contradicting` are those whose
requirements conflict twice with a decision: the two questions then have one key,
the flush fails (`KeyTakenTwice`), and of such a draft only `RollBack` is left. `verdict.answered` is an observation of the model: a
person (the expert, or the user at a reduced scope) decided on this very
verdict; no guard reads it.

Simplifications that could matter, and why they do not: only the latest
consultation is ever written, so earlier ones are kept as a set of what they
look like; the latest verdict and the latest checkpoint are the only ones read;
providers are a set of capabilities, since the workflow asks only whether one
is available; `record_answer` and `mark_applied` happen in one session with
nothing in between that reads the consultation, so they are one assignment.

### How `ConcurrentRequests` corresponds to the code

`ProductWorkflow` has every request in full and serves one at a time;
`ConcurrentRequests` has several sessions and, of each request, only what another
session could notice. `db` is what is committed, `session[s]` the request of a
session, the statement it does next and its uncommitted writes. PostgreSQL's
READ COMMITTED is the isolation of `app/db/session.py`: a statement sees what is
committed when it runs and what its own session wrote. The exception is the
project itself, which the identity map of SQLAlchemy keeps as it was loaded;
`seen` is that status. A write waits for the row, or for the value of a unique
key, that another session has written; `locked` is the project row. A refused
unique key, like every exception, closes the session (`Close`).

| Action | Code |
|---|---|
| `Load` | `get_owned_project` (`app/api/deps.py`) and the check at the top of each request |
| `FindQuestion`, `WriteAnswer`, `CountOpenQuestions` | `answer_question` |
| `CountDecisions`, `NoteDecision` | `DecisionLog.add`, also from `decide_reduced_scope` |
| `Fire`, `WriteStatus` | `StateMachine.fire` up to the guard, and from the flush on |
| `Draft`, `Settle` | `_draft_requirements`, `RequirementStore.sync`, `VersionStore.record` |
| `Commit`, `RollBack` | the endpoint's `commit`, or the end of the session without one |
| `UpdateIdea` | `PATCH /projects/{id}` |

`ProjectMemory` sees the committed decisions, questions and requirements of all this.
Each commit is one of its actions (`Answer`, `ReduceScope`, `Redraft`) or changes
nothing it can see, and every other statement is a stutter. Status and audit log are
not part of it: `StaleOverwrite` shows that the status does not change as if requests
came one at a time. A question may be answered twice in it, as section 4 tells.

Further events of a request after the first only write a row that is locked
already, so `Events` has them as one sequence. Expansion and consultation are
left to `ProductWorkflow`: they write to the same tables behind the same lock of
the project.

### How `TimeoutChecker` corresponds to the code

`entered` and `reminded` are the latest committed row for each subject and state
of `workflow_events` and `audit_logs`; `check` asks for no others. `Look` is the
call, with status and time as arguments that are not read again; `Measure` is
`_state_entered_at` and the comparison with the limit, `Record` is
`_already_notified` and the flush of the reminder, `Publish` the commit. `Fire`
stamps a transition and `Commit` or `RollBack` ends its request at any later time.

### How `AgentRegistry` corresponds to the code

`Register` is the look-up of `register`, with any definition and any project or none,
as the code asks neither for the assessment nor for the scope that the definition
names; `Insert` and `Update` are its two flushes, `Expire` and `WriteExpiry` are `expire_for_project`. An update
carries only the columns that differ from the row as loaded (`Changed`), as the
unit of work of SQLAlchemy does, and `Merged` puts them over the committed row.
`Assessed` is `assess`: the validators, and for what passes them the verdict of the
policy engine on the derived proposal.
`NoProject` is a NULL `project_id`, which no unique constraint compares.

## 3. The runs

Passing runs:

| Run | Instance | Shows |
|---|---|---|
| `ProductMachine` | Product table, one project, `MaxRetries = 3` (the default of `max_retry_attempts`), one idempotency key | an interrupted project always has a working state to return to (`RecoveryPoint`), is retried at most three times over its life (`RetryBudget`), the engine implements `Lifecycle` (`ResumesWhereItStopped`), and requirements are used only as last approved (`WorkIsCleared`) |
| `DevelopmentMachine` | Development table, one task, same bounds | the same, with plan approval, quality gate and user acceptance |
| `WorkflowGates` | texts from every keyword list and none, one card, two decisions, one conflict question for each | types and the separation of open and answered questions; nothing past the gate without a verdict that allows it (`GateHeld`); no commit leaves the project in the middle of its work (`Settled`); questions are open exactly while answers are waited for (`QuestionsMatchPhase`); the engine never refuses what the workflow asks, but for an empty project (`OnlyEmptyTextIsRefused`); shared work starts in the state it asserts (`WorkMatchesStatus`) |
| `WorkflowExpansion` | needs that policy approves, gives to the user, to a developer, or blocks, one that the catalogue does not know, in every combination over any number of rounds, with restarts at any moment; one text that a developer has to confirm at the gate | `Settled`, `OnlyEmptyTextIsRefused`, also when an earlier confirmation is carried over to a new verdict; a project that waits for a developer has a consultation that is still unanswered (`ConsultationIsFresh`); a blocked server is never activated (`BlockedStaysUnconnected`); what a ready project lacks a provider for was approved automatically beside a stricter decision, and nothing else, also after the configuration was written over the registries (`OnlyAutoApprovedIsLeftOut`) |
| `WorkflowProgress` | one text for the developer, one for the user twice, one whose drafts fail once there is a decision | waits end once they are answered (`WaitingEnds`), under `FairSpec`, for all texts but those |
| `ConcurrentRequests` | three sessions, two questions, one requirement | no two last answers leave the project waiting with no question open (`NeverStranded`); decision numbers have no gap, which would block every later one (`DecisionsAreDense`); drafts are compared with rows nobody changes before they commit (`DraftsAreUpToDate`); no circle of waits (`NoDeadlock`); decisions, questions and requirements change as if requests came one at a time, the refinement of `ProjectMemory` (`MemoryIsSequential`) |
| `TimeoutReminders` | one project that waits for answers, for approval, and again | reminders of one state are further apart than its limit, over repeated stays, late commits and failures (`RemindersAreSpaced`) |
| `AgentRegistrations` | two sessions, a harmless definition, a persistent one and one that is not valid, one project and none | rows are whole although concurrent updates mix columns (`TypeOK`); one row for each agent of a project (`LookupFindsOne`); an agent that expired becomes active only by a registration that saw it expired (`ExpiryIsNotUndone`) |

Runs that must find a violation, each the evidence of a finding:

| Run | Property | What happens |
|---|---|---|
| `ProhibitedSpecified` | `ProhibitedIsNeverSpecified` | the text is changed to a prohibited one after the gate, approved, specified and planned |
| `StaleOverwrite` | `EventsFollowEachOther` | two requests load one status; the second commits its event over the status the first one left behind |
| `UnprovidedStart` | `ReadyIsProvided` | a text needs one capability that policy gives to the user and one that it approves automatically; the user approves, and only the first gets a provider |
| `RejectedForGood` | `SomeoneCanGoOn` | the user refuses an expansion; from `EXPANSION_REJECTED` no request goes on |

### Bounds

* `Subjects` has one element in the engine runs: subjects share nothing but the
  set of used keys, and the theorems hold for every number of them.
* `Ideas` are the texts the user writes; uploads accumulate, so all their unions
  occur. One feature per keyword list and one capability per decision of the
  policy engine are enough: the code asks only which list matches and which
  decision is the strictest. `ExpansionIdeas` pairs needs, so that two decisions
  are made in one request, and a need with a text that the gate gives to a developer,
  so that the confirmation of one verdict meets the next. `WaitIdeas` has one text
  for each kind of wait.
* `Contradicting` is `game` in `WorkflowGates`, which is reached when a draft follows
  a change of the text, and `echo` in `WorkflowProgress`; elsewhere it is empty, as
  there are no decisions.
* `Cards`: one card besides conflict questions. A card and a conflict together
  already make drafts that ask nothing, one or several questions, repeatedly.
* `MaxDecisions`: the code has no bound. Every answer is a decision and every
  decision may conflict with the next draft, so the questions need never end;
  at the bound the model stops accepting answers. Two decisions give a conflict
  with an earlier and with a later one.
* `ConcurrentRequests`: three sessions, because a third can act between the two
  that disagree (with two, a deadlock is the only circle). Two questions are a
  last one and one before; one requirement is created, changed, put aside and
  taken up again; `MaxDecisions = 2` and `MaxVersion = 2` let two answers
  number, and two drafts revise, side by side. Sessions are symmetric. `MaxDecisions` is asked
  when a request is accepted, so that requests already accepted may exceed it.
* `TimeoutChecker`: limits of one second, and six readings of the clock: a stay
  that is reminded, a second one and its reminder need five. Clock readings
  repeat whenever no `Tick` lies between two actions. Subjects share only the
  worker; the theorem holds for all numbers of them.
* `AgentRegistry`: a row for an agent of the project, and two for one without. Of
  `MCDefinitions` one is harmless, one differs from it in each column of the row, and
  one is not valid.
  One agent id: rows of different ids never meet. `Variants`, which TLC evaluates
  `JudgedByAccess` for, breaks each rule of the validators once and differs in each
  signal; `Compared` has one signal of each kind that the rules name.
* `MaxRetries` inside `Engine(rows)` and the keys are never used by the
  workflow: it fires no retry event and passes no key.

Deadlock is checked in every run.

### Fairness

`WaitingEnds` is checked under `FairSpec` of `ProductWorkflow`. Weak
fairness of the requests says that a person who is waited for answers in the
end; weak fairness of `RollBack` that an
open session is closed. The work steps have strong fairness: an agent or the
database may fail any number of times, but not at every attempt for ever. The
requests that change texts or make consultation material have no fairness.
Answers to questions have none either, as the bound on decisions would make a
promise about them meaningless. A draft whose question key is taken twice fails
at every attempt: `Draft` is not enabled then, so its fairness asks nothing, and
`WaitingEnds` exempts the texts in `Contradicting`, of which nothing is promised.

There is no fairness in `TimeoutChecker`, as no code schedules `check`, and
therefore nothing is said to be noticed in the end.

## 4. What the findings mean

Each is a difference between the code and a sentence of the repository, quoted
in `PROJECT.json`. `ProhibitedSpecified` and `StaleOverwrite` have one cause:
something is used after it was read or judged without looking again (the text
after the gate, the status after the load). `GateHeld`, `NeverStranded` and
`DraftsAreUpToDate` say what nevertheless holds: the lock of the project row comes
late, but in time for everything that is drafted. `UnprovidedStart` and
`RejectedForGood` are branches that end early: of several capabilities judged
together only the strictest decision is acted upon (`Expand`), and the refusal of an
expansion leads to a state whose ways out no request fires. `OnlyAutoApprovedIsLeftOut`
and `Settled` say what nevertheless holds: no capability is left out for another
reason, and no other state is a dead end in the middle of the work.

Also seen, and not run:

* A proposal an expert answered with "adjust the scope" stays `PENDING_EXPERT`
  and is approved together with a later one by the user (`Pending`).
* The audit row of a refused event is flushed, and lost with the request that
  answers 409 without a commit (`Fire`, `RollBack` of `ConcurrentRequests`), although
  `app/db/models/audit_log.py:3` and `app/orchestrator/state_machine.py:4` say
  refusals are recorded.
* The expert's confirmation of one verdict is carried over to the next one
  (`Classify`), for whatever items that has.
* An answer is recorded on the latest consultation, which may be material that
  the user made by hand in the meantime (`Applied`).
* Two sessions that read one question as open both answer it: the second
  waits for the row and then replaces the answer; both are decisions
  (`WriteAnswer`). Had they counted the same number the second would fail.
* A reminder noted between a request's stamp and its commit counts for the stay
  that the request begins, which is then never reminded itself, although
  `src/IMPLEMENTATION_PLAN.md:274` has every wait notified that times out; the status
  `check` is given may be an old one (`Look`, `Record`).
* Agents without a project may have two rows, after which each look-up raises
  (`LookupFindsOne` speaks of projects only). Of two concurrent registrations
  the columns may be mixed: a lifecycle column of one and the definition of the
  other (`Merged`), while `app/db/models/agent_definition.py:4` has the columns taken
  from the definition. An agent registered while its project's agents expire stays
  active.
* `register` asks neither for the assessment nor for the project that the definition
  names: what policy blocked can be registered, and what it approved for a project
  can be registered for the whole organisation. Nor does the verdict depend on that
  project: `derive_proposal` leaves the defaults of the schema, by which every agent
  without network, shell or a longer life passes as a read-only tool of the allowlist
  (`JudgedByAccess`), one that names no project included, although
  `docs/spec/05-policy.md:47` gives agents of the whole organisation to an expert.
* `FAILED --RETRY_EXHAUSTED_SCOPE_DOWN--> REQUIREMENT_DRAFTING` and
  `TOKEN_BUDGET_EXCEEDED --BUDGET_INCREASE_DENIED-->` have no guard, so a project
  whose analysis failed could be drafted unclassified; no request fires them yet.
* `LOCAL_VALIDATING --REPAIR_LIMIT_EXCEEDED--> WAITING_USER_REVIEW` leads to the
  state from which a result is accepted and merged; no code fires it yet.
  `QualityPassed` therefore covers the states up to packaging and not the merge.
* An unknown capability, once approved, gets a provider under a server name that
  does not exist (`UnknownProposal`, `Activated`). The name is that of the capability:
  were it also the id of a server, even of one that policy blocks, that server would
  be connected. The shipped names of capabilities (`email-send`) and servers
  (`gmail-mcp`) do not meet; `NameAssumption` of `ProductWorkflow` says so.
* Two conflicts of one draft with the same decision make one question key twice,
  which the unique constraint refuses at every attempt (`KeyTakenTwice`).

## 5. Proofs

All proofs are checked by TLAPS with no assumption but the named `ASSUME`s of the
modules, which TLC evaluates for the shipped tables.

* `StateMachineProofs`: `TypeCorrect`, `AlwaysRecoverable`, `RetriesBounded`,
  `ImplementsLifecycle`, for every table with `TableAssumption` (rows are
  unambiguous, only exception states return to a checkpoint, retries carry
  `can_retry`, terminal states have no rows), every set of subjects and limit.
  The inductive invariant `IInv` is `TypeOK /\ RecoveryPoint /\ RetryBudget`:
  `RecoveryPoint` needs the types, since a row that returns to the checkpoint
  leads to a state only because the checkpoint is one. A subject enters an
  exception from a working state, which is saved, or from an exception, whose
  checkpoint stays. The refinement maps `resume` to the checkpoint of an
  interrupted subject; `IInv` shows that a row that returns leads out of the
  exceptions, so it is the abstract `Resume`, and every other row is one of
  `Proceed`, `Interrupt`, `Escalate`.
* `ClearancesProofs`: `WorkAlwaysCleared`. `ClearanceAssumption` is a condition
  on single rows: a covered state is entered from a covered state or by a
  granting event, and no covered or exception state withdraws the clearance. The
  theorem says that this local check suffices for all histories. `WorkIsCleared`
  is not inductive, because while a subject is interrupted nothing covers it;
  the strengthening `ResumePointIsCleared` says that the clearance of the state
  in its checkpoint survives the interruption. TLC checks the two tables
  against `ClearanceAssumption`.
* `PolicyProofs`: `DecideIsMonotone`, over all pairs of proposals. `Riskier` keeps
  membership of the allowlist fixed: the rules that approve a reused resource
  or a project's agent do not look at the allowlist, while being on it may
  bring in the user, so no order on proposals that counts it as favourable makes
  `decide` monotone.
* `ConcurrentRequestsProofs`, for any number of sessions, questions and
  requirements. `TypeCorrect`: the types alone are not inductive, because a row of
  the table is chosen for the loaded status and event; `TInv` adds that a session
  at a statement has the kind and the loaded status that belong to it
  (`InPlace`), and `EventAssumption`, which TLC evaluates, that those rows exist.
  `DecisionsWithoutGaps`: what a session counted may be stale, but a number it
  noted is at most one more than the committed decisions, for these only grow;
  the unique key then leaves only the next number (`Numbered`).
  `DraftsFollowTheRows`: at most one session holds the project (`OneLock`), a
  session that drafts holds it, and whatever else it wrote concerns rows that exist
  (`Holds`); so a commit by another session can answer questions but neither
  create them nor revise requirements.
* `OverlapProofs`, from the three invariants before.
  `NobodyIsStranded`: of all sessions that answer, one alone gets past its decision,
  because its key is unique, so the questions it counts as open (`Leaves`) are not
  answered by another before it commits. `WaitAssumption`, evaluated by TLC, says that
  only the end of a draft with unknowns leads to the wait; `StatusAssumption` tells
  "no status written" from a status.
  `NobodyIsBlocked`: sessions lock questions, then a decision key, then the project
  (`Ordered`). A circle of waits of whatever length needs no induction: whoever in it
  is about to lock what comes last in this order waits for a session that is past the
  lock, and that one is not in the circle (`LastInOrderWaitsForNone`).
  `ImplementsProjectMemory`: the refinement. `Whole` says what a session will commit
  is one request and all of it: an answer with its decision, a reduced scope with its
  decision and its draft, and a draft that renews what comes and what goes
  (`Follows`) of the rows committed *by then*. It is inductive because only the holder of the
  project has drafted, so no commit of another session touches the requirements a draft was
  compared with; `ReductionAssumption`, evaluated by TLC, says that a reduced scope
  leads to a draft. The number a session commits is the next one by `Numbered`.
* `ProductWorkflowProofs`, for all texts, keyword lists, cards, catalogues,
  configurations of servers and bounds: all nine invariants of the workflow runs, from
  one inductive invariant (`WorkflowInvariant`). `IInv` says of the committed rows and
  of those the open session sees that they are `Sound`, whatever the project does, and
  in the `Phase` that the status and the piece of work at hand call for. Each part is
  there because a step needs it: the material a developer answers is fresh only if
  nothing overwrites it while the project waits (`ExpertFits`); the return to the
  checkpoint is legal only because that can only be `CLASSIFYING` or
  `EXPANSION_PROPOSING` by then, and what holds of the state it leads to must survive
  the wait (`Underway`, `Promised`); a server stays unconnected because every
  proposal for a forbidden one is blocked, and not only the latest (`Forbidden`); no
  empty expansion is judged, since work that expands has found something missing
  (`PieceFits`). The engine enters through two lemmas: what firing an event does to the
  rows (`FireOutcome`) and what the return to the checkpoint does (`UnblockOutcome`);
  `FiredAlone` says which row applies. Assumptions: `TextAssumption`,
  `QuestionAssumption` (card keys are no numbers of decisions), `NameAssumption` (see
  section 4) and `IdleAssumption`, all evaluated by TLC for the instances.
* `TimeoutCheckerProofs`: `TypeCorrect` and `SpacedReminders`, for every table of
  limits. An action property needs the state before the step to say why the
  reminder is late enough: `CallIsTimely` follows a call from step to step (the
  time it looked at is not in the future; past `Measure` the limit has run out
  since the entry it found; past `Record` the reminder is later than the last one
  by more than the limit). Entries may be replaced meanwhile, so it speaks of what
  the call remembers, not of the table.
* `AgentRegistryProofs`: `AgentsAreJudgedByAccess`, for all definitions, a statement
  about `Assessed` alone. `TypeCorrect`, `AgentsAreFound` and `ExpiredStayExpired`, for
  any number of sessions, definitions and projects, from `RInv`: what a session loaded may be stale but has the key of the committed row
  (`LoadsOK`), so an update writes no column of the key (`WritesOK`, `IsChange`)
  and leaves a whole row (`ChangeMakesRow`); a new row waits for every session that
  inserts its key (`KeysUnique`), so its key is still free when it is committed. `ExpiredStayExpired`
  adds `RevivesOK`: an update that carries the status loaded the row expired, since
  it carries no column that equals the one it loaded.

Every invariant and action property that a passing run checks is also a theorem.
Only model-checked: liveness (`WaitingEnds`), as fairness and `ENABLED` are beyond
the prover; and the four runs that find a violation.

## 6. Not modelled, and the plan

Left out for good:

* the wording of agents, questions, packages and documents, and the masking of
  secrets in consultation texts: formatting;
* configuration, logging, health check and migrations: constants and pure input
  and output;
* authentication: a login makes a row, a logout revokes it, a look-up compares one
  row with the clock. No step depends on the order of others, and there is nothing
  a model checker would add to the tests;
* the execution of development tasks: the repository has the table and the
  machine, and no handler that fires their events.

Partly modelled: proposals and providers of one project only; `supersede` and
feedback rows, which no modelled step reads; audit rows about proposals and
consultations, which nobody reads; tools of MCP servers and the health check.

What is left of the plan, in this order:

1. Action properties of `ProductWorkflow`, from `IInv`: what no request undoes
   (an approved server, an answered question, an approval).
2. `Registries`: proposals of two projects over one set of servers and
   providers, and priorities of providers.
3. Checkpoints ordered by a `created_at` whose readings repeat.
4. `DevelopmentTasks`: two tasks of one project, whose approvals are counted per
   project, once a handler fires their events.
