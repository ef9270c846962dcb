----------------------------- MODULE Clearances -----------------------------
(***************************************************************************)
(* What the transition tables promise about approvals, checks and gates,   *)
(* when they are run by the engine with all its interruptions.             *)
(*                                                                         *)
(* A clearance (the requirements were approved, the quality gate passed)   *)
(* is granted by some events and is withdrawn when the subject enters a    *)
(* state that redoes the work it vouches for.  It covers the states that   *)
(* rely on it.  No table row mentions clearances: they are an observation  *)
(* of the history, which the variable cleared keeps.  A recovery that      *)
(* jumped to a stale checkpoint, or a row that skipped a gate, would show  *)
(* as a covered state without its clearance.                               *)
(***************************************************************************)
EXTENDS StateMachine

CONSTANT Clearances  \* records [name, grants, revokes, covers]

\* What can be read off the table alone: a covered state is entered from a
\* covered state or by a granting event, and never where the work is redone.
ASSUME ClearanceAssumption ==
    \A c \in Clearances :
        /\ InitialState \notin c.covers
        /\ c.revokes \cap (c.covers \cup ExceptionStates) = {}
        /\ \A t \in Table :
              t.target \in c.covers => t.event \in c.grants \/ t.source \in c.covers

VARIABLE cleared     \* the names of the clearances each subject holds

cvars == <<vars, cleared>>

Names == {c.name : c \in Clearances}

\* What is left of the subject's clearances after it applied event e and
\* entered state target.
Holds(s, c, e, target) ==
    /\ target \notin c.revokes
    /\ e \in c.grants \/ c.name \in cleared[s]

CApply(s, t, k, rowsAgree) ==
    /\ Apply(s, t, k, rowsAgree)
    /\ cleared' = [cleared EXCEPT ![s] =
           {c.name : c \in {d \in Clearances : Holds(s, d, t.event, Target(s, t))}}]

CInit == Init /\ cleared = [s \in Subjects |-> {}]

CNext ==
    \E s \in Subjects, k \in Keys \cup {NoKey}, rowsAgree \in BOOLEAN :
        \/ \E t \in Table : CApply(s, t, k, rowsAgree)
        \/ \E e \in Events : Reject(s, e, k, rowsAgree) /\ UNCHANGED cleared
        \/ Replay(k) /\ UNCHANGED cleared

CSpec == CInit /\ [][CNext]_cvars

-----------------------------------------------------------------------------
(* The clearances of the two tables                                        *)

\* A project specifies, plans and develops only requirements a user approved
\* after they were last drafted.
RequirementsApproved == [
    name    |-> "requirements",
    grants  |-> {"REQUIREMENTS_APPROVED"},
    revokes |-> {"DOCUMENT_ANALYZING", "REQUIREMENT_DRAFTING"},
    covers  |-> {"SPECIFICATION_GENERATING", "CAPABILITY_ANALYZING",
                 "EXPANSION_PROPOSING", "WAITING_EXPANSION_APPROVAL",
                 "EXPANSION_REJECTED", "MCP_CONNECTION_FAILED",
                 "BACKLOG_GENERATING", "BOOTSTRAPPING", "READY_FOR_DEVELOPMENT"}]

ProductClearances == {RequirementsApproved}

\* A task works on an execution plan approved after it was last made.
PlanApproved == [
    name    |-> "plan",
    grants  |-> {"PLAN_AUTO_APPROVED", "PLAN_APPROVED"},
    revokes |-> {"SUPERVISING"},
    covers  |-> {"WORKSPACE_CREATING", "IMPLEMENTING", "LOCAL_VALIDATING",
                 "COMMITTING", "PR_CREATING", "CI_RUNNING", "REVIEWING",
                 "REPAIRING", "PACKAGING", "WAITING_USER_REVIEW", "CONFLICTED",
                 "READY_FOR_MERGE", "MERGED", "DELIVERED", "CLEANUP", "COMPLETED"}]

\* A task commits, opens a pull request and packages only code the quality
\* gate passed after it was last changed.
QualityPassed == [
    name    |-> "quality",
    grants  |-> {"QUALITY_GATE_PASSED"},
    revokes |-> {"IMPLEMENTING", "REPAIRING", "LOCAL_VALIDATING"},
    covers  |-> {"COMMITTING", "PR_CREATING", "CI_RUNNING", "REVIEWING", "PACKAGING"}]

\* A task is merged and delivered only after the user accepted the result,
\* and the code was not changed since.
ResultApproved == [
    name    |-> "result",
    grants  |-> {"USER_APPROVED"},
    revokes |-> {"IMPLEMENTING", "REPAIRING"},
    covers  |-> {"READY_FOR_MERGE", "MERGED", "DELIVERED", "CLEANUP", "COMPLETED"}]

DevelopmentClearances == {PlanApproved, QualityPassed, ResultApproved}

-----------------------------------------------------------------------------
(* Properties *)

\* Work goes on only under the clearances it needs: whatever interruptions,
\* retries and re-scoping a subject went through, a state that relies on an
\* approval or a check is never entered, nor returned to from a checkpoint,
\* after the work it vouches for was redone (10-plan.md 18 and 24: no pull
\* request when the quality gate failed, no merge without the approval).
WorkIsCleared ==
    \A s \in Subjects, c \in Clearances :
        status[s] \in c.covers => c.name \in cleared[s]
=============================================================================
