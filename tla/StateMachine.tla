---------------------------- MODULE StateMachine ----------------------------
(***************************************************************************)
(* The state machine engine (app/orchestrator/state_machine.py): the only  *)
(* code that changes the status of a project or of a task.                 *)
(*                                                                         *)
(* One call of fire(subject, event, idempotency_key) is one step.  The     *)
(* engine reads the subject's status, its latest checkpoint, the number of *)
(* its RETRY_SCHEDULED events and whether the key was used before; these   *)
(* are the variables.  The rows a data guard counts belong to the other    *)
(* components: what they answer is an input of the step.                   *)
(***************************************************************************)
EXTENDS Naturals, Transitions

CONSTANTS
    Subjects,         \* the projects, or the tasks
    Table,            \* the transition table of their machine
    ExceptionStates,
    TerminalStates,
    InitialState,
    MaxRetries,       \* settings.max_retry_attempts
    Keys,             \* the idempotency keys callers use
    NoKey,            \* the call carries no idempotency key
    NoState           \* the subject has no checkpoint yet

States == {t.source : t \in Table} \cup ({t.target : t \in Table} \ {CHECKPOINT})

Events == {t.event : t \in Table}

\* The guards that pass whatever the rows say.
Unconditional == {"none", "deferred"}

\* The guards that ask for a checkpoint of the subject.
CheckpointGuards == {"checkpoint_exists", "expert_confirmed_with_checkpoint", "can_retry"}

\* The guards the engine's own rows decide entirely.
EngineGuards == Unconditional \cup {"checkpoint_exists", "can_retry"}

ASSUME TableAssumption ==
    \* StateMachine.__init__ refuses two rows for one state and event.
    /\ \A t, u \in Table : t.source = u.source /\ t.event = u.event => t = u
    /\ \A t \in Table : t.target = CHECKPOINT => t.source \in ExceptionStates
    /\ \A t \in Table : t.event = "RETRY_SCHEDULED" => t.guard = "can_retry"
    /\ \A t \in Table : t.source \notin TerminalStates

ASSUME StateAssumption ==
    /\ InitialState \in States \ ExceptionStates
    /\ NoState \notin States

ASSUME LimitAssumption == MaxRetries \in Nat /\ NoKey \notin Keys

VARIABLES
    status,           \* projects.status or tasks.status
    checkpoint,       \* the state of the latest workflow_checkpoints row
    retries,          \* how many RETRY_SCHEDULED rows workflow_events holds
    usedKeys          \* the idempotency keys workflow_events holds

vars == <<status, checkpoint, retries, usedKeys>>

TypeOK ==
    /\ status \in [Subjects -> States]
    /\ checkpoint \in [Subjects -> States \cup {NoState}]
    /\ retries \in [Subjects -> Nat]
    /\ usedKeys \subseteq Keys

Init ==
    /\ status = [s \in Subjects |-> InitialState]
    /\ checkpoint = [s \in Subjects |-> NoState]
    /\ retries = [s \in Subjects |-> 0]
    /\ usedKeys = {}

-----------------------------------------------------------------------------
(* Slips a change of the engine could make; each breaks a property below.  *)

\* The checkpoint sentinel is stored as if it were a state.
TargetUnresolved(s, t) == t.target

\* The retry limit is off by one.
GuardHoldsOneMore(s, t, rowsAgree) ==
    /\ t.guard \in CheckpointGuards => checkpoint[s] # NoState
    /\ t.guard = "can_retry" => retries[s] <= MaxRetries
    /\ t.guard \notin EngineGuards => rowsAgree

\* A checkpoint is saved on a move between exception states too.
SavesOnEveryException(s, target) == target \in ExceptionStates

\* Only the first interruption of a subject saves a checkpoint.
SavesOnce(s, target) ==
    /\ target \in ExceptionStates
    /\ status[s] \notin ExceptionStates
    /\ checkpoint[s] = NoState

-----------------------------------------------------------------------------
(* The engine *)

\* Where a row leads: the checkpoint sentinel is resolved when the event fires.
Target(s, t) == IF t.target = CHECKPOINT THEN checkpoint[s] ELSE t.target

\* rowsAgree is what the rows of other components answer to a data guard.
GuardHolds(s, t, rowsAgree) ==
    /\ t.guard \in CheckpointGuards => checkpoint[s] # NoState
    /\ t.guard = "can_retry" => retries[s] < MaxRetries
    /\ t.guard \notin EngineGuards => rowsAgree

\* The engine lets this row fire for s.
Accepts(s, t, rowsAgree) ==
    /\ t.source = status[s]
    /\ Target(s, t) # NoState
    /\ GuardHolds(s, t, rowsAgree)

\* Entering an exception state from a working state saves the working state;
\* a move between exception states keeps the one already saved.
Saves(s, target) == target \in ExceptionStates /\ status[s] \notin ExceptionStates

Checkpointed(s, target) ==
    IF Saves(s, target) THEN [checkpoint EXCEPT ![s] = status[s]] ELSE checkpoint

\* The row is applied: status, checkpoint and the event row change together.
Apply(s, t, k, rowsAgree) ==
    /\ k \notin usedKeys
    /\ Accepts(s, t, rowsAgree)
    /\ status' = [status EXCEPT ![s] = Target(s, t)]
    /\ checkpoint' = Checkpointed(s, Target(s, t))
    /\ retries' = IF t.event = "RETRY_SCHEDULED"
                  THEN [retries EXCEPT ![s] = @ + 1]
                  ELSE retries
    /\ usedKeys' = usedKeys \cup ({k} \ {NoKey})

\* The key was used: the stored result is returned and nothing is applied.
Replay(k) == k \in usedKeys /\ UNCHANGED vars

\* No row for the state and event, no checkpoint to return to, or a guard
\* that says no: an error is raised and nothing but the audit log changes.
Reject(s, e, k, rowsAgree) ==
    /\ k \notin usedKeys
    /\ ~ \E t \in Table : t.event = e /\ Accepts(s, t, rowsAgree)
    /\ UNCHANGED vars

Next ==
    \E s \in Subjects, k \in Keys \cup {NoKey}, rowsAgree \in BOOLEAN :
        \/ \E t \in Table : Apply(s, t, k, rowsAgree)
        \/ \E e \in Events : Reject(s, e, k, rowsAgree)
        \/ Replay(k)

Spec == Init /\ [][Next]_vars

-----------------------------------------------------------------------------
(* Properties *)

\* An interrupted subject can always be resumed: whatever chain of exceptions
\* it went through, a checkpoint exists and names a working state, so no
\* recovery event is refused for want of a checkpoint or leads back into an
\* exception (state_machine.fire, steps 3 and 5).
RecoveryPoint ==
    \A s \in Subjects :
        status[s] \in ExceptionStates => checkpoint[s] \in States \ ExceptionStates

\* can_retry counts the retries of the subject's whole life, so however often
\* it fails again, and from whichever state, it is never retried more often
\* than settings.max_retry_attempts allows.
RetryBudget == \A s \in Subjects : retries[s] <= MaxRetries

\* The resume point a subject owes while it is interrupted is its checkpoint.
Owed == [s \in Subjects |-> IF status[s] \in ExceptionStates THEN checkpoint[s] ELSE NoState]

\* The exception states that can return to the checkpoint, and the moves that
\* name their destination.
ReturnSources == {t.source : t \in {r \in Table : r.target = CHECKPOINT}}
NamedMoves == {<<t.source, t.target>> : t \in {r \in Table : r.target # CHECKPOINT}}

Life == INSTANCE Lifecycle WITH
    resume <- Owed, Resumable <- ReturnSources, Edges <- NamedMoves

\* Every return to work after an interruption is to the state the interruption
\* began in, or a re-scoping move the table lists by name.
ResumesWhereItStopped == Life!Spec
=============================================================================
