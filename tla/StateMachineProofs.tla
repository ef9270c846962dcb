-------------------------- MODULE StateMachineProofs --------------------------
(***************************************************************************)
(* Proofs about the engine of StateMachine.tla, for every table that       *)
(* satisfies its assumptions, any number of subjects and any retry limit.  *)
(***************************************************************************)
EXTENDS StateMachine, TLAPS

(***************************************************************************)
(* The inductive invariant.  RecoveryPoint is inductive together with the  *)
(* types: a subject enters an exception from a working state (which is     *)
(* saved) or from another exception (whose checkpoint stays).              *)
(***************************************************************************)
IInv == TypeOK /\ RecoveryPoint /\ RetryBudget

\* A row's source, and its target unless it is the sentinel, are states.
LEMMA RowStates ==
    ASSUME NEW t \in Table
    PROVE  /\ t.source \in States
           /\ t.target # CHECKPOINT => t.target \in States
    BY DEF States

\* An applied row leads to a state, and a row that returns to the checkpoint
\* leads from an exception to a working state.
LEMMA TargetIsState ==
    ASSUME TypeOK, RecoveryPoint,
           NEW s \in Subjects, NEW t \in Table, NEW rowsAgree \in BOOLEAN,
           Accepts(s, t, rowsAgree)
    PROVE  /\ Target(s, t) \in States
           /\ t.target = CHECKPOINT =>
                 /\ status[s] \in ExceptionStates
                 /\ Target(s, t) = checkpoint[s]
                 /\ Target(s, t) \notin ExceptionStates
  <1>1. CASE t.target = CHECKPOINT
    <2>1. t.source \in ExceptionStates
      BY <1>1, TableAssumption
    <2>2. checkpoint[s] \in States \ ExceptionStates
      BY <2>1 DEF Accepts, RecoveryPoint
    <2> QED
      BY <1>1, <2>1, <2>2 DEF Accepts, Target
  <1>2. CASE t.target # CHECKPOINT
    BY <1>2, RowStates DEF Target
  <1> QED
    BY <1>1, <1>2

\* A new subject is in a working state without a checkpoint.
LEMMA InitIInv == Init => IInv
  BY StateAssumption, LimitAssumption
     DEF Init, IInv, TypeOK, RecoveryPoint, RetryBudget

\* Applying a row keeps the invariant.
LEMMA ApplyIInv ==
    ASSUME IInv,
           NEW s \in Subjects, NEW t \in Table,
           NEW k \in Keys \cup {NoKey}, NEW rowsAgree \in BOOLEAN,
           Apply(s, t, k, rowsAgree)
    PROVE  IInv'
  <1> DEFINE to == Target(s, t)
  <1>1. /\ to \in States
        /\ status' = [status EXCEPT ![s] = to]
        /\ checkpoint' = Checkpointed(s, to)
    BY TargetIsState DEF IInv, Apply
  <1>2. status \in [Subjects -> States] /\ checkpoint \in [Subjects -> States \cup {NoState}]
    BY DEF IInv, TypeOK
  <1>3. TypeOK'
    <2>1. status' \in [Subjects -> States]
      BY <1>1, <1>2
    <2>2. checkpoint' \in [Subjects -> States \cup {NoState}]
      BY <1>1, <1>2 DEF Checkpointed
    <2>3. retries' \in [Subjects -> Nat]
      BY DEF IInv, TypeOK, Apply
    <2>4. usedKeys' \subseteq Keys
      BY DEF IInv, TypeOK, Apply
    <2> QED
      BY <2>1, <2>2, <2>3, <2>4 DEF TypeOK
  <1>4. RecoveryPoint'
    <2> SUFFICES ASSUME NEW u \in Subjects, status'[u] \in ExceptionStates
                 PROVE  checkpoint'[u] \in States \ ExceptionStates
      BY DEF RecoveryPoint
    <2>1. CASE u # s
      BY <1>1, <1>2, <2>1 DEF Checkpointed, IInv, RecoveryPoint
    <2>2. CASE u = s /\ status[s] \in ExceptionStates
      BY <1>1, <1>2, <2>2 DEF Checkpointed, Saves, IInv, RecoveryPoint
    <2>3. CASE u = s /\ status[s] \notin ExceptionStates
      <3>1. to \in ExceptionStates
        BY <1>1, <1>2, <2>3
      <3>2. checkpoint'[s] = status[s]
        BY <1>1, <1>2, <2>3, <3>1 DEF Checkpointed, Saves
      <3> QED
        BY <1>2, <2>3, <3>2
    <2> QED
      BY <2>1, <2>2, <2>3
  <1>5. RetryBudget'
    <2> SUFFICES ASSUME NEW u \in Subjects
                 PROVE  retries'[u] <= MaxRetries
      BY DEF RetryBudget
    <2>1. retries \in [Subjects -> Nat] /\ retries[u] <= MaxRetries
      BY DEF IInv, TypeOK, RetryBudget
    <2>2. CASE t.event = "RETRY_SCHEDULED"
      <3>1. retries[s] < MaxRetries
        BY <2>2, TableAssumption DEF Apply, Accepts, GuardHolds
      <3>2. retries' = [retries EXCEPT ![s] = @ + 1]
        BY <2>2 DEF Apply
      <3> QED
        BY <2>1, <3>1, <3>2, LimitAssumption
    <2>3. CASE t.event # "RETRY_SCHEDULED"
      BY <2>1, <2>3 DEF Apply
    <2> QED
      BY <2>2, <2>3
  <1> QED
    BY <1>3, <1>4, <1>5 DEF IInv

\* So does every step: a refused or repeated event changes nothing.
LEMMA NextIInv == IInv /\ [Next]_vars => IInv'
  <1> SUFFICES ASSUME IInv, [Next]_vars
               PROVE  IInv'
    OBVIOUS
  <1>1. CASE UNCHANGED vars
    BY <1>1 DEF IInv, TypeOK, RecoveryPoint, RetryBudget, vars
  <1>2. ASSUME NEW s \in Subjects, NEW k \in Keys \cup {NoKey},
               NEW rowsAgree \in BOOLEAN, NEW t \in Table, Apply(s, t, k, rowsAgree)
        PROVE  IInv'
    BY <1>2, ApplyIInv
  <1>3. ASSUME NEW s \in Subjects, NEW k \in Keys \cup {NoKey},
               NEW rowsAgree \in BOOLEAN, NEW e \in Events, Reject(s, e, k, rowsAgree)
        PROVE  IInv'
    BY <1>1, <1>3 DEF Reject
  <1>4. ASSUME NEW k \in Keys \cup {NoKey}, Replay(k)
        PROVE  IInv'
    BY <1>1, <1>4 DEF Replay
  <1> QED
    BY <1>1, <1>2, <1>3, <1>4 DEF Next

\* The invariant holds throughout.
LEMMA SpecIInv == Spec => []IInv
  BY InitIInv, NextIInv, PTL DEF Spec

\* The status column only ever holds a state of the table, never the
\* CHECKPOINT sentinel, and the checkpoint names a state (state_machine.fire).
THEOREM TypeCorrect == Spec => []TypeOK
  <1>1. IInv => TypeOK
    BY DEF IInv
  <1> QED
    BY <1>1, SpecIInv, PTL

\* Every interrupted subject has a working state to return to, whatever the
\* table, the number of subjects and the chain of exceptions.
THEOREM AlwaysRecoverable == Spec => []RecoveryPoint
  <1>1. IInv => RecoveryPoint
    BY DEF IInv
  <1> QED
    BY <1>1, SpecIInv, PTL

\* No subject is retried more often than max_retry_attempts over its life.
THEOREM RetriesBounded == Spec => []RetryBudget
  <1>1. IInv => RetryBudget
    BY DEF IInv
  <1> QED
    BY <1>1, SpecIInv, PTL

-----------------------------------------------------------------------------
(* The engine implements the life cycle                                    *)

\* A new subject owes no resume point.
LEMMA InitLife == Init => Life!Init
  BY StateAssumption DEF Init, Life!Init, Owed

\* A row that names its target is one of the abstract module's edges.
LEMMA NamedMoveIsEdge ==
    ASSUME NEW t \in Table, t.target # CHECKPOINT
    PROVE  <<t.source, t.target>> \in NamedMoves
  BY DEF NamedMoves

\* What an applied row does to the mapped variables.
LEMMA ApplyMapped ==
    ASSUME IInv,
           NEW s \in Subjects, NEW t \in Table,
           NEW k \in Keys \cup {NoKey}, NEW rowsAgree \in BOOLEAN,
           Apply(s, t, k, rowsAgree)
    PROVE  /\ status[s] = t.source
           /\ status' = [status EXCEPT ![s] = Target(s, t)]
           /\ Target(s, t) \notin ExceptionStates => Owed' = [Owed EXCEPT ![s] = NoState]
           /\ Target(s, t) \in ExceptionStates /\ status[s] \notin ExceptionStates
                 => Owed' = [Owed EXCEPT ![s] = status[s]]
           /\ Target(s, t) \in ExceptionStates /\ status[s] \in ExceptionStates
                 => Owed' = Owed
  <1> DEFINE to == Target(s, t)
  <1>1. /\ status \in [Subjects -> States]
        /\ checkpoint \in [Subjects -> States \cup {NoState}]
        /\ status[s] = t.source
        /\ status' = [status EXCEPT ![s] = to]
        /\ checkpoint' = Checkpointed(s, to)
    BY DEF IInv, TypeOK, Apply, Accepts
  <1>2. CASE to \notin ExceptionStates
    <2>1. checkpoint' = checkpoint
      BY <1>1, <1>2 DEF Checkpointed, Saves
    <2>2. Owed' = [Owed EXCEPT ![s] = NoState]
      BY <1>1, <1>2, <2>1 DEF Owed
    <2> QED
      BY <1>1, <1>2, <2>2
  <1>3. CASE to \in ExceptionStates /\ status[s] \notin ExceptionStates
    <2>1. checkpoint' = [checkpoint EXCEPT ![s] = status[s]]
      BY <1>1, <1>3 DEF Checkpointed, Saves
    <2>2. Owed' = [Owed EXCEPT ![s] = status[s]]
      BY <1>1, <1>3, <2>1 DEF Owed
    <2> QED
      BY <1>1, <1>3, <2>2
  <1>4. CASE to \in ExceptionStates /\ status[s] \in ExceptionStates
    <2>1. checkpoint' = checkpoint
      BY <1>1, <1>4 DEF Checkpointed, Saves
    <2>2. Owed' = Owed
      BY <1>1, <1>4, <2>1 DEF Owed
    <2> QED
      BY <1>1, <1>4, <2>2
  <1> QED
    BY <1>2, <1>3, <1>4

\* Every applied row is one of the abstract actions.
LEMMA ApplyLife ==
    ASSUME IInv,
           NEW s \in Subjects, NEW t \in Table,
           NEW k \in Keys \cup {NoKey}, NEW rowsAgree \in BOOLEAN,
           Apply(s, t, k, rowsAgree)
    PROVE  Life!Next
  <1>1. Accepts(s, t, rowsAgree)
    BY DEF Apply
  <1>2. TypeOK /\ RecoveryPoint
    BY DEF IInv
  <1>3. /\ status[s] = t.source
        /\ status' = [status EXCEPT ![s] = Target(s, t)]
    BY ApplyMapped
  <1>4. CASE t.target = CHECKPOINT
    <2>1. /\ status[s] \in ExceptionStates
          /\ Target(s, t) = checkpoint[s]
          /\ Target(s, t) \notin ExceptionStates
      BY <1>1, <1>2, <1>4, TargetIsState
    <2>2. Owed[s] = checkpoint[s]
      BY <2>1 DEF Owed
    <2>3. status[s] \in ReturnSources
      BY <1>3, <1>4 DEF ReturnSources
    <2>4. Owed' = [Owed EXCEPT ![s] = NoState]
      BY <2>1, ApplyMapped
    <2>5. Life!Resume(s)
      BY <1>3, <2>1, <2>2, <2>3, <2>4 DEF Life!Resume
    <2> QED
      BY <2>5 DEF Life!Next
  <1>5. CASE t.target # CHECKPOINT
    <2> DEFINE edge == <<t.source, t.target>>
    <2>1. /\ edge \in NamedMoves
          /\ edge[2] = Target(s, t)
          /\ <<status[s], edge[2]>> \in NamedMoves
      BY <1>3, <1>5, NamedMoveIsEdge DEF Target
    <2>2. CASE Target(s, t) \notin ExceptionStates
      <3>1. Owed' = [Owed EXCEPT ![s] = NoState]
        BY <2>2, ApplyMapped
      <3>2. Life!Proceed(s, edge[2])
        BY <1>3, <2>1, <2>2, <3>1 DEF Life!Proceed
      <3> QED
        BY <2>1, <3>2 DEF Life!Next
    <2>3. CASE Target(s, t) \in ExceptionStates /\ status[s] \notin ExceptionStates
      <3>1. Owed' = [Owed EXCEPT ![s] = status[s]]
        BY <2>3, ApplyMapped
      <3>2. Life!Interrupt(s, edge[2])
        BY <1>3, <2>1, <2>3, <3>1 DEF Life!Interrupt
      <3> QED
        BY <2>1, <3>2 DEF Life!Next
    <2>4. CASE Target(s, t) \in ExceptionStates /\ status[s] \in ExceptionStates
      <3>1. Owed' = Owed
        BY <2>4, ApplyMapped
      <3>2. Life!Escalate(s, edge[2])
        BY <1>3, <2>1, <2>4, <3>1 DEF Life!Escalate
      <3> QED
        BY <2>1, <3>2 DEF Life!Next
    <2> QED
      BY <2>2, <2>3, <2>4
  <1> QED
    BY <1>4, <1>5

\* Every step of the engine is a step of the life cycle or none.
LEMMA StepLife == IInv /\ [Next]_vars => [Life!Next]_(Life!vars)
  <1> SUFFICES ASSUME IInv, [Next]_vars
               PROVE  Life!Next \/ UNCHANGED Life!vars
    BY DEF Life!vars
  <1>1. CASE UNCHANGED vars
    BY <1>1 DEF vars, Life!vars, Owed
  <1>2. ASSUME NEW s \in Subjects, NEW k \in Keys \cup {NoKey},
               NEW rowsAgree \in BOOLEAN, NEW t \in Table, Apply(s, t, k, rowsAgree)
        PROVE  Life!Next
    BY <1>2, ApplyLife
  <1> QED
    BY <1>1, <1>2 DEF Next, Reject, Replay, vars, Life!vars, Owed

\* The engine implements Lifecycle: for every table, every return to work is
\* to the state the interruption began in or a move the table names.
THEOREM ImplementsLifecycle == Spec => ResumesWhereItStopped
  <1>1. Life!Init /\ [][Life!Next]_(Life!vars) => Life!Spec
    BY DEF Life!Spec
  <1> QED
    BY <1>1, InitLife, StepLife, SpecIInv, PTL DEF Spec, ResumesWhereItStopped
===============================================================================
