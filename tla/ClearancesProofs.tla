-------------------------- MODULE ClearancesProofs --------------------------
(***************************************************************************)
(* A condition that can be read off a transition table, row by row, is     *)
(* enough for every run of the engine on it: ClearanceAssumption implies   *)
(* that WorkIsCleared is an invariant, whatever the interruptions.         *)
(***************************************************************************)
EXTENDS Clearances, StateMachineProofs

(***************************************************************************)
(* WorkIsCleared is not inductive: a subject in an exception state is      *)
(* covered by nothing, yet its checkpoint may be a covered state it will   *)
(* return to.  The clearance must survive the interruption.                *)
(***************************************************************************)
ResumePointIsCleared ==
    \A s \in Subjects, c \in Clearances :
        status[s] \in ExceptionStates /\ checkpoint[s] \in c.covers => c.name \in cleared[s]

ClearedType == cleared \in [Subjects -> SUBSET Names]

CInv == ClearedType /\ WorkIsCleared /\ ResumePointIsCleared

\* Nothing is covered and nothing is granted at the start.
LEMMA InitCInv == CInit => CInv
  BY StateAssumption, ClearanceAssumption
     DEF CInit, Init, CInv, ClearedType, WorkIsCleared, ResumePointIsCleared

\* A clearance that is held and not withdrawn, or that is granted, is held
\* after the step; nobody else's clearances change.
LEMMA ApplyHolds ==
    ASSUME ClearedType,
           NEW s \in Subjects, NEW t \in Table,
           NEW k \in Keys \cup {NoKey}, NEW rowsAgree \in BOOLEAN,
           CApply(s, t, k, rowsAgree)
    PROVE  /\ ClearedType'
           /\ \A u \in Subjects \ {s} : cleared'[u] = cleared[u]
           /\ \A c \in Clearances :
                 Holds(s, c, t.event, Target(s, t)) => c.name \in cleared'[s]
  <1> DEFINE kept == {c.name : c \in {d \in Clearances : Holds(s, d, t.event, Target(s, t))}}
  <1>1. kept \subseteq Names
    BY DEF Names
  <1>2. cleared' = [cleared EXCEPT ![s] = kept]
    BY DEF CApply
  <1>3. \A c \in Clearances : Holds(s, c, t.event, Target(s, t)) => c.name \in kept
    OBVIOUS
  <1> HIDE DEF kept
  <1> QED
    BY <1>1, <1>2, <1>3 DEF ClearedType

\* An applied row that leads to a covered state keeps or grants the clearance.
LEMMA CoveredTarget ==
    ASSUME IInv, CInv,
           NEW s \in Subjects, NEW t \in Table, NEW c \in Clearances,
           NEW rowsAgree \in BOOLEAN, Accepts(s, t, rowsAgree),
           Target(s, t) \in c.covers
    PROVE  Holds(s, c, t.event, Target(s, t))
  <1>1. Target(s, t) \notin c.revokes
    BY ClearanceAssumption
  <1>2. CASE t.target = CHECKPOINT
    <2>1. status[s] \in ExceptionStates /\ Target(s, t) = checkpoint[s]
      BY <1>2, TargetIsState DEF IInv
    <2>2. c.name \in cleared[s]
      BY <2>1 DEF CInv, ResumePointIsCleared
    <2> QED
      BY <1>1, <2>2 DEF Holds
  <1>3. CASE t.target # CHECKPOINT
    <2>1. t.target = Target(s, t) /\ t.source = status[s]
      BY <1>3 DEF Target, Accepts
    <2>2. t.event \in c.grants \/ status[s] \in c.covers
      BY <2>1, ClearanceAssumption
    <2>3. status[s] \in c.covers => c.name \in cleared[s]
      BY DEF CInv, WorkIsCleared
    <2> QED
      BY <1>1, <2>2, <2>3 DEF Holds
  <1> QED
    BY <1>2, <1>3

\* Applying a row keeps the clearances in step with the states they cover,
\* those of the checkpoint included.
LEMMA ApplyCInv ==
    ASSUME IInv, CInv,
           NEW s \in Subjects, NEW t \in Table,
           NEW k \in Keys \cup {NoKey}, NEW rowsAgree \in BOOLEAN,
           CApply(s, t, k, rowsAgree)
    PROVE  CInv'
  <1> DEFINE to == Target(s, t)
  <1>1. /\ Accepts(s, t, rowsAgree)
        /\ status \in [Subjects -> States]
        /\ checkpoint \in [Subjects -> States \cup {NoState}]
        /\ status' = [status EXCEPT ![s] = to]
        /\ checkpoint' = Checkpointed(s, to)
    BY DEF CApply, Apply, IInv, TypeOK
  <1>2. /\ ClearedType'
        /\ \A u \in Subjects \ {s} : cleared'[u] = cleared[u]
        /\ \A c \in Clearances : Holds(s, c, t.event, to) => c.name \in cleared'[s]
    BY ApplyHolds DEF CInv
  <1>3. \A u \in Subjects \ {s} : status'[u] = status[u] /\ checkpoint'[u] = checkpoint[u]
    BY <1>1 DEF Checkpointed
  <1>4. status'[s] = to
    BY <1>1
  <1>5. WorkIsCleared'
    <2> SUFFICES ASSUME NEW u \in Subjects, NEW c \in Clearances, status'[u] \in c.covers
                 PROVE  c.name \in cleared'[u]
      BY DEF WorkIsCleared
    <2>1. CASE u # s
      BY <1>2, <1>3, <2>1 DEF CInv, WorkIsCleared
    <2>2. CASE u = s
      <3>1. Holds(s, c, t.event, to)
        BY <1>1, <1>4, <2>2, CoveredTarget
      <3> QED
        BY <1>2, <2>2, <3>1
    <2> QED
      BY <2>1, <2>2
  <1>6. ResumePointIsCleared'
    <2> SUFFICES ASSUME NEW u \in Subjects, NEW c \in Clearances,
                        status'[u] \in ExceptionStates, checkpoint'[u] \in c.covers
                 PROVE  c.name \in cleared'[u]
      BY DEF ResumePointIsCleared
    <2>1. CASE u # s
      BY <1>2, <1>3, <2>1 DEF CInv, ResumePointIsCleared
    <2>2. CASE u = s
      <3>1. to \in ExceptionStates /\ to \notin c.revokes
        BY <1>4, <2>2, ClearanceAssumption
      <3>2. CASE status[s] \notin ExceptionStates
        <4>1. checkpoint'[s] = status[s]
          BY <1>1, <3>1, <3>2 DEF Checkpointed, Saves
        <4>2. c.name \in cleared[s]
          BY <2>2, <4>1 DEF CInv, WorkIsCleared
        <4> QED
          BY <1>2, <2>2, <3>1, <4>2 DEF Holds
      <3>3. CASE status[s] \in ExceptionStates
        <4>1. checkpoint'[s] = checkpoint[s]
          BY <1>1, <3>3 DEF Checkpointed, Saves
        <4>2. c.name \in cleared[s]
          BY <2>2, <3>3, <4>1 DEF CInv, ResumePointIsCleared
        <4> QED
          BY <1>2, <2>2, <3>1, <4>2 DEF Holds
      <3> QED
        BY <3>2, <3>3
    <2> QED
      BY <2>1, <2>2
  <1> QED
    BY <1>2, <1>5, <1>6 DEF CInv

\* So does every step: a refused or repeated event changes nothing.
LEMMA NextCInv == IInv /\ CInv /\ [CNext]_cvars => CInv'
  <1> SUFFICES ASSUME IInv, CInv, [CNext]_cvars
               PROVE  CInv'
    OBVIOUS
  <1>1. CASE UNCHANGED cvars
    BY <1>1 DEF CInv, ClearedType, WorkIsCleared, ResumePointIsCleared, cvars, vars
  <1>2. ASSUME NEW s \in Subjects, NEW k \in Keys \cup {NoKey},
               NEW rowsAgree \in BOOLEAN, NEW t \in Table, CApply(s, t, k, rowsAgree)
        PROVE  CInv'
    BY <1>2, ApplyCInv
  <1> QED
    BY <1>1, <1>2 DEF CNext, Reject, Replay, cvars

\* Observing clearances does not restrict the engine: every step of CSpec is
\* a step of Spec.
LEMMA RefinesEngine == CSpec => Spec
  <1>1. CInit => Init
    BY DEF CInit
  <1>2. [CNext]_cvars => [Next]_vars
    BY DEF CNext, CApply, Next, cvars, vars
  <1> QED
    BY <1>1, <1>2, PTL DEF CSpec, Spec

\* No state that relies on an approval, a gate or a check is entered, or
\* returned to, without it: proved from ClearanceAssumption, which holds of
\* the two shipped tables, for every subject and every history.
THEOREM WorkAlwaysCleared == CSpec => []WorkIsCleared
  <1>1. CInv => WorkIsCleared
    BY DEF CInv
  <1>2. CSpec => []IInv
    BY RefinesEngine, SpecIInv, PTL
  <1> QED
    BY <1>1, <1>2, InitCInv, NextCInv, PTL DEF CSpec
=============================================================================
