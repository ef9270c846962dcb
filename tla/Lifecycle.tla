----------------------------- MODULE Lifecycle -----------------------------
(***************************************************************************)
(* What the orchestrator promises about interruptions, without saying how. *)
(*                                                                         *)
(* A subject (a project or a task) works through its working states.  An   *)
(* exception state interrupts it; from then on the subject owes a resume   *)
(* point: the working state it was in when the interruption began.  The    *)
(* subject may move between exception states without losing that point,    *)
(* may return to it exactly, or may be sent to another working state by a  *)
(* re-scoping move the tables list.                                        *)
(*                                                                         *)
(* StateMachine.tla shows that the engine, which only keeps an append-only *)
(* table of checkpoints, implements this module.                           *)
(***************************************************************************)
CONSTANTS
    Subjects,         \* the projects, or the tasks
    ExceptionStates,  \* the states that interrupt the work
    Resumable,        \* the exception states that can return to the resume point
    Edges,            \* the moves that name their destination: pairs of states
    InitialState,
    NoState           \* no resume point is owed

VARIABLES
    status,           \* the state of each subject
    resume            \* the working state each interrupted subject can return to

vars == <<status, resume>>

Init ==
    /\ status = [s \in Subjects |-> InitialState]
    /\ resume = [s \in Subjects |-> NoState]

\* The subject's own progress, or a restart elsewhere: nothing is owed afterwards.
Proceed(s, to) ==
    /\ <<status[s], to>> \in Edges
    /\ to \notin ExceptionStates
    /\ status' = [status EXCEPT ![s] = to]
    /\ resume' = [resume EXCEPT ![s] = NoState]

\* The work stops: the state it stops in is the one to come back to.
Interrupt(s, to) ==
    /\ <<status[s], to>> \in Edges
    /\ status[s] \notin ExceptionStates
    /\ to \in ExceptionStates
    /\ status' = [status EXCEPT ![s] = to]
    /\ resume' = [resume EXCEPT ![s] = status[s]]

\* One exception leads to another: the resume point stays.
Escalate(s, to) ==
    /\ <<status[s], to>> \in Edges
    /\ status[s] \in ExceptionStates
    /\ to \in ExceptionStates
    /\ status' = [status EXCEPT ![s] = to]
    /\ UNCHANGED resume

\* The work resumes exactly where it stopped.
Resume(s) ==
    /\ status[s] \in Resumable
    /\ status' = [status EXCEPT ![s] = resume[s]]
    /\ resume' = [resume EXCEPT ![s] = NoState]

Next ==
    \E s \in Subjects :
        \/ \E edge \in Edges :
              \/ Proceed(s, edge[2])
              \/ Interrupt(s, edge[2])
              \/ Escalate(s, edge[2])
        \/ Resume(s)

Spec == Init /\ [][Next]_vars
=============================================================================
