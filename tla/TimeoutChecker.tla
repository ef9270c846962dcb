--------------------------- MODULE TimeoutChecker ---------------------------
(***************************************************************************)
(* Reminders of states that wait too long                                  *)
(* (app/orchestrator/timeout_checker.py), and the two append-only tables   *)
(* they are computed from: workflow_events, where requests note each       *)
(* transition, and audit_logs, where the checker notes the reminder.  Of   *)
(* each, only the latest row of a subject and state is ever looked for.    *)
(*                                                                         *)
(* A row is stamped with the time when it is flushed (app/core/clock.py)   *)
(* and visible when its session commits, so that rows appear later than    *)
(* they say.  Readings of the clock may repeat.  Nothing in the code calls *)
(* the checker yet: here one worker goes through the subjects with the     *)
(* status it reads and the present time, as the tests do, and commits      *)
(* after each.                                                             *)
(***************************************************************************)
EXTENDS Integers

CONSTANTS
    Subjects,         \* projects and tasks
    Moves,            \* what a request may do: <<status before, status after>>
    InitialState,
    Limits,           \* state -> seconds it may wait (state-timeouts.yaml)
    MaxTime,          \* bound on the clock
    Idle              \* no request, and no call of check

States == {InitialState} \cup {move[1] : move \in Moves} \cup {move[2] : move \in Moves}

Waits == DOMAIN Limits

ASSUME LimitAssumption == \A state \in Waits : Limits[state] \in Nat

ASSUME TimeAssumption == MaxTime \in Nat \ {0}

\* The time of a row that does not exist; the clock starts after it.
Never == 0

VARIABLES
    now,         \* utc_now
    status,      \* subject -> its committed status
    entered,     \* subject -> state -> the latest committed entry
    request,     \* subject -> the transition being written, or Idle
    reminded,    \* subject -> state -> the latest committed reminder
    checker      \* the call of check in progress, or Idle

vars == <<now, status, entered, request, reminded, checker>>

Init ==
    /\ now = Never + 1
    /\ status = [s \in Subjects |-> InitialState]
    /\ entered = [s \in Subjects |-> [state \in Waits |-> Never]]
    /\ request = [s \in Subjects |-> Idle]
    /\ reminded = [s \in Subjects |-> [state \in Waits |-> Never]]
    /\ checker = Idle

Tick ==
    /\ now < MaxTime
    /\ now' = now + 1
    /\ UNCHANGED <<status, entered, request, reminded, checker>>

-----------------------------------------------------------------------------
(* Requests                                                                *)

\* A request fires its events, which are stamped.  Only the last one leads into
\* a state that waits (ProductWorkflow, Settled), which may be the one it left.
Fire(s) ==
    /\ request[s] = Idle
    /\ \E move \in Moves :
         /\ move[1] = status[s]
         /\ request' = [request EXCEPT ![s] = [target |-> move[2], stamp |-> now]]
    /\ UNCHANGED <<now, status, entered, reminded, checker>>

\* The latest entry into the state, once the request is committed.
Entry(s, state) ==
    IF state = request[s].target THEN request[s].stamp ELSE entered[s][state]

\* The request ends with a commit,
Commit(s) ==
    /\ request[s] # Idle
    /\ status' = [status EXCEPT ![s] = request[s].target]
    /\ entered' = [entered EXCEPT ![s] = [state \in Waits |-> Entry(s, state)]]
    /\ request' = [request EXCEPT ![s] = Idle]
    /\ UNCHANGED <<now, reminded, checker>>

\* or without one.
RollBack(s) ==
    /\ request[s] # Idle
    /\ request' = [request EXCEPT ![s] = Idle]
    /\ UNCHANGED <<now, status, entered, reminded, checker>>

-----------------------------------------------------------------------------
(* The checker                                                             *)

\* No earlier reminder is looked for.
NotifiedNever(s, state, since) == FALSE

\* _already_notified: a reminder since the state was entered, by the stamp of the
\* entry.  A reminder of the former stay may be later than that.
AlreadyNotified(s, state, since) == reminded[s][state] >= since

\* check is called for a subject.
Look(s) ==
    /\ checker = Idle
    /\ status[s] \in Waits
    /\ checker' = [at |-> "measure", subject |-> s, state |-> status[s], time |-> now]
    /\ UNCHANGED <<now, status, entered, request, reminded>>

At(place, s) == checker # Idle /\ checker.at = place /\ checker.subject = s

\* The limit has passed since the last entry (_state_entered_at).
Overdue(s, state, time) ==
    /\ entered[s][state] # Never
    /\ time > entered[s][state] + Limits[state]

Measure(s) ==
    /\ At("measure", s)
    /\ \/ /\ Overdue(s, checker.state, checker.time)
          /\ checker' = [checker EXCEPT !.at = "record", !.time = entered[s][checker.state]]
       \/ ~Overdue(s, checker.state, checker.time) /\ checker' = Idle
    /\ UNCHANGED <<now, status, entered, request, reminded>>

\* The reminder is stamped with the time until which it counts.
RecordDeadline(s) ==
    /\ At("record", s)
    /\ ~AlreadyNotified(s, checker.state, checker.time)
    /\ checker' = [checker EXCEPT !.at = "commit", !.time = now + Limits[checker.state]]
    /\ UNCHANGED <<now, status, entered, request, reminded>>

\* The reminder is noted, unless there is one; time is that of the entry.
Record(s) ==
    /\ At("record", s)
    /\ \/ AlreadyNotified(s, checker.state, checker.time) /\ checker' = Idle
       \/ /\ ~AlreadyNotified(s, checker.state, checker.time)
          /\ checker' = [checker EXCEPT !.at = "commit", !.time = now]
    /\ UNCHANGED <<now, status, entered, request, reminded>>

Publish(s) ==
    /\ At("commit", s)
    /\ reminded' = [reminded EXCEPT ![s][checker.state] = checker.time]
    /\ checker' = Idle
    /\ UNCHANGED <<now, status, entered, request>>

\* The worker or the database fails, and the worker starts again.
Fail ==
    /\ checker # Idle
    /\ checker' = Idle
    /\ UNCHANGED <<now, status, entered, request, reminded>>

-----------------------------------------------------------------------------

Next ==
    \/ Tick
    \/ \E s \in Subjects :
         \/ Fire(s) \/ Commit(s) \/ RollBack(s)
         \/ Look(s) \/ Measure(s) \/ Record(s) \/ Publish(s)
    \/ Fail

Spec == Init /\ [][Next]_vars

-----------------------------------------------------------------------------
(* Properties                                                              *)

Times == Never..MaxTime

Calls == [at : {"measure", "record", "commit"}, subject : Subjects, state : Waits, time : Times]

TypeOK ==
    /\ now \in Times
    /\ status \in [Subjects -> States]
    /\ entered \in [Subjects -> [Waits -> Times]]
    /\ request \in [Subjects -> {Idle} \cup [target : States, stamp : Times]]
    /\ reminded \in [Subjects -> [Waits -> Times]]
    /\ checker \in {Idle} \cup Calls

\* A user is never reminded of a wait of the same kind twice within its limit,
\* even if the subject left the state and returned, and requests committed
\* while the checker was at work (check): the second reminder is for a stay
\* that began after the first one and has itself lasted longer than the limit.
RemindersAreSpaced ==
    [][ \A s \in Subjects, state \in Waits :
          reminded'[s][state] # reminded[s][state] /\ reminded[s][state] # Never =>
              reminded'[s][state] > reminded[s][state] + Limits[state] ]_vars
=============================================================================
