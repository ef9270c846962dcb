------------------------ MODULE TimeoutCheckerProofs ------------------------
(***************************************************************************)
(* Reminders are spaced, for any subjects, limits and transitions, however *)
(* the requests, the clock and the checker interleave.                     *)
(***************************************************************************)
EXTENDS TimeoutChecker, TLAPS

\* What the checker relies on between its statements: the entry it measured is
\* overdue by now, and the reminder it is about to commit comes late enough
\* after the last one.
CallIsTimely ==
    checker # Idle =>
        LET s == checker.subject
            last == reminded[s][checker.state]
        IN  /\ checker.at = "measure" => checker.time <= now
            /\ checker.at = "record" => now > checker.time + Limits[checker.state]
            /\ checker.at = "commit" /\ last # Never =>
                  checker.time > last + Limits[checker.state]

IInv == TypeOK /\ CallIsTimely

LEMMA InitIsTimely == Init => IInv
  BY TimeAssumption DEF Init, IInv, TypeOK, CallIsTimely, Times, Never, States

LEMMA RequestsKeepTypes ==
    ASSUME TypeOK, NEW s \in Subjects, Fire(s) \/ Commit(s) \/ RollBack(s)
    PROVE  TypeOK'
  <1>1. CASE Fire(s)
    <2>1. PICK move \in Moves :
             request' = [request EXCEPT ![s] = [target |-> move[2], stamp |-> now]]
      BY <1>1 DEF Fire
    <2>2. [target |-> move[2], stamp |-> now] \in [target : States, stamp : Times]
      BY DEF TypeOK, States
    <2> QED
      BY <1>1, <2>1, <2>2 DEF Fire, TypeOK, Calls
  <1>2. CASE Commit(s)
    <2>1. request[s].target \in States /\ request[s].stamp \in Times
      BY <1>2 DEF Commit, TypeOK
    <2>2. [state \in Waits |-> Entry(s, state)] \in [Waits -> Times]
      BY <2>1 DEF Entry, TypeOK
    <2> QED
      BY <1>2, <2>1, <2>2 DEF Commit, TypeOK, Calls
  <1>3. CASE RollBack(s)
    BY <1>3 DEF RollBack, TypeOK, Calls
  <1> QED
    BY <1>1, <1>2, <1>3

LEMMA ChecksKeepTypes ==
    ASSUME TypeOK, NEW s \in Subjects, Look(s) \/ Measure(s) \/ Record(s) \/ Publish(s)
    PROVE  TypeOK'
  <1>1. CASE Look(s)
    BY <1>1 DEF Look, TypeOK, Calls
  <1>2. CASE Measure(s)
    <2>1. checker \in Calls /\ entered[s][checker.state] \in Times
      BY <1>2 DEF Measure, At, TypeOK, Calls
    <2> QED
      BY <1>2, <2>1 DEF Measure, TypeOK, Calls
  <1>3. CASE Record(s)
    BY <1>3 DEF Record, At, TypeOK, Calls
  <1>4. CASE Publish(s)
    <2>1. checker \in Calls
      BY <1>4 DEF Publish, At, TypeOK
    <2> QED
      BY <1>4, <2>1 DEF Publish, TypeOK, Calls
  <1> QED
    BY <1>1, <1>2, <1>3, <1>4

\* The reminder a check is about to write is for a stay that began after the
\* last one: that is what the search for an earlier one finds out.
LEMMA NextIsTimely == IInv /\ [Next]_vars => IInv'
  <1> SUFFICES ASSUME IInv, [Next]_vars PROVE IInv'
    OBVIOUS
  <1> USE LimitAssumption DEF IInv
  <1>1. CASE Tick
    <2>1. TypeOK'
      BY <1>1, TimeAssumption DEF Tick, TypeOK, Times, Never, Calls
    <2>2. CallIsTimely'
      BY <1>1 DEF Tick, CallIsTimely, TypeOK, Times, Never, Calls, Waits
    <2> QED
      BY <2>1, <2>2
  <1>2. ASSUME NEW s \in Subjects, Fire(s) \/ Commit(s) \/ RollBack(s) PROVE IInv'
    BY <1>2, RequestsKeepTypes DEF Fire, Commit, RollBack, CallIsTimely
  <1>3. ASSUME NEW s \in Subjects, Look(s) PROVE IInv'
    <2>1. TypeOK'
      BY <1>3, ChecksKeepTypes
    <2>2. CallIsTimely'
      BY <1>3 DEF Look, CallIsTimely, TypeOK, Times, Never
    <2> QED
      BY <2>1, <2>2
  <1>4. ASSUME NEW s \in Subjects, Measure(s) PROVE IInv'
    <2>1. TypeOK'
      BY <1>4, ChecksKeepTypes
    <2>2. checker \in Calls /\ checker.subject = s /\ checker.time <= now
      BY <1>4 DEF Measure, At, TypeOK, CallIsTimely
    <2>3. CASE Overdue(s, checker.state, checker.time)
      <3>1. checker' = [checker EXCEPT !.at = "record", !.time = entered[s][checker.state]]
        BY <1>4, <2>3 DEF Measure
      <3>2. now > entered[s][checker.state] + Limits[checker.state]
        BY <2>2, <2>3 DEF Overdue, TypeOK, Calls, Times, Never, Waits
      <3> QED
        BY <1>4, <2>1, <2>2, <3>1, <3>2 DEF Measure, CallIsTimely, Calls
    <2>4. CASE ~Overdue(s, checker.state, checker.time)
      BY <1>4, <2>1, <2>4 DEF Measure, CallIsTimely
    <2> QED
      BY <2>3, <2>4
  <1>5. ASSUME NEW s \in Subjects, Record(s) PROVE IInv'
    <2>1. TypeOK'
      BY <1>5, ChecksKeepTypes
    <2>2. /\ checker \in Calls /\ checker.subject = s
          /\ now > checker.time + Limits[checker.state]
      BY <1>5 DEF Record, At, TypeOK, CallIsTimely
    <2>3. CASE ~AlreadyNotified(s, checker.state, checker.time)
      <3>1. checker' = [checker EXCEPT !.at = "commit", !.time = now]
        BY <1>5, <2>3 DEF Record
      <3>2. reminded[s][checker.state] < checker.time
        BY <2>2, <2>3 DEF AlreadyNotified, TypeOK, Calls, Times, Never
      <3>3. now > reminded[s][checker.state] + Limits[checker.state]
        BY <2>2, <3>2 DEF TypeOK, Calls, Times, Never, Waits
      <3> QED
        BY <1>5, <2>1, <2>2, <3>1, <3>3 DEF Record, CallIsTimely, Calls
    <2>4. CASE AlreadyNotified(s, checker.state, checker.time)
      BY <1>5, <2>1, <2>4 DEF Record, CallIsTimely
    <2> QED
      BY <2>3, <2>4
  <1>6. ASSUME NEW s \in Subjects, Publish(s) PROVE IInv'
    BY <1>6, ChecksKeepTypes DEF Publish, CallIsTimely
  <1>7. CASE Fail
    BY <1>7 DEF Fail, TypeOK, CallIsTimely
  <1>8. CASE UNCHANGED vars
    BY <1>8 DEF vars, TypeOK, CallIsTimely, Calls
  <1> QED
    BY <1>1, <1>2, <1>3, <1>4, <1>5, <1>6, <1>7, <1>8 DEF Next

\* The rows and the checker's call have their types (timeout_checker.py).
THEOREM TypeCorrect == Spec => []TypeOK
  BY InitIsTimely, NextIsTimely, PTL DEF Spec, IInv

\* A user is never reminded of a wait of one kind twice within its limit
\* (TimeoutChecker.check), for any subjects, limits and moves.
THEOREM SpacedReminders == Spec => RemindersAreSpaced
  <1> DEFINE Step ==
        \A s \in Subjects, state \in Waits :
            reminded'[s][state] # reminded[s][state] /\ reminded[s][state] # Never =>
                reminded'[s][state] > reminded[s][state] + Limits[state]
  <1>1. IInv /\ [Next]_vars => [Step]_vars
    <2> SUFFICES ASSUME IInv, Next, NEW s \in Subjects, NEW state \in Waits,
                        reminded'[s][state] # reminded[s][state], reminded[s][state] # Never
                 PROVE  reminded'[s][state] > reminded[s][state] + Limits[state]
      BY DEF vars
    <2>1. PICK p \in Subjects : Publish(p)
      BY DEF Next, Tick, Fire, Commit, RollBack, Look, Measure, Record, Fail
    <2>2. checker \in Calls /\ checker.at = "commit" /\ checker.subject = p
      BY <2>1 DEF Publish, At, IInv, TypeOK
    <2>3. p = s /\ checker.state = state /\ reminded'[s][state] = checker.time
      BY <2>1, <2>2 DEF Publish, IInv, TypeOK, Calls
    <2> QED
      BY <2>1, <2>2, <2>3 DEF Publish, At, IInv, CallIsTimely
  <1>2. QED
    BY <1>1, InitIsTimely, NextIsTimely, PTL DEF Spec, RemindersAreSpaced
=============================================================================
