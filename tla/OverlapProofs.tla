---------------------------- MODULE OverlapProofs ----------------------------
(***************************************************************************)
(* What requests that overlap still do for each other, for any number of   *)
(* sessions, questions and requirements.                                   *)
(*                                                                         *)
(* Answers given at the same time leave nobody waiting for nothing: of all *)
(* sessions that answer, one alone is past its decision, because decision  *)
(* keys are unique, so that the questions it counts as open are not        *)
(* answered by another one before it commits.  No sessions wait for each   *)
(* other in a circle, because all lock in one order.  And the memory of    *)
(* the project changes as if they came one at a time (ProjectMemory).      *)
(***************************************************************************)
EXTENDS ConcurrentRequestsProofs

Wait == "WAITING_REQUIREMENT_INPUT"

\* The places of a session that answers, after it has noted its decision.
Noted == {"left", "fire", "write", "draft", "settle", "commit"}

\* An answering session that gets past its decision has taken a number; one
\* without the lock that is about to commit leaves a question open, and so
\* does one that goes back to the wait.
Leaves(s) ==
    /\ Writes(s).answered # {} => session[s].kind = "answer"
    /\ session[s].kind = "answer" /\ session[s].at = "note" => session[s].number # 0
    /\ session[s].kind = "answer" /\ session[s].at \in Noted => Writes(s).number # 0
    /\ session[s].locked => Writes(s).status \in ProjectStates
    /\ session[s].at = "commit" /\ ~session[s].locked =>
          session[s].kind = "answer" /\ OpenFor(s) # {}
    /\ session[s].at = "commit" /\ session[s].locked /\ Writes(s).status = Wait => OpenFor(s) # {}

AllLeave == NeverStranded /\ \A s \in Sessions : Leaves(s)

\* Other sessions see what they saw before.
LEMMA LeavingIsEnough ==
    ASSUME TInv, AllLeave, NEW s \in Sessions, db' = db, OnlyActs(s), Leaves(s)'
    PROVE  AllLeave'
  <1>1. ASSUME NEW o \in Sessions PROVE Leaves(o)'
    <2>1. CASE o = s
      BY <2>1
    <2>2. CASE o # s
      BY <2>2 DEF AllLeave, Leaves, OnlyActs, OpenFor, Writes
    <2> QED
      BY <2>1, <2>2
  <1> QED
    BY <1>1 DEF AllLeave, NeverStranded

LEMMA ClosingLeaves ==
    ASSUME TInv, AllLeave, NEW s \in Sessions, Close(s), db' = db
    PROVE  AllLeave'
  <1>1. OnlyActs(s) /\ session'[s] = Closed
    BY CloseChanges
  <1>2. Leaves(s)'
    BY <1>1 DEF Leaves, Closed, NoWrites, Writes, Noted
  <1> QED
    BY <1>1, <1>2, LeavingIsEnough

(***************************************************************************)
(* The statements of an answer                                             *)
(***************************************************************************)

\* An answer is found, written, counted and noted before anything else.
LEMMA AnswerIsInOrder ==
    ASSUME NEW status
    PROVE  /\ Following("answer", "find", status) = "answer"
           /\ Following("answer", "answer", status) = "count"
           /\ Following("answer", "count", status) = "note"
           /\ Following("answer", "note", status) = "left"
           /\ Following("answer", "left", status) = "fire"
           /\ Following("answer", "fire", status) = "write"
  <1> DEFINE program == Statements["answer"]
  <1>1. program = <<"find", "answer", "count", "note", "left", "fire", "write">>
    BY DEF Statements
  <1>2. Last(program) = "write"
    BY <1>1 DEF Last
  <1>3. ASSUME NEW i \in 1..6
        PROVE  Following("answer", program[i], status) = program[i + 1]
    <2>1. program[i] # "write"
      BY <1>1, <1>3
    <2>2. (CHOOSE n \in DOMAIN program : program[n] = program[i]) = i
      <3>1. DOMAIN program = 1..7
        BY <1>1
      <3>2. \A n \in DOMAIN program : program[n] = program[i] => n = i
        BY <1>1, <3>1
      <3> QED
        BY <3>1, <3>2
    <2> QED
      BY <1>2, <2>1, <2>2 DEF Following
  <1>4. /\ program[1] = "find"  /\ program[2] = "answer" /\ program[3] = "count"
        /\ program[4] = "note"  /\ program[5] = "left"   /\ program[6] = "fire"
        /\ program[7] = "write"
    BY <1>1
  <1> HIDE DEF program
  <1> QED
    BY <1>3, <1>4

\* Questions left are counted only when one was answered.
LEMMA OnlyAnswersLeave ==
    ASSUME NEW kind \in Kinds, "left" \in StatementsOf(kind)
    PROVE  kind = "answer"
  BY DEF Kinds, Expected, StatementsOf, Statements

\* A statement other than the write of the status: the session does not commit
\* yet, and has noted its decision if it is past the note.
LEMMA DoingLeaves ==
    ASSUME TInv, AllLeave, NEW s \in Sessions, NEW statement, NEW writes, Does(s, statement, writes),
           statement \in {"find", "answer", "note", "left", "fire"},
           writes.status = Writes(s).status,
           writes.answered # {} => session[s].kind = "answer",
           session[s].kind = "answer" /\ statement \in {"note", "left", "fire"} => writes.number # 0
    PROVE  AllLeave'
  <1>1. /\ db' = db /\ OnlyActs(s) /\ session[s].at = statement
        /\ session'[s].at = Following(session[s].kind, statement, writes.status)
        /\ session'[s].kind = session[s].kind     /\ session'[s].locked = session[s].locked
        /\ session'[s].number = session[s].number /\ session'[s].writes = writes
    BY DoesChanges
  <1>2. session[s].kind \in Kinds /\ statement \in StatementsOf(session[s].kind)
    BY <1>1, AtAStatement
  <1>3. session'[s].at # "commit"
    BY <1>1, <1>2, FollowingIsAPlace, StatementsAreKnown
  <1>4. session[s].kind = "answer" =>
            /\ session'[s].at # "note"
            /\ session'[s].at \in Noted => statement \in {"note", "left", "fire"}
    BY <1>1, AnswerIsInOrder DEF Noted
  <1>5. session[s].locked => Writes(s).status \in ProjectStates
    BY DEF AllLeave, Leaves
  <1>6. Leaves(s)'
    BY <1>1, <1>3, <1>4, <1>5 DEF Leaves, Writes
  <1> QED
    BY <1>1, <1>6, LeavingIsEnough

LEMMA StatementsLeave ==
    ASSUME TInv, Numbered, AllLeave, NEW s \in Sessions,
           \/ FindQuestion(s) \/ WriteAnswer(s) \/ CountDecisions(s) \/ NoteDecision(s)
           \/ CountOpenQuestions(s) \/ Fire(s)
    PROVE  AllLeave'
  <1> USE DEF Noted
  <1>a. /\ Writes(s).answered # {} => session[s].kind = "answer"
        /\ session[s].kind = "answer" /\ session[s].at = "note" => session[s].number # 0
        /\ session[s].kind = "answer" /\ session[s].at \in Noted => Writes(s).number # 0
        /\ session[s].locked => Writes(s).status \in ProjectStates
    BY DEF AllLeave, Leaves
  <1>1. CASE FindQuestion(s)
    <2>1. CASE session[s].key \in db.open /\ Does(s, "find", Writes(s))
      BY <1>a, <2>1, DoingLeaves
    <2>2. CASE Close(s) /\ UNCHANGED db
      BY <2>2, ClosingLeaves
    <2> QED
      BY <1>1, <2>1, <2>2 DEF FindQuestion
  <1>2. CASE WriteAnswer(s)
    <2> DEFINE writes == [Writes(s) EXCEPT !.answered = {session[s].key}]
    <2>1. Does(s, "answer", writes) /\ session[s].at = "answer"
      BY <1>2 DEF WriteAnswer, Does
    <2>2. session[s].kind = "answer" /\ Writes(s) \in WrittenRows
      BY <2>1, AtAStatement, StatementsAreKnown
    <2>3. writes.status = Writes(s).status
      BY <2>2 DEF WrittenRows
    <2> HIDE DEF writes
    <2> QED
      BY <2>1, <2>2, <2>3, DoingLeaves
  <1>3. CASE CountDecisions(s)
    <2>1. /\ db' = db /\ OnlyActs(s) /\ session[s].at = "count"
          /\ session'[s].at = Following(session[s].kind, "count", Writes(s).status)
          /\ session'[s].kind = session[s].kind     /\ session'[s].locked = session[s].locked
          /\ session'[s].number = CountedFor(s) + 1 /\ session'[s].writes = session[s].writes
      BY <1>3, CountChanges
    <2>2. session[s].kind \in Kinds /\ "count" \in StatementsOf(session[s].kind)
      BY <2>1, AtAStatement
    <2>3. session'[s].at # "commit"
      BY <2>1, <2>2, FollowingIsAPlace, StatementsAreKnown
    <2>4. session[s].kind = "answer" => session'[s].at = "note"
      BY <2>1, AnswerIsInOrder
    <2>5. session'[s].number # 0
      BY <2>1, FS_CardinalityType DEF CountedFor, TInv, Typed
    <2>6. Leaves(s)'
      BY <1>a, <2>1, <2>3, <2>4, <2>5 DEF Leaves, Writes
    <2> QED
      BY <2>1, <2>6, LeavingIsEnough
  <1>4. CASE NoteDecision(s)
    <2> DEFINE writes == [Writes(s) EXCEPT !.number = session[s].number]
    <2>1. CASE Does(s, "note", writes)
      <3>1. session[s].at = "note"
        BY <2>1 DEF Does
      <3>2. /\ writes.status = Writes(s).status /\ writes.answered = Writes(s).answered
            /\ writes.number = session[s].number
        BY <3>1, AtAStatement DEF WrittenRows
      <3> HIDE DEF writes
      <3> QED
        BY <1>a, <2>1, <3>1, <3>2, DoingLeaves
    <2>2. CASE Close(s) /\ UNCHANGED db
      BY <2>2, ClosingLeaves
    <2> QED
      BY <1>4, <2>1, <2>2 DEF NoteDecision
  <1>5. CASE CountOpenQuestions(s)
    <2>1. CASE Does(s, "left", Writes(s))
      BY <1>a, <2>1, DoingLeaves DEF Does
    <2>2. CASE /\ OpenFor(s) # {} /\ session[s].at = "left" /\ db' = db
               /\ session' = [session EXCEPT ![s].at = "commit"]
      <3>1. session[s].kind = "answer" /\ Writes(s) = session[s].writes
        BY <2>2, AtAStatement, OnlyAnswersLeave DEF Writes
      <3>2. session'[s] = [session[s] EXCEPT !.at = "commit"] /\ OnlyActs(s)
        BY <2>2 DEF TInv, Typed, OnlyActs
      <3>3. /\ session'[s].kind = session[s].kind /\ session'[s].locked = session[s].locked
            /\ session'[s].writes = session[s].writes /\ session'[s].at = "commit"
        BY <3>2 DEF TInv, Typed, SessionRecords
      <3>4. OpenFor(s)' # {}
        BY <2>2, <3>3 DEF OpenFor, Writes
      <3>5. Leaves(s)'
        BY <1>a, <2>2, <3>1, <3>3, <3>4 DEF Leaves, Writes
      <3> QED
        BY <2>2, <3>2, <3>5, LeavingIsEnough
    <2> QED
      BY <1>5, <2>1, <2>2 DEF CountOpenQuestions
  <1>6. CASE Fire(s)
    <2>1. CASE Does(s, "fire", Writes(s))
      BY <1>a, <2>1, DoingLeaves DEF Does
    <2>2. CASE /\ session[s].at = "fire" /\ db' = db
               /\ session' = [session EXCEPT ![s].at = "refused", ![s].writes.audit = {"GUARD_REJECTED"}]
      <3>1. /\ OnlyActs(s) /\ session'[s].at = "refused"
            /\ session'[s].kind = session[s].kind /\ session'[s].locked = session[s].locked
            /\ session'[s].writes.answered = Writes(s).answered
            /\ session'[s].writes.status = Writes(s).status
        BY <2>2 DEF TInv, Typed, SessionRecords, WrittenRows, OnlyActs, Writes
      <3>2. Leaves(s)'
        BY <1>a, <3>1 DEF Leaves, Writes
      <3> QED
        BY <2>2, <3>1, <3>2, LeavingIsEnough
    <2> QED
      BY <1>6, <2>1, <2>2 DEF Fire
  <1> QED
    BY <1>1, <1>2, <1>3, <1>4, <1>5, <1>6

(***************************************************************************)
(* Status and drafts                                                       *)
(***************************************************************************)

\* No event leads straight back to the wait for answers.
LEMMA WriteStatusLeaves ==
    ASSUME TInv, AllLeave, NEW s \in Sessions, WriteStatus(s)
    PROVE  AllLeave'
  <1>1. PICK events \in Events[session[s].kind] :
           session' = [session EXCEPT
               ![s].at = Following(session[s].kind, "write", Moved(s, events).status),
               ![s].locked = TRUE,
               ![s].writes = Moved(s, events)]
    BY DEF WriteStatus
  <1>2. /\ db' = db /\ OnlyActs(s) /\ session[s].at = "write"
        /\ session'[s].kind = session[s].kind /\ session'[s].locked
        /\ session'[s].writes.number = Writes(s).number
        /\ session'[s].writes.answered = Writes(s).answered
    BY WriteStatusChanges
  <1>3. /\ session[s].kind \in Kinds /\ session[s].seen = Expected[session[s].kind]
        /\ "write" \in StatementsOf(session[s].kind) /\ Writes(s) \in WrittenRows
    BY <1>2, AtAStatement
  <1>4. session'[s].writes.status = After(session[s].seen, events)
    <2>1. session'[s].writes = Moved(s, events)
      BY <1>1 DEF TInv, Typed, SessionRecords
    <2> QED
      BY <1>3, <2>1 DEF Moved, WrittenRows
  <1>5. After(session[s].seen, events) \in ProjectStates \ {Wait}
    BY <1>3, EventAssumption, WaitAssumption DEF Kinds, Wait
  <1>6. session'[s].at # "note"
    <2>1. session'[s].at = Following(session[s].kind, "write", Moved(s, events).status)
      BY <1>1 DEF TInv, Typed, SessionRecords
    <2>2. Last(Statements[session[s].kind]) = "write"
      BY <1>3, StatementsAreKnown
    <2> QED
      BY <2>1, <2>2 DEF Following
  <1>7. Leaves(s)'
    BY <1>2, <1>4, <1>5, <1>6 DEF AllLeave, Leaves, Writes, Noted
  <1> QED
    BY <1>2, <1>7, LeavingIsEnough

LEMMA DraftLeaves ==
    ASSUME TInv, AllLeave, NEW s \in Sessions, Draft(s)
    PROVE  AllLeave'
  <1>1. PICK drafted \in SUBSET Requirements, changed \in SUBSET Requirements,
             asked \in SUBSET Questions :
           session' = [session EXCEPT
                ![s].at = "settle", ![s].writes = DraftWrites(s, drafted, changed, asked)]
    BY DEF Draft
  <1>2. session[s].at = "draft" /\ db' = db
    BY DEF Draft
  <1>3. /\ OnlyActs(s) /\ session'[s].at = "settle"
        /\ session'[s].kind = session[s].kind /\ session'[s].locked = session[s].locked
        /\ session'[s].writes = DraftWrites(s, drafted, changed, asked)
    BY <1>1 DEF TInv, Typed, SessionRecords, OnlyActs
  <1>4. LET w == DraftWrites(s, drafted, changed, asked)
        IN  w.number = Writes(s).number /\ w.answered = Writes(s).answered /\ w.status = Writes(s).status
    BY <1>2, AtAStatement DEF DraftWrites, WrittenRows
  <1>5. Leaves(s)'
    BY <1>2, <1>3, <1>4 DEF AllLeave, Leaves, Writes, Noted
  <1> QED
    BY <1>2, <1>3, <1>5, LeavingIsEnough

\* A draft goes back to the wait only if it leaves a question open.
LEMMA SettleLeaves ==
    ASSUME TInv, Drafts, AllLeave, NEW s \in Sessions, Settle(s)
    PROVE  AllLeave'
  <1> DEFINE event == IF OpenFor(s) # {} THEN "DRAFT_HAS_UNKNOWNS" ELSE "DRAFT_COMPLETED"
  <1>1. /\ db' = db /\ OnlyActs(s) /\ session[s].at = "settle" /\ session'[s].at = "commit"
        /\ session'[s].kind = session[s].kind /\ session'[s].locked = session[s].locked
        /\ session'[s].writes.number = Writes(s).number
        /\ session'[s].writes.asked = Writes(s).asked
        /\ session'[s].writes.answered = Writes(s).answered
    BY SettleChanges
  <1>2. Writes(s).status = "REQUIREMENT_DRAFTING"
    BY <1>1 DEF TInv, InPlace, Closed
  <1>3. session'[s].writes.status = Row("REQUIREMENT_DRAFTING", event).target
    BY <1>2 DEF Settle, TInv, Typed, SessionRecords, WrittenRows, Writes
  <1>4. session'[s].writes.status \in ProjectStates
    BY <1>3, EventAssumption
  <1>5. session'[s].writes.status = Wait => OpenFor(s) # {}
    BY <1>3, WaitAssumption DEF Wait
  <1>6. OpenFor(s)' = OpenFor(s)
    BY <1>1 DEF OpenFor, Writes
  <1>7. session[s].locked
    BY <1>1 DEF Drafts, Holds
  <1>8. Leaves(s)'
    BY <1>1, <1>4, <1>5, <1>6, <1>7 DEF AllLeave, Leaves, Writes, Noted
  <1> QED
    BY <1>1, <1>8, LeavingIsEnough

LEMMA RequestLeaves ==
    ASSUME TInv, AllLeave, NEW s \in Sessions, Request(s)
    PROVE  AllLeave'
  <1>1. /\ db' = db /\ OnlyActs(s) /\ session'[s].writes = NoWrites
        /\ ~session'[s].locked
        /\ session'[s].kind = "answer" => session'[s].at = "find"
    BY LoadChanges
  <1>2. session'[s].at # "commit"
    <2>1. PICK kind \in Kinds, key \in Questions \cup {NoQuestion} : Load(s, kind, key)
      BY DEF Request, Kinds, Expected
    <2>2. session'[s].at = Statements[kind][1]
      BY <2>1 DEF Load, TInv, Typed, Closed
    <2> QED
      BY <2>2, StatementsAreKnown
  <1>3. Leaves(s)'
    BY <1>1, <1>2 DEF Leaves, Writes, NoWrites, Noted
  <1> QED
    BY <1>1, <1>3, LeavingIsEnough

(***************************************************************************)
(* Commits                                                                 *)
(***************************************************************************)

\* What a commit does to the questions another session sees.  If it answers
\* one, the other session has no decision and so no answer, and this one left
\* a question open.
LEMMA CommitLeaves ==
    ASSUME TInv, Numbered, Drafts, AllLeave, NEW s \in Sessions, Commit(s)
    PROVE  AllLeave'
  <1>1. OnlyActs(s) /\ session'[s] = Closed /\ session[s].at = "commit"
    BY CloseChanges DEF Commit
  <1>2. /\ db'.open = OpenFor(s)
        /\ db'.status = IF Writes(s).status = NoStatus THEN db.status ELSE Writes(s).status
    BY DEF Commit, TInv, Typed, Rows
  <1>3. Leaves(s)
    BY DEF AllLeave
  <1>4. NeverStranded'
    <2>1. CASE session[s].locked
      BY <1>1, <1>2, <1>3, <2>1, StatusAssumption DEF Leaves, NeverStranded, Wait
    <2>2. CASE ~session[s].locked
      BY <1>1, <1>2, <1>3, <2>2 DEF Leaves, NeverStranded
    <2> QED
      BY <2>1, <2>2
  <1>5. ASSUME NEW o \in Sessions \ {s}, session[o].at = "commit", OpenFor(o) # {},
               session[o].locked => Writes(o).status = Wait
        PROVE  OpenFor(o)' # {}
    <2>1. session'[o] = session[o] /\ Writes(o)' = Writes(o)
      BY <1>1 DEF OnlyActs, Writes
    <2>2. OpenFor(o)' = (db'.open \cup Writes(o).asked) \ Writes(o).answered
      BY <2>1 DEF OpenFor
    <2>3. CASE Writes(s).answered = {}
      BY <1>2, <1>5, <2>2, <2>3 DEF OpenFor
    <2>4. CASE Writes(s).answered # {}
      <3>1. Writes(s).number # 0
        BY <1>1, <1>3, <2>4 DEF Leaves, Noted
      <3>2. Writes(o).number = 0
        BY <3>1 DEF Numbered, NumberedTo
      <3>3. Leaves(o)
        BY DEF AllLeave
      <3>4. session[o].kind # "answer" /\ session[o].locked /\ Writes(o).answered = {}
        BY <1>5, <3>2, <3>3 DEF Leaves, Noted
      <3>5. ~session[s].locked
        BY <3>4 DEF Drafts, OneLock
      <3>6. OpenFor(s) # {}
        BY <1>1, <1>3, <3>5 DEF Leaves
      <3> QED
        BY <1>2, <2>2, <3>4, <3>6
    <2> QED
      BY <2>3, <2>4
  <1>6. ASSUME NEW o \in Sessions \ {s} PROVE Leaves(o)'
    <2>1. session'[o] = session[o] /\ Writes(o)' = Writes(o) /\ Leaves(o)
      BY <1>1 DEF OnlyActs, Writes, AllLeave
    <2>2. CASE session[o].at = "commit" /\ ~session[o].locked
      <3>1. session[o].kind = "answer" /\ OpenFor(o) # {}
        BY <2>1, <2>2 DEF Leaves
      <3>2. OpenFor(o)' # {}
        BY <1>5, <2>2, <3>1
      <3> QED
        BY <2>1, <2>2, <3>1, <3>2 DEF Leaves, Writes, Noted
    <2>3. CASE session[o].at = "commit" /\ session[o].locked /\ Writes(o).status = Wait
      <3>1. OpenFor(o)' # {}
        BY <1>5, <2>1, <2>3 DEF Leaves
      <3> QED
        BY <2>1, <2>3, <3>1 DEF Leaves, Writes, Noted
    <2>4. CASE \/ session[o].at # "commit"
               \/ session[o].locked /\ Writes(o).status # Wait
      BY <2>1, <2>4 DEF Leaves, Writes, Noted, Wait
    <2> QED
      BY <2>2, <2>3, <2>4
  <1>7. Leaves(s)'
    BY <1>1 DEF Leaves, Closed, NoWrites, Writes, Noted
  <1> QED
    BY <1>4, <1>6, <1>7 DEF AllLeave

LEMMA NextLeaves == TInv /\ Numbered /\ Drafts /\ AllLeave /\ [Next]_vars => AllLeave'
  <1> SUFFICES ASSUME TInv, Numbered, Drafts, AllLeave, [Next]_vars PROVE AllLeave'
    OBVIOUS
  <1>1. CASE UpdateIdea
    <2>1. session' = session /\ db'.open = db.open /\ db'.status = db.status
      BY <1>1 DEF UpdateIdea, TInv, Typed, Rows
    <2> QED
      BY <2>1 DEF AllLeave, NeverStranded, Leaves, OpenFor, Writes
  <1>2. CASE UNCHANGED vars
    BY <1>2 DEF vars, AllLeave, NeverStranded, Leaves, OpenFor, Writes
  <1>3. ASSUME NEW s \in Sessions, RollBack(s) PROVE AllLeave'
    BY <1>3, ClosingLeaves DEF RollBack
  <1> QED
    BY <1>1, <1>2, <1>3, RequestLeaves, StatementsLeave, WriteStatusLeaves, DraftLeaves,
       SettleLeaves, CommitLeaves DEF Next

\* Whoever answers at the same time, a project that waits for answers has a
\* question to answer (answer_question).
THEOREM NobodyIsStranded == Spec => []NeverStranded
  <1>1. Init => AllLeave
    BY DEF Init, NewProject, Closed, NoWrites, AllLeave, NeverStranded, Leaves, Writes, Noted
  <1>2. Init => Drafts
    BY DEF Init, NewProject, Closed, NoWrites, Drafts, OneLock, Holds, Known
  <1>3. AllLeave => NeverStranded
    BY DEF AllLeave
  <1> QED
    BY <1>1, <1>2, <1>3, InitTyped, NextTyped, InitNumbered, NextNumbered, NextHolds, NextLeaves,
       PTL DEF Spec

(***************************************************************************)
(* No sessions wait for each other in a circle                             *)
(***************************************************************************)

\* A statement leads to the next one of its request.
LEMMA FollowingIsNext ==
    ASSUME NEW kind \in Kinds, NEW at \in StatementsOf(kind), at # "write", NEW status
    PROVE  \E i \in DOMAIN Statements[kind] :
              /\ i + 1 \in DOMAIN Statements[kind] /\ Statements[kind][i] = at
              /\ Following(kind, at, status) = Statements[kind][i + 1]
  <1> DEFINE program == Statements[kind]
             i == CHOOSE n \in DOMAIN program : program[n] = at
  <1>1. i \in DOMAIN program /\ program[i] = at
    BY DEF StatementsOf
  <1>2. program \in Seq(Places) /\ Last(program) = "write"
    BY StatementsAreKnown
  <1>3. Following(kind, at, status) = program[i + 1]
    BY <1>2 DEF Following
  <1> HIDE DEF i, program
  <1>4. i + 1 \in DOMAIN program
    BY <1>1, <1>2 DEF Last
  <1> QED
    BY <1>1, <1>3, <1>4 DEF program

\* What an answer or a decision does, each request does in this order.
LEMMA RowsAreTakenInOrder ==
    ASSUME NEW kind \in Kinds, NEW at \in StatementsOf(kind), at # "write", NEW status
    PROVE  LET next == Following(kind, at, status)
           IN  /\ next # "find"
               /\ next = "answer" => at = "find"
               /\ next = "count" => at = "answer"
               /\ next = "note" => at = "count"
  <1>1. PICK i \in DOMAIN Statements[kind] :
            /\ i + 1 \in DOMAIN Statements[kind] /\ Statements[kind][i] = at
            /\ Following(kind, at, status) = Statements[kind][i + 1]
    BY FollowingIsNext
  <1>2. kind \in {"analyze", "answer", "approve", "change", "reduce", "stop"}
    BY DEF Kinds, Expected
  <1>3. CASE kind \in {"analyze", "approve", "change", "stop"}
    <2>1. Statements[kind] = <<"fire", "write">>
      BY <1>3 DEF Statements
    <2> QED
      BY <1>1, <2>1
  <1>4. CASE kind = "answer"
    <2>1. Statements[kind] = <<"find", "answer", "count", "note", "left", "fire", "write">>
      BY <1>4 DEF Statements
    <2> QED
      BY <1>1, <2>1
  <1>5. CASE kind = "reduce"
    <2>1. Statements[kind] = <<"count", "note", "fire", "write">>
      BY <1>5 DEF Statements
    <2> QED
      BY <1>1, <2>1
  <1> QED
    BY <1>2, <1>3, <1>4, <1>5

\* A session, whose record is r, that is about to write a row or a key has not
\* locked one that comes after it: question, decision, project.
TakesInOrder(r) ==
    /\ r.at \in {"find", "answer"} => r.writes.answered = {}
    /\ r.at \in {"find", "answer", "count", "note"} => r.writes.number = 0
    /\ r.at = "note" => r.number # 0
    /\ r.locked => r.at \in {"draft", "settle", "commit"}

Ordered == \A s \in Sessions : TakesInOrder(session[s])

LEMMA ActingInOrder ==
    ASSUME Ordered, NEW s \in Sessions, OnlyActs(s), TakesInOrder(session'[s])
    PROVE  Ordered'
  BY DEF Ordered, OnlyActs, TakesInOrder

LEMMA ClosingInOrder ==
    ASSUME TInv, Ordered, NEW s \in Sessions, Close(s)
    PROVE  Ordered'
  BY CloseChanges, ActingInOrder DEF TakesInOrder, Closed, NoWrites

LEMMA DoingInOrder ==
    ASSUME TInv, Ordered, NEW s \in Sessions, NEW statement, NEW writes, Does(s, statement, writes),
           statement \in {"find", "answer", "note", "left", "fire"},
           statement = "find" => writes.answered = Writes(s).answered,
           statement \in {"find", "answer"} => writes.number = Writes(s).number
    PROVE  Ordered'
  <1>1. /\ OnlyActs(s) /\ session[s].at = statement
        /\ session'[s].at = Following(session[s].kind, statement, writes.status)
        /\ session'[s].locked = session[s].locked /\ session'[s].writes = writes
    BY DoesChanges
  <1>2. session[s].kind \in Kinds /\ statement \in StatementsOf(session[s].kind)
    BY <1>1, AtAStatement
  <1>3. /\ session'[s].at # "find" /\ session'[s].at # "note"
        /\ session'[s].at = "answer" => statement = "find"
        /\ session'[s].at = "count" => statement = "answer"
    BY <1>1, <1>2, RowsAreTakenInOrder
  <1>4. TakesInOrder(session'[s])
    BY <1>1, <1>3 DEF Ordered, TakesInOrder, Writes
  <1> QED
    BY <1>1, <1>4, ActingInOrder

LEMMA StatementsInOrder ==
    ASSUME TInv, Ordered, NEW s \in Sessions,
           \/ FindQuestion(s) \/ WriteAnswer(s) \/ CountDecisions(s) \/ NoteDecision(s)
           \/ CountOpenQuestions(s) \/ Fire(s)
    PROVE  Ordered'
  <1>1. CASE FindQuestion(s)
    BY <1>1, DoingInOrder, ClosingInOrder DEF FindQuestion
  <1>2. CASE WriteAnswer(s)
    <2> DEFINE writes == [Writes(s) EXCEPT !.answered = {session[s].key}]
    <2>1. Does(s, "answer", writes) /\ session[s].at = "answer"
      BY <1>2 DEF WriteAnswer, Does
    <2>2. writes.number = Writes(s).number
      BY <2>1, AtAStatement DEF WrittenRows
    <2> HIDE DEF writes
    <2> QED
      BY <2>1, <2>2, DoingInOrder
  <1>3. CASE CountDecisions(s)
    <2>1. /\ OnlyActs(s) /\ session[s].at = "count"
          /\ session'[s].at = Following(session[s].kind, "count", Writes(s).status)
          /\ session'[s].number = CountedFor(s) + 1 /\ session'[s].locked = session[s].locked
          /\ session'[s].writes = session[s].writes
      BY <1>3, CountChanges
    <2>2. session[s].kind \in Kinds /\ "count" \in StatementsOf(session[s].kind)
      BY <2>1, AtAStatement
    <2>3. session'[s].at \notin {"find", "answer"}
      BY <2>1, <2>2, RowsAreTakenInOrder
    <2>4. session'[s].number # 0
      BY <2>1, FS_CardinalityType DEF CountedFor, TInv, Typed
    <2>5. TakesInOrder(session'[s])
      BY <2>1, <2>3, <2>4 DEF Ordered, TakesInOrder
    <2> QED
      BY <2>1, <2>5, ActingInOrder
  <1>4. CASE NoteDecision(s)
    BY <1>4, DoingInOrder, ClosingInOrder DEF NoteDecision
  <1>5. CASE CountOpenQuestions(s)
    <2>1. CASE session[s].at = "left" /\ session' = [session EXCEPT ![s].at = "commit"]
      <3>1. /\ OnlyActs(s) /\ session'[s].at \in {"commit", "refused"}
            /\ session[s].at = "left" /\ session'[s].locked = session[s].locked
        BY <2>1, MoveChanges
      <3>2. TakesInOrder(session'[s])
        BY <3>1 DEF Ordered, TakesInOrder
      <3> QED
        BY <3>1, <3>2, ActingInOrder
    <2> QED
      BY <1>5, <2>1, DoingInOrder DEF CountOpenQuestions
  <1>6. CASE Fire(s)
    <2>1. CASE /\ session[s].at = "fire"
               /\ session' = [session EXCEPT ![s].at = "refused", ![s].writes.audit = {"GUARD_REJECTED"}]
      <3>1. /\ OnlyActs(s) /\ session'[s].at \in {"commit", "refused"}
            /\ session[s].at = "fire" /\ session'[s].locked = session[s].locked
        BY <2>1, MoveChanges
      <3>2. TakesInOrder(session'[s])
        BY <2>1, <3>1 DEF Ordered, TakesInOrder
      <3> QED
        BY <3>1, <3>2, ActingInOrder
    <2> QED
      BY <1>6, <2>1, DoingInOrder DEF Fire
  <1> QED
    BY <1>1, <1>2, <1>3, <1>4, <1>5, <1>6

\* The project is locked last.
LEMMA WriteStatusInOrder ==
    ASSUME TInv, Ordered, NEW s \in Sessions, WriteStatus(s)
    PROVE  Ordered'
  <1>1. PICK events \in Events[session[s].kind] :
           session' = [session EXCEPT
               ![s].at = Following(session[s].kind, "write", Moved(s, events).status),
               ![s].locked = TRUE,
               ![s].writes = Moved(s, events)]
    BY DEF WriteStatus
  <1>2. OnlyActs(s) /\ session[s].at = "write"
    BY WriteStatusChanges
  <1>3. session'[s].at = Following(session[s].kind, "write", Moved(s, events).status)
    BY <1>1 DEF TInv, Typed, SessionRecords
  <1>4. Last(Statements[session[s].kind]) = "write"
    BY <1>2, AtAStatement, StatementsAreKnown
  <1>5. session'[s].at \in {"draft", "commit"}
    BY <1>3, <1>4 DEF Following
  <1> QED
    BY <1>2, <1>5, ActingInOrder DEF TakesInOrder

LEMMA RequestInOrder ==
    ASSUME TInv, Ordered, NEW s \in Sessions, Request(s)
    PROVE  Ordered'
  <1>1. OnlyActs(s) /\ session'[s].writes = NoWrites /\ ~session'[s].locked
    BY LoadChanges
  <1>2. PICK kind \in Kinds, key \in Questions \cup {NoQuestion} : Load(s, kind, key)
    BY DEF Request, Kinds, Expected
  <1>3. session'[s].at = Statements[kind][1]
    BY <1>2 DEF Load, TInv, Typed, Closed
  <1>4. Statements[kind][1] # "note"
    BY DEF Statements, Kinds, Expected
  <1>5. TakesInOrder(session'[s])
    BY <1>1, <1>3, <1>4 DEF TakesInOrder, NoWrites
  <1> QED
    BY <1>1, <1>5, ActingInOrder

LEMMA NextInOrder == TInv /\ Ordered /\ [Next]_vars => Ordered'
  <1> SUFFICES ASSUME TInv, Ordered, [Next]_vars PROVE Ordered'
    OBVIOUS
  <1>1. CASE UpdateIdea \/ UNCHANGED vars
    BY <1>1 DEF UpdateIdea, vars, Ordered, TakesInOrder
  <1>2. ASSUME NEW s \in Sessions, Draft(s) PROVE Ordered'
    <2>1. OnlyActs(s) /\ session[s].at = "draft"
      BY <1>2, DraftChanges
    <2>2. session'[s].at = "settle"
      BY <1>2 DEF Draft, TInv, Typed, SessionRecords
    <2> QED
      BY <2>1, <2>2, ActingInOrder DEF TakesInOrder
  <1>3. ASSUME NEW s \in Sessions, Settle(s) PROVE Ordered'
    BY <1>3, SettleChanges, ActingInOrder DEF TakesInOrder
  <1>4. ASSUME NEW s \in Sessions, Commit(s) \/ RollBack(s) PROVE Ordered'
    BY <1>4, ClosingInOrder DEF Commit, RollBack
  <1> QED
    BY <1>1, <1>2, <1>3, <1>4, RequestInOrder, StatementsInOrder, WriteStatusInOrder DEF Next

\* Of sessions that wait for each other, one waits for none: one that is about
\* to lock what comes last in the order, since whoever holds that is past it.
LEMMA LastInOrderWaitsForNone ==
    ASSUME Ordered, NEW circle \in SUBSET Sessions, circle # {}
    PROVE  \E s \in circle : \A o \in circle \ {s} : ~WaitsFor(s, o)
  <1>1. CASE \E s \in circle : session[s].at \notin {"answer", "note", "write"}
    BY <1>1 DEF WaitsFor
  <1>2. CASE /\ \A o \in circle : session[o].at \in {"answer", "note", "write"}
             /\ \E s \in circle : session[s].at = "write"
    <2>1. \A o \in circle : ~session[o].locked
      BY <1>2 DEF Ordered, TakesInOrder
    <2> QED
      BY <1>2, <2>1 DEF WaitsFor
  <1>3. CASE /\ \A o \in circle : session[o].at \in {"answer", "note"}
             /\ \E s \in circle : session[s].at = "note"
    <2>1. \A o \in circle : Writes(o).number = 0
      BY <1>3 DEF Ordered, TakesInOrder, Writes
    <2>2. PICK s \in circle : session[s].at = "note" /\ session[s].number # 0
      BY <1>3 DEF Ordered, TakesInOrder
    <2> QED
      BY <2>1, <2>2 DEF WaitsFor
  <1>4. CASE \A o \in circle : session[o].at = "answer"
    <2>1. \A o \in circle : Writes(o).answered = {}
      BY <1>4 DEF Ordered, TakesInOrder, Writes
    <2> QED
      BY <1>4, <2>1 DEF WaitsFor
  <1> QED
    BY <1>1, <1>2, <1>3, <1>4

\* However many sessions there are, the locks of questions, decision keys and
\* the project make no circle, so that the database has nobody to abort.
THEOREM NobodyIsBlocked == Spec => []NoDeadlock
  <1>1. Init => Ordered
    BY DEF Init, Closed, NoWrites, Ordered, TakesInOrder
  <1>2. Ordered => NoDeadlock
    BY LastInOrderWaitsForNone DEF NoDeadlock
  <1> QED
    BY <1>1, <1>2, InitTyped, NextTyped, NextInOrder, PTL DEF Spec

(***************************************************************************)
(* Project memory changes as if requests came one at a time                *)
(***************************************************************************)

\* The requirements that a session, whose record is r, writes a version of.
Renewed(r) == {q \in Requirements : r.writes.version[q] # 0}

Undrafted(r) == r.writes.asked = {} /\ r.writes.active = {} /\ Renewed(r) = {}

\* A draft as the committed requirements want it: what comes or goes is renewed,
\* and nothing is that is in neither.
Follows(r) ==
    /\ (r.writes.active \ db.active) \cup (db.active \ r.writes.active) \subseteq Renewed(r)
    /\ Renewed(r) \subseteq r.writes.active \cup db.active

\* What a session, whose record is r, will commit is one request, and all of it:
\* an answer with its decision, a reduced scope with its decision and draft.
Keeps(r) ==
    /\ r.kind = "answer" /\ r.at \notin {"find", "answer"} => r.writes.answered = {r.key}
    /\ r.kind = "reduce" /\ r.at \notin {"count", "note"} => r.writes.number # 0
    /\ r.kind \notin {"answer", "reduce"} => r.writes.number = 0
    /\ Undrafted(r) \/ (r.locked /\ Follows(r))
    /\ r.kind = "reduce" /\ r.at \in {"settle", "commit"} => r.locked /\ Follows(r)

Whole == \A s \in Sessions : Keeps(session[s])

\* What says whether the session has drafted, and on which requirements.
LEMMA DraftStays ==
    ASSUME NEW s \in Sessions, db'.active = db.active,
           session'[s].writes.asked = Writes(s).asked,
           session'[s].writes.version = Writes(s).version,
           session'[s].writes.active = Writes(s).active
    PROVE  /\ Undrafted(session[s])' <=> Undrafted(session[s])
           /\ Follows(session[s])' <=> Follows(session[s])
  <1>1. Renewed(session[s])' = Renewed(session[s])
    BY DEF Renewed, Writes
  <1> QED
    BY <1>1 DEF Undrafted, Follows, Writes

LEMMA KeepingIsEnough ==
    ASSUME Whole, NEW s \in Sessions, db'.active = db.active, OnlyActs(s), Keeps(session[s])'
    PROVE  Whole'
  <1>1. ASSUME NEW o \in Sessions \ {s} PROVE Keeps(session[o])'
    BY DEF Whole, Keeps, OnlyActs, Undrafted, Follows, Renewed
  <1> QED
    BY <1>1 DEF Whole

LEMMA ClosingKeeps ==
    ASSUME TInv, Whole, NEW s \in Sessions, Close(s), db' = db
    PROVE  Whole'
  <1>1. OnlyActs(s) /\ session'[s] = Closed
    BY CloseChanges
  <1>2. Keeps(session[s])'
    BY <1>1 DEF Keeps, Undrafted, Renewed, Closed, NoWrites
  <1> QED
    BY <1>1, <1>2, KeepingIsEnough

\* Of what an answer and a decision do, the count comes before the note.
LEMMA CountedIsNoted ==
    ASSUME NEW kind \in Kinds, NEW at \in StatementsOf(kind), at # "write", NEW status
    PROVE  at = "count" => Following(kind, at, status) = "note"
  <1>1. PICK i \in DOMAIN Statements[kind] :
            /\ i + 1 \in DOMAIN Statements[kind] /\ Statements[kind][i] = at
            /\ Following(kind, at, status) = Statements[kind][i + 1]
    BY FollowingIsNext
  <1>2. kind \in {"analyze", "answer", "approve", "change", "reduce", "stop"}
    BY DEF Kinds, Expected
  <1>3. CASE kind \in {"analyze", "approve", "change", "stop"}
    <2>1. Statements[kind] = <<"fire", "write">>
      BY <1>3 DEF Statements
    <2> QED
      BY <1>1, <2>1
  <1>4. CASE kind = "answer"
    <2>1. Statements[kind] = <<"find", "answer", "count", "note", "left", "fire", "write">>
      BY <1>4 DEF Statements
    <2> QED
      BY <1>1, <2>1
  <1>5. CASE kind = "reduce"
    <2>1. Statements[kind] = <<"count", "note", "fire", "write">>
      BY <1>5 DEF Statements
    <2> QED
      BY <1>1, <2>1
  <1> QED
    BY <1>2, <1>3, <1>4, <1>5

\* Only requests that decide something count and note.
LEMMA OnlyDecisionsAreNoted ==
    ASSUME NEW kind \in Kinds, {"count", "note"} \cap StatementsOf(kind) # {}
    PROVE  kind \in {"answer", "reduce"}
  BY DEF Kinds, Expected, StatementsOf, Statements

LEMMA DoingKeeps ==
    ASSUME TInv, Whole, NEW s \in Sessions, NEW statement, NEW writes, Does(s, statement, writes),
           statement \in {"find", "answer", "note", "left", "fire"},
           writes.asked = Writes(s).asked, writes.version = Writes(s).version,
           writes.active = Writes(s).active,
           session[s].kind = "answer" /\ statement # "find" => writes.answered = {session[s].key},
           session[s].kind = "reduce" => writes.number # 0,
           session[s].kind \notin {"answer", "reduce"} => writes.number = 0
    PROVE  Whole'
  <1>1. /\ db' = db /\ OnlyActs(s) /\ session[s].at = statement
        /\ session'[s].at = Following(session[s].kind, statement, writes.status)
        /\ session'[s].kind = session[s].kind     /\ session'[s].key = session[s].key
        /\ session'[s].locked = session[s].locked /\ session'[s].writes = writes
    BY DoesChanges
  <1>2. session[s].kind \in Kinds /\ statement \in StatementsOf(session[s].kind)
    BY <1>1, AtAStatement
  <1>3. session'[s].at \in StatementsOf(session[s].kind)
    BY <1>1, <1>2, FollowingIsAPlace
  <1>4. session'[s].at \notin {"settle", "commit"}
    BY <1>2, <1>3, StatementsAreKnown
  <1>5. session[s].kind = "answer" /\ statement = "find" => session'[s].at = "answer"
    BY <1>1, AnswerIsInOrder
  <1>6. /\ Undrafted(session[s])' <=> Undrafted(session[s])
        /\ Follows(session[s])' <=> Follows(session[s])
    BY <1>1, DraftStays
  <1>7. Keeps(session[s])'
    BY <1>1, <1>4, <1>5, <1>6 DEF Whole, Keeps
  <1> QED
    BY <1>1, <1>7, KeepingIsEnough

LEMMA StatementsKeep ==
    ASSUME TInv, Ordered, Whole, NEW s \in Sessions,
           \/ FindQuestion(s) \/ WriteAnswer(s) \/ CountDecisions(s) \/ NoteDecision(s)
           \/ CountOpenQuestions(s) \/ Fire(s)
    PROVE  Whole'
  <1>a. Keeps(session[s]) /\ TakesInOrder(session[s])
    BY DEF Whole, Ordered
  <1>b. ASSUME NEW statement, session[s].at = statement, statement \in {"find", "answer", "left"}
        PROVE  session[s].kind = "answer"
    <2>1. session[s].kind \in Kinds /\ statement \in StatementsOf(session[s].kind)
      BY <1>b, AtAStatement
    <2> QED
      BY <1>b, <2>1 DEF StatementsOf, Statements, Kinds, Expected
  <1>1. CASE FindQuestion(s)
    <2>1. CASE Does(s, "find", Writes(s))
      BY <2>1, <1>b, DoingKeeps DEF Does
    <2> QED
      BY <1>1, <2>1, ClosingKeeps DEF FindQuestion
  <1>2. CASE WriteAnswer(s)
    <2> DEFINE writes == [Writes(s) EXCEPT !.answered = {session[s].key}]
    <2>1. Does(s, "answer", writes) /\ session[s].at = "answer"
      BY <1>2 DEF WriteAnswer, Does
    <2>2. session[s].kind = "answer" /\ Writes(s) \in WrittenRows
      BY <2>1, <1>b, AtAStatement
    <2>3. /\ writes.asked = Writes(s).asked /\ writes.version = Writes(s).version
          /\ writes.active = Writes(s).active /\ writes.answered = {session[s].key}
      BY <2>2 DEF WrittenRows
    <2> HIDE DEF writes
    <2> QED
      BY <2>1, <2>2, <2>3, DoingKeeps
  <1>3. CASE CountDecisions(s)
    <2>1. /\ db' = db /\ OnlyActs(s) /\ session[s].at = "count"
          /\ session'[s].at = Following(session[s].kind, "count", Writes(s).status)
          /\ session'[s].kind = session[s].kind     /\ session'[s].key = session[s].key
          /\ session'[s].locked = session[s].locked /\ session'[s].writes = session[s].writes
      BY <1>3, CountChanges
    <2>2. session[s].kind \in Kinds /\ "count" \in StatementsOf(session[s].kind)
      BY <2>1, AtAStatement
    <2>3. session'[s].at = "note"
      BY <2>1, <2>2, CountedIsNoted
    <2>4. Keeps(session[s])'
      BY <1>a, <2>1, <2>3, DraftStays DEF Keeps, Writes
    <2> QED
      BY <2>1, <2>4, KeepingIsEnough
  <1>4. CASE NoteDecision(s)
    <2> DEFINE writes == [Writes(s) EXCEPT !.number = session[s].number]
    <2>1. CASE Does(s, "note", writes)
      <3>1. session[s].at = "note" /\ session[s].number # 0
        BY <1>a, <2>1 DEF Does, TakesInOrder
      <3>2. session[s].kind \in {"answer", "reduce"}
        BY <3>1, AtAStatement, OnlyDecisionsAreNoted
      <3>3. /\ writes.asked = Writes(s).asked /\ writes.version = Writes(s).version
            /\ writes.active = Writes(s).active /\ writes.answered = Writes(s).answered
            /\ writes.number = session[s].number
        BY <3>1, AtAStatement DEF WrittenRows
      <3>4. session[s].kind = "answer" => Writes(s).answered = {session[s].key}
        BY <1>a, <3>1 DEF Keeps, Writes
      <3> HIDE DEF writes
      <3> QED
        BY <2>1, <3>1, <3>2, <3>3, <3>4, DoingKeeps
    <2> QED
      BY <1>4, <2>1, ClosingKeeps DEF NoteDecision
  <1>5. CASE CountOpenQuestions(s)
    <2>1. CASE Does(s, "left", Writes(s))
      BY <1>a, <1>b, <2>1, DoingKeeps DEF Does, Keeps, Writes
    <2>2. CASE session[s].at = "left" /\ session' = [session EXCEPT ![s].at = "commit"] /\ db' = db
      <3>1. session[s].kind = "answer"
        BY <1>b, <2>2
      <3>2. Keeps(session[s])'
        BY <1>a, <2>2, <3>1, MoveChanges, DraftStays DEF Keeps, Writes
      <3> QED
        BY <2>2, <3>2, MoveChanges, KeepingIsEnough
    <2> QED
      BY <1>5, <2>1, <2>2 DEF CountOpenQuestions
  <1>6. CASE Fire(s)
    <2>1. CASE Does(s, "fire", Writes(s))
      BY <1>a, <2>1, DoingKeeps DEF Does, Keeps, Writes
    <2>2. CASE /\ session[s].at = "fire" /\ db' = db
               /\ session' = [session EXCEPT ![s].at = "refused", ![s].writes.audit = {"GUARD_REJECTED"}]
      <3>1. session'[s].at = "refused"
        BY <2>2 DEF TInv, Typed, SessionRecords
      <3>2. /\ OnlyActs(s) /\ session'[s].kind = session[s].kind
            /\ session'[s].key = session[s].key /\ session'[s].locked = session[s].locked
            /\ session'[s].writes.number = Writes(s).number
            /\ session'[s].writes.answered = Writes(s).answered
            /\ Undrafted(session[s])' <=> Undrafted(session[s])
            /\ Follows(session[s])' <=> Follows(session[s])
        BY <2>2, MoveChanges, DraftStays
      <3>3. Keeps(session[s])'
        BY <1>a, <2>2, <3>1, <3>2 DEF Keeps, Writes
      <3> QED
        BY <2>2, <3>2, <3>3, KeepingIsEnough
    <2> QED
      BY <1>6, <2>1, <2>2 DEF Fire
  <1> QED
    BY <1>1, <1>2, <1>3, <1>4, <1>5, <1>6

\* The statement that locks the project; a reduced scope goes on to a draft.
LEMMA WriteStatusKeeps ==
    ASSUME TInv, Whole, NEW s \in Sessions, WriteStatus(s)
    PROVE  Whole'
  <1>1. PICK events \in Events[session[s].kind] :
           session' = [session EXCEPT
               ![s].at = Following(session[s].kind, "write", Moved(s, events).status),
               ![s].locked = TRUE,
               ![s].writes = Moved(s, events)]
    BY DEF WriteStatus
  <1>2. /\ db' = db /\ OnlyActs(s) /\ session[s].at = "write"
        /\ session'[s].kind = session[s].kind /\ session'[s].key = session[s].key
        /\ session'[s].locked
        /\ session'[s].writes.number = Writes(s).number
        /\ session'[s].writes.answered = Writes(s).answered
        /\ Undrafted(session[s])' <=> Undrafted(session[s])
        /\ Follows(session[s])' <=> Follows(session[s])
    BY WriteStatusChanges, DraftStays
  <1>3. session'[s].at = Following(session[s].kind, "write", Moved(s, events).status)
    BY <1>1 DEF TInv, Typed, SessionRecords
  <1>4. session[s].kind = "reduce" => session'[s].at = "draft"
    <2>1. /\ session[s].kind \in Kinds /\ session[s].seen = Expected[session[s].kind]
          /\ Writes(s) \in WrittenRows /\ Last(Statements[session[s].kind]) = "write"
      BY <1>2, AtAStatement, StatementsAreKnown
    <2>2. session[s].kind = "reduce" => Moved(s, events).status = "REQUIREMENT_DRAFTING"
      BY <2>1, ReductionAssumption DEF Moved, WrittenRows
    <2> QED
      BY <1>3, <2>1, <2>2 DEF Following
  <1>5. Keeps(session[s])
    BY DEF Whole
  <1>6. Keeps(session[s])'
    BY <1>2, <1>4, <1>5 DEF Keeps, Writes
  <1> QED
    BY <1>2, <1>6, KeepingIsEnough

\* A draft renews what comes and what goes, compared with the committed rows.
LEMMA DraftKeeps ==
    ASSUME TInv, Drafts, Whole, NEW s \in Sessions, Draft(s)
    PROVE  Whole'
  <1>1. PICK drafted \in SUBSET Requirements, changed \in SUBSET Requirements,
             asked \in SUBSET Questions :
           /\ changed \subseteq drafted
           /\ session' = [session EXCEPT
                ![s].at = "settle", ![s].writes = DraftWrites(s, drafted, changed, asked)]
    BY DEF Draft
  <1>2. session[s].at = "draft" /\ db' = db
    BY DEF Draft
  <1>3. /\ OnlyActs(s) /\ session'[s].at = "settle"
        /\ session'[s].kind = session[s].kind /\ session'[s].locked = session[s].locked
        /\ session'[s].key = session[s].key
        /\ session'[s].writes = DraftWrites(s, drafted, changed, asked)
    BY <1>1 DEF TInv, Typed, SessionRecords, OnlyActs
  <1>4. LET w == DraftWrites(s, drafted, changed, asked)
        IN  /\ w.number = Writes(s).number /\ w.answered = Writes(s).answered
            /\ w.active = drafted
            /\ w.version = [q \in Requirements |->
                    IF q \in Revised(drafted, changed) THEN db.version[q] + 1 ELSE 0]
    BY <1>2, AtAStatement DEF DraftWrites, WrittenRows
  <1>5. Renewed(session[s])' = Revised(drafted, changed)
    <2>1. \A q \in Requirements : db.version[q] \in Nat
      BY DEF TInv, Typed, Rows
    <2>2. \A q \in Requirements : session'[s].writes.version[q] # 0 <=> q \in Revised(drafted, changed)
      BY <1>3, <1>4, <2>1
    <2>3. Revised(drafted, changed) \subseteq Requirements
      BY DEF Revised
    <2> QED
      BY <2>2, <2>3 DEF Renewed
  <1>6. Follows(session[s])'
    <2>1. db.active \subseteq Requirements
      BY DEF TInv, Typed, Rows
    <2>2. session'[s].writes.active = drafted /\ db'.active = db.active
      BY <1>2, <1>3, <1>4
    <2> QED
      BY <1>1, <1>5, <2>1, <2>2 DEF Follows, Revised
  <1>7. session'[s].locked
    BY <1>2, <1>3 DEF Drafts, Holds
  <1>8. Keeps(session[s])
    BY DEF Whole
  <1>9. Keeps(session[s])'
    BY <1>2, <1>3, <1>4, <1>6, <1>7, <1>8 DEF Keeps, Writes
  <1> QED
    BY <1>2, <1>3, <1>9, KeepingIsEnough

LEMMA SettleKeeps ==
    ASSUME TInv, Whole, NEW s \in Sessions, Settle(s)
    PROVE  Whole'
  <1>1. /\ db' = db /\ OnlyActs(s) /\ session[s].at = "settle" /\ session'[s].at = "commit"
        /\ session'[s].kind = session[s].kind     /\ session'[s].key = session[s].key
        /\ session'[s].locked = session[s].locked
        /\ session'[s].writes.number = Writes(s).number
        /\ session'[s].writes.answered = Writes(s).answered
        /\ Undrafted(session[s])' <=> Undrafted(session[s])
        /\ Follows(session[s])' <=> Follows(session[s])
    BY SettleChanges, DraftStays
  <1>2. Keeps(session[s])
    BY DEF Whole
  <1>3. Keeps(session[s])'
    BY <1>1, <1>2 DEF Keeps, Writes
  <1> QED
    BY <1>1, <1>3, KeepingIsEnough

LEMMA RequestKeeps ==
    ASSUME TInv, Whole, NEW s \in Sessions, Request(s)
    PROVE  Whole'
  <1>1. /\ db' = db /\ OnlyActs(s) /\ session'[s].writes = NoWrites
        /\ session'[s].kind = "answer" => session'[s].at = "find"
        /\ session'[s].kind = "reduce" => session'[s].at = "count"
    BY LoadChanges
  <1>2. Keeps(session[s])'
    BY <1>1 DEF Keeps, Undrafted, Renewed, NoWrites
  <1> QED
    BY <1>1, <1>2, KeepingIsEnough

\* Only the session that has the lock commits a draft, and no other session has
\* drafted by then.
LEMMA CommitKeeps ==
    ASSUME TInv, Drafts, Whole, NEW s \in Sessions, Commit(s)
    PROVE  Whole'
  <1>1. OnlyActs(s) /\ session'[s] = Closed
    BY CloseChanges DEF Commit
  <1>2. db'.active = IF Drafted(s) THEN Writes(s).active ELSE db.active
    BY DEF Commit, TInv, Typed, Rows
  <1>3. Keeps(session[s])'
    BY <1>1 DEF Keeps, Undrafted, Renewed, Closed, NoWrites
  <1>4. CASE session[s].locked
    <2>1. ASSUME NEW o \in Sessions \ {s} PROVE Keeps(session[o])'
      <3>1. ~session[o].locked /\ session'[o] = session[o] /\ Keeps(session[o])
        BY <1>1, <1>4 DEF OnlyActs, Drafts, OneLock, Whole
      <3>2. Undrafted(session[o])
        BY <3>1 DEF Keeps
      <3>3. Undrafted(session[o])'
        BY <3>1, <3>2 DEF Undrafted, Renewed
      <3> QED
        BY <3>1, <3>3 DEF Keeps
    <2> QED
      BY <1>3, <2>1 DEF Whole
  <1>5. CASE ~session[s].locked
    <2>1. Undrafted(session[s])
      BY <1>5 DEF Whole, Keeps
    <2>2. ~Drafted(s)
      BY <2>1 DEF Drafted, Undrafted, Renewed, Writes
    <2> QED
      BY <1>1, <1>2, <1>3, <2>2, KeepingIsEnough
  <1> QED
    BY <1>4, <1>5

LEMMA NextKeepsWhole == TInv /\ Ordered /\ Drafts /\ Whole /\ [Next]_vars => Whole'
  <1> SUFFICES ASSUME TInv, Ordered, Drafts, Whole, [Next]_vars PROVE Whole'
    OBVIOUS
  <1>1. CASE UpdateIdea
    <2>1. session' = session /\ db'.active = db.active
      BY <1>1 DEF UpdateIdea, TInv, Typed, Rows
    <2> QED
      BY <2>1 DEF Whole, Keeps, Undrafted, Follows, Renewed
  <1>2. CASE UNCHANGED vars
    BY <1>2 DEF vars, Whole, Keeps, Undrafted, Follows, Renewed
  <1>3. ASSUME NEW s \in Sessions, RollBack(s) PROVE Whole'
    BY <1>3, ClosingKeeps DEF RollBack
  <1> QED
    BY <1>1, <1>2, <1>3, RequestKeeps, StatementsKeep, WriteStatusKeeps, DraftKeeps,
       SettleKeeps, CommitKeeps DEF Next

\* The rows a session commits: the next decision or none,
LEMMA CommitDecides ==
    ASSUME TInv, Numbered, NEW s \in Sessions, Commit(s)
    PROVE  IF Writes(s).number = 0 THEN db'.decisions = db.decisions ELSE Memory!Decided
  <1>1. db'.decisions = db.decisions \cup ({Writes(s).number} \ {0})
    BY DEF Commit, TInv, Typed, Rows
  <1>2. PICK n \in Nat : NumberedTo(n)
    BY DEF Numbered
  <1>3. db.decisions = 1..n /\ Writes(s).number \in {0, n + 1}
    BY <1>2 DEF NumberedTo
  <1>4. CASE Writes(s).number = 0
    BY <1>1, <1>4
  <1>5. CASE Writes(s).number # 0
    <2>1. db'.decisions = 1..(n + 1)
      BY <1>1, <1>3, <1>5
    <2>2. n \in db.decisions \cup {0}
      BY <1>3
    <2> QED
      BY <1>3, <1>5, <2>1, <2>2 DEF Memory!Decided
  <1> QED
    BY <1>4, <1>5

\* and the requirements of a draft that follows the committed ones, or none.
LEMMA CommitDrafts ==
    ASSUME TInv, Drafts, Whole, NEW s \in Sessions, Commit(s)
    PROVE  /\ Follows(session[s]) =>
                 Memory!Drafted(Writes(s).asked, Writes(s).active, Renewed(session[s]))
           /\ Undrafted(session[s]) => Memory!Undrafted
  <1>1. /\ db'.active = IF Drafted(s) THEN Writes(s).active ELSE db.active
        /\ db'.version = [q \in Requirements |->
               IF Writes(s).version[q] # 0 THEN Writes(s).version[q] ELSE db.version[q]]
    BY DEF Commit, TInv, Typed, Rows
  <1>2. /\ db.version \in [Requirements -> Nat] /\ db.active \subseteq Requirements
        /\ Writes(s).active \subseteq Requirements
    <2>1. Writes(s) \in WrittenRows
      BY AtAStatement DEF Commit
    <2> QED
      BY <2>1 DEF TInv, Typed, Rows, WrittenRows
  <1>3. ASSUME Follows(session[s])
        PROVE  Memory!Drafted(Writes(s).asked, Writes(s).active, Renewed(session[s]))
    <2>1. db'.active = Writes(s).active
      BY <1>1, <1>3 DEF Follows, Drafted, Renewed, Writes
    <2>2. /\ Writes(s).asked \cap (db.open \cup db.answered) = {}
          /\ \A q \in Requirements : Writes(s).version[q] \in {0, db.version[q] + 1}
      BY DEF Drafts, Holds, Known, Writes
    <2>3. db'.version = [q \in Requirements |->
              IF q \in Renewed(session[s]) THEN db.version[q] + 1 ELSE db.version[q]]
      BY <1>1, <1>2, <2>2 DEF Renewed, Writes
    <2> QED
      BY <1>3, <2>1, <2>2, <2>3 DEF Memory!Drafted, Follows, Writes
  <1>4. ASSUME Undrafted(session[s]) PROVE Memory!Undrafted
    <2>1. ~Drafted(s) /\ \A q \in Requirements : Writes(s).version[q] = 0
      BY <1>4 DEF Undrafted, Renewed, Drafted, Writes
    <2>2. db'.version = db.version
      BY <1>1, <1>2, <2>1
    <2> QED
      BY <1>1, <2>1, <2>2 DEF Memory!Undrafted
  <1> QED
    BY <1>3, <1>4

\* What a session commits is one request, and what others commit is in it
\* nowhere.
LEMMA CommitIsOneRequest ==
    ASSUME TInv, Numbered, Drafts, AllLeave, Whole, NEW s \in Sessions, Commit(s)
    PROVE  Memory!Next \/ UNCHANGED Memory!memory
  <1> DEFINE w == Writes(s)
  <1>1. /\ session[s].at = "commit"
        /\ session[s].kind \in Kinds
        /\ w \in WrittenRows
    BY AtAStatement DEF Commit
  <1>2. /\ w.asked \in SUBSET Questions /\ w.active \in SUBSET Requirements
        /\ Renewed(session[s]) \in SUBSET Requirements
    BY <1>1 DEF WrittenRows, Renewed
  <1>3. /\ db'.open = (db.open \cup w.asked) \ w.answered
        /\ db'.answered = db.answered \cup w.answered
    BY DEF Commit, OpenFor, AnsweredFor, TInv, Typed, Rows
  <1>4. Keeps(session[s]) /\ Leaves(s)
    BY DEF Whole, AllLeave
  <1>5. CASE session[s].kind = "answer"
    <2>1. w.answered = {session[s].key} /\ w.number # 0
      BY <1>1, <1>4, <1>5 DEF Keeps, Leaves, Noted, Writes
    <2>2. session[s].key \in db.open \cup db.answered /\ session[s].key \in Questions
      BY <1>1, <1>5, AnsweredIsKnown, AtAStatement DEF Known
    <2>3. Memory!Decided
      BY <2>1, CommitDecides
    <2>4. \/ Memory!Drafted(w.asked, w.active, Renewed(session[s]))
          \/ w.asked = {} /\ Memory!Undrafted
      BY <1>4, CommitDrafts DEF Keeps, Undrafted, Writes
    <2>5. Memory!Answer(session[s].key, w.asked, w.active, Renewed(session[s]))
      BY <1>3, <2>1, <2>2, <2>3, <2>4 DEF Memory!Answer
    <2> QED
      BY <1>2, <2>2, <2>5 DEF Memory!Next
  <1>6. CASE session[s].kind = "reduce"
    <2>1. w.answered = {} /\ w.number # 0 /\ Follows(session[s])
      BY <1>1, <1>4, <1>6 DEF Keeps, Leaves, Writes
    <2>2. Memory!ReduceScope(w.asked, w.active, Renewed(session[s]))
      BY <1>3, <2>1, CommitDecides, CommitDrafts DEF Memory!ReduceScope
    <2> QED
      BY <1>2, <2>2 DEF Memory!Next
  <1>7. CASE session[s].kind \notin {"answer", "reduce"}
    <2>1. w.answered = {} /\ w.number = 0
      BY <1>4, <1>7 DEF Keeps, Leaves, Writes
    <2>2. db'.decisions = db.decisions
      BY <2>1, CommitDecides
    <2>3. CASE Undrafted(session[s])
      <3>1. w.asked = {}
        BY <2>3 DEF Undrafted, Writes
      <3> QED
        BY <1>3, <2>1, <2>2, <2>3, <3>1, CommitDrafts DEF Memory!Undrafted, Memory!memory, TInv, Typed
    <2>4. CASE Follows(session[s])
      <3>1. Memory!Redraft(w.asked, w.active, Renewed(session[s]))
        BY <1>3, <2>1, <2>2, <2>4, CommitDrafts DEF Memory!Redraft
      <3> QED
        BY <1>2, <3>1 DEF Memory!Next
    <2> QED
      BY <1>4, <2>3, <2>4 DEF Keeps
  <1> QED
    BY <1>5, <1>6, <1>7

\* No other step changes what is remembered.
LEMMA StepIsOneRequest ==
    TInv /\ Numbered /\ Drafts /\ AllLeave /\ Whole /\ [Next]_vars
        => [Memory!Next]_(Memory!memory)
  <1> SUFFICES ASSUME TInv, Numbered, Drafts, AllLeave, Whole, [Next]_vars
               PROVE  Memory!Next \/ UNCHANGED Memory!memory
    OBVIOUS
  <1>1. CASE UpdateIdea
    BY <1>1 DEF UpdateIdea, Memory!memory, TInv, Typed, Rows
  <1>2. CASE UNCHANGED db
    BY <1>2 DEF Memory!memory
  <1>3. ASSUME NEW s \in Sessions,
               \/ Request(s)
               \/ FindQuestion(s) \/ WriteAnswer(s) \/ CountDecisions(s) \/ NoteDecision(s)
               \/ CountOpenQuestions(s) \/ Fire(s) \/ WriteStatus(s) \/ Draft(s) \/ Settle(s)
               \/ RollBack(s)
        PROVE  UNCHANGED db
    BY <1>3 DEF Request, Load, FindQuestion, WriteAnswer, CountDecisions, NoteDecision,
       CountOpenQuestions, Fire, WriteStatus, Draft, Settle, RollBack, Does
  <1> QED
    BY <1>1, <1>2, <1>3, CommitIsOneRequest DEF Next, vars

\* Whatever sessions of a project overlap, its decisions, questions and
\* requirements change as if requests came one at a time: ConcurrentRequests
\* implements ProjectMemory (DecisionLog.add, RequirementStore.sync,
\* _upsert_questions).
THEOREM ImplementsProjectMemory == Spec => MemoryIsSequential
  <1>1. Init => /\ Memory!Init
                /\ AllLeave /\ Drafts /\ Ordered /\ Whole
    <2> SUFFICES ASSUME Init
                 PROVE  Memory!Init /\ AllLeave /\ Drafts /\ Ordered /\ Whole
      OBVIOUS
    <2> USE DEF Init, NewProject, Closed, NoWrites
    <2>1. Memory!Init
      BY DEF Memory!Init
    <2>2. AllLeave
      BY DEF AllLeave, NeverStranded, Leaves, Writes, Noted
    <2>3. Drafts
      BY DEF Drafts, OneLock, Holds, Known
    <2>4. Ordered
      BY DEF Ordered, TakesInOrder
    <2>5. Whole
      BY DEF Whole, Keeps, Undrafted, Renewed
    <2> QED
      BY <2>1, <2>2, <2>3, <2>4, <2>5
  <1>2. Memory!Init /\ [][Memory!Next]_(Memory!memory) => Memory!Spec
    BY DEF Memory!Spec
  <1> QED
    BY <1>1, <1>2, InitTyped, NextTyped, InitNumbered, NextNumbered, NextHolds, NextLeaves,
       NextInOrder, NextKeepsWhole, StepIsOneRequest, PTL DEF Spec, MemoryIsSequential
=============================================================================
