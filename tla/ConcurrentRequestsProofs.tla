---------------------- MODULE ConcurrentRequestsProofs ----------------------
(***************************************************************************)
(* What concurrent requests of one project keep, for any number of         *)
(* sessions, questions and requirements: decisions are numbered without    *)
(* gaps, and every draft is built on the committed rows.                   *)
(***************************************************************************)
EXTENDS ConcurrentRequests, FiniteSetTheorems, TLAPS

Kinds == DOMAIN Expected

StatementsOf(kind) == {Statements[kind][i] : i \in DOMAIN Statements[kind]}

\* The places of a request that is served.
PlacesOf(kind) == StatementsOf(kind) \cup {"draft", "settle", "commit", "refused"}

(***************************************************************************)
(* The statements of a request                                             *)
(***************************************************************************)

\* Every request ends its statements with the write of the status, and no
\* statement is a part of a draft.
LEMMA StatementsAreKnown ==
    ASSUME NEW kind \in Kinds
    PROVE  /\ Statements[kind] \in Seq(Places)
           /\ Len(Statements[kind]) > 0
           /\ Last(Statements[kind]) = "write"
           /\ StatementsOf(kind) \cap {"closed", "draft", "settle", "commit", "refused"} = {}
           /\ StatementsOf(kind) \subseteq Places
           /\ Statements[kind][1] \in StatementsOf(kind)
           /\ "answer" \in StatementsOf(kind) => kind = "answer"
  <1>1. kind \in {"analyze", "answer", "approve", "change", "reduce", "stop"}
    BY DEF Kinds, Expected
  <1>2. CASE kind = "analyze"
    BY <1>2 DEF Statements, StatementsOf, Last, Places
  <1>3. CASE kind = "approve"
    BY <1>3 DEF Statements, StatementsOf, Last, Places
  <1>4. CASE kind = "change"
    BY <1>4 DEF Statements, StatementsOf, Last, Places
  <1>5. CASE kind = "stop"
    BY <1>5 DEF Statements, StatementsOf, Last, Places
  <1>6. CASE kind = "answer"
    BY <1>6 DEF Statements, StatementsOf, Last, Places
  <1>7. CASE kind = "reduce"
    BY <1>7 DEF Statements, StatementsOf, Last, Places
  <1> QED
    BY <1>1, <1>2, <1>3, <1>4, <1>5, <1>6, <1>7

\* Before the last statement, a statement follows; after it a draft does, if
\* the status calls for one.
LEMMA FollowingIsAPlace ==
    ASSUME NEW kind \in Kinds, NEW at \in StatementsOf(kind), NEW status
    PROVE  /\ at # "write" => Following(kind, at, status) \in StatementsOf(kind)
           /\ Following(kind, at, status) = "draft" => status = "REQUIREMENT_DRAFTING"
           /\ Following(kind, at, status) \in StatementsOf(kind) \cup {"draft", "commit"}
  <1> DEFINE program == Statements[kind]
  <1>1. PICK n \in DOMAIN program : program[n] = at
    BY DEF StatementsOf
  <1>2. CASE at = Last(program)
    BY <1>2, StatementsAreKnown DEF Following
  <1>3. CASE at # Last(program)
    <2> DEFINE i == CHOOSE m \in DOMAIN program : program[m] = at
    <2>1. i \in DOMAIN program /\ program[i] = at
      BY <1>1
    <2>2. program \in Seq(Places) /\ program[i] # program[Len(program)]
      BY <1>3, <2>1, StatementsAreKnown DEF Last
    <2>3. i + 1 \in DOMAIN program
      <3> HIDE DEF i, program
      <3> QED BY <2>1, <2>2
    <2>4. Following(kind, at, status) = program[i + 1]
      BY <1>3 DEF Following
    <2>5. program[i + 1] \in StatementsOf(kind)
      BY <2>3 DEF StatementsOf
    <2> QED
      BY <2>4, <2>5, StatementsAreKnown
  <1> QED
    BY <1>2, <1>3

(***************************************************************************)
(* Types, and where a session may be                                       *)
(***************************************************************************)

Typed == db \in Rows /\ IsFiniteSet(db.decisions) /\ session \in [Sessions -> SessionRecords]

\* A session serves nothing and holds nothing, or it is at a place of its
\* request, which began in the status it asks for; a draft is under way only
\* in the state of drafting.
InPlace(s) ==
    \/ session[s] = Closed
    \/ /\ session[s].kind \in Kinds
       /\ session[s].at \in PlacesOf(session[s].kind)
       /\ session[s].seen = Expected[session[s].kind]
       /\ session[s].kind = "answer" => session[s].key \in Questions
       /\ session[s].at \in {"draft", "settle"} => Writes(s).status = "REQUIREMENT_DRAFTING"

TInv == Typed /\ \A s \in Sessions : InPlace(s)

LEMMA ClosedIsTyped == Closed \in SessionRecords
  BY DEF Closed, NoWrites, SessionRecords, WrittenRows, Places, Kinds, AuditKinds

LEMMA InitTyped == Init => TInv
  <1>1. "IDEA_RECEIVED" \in ProjectStates
    BY EventAssumption DEF Expected
  <1> QED
    BY <1>1, ClosedIsTyped, FS_EmptySet DEF Init, NewProject, Rows, TInv, Typed, InPlace

\* The end of a request.
LEMMA CloseKeepsTypes ==
    ASSUME TInv, NEW s \in Sessions, Close(s), db' \in Rows, IsFiniteSet(db'.decisions)
    PROVE  TInv'
  BY ClosedIsTyped DEF Close, TInv, Typed, InPlace, Writes

\* A session's record is replaced by another one that is in place.
LEMMA RecordKeepsTypes ==
    ASSUME TInv, NEW s \in Sessions, NEW record \in SessionRecords, db' = db,
           session' = [session EXCEPT ![s] = record],
           record.kind \in Kinds, record.at \in PlacesOf(record.kind),
           record.seen = Expected[record.kind],
           record.kind = "answer" => record.key \in Questions,
           record.at \in {"draft", "settle"} => record.writes.status = "REQUIREMENT_DRAFTING"
    PROVE  TInv'
  BY DEF TInv, Typed, InPlace, Writes

\* A session at a statement serves a request of which it is a part.
LEMMA AtAStatement ==
    ASSUME TInv, NEW s \in Sessions, session[s].at # "closed"
    PROVE  /\ session[s].kind \in Kinds
           /\ session[s].at \in PlacesOf(session[s].kind)
           /\ session[s].seen = Expected[session[s].kind]
           /\ session[s].seen \in ProjectStates
           /\ session[s].kind = "answer" => session[s].key \in Questions
           /\ session[s].at \notin {"draft", "settle", "commit", "refused"} =>
                 session[s].at \in StatementsOf(session[s].kind)
           /\ Writes(s) \in WrittenRows
  BY EventAssumption
  DEF TInv, Typed, InPlace, Closed, PlacesOf, Kinds, SessionRecords, Writes

\* The record of a session changes, but not what its request is.
LEMMA ChangeKeepsTypes ==
    ASSUME TInv, NEW s \in Sessions, session[s].at # "closed", db' = db,
           NEW record \in SessionRecords, session' = [session EXCEPT ![s] = record],
           record.kind = session[s].kind, record.seen = session[s].seen,
           record.key = session[s].key, record.at \in PlacesOf(record.kind),
           record.at \in {"draft", "settle"} => record.writes.status = "REQUIREMENT_DRAFTING"
    PROVE  TInv'
  <1>1. /\ session[s].kind \in Kinds /\ session[s].seen = Expected[session[s].kind]
        /\ session[s].kind = "answer" => session[s].key \in Questions
    BY AtAStatement
  <1> QED
    BY <1>1, RecordKeepsTypes

LEMMA DoesKeepsTypes ==
    ASSUME TInv, NEW s \in Sessions, NEW statement \in StatementsOf(session[s].kind),
           NEW writes \in WrittenRows, Does(s, statement, writes), statement # "closed"
    PROVE  TInv'
  <1> DEFINE next == Following(session[s].kind, statement, writes.status)
             record == [session[s] EXCEPT !.at = next, !.writes = writes]
  <1>1. session[s].at = statement /\ session' = [session EXCEPT ![s] = record] /\ db' = db
    BY DEF Does, TInv, Typed
  <1>2. session[s].kind \in Kinds /\ session[s].at # "closed"
    BY <1>1, AtAStatement
  <1>3. /\ next \in StatementsOf(session[s].kind) \cup {"draft", "commit"}
        /\ next = "draft" => writes.status = "REQUIREMENT_DRAFTING"
    BY <1>2, FollowingIsAPlace
  <1>4. next \in Places /\ next # "settle"
    BY <1>2, <1>3, StatementsAreKnown DEF Places
  <1>5. record \in SessionRecords
    BY <1>4 DEF TInv, Typed, SessionRecords
  <1>6. /\ record.kind = session[s].kind /\ record.at = next /\ record.seen = session[s].seen
        /\ record.writes = writes /\ record.key = session[s].key
    BY DEF TInv, Typed, SessionRecords
  <1> HIDE DEF record, next
  <1> QED
    BY <1>1, <1>2, <1>3, <1>4, <1>5, <1>6, ChangeKeepsTypes DEF PlacesOf

\* Nothing but the place of the session changes.
LEMMA MoveKeepsTypes ==
    ASSUME TInv, NEW s \in Sessions, session[s].at # "closed",
           session' = [session EXCEPT ![s].at = "commit"], db' = db
    PROVE  TInv'
  <1> DEFINE record == [session[s] EXCEPT !.at = "commit"]
  <1>1. record \in SessionRecords /\ session' = [session EXCEPT ![s] = record]
    BY DEF TInv, Typed, SessionRecords, Places
  <1>2. /\ record.kind = session[s].kind /\ record.at = "commit" /\ record.seen = session[s].seen
        /\ record.key = session[s].key
    BY DEF TInv, Typed, SessionRecords
  <1> HIDE DEF record
  <1> QED
    BY <1>1, <1>2, ChangeKeepsTypes DEF PlacesOf

LEMMA LoadKeepsTypes ==
    ASSUME TInv, NEW s \in Sessions, Request(s)
    PROVE  TInv'
  <1>1. PICK kind \in Kinds, key \in Questions \cup {NoQuestion} :
           Load(s, kind, key) /\ (kind = "answer" => key \in Questions)
    BY DEF Request, Kinds, Expected
  <1> DEFINE record == [Closed EXCEPT !.at = Statements[kind][1], !.kind = kind,
                                      !.key = key, !.seen = db.status]
  <1>2. session' = [session EXCEPT ![s] = record] /\ db' = db /\ db.status = Expected[kind]
    BY <1>1 DEF Load
  <1>3. Statements[kind][1] \in StatementsOf(kind) /\ Statements[kind][1] \in Places
        /\ Statements[kind][1] \notin {"draft", "settle"}
    BY StatementsAreKnown
  <1>4. /\ record \in SessionRecords /\ record.kind = kind /\ record.seen = db.status
        /\ record.at = Statements[kind][1] /\ record.key = key
    <2>1. Closed \in SessionRecords
      BY ClosedIsTyped
    <2> QED
      BY <1>3, <2>1 DEF SessionRecords, Kinds, TInv, Typed, Rows
  <1> HIDE DEF record
  <1> QED
    BY <1>1, <1>2, <1>3, <1>4, RecordKeepsTypes DEF PlacesOf

\* Statements that write no row but those of the session.
LEMMA StatementsKeepTypes ==
    ASSUME TInv, NEW s \in Sessions,
           FindQuestion(s) \/ WriteAnswer(s) \/ NoteDecision(s) \/ CountOpenQuestions(s)
           \/ CountDecisions(s)
    PROVE  TInv'
  <1>1. CASE FindQuestion(s)
    <2>1. CASE Does(s, "find", Writes(s))
      BY <2>1, AtAStatement, DoesKeepsTypes DEF Does
    <2>2. CASE Close(s) /\ UNCHANGED db
      BY <2>2, CloseKeepsTypes DEF TInv, Typed
    <2> QED
      BY <1>1, <2>1, <2>2 DEF FindQuestion
  <1>2. CASE WriteAnswer(s)
    <2> DEFINE writes == [Writes(s) EXCEPT !.answered = {session[s].key}]
    <2>1. Does(s, "answer", writes) /\ session[s].at = "answer"
      BY <1>2 DEF WriteAnswer, Does
    <2>2. session[s].key \in Questions
      BY <2>1, AtAStatement, StatementsAreKnown
    <2>3. writes \in WrittenRows
      BY <2>1, <2>2, AtAStatement DEF WrittenRows
    <2> QED
      BY <2>1, <2>3, AtAStatement, DoesKeepsTypes
  <1>3. CASE NoteDecision(s)
    <2> DEFINE writes == [Writes(s) EXCEPT !.number = session[s].number]
    <2>1. CASE Does(s, "note", writes)
      <3>1. session[s].at = "note" /\ session[s].number \in Nat
        BY <2>1 DEF Does, TInv, Typed, SessionRecords
      <3>2. writes \in WrittenRows
        BY <3>1, AtAStatement DEF WrittenRows
      <3> QED
        BY <2>1, <3>1, <3>2, AtAStatement, DoesKeepsTypes
    <2>2. CASE Close(s) /\ UNCHANGED db
      BY <2>2, CloseKeepsTypes DEF TInv, Typed
    <2> QED
      BY <1>3, <2>1, <2>2 DEF NoteDecision
  <1>4. CASE CountOpenQuestions(s)
    <2>1. CASE Does(s, "left", Writes(s))
      BY <2>1, AtAStatement, DoesKeepsTypes DEF Does
    <2>2. CASE session[s].at = "left" /\ session' = [session EXCEPT ![s].at = "commit"] /\ db' = db
      BY <2>2, MoveKeepsTypes
    <2> QED
      BY <1>4, <2>1, <2>2 DEF CountOpenQuestions
  <1>5. CASE CountDecisions(s)
    <2> DEFINE next == Following(session[s].kind, "count", Writes(s).status)
               record == [session[s] EXCEPT !.at = next, !.number = CountedFor(s) + 1]
    <2>1. session[s].at = "count" /\ session' = [session EXCEPT ![s] = record] /\ db' = db
      BY <1>5 DEF CountDecisions, TInv, Typed
    <2>2. next \in StatementsOf(session[s].kind) /\ next \in Places /\ next \notin {"draft", "settle"}
      BY <2>1, AtAStatement, FollowingIsAPlace, StatementsAreKnown
    <2>3. CountedFor(s) + 1 \in Nat
      BY FS_CardinalityType DEF CountedFor, TInv, Typed
    <2>4. record \in SessionRecords
      BY <2>2, <2>3 DEF TInv, Typed, SessionRecords
    <2>5. /\ record.kind = session[s].kind /\ record.at = next /\ record.seen = session[s].seen
          /\ record.key = session[s].key
      BY DEF TInv, Typed, SessionRecords
    <2> HIDE DEF record, next
    <2> QED
      BY <2>1, <2>2, <2>4, <2>5, ChangeKeepsTypes DEF PlacesOf
  <1> QED
    BY <1>1, <1>2, <1>3, <1>4, <1>5

\* Firing: the events lead from the status the request asks for to a state.
LEMMA MovedIsTyped ==
    ASSUME TInv, NEW s \in Sessions, session[s].at # "closed", NEW events \in Events[session[s].kind]
    PROVE  Moved(s, events) \in WrittenRows
  <1>1. After(session[s].seen, events) \in ProjectStates
    BY AtAStatement, EventAssumption DEF Kinds
  <1>2. {"STATE_TRANSITION"} \in SUBSET AuditKinds
    BY DEF AuditKinds
  <1> QED
    BY <1>1, <1>2, AtAStatement DEF Moved, WrittenRows

LEMMA FiringKeepsTypes ==
    ASSUME TInv, NEW s \in Sessions, Fire(s) \/ WriteStatus(s)
    PROVE  TInv'
  <1>1. CASE Fire(s)
    <2>1. CASE Does(s, "fire", Writes(s))
      BY <2>1, AtAStatement, DoesKeepsTypes DEF Does
    <2>2. CASE /\ session[s].at = "fire" /\ db' = db
               /\ session' = [session EXCEPT ![s].at = "refused", ![s].writes.audit = {"GUARD_REJECTED"}]
      <3> DEFINE writes == [Writes(s) EXCEPT !.audit = {"GUARD_REJECTED"}]
                 record == [session[s] EXCEPT !.at = "refused", !.writes = writes]
      <3>1. writes \in WrittenRows
        BY <2>2, AtAStatement DEF WrittenRows, AuditKinds
      <3>2. record \in SessionRecords
        BY <3>1 DEF TInv, Typed, SessionRecords, Places
      <3>3. session' = [session EXCEPT ![s] = record]
        BY <2>2 DEF TInv, Typed, SessionRecords, WrittenRows, Writes
      <3>4. /\ record.kind = session[s].kind /\ record.at = "refused"
            /\ record.seen = session[s].seen /\ record.key = session[s].key
        BY DEF TInv, Typed, SessionRecords
      <3> HIDE DEF record
      <3> QED
        BY <2>2, <3>2, <3>3, <3>4, ChangeKeepsTypes DEF PlacesOf
    <2> QED
      BY <1>1, <2>1, <2>2 DEF Fire
  <1>2. CASE WriteStatus(s)
    <2>1. PICK events \in Events[session[s].kind] :
             session' = [session EXCEPT
                 ![s].at = Following(session[s].kind, "write", Moved(s, events).status),
                 ![s].locked = TRUE,
                 ![s].writes = Moved(s, events)]
      BY <1>2 DEF WriteStatus
    <2> DEFINE writes == Moved(s, events)
               next == Following(session[s].kind, "write", writes.status)
               record == [session[s] EXCEPT !.at = next, !.locked = TRUE, !.writes = writes]
    <2>2. session[s].at = "write" /\ db' = db
      BY <1>2 DEF WriteStatus
    <2>3. /\ next \in StatementsOf(session[s].kind) \cup {"draft", "commit"}
          /\ next = "draft" => writes.status = "REQUIREMENT_DRAFTING"
      BY <2>2, AtAStatement, FollowingIsAPlace
    <2>4. next \in Places /\ next # "settle"
      BY <2>2, <2>3, AtAStatement, StatementsAreKnown DEF Places
    <2>5. writes \in WrittenRows
      BY <2>2, MovedIsTyped
    <2> HIDE DEF writes, next
    <2>6. record \in SessionRecords
      BY <2>4, <2>5 DEF TInv, Typed, SessionRecords
    <2>7. session' = [session EXCEPT ![s] = record]
      BY <2>1 DEF TInv, Typed, next, writes
    <2>8. /\ record.kind = session[s].kind /\ record.at = next /\ record.writes = writes
          /\ record.seen = session[s].seen /\ record.key = session[s].key
      BY DEF TInv, Typed, SessionRecords
    <2> HIDE DEF record
    <2> QED
      BY <2>2, <2>3, <2>4, <2>6, <2>7, <2>8, ChangeKeepsTypes DEF PlacesOf
  <1> QED
    BY <1>1, <1>2

LEMMA DraftingKeepsTypes ==
    ASSUME TInv, NEW s \in Sessions, Draft(s) \/ Settle(s)
    PROVE  TInv'
  <1>1. CASE Draft(s)
    <2>1. PICK drafted \in SUBSET Requirements, changed \in SUBSET Requirements,
               asked \in SUBSET Questions :
             session' = [session EXCEPT
                ![s].at = "settle", ![s].writes = DraftWrites(s, drafted, changed, asked)]
      BY <1>1 DEF Draft
    <2> DEFINE writes == DraftWrites(s, drafted, changed, asked)
               record == [session[s] EXCEPT !.at = "settle", !.writes = writes]
    <2>2. session[s].at = "draft" /\ db' = db
      BY <1>1 DEF Draft
    <2>3. Writes(s) \in WrittenRows /\ Writes(s).status = "REQUIREMENT_DRAFTING"
      <3>1. Writes(s) \in WrittenRows
        BY <2>2, AtAStatement
      <3>2. session[s] # Closed
        BY <2>2 DEF Closed
      <3> QED
        BY <2>2, <3>1, <3>2 DEF TInv, InPlace
    <2>4. writes \in WrittenRows /\ writes.status = "REQUIREMENT_DRAFTING"
      <3> DEFINE version == [r \in Requirements |->
                   IF r \in Revised(drafted, changed) THEN db.version[r] + 1 ELSE 0]
      <3>1. version \in [Requirements -> Nat]
        BY DEF TInv, Typed, Rows
      <3>2. writes = [Writes(s) EXCEPT !.asked = asked, !.active = drafted, !.version = version]
        BY DEF DraftWrites
      <3> HIDE DEF version, writes
      <3> QED
        BY <2>3, <3>1, <3>2 DEF WrittenRows
    <2> HIDE DEF writes
    <2>5. session' = [session EXCEPT ![s] = record]
      BY <2>1 DEF TInv, Typed, writes
    <2>6. record \in SessionRecords
      BY <2>4 DEF TInv, Typed, SessionRecords, Places
    <2>7. /\ record.kind = session[s].kind /\ record.at = "settle" /\ record.writes = writes
          /\ record.seen = session[s].seen /\ record.key = session[s].key
      BY DEF TInv, Typed, SessionRecords
    <2> HIDE DEF record
    <2> QED
      BY <2>2, <2>4, <2>5, <2>6, <2>7, ChangeKeepsTypes DEF PlacesOf
  <1>2. CASE Settle(s)
    <2> DEFINE event == IF OpenFor(s) # {} THEN "DRAFT_HAS_UNKNOWNS" ELSE "DRAFT_COMPLETED"
               writes == [Writes(s) EXCEPT !.status = Row(Writes(s).status, event).target]
               record == [session[s] EXCEPT !.at = "commit", !.writes = writes]
    <2>1. session[s].at = "settle" /\ db' = db /\ Writes(s).status = "REQUIREMENT_DRAFTING"
      BY <1>2 DEF Settle, TInv, InPlace, Closed
    <2>2. writes \in WrittenRows
      BY <2>1, AtAStatement, EventAssumption DEF WrittenRows
    <2>3. session' = [session EXCEPT ![s] = record]
      BY <1>2 DEF Settle, TInv, Typed, SessionRecords, WrittenRows, Writes
    <2> HIDE DEF writes
    <2>4. record \in SessionRecords
      BY <2>2 DEF TInv, Typed, SessionRecords, Places
    <2>5. /\ record.kind = session[s].kind /\ record.at = "commit"
          /\ record.seen = session[s].seen /\ record.key = session[s].key
      BY DEF TInv, Typed, SessionRecords
    <2> HIDE DEF record
    <2> QED
      BY <2>1, <2>3, <2>4, <2>5, ChangeKeepsTypes DEF PlacesOf
  <1> QED
    BY <1>1, <1>2

LEMMA CommitKeepsTypes ==
    ASSUME TInv, NEW s \in Sessions, Commit(s)
    PROVE  TInv'
  <1>1. Writes(s) \in WrittenRows /\ Close(s)
    BY AtAStatement DEF Commit
  <1>2. db' \in Rows
    BY <1>1 DEF Commit, TInv, Typed, Rows, WrittenRows, OpenFor, AnsweredFor, NoWrites
  <1>3. IsFiniteSet(db'.decisions)
    <2>1. db'.decisions = db.decisions \cup ({Writes(s).number} \ {0})
      BY DEF Commit, TInv, Typed, Rows
    <2>2. IsFiniteSet({Writes(s).number})
      BY FS_Singleton
    <2>3. IsFiniteSet({Writes(s).number} \ {0})
      BY <2>2, FS_Subset, {Writes(s).number} \ {0} \in SUBSET {Writes(s).number}
    <2>4. IsFiniteSet(db.decisions)
      BY DEF TInv, Typed
    <2>5. IsFiniteSet(db.decisions \cup ({Writes(s).number} \ {0}))
      BY <2>3, <2>4, FS_Union
    <2> QED
      BY <2>1, <2>5
  <1> QED
    BY <1>1, <1>2, <1>3, CloseKeepsTypes

LEMMA NextTyped == TInv /\ [Next]_vars => TInv'
  <1> SUFFICES ASSUME TInv, [Next]_vars PROVE TInv'
    OBVIOUS
  <1>1. CASE UpdateIdea
    BY <1>1 DEF UpdateIdea, TInv, Typed, InPlace, Rows, Writes
  <1>2. ASSUME NEW s \in Sessions, RollBack(s) PROVE TInv'
    BY <1>2, CloseKeepsTypes DEF RollBack, TInv, Typed
  <1>3. CASE UNCHANGED vars
    BY <1>3 DEF vars, TInv, Typed, InPlace, Writes
  <1> QED
    BY <1>1, <1>2, <1>3, LoadKeepsTypes, StatementsKeepTypes, FiringKeepsTypes,
       DraftingKeepsTypes, CommitKeepsTypes DEF Next

\* Rows and sessions have their types, and a session that serves nothing holds
\* nothing (app/db/session.py).
THEOREM TypeCorrect == Spec => []TypeOK
  <1>1. TInv => TypeOK
    BY StatementsAreKnown DEF TInv, Typed, InPlace, TypeOK, PlacesOf
  <1> QED
    BY <1>1, InitTyped, NextTyped, PTL DEF Spec

(***************************************************************************)
(* What the actions of a session leave alone                               *)
(***************************************************************************)

OnlyActs(s) == \A o \in Sessions \ {s} : session'[o] = session[o]

\* A statement gives a session another place and other writes, no more.
LEMMA DoesChanges ==
    ASSUME TInv, NEW s \in Sessions, NEW statement, NEW writes, Does(s, statement, writes)
    PROVE  /\ db' = db /\ OnlyActs(s) /\ session[s].at = statement
           /\ session'[s].at = Following(session[s].kind, statement, writes.status)
           /\ session'[s].kind = session[s].kind     /\ session'[s].key = session[s].key
           /\ session'[s].number = session[s].number /\ session'[s].locked = session[s].locked
           /\ session'[s].writes = writes
  BY DEF Does, TInv, Typed, SessionRecords, OnlyActs

LEMMA CloseChanges ==
    ASSUME TInv, NEW s \in Sessions, Close(s)
    PROVE  OnlyActs(s) /\ session'[s] = Closed
  BY DEF Close, TInv, Typed, OnlyActs

LEMMA LoadChanges ==
    ASSUME TInv, NEW s \in Sessions, Request(s)
    PROVE  /\ db' = db /\ OnlyActs(s) /\ session'[s].writes = NoWrites
           /\ session'[s].number = 0  /\ ~session'[s].locked
           /\ session'[s].at \notin {"draft", "settle"}
           /\ session'[s].kind = "answer" => session'[s].at = "find"
           /\ session'[s].kind = "reduce" => session'[s].at = "count"
  <1>1. PICK kind \in Kinds, key \in Questions \cup {NoQuestion} : Load(s, kind, key)
    BY DEF Request, Kinds, Expected
  <1>2. session'[s] = [Closed EXCEPT !.at = Statements[kind][1], !.kind = kind,
                                     !.key = key, !.seen = db.status]
    BY <1>1 DEF Load, TInv, Typed
  <1>3. Statements[kind][1] \notin {"draft", "settle"}
    BY StatementsAreKnown
  <1>4. Statements["answer"][1] = "find" /\ Statements["reduce"][1] = "count"
    BY DEF Statements
  <1> QED
    BY <1>1, <1>2, <1>3, <1>4 DEF Load, TInv, Typed, OnlyActs, Closed

LEMMA CountChanges ==
    ASSUME TInv, NEW s \in Sessions, CountDecisions(s)
    PROVE  /\ db' = db /\ OnlyActs(s) /\ session[s].at = "count"
           /\ session'[s].at = Following(session[s].kind, "count", Writes(s).status)
           /\ session'[s].kind = session[s].kind     /\ session'[s].key = session[s].key
           /\ session'[s].number = CountedFor(s) + 1 /\ session'[s].locked = session[s].locked
           /\ session'[s].writes = session[s].writes
  BY DEF CountDecisions, TInv, Typed, SessionRecords, OnlyActs

\* Two statements end with the session somewhere else, and a refusal is noted.
LEMMA MoveChanges ==
    ASSUME TInv, NEW s \in Sessions,
           \/ session[s].at = "left" /\ session' = [session EXCEPT ![s].at = "commit"]
           \/ /\ session[s].at = "fire"
              /\ session' = [session EXCEPT ![s].at = "refused", ![s].writes.audit = {"GUARD_REJECTED"}]
    PROVE  /\ OnlyActs(s) /\ session'[s].at \in {"commit", "refused"}
           /\ session[s].at \in {"left", "fire"}
           /\ session'[s].kind = session[s].kind     /\ session'[s].key = session[s].key
           /\ session'[s].number = session[s].number /\ session'[s].locked = session[s].locked
           /\ session'[s].writes.number = Writes(s).number
           /\ session'[s].writes.asked = Writes(s).asked
           /\ session'[s].writes.answered = Writes(s).answered
           /\ session'[s].writes.version = Writes(s).version
           /\ session'[s].writes.active = Writes(s).active
  BY DEF TInv, Typed, SessionRecords, WrittenRows, OnlyActs, Writes

LEMMA WriteStatusChanges ==
    ASSUME TInv, NEW s \in Sessions, WriteStatus(s)
    PROVE  /\ db' = db /\ OnlyActs(s) /\ session[s].at = "write"
           /\ session'[s].kind = session[s].kind     /\ session'[s].key = session[s].key
           /\ session'[s].number = session[s].number /\ session'[s].locked
           /\ session'[s].writes.number = Writes(s).number
           /\ session'[s].writes.asked = Writes(s).asked
           /\ session'[s].writes.answered = Writes(s).answered
           /\ session'[s].writes.version = Writes(s).version
           /\ session'[s].writes.active = Writes(s).active
  <1>1. PICK events \in Events[session[s].kind] :
           session' = [session EXCEPT
               ![s].at = Following(session[s].kind, "write", Moved(s, events).status),
               ![s].locked = TRUE,
               ![s].writes = Moved(s, events)]
    BY DEF WriteStatus
  <1>2. session[s].at = "write" /\ db' = db
    BY DEF WriteStatus
  <1>3. Writes(s) \in WrittenRows
    BY <1>2, AtAStatement
  <1>4. /\ OnlyActs(s)
        /\ session'[s].kind = session[s].kind     /\ session'[s].key = session[s].key
        /\ session'[s].number = session[s].number /\ session'[s].locked
        /\ session'[s].writes = Moved(s, events)
    BY <1>1 DEF TInv, Typed, SessionRecords, OnlyActs
  <1> QED
    BY <1>2, <1>3, <1>4 DEF Moved, WrittenRows

LEMMA DraftChanges ==
    ASSUME TInv, NEW s \in Sessions, Draft(s)
    PROVE  \E drafted, changed \in SUBSET Requirements, asked \in SUBSET Questions :
             /\ db' = db /\ OnlyActs(s) /\ session[s].at = "draft"
             /\ session'[s].kind = session[s].kind     /\ session'[s].key = session[s].key
             /\ session'[s].number = session[s].number /\ session'[s].locked = session[s].locked
             /\ session'[s].writes.number = Writes(s).number
             /\ session'[s].writes.answered = Writes(s).answered
             /\ session'[s].writes.asked = asked
             /\ session'[s].writes.version = [r \in Requirements |->
                    IF r \in Revised(drafted, changed) THEN db.version[r] + 1 ELSE 0]
             /\ session'[s].writes.active = drafted
             /\ asked \cap (db.open \cup db.answered) = {}
  <1>1. PICK drafted \in SUBSET Requirements, changed \in SUBSET Requirements,
             asked \in SUBSET Questions :
           /\ asked \cap (db.open \cup AnsweredFor(s)) = {}
           /\ session' = [session EXCEPT
                ![s].at = "settle", ![s].writes = DraftWrites(s, drafted, changed, asked)]
    BY DEF Draft
  <1>2. session[s].at = "draft" /\ db' = db
    BY DEF Draft
  <1>3. Writes(s) \in WrittenRows
    BY <1>2, AtAStatement
  <1>4. /\ OnlyActs(s)
        /\ session'[s].kind = session[s].kind     /\ session'[s].key = session[s].key
        /\ session'[s].number = session[s].number /\ session'[s].locked = session[s].locked
        /\ session'[s].writes = DraftWrites(s, drafted, changed, asked)
    BY <1>1 DEF TInv, Typed, SessionRecords, OnlyActs
  <1>5. LET w == DraftWrites(s, drafted, changed, asked)
        IN  /\ w.number = Writes(s).number /\ w.answered = Writes(s).answered
            /\ w.asked = asked /\ w.active = drafted
            /\ w.version = [r \in Requirements |->
                    IF r \in Revised(drafted, changed) THEN db.version[r] + 1 ELSE 0]
    BY <1>3 DEF DraftWrites, WrittenRows
  <1>6. asked \cap (db.open \cup db.answered) = {}
    BY <1>1 DEF AnsweredFor
  <1> QED
    BY <1>2, <1>4, <1>5, <1>6

LEMMA SettleChanges ==
    ASSUME TInv, NEW s \in Sessions, Settle(s)
    PROVE  /\ db' = db /\ OnlyActs(s) /\ session[s].at = "settle" /\ session'[s].at = "commit"
           /\ session'[s].kind = session[s].kind     /\ session'[s].key = session[s].key
           /\ session'[s].number = session[s].number /\ session'[s].locked = session[s].locked
           /\ session'[s].writes.number = Writes(s).number
           /\ session'[s].writes.asked = Writes(s).asked
           /\ session'[s].writes.answered = Writes(s).answered
           /\ session'[s].writes.version = Writes(s).version
           /\ session'[s].writes.active = Writes(s).active
  BY DEF Settle, TInv, Typed, SessionRecords, WrittenRows, OnlyActs, Writes

(***************************************************************************)
(* Decisions are numbered without gaps                                     *)
(***************************************************************************)

\* The next number is the only one a session can have taken, one session at
\* most has, and nobody counted further.
NumberedTo(n) ==
    /\ db.decisions = 1..n
    /\ \A s \in Sessions :
          /\ session[s].number <= n + 1
          /\ Writes(s).number \in {0, n + 1}
          /\ \A o \in Sessions \ {s} : Writes(o).number # 0 => Writes(s).number = 0

Numbered == \E n \in Nat : NumberedTo(n)

\* A session takes no number, or gives up the one it has.
LEMMA NumbersAreKept ==
    ASSUME TInv, Numbered, NEW s \in Sessions, db'.decisions = db.decisions, OnlyActs(s),
           session'[s].number \in {session[s].number, 0},
           session'[s].writes.number \in {Writes(s).number, 0}
    PROVE  Numbered'
  <1>1. PICK n \in Nat : NumberedTo(n)
    BY DEF Numbered
  <1>2. NumberedTo(n)'
    BY <1>1 DEF NumberedTo, OnlyActs, Writes
  <1> QED
    BY <1>2 DEF Numbered

LEMMA CountIsNext ==
    ASSUME TInv, Numbered, NEW s \in Sessions, CountDecisions(s)
    PROVE  Numbered'
  <1>1. PICK n \in Nat : NumberedTo(n)
    BY DEF Numbered
  <1>2. Cardinality(1..n) = n
    BY FS_Interval
  <1>3. session'[s].number = n + 1
    BY <1>1, <1>2, CountChanges DEF CountedFor, NumberedTo
  <1>4. NumberedTo(n)'
    BY <1>1, <1>3, CountChanges DEF NumberedTo, OnlyActs, Writes
  <1> QED
    BY <1>4 DEF Numbered

LEMMA NoteIsNext ==
    ASSUME TInv, Numbered, NEW s \in Sessions, NoteDecision(s)
    PROVE  Numbered'
  <1> DEFINE writes == [Writes(s) EXCEPT !.number = session[s].number]
  <1>1. CASE session[s].number \notin db.decisions /\ Does(s, "note", writes)
    <2>1. PICK n \in Nat : NumberedTo(n)
      BY DEF Numbered
    <2>2. session[s].number \in Nat /\ Writes(s) \in WrittenRows
      BY DEF TInv, Typed, SessionRecords, Writes
    <2>3. session[s].number \in {0, n + 1}
      BY <1>1, <2>1, <2>2 DEF NumberedTo
    <2>4. /\ db' = db /\ OnlyActs(s) /\ session'[s].number = session[s].number
          /\ session'[s].writes = writes
      BY <1>1, DoesChanges
    <2>5. session'[s].writes.number = session[s].number
      BY <2>2, <2>4 DEF WrittenRows
    <2>6. \A o \in Sessions \ {s} : Writes(o).number # session[s].number
      BY DEF NoteDecision, Others
    <2>7. \A o \in Sessions \ {s} : session[s].number # 0 => Writes(o).number = 0
      BY <2>1, <2>3, <2>6 DEF NumberedTo
    <2>8. NumberedTo(n)'
      BY <2>1, <2>3, <2>4, <2>5, <2>7 DEF NumberedTo, OnlyActs, Writes
    <2> QED
      BY <2>8 DEF Numbered
  <1>2. CASE Close(s) /\ UNCHANGED db
    BY <1>2, CloseChanges, NumbersAreKept DEF Closed, NoWrites
  <1> QED
    BY <1>1, <1>2 DEF NoteDecision

LEMMA CommitIsNext ==
    ASSUME TInv, Numbered, NEW s \in Sessions, Commit(s)
    PROVE  Numbered'
  <1>1. PICK n \in Nat : NumberedTo(n)
    BY DEF Numbered
  <1>2. db'.decisions = db.decisions \cup ({Writes(s).number} \ {0})
    BY DEF Commit, TInv, Typed, Rows
  <1>3. OnlyActs(s) /\ session'[s] = Closed
    BY CloseChanges DEF Commit
  <1>4. Closed.number = 0 /\ Closed.writes.number = 0
    BY DEF Closed, NoWrites
  <1>5. CASE Writes(s).number = 0
    BY <1>2, <1>3, <1>4, <1>5, NumbersAreKept
  <1>6. CASE Writes(s).number # 0
    <2>1. Writes(s).number = n + 1 /\ db.decisions = 1..n
      BY <1>1, <1>6 DEF NumberedTo
    <2>2. db'.decisions = 1..(n + 1)
      BY <1>2, <2>1
    <2>3. \A o \in Sessions \ {s} : Writes(o).number = 0 /\ session[o].number <= n + 1
      BY <1>1, <1>6 DEF NumberedTo
    <2>4. \A o \in Sessions : session[o].number \in Nat
      BY DEF TInv, Typed, SessionRecords
    <2>5. NumberedTo(n + 1)'
      BY <1>3, <1>4, <2>2, <2>3, <2>4 DEF NumberedTo, OnlyActs, Writes
    <2> QED
      BY <2>5 DEF Numbered
  <1> QED
    BY <1>5, <1>6

LEMMA InitNumbered == Init => Numbered
  <1> SUFFICES ASSUME Init PROVE NumberedTo(0)
    BY DEF Numbered
  <1>1. 1..0 = {}
    OBVIOUS
  <1> QED
    BY <1>1 DEF Init, NewProject, Closed, NoWrites, NumberedTo, Writes

LEMMA NextNumbered == TInv /\ Numbered /\ [Next]_vars => Numbered'
  <1> SUFFICES ASSUME TInv, Numbered, [Next]_vars PROVE Numbered'
    OBVIOUS
  <1>1. CASE UpdateIdea
    BY <1>1 DEF UpdateIdea, Numbered, NumberedTo, Writes, TInv, Typed, Rows
  <1>2. CASE UNCHANGED vars
    BY <1>2 DEF vars, Numbered, NumberedTo, Writes
  <1>3. ASSUME NEW s \in Sessions, Request(s) PROVE Numbered'
    BY <1>3, LoadChanges, NumbersAreKept DEF NoWrites
  <1>4. ASSUME NEW s \in Sessions, FindQuestion(s) PROVE Numbered'
    <2>1. CASE Does(s, "find", Writes(s))
      BY <2>1, DoesChanges, NumbersAreKept
    <2>2. CASE Close(s) /\ UNCHANGED db
      BY <2>2, CloseChanges, NumbersAreKept DEF Closed, NoWrites
    <2> QED
      BY <1>4, <2>1, <2>2 DEF FindQuestion
  <1>5. ASSUME NEW s \in Sessions, WriteAnswer(s) PROVE Numbered'
    <2> DEFINE writes == [Writes(s) EXCEPT !.answered = {session[s].key}]
    <2>1. Does(s, "answer", writes)
      BY <1>5 DEF WriteAnswer
    <2>2. writes.number = Writes(s).number
      BY DEF TInv, Typed, SessionRecords, WrittenRows, Writes
    <2> HIDE DEF writes
    <2> QED
      BY <2>1, <2>2, DoesChanges, NumbersAreKept
  <1>6. ASSUME NEW s \in Sessions, CountOpenQuestions(s) PROVE Numbered'
    <2>1. CASE Does(s, "left", Writes(s))
      BY <2>1, DoesChanges, NumbersAreKept
    <2>2. CASE session[s].at = "left" /\ session' = [session EXCEPT ![s].at = "commit"] /\ db' = db
      BY <2>2, MoveChanges, NumbersAreKept
    <2> QED
      BY <1>6, <2>1, <2>2 DEF CountOpenQuestions
  <1>7. ASSUME NEW s \in Sessions, Fire(s) PROVE Numbered'
    <2>1. CASE Does(s, "fire", Writes(s))
      BY <2>1, DoesChanges, NumbersAreKept
    <2>2. CASE /\ session[s].at = "fire" /\ db' = db
               /\ session' = [session EXCEPT ![s].at = "refused", ![s].writes.audit = {"GUARD_REJECTED"}]
      BY <2>2, MoveChanges, NumbersAreKept
    <2> QED
      BY <1>7, <2>1, <2>2 DEF Fire
  <1>8. ASSUME NEW s \in Sessions, WriteStatus(s) PROVE Numbered'
    BY <1>8, WriteStatusChanges, NumbersAreKept
  <1>9. ASSUME NEW s \in Sessions, Draft(s) PROVE Numbered'
    BY <1>9, DraftChanges, NumbersAreKept
  <1>10. ASSUME NEW s \in Sessions, Settle(s) PROVE Numbered'
    BY <1>10, SettleChanges, NumbersAreKept
  <1>11. ASSUME NEW s \in Sessions, RollBack(s) PROVE Numbered'
    BY <1>11, CloseChanges, NumbersAreKept DEF RollBack, Closed, NoWrites
  <1> QED
    BY <1>1, <1>2, <1>3, <1>4, <1>5, <1>6, <1>7, <1>8, <1>9, <1>10, <1>11,
       CountIsNext, NoteIsNext, CommitIsNext DEF Next

\* However many sessions count and insert at the same time, decisions are
\* numbered without gaps (DecisionLog.add and its unique key).
THEOREM DecisionsWithoutGaps == Spec => []DecisionsAreDense
  <1>1. Numbered => DecisionsAreDense
    <2> SUFFICES ASSUME NEW n \in Nat, db.decisions = 1..n
                 PROVE  db.decisions = 1..Cardinality(db.decisions)
      BY DEF Numbered, NumberedTo, DecisionsAreDense
    <2>1. Cardinality(1..n) = n
      BY FS_Interval
    <2> QED
      BY <2>1
  <1> QED
    BY <1>1, InitTyped, NextTyped, InitNumbered, NextNumbered, PTL DEF Spec

(***************************************************************************)
(* Drafts are built on the committed rows                                  *)
(***************************************************************************)

Known == db.open \cup db.answered

\* What holds of the writes of a session whose record is r: a draft is made
\* behind the lock of the project, an answered question is one that exists,
\* and what is drafted follows the committed rows.
Holds(r) ==
    /\ r.at \in {"draft", "settle"} => r.locked
    /\ r.writes.asked # {} => r.locked
    /\ (\E q \in Requirements : r.writes.version[q] # 0) => r.locked
    /\ r.kind = "answer" /\ r.at # "find" => r.key \in Known
    /\ r.writes.answered \subseteq Known
    /\ r.writes.asked \cap Known = {}
    /\ \A q \in Requirements : r.writes.version[q] \in {0, db.version[q] + 1}

OneLock == \A s \in Sessions : session[s].locked => \A o \in Sessions \ {s} : ~session[o].locked

Drafts == OneLock /\ \A s \in Sessions : Holds(session[s])

\* A session that writes to no table and takes no lock.
LEMMA HoldingOnIsEnough ==
    ASSUME TInv, Drafts, NEW s \in Sessions, db' = db, OnlyActs(s), Holds(session[s])',
           session'[s].locked => \A o \in Sessions \ {s} : ~session[o].locked
    PROVE  Drafts'
  <1>1. ASSUME NEW o \in Sessions PROVE Holds(session[o])'
    <2>1. CASE o = s
      BY <2>1
    <2>2. CASE o # s
      BY <2>2 DEF Drafts, Holds, OnlyActs, Known
    <2> QED
      BY <2>1, <2>2
  <1>2. OneLock'
    BY DEF Drafts, OneLock, OnlyActs
  <1> QED
    BY <1>1, <1>2 DEF Drafts

\* A closed session holds nothing.
LEMMA ClosingIsEnough ==
    ASSUME TInv, Drafts, NEW s \in Sessions, Close(s), db' = db
    PROVE  Drafts'
  BY CloseChanges, HoldingOnIsEnough DEF Holds, Closed, NoWrites

\* A session whose lock and drafted rows stay as they are, outside a draft.
LEMMA StayingIsEnough ==
    ASSUME TInv, Drafts, NEW s \in Sessions, db' = db, OnlyActs(s),
           session'[s].kind = session[s].kind, session'[s].key = session[s].key,
           session'[s].locked = session[s].locked,
           session'[s].writes.asked = Writes(s).asked,
           session'[s].writes.version = Writes(s).version,
           session'[s].writes.answered \subseteq Known,
           session'[s].at \in {"draft", "settle"} => session[s].locked,
           session[s].kind = "answer" => session[s].key \in Known
    PROVE  Drafts'
  <1>1. Holds(session[s])'
    BY DEF Drafts, Holds, Writes, Known
  <1> QED
    BY <1>1, HoldingOnIsEnough DEF Drafts, OneLock

\* No statement but the write of the status leads to a draft.
LEMMA DoingIsEnough ==
    ASSUME TInv, Drafts, NEW s \in Sessions, NEW statement, NEW writes, Does(s, statement, writes),
           statement \in {"find", "answer", "note", "left", "fire"},
           writes.asked = Writes(s).asked, writes.version = Writes(s).version,
           writes.answered \subseteq Known,
           session[s].kind = "answer" => session[s].key \in Known
    PROVE  Drafts'
  <1>1. /\ db' = db /\ OnlyActs(s) /\ session[s].at = statement
        /\ session'[s].at = Following(session[s].kind, statement, writes.status)
        /\ session'[s].kind = session[s].kind     /\ session'[s].key = session[s].key
        /\ session'[s].locked = session[s].locked /\ session'[s].writes = writes
    BY DoesChanges
  <1>2. session[s].kind \in Kinds /\ statement \in StatementsOf(session[s].kind)
    BY <1>1, AtAStatement
  <1>3. session'[s].at \in StatementsOf(session[s].kind)
    BY <1>1, <1>2, FollowingIsAPlace
  <1>4. session'[s].at \notin {"draft", "settle"}
    BY <1>2, <1>3, StatementsAreKnown
  <1> QED
    BY <1>1, <1>4, StayingIsEnough

\* What a session has answered, and the question it answers, are known.
LEMMA AnsweredIsKnown ==
    ASSUME Drafts, NEW s \in Sessions
    PROVE  /\ Writes(s).answered \subseteq Known
           /\ session[s].kind = "answer" /\ session[s].at # "find" => session[s].key \in Known
  BY DEF Drafts, Holds, Writes

LEMMA StatementsHold ==
    ASSUME TInv, Drafts, NEW s \in Sessions,
           \/ FindQuestion(s) \/ WriteAnswer(s) \/ CountDecisions(s) \/ NoteDecision(s)
           \/ CountOpenQuestions(s) \/ Fire(s)
    PROVE  Drafts'
  <1>1. CASE FindQuestion(s)
    <2>1. CASE session[s].key \in db.open /\ Does(s, "find", Writes(s))
      BY <2>1, AnsweredIsKnown, DoingIsEnough DEF Known
    <2>2. CASE Close(s) /\ UNCHANGED db
      BY <2>2, ClosingIsEnough
    <2> QED
      BY <1>1, <2>1, <2>2 DEF FindQuestion
  <1>2. CASE WriteAnswer(s)
    <2> DEFINE writes == [Writes(s) EXCEPT !.answered = {session[s].key}]
    <2>1. Does(s, "answer", writes) /\ session[s].at = "answer"
      BY <1>2 DEF WriteAnswer, Does
    <2>2. session[s].kind = "answer" /\ Writes(s) \in WrittenRows
      BY <2>1, AtAStatement, StatementsAreKnown
    <2>3. session[s].key \in Known
      BY <2>1, <2>2, AnsweredIsKnown
    <2>4. /\ writes.asked = Writes(s).asked /\ writes.version = Writes(s).version
          /\ writes.answered \subseteq Known
      BY <2>2, <2>3 DEF WrittenRows
    <2> HIDE DEF writes
    <2> QED
      BY <2>1, <2>3, <2>4, DoingIsEnough
  <1>3. CASE CountDecisions(s)
    <2>1. session[s].at = "count" /\ session[s].kind \in Kinds /\ "count" \in StatementsOf(session[s].kind)
      BY <1>3, CountChanges, AtAStatement
    <2>2. session'[s].at \in StatementsOf(session[s].kind)
      BY <1>3, <2>1, CountChanges, FollowingIsAPlace
    <2>3. session'[s].at \notin {"draft", "settle"}
      BY <2>1, <2>2, StatementsAreKnown
    <2> QED
      BY <1>3, <2>1, <2>3, CountChanges, AnsweredIsKnown, StayingIsEnough DEF Writes
  <1>4. CASE NoteDecision(s)
    <2> DEFINE writes == [Writes(s) EXCEPT !.number = session[s].number]
    <2>1. CASE Does(s, "note", writes)
      <3>1. session[s].at = "note"
        BY <2>1 DEF Does
      <3>2. /\ writes.asked = Writes(s).asked /\ writes.version = Writes(s).version
            /\ writes.answered = Writes(s).answered
        BY <3>1, AtAStatement DEF WrittenRows
      <3> HIDE DEF writes
      <3> QED
        BY <2>1, <3>1, <3>2, AnsweredIsKnown, DoingIsEnough
    <2>2. CASE Close(s) /\ UNCHANGED db
      BY <2>2, ClosingIsEnough
    <2> QED
      BY <1>4, <2>1, <2>2 DEF NoteDecision
  <1>5. CASE CountOpenQuestions(s)
    <2>1. CASE Does(s, "left", Writes(s))
      BY <2>1, AnsweredIsKnown, DoingIsEnough DEF Does
    <2>2. CASE session[s].at = "left" /\ session' = [session EXCEPT ![s].at = "commit"] /\ db' = db
      BY <2>2, MoveChanges, AnsweredIsKnown, StayingIsEnough
    <2> QED
      BY <1>5, <2>1, <2>2 DEF CountOpenQuestions
  <1>6. CASE Fire(s)
    <2>1. CASE Does(s, "fire", Writes(s))
      BY <2>1, AnsweredIsKnown, DoingIsEnough DEF Does
    <2>2. CASE /\ session[s].at = "fire" /\ db' = db
               /\ session' = [session EXCEPT ![s].at = "refused", ![s].writes.audit = {"GUARD_REJECTED"}]
      BY <2>2, MoveChanges, AnsweredIsKnown, StayingIsEnough
    <2> QED
      BY <1>6, <2>1, <2>2 DEF Fire
  <1> QED
    BY <1>1, <1>2, <1>3, <1>4, <1>5, <1>6

\* The write of the status takes the lock that no other session has.
LEMMA WriteStatusHolds ==
    ASSUME TInv, Drafts, NEW s \in Sessions, WriteStatus(s)
    PROVE  Drafts'
  <1>1. \A o \in Sessions \ {s} : ~session[o].locked
    BY DEF WriteStatus, Others
  <1>2. Holds(session[s])'
    BY WriteStatusChanges DEF Drafts, Holds, Writes, Known
  <1> QED
    BY <1>1, <1>2, WriteStatusChanges, HoldingOnIsEnough

LEMMA DraftHolds ==
    ASSUME TInv, Drafts, NEW s \in Sessions, Draft(s)
    PROVE  Drafts'
  <1>1. PICK drafted \in SUBSET Requirements, changed \in SUBSET Requirements,
             asked \in SUBSET Questions :
             /\ db' = db /\ OnlyActs(s) /\ session[s].at = "draft"
             /\ session'[s].kind = session[s].kind     /\ session'[s].key = session[s].key
             /\ session'[s].number = session[s].number /\ session'[s].locked = session[s].locked
             /\ session'[s].writes.number = Writes(s).number
             /\ session'[s].writes.answered = Writes(s).answered
             /\ session'[s].writes.asked = asked
             /\ session'[s].writes.version = [r \in Requirements |->
                    IF r \in Revised(drafted, changed) THEN db.version[r] + 1 ELSE 0]
             /\ session'[s].writes.active = drafted
             /\ asked \cap (db.open \cup db.answered) = {}
    BY DraftChanges
  <1>2. session'[s].locked
    BY <1>1 DEF Drafts, Holds
  <1>3. \A q \in Requirements : session'[s].writes.version[q] \in {0, db.version[q] + 1}
    BY <1>1
  <1>4. /\ session'[s].kind = "answer" => session'[s].key \in Known
        /\ session'[s].writes.answered \subseteq Known
    BY <1>1, AnsweredIsKnown
  <1>5. Holds(session[s])'
    BY <1>1, <1>2, <1>3, <1>4 DEF Holds, Known
  <1> QED
    BY <1>1, <1>5, HoldingOnIsEnough DEF Drafts, OneLock

LEMMA OutsideHold ==
    ASSUME TInv, Drafts, NEW s \in Sessions, Request(s) \/ Settle(s) \/ RollBack(s)
    PROVE  Drafts'
  <1>1. CASE Request(s)
    <2>1. Holds(session[s])'
      BY <1>1, LoadChanges DEF Holds, NoWrites
    <2> QED
      BY <1>1, <2>1, LoadChanges, HoldingOnIsEnough
  <1>2. CASE Settle(s)
    BY <1>2, SettleChanges, AnsweredIsKnown, StayingIsEnough
  <1>3. CASE RollBack(s)
    BY <1>3, ClosingIsEnough DEF RollBack
  <1> QED
    BY <1>1, <1>2, <1>3

\* A request that has no lock commits no draft, and the answers it commits
\* change no question's being there; one that has the lock has it alone.
LEMMA CommitHolds ==
    ASSUME TInv, Drafts, NEW s \in Sessions, Commit(s)
    PROVE  Drafts'
  <1>1. OnlyActs(s) /\ session'[s] = Closed
    BY CloseChanges DEF Commit
  <1>2. /\ db'.open = (db.open \cup Writes(s).asked) \ Writes(s).answered
        /\ db'.answered = db.answered \cup Writes(s).answered
        /\ db'.version = [q \in Requirements |->
               IF Writes(s).version[q] # 0 THEN Writes(s).version[q] ELSE db.version[q]]
    BY DEF Commit, OpenFor, AnsweredFor, TInv, Typed, Rows
  <1>3. Known' = Known \cup Writes(s).asked
    BY <1>2, AnsweredIsKnown DEF Known
  <1>4. Writes(s) = session[s].writes /\ Holds(session[s])
    BY DEF Writes, Drafts
  <1>5. ASSUME NEW o \in Sessions \ {s} PROVE Holds(session[o])'
    <2>1. session'[o] = session[o] /\ Holds(session[o])
      BY <1>1 DEF OnlyActs, Drafts
    <2>2. CASE session[s].locked
      <3>1. ~session[o].locked
        BY <2>2 DEF Drafts, OneLock
      <3>2. /\ session[o].at \notin {"draft", "settle"} /\ session[o].writes.asked = {}
            /\ \A q \in Requirements : session[o].writes.version[q] = 0
        BY <2>1, <3>1 DEF Holds
      <3> QED
        BY <1>3, <2>1, <3>1, <3>2 DEF Holds
    <2>3. CASE ~session[s].locked
      <3>1. Writes(s).asked = {} /\ \A q \in Requirements : Writes(s).version[q] = 0
        BY <1>4, <2>3 DEF Holds
      <3>2. Known' = Known /\ \A q \in Requirements : db'.version[q] = db.version[q]
        BY <1>2, <1>3, <3>1
      <3> QED
        BY <2>1, <3>2 DEF Holds
    <2> QED
      BY <2>2, <2>3
  <1>6. Holds(session[s])'
    BY <1>1 DEF Holds, Closed, NoWrites
  <1>7. OneLock'
    BY <1>1 DEF Drafts, OneLock, OnlyActs, Closed
  <1> QED
    BY <1>5, <1>6, <1>7 DEF Drafts

LEMMA NextHolds == TInv /\ Drafts /\ [Next]_vars => Drafts'
  <1> SUFFICES ASSUME TInv, Drafts, [Next]_vars PROVE Drafts'
    OBVIOUS
  <1>1. CASE UpdateIdea
    <2>1. /\ session' = session /\ db'.version = db.version
          /\ db'.open = db.open /\ db'.answered = db.answered
      BY <1>1 DEF UpdateIdea, TInv, Typed, Rows
    <2> QED
      BY <2>1 DEF Drafts, OneLock, Holds, Known
  <1>2. CASE UNCHANGED vars
    BY <1>2 DEF vars, Drafts, OneLock, Holds, Known
  <1> QED
    BY <1>1, <1>2, OutsideHold, StatementsHold, WriteStatusHolds, DraftHolds, CommitHolds DEF Next

\* A draft is built on the committed rows, though it locks none of them: every
\* way to a draft writes the status, and so locks the project, first
\* (RequirementStore.sync, _draft_requirements).
THEOREM DraftsFollowTheRows == Spec => []DraftsAreUpToDate
  <1>1. Init => Drafts
    BY DEF Init, NewProject, Closed, NoWrites, Drafts, OneLock, Holds, Known
  <1>2. Drafts => DraftsAreUpToDate
    BY DEF Drafts, Holds, Known, DraftsAreUpToDate, Writes
  <1> QED
    BY <1>1, <1>2, InitTyped, NextTyped, NextHolds, PTL DEF Spec
=============================================================================
