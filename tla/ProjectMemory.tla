--------------------------- MODULE ProjectMemory ---------------------------
(***************************************************************************)
(* What the memory of a project promises to the requests that use it:      *)
(* whatever they do side by side, decisions, questions and requirements    *)
(* change as if requests came one at a time, each one whole.               *)
(*                                                                         *)
(* ConcurrentRequests implements this, statement by statement.             *)
(***************************************************************************)
EXTENDS Naturals

CONSTANTS
    Questions,        \* question keys
    Requirements      \* requirement keys

VARIABLES
    decisions,        \* the numbers of the decisions
    open,             \* the questions to answer
    answered,         \* and those that have an answer
    version,          \* requirement -> its version, 0 if there never was one
    active            \* the requirements in use

memory == <<decisions, open, answered, version, active>>

Init ==
    /\ decisions = {} /\ open = {} /\ answered = {} /\ active = {}
    /\ version = [r \in Requirements |-> 0]

\* A decision takes the number after that of the last one.
Decided ==
    \E last \in decisions \cup {0} : decisions = 1..last /\ decisions' = 1..(last + 1)

\* A draft asks what was never asked, and replaces the requirements: each that
\* comes or goes has a next version, one that stays may have, no other has.
Drafted(asked, drafted, revised) ==
    /\ asked \cap (open \cup answered) = {}
    /\ (drafted \ active) \cup (active \ drafted) \subseteq revised
    /\ revised \subseteq drafted \cup active
    /\ active' = drafted
    /\ version' = [r \in Requirements |-> IF r \in revised THEN version[r] + 1 ELSE version[r]]

Undrafted == UNCHANGED <<version, active>>

\* A question is answered, or answered once more, and the answer is a decision;
\* requirements may be drafted afterwards.
Answer(question, asked, drafted, revised) ==
    /\ question \in open \cup answered
    /\ Decided
    /\ \/ Drafted(asked, drafted, revised)
       \/ asked = {} /\ Undrafted
    /\ open' = (open \cup asked) \ {question}
    /\ answered' = answered \cup {question}

\* The scope is reduced: a decision, and a draft that follows it.
ReduceScope(asked, drafted, revised) ==
    /\ Decided
    /\ Drafted(asked, drafted, revised)
    /\ open' = open \cup asked
    /\ UNCHANGED answered

\* Requirements are drafted for the first time, or again on request.
Redraft(asked, drafted, revised) ==
    /\ Drafted(asked, drafted, revised)
    /\ open' = open \cup asked
    /\ UNCHANGED <<decisions, answered>>

Next ==
    \E asked \in SUBSET Questions, drafted, revised \in SUBSET Requirements :
        \/ \E question \in Questions : Answer(question, asked, drafted, revised)
        \/ ReduceScope(asked, drafted, revised)
        \/ Redraft(asked, drafted, revised)

Spec == Init /\ [][Next]_memory
=============================================================================
