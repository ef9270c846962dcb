-------------------------- MODULE MCTimeoutChecker --------------------------
(* Instances of TimeoutChecker for TLC: what the requests of app/product/   *)
(* workflow.py do to a project while it waits for answers or for approval.  *)
EXTENDS TimeoutChecker

MCMoves == {
    <<"IDEA_RECEIVED", "WAITING_REQUIREMENT_INPUT">>,
    <<"WAITING_REQUIREMENT_INPUT", "WAITING_REQUIREMENT_INPUT">>,
    <<"WAITING_REQUIREMENT_INPUT", "WAITING_REQUIREMENT_APPROVAL">>,
    <<"WAITING_REQUIREMENT_APPROVAL", "WAITING_REQUIREMENT_INPUT">>}

MCLimits == [state \in {"WAITING_REQUIREMENT_INPUT", "WAITING_REQUIREMENT_APPROVAL"} |-> 1]
=============================================================================
