------------------------ MODULE MCConcurrentRequests ------------------------
(* Instances of ConcurrentRequests for TLC: sessions are interchangeable.   *)
EXTENDS ConcurrentRequests

SessionSymmetry == Permutations(Sessions)
=============================================================================
