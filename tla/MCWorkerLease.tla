----------------------------- MODULE MCWorkerLease -----------------------------
(***************************************************************************)
(* TLC instance of WorkerLease.                                            *)
(***************************************************************************)
EXTENDS WorkerLease, TLC

CONSTANTS p1, p2, p3

\* Two processes agree on a duration, the third was deployed with another.
ConfiguredSeconds == p1 :> 1 @@ p2 :> 1 @@ p3 :> 2

Symmetric == Permutations({p1, p2}) \cup Permutations(Ids) \cup Permutations(Tasks)
=============================================================================
