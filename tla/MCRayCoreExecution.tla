-------------------------- MODULE MCRayCoreExecution --------------------------
(* Instances of RayCoreExecution for TLC. *)
EXTENDS RayCoreExecution, TLC

\* Workers are alike unless one of them is reliable.
Alike == Permutations(Workers)
=============================================================================
