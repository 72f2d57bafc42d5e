---------------------------- MODULE MCTaskLifecycle ----------------------------
(***************************************************************************)
(* TLC instance of TaskLifecycle.                                          *)
(***************************************************************************)
EXTENDS TaskLifecycle, TLC

WorkerSymmetry == Permutations(Workers)
=============================================================================
