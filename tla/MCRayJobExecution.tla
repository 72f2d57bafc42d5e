--------------------------- MODULE MCRayJobExecution ---------------------------
(***************************************************************************)
(* TLC instances of RayJobExecution.                                       *)
(***************************************************************************)
EXTENDS RayJobExecution
=============================================================================
