--------------------------- MODULE MCRayJobPolling ---------------------------
(* TLC instance of the polling loop. *)
EXTENDS RayJobPolling
=============================================================================
