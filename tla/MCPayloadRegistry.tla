--------------------------- MODULE MCPayloadRegistry ---------------------------
(* Instances of PayloadRegistry for TLC. *)
EXTENDS PayloadRegistry, TLC

\* Producers prepare the same content and are alike; so are executions.
Alike == Permutations(Producers) \cup Permutations(Executions)
=============================================================================
