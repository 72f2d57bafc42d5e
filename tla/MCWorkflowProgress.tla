------------------------- MODULE MCWorkflowProgress -------------------------
(* Instances of WorkflowProgress for TLC. *)
EXTENDS WorkflowProgress

\* One run with two topology versions that share a node: one drops a node and adds another.
MCTopologies == <<<<{1, 2}, {2, 3}>>>>

\* One run whose second topology version drops a node.
MCShrinking == <<<<{1, 2}, {2}>>>>

\* Two runs with one node each.
MCOneNode == <<<<{1}>>, <<{1}>>>>
=============================================================================
