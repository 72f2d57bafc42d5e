-------------------------- MODULE MCProtocolAdmission --------------------------
EXTENDS ProtocolAdmission, TLC

MCSupports == [w \in Workers |-> IF w = 2 THEN {1, 2} ELSE {1}]
Alike == Permutations(Coordinators)
=============================================================================
