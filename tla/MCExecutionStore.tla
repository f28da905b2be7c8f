-------------------------- MODULE MCExecutionStore --------------------------
(* Instances of ExecutionStore for TLC. *)
EXTENDS ExecutionStore, TLC

CONSTANTS z1, z2

OneZone == {z1}
TwoZones == {z1, z2}
Symmetry == Permutations(TwoZones)
=============================================================================
