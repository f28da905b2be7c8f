--------------------------- MODULE MCOverlayFanout ---------------------------
(* Instances of OverlayFanout for TLC. *)
EXTENDS OverlayFanout, TLC

CONSTANTS b1, b2, r1, r2

OneSide     == {"LONG"}
TwoClients  == {b1, b2}
TwoRequests == {r1, r2}
Symmetry    == Permutations(TwoClients) \cup Permutations(TwoRequests)
=============================================================================
