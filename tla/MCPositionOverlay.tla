-------------------------- MODULE MCPositionOverlay --------------------------
(* Instance of PositionOverlay for TLC. *)
EXTENDS PositionOverlay

CONSTANT r1

OneSide    == {"LONG"}
OneRequest == {r1}
=============================================================================
