-------------------------- MODULE MCCandleDetector --------------------------
(* Instances of CandleDetector for TLC. *)
EXTENDS CandleDetector
=============================================================================
