--------------------------- MODULE MCChartStorage ---------------------------
(* Instances of ChartStorage for TLC. *)
EXTENDS ChartStorage, TLC

CONSTANTS b1, v1, w1, w2

OneBar     == {b1}
OneValue   == {v1}
TwoWorkers == {w1, w2}

\* every worker configured for the whole stream
SameFilter == [w \in Workers |-> Bars]
=============================================================================
