--------------------------- MODULE MCChartFanout ---------------------------
EXTENDS ChartFanout

TwoClients == {1, 2}
=============================================================================
