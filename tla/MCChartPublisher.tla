-------------------------- MODULE MCChartPublisher --------------------------
EXTENDS ChartPublisher

CONSTANTS b1, b2

TwoBars == {b1, b2}

\* one place in each queue, so that a burst overflows it
SmallQueues == [l \in Lanes |-> 1]

\* finals are retried, partials are not (the defaults are 3 and 1)
FinalsRetried == [l \in Lanes |-> IF l = "critical" THEN 2 ELSE 1]
=============================================================================
