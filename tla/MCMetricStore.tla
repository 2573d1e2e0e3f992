--------------------------- MODULE MCMetricStore ---------------------------
(* Small instances of MetricStore for TLC. *)
EXTENDS MetricStore

MCTimestamp == 1..3

\* Days of one and two timestamps, and three days of one.
MCTwoDays   == [t \in 1..3 |-> 1 + t \div 2]
MCThreeDays == [t \in 1..3 |-> t]

\* A database protected by its WAL, one that lets old samples pass by it, and
\* a rollup destination, which has none.
Protected == [wal |-> TRUE, skip |-> FALSE, strict |-> FALSE, retry |-> FALSE]
Skipping  == [wal |-> TRUE, skip |-> TRUE, strict |-> TRUE, retry |-> FALSE]
Rollup    == [wal |-> FALSE, skip |-> FALSE, strict |-> TRUE, retry |-> TRUE]

MCEveryConfig == {Protected, Skipping, Rollup}
MCUnskipped   == {Protected, Rollup}
MCProtected   == {Protected}
=============================================================================
