--------------------------- MODULE MCEventStore ---------------------------
(* Small instances of EventStore for TLC. *)
EXTENDS EventStore

\* Partitions of two timestamps and of one.
MCTimestamp == 1..3
MCPartOf    == [t \in 1..3 |-> 1 + t \div 3]

MCTimestamp2 == 1..2
MCPartOf2    == [t \in 1..2 |-> 1]

\* Crashes and a failed write leave enough to recover with two calls; a page that
\* is written and one that stays open need three.
Bound(c, s, f, q) == [calls |-> c, crashes |-> s, faults |-> f, queries |-> q]
MCLimits == {Bound(3, 1, 0, 0), Bound(2, 2, 1, 0), Bound(3, 0, 0, 1)}

Names == Permutations(EventName)
===========================================================================
