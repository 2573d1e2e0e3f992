------------------------------ MODULE MCRollup ------------------------------
(* Small instances of Rollup for TLC. *)
EXTENDS Rollup, TLC

\* Five days, two of them in the last window.
MCTimestamp == {2, 4, 5, 6, 8, 9}
MCDayOf     == [t \in MCTimestamp |-> IF t = 9 THEN 5 ELSE t \div 2]

\* With a grace of an hour the last window may have to wait.
MCCutoffs == {3, 9}

Set(r, c, s, f, b, o) == [rename |-> r, calls |-> c, crashes |-> s, faults |-> f,
                          backfills |-> b, online |-> o]
MCSettings == {Set(FALSE, 4, 1, 0, 0, TRUE), Set(TRUE, 4, 1, 0, 0, TRUE),
               Set(FALSE, 5, 0, 2, 0, TRUE), Set(FALSE, 4, 0, 0, 1, FALSE),
               Set(FALSE, 3, 0, 0, 1, TRUE)}

Metrics == Permutations(Metric)
=============================================================================
