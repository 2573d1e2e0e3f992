---------------------------- MODULE MCMetricFile ----------------------------
(* Small instances of MetricFile for TLC. *)
EXTENDS MetricFile

Asks(ids, from, to, stride, seen) ==
    [ids |-> ids, from |-> from, to |-> to, stride |-> stride, seen |-> seen]

Numbered(samples) == [k \in DOMAIN samples |-> [id |-> samples[k][1], ts |-> samples[k][2], v |-> k]]

\* One page in time order, with any timestamps of 1..3 for each of three metrics: every way
\* metrics share time frames.  One build, one query at a time.
SomeTimes == (SUBSET (1..3)) \ {{}}
PageOf(when) ==
    LET samples == {<<id, t>> \in {1, 2, 3} \X (1..3) : t \in when[id]}
    IN Numbered(Sorted(samples, {p \in samples \X samples :
                                    \/ p[1][2] < p[2][2]
                                    \/ p[1][2] = p[2][2] /\ p[1][1] < p[2][1]}))

Layouts ==
    {[pages |-> <<PageOf(when)>>, more |-> {}, maxPages |-> 1, sizes |-> {1}, builds |-> 1, reads |-> 1,
      requests |-> {Asks({1, 2, 3}, 1, 3, 1, 0), Asks({2, 3}, 2, 3, 1, 0), Asks({1, 3}, 1, 2, 2, 1)}]
       : when \in [{1, 2, 3} -> SomeTimes]}

\* Pages that overlap and samples that came late, files of the same size, two builds and
\* queries at the same time.
Shared ==
    {[pages |-> <<Numbered(first)>>,
      more |-> {<<[id |-> 2, ts |-> 3], [id |-> 1, ts |-> 4]>>, <<[id |-> 1, ts |-> 1]>>},
      maxPages |-> 2, sizes |-> {1, 2}, builds |-> 2, reads |-> 3,
      requests |-> {Asks({1, 2}, 1, 4, 1, 0), Asks({2}, 2, 3, 1, 0)}]
       : first \in {<<<<1, 2>>, <<2, 2>>, <<2, 3>>>>, <<<<2, 1>>, <<1, 2>>>>}}

MCSettings == Layouts \cup Shared
MCAggSets  == {{"min", "max", "sum", "avg", "count"}, {"sum", "p50", "p95", "trimmed_avg"}}
Readers    == Permutations(Reader)
=============================================================================
