----------------------------- MODULE Aggregates -----------------------------
(***************************************************************************)
(* The aggregates of a range query: the samples of one metric, in the      *)
(* order the query returns them, cut into windows and reduced one window   *)
(* at a time.  Source: internal/engine/aggregates.go, query_aggregates.go. *)
(*                                                                         *)
(* A sample is a record with ts and v.  Values are integers: an average is *)
(* the pair of its sum and its count, and a percentile is in hundredths,   *)
(* so that rounding is left out.                                           *)
(***************************************************************************)
EXTENDS Naturals, Integers, FiniteSets, SequencesExt

Streamed == {"min", "max", "sum", "avg", "count"}
Computed == {"p50", "p95", "trimmed_avg"}

\* The elements of S in the order of the pairs before, a strict total order on S.
Sorted(S, before) ==
    [k \in 1..Cardinality(S) |->
        CHOOSE x \in S : Cardinality({y \in S : <<y, x>> \in before}) = k - 1]
Less(S) == {p \in S \X S : p[1] < p[2]}

\* The elements of a sequence at the places K.
Picked(s, K) ==
    LET places == Sorted(K, Less(K))
    IN [k \in DOMAIN places |-> s[places[k]]]

\* sumAggregator
Total(points) ==
    LET sum[n \in 0..Len(points)] == IF n = 0 THEN 0 ELSE sum[n - 1] + points[n]
    IN sum[Len(points)]

Ascending(points) ==
    LET order == Sorted(DOMAIN points,
                     {p \in (DOMAIN points) \X (DOMAIN points) :
                         \/ points[p[1]] < points[p[2]]
                         \/ points[p[1]] = points[p[2]] /\ p[1] < p[2]})
    IN [k \in DOMAIN points |-> points[order[k]]]

\* percentileAggregator.Compute: between the two ranks the percentile falls between.
Percentile(points, p) ==
    LET sorted   == Ascending(points)
        position == (Len(points) - 1) * p
        lower    == position \div 100
        weight   == position % 100 IN
    IF weight = 0 THEN sorted[lower + 1] * 100
    ELSE sorted[lower + 1] * 100 + (sorted[lower + 2] - sorted[lower + 1]) * weight

\* trimmedAvgAggregator.Compute: one sample in twenty off either end, and at least one
\* when that leaves any.
TrimmedAvg(points) ==
    LET n    == Len(points)
        some == IF n >= 20 THEN n \div 20 ELSE 1
        trim == IF some * 2 >= n THEN 0 ELSE some
        kept == SubSeq(Ascending(points), trim + 1, n - trim)
    IN <<Total(kept), Len(kept)>>

\* Compute of each aggregator of the registry, on the points of a window.
Compute(agg, points) ==
    CASE agg = "min"   -> CHOOSE x \in ToSet(points) : \A y \in ToSet(points) : x <= y
      [] agg = "max"   -> CHOOSE x \in ToSet(points) : \A y \in ToSet(points) : x >= y
      [] agg = "sum"   -> Total(points)
      [] agg = "avg"   -> <<Total(points), Len(points)>>
      [] agg = "count" -> Len(points)
      [] agg = "p50"   -> Percentile(points, 50)
      [] agg = "p95"   -> Percentile(points, 95)
      [] agg = "trimmed_avg" -> TrimmedAvg(points)

-----------------------------------------------------------------------------
(* QueryAggregateRange.                                                    *)

\* A window being filled: accumulators when every aggregate asked for can be streamed,
\* and the points otherwise.
NoBucket    == [start |-> 0, count |-> 0, sum |-> 0, min |-> 0, max |-> 0, points |-> <<>>]
NewBucket(start) == [NoBucket EXCEPT !.start = start]

\* addAggregateBucketSample
AddSample(b, v) ==
    [b EXCEPT !.min   = IF b.count = 0 \/ v < @ THEN v ELSE @,
              !.max   = IF b.count = 0 \/ v > @ THEN v ELSE @,
              !.sum   = @ + v,
              !.count = @ + 1,
              !.points = Append(@, v)]

\* aggregateBucketAccumulatorValue
AccumulatorValue(agg, b) ==
    CASE agg = "min" -> b.min [] agg = "max" -> b.max [] agg = "sum" -> b.sum
      [] agg = "avg" -> <<b.sum, b.count>> [] agg = "count" -> b.count

\* newAggregateBucketAccumulators: one aggregate that needs the points turns streaming off.
Value(aggs, agg, b) == IF aggs \subseteq Streamed THEN AccumulatorValue(agg, b)
                                                  ELSE Compute(agg, b.points)

\* floorTimestamp: the division of int64 rounds towards zero.
FloorTo(ts, window) == IF ts < 0 THEN -((-ts) \div window) * window
                                 ELSE (ts \div window) * window

\* flushBucket: what the callback gets, clipped to the range; nothing of an empty window.
FlushBucket(b, rq, window, aggs) ==
    IF b.count = 0 THEN {}
    ELSE {[agg   |-> a,
           start |-> IF b.start < rq.from THEN rq.from ELSE b.start,
           end   |-> IF b.start + window > rq.to THEN rq.to ELSE b.start + window,
           value |-> Value(aggs, a, b)] : a \in aggs}

\* What a sample of another window starts with.
NotReset(acc, bucket, rq, window, aggs) ==
    [out |-> Append(acc.out, FlushBucket(acc.bucket, rq, window, aggs)),
     bucket |-> [acc.bucket EXCEPT !.start = bucket], have |-> TRUE]
NextBucket(acc, bucket, rq, window, aggs) ==
    [out |-> Append(acc.out, FlushBucket(acc.bucket, rq, window, aggs)),
     bucket |-> NewBucket(bucket), have |-> TRUE]

\* The next sample of the metric: the first of another window has the one before flushed.
TakeSample(acc, s, rq, window, aggs) ==
    LET bucket == FloorTo(s.ts, window)
        here   == IF ~acc.have THEN [acc EXCEPT !.bucket = NewBucket(bucket), !.have = TRUE]
                  ELSE IF bucket # acc.bucket.start THEN NextBucket(acc, bucket, rq, window, aggs)
                  ELSE acc
    IN [here EXCEPT !.bucket = AddSample(@, s.v)]

\* The callbacks of QueryAggregateRange, one set for each flush.
Buckets(samples, rq, window, aggs) ==
    LET acc[n \in 0..Len(samples)] ==
            IF n = 0 THEN [out |-> <<>>, bucket |-> NoBucket, have |-> FALSE]
            ELSE TakeSample(acc[n - 1], samples[n], rq, window, aggs)
        last == acc[Len(samples)]
    IN IF last.have THEN Append(last.out, FlushBucket(last.bucket, rq, window, aggs)) ELSE <<>>

-----------------------------------------------------------------------------
(* What the buckets of a range are, whatever order the samples come in.    *)

BucketOf(samples, start, rq, window, aggs) ==
    LET inside == Picked(samples, {k \in DOMAIN samples :
                                      start <= samples[k].ts /\ samples[k].ts < start + window})
        values == [k \in DOMAIN inside |-> inside[k].v]
    IN {[agg   |-> a,
         start |-> IF start < rq.from THEN rq.from ELSE start,
         end   |-> IF start + window > rq.to THEN rq.to ELSE start + window,
         value |-> Compute(a, values)] : a \in aggs}

TrueBuckets(samples, rq, window, aggs) ==
    LET starts == {FloorTo(samples[k].ts, window) : k \in DOMAIN samples}
        order  == Sorted(starts, Less(starts))
    IN [k \in DOMAIN order |-> BucketOf(samples, order[k], rq, window, aggs)]
=============================================================================
