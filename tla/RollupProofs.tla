---------------------------- MODULE RollupProofs ----------------------------
(***************************************************************************)
(* Proofs about Rollup for every value of its constants: a row is computed *)
(* from the whole of its window; what a checkpoint claims is in the        *)
(* destination's files; and no window is computed twice.                   *)
(***************************************************************************)
EXTENDS Rollup, FiniteSetTheorems, SequenceTheorems, WellFoundedInduction,
        TLAPS

USE DEF source, dest, run, counters, history, vars

(***************************************************************************)
(* What the variables hold.                                                *)
(***************************************************************************)

\* The beginnings of windows.
Grid   == {k * Interval : k \in Nat}
Sample == [metric : Metric, ts : Timestamp, n : Nat]
Row    == [metric : Metric, agg : 1..Aggregates, start : Grid, of : SUBSET Nat]
Job    == [next : Grid, safe : Nat, from : Grid, loaded : Grid, updated : Grid]

\* The samples of a day, in its page or its data file.
Kept(d) == disk[d] \cup ToSet(page[d])

SourceOK ==
    /\ open \subseteq Day
    /\ page \in [Day -> Seq(Sample)]
    /\ disk \in [Day -> SUBSET Sample]
    /\ lastTS \in [Metric -> Nat]
    /\ newest \in [Metric -> Nat]
    /\ late \subseteq Nat
    /\ \A d \in Day : \A s \in Kept(d) : s.ts <= newest[s.metric]
    /\ \A m \in Metric : lastTS[m] <= newest[m]

DestOK ==
    /\ destPage \in Seq(Row) /\ destFile \in Seq(Row)
    /\ destLast \in [Metric \X (1..Aggregates) -> Nat]
    /\ checkpoint \in [Metric -> Grid] /\ from \in [Metric -> Grid]

RunOK ==
    /\ pc \in {"idle", "trigger", "windows", "flush", "append", "done"}
    /\ jobs \in [Metric -> Job]
    /\ row # NoRow => row \in Row
    /\ call # NoCall => call \in [metric : Metric, ts : Timestamp, sealing : Day]
    /\ calls \in Nat /\ cutoff \in Nat /\ crashes \in Nat /\ faults \in Nat /\ backfills \in Nat
    /\ setting \in Settings
    /\ backfill \in {"none", "reset", "cleared", "replay"}

Types == SourceOK /\ DestOK /\ RunOK

-----------------------------------------------------------------------------
(* Windows and numbers.                                                    *)

LEMMA TimestampsAreNumbers ==
    /\ Timestamp \subseteq Nat /\ Interval \in Nat \ {0} /\ Aggregates \in Nat \ {0}
    /\ DestPageMaxRecords \in Nat \ {0} /\ PageMaxRecords \in Nat \ {0}
    /\ \A t \in Timestamp : DayOf[t] \in Day
    /\ Cutoffs \subseteq Nat /\ Cutoffs # {}
BY RollupAssumption DEF Day

LEMMA GridIsNat == Grid \subseteq Nat /\ 0 \in Grid
<1>1. \A k \in Nat : k * Interval \in Nat
  BY TimestampsAreNumbers
<1>2. 0 * Interval = 0 /\ 0 \in Nat
  BY TimestampsAreNumbers
<1> QED
  BY <1>1, <1>2 DEF Grid

LEMMA GridStep ==
    ASSUME NEW w \in Grid
    PROVE  w + Interval \in Grid /\ w + Interval > w /\ w + Interval > 0 /\ w \in Nat
<1>1. PICK k \in Nat : w = k * Interval
  BY DEF Grid
<1>2. (k + 1) * Interval = k * Interval + Interval /\ k + 1 \in Nat
  BY TimestampsAreNumbers
<1>3. w + Interval \in Grid
  BY <1>1, <1>2 DEF Grid
<1> QED
  BY <1>3, GridIsNat, TimestampsAreNumbers

\* Windows do not overlap.
LEMMA GridGap ==
    ASSUME NEW v \in Grid, NEW w \in Grid, v < w
    PROVE  v + Interval <= w
<1>1. PICK j \in Nat : v = j * Interval
  BY DEF Grid
<1>2. PICK k \in Nat : w = k * Interval
  BY DEF Grid
<1>3. Interval \in Nat \ {0}
  BY TimestampsAreNumbers
<1>4. j < k
  <2>1. ASSUME j >= k PROVE FALSE
    <3>1. PICK i \in Nat : j = k + i
      BY <2>1
    <3>2. j * Interval = k * Interval + i * Interval /\ i * Interval >= 0
      BY <1>3, <3>1
    <3> QED
      BY <1>1, <1>2, <1>3, <3>2
  <2> QED
    BY <2>1
<1>5. PICK i \in Nat : k = j + 1 + i
  <2>1. k - j - 1 \in Nat /\ k = j + 1 + (k - j - 1)
    BY <1>4
  <2> QED
    BY <2>1
<1>6. k * Interval = j * Interval + Interval + i * Interval /\ i * Interval >= 0
  BY <1>3, <1>5
<1> QED
  BY <1>1, <1>2, <1>3, <1>6

LEMMA FloorInGrid == ASSUME NEW t \in Nat PROVE Floor(t) \in Grid
<1>1. t \div Interval \in Nat
  BY TimestampsAreNumbers
<1> QED
  BY <1>1 DEF Floor, Grid

LEMMA SmallestIs ==
    ASSUME NEW S, S \subseteq Nat, S # {}
    PROVE  Smallest(S) \in S /\ \A y \in S : Smallest(S) <= y
<1>1. PICK x \in S : \A y \in S : <<y, x>> \notin OpToRel(<, Nat)
  BY WFMin, NatLessThanWellFounded, Zenon
<1>2. \A y \in S : ~(y < x)
  BY <1>1, Zenon DEF OpToRel
<1>3. \A y \in S : x <= y
  BY <1>2
<1> QED
  BY <1>3, Zenon DEF Smallest

\* A set of numbers that is bounded has a largest one.
LEMMA LargestIs ==
    ASSUME NEW S, S \subseteq Nat, S # {}, NEW b \in Nat, \A y \in S : y <= b
    PROVE  Largest(S) \in S /\ (\A y \in S : Largest(S) >= y) /\ Largest(S) <= b
<1> DEFINE U == {u \in Nat : \A y \in S : y <= u}
<1>1. U \subseteq Nat /\ U # {}
  OBVIOUS
<1> DEFINE x == Smallest(U)
<1>2. x \in U /\ \A u \in U : x <= u
  BY <1>1, SmallestIs
<1> HIDE DEF x
<1>3. x \in S
  <2>1. ASSUME x \notin S PROVE FALSE
    <3>1. \A y \in S : y < x /\ y \in Nat
      BY <1>2, <2>1
    <3>2. PICK y \in S : y < x /\ y \in Nat
      BY <3>1
    <3>3. x - 1 \in Nat /\ x - 1 < x
      BY <1>2, <3>2
    <3>4. \A z \in S : z <= x - 1
      BY <1>2, <3>1
    <3>5. x - 1 \in U
      BY <3>3, <3>4
    <3> QED
      BY <1>2, <3>3, <3>5
  <2> QED
    BY <2>1
<1>4. \A y \in S : x >= y
  BY <1>2
<1>5. Largest(S) \in S /\ \A y \in S : Largest(S) >= y
  BY <1>3, <1>4, Zenon DEF Largest
<1> QED
  BY <1>5

LEMMA LargerOfTwo ==
    ASSUME NEW a \in Nat, NEW b \in Nat
    PROVE  Largest({a, b}) \in Nat /\ Largest({a, b}) >= a /\ Largest({a, b}) >= b
<1> DEFINE S == {a, b}
<1>1. \E c \in Nat : \A y \in S : y <= c
  BY DEF S
<1>2. PICK c \in Nat : \A y \in S : y <= c
  BY <1>1
<1> QED
  BY <1>2, LargestIs DEF S

\* What is in the concatenation of two sequences.
LEMMA ConcatSet ==
    ASSUME NEW S, NEW a \in Seq(S), NEW b \in Seq(S)
    PROVE  ToSet(a \o b) = ToSet(a) \cup ToSet(b) /\ a \o b \in Seq(S)
<1>1. /\ Len(a \o b) = Len(a) + Len(b) /\ a \o b \in Seq(S)
      /\ \A i \in 1..Len(a \o b) : (a \o b)[i] = IF i <= Len(a) THEN a[i] ELSE b[i - Len(a)]
  BY ConcatProperties
<1>2. ASSUME NEW x \in ToSet(a \o b) PROVE x \in ToSet(a) \cup ToSet(b)
  <2>1. PICK i \in DOMAIN (a \o b) : x = (a \o b)[i]
    BY DEF ToSet
  <2> QED
    BY <1>1, <2>1 DEF ToSet
<1>3. ASSUME NEW x \in ToSet(a) PROVE x \in ToSet(a \o b)
  <2>1. PICK i \in DOMAIN a : x = a[i]
    BY <1>3 DEF ToSet
  <2>2. i \in DOMAIN (a \o b) /\ (a \o b)[i] = x
    BY <1>1, <2>1
  <2> QED
    BY <2>2 DEF ToSet
<1>4. ASSUME NEW x \in ToSet(b) PROVE x \in ToSet(a \o b)
  <2>1. PICK i \in DOMAIN b : x = b[i]
    BY <1>4 DEF ToSet
  <2>2. i + Len(a) \in DOMAIN (a \o b) /\ (a \o b)[i + Len(a)] = x
    BY <1>1, <2>1
  <2> QED
    BY <2>2 DEF ToSet
<1> QED
  BY <1>1, <1>2, <1>3, <1>4

LEMMA AppendSet ==
    ASSUME NEW S, NEW a \in Seq(S), NEW x \in S
    PROVE  ToSet(Append(a, x)) = ToSet(a) \cup {x} /\ Append(a, x) \in Seq(S)
<1>1. /\ DOMAIN Append(a, x) = (DOMAIN a) \cup {Len(a) + 1} /\ Append(a, x) \in Seq(S)
      /\ \A i \in DOMAIN a : Append(a, x)[i] = a[i]
      /\ Append(a, x)[Len(a) + 1] = x
  OBVIOUS
<1> QED
  BY <1>1 DEF ToSet

LEMMA SmallSets ==
    ToSet(<<>>) = {} /\ \A x : ToSet(<<x>>) = {x}
BY DEF ToSet


-----------------------------------------------------------------------------
(* What a step does to the source.                                         *)

\* What is stored stays stored, and a sample that comes below the newest of its metric is
\* noted as late.
SourceStep ==
    /\ \A d \in Day : Kept(d) \subseteq Kept(d)'
    /\ late \subseteq late'
    /\ \A m \in Metric : newest[m] <= newest'[m]
    /\ \A d \in Day : \A s \in Kept(d)' : s \notin Kept(d) =>
         (s.ts < newest[s.metric] => s.n \in late')

LEMMA StoreStep ==
    ASSUME Types, NEW m \in Metric, NEW t \in Timestamp, NEW n \in Nat, NEW opened,
           opened \subseteq Day, Store([metric |-> m, ts |-> t, n |-> n], opened)
    PROVE  SourceOK' /\ SourceStep
<1> DEFINE s == [metric |-> m, ts |-> t, n |-> n]
           d == DayOf[t]
           p == Append(page[d], s)
           full == Len(p) >= PageMaxRecords
<1>1. s \in Sample /\ d \in Day /\ s.metric = m /\ s.ts = t /\ s.n = n /\ t \in Nat
  BY TimestampsAreNumbers DEF Sample
<1>2. /\ page \in [Day -> Seq(Sample)] /\ disk \in [Day -> SUBSET Sample]
      /\ lastTS \in [Metric -> Nat] /\ newest \in [Metric -> Nat] /\ late \subseteq Nat
      /\ \A e \in Day : \A x \in Kept(e) : x.ts <= newest[x.metric]
      /\ \A k \in Metric : lastTS[k] <= newest[k]
  BY DEF Types, SourceOK
<1> HIDE DEF s
<1>3. /\ page' = [page EXCEPT ![d] = IF full THEN <<>> ELSE p]
      /\ disk' = [disk EXCEPT ![d] = IF full THEN @ \cup ToSet(p) ELSE @]
      /\ open' = IF full THEN opened \ {d} ELSE opened \cup {d}
      /\ lastTS' = [lastTS EXCEPT ![m] = t]
      /\ newest' = [newest EXCEPT ![m] = Largest({@, t})]
      /\ late' = IF t < newest[m] THEN late \cup {n} ELSE late
  BY <1>1 DEF Store, s
<1>4. ToSet(p) = ToSet(page[d]) \cup {s} /\ p \in Seq(Sample)
  BY <1>1, <1>2, AppendSet
<1>5. ToSet(p) \subseteq Sample
  BY <1>4 DEF ToSet
<1> HIDE DEF p, full
<1>6. open' \subseteq Day
  BY <1>1, <1>3
<1>7. page' \in [Day -> Seq(Sample)] /\ disk' \in [Day -> SUBSET Sample]
  BY <1>1, <1>2, <1>3, <1>4, <1>5
<1>8. Kept(d)' = Kept(d) \cup {s}
  BY <1>1, <1>2, <1>3, <1>4, SmallSets DEF Kept
<1>9. \A e \in Day : e # d => Kept(e)' = Kept(e)
  BY <1>1, <1>2, <1>3 DEF Kept
<1>10. /\ Largest({newest[m], t}) \in Nat
       /\ Largest({newest[m], t}) >= newest[m] /\ Largest({newest[m], t}) >= t
  BY <1>1, <1>2, LargerOfTwo
<1>11. newest' \in [Metric -> Nat] /\ \A k \in Metric : newest[k] <= newest'[k]
  <2>1. PICK b \in Nat : b = Largest({newest[m], t}) /\ b >= newest[m]
    BY <1>10
  <2>2. newest' = [newest EXCEPT ![m] = b]
    BY <1>3, <2>1
  <2>3. newest' \in [Metric -> Nat]
    BY <1>2, <2>1, <2>2
  <2>4. ASSUME NEW k \in Metric PROVE newest[k] <= newest'[k]
    <3>1. newest[k] \in Nat /\ newest'[k] = IF k = m THEN b ELSE newest[k]
      BY <1>2, <2>2
    <3> QED
      BY <2>1, <3>1
  <2> QED
    BY <2>3, <2>4
<1>12. lastTS' \in [Metric -> Nat] /\ \A k \in Metric : lastTS'[k] <= newest'[k]
  BY <1>1, <1>2, <1>3, <1>10
<1>13. late' \subseteq Nat /\ late \subseteq late'
  BY <1>2, <1>3
<1>14. ASSUME NEW e \in Day, NEW x \in Kept(e)' PROVE x.ts <= newest'[x.metric]
  <2>1. CASE x \in Kept(e)
    <3>1. x.ts <= newest[x.metric]
      BY <1>2, <2>1
    <3>2. x \in Sample
      BY <1>2, <2>1 DEF Kept, ToSet
    <3>3. x.ts \in Nat /\ x.metric \in Metric
      BY <3>2, TimestampsAreNumbers DEF Sample
    <3> QED
      BY <3>1, <3>3, <1>2, <1>11
  <2>2. CASE x \notin Kept(e)
    <3>1. x = s
      BY <1>8, <1>9, <1>14, <2>2
    <3> QED
      BY <3>1, <1>1, <1>2, <1>3, <1>10
  <2> QED
    BY <2>1, <2>2
<1>15. ASSUME NEW e \in Day, NEW x \in Kept(e)', x \notin Kept(e), x.ts < newest[x.metric]
       PROVE  x.n \in late'
  <2>1. x = s
    BY <1>8, <1>9, <1>15
  <2> QED
    BY <2>1, <1>1, <1>3, <1>15
<1>16. \A e \in Day : Kept(e) \subseteq Kept(e)'
  BY <1>8, <1>9
<1>17. SourceOK'
  BY <1>6, <1>7, <1>11, <1>12, <1>13, <1>14 DEF SourceOK
<1> QED
  BY <1>11, <1>13, <1>15, <1>16, <1>17 DEF SourceStep

LEMMA SealStep ==
    ASSUME Types, NEW m \in Metric, NEW t \in Timestamp, SealDay(m, t)
    PROVE  SourceOK' /\ SourceStep /\ Smallest(open) \in Day
<1>1. /\ page \in [Day -> Seq(Sample)] /\ disk \in [Day -> SUBSET Sample]
      /\ open \subseteq Day
  BY DEF Types, SourceOK
<1>2. Smallest(open) \in open
  <2>1. open # {} /\ open \subseteq Nat
    <3>1. open # {}
      <4>1. MaxActiveDays \in Nat \ {0}
        BY RollupAssumption
      <4>2. ASSUME open = {} PROVE FALSE
        BY <4>1, <4>2, FS_EmptySet DEF SealDay, HasRoom
      <4> QED
        BY <4>2
    <3>2. Day \subseteq Nat
      BY RollupAssumption DEF Day
    <3> QED
      BY <1>1, <3>1, <3>2
  <2> QED
    BY <2>1, SmallestIs
<1> DEFINE d == Smallest(open)
<1>3. d \in Day
  BY <1>1, <1>2
<1>4. /\ disk' = [disk EXCEPT ![d] = @ \cup ToSet(page[d])]
      /\ page' = [page EXCEPT ![d] = <<>>]
      /\ open' = open \ {d}
      /\ UNCHANGED <<lastTS, newest, late>>
  BY DEF SealDay
<1> HIDE DEF d
<1>5. \A e \in Day : ToSet(page[e]) \subseteq Sample
  BY <1>1 DEF ToSet
<1>6. page' \in [Day -> Seq(Sample)] /\ disk' \in [Day -> SUBSET Sample] /\ open' \subseteq Day
  BY <1>1, <1>3, <1>4, <1>5
<1>7. \A e \in Day : Kept(e)' = Kept(e)
  BY <1>1, <1>3, <1>4, SmallSets DEF Kept
<1>8. SourceOK'
  BY <1>4, <1>6, <1>7 DEF SourceOK, Types
<1>9. \A k \in Metric : newest[k] \in Nat
  BY DEF Types, SourceOK
<1> QED
  BY <1>3, <1>4, <1>7, <1>8, <1>9 DEF SourceStep, d

LEMMA SameSource ==
    ASSUME Types, UNCHANGED <<open, page, disk, lastTS, newest, late>>
    PROVE  SourceOK' /\ SourceStep
<1>1. \A e \in Day : Kept(e)' = Kept(e)
  BY DEF Kept
<1>2. \A k \in Metric : newest[k] \in Nat
  BY DEF Types, SourceOK
<1>3. SourceOK'
  BY <1>1 DEF SourceOK, Types
<1> QED
  BY <1>1, <1>2, <1>3 DEF SourceStep

\* What the pages hold of a metric is not above the newest of it.
LEMMA ReplayedTimes ==
    ASSUME Types, NEW m \in Metric
    PROVE  LET times == {s.ts : s \in {s \in UNION {ToSet(page[d]) : d \in Day} : s.metric = m}}
           IN  times # {} => Largest(times) \in Nat /\ Largest(times) <= newest[m]
<1> DEFINE times == {s.ts : s \in {s \in UNION {ToSet(page[d]) : d \in Day} : s.metric = m}}
<1>1. newest[m] \in Nat
  BY DEF Types, SourceOK
<1>2. ASSUME NEW x \in times PROVE x \in Nat /\ x <= newest[m]
  <2>1. PICK s \in UNION {ToSet(page[d]) : d \in Day} : s.metric = m /\ x = s.ts
    OBVIOUS
  <2>2. PICK d \in Day : s \in ToSet(page[d])
    OBVIOUS
  <2>3. s \in Kept(d)
    BY <2>2 DEF Kept
  <2>4. s.ts <= newest[m]
    BY <2>1, <2>3 DEF Types, SourceOK
  <2>5. page[d] \in Seq(Sample)
    BY DEF Types, SourceOK
  <2>6. s \in Sample
    BY <2>2, <2>5 DEF ToSet
  <2> QED
    BY <2>1, <2>4, <2>6, TimestampsAreNumbers DEF Sample
<1> HIDE DEF times
<1>3. ASSUME times # {} PROVE Largest(times) \in Nat /\ Largest(times) <= newest[m]
  <2>1. times \subseteq Nat /\ \A y \in times : y <= newest[m]
    BY <1>2
  <2>2. Largest(times) \in times /\ Largest(times) <= newest[m]
    BY <1>1, <1>3, <2>1, LargestIs
  <2> QED
    BY <2>1, <2>2
<1> QED
  BY <1>3 DEF times

LEMMA CrashStep ==
    ASSUME Types, Crash
    PROVE  SourceOK' /\ SourceStep
<1>1. /\ UNCHANGED <<page, disk, newest, late>> /\ open' \subseteq Day
  BY DEF Crash
<1>2. \A e \in Day : Kept(e)' = Kept(e)
  BY <1>1 DEF Kept
<1>3. ASSUME NEW m \in Metric PROVE lastTS'[m] \in Nat /\ lastTS'[m] <= newest[m]
  <2> DEFINE times == {s.ts : s \in {s \in UNION {ToSet(page[d]) : d \in Day} : s.metric = m}}
  <2>1. lastTS'[m] = IF times = {} THEN 0 ELSE Largest(times)
    BY DEF Crash
  <2>2. times # {} => Largest(times) \in Nat /\ Largest(times) <= newest[m]
    BY ReplayedTimes
  <2>3. newest[m] \in Nat
    BY DEF Types, SourceOK
  <2> HIDE DEF times
  <2> QED
    BY <2>1, <2>2, <2>3
<1>4. lastTS' = [m \in Metric |-> lastTS'[m]]
  BY DEF Crash
<1>5. lastTS' \in [Metric -> Nat] /\ \A m \in Metric : lastTS'[m] <= newest'[m]
  BY <1>1, <1>3, <1>4
<1>6. \A k \in Metric : newest[k] \in Nat
  BY DEF Types, SourceOK
<1>7. SourceOK'
  BY <1>1, <1>2, <1>5 DEF SourceOK, Types
<1> QED
  BY <1>1, <1>2, <1>6, <1>7 DEF SourceStep


-----------------------------------------------------------------------------
(* The variables hold what they should.                                    *)

LEMMA ClosedTimes ==
    ASSUME Types, NEW s \in ClosedSamples
    PROVE  s \in Sample /\ s.ts \in Nat /\ s.ts <= newest[s.metric]
<1>1. PICK d \in Day \ (open \cup renamed) : s \in disk[d]
  BY DEF ClosedSamples
<1>2. disk[d] \subseteq Sample /\ s \in Kept(d)
  BY <1>1 DEF Types, SourceOK, Kept
<1> QED
  BY <1>1, <1>2, TimestampsAreNumbers DEF Types, SourceOK, Sample

LEMMA LatestIsBelow ==
    ASSUME Types, NEW m \in Metric
    PROVE  LatestClosed(m) \in Nat /\ LatestClosed(m) <= newest[m]
<1> DEFINE times == {s.ts : s \in {s \in ClosedSamples : s.metric = m}}
<1>1. newest[m] \in Nat /\ lastTS[m] \in Nat /\ lastTS[m] <= newest[m]
  BY DEF Types, SourceOK
<1>2. times \subseteq Nat /\ \A y \in times : y <= newest[m]
  BY ClosedTimes
<1>3. LatestClosed(m) = IF lastTS[m] # 0 THEN IF DayOf[lastTS[m]] \in open THEN 0 ELSE lastTS[m]
                        ELSE IF times = {} THEN 0 ELSE Largest(times)
  BY DEF LatestClosed
<1> HIDE DEF times
<1>4. times # {} => Largest(times) \in Nat /\ Largest(times) <= newest[m]
  BY <1>1, <1>2, LargestIs
<1>5. LatestClosed(m) \in {0, lastTS[m]} \/ (times # {} /\ LatestClosed(m) = Largest(times))
  BY <1>3
<1>6. 0 <= newest[m]
  BY <1>1
<1> QED
  BY <1>1, <1>4, <1>5, <1>6

LEMMA FirstStart == ASSUME Types PROVE InitialStart \in Grid
<1> DEFINE times == {s.ts : s \in ClosedSamples}
<1>1. times \subseteq Nat
  BY ClosedTimes
<1>2. CASE ClosedSamples = {}
  BY <1>2, GridIsNat DEF InitialStart
<1>3. CASE ClosedSamples # {}
  <2>1. times # {}
    BY <1>3
  <2>2. Smallest(times) \in Nat
    BY <1>1, <2>1, SmallestIs
  <2>3. InitialStart = Floor(Smallest(times))
    BY <1>3 DEF InitialStart
  <2> QED
    BY <2>2, <2>3, FloorInGrid
<1> QED
  BY <1>2, <1>3

\* What LoadJobs makes of a job.
LEMMA JobLoaded ==
    ASSUME Types, NEW m \in Metric, NEW c \in Nat
    PROVE  /\ JobState(m, c) \in Job
           /\ JobState(m, c).safe <= newest[m]
           /\ JobState(m, c).loaded = checkpoint[m]
           /\ checkpoint[m] # 0 => JobState(m, c).from = checkpoint[m]
           /\ JobState(m, c).next = 0 \/ JobState(m, c).next = JobState(m, c).from
           /\ JobState(m, c).updated = 0
<1> DEFINE safe == Lower(LatestClosed(m), c)
           start == IF checkpoint[m] = 0 THEN InitialStart ELSE checkpoint[m]
<1>1. safe \in Nat /\ safe <= newest[m]
  <2>1. LatestClosed(m) \in Nat /\ LatestClosed(m) <= newest[m]
    BY LatestIsBelow
  <2>2. newest[m] \in Nat
    BY DEF Types, SourceOK
  <2> QED
    BY <2>1, <2>2 DEF Lower
<1>2. checkpoint[m] \in Grid
  BY DEF Types, DestOK
<1>3. start \in Grid
  BY <1>2, FirstStart
<1>4. JobState(m, c) = [next |-> IF safe = 0 THEN 0 ELSE start, safe |-> safe, from |-> start,
                        loaded |-> checkpoint[m], updated |-> 0]
  BY DEF JobState
<1>5. checkpoint[m] # 0 => start = checkpoint[m]
  OBVIOUS
<1> HIDE DEF safe, start
<1> QED
  BY <1>1, <1>2, <1>3, <1>4, <1>5, GridIsNat DEF Job

LEMMA RowIsNotNone == \A r \in Row : r # NoRow
BY DEF Row, NoRow

\* What InsertRow and FullPageFails put into the page.
LEMMA PageOK ==
    ASSUME Types, row \in Row
    PROVE  /\ Page \in Seq(Row)
           /\ ToSet(Page) \subseteq ToSet(destPage) \cup {row} /\ row \in ToSet(Page)
           /\ ~Behind => Page = Append(destPage, row)
           /\ Behind => Page = <<row>>
<1>1. destPage \in Seq(Row)
  BY DEF Types, DestOK
<1>2. ToSet(Append(destPage, row)) = ToSet(destPage) \cup {row} /\ Append(destPage, row) \in Seq(Row)
  BY <1>1, AppendSet
<1>3. <<row>> \in Seq(Row) /\ ToSet(<<row>>) = {row}
  BY SmallSets
<1> QED
  BY <1>2, <1>3 DEF Page

\* What InsertRow does to the destination's rows.
LEMMA Inserted ==
    ASSUME Types, row \in Row, InsertRow
    PROVE  /\ destPage' \in Seq(Row) /\ destFile' \in Seq(Row)
           /\ ToSet(destFile) \subseteq ToSet(destFile')
           /\ ToSet(destFile') \cup ToSet(destPage') = ToSet(destFile) \cup ToSet(destPage) \cup {row}
<1>1. destPage \in Seq(Row) /\ destFile \in Seq(Row)
  BY DEF Types, DestOK
<1>2. /\ destPage' = IF Full THEN <<>> ELSE Page
      /\ destFile' = destFile \o (IF Behind THEN destPage ELSE <<>>) \o (IF Full THEN Page ELSE <<>>)
  BY DEF InsertRow
<1> DEFINE a == IF Behind THEN destPage ELSE <<>>
           b == IF Full THEN Page ELSE <<>>
<1>3. <<>> \in Seq(Row) /\ ToSet(<<>>) = {}
  BY SmallSets
<1>4. a \in Seq(Row) /\ b \in Seq(Row)
  BY <1>1, <1>3, PageOK
<1>5. destFile' = (destFile \o a) \o b
  BY <1>2
<1> HIDE DEF a, b
<1>6. ToSet(destFile \o a) = ToSet(destFile) \cup ToSet(a) /\ destFile \o a \in Seq(Row)
  BY <1>1, <1>4, ConcatSet
<1>7. ToSet(destFile') = ToSet(destFile) \cup ToSet(a) \cup ToSet(b) /\ destFile' \in Seq(Row)
  <2> DEFINE c == destFile \o a
  <2>1. c \in Seq(Row) /\ ToSet(c) = ToSet(destFile) \cup ToSet(a) /\ destFile' = c \o b
    BY <1>5, <1>6
  <2> HIDE DEF c
  <2>2. ToSet(c \o b) = ToSet(c) \cup ToSet(b) /\ c \o b \in Seq(Row)
    BY <1>4, <2>1, ConcatSet
  <2> QED
    BY <2>1, <2>2, Zenon
<1>8. ToSet(a) \cup ToSet(b) \cup ToSet(destPage') = ToSet(destPage) \cup {row}
  <2>1. ToSet(b) \cup ToSet(destPage') = ToSet(Page)
    BY <1>2, <1>3 DEF b
  <2>2. CASE Behind
    <3>1. ToSet(a) = ToSet(destPage) /\ ToSet(Page) = {row}
      BY <2>2, PageOK, SmallSets DEF a
    <3> QED
      BY <2>1, <3>1
  <2>3. CASE ~Behind
    <3>1. ToSet(a) = {} /\ Page = Append(destPage, row)
      BY <2>3, <1>3, PageOK DEF a
    <3>2. ToSet(Append(destPage, row)) = ToSet(destPage) \cup {row}
      BY <1>1, AppendSet
    <3>3. ToSet(Page) = ToSet(destPage) \cup {row}
      BY <3>1, <3>2
    <3> QED
      BY <2>1, <3>1, <3>3
  <2> QED
    BY <2>2, <2>3
<1> QED
  BY <1>1, <1>2, <1>3, <1>7, <1>8, PageOK

\* What a flush does to them.
LEMMA Flushed ==
    ASSUME Types, destFile' = destFile \o destPage, destPage' = <<>>
    PROVE  /\ destPage' \in Seq(Row) /\ destFile' \in Seq(Row)
           /\ ToSet(destFile') = ToSet(destFile) \cup ToSet(destPage)
           /\ ToSet(destPage') = {}
BY ConcatSet, SmallSets DEF Types, DestOK

LEMMA InitTypes == ASSUME Init PROVE Types
<1>1. SourceOK
  <2>1. /\ open = {} /\ page = [d \in Day |-> <<>>] /\ disk = [d \in Day |-> {}]
        /\ lastTS = [m \in Metric |-> 0] /\ newest = [m \in Metric |-> 0] /\ late = {}
    BY DEF Init
  <2>2. \A d \in Day : Kept(d) = {}
    BY <2>1, SmallSets DEF Kept
  <2> QED
    BY <2>1, <2>2 DEF SourceOK
<1>2. DestOK
  BY GridIsNat DEF Init, DestOK
<1>3. RunOK
  <2>1. cutoff \in Nat
    <3>1. Smallest(Cutoffs) \in Cutoffs
      BY TimestampsAreNumbers, SmallestIs
    <3> QED
      BY <3>1, TimestampsAreNumbers DEF Init
  <2>2. jobs \in [Metric -> Job]
    BY GridIsNat DEF Init, NoJob, Job
  <2> QED
    BY <2>1, <2>2 DEF Init, RunOK
<1> QED
  BY <1>1, <1>2, <1>3 DEF Types


LEMMA TypesStep ==
    ASSUME Types, [Next]_vars
    PROVE  Types' /\ SourceStep
<1>0. SourceOK /\ DestOK /\ RunOK
  BY DEF Types
<1>s. ASSUME UNCHANGED <<open, page, disk, lastTS, newest, late>>
      PROVE  SourceOK' /\ SourceStep
  BY <1>s, SameSource
<1>d. ASSUME UNCHANGED <<destPage, destFile, destLast, checkpoint, from>>
      PROVE  DestOK'
  BY <1>0, <1>d DEF DestOK
<1>1. ASSUME NEW m \in Metric, NEW t \in Timestamp, AddSample(m, t)
      PROVE  Types' /\ SourceStep
  <2>1. calls + 1 \in Nat /\ open \subseteq Day
    BY <1>0 DEF RunOK, SourceOK
  <2>2. SourceOK' /\ SourceStep
    BY <1>1, <2>1, StoreStep DEF AddSample
  <2>3. DestOK' /\ RunOK'
    BY <1>0, <1>1, <1>d, <2>1 DEF AddSample, RunOK
  <2> QED
    BY <2>2, <2>3 DEF Types
<1>2. ASSUME NEW m \in Metric, NEW t \in Timestamp, SealDay(m, t)
      PROVE  Types' /\ SourceStep
  <2>1. SourceOK' /\ SourceStep /\ Smallest(open) \in Day
    BY <1>2, SealStep
  <2>2. call' = [metric |-> m, ts |-> t, sealing |-> Smallest(open)]
    BY <1>2 DEF SealDay
  <2>3. call' \in [metric : Metric, ts : Timestamp, sealing : Day]
    BY <2>1, <2>2
  <2>4. DestOK' /\ RunOK'
    BY <1>0, <1>2, <1>d, <2>3 DEF SealDay, RunOK
  <2> QED
    BY <2>1, <2>4 DEF Types
<1>3. ASSUME FinishAdd PROVE Types' /\ SourceStep
  <2>1. call \in [metric : Metric, ts : Timestamp, sealing : Day]
    BY <1>0, <1>3 DEF FinishAdd, RunOK
  <2>2. call.metric \in Metric /\ call.ts \in Timestamp /\ calls \in Nat /\ open \subseteq Day
    BY <1>0, <2>1 DEF RunOK, SourceOK
  <2>3. Store([metric |-> call.metric, ts |-> call.ts, n |-> calls], open)
    BY <1>3 DEF FinishAdd
  <2>4. SourceOK' /\ SourceStep
    BY <2>2, <2>3, StoreStep
  <2>5. DestOK' /\ RunOK'
    BY <1>0, <1>3, <1>d DEF FinishAdd, RunOK
  <2> QED
    BY <2>4, <2>5 DEF Types
<1>4. ASSUME LoadJobs PROVE Types' /\ SourceStep
  <2>1. PICK c \in {c \in Cutoffs : c >= cutoff} :
            cutoff' = c /\ jobs' = [m \in Metric |-> JobState(m, c)]
    BY <1>4 DEF LoadJobs
  <2>2. c \in Nat
    BY TimestampsAreNumbers
  <2>3. \A m \in Metric : JobState(m, c) \in Job
    BY <2>2, JobLoaded
  <2>4. jobs' \in [Metric -> Job] /\ cutoff' \in Nat
    BY <2>1, <2>2, <2>3
  <2> QED
    BY <1>0, <1>4, <1>s, <1>d, <2>4 DEF LoadJobs, RunOK, Types
<1>5. ASSUME NEW m \in Metric, NextWindow(m) PROVE Types' /\ SourceStep
  <2> DEFINE w == jobs[m].next
             points == {s.n : s \in InWindow(m, w)}
  <2>1. jobs[m] \in Job /\ w \in Grid
    BY <1>0 DEF RunOK, Job
  <2>2. w + Interval \in Grid
    BY <2>1, GridStep
  <2>3. points \subseteq Nat
    <3>1. ASSUME NEW s \in Stored PROVE s.n \in Nat
      <4>1. PICK d \in Day : s \in disk[d] \cup ToSet(page[d])
        BY DEF Stored
      <4>2. page[d] \in Seq(Sample) /\ disk[d] \subseteq Sample
        BY <1>0 DEF SourceOK
      <4>3. s \in Sample
        BY <4>1, <4>2 DEF ToSet
      <4> QED
        BY <4>3 DEF Sample
    <3> QED
      BY <3>1 DEF InWindow
  <2>4. jobs' \in [Metric -> Job]
    <3>1. Completed(m, w) \in [Metric -> Job]
      BY <1>0, <2>2 DEF RunOK, Completed, Job
    <3> QED
      BY <1>0, <1>5, <3>1 DEF NextWindow, RunOK
  <2>5. row' # NoRow => row' \in Row
    <3>1. 1 \in 1..Aggregates
      BY TimestampsAreNumbers
    <3>2. [metric |-> m, agg |-> 1, start |-> w, of |-> points] \in Row
      BY <2>1, <2>3, <3>1 DEF Row
    <3>3. row' = row \/ row' = [metric |-> m, agg |-> 1, start |-> w, of |-> points]
      BY <1>5 DEF NextWindow
    <3> QED
      BY <1>0, <3>2, <3>3, <1>5 DEF NextWindow
  <2> HIDE DEF w, points
  <2>6. RunOK'
    BY <1>0, <1>5, <2>4, <2>5 DEF NextWindow, RunOK
  <2> QED
    BY <1>5, <1>s, <1>d, <2>6 DEF NextWindow, Types
<1>g. ASSUME GiveUp, row # NoRow PROVE jobs' \in [Metric -> Job] /\ row' = NoRow
  <2>1. row.metric \in Metric
    BY <1>0, <1>g DEF RunOK, Row
  <2> QED
    BY <1>0, <1>g, <2>1, GridIsNat DEF RunOK, GiveUp, Job
<1>6. ASSUME RowRefused PROVE Types' /\ SourceStep
  <2>1. jobs' \in [Metric -> Job] /\ row' = NoRow
    BY <1>6, <1>g DEF RowRefused
  <2> QED
    BY <1>0, <1>6, <1>s, <1>d, <2>1 DEF RowRefused, RunOK, Types
<1>l. ASSUME row \in Row, destLast' = [destLast EXCEPT ![<<row.metric, row.agg>>] = row.start]
      PROVE  destLast' \in [Metric \X (1..Aggregates) -> Nat]
  <2>1. row.start \in Nat
    BY <1>l, GridIsNat DEF Row
  <2> QED
    BY <1>0, <1>l, <2>1 DEF DestOK
<1>7. ASSUME InsertRow PROVE Types' /\ SourceStep
  <2>1. row \in Row
    BY <1>0, <1>7 DEF InsertRow, RunOK
  <2>2. destPage' \in Seq(Row) /\ destFile' \in Seq(Row)
    BY <1>7, <2>1, Inserted
  <2>3. DestOK'
    BY <1>0, <1>7, <1>l, <2>1, <2>2 DEF InsertRow, DestOK
  <2>4. jobs' \in [Metric -> Job] /\ (row' # NoRow => row' \in Row)
    <3>1. CASE row.agg < Aggregates
      <4>1. row' = [row EXCEPT !.agg = @ + 1] /\ jobs' = jobs
        BY <1>7, <3>1 DEF InsertRow
      <4>2. row.agg + 1 \in 1..Aggregates
        BY <2>1, <3>1, TimestampsAreNumbers DEF Row
      <4> QED
        BY <1>0, <2>1, <4>1, <4>2 DEF Row, RunOK
    <3>2. CASE ~(row.agg < Aggregates)
      <4>1. row' = NoRow /\ jobs' = Completed(row.metric, row.start)
        BY <1>7, <3>2 DEF InsertRow
      <4>2. row.start + Interval \in Grid /\ row.metric \in Metric
        BY <2>1, GridStep DEF Row
      <4> QED
        BY <1>0, <4>1, <4>2 DEF Completed, RunOK, Job
    <3> QED
      BY <3>1, <3>2
  <2> QED
    BY <1>0, <1>7, <1>s, <2>3, <2>4 DEF InsertRow, RunOK, Types
<1>8. ASSUME InsertFails PROVE Types' /\ SourceStep
  <2>1. jobs' \in [Metric -> Job] /\ row' = NoRow
    BY <1>8, <1>g DEF InsertFails
  <2> QED
    BY <1>0, <1>8, <1>s, <1>d, <2>1 DEF InsertFails, Fault, RunOK, Types
<1>9. ASSUME FullPageFails PROVE Types' /\ SourceStep
  <2>1. jobs' \in [Metric -> Job] /\ row' = NoRow /\ row \in Row
    BY <1>0, <1>9, <1>g DEF FullPageFails, RunOK
  <2>2. destPage' \in Seq(Row)
    BY <1>9, <2>1, PageOK DEF FullPageFails
  <2>3. DestOK'
    BY <1>0, <1>9, <1>l, <2>1, <2>2 DEF FullPageFails, DestOK
  <2> QED
    BY <1>0, <1>9, <1>s, <2>1, <2>3 DEF FullPageFails, Fault, RunOK, Types
<1>10. ASSUME WindowsDone \/ TriggerDone PROVE Types' /\ SourceStep
  BY <1>0, <1>10, <1>s, <1>d DEF WindowsDone, TriggerDone, RunOK, Types
<1>f. ASSUME destFile' = destFile \o destPage, destPage' = <<>>,
             UNCHANGED <<destLast, checkpoint, from>>
      PROVE  DestOK'
  <2>1. destPage' \in Seq(Row) /\ destFile' \in Seq(Row)
    BY <1>f, Flushed
  <2> QED
    BY <1>0, <1>f, <2>1 DEF DestOK
<1>11. ASSUME FlushDest PROVE Types' /\ SourceStep
  BY <1>0, <1>11, <1>s, <1>f DEF FlushDest, RunOK, Types
<1>12. ASSUME FlushFails PROVE Types' /\ SourceStep
  BY <1>0, <1>12, <1>s, <1>d DEF FlushFails, Fault, RunOK, Types
<1>h. ASSUME NEW m \in Metric, jobs' = Handled(m) PROVE jobs' \in [Metric -> Job]
  BY <1>0, <1>h, GridIsNat DEF RunOK, Handled, Job
<1>13. ASSUME NEW m \in Metric, AppendCheckpoint(m) PROVE Types' /\ SourceStep
  <2>1. jobs[m].updated \in Grid /\ jobs[m].from \in Grid
    BY <1>0 DEF RunOK, Job
  <2>2. checkpoint' \in [Metric -> Grid] /\ from' \in [Metric -> Grid]
    BY <1>0, <1>13, <2>1 DEF AppendCheckpoint, DestOK
  <2>3. jobs' \in [Metric -> Job]
    BY <1>13, <1>h DEF AppendCheckpoint
  <2>4. DestOK'
    BY <1>0, <1>13, <2>2 DEF AppendCheckpoint, DestOK
  <2> QED
    BY <1>0, <1>13, <1>s, <2>3, <2>4 DEF AppendCheckpoint, RunOK, Types
<1>14. ASSUME NEW m \in Metric, AppendFails(m) PROVE Types' /\ SourceStep
  <2>1. jobs' \in [Metric -> Job]
    BY <1>14, <1>h DEF AppendFails
  <2> QED
    BY <1>0, <1>14, <1>s, <1>d, <2>1 DEF AppendFails, Fault, RunOK, Types
<1>15. ASSUME ResetDest PROVE Types' /\ SourceStep
  <2>1. DestOK'
    BY <1>0, <1>15 DEF ResetDest, DestOK
  <2> QED
    BY <1>0, <1>15, <1>s, <2>1 DEF ResetDest, RunOK, Types
<1>16. ASSUME ClearCheckpoints PROVE Types' /\ SourceStep
  <2>1. DestOK'
    BY <1>0, <1>16, GridIsNat DEF ClearCheckpoints, DestOK
  <2> QED
    BY <1>0, <1>16, <1>s, <2>1 DEF ClearCheckpoints, RunOK, Types
<1>17. ASSUME BackfillTrigger PROVE Types' /\ SourceStep
  BY <1>0, <1>17, <1>s, <1>d DEF BackfillTrigger, RunOK, Types
<1>18. ASSUME BackfillDone PROVE Types' /\ SourceStep
  BY <1>0, <1>18, <1>s, <1>f DEF BackfillDone, RunOK, Types
<1>19. ASSUME Crash PROVE Types' /\ SourceStep
  <2>1. SourceOK' /\ SourceStep
    BY <1>19, CrashStep
  <2>2. DestOK'
    BY <1>0, <1>19 DEF Crash, DestOK
  <2>3. jobs' \in [Metric -> Job]
    BY <1>19, GridIsNat DEF Crash, NoJob, Job
  <2>4. RunOK'
    BY <1>0, <1>19, <2>3 DEF Crash, RunOK
  <2> QED
    BY <2>1, <2>2, <2>4 DEF Types
<1>20. ASSUME UNCHANGED vars PROVE Types' /\ SourceStep
  BY <1>0, <1>20, <1>s, <1>d DEF RunOK, Types
<1> QED
  BY <1>1, <1>2, <1>3, <1>4, <1>5, <1>6, <1>7, <1>8, <1>9, <1>10, <1>11, <1>12, <1>13, <1>14,
     <1>15, <1>16, <1>17, <1>18, <1>19, <1>20 DEF Next, Add, Jobs


-----------------------------------------------------------------------------
(* No row is of a partial window.                                          *)

Recorded == ToSet(destFile) \cup ToSet(destPage)

\* The newest sample of the metric lies behind the window, so that a sample that still
\* comes into the window is late.
Exact(r) ==
    /\ r.start + Interval <= newest[r.metric]
    /\ \A s \in InWindow(r.metric, r.start) : s.n \in late \/ s.n \in r.of
    /\ \A n \in r.of : \E s \in InWindow(r.metric, r.start) : s.n = n

ExactInv ==
    /\ \A r \in Row : r \in Recorded \/ r = row => Exact(r)
    /\ \A m \in Metric : jobs[m].safe <= newest[m]

LEMMA StoredIs == ASSUME NEW s PROVE s \in Stored <=> \E d \in Day : s \in Kept(d)
BY DEF Stored, Kept

\* A window that ends below the newest sample has all the samples it will ever have in order.
LEMMA WindowKept ==
    ASSUME Types, Types', SourceStep, NEW m \in Metric, NEW w \in Nat, w + Interval <= newest[m]
    PROVE  /\ InWindow(m, w) \subseteq InWindow(m, w)'
           /\ \A s \in InWindow(m, w)' : s \in InWindow(m, w) \/ s.n \in late'
<1>1. Stored' = UNION {Kept(d)' : d \in Day}
  BY DEF Stored, Kept
<1>2. ASSUME NEW s \in InWindow(m, w) PROVE s \in InWindow(m, w)'
  <2>1. s \in Stored /\ s.metric = m /\ w <= s.ts /\ s.ts < w + Interval
    BY DEF InWindow
  <2>2. PICK d \in Day : s \in Kept(d)
    BY <2>1, StoredIs
  <2>3. s \in Kept(d)'
    BY <2>2 DEF SourceStep
  <2>4. s \in Stored'
    BY <1>1, <2>3
  <2> QED
    BY <2>1, <2>4 DEF InWindow
<1>3. ASSUME NEW s \in InWindow(m, w)', s \notin InWindow(m, w) PROVE s.n \in late'
  <2>1. s \in Stored' /\ s.metric = m /\ w <= s.ts /\ s.ts < w + Interval
    BY DEF InWindow
  <2>2. PICK d \in Day : s \in Kept(d)'
    BY <1>1, <2>1
  <2>3. s \notin Kept(d)
    BY <1>3, <2>1, StoredIs DEF InWindow
  <2>4. s.ts < newest[s.metric]
    <3>1. newest[m] \in Nat /\ Interval \in Nat
      BY TimestampsAreNumbers DEF Types, SourceOK
    <3>2. page'[d] \in Seq(Sample) /\ disk'[d] \subseteq Sample
      BY DEF Types, SourceOK
    <3>3. s \in Sample
      BY <2>2, <3>2 DEF Kept, ToSet
    <3>4. s.ts \in Nat
      BY <3>3, TimestampsAreNumbers DEF Sample
    <3> QED
      BY <2>1, <3>1, <3>4
  <2> QED
    BY <2>2, <2>3, <2>4 DEF SourceStep
<1> QED
  BY <1>2, <1>3

LEMMA ExactKept ==
    ASSUME Types, Types', SourceStep, NEW r \in Row, Exact(r)
    PROVE  Exact(r)'
<1> DEFINE m == r.metric
           w == r.start
<1>1. m \in Metric /\ w \in Nat
  BY GridIsNat DEF Row
<1>2. /\ w + Interval <= newest[m]
      /\ \A s \in InWindow(m, w) : s.n \in late \/ s.n \in r.of
      /\ \A n \in r.of : \E s \in InWindow(m, w) : s.n = n
  BY DEF Exact
<1> HIDE DEF m, w
<1>3. /\ InWindow(m, w) \subseteq InWindow(m, w)'
      /\ \A s \in InWindow(m, w)' : s \in InWindow(m, w) \/ s.n \in late'
  BY <1>1, <1>2, WindowKept
<1>4. w + Interval <= newest'[m]
  <2>1. newest[m] \in Nat /\ newest'[m] \in Nat /\ newest[m] <= newest'[m] /\ Interval \in Nat
    BY <1>1, TimestampsAreNumbers DEF Types, SourceOK, SourceStep
  <2> QED
    BY <1>1, <1>2, <2>1
<1>5. late \subseteq late'
  BY DEF SourceStep
<1>6. \A s \in InWindow(m, w)' : s.n \in late' \/ s.n \in r.of
  BY <1>2, <1>3, <1>5
<1>7. \A n \in r.of : \E s \in InWindow(m, w)' : s.n = n
  BY <1>2, <1>3
<1> QED
  BY <1>4, <1>6, <1>7 DEF Exact, m, w

LEMMA ExactStays ==
    ASSUME Types, Types', SourceStep, ExactInv,
           \A r \in Row : r \in Recorded' \/ r = row' => r \in Recorded \/ r = row \/ Exact(r),
           \A m \in Metric : jobs'[m].safe = jobs[m].safe \/ jobs'[m].safe <= newest[m]
    PROVE  ExactInv'
<1>1. \A r \in Row : r \in Recorded' \/ r = row' => Exact(r)
  BY DEF ExactInv
<1>2. ASSUME NEW r \in Row, r \in Recorded' \/ r = row' PROVE Exact(r)'
  BY <1>1, <1>2, ExactKept
<1>3. ASSUME NEW m \in Metric PROVE jobs'[m].safe <= newest'[m]
  <2>1. jobs'[m].safe <= newest[m]
    BY DEF ExactInv
  <2>2. newest[m] \in Nat /\ newest'[m] \in Nat /\ newest[m] <= newest'[m]
    BY DEF Types, SourceOK, SourceStep
  <2>3. jobs'[m].safe \in Nat
    BY DEF Types, RunOK, Job
  <2> QED
    BY <2>1, <2>2, <2>3
<1> QED
  BY <1>2, <1>3 DEF ExactInv

\* The row of a window that is due.
LEMMA WindowRead ==
    ASSUME Types, ExactInv, NEW m \in Metric, Due(jobs[m])
    PROVE  LET w == jobs[m].next IN
           /\ w \in Grid /\ w # 0 /\ w + Interval <= newest[m]
           /\ Exact([metric |-> m, agg |-> 1, start |-> w, of |-> {s.n : s \in InWindow(m, w)}])
<1> DEFINE w == jobs[m].next
<1>1. w \in Grid /\ w # 0 /\ w + Interval <= jobs[m].safe /\ jobs[m].safe \in Nat
  BY DEF Due, Types, RunOK, Job
<1>2. newest[m] \in Nat /\ jobs[m].safe <= newest[m]
  BY DEF Types, SourceOK, ExactInv
<1> HIDE DEF w
<1>3. w + Interval <= newest[m] /\ w \in Nat
  BY <1>1, <1>2, GridStep
<1>4. Exact([metric |-> m, agg |-> 1, start |-> w, of |-> {s.n : s \in InWindow(m, w)}])
  BY <1>3 DEF Exact
<1> QED
  BY <1>1, <1>3, <1>4 DEF w

\* What the end of a window changes in a job.
LEMMA CompletedJob ==
    ASSUME Types, NEW m \in Metric, NEW w, NEW k \in Metric
    PROVE  LET j == Completed(m, w)[k] IN
           /\ j.safe = jobs[k].safe /\ j.from = jobs[k].from /\ j.loaded = jobs[k].loaded
           /\ k = m => j.next = w + Interval /\ j.updated = w + Interval
           /\ k # m => j = jobs[k]
<1>1. jobs \in [Metric -> Job]
  BY DEF Types, RunOK
<1>2. CASE k = m
  BY <1>1, <1>2 DEF Completed, Job
<1>3. CASE k # m
  BY <1>1, <1>3 DEF Completed, Job
<1> QED
  BY <1>2, <1>3

LEMMA ExactStep ==
    ASSUME Types, Types', SourceStep, ExactInv, [Next]_vars
    PROVE  ExactInv'
<1>s. ASSUME UNCHANGED <<destPage, destFile, row, jobs>> PROVE ExactInv'
  BY <1>s, ExactStays DEF Recorded
<1>r. \A r \in Row : r # NoRow
  BY RowIsNotNone
<1>g. ASSUME GiveUp, row # NoRow
      PROVE  row' = NoRow /\ \A m \in Metric : jobs'[m].safe = jobs[m].safe
  BY <1>g DEF GiveUp, Types, RunOK, Job
<1>1. ASSUME NEW m \in Metric, NEW t \in Timestamp, AddSample(m, t) \/ SealDay(m, t)
      PROVE  ExactInv'
  BY <1>1, <1>s DEF AddSample, SealDay
<1>2. ASSUME FinishAdd PROVE ExactInv'
  BY <1>2, <1>s DEF FinishAdd
<1>3. ASSUME LoadJobs PROVE ExactInv'
  <2>1. PICK c \in {c \in Cutoffs : c >= cutoff} : jobs' = [m \in Metric |-> JobState(m, c)]
    BY <1>3 DEF LoadJobs
  <2>2. c \in Nat
    BY TimestampsAreNumbers
  <2>3. \A m \in Metric : jobs'[m].safe <= newest[m]
    BY <2>1, <2>2, JobLoaded
  <2> QED
    BY <1>3, <2>3, ExactStays DEF LoadJobs, Recorded
<1>4. ASSUME NEW m \in Metric, NextWindow(m) PROVE ExactInv'
  <2> DEFINE w == jobs[m].next
             points == {s.n : s \in InWindow(m, w)}
             new == [metric |-> m, agg |-> 1, start |-> w, of |-> points]
  <2>1. Due(jobs[m])
    BY <1>4 DEF NextWindow, NextJobs
  <2>2. Exact(new)
    BY <2>1, WindowRead
  <2>3. row' = row \/ row' = new
    BY <1>4 DEF NextWindow
  <2>4. \A k \in Metric : jobs'[k].safe = jobs[k].safe
    <3>1. jobs' = jobs \/ jobs' = Completed(m, w)
      BY <1>4 DEF NextWindow
    <3> QED
      BY <3>1, CompletedJob
  <2>5. Recorded' = Recorded
    BY <1>4 DEF NextWindow, Recorded
  <2> HIDE DEF new
  <2> QED
    BY <2>2, <2>3, <2>4, <2>5, ExactStays
<1>5. ASSUME RowRefused PROVE ExactInv'
  <2>1. Recorded' = Recorded
    BY <1>5 DEF RowRefused, Recorded
  <2> QED
    BY <1>5, <1>g, <1>r, <2>1, ExactStays DEF RowRefused
<1>6. ASSUME InsertRow PROVE ExactInv'
  <2>1. row \in Row /\ Exact(row)
    BY <1>6 DEF InsertRow, Types, RunOK, ExactInv
  <2>2. Recorded' = Recorded \cup {row}
    BY <1>6, <2>1, Inserted DEF Recorded
  <2>3. \A k \in Metric : jobs'[k].safe = jobs[k].safe
    <3>1. jobs' = jobs \/ jobs' = Completed(row.metric, row.start)
      BY <1>6 DEF InsertRow
    <3>2. row.metric \in Metric
      BY <2>1 DEF Row
    <3> QED
      BY <3>1, <3>2, CompletedJob
  <2>4. ASSUME NEW r \in Row, r = row' PROVE Exact(r)
    <3>1. row' = [row EXCEPT !.agg = @ + 1]
      BY <1>6, <1>r, <2>4 DEF InsertRow
    <3>2. r.metric = row.metric /\ r.start = row.start /\ r.of = row.of
      BY <2>1, <2>4, <3>1 DEF Row
    <3> QED
      BY <2>1, <3>2 DEF Exact
  <2> QED
    BY <2>1, <2>2, <2>3, <2>4, ExactStays
<1>7. ASSUME InsertFails PROVE ExactInv'
  <2>1. Recorded' = Recorded
    BY <1>7 DEF InsertFails, Recorded
  <2> QED
    BY <1>7, <1>g, <1>r, <2>1, ExactStays DEF InsertFails
<1>8. ASSUME FullPageFails PROVE ExactInv'
  <2>1. row \in Row
    BY <1>8 DEF FullPageFails, Types, RunOK
  <2>2. Recorded' \subseteq Recorded \cup {row}
    BY <1>8, <2>1, PageOK DEF FullPageFails, Recorded
  <2> QED
    BY <1>8, <1>g, <1>r, <2>2, ExactStays DEF FullPageFails
<1>9. ASSUME WindowsDone \/ TriggerDone \/ FlushFails PROVE ExactInv'
  BY <1>9, <1>s DEF WindowsDone, TriggerDone, FlushFails
<1>10. ASSUME FlushDest \/ BackfillDone PROVE ExactInv'
  <2>1. destFile' = destFile \o destPage /\ destPage' = <<>> /\ UNCHANGED <<row, jobs>>
    BY <1>10 DEF FlushDest, BackfillDone
  <2>2. Recorded' = Recorded
    BY <2>1, Flushed DEF Recorded
  <2> QED
    BY <2>1, <2>2, ExactStays
<1>11. ASSUME NEW m \in Metric, AppendCheckpoint(m) \/ AppendFails(m) PROVE ExactInv'
  <2>1. Recorded' = Recorded /\ row' = row
    BY <1>11 DEF AppendCheckpoint, AppendFails, Recorded
  <2>2. \A k \in Metric : jobs'[k].safe = jobs[k].safe
    BY <1>11 DEF AppendCheckpoint, AppendFails, Handled, Types, RunOK, Job
  <2> QED
    BY <2>1, <2>2, ExactStays
<1>12. ASSUME ResetDest PROVE ExactInv'
  <2>1. Recorded' = {} /\ UNCHANGED <<row, jobs>>
    BY <1>12, SmallSets DEF ResetDest, Recorded
  <2> QED
    BY <2>1, ExactStays
<1>13. ASSUME ClearCheckpoints \/ BackfillTrigger PROVE ExactInv'
  BY <1>13, <1>s DEF ClearCheckpoints, BackfillTrigger
<1>14. ASSUME Crash PROVE ExactInv'
  <2>1. Recorded' \subseteq Recorded /\ row' = NoRow /\ jobs' = [m \in Metric |-> NoJob]
    BY <1>14, SmallSets DEF Crash, Recorded
  <2>2. \A m \in Metric : jobs'[m].safe = 0 /\ newest[m] \in Nat
    BY <2>1 DEF NoJob, Types, SourceOK
  <2>3. \A m \in Metric : jobs'[m].safe <= newest[m]
    BY <2>2
  <2> QED
    BY <1>r, <2>1, <2>3, ExactStays
<1>15. ASSUME UNCHANGED vars PROVE ExactInv'
  BY <1>15, <1>s
<1> QED
  BY <1>1, <1>2, <1>3, <1>4, <1>5, <1>6, <1>7, <1>8, <1>9, <1>10, <1>11, <1>12, <1>13, <1>14,
     <1>15 DEF Next, Add, Jobs

LEMMA InitExact == ASSUME Init PROVE ExactInv
<1>1. Recorded = {} /\ row = NoRow
  BY SmallSets DEF Init, Recorded
<1>2. \A m \in Metric : jobs[m].safe <= newest[m]
  BY DEF Init, NoJob
<1> QED
  BY <1>1, <1>2, RowIsNotNone DEF ExactInv

LEMMA ExactRows ==
    ASSUME Types, ExactInv
    PROVE  RowsExact
<1>1. destFile \in Seq(Row) /\ destPage \in Seq(Row)
  BY DEF Types, DestOK
<1>2. Rows = Recorded /\ Rows \subseteq Row
  <2>1. ToSet(destFile \o destPage) = ToSet(destFile) \cup ToSet(destPage)
    BY <1>1, ConcatSet
  <2>2. ToSet(destFile) \subseteq Row /\ ToSet(destPage) \subseteq Row
    BY <1>1 DEF ToSet
  <2> QED
    BY <2>1, <2>2, Zenon DEF Rows, Recorded
<1>3. ASSUME NEW r \in Rows
      PROVE  /\ OnTime(r.metric, r.start) \subseteq r.of
             /\ r.of \subseteq {s.n : s \in InWindow(r.metric, r.start)}
  <2>1. Exact(r)
    BY <1>2 DEF ExactInv
  <2> QED
    BY <2>1 DEF Exact, OnTime
<1> QED
  BY <1>3 DEF RowsExact


-----------------------------------------------------------------------------
(* Where each job stands.                                                  *)

Running == pc \in {"windows", "flush", "append"}

JobOK(m) ==
    LET j == jobs[m] IN
    /\ j.updated <= newest[m]
    /\ j.loaded # 0 => j.from = j.loaded
    /\ j.updated # 0 => j.updated > j.from /\ j.updated > j.loaded
    /\ pc = "windows" => j.next = 0 \/ (j.updated = 0 /\ j.next = j.from) \/ j.updated = j.next

JobsInv ==
    /\ Running => \A m \in Metric : JobOK(m)
    /\ row # NoRow => /\ pc = "windows" /\ row.start = jobs[row.metric].next /\ row.start # 0
    /\ \A m \in Metric : checkpoint[m] <= newest[m]

\* A job whose next window is done has moved past all it has claimed.
LEMMA JobMoves ==
    ASSUME Types, NEW m \in Metric, JobOK(m), pc = "windows", jobs[m].next # 0,
           jobs[m].next + Interval <= newest[m],
           jobs' = Completed(m, jobs[m].next), pc' = pc, newest' = newest,
           NEW k \in Metric, JobOK(k)
    PROVE  JobOK(k)'
<1> DEFINE w == jobs[m].next
<1>1. jobs[m] \in Job /\ w \in Grid /\ w \in Nat /\ jobs[m].from \in Nat /\ jobs[m].loaded \in Nat
      /\ jobs[m].updated \in Nat
  BY GridIsNat DEF Types, RunOK, Job
<1>2. jobs[m].from <= w /\ jobs[m].loaded <= w
  BY <1>1 DEF JobOK
<1>3. /\ jobs'[k].from = jobs[k].from /\ jobs'[k].loaded = jobs[k].loaded
      /\ k = m => jobs'[k].next = w + Interval /\ jobs'[k].updated = w + Interval
      /\ k # m => jobs'[k] = jobs[k]
  BY CompletedJob
<1>4. w + Interval > w /\ w + Interval \in Nat
  BY <1>1, GridStep, TimestampsAreNumbers
<1>5. w + Interval <= newest[m]
  OBVIOUS
<1> HIDE DEF w
<1>6. CASE k # m
  BY <1>3, <1>6 DEF JobOK
<1>7. CASE k = m
  <2>1. w + Interval > jobs[m].from /\ w + Interval > jobs[m].loaded
    BY <1>1, <1>2, <1>4
  <2> QED
    BY <1>3, <1>5, <1>7, <2>1 DEF JobOK
<1> QED
  BY <1>6, <1>7

LEMMA JobsStep ==
    ASSUME Types, Types', SourceStep, ExactInv, JobsInv, [Next]_vars
    PROVE  JobsInv'
<1>r. \A r \in Row : r # NoRow
  BY RowIsNotNone
<1>n. ASSUME NEW m \in Metric
      PROVE  newest[m] \in Nat /\ newest'[m] \in Nat /\ newest[m] <= newest'[m] /\ checkpoint[m] \in Nat
  BY GridIsNat DEF Types, SourceOK, SourceStep, DestOK
<1>c. ASSUME checkpoint' = checkpoint PROVE \A m \in Metric : checkpoint'[m] <= newest'[m]
  BY <1>c, <1>n DEF JobsInv
\* A step after which no trigger computes windows.
<1>i. ASSUME ~Running', row' = NoRow, checkpoint' = checkpoint PROVE JobsInv'
  BY <1>i, <1>c DEF JobsInv
<1>p. row # NoRow => pc = "windows" /\ row \in Row /\ row.metric \in Metric
  BY DEF JobsInv, Types, RunOK, Row
<1>1. ASSUME NEW m \in Metric, NEW t \in Timestamp, AddSample(m, t) \/ SealDay(m, t)
      PROVE  JobsInv'
  BY <1>1, <1>i, <1>p DEF AddSample, SealDay, MayWrite, Running
<1>2. ASSUME FinishAdd PROVE JobsInv'
  BY <1>2, <1>i, <1>p DEF FinishAdd, Running
<1>3. ASSUME LoadJobs PROVE JobsInv'
  <2>1. PICK c \in {c \in Cutoffs : c >= cutoff} : jobs' = [m \in Metric |-> JobState(m, c)]
    BY <1>3 DEF LoadJobs
  <2>2. c \in Nat
    BY TimestampsAreNumbers
  <2>3. ASSUME NEW m \in Metric PROVE JobOK(m)'
    <3>1. /\ jobs'[m] = JobState(m, c) /\ jobs'[m].loaded = checkpoint[m]
          /\ checkpoint[m] # 0 => jobs'[m].from = checkpoint[m]
          /\ jobs'[m].next = 0 \/ jobs'[m].next = jobs'[m].from
          /\ jobs'[m].updated = 0
      BY <2>1, <2>2, JobLoaded
    <3>2. newest'[m] \in Nat
      BY <1>n
    <3> QED
      BY <3>1, <3>2 DEF JobOK
  <2>4. row' = NoRow /\ checkpoint' = checkpoint
    BY <1>3, <1>p DEF LoadJobs
  <2> QED
    BY <1>c, <2>3, <2>4 DEF JobsInv
<1>4. ASSUME NEW m \in Metric, NextWindow(m) PROVE JobsInv'
  <2> DEFINE w == jobs[m].next
  <2>1. Due(jobs[m]) /\ pc = "windows" /\ UNCHANGED <<pc, newest, checkpoint>>
    BY <1>4 DEF NextWindow, NextJobs
  <2>2. w \in Grid /\ w # 0 /\ w + Interval <= newest[m]
    BY <2>1, WindowRead
  <2>3. \A k \in Metric : JobOK(k)
    BY <2>1 DEF JobsInv, Running
  <2>4. CASE row' = row /\ jobs' = Completed(m, w)
    <3>1. row' = NoRow
      BY <1>4, <2>4 DEF NextWindow
    <3>2. \A k \in Metric : JobOK(k)'
      BY <2>1, <2>2, <2>3, <2>4, JobMoves
    <3> QED
      BY <1>c, <2>1, <3>1, <3>2 DEF JobsInv
  <2>5. CASE jobs' = jobs /\ row'.metric = m /\ row'.start = w
    <3>1. \A k \in Metric : JobOK(k)'
      BY <2>1, <2>3, <2>5 DEF JobOK
    <3> QED
      BY <1>c, <2>1, <2>2, <2>5, <3>1 DEF JobsInv
  <2> DEFINE points == {s.n : s \in InWindow(m, w)}
             new == [metric |-> m, agg |-> 1, start |-> w, of |-> points]
  <2>6. (row' = row /\ jobs' = Completed(m, w)) \/ (jobs' = jobs /\ row' = new)
    BY <1>4 DEF NextWindow
  <2>7. new.metric = m /\ new.start = w
    OBVIOUS
  <2> HIDE DEF new
  <2> QED
    BY <2>4, <2>5, <2>6, <2>7
<1>g. ASSUME pc = "windows", row # NoRow, GiveUp, UNCHANGED <<pc, newest, checkpoint>>
      PROVE  JobsInv'
  <2>1. row' = NoRow /\ row.metric \in Metric
    BY <1>g, <1>p DEF GiveUp
  <2>2. ASSUME NEW k \in Metric PROVE JobOK(k)'
    <3>1. JobOK(k)
      BY <1>g DEF JobsInv, Running
    <3>2. jobs \in [Metric -> Job]
      BY DEF Types, RunOK
    <3>3. CASE k = row.metric
      <4>1. /\ jobs'[k].next = 0 /\ jobs'[k].updated = jobs[k].updated
            /\ jobs'[k].from = jobs[k].from /\ jobs'[k].loaded = jobs[k].loaded
        BY <1>g, <3>2, <3>3 DEF GiveUp, Job
      <4> QED
        BY <1>g, <3>1, <4>1 DEF JobOK
    <3>4. CASE k # row.metric
      <4>1. jobs'[k] = jobs[k]
        BY <1>g, <3>2, <3>4 DEF GiveUp
      <4> QED
        BY <1>g, <3>1, <4>1 DEF JobOK
    <3> QED
      BY <3>3, <3>4
  <2> QED
    BY <1>c, <1>g, <2>1, <2>2 DEF JobsInv
<1>5. ASSUME RowRefused PROVE JobsInv'
  BY <1>5, <1>g DEF RowRefused
<1>6. ASSUME InsertRow PROVE JobsInv'
  <2>1. row \in Row /\ row.metric \in Metric /\ row # NoRow /\ Exact(row)
    BY <1>6, <1>p DEF InsertRow, ExactInv
  <2>2. /\ pc = "windows" /\ UNCHANGED <<pc, newest, checkpoint>>
        /\ row.start = jobs[row.metric].next /\ row.start # 0
    BY <1>6, <2>1 DEF InsertRow, JobsInv
  <2>3. \A k \in Metric : JobOK(k)
    BY <2>2 DEF JobsInv, Running
  <2>4. CASE row.agg < Aggregates
    <3>1. row' = [row EXCEPT !.agg = @ + 1] /\ jobs' = jobs
      BY <1>6, <2>4 DEF InsertRow
    <3>2. row'.metric = row.metric /\ row'.start = row.start
      BY <2>1, <3>1 DEF Row
    <3>3. \A k \in Metric : JobOK(k)'
      BY <2>2, <2>3, <3>1 DEF JobOK
    <3> QED
      BY <1>c, <2>2, <3>1, <3>2, <3>3 DEF JobsInv
  <2>5. CASE ~(row.agg < Aggregates)
    <3>1. row' = NoRow /\ jobs' = Completed(row.metric, jobs[row.metric].next)
      BY <1>6, <2>2, <2>5 DEF InsertRow
    <3>2. jobs[row.metric].next + Interval <= newest[row.metric]
      BY <2>1, <2>2 DEF Exact
    <3>3. \A k \in Metric : JobOK(k)'
      BY <2>1, <2>2, <2>3, <3>1, <3>2, JobMoves
    <3> QED
      BY <1>c, <2>2, <3>1, <3>3 DEF JobsInv
  <2> QED
    BY <2>4, <2>5
<1>7. ASSUME InsertFails \/ FullPageFails PROVE JobsInv'
  BY <1>7, <1>g DEF InsertFails, FullPageFails
\* A step that leaves the jobs alone.
<1>j. ASSUME Running, row = NoRow, UNCHANGED <<jobs, row, newest, checkpoint>>, pc' = "windows" => pc = "windows"
      PROVE  JobsInv'
  <2>1. \A k \in Metric : JobOK(k)'
    BY <1>j DEF JobsInv, JobOK
  <2> QED
    BY <1>c, <1>j, <2>1 DEF JobsInv
<1>8. ASSUME WindowsDone \/ FlushDest \/ FlushFails \/ TriggerDone PROVE JobsInv'
  <2>1. row = NoRow
    BY <1>8, <1>p DEF WindowsDone, FlushDest, FlushFails, TriggerDone
  <2> QED
    BY <1>8, <1>j, <2>1 DEF WindowsDone, FlushDest, FlushFails, TriggerDone, Running
<1>9. ASSUME NEW m \in Metric, AppendCheckpoint(m) \/ AppendFails(m) PROVE JobsInv'
  <2>1. /\ pc = "append" /\ UNCHANGED <<pc, newest, row>> /\ jobs' = Handled(m)
    BY <1>9 DEF AppendCheckpoint, AppendFails
  <2>2. row = NoRow
    BY <1>p, <2>1
  <2>3. ASSUME NEW k \in Metric PROVE JobOK(k)'
    <3>1. JobOK(k)
      BY <2>1 DEF JobsInv, Running
    <3>2. jobs \in [Metric -> Job]
      BY DEF Types, RunOK
    <3>3. CASE k = m
      <4>1. jobs'[k].updated = 0 /\ jobs'[k].from = jobs[k].from /\ jobs'[k].loaded = jobs[k].loaded
        BY <2>1, <3>2, <3>3 DEF Handled, Job
      <4>2. newest'[k] \in Nat
        BY <1>n
      <4> QED
        BY <2>1, <3>1, <4>1, <4>2 DEF JobOK
    <3>4. CASE k # m
      <4>1. jobs'[k] = jobs[k]
        BY <2>1, <3>2, <3>4 DEF Handled
      <4> QED
        BY <2>1, <3>1, <4>1 DEF JobOK
    <3> QED
      BY <3>3, <3>4
  <2>4. ASSUME NEW k \in Metric PROVE checkpoint'[k] <= newest'[k]
    <3>1. checkpoint[k] <= newest[k] /\ jobs[k].updated <= newest[k]
      BY <2>1 DEF JobsInv, Running, JobOK
    <3>2. checkpoint'[k] \in {checkpoint[k], jobs[k].updated}
      BY <1>9 DEF AppendCheckpoint, AppendFails, Types, DestOK
    <3> QED
      BY <2>1, <3>1, <3>2
  <2> QED
    BY <2>1, <2>2, <2>3, <2>4 DEF JobsInv
<1>k. ASSUME UNCHANGED <<pc, jobs, row, newest>>, \A m \in Metric : checkpoint'[m] <= newest'[m]
      PROVE  JobsInv'
  <2>1. Running' => \A k \in Metric : JobOK(k)'
    BY <1>k DEF JobsInv, JobOK, Running
  <2> QED
    BY <1>k, <2>1 DEF JobsInv
<1>10. ASSUME ResetDest \/ UNCHANGED vars PROVE JobsInv'
  BY <1>10, <1>c, <1>k DEF ResetDest
<1>11. ASSUME ClearCheckpoints PROVE JobsInv'
  <2>1. \A m \in Metric : checkpoint'[m] = 0 /\ newest'[m] \in Nat
    BY <1>11, <1>n DEF ClearCheckpoints
  <2>2. \A m \in Metric : checkpoint'[m] <= newest'[m]
    BY <2>1
  <2> QED
    BY <1>11, <1>k, <2>2 DEF ClearCheckpoints
<1>12. ASSUME BackfillTrigger \/ BackfillDone PROVE JobsInv'
  BY <1>12, <1>i, <1>p DEF BackfillTrigger, BackfillDone, Running
<1>13. ASSUME Crash PROVE JobsInv'
  BY <1>13, <1>i DEF Crash, Running
<1> QED
  BY <1>1, <1>2, <1>3, <1>4, <1>5, <1>6, <1>7, <1>8, <1>9, <1>10, <1>11, <1>12, <1>13
     DEF Next, Add, Jobs

LEMMA InitJobs == ASSUME Init PROVE JobsInv
BY DEF Init, JobsInv, Running, NoJob


-----------------------------------------------------------------------------
(* What a checkpoint claims is in the destination's files.                 *)

HasRow(S, m, k, w) == \E r \in S : r.metric = m /\ r.agg = k /\ r.start = w

\* Where the rows of the windows a trigger has claimed are.
Claimed == IF pc = "append" THEN ToSet(destFile) ELSE Recorded

\* While an offline rebuild has not begun its trigger, no writer is at work.
RebuildOK ==
    /\ backfills = 0 => backfill = "none"
    /\ backfill \in {"reset", "cleared"} => pc = "idle" /\ destPage = <<>> /\ destFile = <<>>

LoadedOK ==
    \A m \in Metric : pc \in {"windows", "flush"} \/ (pc = "append" /\ jobs[m].updated # 0)
                      => jobs[m].loaded = checkpoint[m]

FileClaim ==
    \A m \in Metric, w \in Grid, k \in 1..Aggregates :
        from[m] <= w /\ w < checkpoint[m] /\ OnTime(m, w) # {} => HasRow(ToSet(destFile), m, k, w)

JobClaim ==
    \A m \in Metric, w \in Grid, k \in 1..Aggregates :
        jobs[m].from <= w /\ w < jobs[m].updated /\ OnTime(m, w) # {} => HasRow(Claimed, m, k, w)

RowClaim ==
    row # NoRow => \A k \in 1..Aggregates :
                       k < row.agg => HasRow(Recorded, row.metric, k, row.start)

CoverInv ==
    Undisturbed => /\ RebuildOK /\ LoadedOK
                   /\ backfill # "reset" => FileClaim
                   /\ Running => JobClaim
                   /\ RowClaim

\* A window below the newest sample of its metric gets no sample in order any more.
LEMMA OnTimeKept ==
    ASSUME Types, Types', SourceStep, NEW m \in Metric, NEW hi \in Grid, hi <= newest[m],
           NEW w \in Grid, w < hi, OnTime(m, w)' # {}
    PROVE  OnTime(m, w) # {}
<1>1. w + Interval <= hi /\ w \in Nat /\ hi \in Nat
  BY GridGap, GridIsNat
<1>2. newest[m] \in Nat /\ Interval \in Nat
  BY TimestampsAreNumbers DEF Types, SourceOK
<1>3. w + Interval <= newest[m]
  BY <1>1, <1>2
<1>4. \A s \in InWindow(m, w)' : s \in InWindow(m, w) \/ s.n \in late'
  BY <1>1, <1>3, WindowKept
<1>5. PICK n \in OnTime(m, w)' : TRUE
  OBVIOUS
<1>6. PICK s \in InWindow(m, w)' : s.n = n /\ n \notin late'
  BY <1>5 DEF OnTime
<1>7. s \in InWindow(m, w) /\ s.n \notin late
  BY <1>4, <1>6 DEF SourceStep
<1> QED
  BY <1>7 DEF OnTime

LEMMA FileClaimStays ==
    ASSUME Types, Types', SourceStep, JobsInv, FileClaim, UNCHANGED <<checkpoint, from>>,
           ToSet(destFile) \subseteq ToSet(destFile')
    PROVE  FileClaim'
<1>1. ASSUME NEW m \in Metric, NEW w \in Grid, NEW k \in 1..Aggregates,
             from'[m] <= w, w < checkpoint'[m], OnTime(m, w)' # {}
      PROVE  HasRow(ToSet(destFile'), m, k, w)
  <2>1. checkpoint[m] \in Grid /\ checkpoint[m] <= newest[m]
    BY DEF Types, DestOK, JobsInv
  <2>2. OnTime(m, w) # {}
    BY <1>1, <2>1, OnTimeKept
  <2>3. HasRow(ToSet(destFile), m, k, w)
    BY <1>1, <2>2 DEF FileClaim
  <2> QED
    BY <2>3 DEF HasRow
<1> QED
  BY <1>1 DEF FileClaim

LEMMA JobClaimStays ==
    ASSUME Types, Types', SourceStep, JobsInv, JobClaim, Running, Claimed \subseteq Claimed',
           NEW m \in Metric, jobs'[m].from = jobs[m].from, jobs'[m].updated = jobs[m].updated,
           NEW w \in Grid, NEW k \in 1..Aggregates,
           jobs'[m].from <= w, w < jobs'[m].updated, OnTime(m, w)' # {}
    PROVE  HasRow(Claimed', m, k, w)
<1>1. jobs[m].updated \in Grid /\ jobs[m].updated <= newest[m]
  BY DEF Types, RunOK, Job, JobsInv, JobOK
<1>2. OnTime(m, w) # {}
  BY <1>1, OnTimeKept
<1>3. HasRow(Claimed, m, k, w)
  BY <1>2 DEF JobClaim
<1> QED
  BY <1>3 DEF HasRow

\* A step that keeps the rows and leaves what the jobs claim alone, or withdraws it.
LEMMA JobClaimKept ==
    ASSUME Types, Types', SourceStep, JobsInv, JobClaim, Running, Claimed \subseteq Claimed',
           \A m \in Metric : \/ jobs'[m].updated = 0
                             \/ /\ jobs'[m].from = jobs[m].from
                                /\ jobs'[m].updated = jobs[m].updated
    PROVE  JobClaim'
<1>1. ASSUME NEW m \in Metric, NEW w \in Grid, NEW k \in 1..Aggregates,
             jobs'[m].from <= w, w < jobs'[m].updated, OnTime(m, w)' # {}
      PROVE  HasRow(Claimed', m, k, w)
  <2>1. jobs'[m].updated # 0
    BY <1>1, GridIsNat
  <2> QED
    BY <1>1, <2>1, JobClaimStays
<1> QED
  BY <1>1 DEF JobClaim

\* The window a job has come to is the first it has not claimed.
LEMMA JobClaimMoves ==
    ASSUME Types, Types', SourceStep, JobsInv, JobClaim, pc = "windows", pc' = "windows",
           Recorded \subseteq Recorded', NEW m \in Metric, NEW w, w = jobs[m].next, w # 0,
           jobs' = Completed(m, w),
           OnTime(m, w)' # {} => \A k \in 1..Aggregates : HasRow(Recorded', m, k, w)
    PROVE  JobClaim'
<1>1. Claimed = Recorded /\ Claimed' = Recorded' /\ Running
  BY DEF Claimed, Running
<1>2. jobs[m] \in Job /\ w \in Grid /\ w \in Nat
  BY GridIsNat DEF Types, RunOK, Job
<1>3. w + Interval \in Grid
  BY <1>2, GridStep
<1>4. JobOK(m)
  BY DEF JobsInv, Running
<1>5. ASSUME NEW n \in Metric, NEW v \in Grid, NEW k \in 1..Aggregates,
             jobs'[n].from <= v, v < jobs'[n].updated, OnTime(n, v)' # {}
      PROVE  HasRow(Recorded', n, k, v)
  <2>1. CASE n # m
    <3>1. jobs'[n] = jobs[n]
      BY <2>1, CompletedJob
    <3> QED
      BY <1>1, <1>5, <3>1, JobClaimStays
  <2>2. CASE n = m /\ v = w
    BY <1>5, <2>2
  <2>3. CASE n = m /\ v # w
    <3>1. jobs'[n].from = jobs[m].from /\ jobs'[n].updated = w + Interval
      BY <2>3, CompletedJob
    <3>2. v < w
      <4>1. ASSUME w < v PROVE FALSE
        <5>1. w + Interval <= v
          BY <1>2, <4>1, GridGap
        <5> QED
          BY <1>3, <1>5, <3>1, <5>1, GridIsNat
      <4> QED
        BY <1>2, <2>3, <4>1, GridIsNat
    <3>3. jobs[m].updated = w
      <4>1. jobs[m].from <= v
        BY <1>5, <3>1
      <4> QED
        BY <1>2, <1>4, <3>2, <4>1, GridIsNat DEF JobOK, Job
    <3>4. w <= newest[m]
      BY <1>4, <3>3 DEF JobOK
    <3>5. OnTime(m, v) # {}
      BY <1>2, <1>5, <2>3, <3>2, <3>4, OnTimeKept
    <3>6. HasRow(Claimed, m, k, v)
      BY <1>5, <2>3, <3>1, <3>2, <3>3, <3>5 DEF JobClaim
    <3> QED
      BY <1>1, <2>3, <3>6 DEF HasRow
  <2> QED
    BY <2>1, <2>2, <2>3
<1> QED
  BY <1>1, <1>5 DEF JobClaim


LEMMA UndisturbedBefore ==
    ASSUME Types, [Next]_vars, Undisturbed'
    PROVE  Undisturbed
<1>1. calls \in Nat /\ crashes \in Nat /\ backfills \in Nat
  BY DEF Types, RunOK
<1>2. /\ setting' = setting
      /\ crashes' = crashes \/ crashes' = crashes + 1
      /\ backfills' = backfills \/ backfills' = backfills + 1
  BY DEF Next, Add, Jobs, AddSample, SealDay, FinishAdd, LoadJobs, NextWindow, RowRefused, InsertRow,
         InsertFails, FullPageFails, WindowsDone, FlushDest, FlushFails, AppendCheckpoint,
         AppendFails, TriggerDone, ResetDest, ClearCheckpoints, BackfillTrigger, BackfillDone, Crash
<1>3. (crashes' = 0 => crashes = 0) /\ (backfills' = 0 => backfills = 0)
  BY <1>1, <1>2
<1> QED
  BY <1>2, <1>3 DEF Undisturbed

LEMMA RebuildStep ==
    ASSUME Types, JobsInv, RebuildOK, LoadedOK, [Next]_vars, Undisturbed, Undisturbed'
    PROVE  RebuildOK' /\ LoadedOK'
<1>1. backfills \in Nat /\ crashes \in Nat /\ jobs \in [Metric -> Job]
  BY DEF Types, RunOK
<1>2. backfill \in {"reset", "cleared"} => ~setting.online
  BY DEF RebuildOK, Undisturbed
<1>k. ASSUME pc # "idle", UNCHANGED <<backfill, backfills>> PROVE RebuildOK'
  BY <1>k DEF RebuildOK
<1>l. ASSUME pc' \notin {"windows", "flush", "append"} PROVE LoadedOK'
  BY <1>l DEF LoadedOK
<1>3. ASSUME NEW m \in Metric, NEW t \in Timestamp, AddSample(m, t) \/ SealDay(m, t)
      PROVE  RebuildOK' /\ LoadedOK'
  <2>1. /\ pc = "idle" /\ pc' \in {"idle", "trigger"}
        /\ UNCHANGED <<backfill, backfills>>
        /\ backfill = "none" \/ setting.online
    BY <1>3 DEF AddSample, SealDay, MayWrite
  <2> QED
    BY <1>2, <1>l, <2>1 DEF RebuildOK
<1>4. ASSUME FinishAdd PROVE RebuildOK' /\ LoadedOK'
  BY <1>4, <1>k, <1>l DEF FinishAdd
<1>5. ASSUME LoadJobs PROVE RebuildOK' /\ LoadedOK'
  <2>1. PICK c \in {c \in Cutoffs : c >= cutoff} : jobs' = [m \in Metric |-> JobState(m, c)]
    BY <1>5 DEF LoadJobs
  <2>2. c \in Nat
    BY TimestampsAreNumbers
  <2>3. \A m \in Metric : jobs'[m].loaded = checkpoint[m]
    BY <2>1, <2>2, JobLoaded
  <2> QED
    BY <1>5, <1>k, <2>3 DEF LoadJobs, LoadedOK
<1>6. ASSUME pc \in {"windows", "flush"}, UNCHANGED <<checkpoint, backfill, backfills>>,
             \A m \in Metric : jobs'[m].loaded = jobs[m].loaded
      PROVE  RebuildOK' /\ LoadedOK'
  <2>1. \A m \in Metric : jobs'[m].loaded = checkpoint'[m]
    BY <1>6 DEF LoadedOK
  <2> QED
    BY <1>6, <1>k, <2>1 DEF LoadedOK
<1>7. ASSUME NEW m \in Metric, NextWindow(m) PROVE RebuildOK' /\ LoadedOK'
  <2>1. jobs' = jobs \/ jobs' = Completed(m, jobs[m].next)
    BY <1>7 DEF NextWindow
  <2>2. \A k \in Metric : jobs'[k].loaded = jobs[k].loaded
    BY <2>1, CompletedJob
  <2> QED
    BY <1>6, <1>7, <2>2 DEF NextWindow
<1>g. ASSUME GiveUp PROVE \A k \in Metric : jobs'[k].loaded = jobs[k].loaded
  BY <1>1, <1>g DEF GiveUp, Job
<1>8. ASSUME RowRefused \/ InsertFails \/ FullPageFails PROVE RebuildOK' /\ LoadedOK'
  BY <1>6, <1>8, <1>g DEF RowRefused, InsertFails, FullPageFails
<1>9. ASSUME InsertRow PROVE RebuildOK' /\ LoadedOK'
  <2>1. jobs' = jobs \/ jobs' = Completed(row.metric, row.start)
    BY <1>9 DEF InsertRow
  <2>2. row.metric \in Metric
    BY <1>9 DEF InsertRow, Types, RunOK, Row
  <2>3. \A k \in Metric : jobs'[k].loaded = jobs[k].loaded
    BY <2>1, <2>2, CompletedJob
  <2> QED
    BY <1>6, <1>9, <2>3 DEF InsertRow
<1>10. ASSUME WindowsDone \/ FlushDest \/ FlushFails PROVE RebuildOK' /\ LoadedOK'
  BY <1>6, <1>10 DEF WindowsDone, FlushDest, FlushFails
<1>11. ASSUME NEW m \in Metric, AppendCheckpoint(m) \/ AppendFails(m)
       PROVE  RebuildOK' /\ LoadedOK'
  <2>1. /\ pc = "append" /\ UNCHANGED <<pc, backfill, backfills>> /\ jobs' = Handled(m)
        /\ \A k \in Metric : k # m => checkpoint'[k] = checkpoint[k]
    BY <1>11 DEF AppendCheckpoint, AppendFails, Types, DestOK
  <2>2. jobs'[m].updated = 0 /\ \A k \in Metric : k # m => jobs'[k] = jobs[k]
    BY <1>1, <2>1 DEF Handled, Job
  <2>3. LoadedOK'
    BY <2>1, <2>2 DEF LoadedOK
  <2> QED
    BY <1>k, <2>1, <2>3
<1>12. ASSUME TriggerDone PROVE RebuildOK' /\ LoadedOK'
  BY <1>12, <1>k, <1>l DEF TriggerDone
<1>13. ASSUME ResetDest PROVE RebuildOK' /\ LoadedOK'
  <2>1. backfills' # 0 /\ setting' = setting
    BY <1>1, <1>13 DEF ResetDest
  <2>2. ~setting.online
    BY <2>1 DEF Undisturbed
  <2>3. pc = "idle" /\ pc' = "idle" /\ destPage' = <<>> /\ destFile' = <<>>
    BY <1>13, <2>2 DEF ResetDest
  <2> QED
    BY <1>l, <2>1, <2>3 DEF RebuildOK
<1>14. ASSUME ClearCheckpoints PROVE RebuildOK' /\ LoadedOK'
  <2>1. pc = "idle" /\ pc' = "idle" /\ UNCHANGED <<destPage, destFile, backfills>>
        /\ destPage = <<>> /\ destFile = <<>> /\ backfills # 0
    BY <1>14 DEF ClearCheckpoints, RebuildOK
  <2> QED
    BY <1>l, <2>1 DEF RebuildOK
<1>15. ASSUME BackfillTrigger PROVE RebuildOK' /\ LoadedOK'
  BY <1>15, <1>l DEF BackfillTrigger, RebuildOK
<1>16. ASSUME BackfillDone PROVE RebuildOK' /\ LoadedOK'
  BY <1>16, <1>l DEF BackfillDone, RebuildOK
<1>17. ASSUME Crash PROVE RebuildOK' /\ LoadedOK'
  BY <1>17, <1>l DEF Crash, RebuildOK
<1>18. ASSUME UNCHANGED vars PROVE RebuildOK' /\ LoadedOK'
  BY <1>18 DEF RebuildOK, LoadedOK
<1> QED
  BY <1>3, <1>4, <1>5, <1>7, <1>8, <1>9, <1>10, <1>11, <1>12, <1>13, <1>14, <1>15, <1>16, <1>17,
     <1>18 DEF Next, Add, Jobs

\* A stop under Undisturbed comes without a backfill.
LEMMA FileClaimStep ==
    ASSUME Types, Types', SourceStep, JobsInv, CoverInv, RebuildOK', [Next]_vars,
           Undisturbed, Undisturbed', backfill' # "reset"
    PROVE  FileClaim'
<1>0. /\ RebuildOK /\ LoadedOK
      /\ backfill # "reset" => FileClaim
      /\ Running => JobClaim
  BY DEF CoverInv
<1>s. ASSUME backfill # "reset", UNCHANGED <<checkpoint, from>>,
             ToSet(destFile) \subseteq ToSet(destFile')
      PROVE  FileClaim'
  BY <1>0, <1>s, FileClaimStays
<1>1. ASSUME NEW m \in Metric, NEW t \in Timestamp, AddSample(m, t) \/ SealDay(m, t)
      PROVE  FileClaim'
  BY <1>1, <1>s DEF AddSample, SealDay
<1>2. ASSUME FinishAdd \/ LoadJobs \/ RowRefused \/ InsertFails \/ FullPageFails \/ WindowsDone
             \/ FlushFails \/ TriggerDone \/ BackfillTrigger \/ UNCHANGED vars
      PROVE  FileClaim'
  BY <1>2, <1>s DEF FinishAdd, LoadJobs, RowRefused, InsertFails, FullPageFails, WindowsDone,
                    FlushFails, TriggerDone, BackfillTrigger
<1>3. ASSUME NEW m \in Metric, NextWindow(m) \/ AppendFails(m) PROVE FileClaim'
  BY <1>3, <1>s DEF NextWindow, AppendFails
<1>4. ASSUME InsertRow PROVE FileClaim'
  <2>1. row \in Row
    BY <1>4 DEF InsertRow, Types, RunOK
  <2> QED
    BY <1>4, <1>s, <2>1, Inserted DEF InsertRow
<1>5. ASSUME FlushDest \/ BackfillDone PROVE FileClaim'
  <2>1. destFile' = destFile \o destPage /\ destPage' = <<>> /\ UNCHANGED <<checkpoint, from>>
        /\ backfill # "reset"
    BY <1>5 DEF FlushDest, BackfillDone
  <2>2. ToSet(destFile) \subseteq ToSet(destFile')
    BY <2>1, Flushed
  <2> QED
    BY <1>s, <2>1, <2>2
<1>6. ASSUME NEW m \in Metric, AppendCheckpoint(m) PROVE FileClaim'
  <2>1. /\ pc = "append" /\ backfill # "reset" /\ UNCHANGED <<destPage, destFile>>
        /\ checkpoint' = [checkpoint EXCEPT ![m] = jobs[m].updated]
        /\ from' = [from EXCEPT ![m] = IF jobs[m].loaded = 0 THEN jobs[m].from ELSE @]
        /\ jobs[m].updated > jobs[m].loaded
    BY <1>6 DEF AppendCheckpoint, Updated
  <2>2. jobs[m] \in Job /\ checkpoint \in [Metric -> Grid] /\ from \in [Metric -> Grid]
    BY DEF Types, RunOK, DestOK
  <2>n. jobs[m].updated \in Nat /\ jobs[m].loaded \in Nat /\ jobs[m].from \in Nat
    BY <2>2, GridIsNat DEF Job
  <2>3. jobs[m].updated # 0 /\ jobs[m].loaded = checkpoint[m]
    <3>1. jobs[m].updated # 0
      BY <2>1, <2>n
    <3> QED
      BY <1>0, <2>1, <3>1 DEF LoadedOK
  <2>4. FileClaim /\ JobClaim /\ Claimed = ToSet(destFile) /\ JobOK(m)
    BY <1>0, <2>1 DEF Running, Claimed, JobsInv
  <2>5. ASSUME NEW n \in Metric, NEW w \in Grid, NEW k \in 1..Aggregates,
               from'[n] <= w, w < checkpoint'[n], OnTime(n, w)' # {}
        PROVE  HasRow(ToSet(destFile), n, k, w)
    <3>1. CASE n # m
      <4>1. from[n] <= w /\ w < checkpoint[n]
        BY <2>1, <2>2, <2>5, <3>1
      <4>2. checkpoint[n] \in Grid /\ checkpoint[n] <= newest[n]
        BY <2>2 DEF JobsInv
      <4>3. OnTime(n, w) # {}
        BY <2>5, <4>1, <4>2, OnTimeKept
      <4> QED
        BY <2>4, <4>1, <4>3 DEF FileClaim
    <3>2. CASE n = m
      <4>1. /\ w < jobs[m].updated /\ w \in Nat
            /\ (IF jobs[m].loaded = 0 THEN jobs[m].from ELSE from[m]) <= w
        BY <2>1, <2>2, <2>5, <3>2, GridIsNat
      <4>2. jobs[m].updated \in Grid /\ jobs[m].updated <= newest[m]
        BY <2>2, <2>4 DEF Job, JobOK
      <4>3. OnTime(m, w) # {}
        BY <2>5, <3>2, <4>1, <4>2, OnTimeKept
      <4>4. CASE jobs[m].from <= w
        BY <2>4, <3>2, <4>1, <4>3, <4>4 DEF JobClaim
      <4>5. CASE ~(jobs[m].from <= w)
        <5>1. jobs[m].loaded # 0 /\ jobs[m].from = checkpoint[m] /\ from[m] <= w
          BY <2>3, <2>4, <4>1, <4>5 DEF JobOK
        <5>2. w < checkpoint[m]
          <6>1. w < jobs[m].from
            BY <2>n, <4>1, <4>5
          <6> QED
            BY <5>1, <6>1
        <5> QED
          BY <2>4, <3>2, <4>3, <5>1, <5>2 DEF FileClaim
      <4> QED
        BY <4>4, <4>5
    <3> QED
      BY <3>1, <3>2
  <2>6. destFile' = destFile
    BY <2>1
  <2> QED
    BY <2>5, <2>6 DEF FileClaim
<1>7. ASSUME ResetDest PROVE FileClaim'
  BY <1>7 DEF ResetDest
<1>8. ASSUME ClearCheckpoints PROVE FileClaim'
  <2>1. \A m \in Metric : checkpoint'[m] = 0
    BY <1>8 DEF ClearCheckpoints
  <2> QED
    BY <2>1, GridIsNat DEF FileClaim
<1>9. ASSUME Crash PROVE FileClaim'
  <2>1. backfills = 0
    <3>1. crashes' # 0
      BY <1>9 DEF Crash, Types, RunOK
    <3> QED
      BY <1>9, <3>1 DEF Crash, Undisturbed
  <2> QED
    BY <1>0, <1>9, <1>s, <2>1 DEF Crash, RebuildOK
<1> QED
  BY <1>1, <1>2, <1>3, <1>4, <1>5, <1>6, <1>7, <1>8, <1>9 DEF Next, Add, Jobs


LEMMA RowsAfterFailure ==
    ASSUME Types, row \in Row, FullPageFails
    PROVE  Recorded \subseteq Recorded'
<1>1. destPage \in Seq(Row) /\ destPage' = Append(destPage, row) /\ destFile' = destFile
  BY PageOK DEF FullPageFails, Types, DestOK
<1>2. ToSet(destPage') = ToSet(destPage) \cup {row}
  BY <1>1, AppendSet
<1> QED
  BY <1>1, <1>2 DEF Recorded

\* The rows of a window once the last of them is inserted.
LEMMA WindowInserted ==
    ASSUME Types, InsertRow, row \in Row, RowClaim, ~(row.agg < Aggregates)
    PROVE  \A k \in 1..Aggregates : HasRow(Recorded', row.metric, k, row.start)
<1>1. Recorded' = Recorded \cup {row}
  BY Inserted DEF Recorded
<1>2. ASSUME NEW k \in 1..Aggregates PROVE HasRow(Recorded', row.metric, k, row.start)
  <2>1. row.agg \in 1..Aggregates
    BY DEF Row
  <2>2. k < row.agg \/ k = row.agg
    BY <2>1, TimestampsAreNumbers
  <2>3. CASE k < row.agg
    <3>1. HasRow(Recorded, row.metric, k, row.start)
      BY <2>3, RowIsNotNone DEF RowClaim
    <3> QED
      BY <1>1, <3>1 DEF HasRow
  <2>4. CASE k = row.agg
    BY <1>1, <2>4 DEF HasRow
  <2> QED
    BY <2>2, <2>3, <2>4
<1> QED
  BY <1>2

LEMMA JobClaimStep ==
    ASSUME Types, Types', SourceStep, JobsInv, ExactInv, CoverInv, RebuildOK', [Next]_vars,
           Undisturbed, Undisturbed', Running'
    PROVE  JobClaim'
<1>0. RebuildOK /\ (Running => JobClaim) /\ RowClaim
  BY DEF CoverInv
<1>1. jobs \in [Metric -> Job]
  BY DEF Types, RunOK
<1>p. row # NoRow => row \in Row /\ row.metric \in Metric
  BY DEF Types, RunOK, Row
<1>k. ASSUME Running, UNCHANGED jobs, Claimed \subseteq Claimed' PROVE JobClaim'
  BY <1>0, <1>k, JobClaimKept
<1>2. ASSUME NEW m \in Metric, NEW t \in Timestamp, AddSample(m, t) \/ SealDay(m, t)
      PROVE  JobClaim'
  BY <1>2 DEF AddSample, SealDay, MayWrite, Running
<1>3. ASSUME FinishAdd \/ FlushFails \/ TriggerDone \/ ResetDest \/ ClearCheckpoints
             \/ BackfillTrigger \/ BackfillDone \/ Crash
      PROVE  JobClaim'
  BY <1>0, <1>3 DEF FinishAdd, FlushFails, TriggerDone, ResetDest, ClearCheckpoints,
                    BackfillTrigger, BackfillDone, Crash, Running, RebuildOK
<1>4. ASSUME LoadJobs PROVE JobClaim'
  <2>1. PICK c \in {c \in Cutoffs : c >= cutoff} : jobs' = [m \in Metric |-> JobState(m, c)]
    BY <1>4 DEF LoadJobs
  <2>2. c \in Nat
    BY TimestampsAreNumbers
  <2>3. \A m \in Metric : jobs'[m].updated = 0
    BY <2>1, <2>2, JobLoaded
  <2>4. \A m \in Metric, w \in Grid : ~(w < jobs'[m].updated)
    BY <2>3, GridIsNat
  <2> QED
    BY <2>4 DEF JobClaim
<1>5. ASSUME NEW m \in Metric, NextWindow(m) PROVE JobClaim'
  <2> DEFINE w == jobs[m].next
  <2>1. /\ Due(jobs[m]) /\ pc = "windows" /\ Running
        /\ UNCHANGED <<pc, destPage, destFile>>
        /\ jobs' = jobs \/ (InWindow(m, w) = {} /\ jobs' = Completed(m, w))
    BY <1>5 DEF NextWindow, NextJobs, Running
  <2>2. w \in Grid /\ w # 0 /\ w + Interval <= newest[m]
    BY <2>1, WindowRead
  <2>3. Claimed' = Claimed /\ Recorded' = Recorded
    BY <2>1 DEF Claimed, Recorded
  <2>4. CASE jobs' = jobs
    BY <1>k, <2>1, <2>3, <2>4
  <2>5. CASE InWindow(m, w) = {} /\ jobs' = Completed(m, w)
    <3>1. PICK v \in Grid : v = w
      BY <2>2
    <3>2. v + Interval \in Grid /\ v < v + Interval
      BY GridStep
    <3>3. OnTime(m, v) = {}
      BY <2>5, <3>1 DEF OnTime
    <3>4. OnTime(m, v)' = {}
      BY <2>2, <3>1, <3>2, <3>3, OnTimeKept
    <3>5. JobClaim /\ pc = "windows" /\ pc' = "windows"
      BY <1>0, <2>1
    <3>6. v = jobs[m].next /\ v # 0 /\ jobs' = Completed(m, v)
      BY <2>2, <2>5, <3>1
    <3> HIDE DEF w
    <3> QED
      BY <2>3, <3>4, <3>5, <3>6, JobClaimMoves
  <2> QED
    BY <2>1, <2>4, <2>5
<1>g. ASSUME pc = "windows", pc' = pc, row # NoRow, GiveUp, Recorded \subseteq Recorded'
      PROVE  JobClaim'
  <2>1. Claimed \subseteq Claimed' /\ Running
    BY <1>g DEF Claimed, Running
  <2>2. \A k \in Metric : jobs'[k].from = jobs[k].from /\ jobs'[k].updated = jobs[k].updated
    BY <1>1, <1>g DEF GiveUp, Job
  <2> QED
    BY <1>0, <2>1, <2>2, JobClaimKept
<1>6. ASSUME RowRefused \/ InsertFails PROVE JobClaim'
  BY <1>6, <1>g DEF RowRefused, InsertFails, Recorded
<1>7. ASSUME FullPageFails PROVE JobClaim'
  <2>1. Recorded \subseteq Recorded'
    BY <1>7, <1>p, RowsAfterFailure DEF FullPageFails
  <2> QED
    BY <1>7, <1>g, <2>1 DEF FullPageFails
<1>8. ASSUME InsertRow PROVE JobClaim'
  <2>1. row \in Row /\ row.metric \in Metric /\ row # NoRow /\ pc = "windows" /\ pc' = pc
    BY <1>8, <1>p DEF InsertRow
  <2>2. Recorded' = Recorded \cup {row}
    BY <1>8, <2>1, Inserted DEF Recorded
  <2>3. Claimed \subseteq Claimed' /\ Running
    BY <2>1, <2>2 DEF Claimed, Running
  <2>4. CASE row.agg < Aggregates
    BY <1>8, <1>k, <2>3, <2>4 DEF InsertRow
  <2>5. CASE ~(row.agg < Aggregates)
    <3>1. PICK m \in Metric : m = row.metric
      BY <2>1
    <3>2. PICK w \in Grid : w = row.start
      BY <2>1 DEF Row
    <3>3. w = jobs[m].next /\ w # 0 /\ jobs' = Completed(m, w)
      BY <1>8, <2>1, <2>5, <3>1, <3>2 DEF InsertRow, JobsInv
    <3>4. \A k \in 1..Aggregates : HasRow(Recorded', m, k, w)
      BY <1>0, <1>8, <2>1, <2>5, <3>1, <3>2, WindowInserted
    <3> QED
      BY <1>0, <2>1, <2>2, <2>3, <3>3, <3>4, JobClaimMoves
  <2> QED
    BY <2>4, <2>5
<1>9. ASSUME WindowsDone PROVE JobClaim'
  BY <1>9, <1>k DEF WindowsDone, Running, Claimed, Recorded
<1>10. ASSUME FlushDest PROVE JobClaim'
  <2>1. ToSet(destFile') = Recorded
    BY <1>10, Flushed DEF FlushDest, Recorded
  <2> QED
    BY <1>10, <1>k, <2>1 DEF FlushDest, Running, Claimed
<1>11. ASSUME NEW m \in Metric, AppendCheckpoint(m) \/ AppendFails(m) PROVE JobClaim'
  <2>1. /\ pc = "append" /\ UNCHANGED <<pc, destFile, destPage>> /\ jobs' = Handled(m)
    BY <1>11 DEF AppendCheckpoint, AppendFails
  <2>2. jobs'[m].updated = 0 /\ \A k \in Metric : k # m => jobs'[k] = jobs[k]
    BY <1>1, <2>1 DEF Handled, Job
  <2>3. Claimed \subseteq Claimed' /\ Running
    BY <2>1 DEF Claimed, Running
  <2> QED
    BY <1>0, <2>2, <2>3, JobClaimKept
<1>12. ASSUME UNCHANGED vars PROVE JobClaim'
  BY <1>12, <1>k DEF Running, Claimed, Recorded
<1> QED
  BY <1>2, <1>3, <1>4, <1>5, <1>6, <1>7, <1>8, <1>9, <1>10, <1>11, <1>12 DEF Next, Add, Jobs

LEMMA RowClaimStep ==
    ASSUME Types, JobsInv, RowClaim, RebuildOK', [Next]_vars
    PROVE  RowClaim'
<1>r. \A r \in Row : r # NoRow
  BY RowIsNotNone
<1>p. row # NoRow => pc = "windows" /\ row \in Row
  BY DEF JobsInv, Types, RunOK
<1>n. ASSUME row' = NoRow PROVE RowClaim'
  BY <1>n DEF RowClaim
<1>k. ASSUME row' = row, Recorded \subseteq Recorded' PROVE RowClaim'
  BY <1>k DEF RowClaim, HasRow
<1>1. ASSUME NEW m \in Metric, NEW t \in Timestamp, AddSample(m, t) \/ SealDay(m, t)
      PROVE  RowClaim'
  BY <1>1, <1>k DEF AddSample, SealDay, Recorded
<1>2. ASSUME FinishAdd \/ LoadJobs \/ WindowsDone \/ FlushFails \/ TriggerDone \/ ClearCheckpoints
             \/ BackfillTrigger \/ UNCHANGED vars
      PROVE  RowClaim'
  BY <1>2, <1>k DEF FinishAdd, LoadJobs, WindowsDone, FlushFails, TriggerDone, ClearCheckpoints,
                    BackfillTrigger, Recorded
<1>3. ASSUME RowRefused \/ InsertFails \/ FullPageFails PROVE RowClaim'
  BY <1>3, <1>n DEF RowRefused, InsertFails, FullPageFails, GiveUp
<1>4. ASSUME Crash PROVE RowClaim'
  BY <1>4, <1>n DEF Crash
<1>5. ASSUME FlushDest \/ BackfillDone PROVE RowClaim'
  <2>1. Recorded' = Recorded /\ row' = row
    BY <1>5, Flushed DEF FlushDest, BackfillDone, Recorded
  <2> QED
    BY <1>k, <2>1
<1>6. ASSUME NEW m \in Metric, AppendCheckpoint(m) \/ AppendFails(m) PROVE RowClaim'
  BY <1>6, <1>k DEF AppendCheckpoint, AppendFails, Recorded
<1>7. ASSUME NEW m \in Metric, NextWindow(m) PROVE RowClaim'
  <2> DEFINE w == jobs[m].next
             points == {s.n : s \in InWindow(m, w)}
             new == [metric |-> m, agg |-> 1, start |-> w, of |-> points]
  <2>1. row' = row \/ row' = new
    BY <1>7 DEF NextWindow
  <2>2. new.agg = 1
    OBVIOUS
  <2> HIDE DEF new
  <2>3. CASE row' = row
    BY <1>7, <1>k, <2>3 DEF NextWindow, Recorded
  <2>4. CASE row' = new
    <3>1. \A k \in 1..Aggregates : ~(k < row'.agg)
      BY <2>2, <2>4, TimestampsAreNumbers
    <3> QED
      BY <3>1 DEF RowClaim
  <2> QED
    BY <2>1, <2>3, <2>4
<1>8. ASSUME InsertRow PROVE RowClaim'
  <2>1. row \in Row
    BY <1>8, <1>p DEF InsertRow
  <2>2. Recorded' = Recorded \cup {row}
    BY <1>8, <2>1, Inserted DEF Recorded
  <2>3. CASE row.agg < Aggregates
    <3>1. row' = [row EXCEPT !.agg = @ + 1]
      BY <1>8, <2>3 DEF InsertRow
    <3>2. row'.metric = row.metric /\ row'.start = row.start /\ row'.agg = row.agg + 1
      BY <2>1, <3>1 DEF Row
    <3>3. ASSUME NEW k \in 1..Aggregates, k < row.agg + 1
          PROVE  HasRow(Recorded', row.metric, k, row.start)
      <4>1. row.agg \in 1..Aggregates
        BY <2>1 DEF Row
      <4>2. k < row.agg \/ k = row.agg
        BY <3>3, <4>1, TimestampsAreNumbers
      <4>3. CASE k < row.agg
        <5>1. HasRow(Recorded, row.metric, k, row.start)
          BY <1>r, <2>1, <4>3 DEF RowClaim
        <5> QED
          BY <2>2, <5>1 DEF HasRow
      <4>4. CASE k = row.agg
        BY <2>2, <4>4 DEF HasRow
      <4> QED
        BY <4>2, <4>3, <4>4
    <3> QED
      BY <3>2, <3>3 DEF RowClaim
  <2>4. CASE ~(row.agg < Aggregates)
    BY <1>8, <1>n, <2>4 DEF InsertRow
  <2> QED
    BY <2>3, <2>4
<1>9. ASSUME ResetDest PROVE RowClaim'
  <2>1. backfill' = "reset" /\ pc' = pc /\ row' = row
    BY <1>9 DEF ResetDest
  <2> QED
    BY <1>n, <1>p, <2>1 DEF RebuildOK
<1> QED
  BY <1>1, <1>2, <1>3, <1>4, <1>5, <1>6, <1>7, <1>8, <1>9 DEF Next, Add, Jobs

LEMMA CoverStep ==
    ASSUME Types, Types', SourceStep, JobsInv, ExactInv, CoverInv, [Next]_vars
    PROVE  CoverInv'
<1> SUFFICES ASSUME Undisturbed'
             PROVE  /\ RebuildOK' /\ LoadedOK'
                    /\ backfill' # "reset" => FileClaim'
                    /\ Running' => JobClaim'
                    /\ RowClaim'
  BY DEF CoverInv
<1>1. Undisturbed
  BY UndisturbedBefore
<1>2. RebuildOK /\ LoadedOK /\ RowClaim
  BY <1>1 DEF CoverInv
<1>3. RebuildOK' /\ LoadedOK'
  BY <1>1, <1>2, RebuildStep
<1> QED
  BY <1>1, <1>2, <1>3, FileClaimStep, JobClaimStep, RowClaimStep

LEMMA InitCover == ASSUME Init PROVE CoverInv
<1>1. \A m \in Metric : checkpoint[m] = 0
  BY DEF Init
<1>2. \A m \in Metric, w \in Grid : ~(w < checkpoint[m])
  BY <1>1, GridIsNat
<1>3. FileClaim
  BY <1>2 DEF FileClaim
<1> QED
  BY <1>3 DEF Init, CoverInv, RebuildOK, LoadedOK, Running, RowClaim

LEMMA RowsCovered ==
    ASSUME Types, CoverInv
    PROVE  CheckpointCovered
<1> SUFFICES ASSUME Undisturbed, backfill # "reset",
                    NEW m \in Metric, NEW w \in Window, NEW k \in 1..Aggregates,
                    from[m] <= w, w < checkpoint[m], OnTime(m, w) # {}
             PROVE  \E i \in DOMAIN destFile : /\ destFile[i].metric = m /\ destFile[i].agg = k
                                               /\ destFile[i].start = w
  BY DEF CheckpointCovered
<1>1. w \in Grid
  <2>1. PICK t \in Timestamp : w = Floor(t)
    BY DEF Window
  <2> QED
    BY <2>1, FloorInGrid, TimestampsAreNumbers
<1>2. HasRow(ToSet(destFile), m, k, w)
  BY <1>1 DEF CoverInv, FileClaim
<1> QED
  BY <1>2 DEF HasRow, ToSet


-----------------------------------------------------------------------------
(* No window is computed twice.                                            *)

\* Up to where the windows of a job are done.
Bound(m) == IF Running /\ jobs[m].updated # 0 THEN jobs[m].updated ELSE checkpoint[m]

\* A record of a window behind the bound of its job, or of the window in progress.
Placed(r) ==
    \/ r.start < Bound(r.metric)
    \/ row # NoRow /\ r.metric = row.metric /\ r.start = row.start /\ r.agg < row.agg

Records == destFile \o destPage

\* No record is of the same metric, window and aggregate as an earlier one.
Distinct(s) ==
    \A i, j \in DOMAIN s :
        (s[i].metric = s[j].metric /\ s[i].agg = s[j].agg /\ s[i].start = s[j].start) => i = j

\* What the destination takes for the last row of a metric is a row of it.
LastKnown ==
    \A m \in Metric, k \in 1..Aggregates :
        destLast[<<m, k>>] # 0 => HasRow(Recorded, m, k, destLast[<<m, k>>])

OnceInv ==
    Undisturbed /\ crashes = 0 /\ faults = 0 =>
        /\ \A r \in Recorded : Placed(r)
        /\ Distinct(Records)
        /\ LastKnown

LEMMA RecordsAre ==
    ASSUME Types
    PROVE  Records \in Seq(Row) /\ ToSet(Records) = Recorded
BY ConcatSet DEF Records, Recorded, Types, DestOK

\* The window of a row lies at or beyond the bound of its job, which no checkpoint has passed.
LEMMA WindowAhead ==
    ASSUME Types, JobsInv, LoadedOK, pc = "windows", NEW m \in Metric, jobs[m].next # 0
    PROVE  /\ Bound(m) \in Nat /\ Bound(m) <= jobs[m].next
           /\ jobs[m].next \in Grid /\ jobs[m].next \in Nat
<1>1. jobs[m] \in Job /\ checkpoint[m] \in Nat
  BY GridIsNat DEF Types, RunOK, DestOK
<1>2. /\ jobs[m].next \in Grid /\ jobs[m].next \in Nat /\ jobs[m].from \in Nat
      /\ jobs[m].updated \in Nat
  BY <1>1, GridIsNat DEF Job
<1>3. JobOK(m) /\ jobs[m].loaded = checkpoint[m]
  BY DEF JobsInv, Running, LoadedOK
<1>4. CASE jobs[m].updated # 0
  <2>1. Bound(m) = jobs[m].updated /\ jobs[m].updated = jobs[m].next
    BY <1>3, <1>4 DEF Bound, Running, JobOK
  <2> QED
    BY <1>2, <2>1
<1>5. CASE jobs[m].updated = 0
  <2>1. Bound(m) = checkpoint[m] /\ jobs[m].next = jobs[m].from
    BY <1>2, <1>3, <1>5 DEF Bound, JobOK
  <2>2. checkpoint[m] # 0 => jobs[m].from = checkpoint[m]
    BY <1>3 DEF JobOK
  <2> QED
    BY <1>1, <1>2, <2>1, <2>2
<1> QED
  BY <1>4, <1>5

\* A record goes behind all others.
LEMMA RecordAppended ==
    ASSUME Types, InsertRow, row \in Row
    PROVE  /\ Len(Records') = Len(Records) + 1
           /\ \A i \in 1..Len(Records) : Records'[i] = Records[i]
           /\ Records'[Len(Records) + 1] = row
<1>1. destPage \in Seq(Row) /\ destFile \in Seq(Row)
  BY DEF Types, DestOK
<1>2. /\ destPage' = IF Full THEN <<>> ELSE Page
      /\ destFile' = destFile \o (IF Behind THEN destPage ELSE <<>>) \o (IF Full THEN Page ELSE <<>>)
  BY DEF InsertRow
<1>3. Page \in Seq(Row) /\ (~Behind => Page = Append(destPage, row)) /\ (Behind => Page = <<row>>)
  BY PageOK
<1> HIDE DEF Full, Page
<1>4. CASE Behind
  <2>1. destFile' \o destPage' = (destFile \o destPage) \o <<row>>
    <3>1. CASE Full
      <4>1. destFile' = (destFile \o destPage) \o <<row>> /\ destPage' = <<>>
        BY <1>2, <1>3, <1>4, <3>1
      <4> QED
        BY <1>1, <4>1
    <3>2. CASE ~Full
      <4>1. destFile' = (destFile \o destPage) \o <<>> /\ destPage' = <<row>>
        BY <1>2, <1>3, <1>4, <3>2
      <4> QED
        BY <1>1, <4>1
    <3> QED
      BY <3>1, <3>2
  <2> QED
    BY <1>1, <2>1 DEF Records
<1>5. CASE ~Behind
  <2>1. destFile' \o destPage' = destFile \o Append(destPage, row)
    <3>1. CASE Full
      <4>1. destFile' = (destFile \o <<>>) \o Append(destPage, row) /\ destPage' = <<>>
        BY <1>2, <1>3, <1>5, <3>1
      <4> QED
        BY <1>1, <4>1
    <3>2. CASE ~Full
      <4>1. destFile' = (destFile \o <<>>) \o <<>> /\ destPage' = Append(destPage, row)
        BY <1>2, <1>3, <1>5, <3>2
      <4> QED
        BY <1>1, <4>1
    <3> QED
      BY <3>1, <3>2
  <2> QED
    BY <1>1, <2>1 DEF Records
<1> QED
  BY <1>4, <1>5

LEMMA DistinctAppended ==
    ASSUME Types, InsertRow, row \in Row, Distinct(Records), ~HasRow(Recorded, row.metric, row.agg, row.start)
    PROVE  Distinct(Records')
<1>1. Records \in Seq(Row) /\ ToSet(Records) = Recorded
  BY RecordsAre
<1>2. /\ Len(Records') = Len(Records) + 1
      /\ \A i \in 1..Len(Records) : Records'[i] = Records[i]
      /\ Records'[Len(Records) + 1] = row
  BY RecordAppended
<1>3. \A i \in 1..Len(Records) :
          ~(Records[i].metric = row.metric /\ Records[i].agg = row.agg /\ Records[i].start = row.start)
  BY <1>1 DEF HasRow, ToSet
<1>4. DOMAIN Records' = 1..(Len(Records) + 1) /\ DOMAIN Records = 1..Len(Records) /\ Len(Records) \in Nat
  <2>1. destPage' \in Seq(Row) /\ destFile' \in Seq(Row)
    BY Inserted
  <2>2. Records' \in Seq(Row)
    BY <2>1, ConcatSet DEF Records
  <2> QED
    BY <1>1, <1>2, <2>2
<1> DEFINE L == Len(Records)
<1>5. ASSUME NEW i \in 1..(L + 1), NEW j \in 1..(L + 1),
             Records'[i].metric = Records'[j].metric, Records'[i].agg = Records'[j].agg,
             Records'[i].start = Records'[j].start
      PROVE  i = j
  <2>1. (i \in 1..L \/ i = L + 1) /\ (j \in 1..L \/ j = L + 1)
    BY <1>4
  <2>2. CASE i \in 1..L /\ j \in 1..L
    BY <1>2, <1>4, <1>5, <2>2 DEF Distinct
  <2>3. CASE i \in 1..L /\ j = L + 1
    BY <1>2, <1>3, <1>5, <2>3
  <2>4. CASE i = L + 1 /\ j \in 1..L
    BY <1>2, <1>3, <1>5, <2>4
  <2> QED
    BY <2>1, <2>2, <2>3, <2>4
<1> QED
  BY <1>4, <1>5 DEF Distinct


\* A job that has updated nothing in a trigger claims nothing it has not claimed before.
LEMMA BoundIs ==
    ASSUME Types, JobsInv, NEW m \in Metric, pc' = "done" \/ pc' = "idle" \/ pc' = "trigger",
           ~Running \/ Updated = {}, checkpoint' = checkpoint
    PROVE  Bound(m)' = Bound(m)
<1>1. Bound(m)' = checkpoint[m]
  BY DEF Bound, Running
<1>2. ASSUME Running, jobs[m].updated # 0 PROVE FALSE
  <2>1. jobs[m].updated > jobs[m].loaded
    BY <1>2 DEF JobsInv, JobOK
  <2> QED
    BY <1>2, <2>1 DEF Updated
<1> QED
  BY <1>1, <1>2 DEF Bound

LEMMA RecordedRows == ASSUME Types PROVE Recorded \subseteq Row
<1>1. destFile \in Seq(Row) /\ destPage \in Seq(Row)
  BY DEF Types, DestOK
<1>2. ToSet(destFile) \subseteq Row /\ ToSet(destPage) \subseteq Row
  BY <1>1 DEF ToSet
<1> QED
  BY <1>2 DEF Recorded

LEMMA BoundIsNat == ASSUME Types, NEW m \in Metric PROVE Bound(m) \in Nat
BY GridIsNat DEF Types, DestOK, RunOK, Job, Bound

LEMMA PlacedStays ==
    ASSUME Types, Types', \A r \in Recorded : Placed(r), Recorded' = Recorded,
           row = NoRow \/ row' = row,
           \A m \in Metric : Bound(m) <= Bound(m)'
    PROVE  \A r \in Recorded' : Placed(r)'
<1>1. ASSUME NEW r \in Recorded PROVE Placed(r)'
  <2>1. r \in Row
    BY DEF Types, DestOK, Recorded, ToSet
  <2>2. r.metric \in Metric /\ r.start \in Nat
    BY <2>1, GridIsNat DEF Row
  <2>3. CASE r.start < Bound(r.metric)
    <3>1. Bound(r.metric) \in Nat /\ Bound(r.metric)' \in Nat /\ Bound(r.metric) <= Bound(r.metric)'
      <4>1. PICK m \in Metric : m = r.metric
        BY <2>2
      <4>2. Bound(m) \in Nat /\ Bound(m)' \in Nat /\ Bound(m) <= Bound(m)'
        BY BoundIsNat, GridIsNat DEF Types, DestOK, RunOK, Job, Bound
      <4> QED
        BY <4>1, <4>2
    <3>2. r.start < Bound(r.metric)'
      BY <2>2, <2>3, <3>1
    <3> QED
      BY <3>2 DEF Placed
  <2>4. CASE row # NoRow /\ r.metric = row.metric /\ r.start = row.start /\ r.agg < row.agg
    <3>1. row' = row
      BY <2>4
    <3> QED
      BY <2>4, <3>1 DEF Placed
  <2> QED
    BY <2>3, <2>4 DEF Placed
<1> QED
  BY <1>1

\* The facts of a state in which no window is computed twice.
OnceFacts == (\A r \in Recorded : Placed(r)) /\ Distinct(Records) /\ LastKnown

\* A step that writes no record.
LEMMA OnceStays ==
    ASSUME Types, Types', OnceFacts, UNCHANGED <<destPage, destFile, destLast>>,
           row = NoRow \/ row' = row, \A m \in Metric : Bound(m) <= Bound(m)'
    PROVE  OnceFacts'
<1>1. Recorded' = Recorded /\ Records' = Records
  BY DEF Recorded, Records
<1>2. \A r \in Recorded' : Placed(r)'
  BY <1>1, PlacedStays DEF OnceFacts
<1>3. Distinct(Records)' /\ LastKnown'
  BY <1>1 DEF OnceFacts, LastKnown, HasRow, Distinct
<1> QED
  BY <1>2, <1>3 DEF OnceFacts

LEMMA FlushOnce ==
    ASSUME Types, Types', OnceFacts, destFile' = destFile \o destPage, destPage' = <<>>,
           UNCHANGED destLast, row' = row, \A m \in Metric : Bound(m) <= Bound(m)'
    PROVE  OnceFacts'
<1>1. Recorded' = Recorded
  BY Flushed DEF Recorded
<1>2. Records' = Records
  <2>1. destFile \in Seq(Row) /\ destPage \in Seq(Row)
    BY DEF Types, DestOK
  <2>2. destFile \o destPage \in Seq(Row)
    BY <2>1, ConcatSet
  <2>3. (destFile \o destPage) \o <<>> = destFile \o destPage
    BY <2>2
  <2> QED
    BY <2>3 DEF Records
<1>3. \A r \in Recorded' : Placed(r)'
  BY <1>1, PlacedStays DEF OnceFacts
<1>4. Distinct(Records)' /\ LastKnown'
  BY <1>1, <1>2 DEF OnceFacts, LastKnown, HasRow, Distinct
<1> QED
  BY <1>3, <1>4 DEF OnceFacts

\* The row of the window in progress is ahead of every record of its metric and aggregate.
LEMMA RowAhead ==
    ASSUME Types, JobsInv, LoadedOK, \A r \in Recorded : Placed(r), row # NoRow,
           NEW r \in Recorded, r.metric = row.metric, r.agg = row.agg
    PROVE  r.start < row.start
<1>1. row \in Row /\ row.metric \in Metric /\ r \in Row
  BY RecordedRows DEF Types, RunOK, Row
<1>2. pc = "windows" /\ row.start = jobs[row.metric].next /\ row.start # 0
  BY DEF JobsInv
<1>3. Bound(row.metric) \in Nat /\ Bound(row.metric) <= row.start
  BY <1>1, <1>2, WindowAhead
<1>4. r.start \in Nat /\ row.start \in Nat /\ r.agg \in Nat
  <2>1. /\ r.start \in Grid /\ row.start \in Grid
        /\ r.agg \in 1..Aggregates
    BY <1>1 DEF Row
  <2>2. r.agg \in Nat
    BY <2>1, TimestampsAreNumbers
  <2> QED
    BY <2>1, <2>2, GridIsNat
<1>5. ~(r.agg < row.agg)
  BY <1>4
<1>6. r.start < Bound(row.metric)
  BY <1>5 DEF Placed
<1> QED
  BY <1>3, <1>4, <1>6

LEMMA InsertOnce ==
    ASSUME Types, Types', JobsInv, LoadedOK, OnceFacts, InsertRow
    PROVE  OnceFacts'
<1>1. row \in Row /\ row.metric \in Metric /\ row # NoRow
  BY DEF InsertRow, Types, RunOK, Row
<1>2. /\ pc = "windows" /\ row.start = jobs[row.metric].next /\ row.start # 0
      /\ UNCHANGED <<pc, checkpoint>>
  BY <1>1 DEF JobsInv, InsertRow
<1>3. row.start \in Grid /\ row.start \in Nat /\ row.agg \in 1..Aggregates
  BY <1>1, GridIsNat DEF Row
<1>4. Recorded' = Recorded \cup {row}
  BY <1>1, Inserted DEF Recorded
<1>5. ~HasRow(Recorded, row.metric, row.agg, row.start)
  <2>1. ASSUME NEW r \in Recorded, r.metric = row.metric, r.agg = row.agg, r.start = row.start
        PROVE  FALSE
    <3>1. r.start < row.start
      BY <1>1, <2>1, RowAhead DEF OnceFacts
    <3> QED
      BY <1>3, <2>1, <3>1
  <2> QED
    BY <2>1 DEF HasRow
<1>6. Distinct(Records')
  BY <1>1, <1>5, DistinctAppended DEF OnceFacts
<1>7. LastKnown'
  <2>1. destLast' = [destLast EXCEPT ![<<row.metric, row.agg>>] = row.start]
    BY DEF InsertRow
  <2>2. destLast \in [Metric \X (1..Aggregates) -> Nat]
    BY DEF Types, DestOK
  <2>3. ASSUME NEW m \in Metric, NEW k \in 1..Aggregates, destLast'[<<m, k>>] # 0
        PROVE  HasRow(Recorded', m, k, destLast'[<<m, k>>])
    <3>1. CASE m = row.metric /\ k = row.agg
      <4>1. destLast'[<<m, k>>] = row.start
        BY <2>1, <2>2, <3>1
      <4> QED
        BY <1>4, <3>1, <4>1 DEF HasRow
    <3>2. CASE ~(m = row.metric /\ k = row.agg)
      <4>1. destLast'[<<m, k>>] = destLast[<<m, k>>]
        BY <2>1, <2>2, <3>2
      <4>2. HasRow(Recorded, m, k, destLast[<<m, k>>])
        BY <2>3, <4>1 DEF OnceFacts, LastKnown
      <4> QED
        BY <1>4, <4>1, <4>2 DEF HasRow
    <3> QED
      BY <3>1, <3>2
  <2> QED
    BY <2>3 DEF LastKnown
<1>8. CASE row.agg < Aggregates
  <2>1. row' = [row EXCEPT !.agg = @ + 1] /\ jobs' = jobs
    BY <1>8 DEF InsertRow
  <2>2. row' \in Row /\ row'.metric = row.metric /\ row'.start = row.start /\ row'.agg = row.agg + 1
    BY <1>1, <1>3, <1>8, <2>1, TimestampsAreNumbers DEF Row
  <2>3. row' # NoRow
    BY <2>2, RowIsNotNone
  <2>4. ASSUME NEW r \in Recorded' PROVE Placed(r)'
    <3>1. CASE r = row
      BY <1>3, <2>2, <2>3, <3>1 DEF Placed
    <3>2. CASE r \in Recorded /\ r.start < Bound(r.metric)
      <4>1. Bound(r.metric)' = Bound(r.metric)
        BY <1>2, <2>1 DEF Bound, Running
      <4> QED
        BY <3>2, <4>1 DEF Placed
    <3>3. CASE r \in Recorded /\ r.metric = row.metric /\ r.start = row.start /\ r.agg < row.agg
      <4>1. r.agg \in Nat
        BY <3>3, RecordedRows DEF Row
      <4>2. r.agg < row'.agg
        BY <1>3, <2>2, <3>3, <4>1
      <4> QED
        BY <2>2, <2>3, <3>3, <4>2 DEF Placed
    <3> QED
      BY <1>4, <3>1, <3>2, <3>3 DEF OnceFacts, Placed
  <2> QED
    BY <1>6, <1>7, <2>4 DEF OnceFacts, Distinct
<1>9. CASE ~(row.agg < Aggregates)
  <2>1. row' = NoRow /\ jobs' = Completed(row.metric, row.start)
    BY <1>9 DEF InsertRow
  <2>2. row.start + Interval > row.start /\ row.start + Interval \in Nat
    BY <1>3, GridStep, TimestampsAreNumbers
  <2>3. PICK m \in Metric : m = row.metric
    BY <1>1
  <2>4. PICK w \in Grid : w = row.start
    BY <1>3
  <2>5. Bound(m)' = w + Interval
    <3>1. jobs'[m].updated = w + Interval /\ w + Interval # 0
      <4>1. jobs' = Completed(m, w)
        BY <2>1, <2>3, <2>4
      <4>2. jobs'[m].updated = w + Interval
        BY <4>1, CompletedJob
      <4> QED
        BY <1>3, <2>2, <2>4, <4>2, TimestampsAreNumbers
    <3> QED
      BY <1>2, <3>1 DEF Bound, Running
  <2>6. ASSUME NEW k \in Metric, k # m PROVE Bound(k)' = Bound(k)
    <3>1. jobs'[k] = jobs[k]
      BY <2>1, <2>3, <2>6, CompletedJob
    <3> QED
      BY <1>2, <3>1 DEF Bound, Running
  <2>7. ASSUME NEW r \in Recorded' PROVE r.start < Bound(r.metric)'
    <3>1. r \in Row
      BY <1>1, <1>4, RecordedRows
    <3>2. r.metric \in Metric /\ r.start \in Nat
      BY <3>1, GridIsNat DEF Row
    <3>3. CASE r.metric # m
      <4>1. Placed(r)
        BY <1>4, <2>3, <3>3 DEF OnceFacts
      <4> QED
        BY <2>3, <2>6, <3>2, <3>3, <4>1 DEF Placed
    <3>4. CASE r.metric = m
      <4>1. Bound(m) \in Nat /\ Bound(m) <= w
        BY <1>2, <2>3, <2>4, WindowAhead
      <4>2. r = row \/ r.start < Bound(m) \/ r.start = w
        BY <1>4, <2>4, <3>4 DEF OnceFacts, Placed
      <4>3. r.start <= w /\ w \in Nat
        BY <1>3, <2>4, <3>2, <4>1, <4>2
      <4>4. r.start < w + Interval
        BY <2>2, <2>4, <3>2, <4>3, TimestampsAreNumbers
      <4> QED
        BY <2>5, <3>4, <4>4
    <3> QED
      BY <3>3, <3>4
  <2>8. \A r \in Recorded' : Placed(r)'
    BY <2>7 DEF Placed
  <2> QED
    BY <1>6, <1>7, <2>8 DEF OnceFacts, Distinct
<1> QED
  BY <1>8, <1>9

LEMMA OnceStep ==
    ASSUME Types, Types', JobsInv, CoverInv, RebuildOK', OnceInv, [Next]_vars
    PROVE  OnceInv'
<1> SUFFICES ASSUME Undisturbed', crashes' = 0, faults' = 0
             PROVE  OnceFacts'
  BY DEF OnceInv, OnceFacts
<1>1. crashes \in Nat /\ faults \in Nat /\ jobs \in [Metric -> Job]
  BY DEF Types, RunOK
<1>f. ~Fault
  BY <1>1 DEF Fault
<1>2. Undisturbed
  BY UndisturbedBefore
<1>3. ASSUME NEW m \in Metric
      PROVE  ~(InsertFails \/ FullPageFails \/ FlushFails \/ AppendFails(m) \/ Crash)
  <2>1. ~Crash
    BY <1>1 DEF Crash
  <2> QED
    BY <1>f, <2>1 DEF InsertFails, FullPageFails, FlushFails, AppendFails
<1>g. ~(InsertFails \/ FullPageFails \/ FlushFails \/ Crash)
  <2>1. ~Crash
    BY <1>1 DEF Crash
  <2> QED
    BY <1>f, <2>1 DEF InsertFails, FullPageFails, FlushFails
<1>u. \/ UNCHANGED <<crashes, faults>>
      \/ Crash \/ Fault
  BY DEF Next, Add, Jobs, AddSample, SealDay, FinishAdd, LoadJobs, NextWindow, RowRefused, InsertRow,
         InsertFails, FullPageFails, WindowsDone, FlushDest, FlushFails, AppendCheckpoint,
         AppendFails, TriggerDone, ResetDest, ClearCheckpoints, BackfillTrigger, BackfillDone
<1>4. OnceFacts /\ RebuildOK /\ LoadedOK
  BY <1>2, <1>f, <1>g, <1>u DEF OnceInv, OnceFacts, CoverInv
<1>p. row # NoRow => pc = "windows" /\ row \in Row /\ row.metric \in Metric
  BY DEF JobsInv, Types, RunOK, Row
<1>b. ASSUME \A m \in Metric : Bound(m)' = Bound(m)
      PROVE  \A m \in Metric : Bound(m) <= Bound(m)'
  <2>1. \A m \in Metric : Bound(m) \in Nat
    BY BoundIsNat
  <2> QED
    BY <1>b, <2>1
<1>s. ASSUME UNCHANGED <<destPage, destFile, destLast, row>>, \A m \in Metric : Bound(m)' = Bound(m)
      PROVE  OnceFacts'
  BY <1>4, <1>b, <1>s, OnceStays
<1>5. ASSUME NEW m \in Metric, NEW t \in Timestamp, AddSample(m, t) \/ SealDay(m, t)
      PROVE  OnceFacts'
  <2>1. \A k \in Metric : Bound(k)' = Bound(k)
    BY <1>5 DEF AddSample, SealDay, MayWrite, Bound, Running
  <2> QED
    BY <1>5, <1>s, <2>1 DEF AddSample, SealDay
<1>6. ASSUME FinishAdd \/ BackfillTrigger PROVE OnceFacts'
  <2>1. \A k \in Metric : Bound(k)' = Bound(k)
    BY <1>6 DEF FinishAdd, BackfillTrigger, Bound, Running
  <2> QED
    BY <1>6, <1>s, <2>1 DEF FinishAdd, BackfillTrigger
<1>7. ASSUME LoadJobs PROVE OnceFacts'
  <2>1. PICK c \in {c \in Cutoffs : c >= cutoff} : jobs' = [m \in Metric |-> JobState(m, c)]
    BY <1>7 DEF LoadJobs
  <2>2. c \in Nat
    BY TimestampsAreNumbers
  <2>3. \A m \in Metric : jobs'[m].updated = 0
    BY <2>1, <2>2, JobLoaded
  <2>4. \A k \in Metric : Bound(k)' = Bound(k)
    BY <1>7, <2>3 DEF LoadJobs, Bound, Running
  <2> QED
    BY <1>7, <1>s, <2>4 DEF LoadJobs
<1>8. ASSUME NEW m \in Metric, NextWindow(m) PROVE OnceFacts'
  <2> DEFINE w == jobs[m].next
  <2>1. /\ Due(jobs[m]) /\ pc = "windows" /\ row = NoRow
        /\ UNCHANGED <<pc, destPage, destFile, destLast, checkpoint>>
        /\ jobs' = jobs \/ jobs' = Completed(m, w)
    BY <1>8 DEF NextWindow, NextJobs
  <2>2. CASE jobs' = jobs
    <3>1. \A k \in Metric : Bound(k)' = Bound(k)
      BY <2>1, <2>2 DEF Bound, Running
    <3> QED
      BY <1>4, <1>b, <2>1, <3>1, OnceStays
  <2>3. CASE jobs' = Completed(m, w)
    <3>1. w # 0 /\ Bound(m) \in Nat /\ Bound(m) <= w /\ w \in Grid
      BY <1>4, <2>1, WindowAhead DEF Due
    <3>2. w + Interval > w /\ w + Interval \in Nat /\ w \in Nat /\ w + Interval # 0
      BY <3>1, GridStep, TimestampsAreNumbers
    <3>3. jobs'[m].updated = w + Interval
      BY <2>3, CompletedJob
    <3> HIDE DEF w
    <3>4. Bound(m)' = w + Interval
      BY <2>1, <3>2, <3>3 DEF Bound, Running
    <3>5. Bound(m) <= Bound(m)'
      BY <3>1, <3>2, <3>4
    <3>6. ASSUME NEW k \in Metric, k # m PROVE Bound(k) <= Bound(k)'
      <4>1. jobs'[k] = jobs[k]
        BY <2>3, <3>6, CompletedJob
      <4>2. Bound(k)' = Bound(k) /\ Bound(k) \in Nat
        BY <2>1, <4>1, BoundIsNat DEF Bound, Running
      <4> QED
        BY <4>2
    <3>7. \A k \in Metric : Bound(k) <= Bound(k)'
      BY <3>5, <3>6
    <3> QED
      BY <1>4, <2>1, <3>7, OnceStays
  <2> QED
    BY <2>1, <2>2, <2>3
<1>9. ASSUME RowRefused PROVE OnceFacts'
  <2>1. row # NoRow /\ row \in Row /\ row.metric \in Metric /\ row.agg \in 1..Aggregates
        /\ row.start \in Nat
    BY <1>9, <1>p, GridIsNat DEF RowRefused, Row
  <2> DEFINE last == destLast[<<row.metric, row.agg>>]
  <2>2. last > row.start /\ last \in Nat
    BY <1>9, <2>1 DEF RowRefused, Stale, Types, DestOK
  <2>3. last # 0
    BY <2>1, <2>2
  <2>4. HasRow(Recorded, row.metric, row.agg, last)
    BY <1>4, <2>1, <2>3 DEF OnceFacts, LastKnown
  <2>5. PICK r \in Recorded : r.metric = row.metric /\ r.agg = row.agg /\ r.start = last
    BY <2>4 DEF HasRow
  <2>6. r.start < row.start
    BY <1>4, <2>1, <2>5, RowAhead DEF OnceFacts
  <2> HIDE DEF last
  <2> QED
    BY <2>1, <2>2, <2>5, <2>6
<1>10. ASSUME InsertRow PROVE OnceFacts'
  BY <1>4, <1>10, InsertOnce
<1>11. ASSUME WindowsDone PROVE OnceFacts'
  <2>1. CASE Updated # {}
    <3>1. \A k \in Metric : Bound(k)' = Bound(k)
      BY <1>11, <2>1 DEF WindowsDone, Bound, Running
    <3> QED
      BY <1>11, <1>s, <3>1 DEF WindowsDone
  <2>2. CASE Updated = {}
    <3>1. \A k \in Metric : Bound(k)' = Bound(k)
      BY <1>11, <2>2, BoundIs DEF WindowsDone
    <3> QED
      BY <1>11, <1>s, <3>1 DEF WindowsDone
  <2> QED
    BY <2>1, <2>2
<1>12. ASSUME FlushDest PROVE OnceFacts'
  <2>1. \A k \in Metric : Bound(k)' = Bound(k)
    BY <1>12 DEF FlushDest, Bound, Running
  <2> QED
    BY <1>4, <1>12, <1>b, <2>1, FlushOnce DEF FlushDest
<1>13. ASSUME NEW m \in Metric, AppendCheckpoint(m) PROVE OnceFacts'
  <2>1. /\ pc = "append" /\ jobs' = Handled(m) /\ jobs[m].updated > jobs[m].loaded
        /\ checkpoint' = [checkpoint EXCEPT ![m] = jobs[m].updated]
        /\ UNCHANGED <<pc, destPage, destFile, destLast, row>>
    BY <1>13 DEF AppendCheckpoint, Updated
  <2>2. jobs[m].updated \in Nat /\ jobs[m].loaded \in Nat
    BY <1>1, GridIsNat DEF Job
  <2>3. jobs[m].updated # 0
    BY <2>1, <2>2
  <2>4. ASSUME NEW k \in Metric PROVE Bound(k)' = Bound(k)
    <3>1. CASE k = m
      <4>1. jobs'[k].updated = 0
        BY <1>1, <2>1, <3>1 DEF Handled, Job
      <4>2. checkpoint'[k] = jobs[k].updated
        BY <2>1, <3>1 DEF Types, DestOK
      <4> QED
        BY <2>1, <2>3, <3>1, <4>1, <4>2 DEF Bound, Running
    <3>2. CASE k # m
      <4>1. jobs'[k] = jobs[k] /\ checkpoint'[k] = checkpoint[k]
        BY <1>1, <2>1, <3>2 DEF Handled, Types, DestOK
      <4> QED
        BY <2>1, <4>1 DEF Bound, Running
    <3> QED
      BY <3>1, <3>2
  <2> QED
    BY <1>s, <2>1, <2>4
<1>14. ASSUME TriggerDone PROVE OnceFacts'
  <2>1. \A k \in Metric : Bound(k)' = Bound(k)
    BY <1>14, BoundIs DEF TriggerDone
  <2> QED
    BY <1>14, <1>s, <2>1 DEF TriggerDone
<1>15. ASSUME ResetDest PROVE OnceFacts'
  <2>1. destPage' = <<>> /\ destFile' = <<>> /\ destLast' = [x \in DOMAIN destLast |-> 0]
    BY <1>15 DEF ResetDest
  <2>2. Recorded' = {} /\ Records' = <<>>
    BY <2>1, SmallSets DEF Recorded, Records
  <2>3. Distinct(Records)'
    BY <2>2 DEF Distinct
  <2>4. LastKnown'
    BY <2>1 DEF LastKnown, Types, DestOK
  <2> QED
    BY <2>2, <2>3, <2>4 DEF OnceFacts
<1>16. ASSUME ClearCheckpoints PROVE OnceFacts'
  <2>1. destPage = <<>> /\ destFile = <<>>
    BY <1>4, <1>16 DEF ClearCheckpoints, RebuildOK
  <2>2. Recorded = {} /\ Recorded' = Recorded /\ Records' = Records /\ destLast' = destLast
    BY <1>16, <2>1, SmallSets DEF ClearCheckpoints, Recorded, Records
  <2>3. Distinct(Records)' /\ LastKnown'
    BY <1>4, <2>2 DEF OnceFacts, LastKnown, HasRow, Distinct
  <2> QED
    BY <2>2, <2>3 DEF OnceFacts
<1>17. ASSUME BackfillDone PROVE OnceFacts'
  <2>1. \A k \in Metric : Bound(k)' = Bound(k)
    BY <1>17 DEF BackfillDone, Bound, Running
  <2> QED
    BY <1>4, <1>17, <1>b, <2>1, FlushOnce DEF BackfillDone
<1>18. ASSUME UNCHANGED vars PROVE OnceFacts'
  <2>1. \A k \in Metric : Bound(k)' = Bound(k)
    BY <1>18 DEF Bound, Running
  <2> QED
    BY <1>18, <1>s, <2>1
<1> QED
  BY <1>3, <1>g, <1>5, <1>6, <1>7, <1>8, <1>9, <1>10, <1>11, <1>12, <1>13, <1>14, <1>15, <1>16,
     <1>17, <1>18 DEF Next, Add, Jobs

LEMMA InitOnce == ASSUME Init PROVE OnceInv
<1>1. destPage = <<>> /\ destFile = <<>> /\ destLast = [x \in Metric \X (1..Aggregates) |-> 0]
  BY DEF Init
<1>2. Recorded = {} /\ Records = <<>>
  BY <1>1, SmallSets DEF Recorded, Records
<1> QED
  BY <1>1, <1>2 DEF OnceInv, Distinct, LastKnown


-----------------------------------------------------------------------------
(* The theorems.                                                           *)

IInv == Types /\ ExactInv /\ JobsInv /\ CoverInv /\ OnceInv

LEMMA Always == Spec => []IInv
<1>1. Init => IInv
  BY InitTypes, InitExact, InitJobs, InitCover, InitOnce DEF IInv
<1>2. ASSUME IInv, [Next]_vars PROVE IInv'
  <2>1. Types /\ ExactInv /\ JobsInv /\ CoverInv /\ OnceInv
    BY <1>2 DEF IInv
  <2>2. Types' /\ SourceStep
    BY <1>2, <2>1, TypesStep
  <2>3. ExactInv' /\ JobsInv' /\ CoverInv'
    BY <1>2, <2>1, <2>2, ExactStep, JobsStep, CoverStep
  <2>4. OnceInv'
    <3>1. CASE Undisturbed'
      <4>1. RebuildOK'
        BY <2>3, <3>1 DEF CoverInv
      <4> QED
        BY <1>2, <2>1, <2>2, <4>1, OnceStep
    <3>2. CASE ~Undisturbed'
      BY <3>2 DEF OnceInv
    <3> QED
      BY <3>1, <3>2
  <2> QED
    BY <2>2, <2>3, <2>4 DEF IInv
<1> QED
  BY <1>1, <1>2, PTL DEF Spec

\* Every row of the destination was computed from all samples of its window that came in
\* order, and from no other, in every behavior: with crashes, failed writes, backfills beside
\* a trigger and days whose file is renamed.  A window is computed only when the newest sample
\* of its metric lies behind it (latestClosedMetricTimestamp and the safe bound of a job), so
\* a sample that still comes into it is late.
THEOREM RowsAreExact == Spec => []RowsExact
<1>1. IInv => RowsExact
  BY ExactRows DEF IInv
<1> QED
  BY <1>1, Always, PTL

\* A checkpoint claims no window whose rows are not in the destination's files: a trigger
\* flushes the destination before it appends a checkpoint, and a job that fails stops before
\* the window whose rows are not all there.  (triggerRollupsForSourceLocked, in behaviors in
\* which a rebuild is not cut by a stop and has the database to itself.)
THEOREM CheckpointsCover == Spec => []CheckpointCovered
<1>1. IInv => CheckpointCovered
  BY RowsCovered DEF IInv
<1> QED
  BY <1>1, Always, PTL

\* Without a crash or a failed write no row is written twice, however triggers and rebuilds
\* follow each other: the checkpoint a job begins with is behind all windows it has computed,
\* and no row it comes to is stale for the destination.
THEOREM WindowsOnce == Spec => []RowsOnce
<1>1. IInv => RowsOnce
  BY DEF IInv, OnceInv, RowsOnce, Records, Distinct
<1> QED
  BY <1>1, Always, PTL
=============================================================================
