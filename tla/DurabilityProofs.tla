-------------------------- MODULE DurabilityProofs --------------------------
(***************************************************************************)
(* Proofs about MetricStore for every value of its constants: its types,   *)
(* the bound on open days, and that a sealed day gets no more frames; that *)
(* it loses nothing it acknowledged and stores nothing twice through       *)
(* crashes, failed writes and the replays that follow; that it implements  *)
(* SampleLog; and that every stored sample stays under the metric it was   *)
(* written to, although pages reach the disk before the catalog file that  *)
(* names their ids.                                                        *)
(***************************************************************************)
EXTENDS MetricStore, FiniteSetTheorems, WellFoundedInduction, TLAPS

(***************************************************************************)
(* The inductive invariant.  The step a handler is at, or comes back to    *)
(* when the page it is writing is on disk, tells what it knows of its call *)
(* and of the days.                                                        *)
(***************************************************************************)
Ensuring == pc = "ensure" \/ (pc \in {"flush", "sync", "reset"} /\ flush.goal = "seal" /\ ~Replaying)
Paging   == pc = "page" \/ (pc \in {"flush", "sync"} /\ flush.goal = "reorder" /\ ~Replaying)
Aging    == pc = "age" \/ (pc \in {"flush", "sync"} /\ flush.goal = "age")
Filling  == pc \in {"flush", "sync", "reset"} /\ flush.goal = "full"

CallOK ==
    /\ call.op = "add" => call.metric \in Metric /\ call.ts \in Timestamp
    /\ Ensuring \/ pc = "log" \/ Paging \/ Aging \/ Filling => call.op = "add"
    /\ Paging => Known(call.metric)
    /\ pc \in {"flush", "sync"} => flush.day \in Day /\ flush.goal # "none"
    /\ pc = "reset" /\ flush.goal = "seal" => flush.day \in Day

DaysOK ==
    /\ IsFiniteSet(openDays)
    /\ Cardinality(openDays) <= MaxActiveDays
    /\ openDays \cap sealedDays = {}
    /\ pc = "log" \/ Paging =>
         DayOf[call.ts] \in openDays \/ Cardinality(openDays) < MaxActiveDays
    /\ pc = "log" \/ Paging \/ Aging => DayOf[call.ts] \notin sealedDays
    /\ pc \in {"flush", "sync"} => flush.day \notin sealedDays
    /\ pc = "reset" /\ flush.goal = "seal" => flush.day \notin openDays

IInv == TypeOK /\ CallOK /\ DaysOK

-----------------------------------------------------------------------------
(* The constants and the helpers.                                          *)

\* partitionKey: a timestamp's day is a day, and days are ordered as numbers.
LEMMA DaysAreNumbers == Day \subseteq Nat \ {0} /\ \A t \in Timestamp : DayOf[t] \in Day
BY ConfigAssumption DEF Day, Range

\* oldestOpenDay returns one of the open days.
LEMMA OldestIsOpen ==
    ASSUME openDays \subseteq Day, openDays # {}
    PROVE  OldestOpenDay \in openDays
<1>1. openDays \subseteq Nat
  BY DaysAreNumbers
<1>2. PICK d \in openDays : \A e \in openDays : <<e, d>> \notin OpToRel(<, Nat)
  BY <1>1, WFMin, NatLessThanWellFounded, Zenon
<1>3. \A e \in openDays : ~(e < d)
  BY <1>1, <1>2, Zenon DEF OpToRel
<1>4. \A e \in openDays : d <= e
  BY <1>1, <1>3
<1> QED
  BY <1>4, Zenon DEF OldestOpenDay

\* GetMetricID: while the catalog is not full the next id is a metric id.
LEMMA NextIDFits ==
    ASSUME MemoryOK, Cardinality(Registered) < MaxMetrics
    PROVE  NextMetricID \in MetricID
<1>1. IsFiniteSet(Registered)
  BY FS_Subset, ConfigAssumption DEF Registered
<1>2. Cardinality(Registered) \in Nat
  BY <1>1, FS_CardinalityType
<1> QED
  BY <1>2, ConfigAssumption DEF NextMetricID, MetricID

\* A record the engine logs is a WAL record.
LEMMA WALRecordType ==
    ASSUME NEW i \in MetricID, HandlerOK, call.op = "add", call.ts \in Timestamp
    PROVE  WALRecord(i) \in Record
BY DEF WALRecord, Record, HandlerOK, Name

-----------------------------------------------------------------------------
(* Initial states.                                                         *)

LEMMA InitIInv == Init => IInv
<1> SUFFICES ASSUME Init PROVE IInv
  OBVIOUS
<1>1. DiskOK
  BY DEF Init, DiskOK, EmptyPages, NoMetrics
<1>2. MemoryOK
  <2>1. lastTS \in [Metric -> Timestamp \cup {0}]
    BY DEF Init
  <2>2. page \in [Day -> Seq(Sample)]
    BY DEF Init, EmptyPages
  <2>3. /\ catalog \in [Metric -> MetricID \cup {0}]
        /\ idToName \in [MetricID -> Name]
    BY DEF Init, NoMetrics, NoIds, Name
  <2>4. dirty \in BOOLEAN /\ openDays \subseteq Day /\ sealedDays \subseteq Day
    BY DEF Init
  <2> QED
    BY <2>1, <2>2, <2>3, <2>4 DEF MemoryOK
<1>3. HandlerOK
  BY DEF Init, HandlerOK, NoCall, NoFlush, NoReplay, Name
<1>4. HistoryOK
  BY ConfigAssumption DEF Init, HistoryOK
<1>5. CallOK
  BY DEF Init, CallOK, NoCall, Ensuring, Paging, Aging, Filling
<1>6. DaysOK
  BY FS_EmptySet, ConfigAssumption DEF Init, DaysOK, Paging, Aging
<1> QED
  BY <1>1, <1>2, <1>3, <1>4, <1>5, <1>6 DEF IInv, TypeOK

-----------------------------------------------------------------------------
(* Pieces of actions.                                                      *)

USE DEF disk, memory, given, history, vars

\* A process that stops leaves a well-formed, empty memory.
LEMMA LoseMemoryOK ==
    ASSUME NEW where \in {"down", "closed"}, LoseMemory(where)
    PROVE  MemoryOK' /\ HandlerOK' /\ CallOK' /\ DaysOK'
<1>1. MemoryOK'
  <2>1. page' \in [Day -> Seq(Sample)]
    BY DEF LoseMemory, EmptyPages
  <2>2. lastTS' \in [Metric -> Timestamp \cup {0}]
    BY DEF LoseMemory
  <2>3. /\ catalog' \in [Metric -> MetricID \cup {0}]
        /\ idToName' \in [MetricID -> Name]
    BY DEF LoseMemory, NoMetrics, NoIds, Name
  <2>4. dirty' \in BOOLEAN /\ openDays' \subseteq Day /\ sealedDays' \subseteq Day
    BY DEF LoseMemory
  <2> QED
    BY <2>1, <2>2, <2>3, <2>4 DEF MemoryOK
<1>2. HandlerOK'
  BY DEF LoseMemory, HandlerOK, NoCall, NoFlush, NoReplay, Name
<1>3. CallOK'
  BY DEF LoseMemory, CallOK, NoCall, Ensuring, Paging, Aging, Filling
<1>4. DaysOK'
  BY FS_EmptySet, ConfigAssumption DEF LoseMemory, DaysOK, Paging, Aging
<1> QED
  BY <1>1, <1>2, <1>3, <1>4

\* Returning from a call frees the handler and answers an AddSample.
LEMMA ReturnOK ==
    ASSUME HandlerOK, CallOK, NEW ok \in BOOLEAN, Return(ok),
           answered \subseteq [metric : Metric, ts : Timestamp, val : Nat, ok : BOOLEAN]
    PROVE  /\ HandlerOK' /\ CallOK'
           /\ answered' \subseteq [metric : Metric, ts : Timestamp, val : Nat, ok : BOOLEAN]
<1>1. HandlerOK'
  BY DEF Return, HandlerOK, NoCall, NoFlush, Name
<1>2. CallOK'
  BY DEF Return, CallOK, NoCall, NoFlush, Ensuring, Paging, Aging, Filling
<1>3. ASSUME call.op = "add"
      PROVE  [metric |-> call.metric, ts |-> call.ts, val |-> call.val, ok |-> ok]
                \in [metric : Metric, ts : Timestamp, val : Nat, ok : BOOLEAN]
  BY <1>3 DEF CallOK, HandlerOK
<1>4. answered' \subseteq [metric : Metric, ts : Timestamp, val : Nat, ok : BOOLEAN]
  BY <1>3 DEF Return
<1> QED
  BY <1>1, <1>2, <1>4

\* Returning leaves the days as they are.
LEMMA ReturnDaysOK ==
    ASSUME DaysOK, NEW ok \in BOOLEAN, Return(ok), UNCHANGED <<openDays, sealedDays>>
    PROVE  DaysOK'
BY DEF DaysOK, Return, Paging, Aging

\* Adding a sample to a page keeps the pages and LastTS well-formed.
LEMMA PutSampleOK ==
    ASSUME MemoryOK, NEW d \in Day, NEW s \in Sample, PutSample(d, s)
    PROVE  /\ openDays' = openDays \cup {d}
           /\ openDays' \subseteq Day
           /\ page' \in [Day -> Seq(Sample)]
           /\ lastTS' \in [Metric -> Timestamp \cup {0}]
<1>1. openDays' = openDays \cup {d} /\ openDays' \subseteq Day
  BY DEF PutSample, MemoryOK
<1>2. page' \in [Day -> Seq(Sample)]
  BY DEF PutSample, MemoryOK
<1>3. s.ts \in Timestamp
  BY DEF Sample
<1>4. DEFINE m == idToName'[s.id]
             ts == IF s.ts >= lastTS[m] THEN s.ts ELSE lastTS[m]
<1>5. lastTS' = [lastTS EXCEPT ![m] = ts]
  BY DEF PutSample
<1>6. ASSUME m \in Metric PROVE ts \in Timestamp \cup {0}
  BY <1>3, <1>6 DEF MemoryOK
<1>7. lastTS' \in [Metric -> Timestamp \cup {0}]
  <2> HIDE DEF m, ts
  <2> QED
    BY <1>5, <1>6 DEF MemoryOK
<1> QED
  BY <1>1, <1>2, <1>7

\* Entering a metric keeps the catalog well-formed.
LEMMA RegisterOK ==
    ASSUME MemoryOK, NEW m \in Metric, NEW i \in MetricID, Register(m, i)
    PROVE  /\ catalog' \in [Metric -> MetricID \cup {0}]
           /\ idToName' \in [MetricID -> Name]
           /\ dirty' \in BOOLEAN
           /\ catalog'[m] = i
           /\ idToName'[i] = m
BY DEF Register, MemoryOK, Name

\* Dropping a page keeps the pages well-formed and the days bounded.
LEMMA DropPageOK ==
    ASSUME MemoryOK, DaysOK, NEW d \in Day, DropPage(d)
    PROVE  /\ page' \in [Day -> Seq(Sample)]
           /\ openDays' = openDays \ {d}
           /\ openDays' \subseteq Day
           /\ IsFiniteSet(openDays')
           /\ Cardinality(openDays') =
                IF d \in openDays THEN Cardinality(openDays) - 1 ELSE Cardinality(openDays)
<1>1. page' \in [Day -> Seq(Sample)]
  BY DEF DropPage, MemoryOK
<1>2. openDays' = openDays \ {d} /\ openDays' \subseteq Day
  BY DEF DropPage, MemoryOK
<1> QED
  BY <1>1, <1>2, FS_RemoveElement DEF DaysOK

\* Too many open days: sealing starts with a day that is open.
LEMMA SealsAnOpenDay ==
    ASSUME MemoryOK, DaysOK, NEW d \in Day, NeedsSeal(d)
    PROVE  OldestOpenDay \in openDays
<1>1. openDays # {}
  BY FS_EmptySet, ConfigAssumption DEF DaysOK, NeedsSeal
<1> QED
  BY <1>1, OldestIsOpen DEF MemoryOK

\* ensureDayOpen: a day that needs no seal can be opened.
LEMMA OneMoreDayFits ==
    ASSUME DaysOK, NEW d, ~NeedsSeal(d)
    PROVE  /\ IsFiniteSet(openDays \cup {d})
           /\ Cardinality(openDays \cup {d}) <= MaxActiveDays
<1>1. Cardinality(openDays) \in Nat /\ MaxActiveDays \in Nat
  BY FS_CardinalityType, ConfigAssumption DEF DaysOK
<1>2. d \in openDays \/ Cardinality(openDays) < MaxActiveDays
  BY <1>1 DEF NeedsSeal
<1>3. /\ IsFiniteSet(openDays \cup {d})
      /\ Cardinality(openDays \cup {d}) =
           IF d \in openDays THEN Cardinality(openDays) ELSE Cardinality(openDays) + 1
  BY FS_AddElement DEF DaysOK
<1> QED
  BY <1>1, <1>2, <1>3 DEF DaysOK

\* Starting to seal leaves the number of open days bounded and the day that is
\* sealed among the days.
LEMMA StartSealOK ==
    ASSUME MemoryOK, DaysOK, NEW d \in Day, NeedsSeal(d), StartSeal
    PROVE  /\ flush' = [day |-> OldestOpenDay, goal |-> "seal"]
           /\ OldestOpenDay \in Day /\ OldestOpenDay \notin sealedDays
           /\ pc' \in {"flush", "reset"}
           /\ openDays' \subseteq openDays
           /\ IsFiniteSet(openDays')
           /\ Cardinality(openDays') <= MaxActiveDays
           /\ pc' = "reset" => OldestOpenDay \notin openDays'
<1>1. OldestOpenDay \in openDays
  BY SealsAnOpenDay
<1>2. OldestOpenDay \in Day /\ OldestOpenDay \notin sealedDays
  BY <1>1 DEF MemoryOK, DaysOK
<1>3. \/ openDays' = openDays /\ pc' = "flush"
      \/ openDays' = openDays \ {OldestOpenDay} /\ pc' = "reset"
  BY DEF StartSeal, StartFlush
<1>4. openDays' \subseteq openDays
  BY <1>3
<1>5. IsFiniteSet(openDays') /\ Cardinality(openDays') <= Cardinality(openDays)
  BY <1>4, FS_Subset DEF DaysOK
<1>6. Cardinality(openDays') <= MaxActiveDays
  BY <1>4, <1>5, FS_CardinalityType, ConfigAssumption DEF DaysOK
<1>7. flush' = [day |-> OldestOpenDay, goal |-> "seal"]
  BY DEF StartSeal, StartFlush
<1> QED
  BY <1>2, <1>3, <1>4, <1>5, <1>6, <1>7

-----------------------------------------------------------------------------
(* Every action keeps the invariant.                                       *)

\* LoadCatalog and the start of replay.
LEMMA OpenDatabaseStep ==
    ASSUME IInv, OpenDatabase
    PROVE  IInv'
<1> USE DEF IInv, TypeOK
<1>1. DiskOK'
  <2>1. (wal' = wal \/ wal' = <<>>) /\ UNCHANGED <<dataFile, catalogFile>>
    BY DEF OpenDatabase
  <2>2. wal \in Seq(Record) /\ <<>> \in Seq(Record)
    BY DEF DiskOK
  <2> QED
    BY <2>1, <2>2 DEF DiskOK
<1>2. MemoryOK'
  <2>1. idToName' \in [MetricID -> Name]
    BY DEF OpenDatabase, Ids, Name, MetricID
  <2> QED
    BY <2>1 DEF OpenDatabase, MemoryOK, DiskOK
<1>3. HandlerOK'
  BY DEF OpenDatabase, HandlerOK, DiskOK
<1>4. HistoryOK'
  BY DEF OpenDatabase, HistoryOK, Down
<1>5. CallOK'
  BY DEF OpenDatabase, CallOK, Ensuring, Paging, Aging, Filling, Replaying, Down
<1>6. DaysOK'
  BY DEF OpenDatabase, DaysOK, Ensuring, Paging, Aging, Filling, Replaying, Down
<1> QED
  BY <1>1, <1>2, <1>3, <1>4, <1>5, <1>6

\* One record of the log, and the seal or page it makes way for.
LEMMA ReplayRecordStep ==
    ASSUME IInv, ReplayRecord
    PROVE  IInv'
<1> USE DEF IInv, TypeOK
<1> DEFINE r == replay.recs[replay.pos]
           d == DayOf[r.ts]
           s == [id |-> r.id, ts |-> r.ts, val |-> r.val]
           Skip    == /\ replay' = [replay EXCEPT !.pos = @ + 1]
                      /\ UNCHANGED <<pc, flush, openDays, page, lastTS>>
           Seal    == ~IsSealed(d) /\ NeedsSeal(d) /\ StartSeal /\ UNCHANGED <<replay, page, lastTS>>
           Reorder == /\ ~IsSealed(d) /\ ~NeedsSeal(d)
                      /\ StartFlush(d, "reorder") /\ UNCHANGED <<replay, openDays, page, lastTS>>
           Put     == /\ ~IsSealed(d) /\ ~NeedsSeal(d) /\ PutSample(d, s)
                      /\ replay' = [replay EXCEPT !.pos = @ + 1]
                      /\ UNCHANGED <<pc, flush>>
<1>a. r \in Record /\ Replaying /\ pc = "replay"
  BY DEF ReplayRecord, HandlerOK, Replaying
<1>b. d \in Day /\ s \in Sample
  BY <1>a, DaysAreNumbers DEF Record, Sample
<1>c. Skip \/ Seal \/ Reorder \/ Put
  BY DEF ReplayRecord
<1>d. UNCHANGED <<disk, sealedDays, call, closeErrs, history>>
  BY DEF ReplayRecord
<1>e. /\ catalog' \in [Metric -> MetricID \cup {0}]
      /\ idToName' \in [MetricID -> Name]
      /\ dirty' \in BOOLEAN
  <2>1. CASE UNCHANGED <<catalog, idToName, dirty>>
    BY <2>1 DEF MemoryOK
  <2>2. CASE r.name # NoName /\ Register(r.name, r.id)
    BY <1>a, <2>2, RegisterOK DEF Record, Name
  <2> QED
    BY <2>1, <2>2 DEF ReplayRecord
<1>f. ASSUME Seal
      PROVE  /\ flush' = [day |-> OldestOpenDay, goal |-> "seal"]
             /\ OldestOpenDay \in Day /\ OldestOpenDay \notin sealedDays
             /\ pc' \in {"flush", "reset"}
             /\ openDays' \subseteq openDays
             /\ IsFiniteSet(openDays')
             /\ Cardinality(openDays') <= MaxActiveDays
             /\ pc' = "reset" => OldestOpenDay \notin openDays'
  BY <1>b, <1>f, StartSealOK
<1>g. ASSUME Put
      PROVE  /\ openDays' = openDays \cup {d}
             /\ openDays' \subseteq Day
             /\ page' \in [Day -> Seq(Sample)]
             /\ lastTS' \in [Metric -> Timestamp \cup {0}]
  BY <1>b, <1>g, PutSampleOK
<1> HIDE DEF r, d, s
<1>1. DiskOK'
  BY <1>d DEF DiskOK
<1>2. MemoryOK'
  BY <1>b, <1>c, <1>d, <1>e, <1>f, <1>g DEF MemoryOK
<1>3. HandlerOK'
  BY <1>a, <1>b, <1>c, <1>d, <1>f DEF HandlerOK, StartFlush
<1>4. HistoryOK'
  BY <1>d DEF HistoryOK
<1>5. CallOK'
  BY <1>a, <1>b, <1>c, <1>d, <1>f DEF CallOK, HandlerOK, StartFlush, Ensuring, Paging, Aging, Filling, Replaying
<1>6. DaysOK'
  <2>a. ASSUME Put PROVE IsFiniteSet(openDays') /\ Cardinality(openDays') <= MaxActiveDays
    BY <1>g, <2>a, OneMoreDayFits
  <2>1. IsFiniteSet(openDays') /\ Cardinality(openDays') <= MaxActiveDays
    BY <1>c, <1>f, <2>a DEF DaysOK
  <2>2. openDays' \cap sealedDays' = {}
    BY <1>c, <1>d, <1>f, <1>g DEF DaysOK, IsSealed
  <2> QED
    BY <1>a, <1>c, <1>d, <1>f, <2>1, <2>2 DEF DaysOK, HandlerOK, StartFlush, IsSealed, Ensuring, Paging, Aging, Filling, Replaying
<1> QED
  BY <1>1, <1>2, <1>3, <1>4, <1>5, <1>6

\* The open is given up.
LEMMA ReplayFailsStep ==
    ASSUME IInv, ReplayFails
    PROVE  IInv'
<1> USE DEF IInv, TypeOK
<1>1. DiskOK'
  BY DEF ReplayFails, DiskOK
<1>2. MemoryOK'
  BY LoseMemoryOK DEF ReplayFails
<1>3. HandlerOK'
  BY LoseMemoryOK DEF ReplayFails
<1>4. HistoryOK'
  BY DEF ReplayFails, HistoryOK
<1>5. CallOK'
  BY LoseMemoryOK DEF ReplayFails
<1>6. DaysOK'
  BY LoseMemoryOK DEF ReplayFails
<1> QED
  BY <1>1, <1>2, <1>3, <1>4, <1>5, <1>6

\* The open is complete.
LEMMA ReplayDoneStep ==
    ASSUME IInv, ReplayDone
    PROVE  IInv'
<1> USE DEF IInv, TypeOK
<1>1. DiskOK'
  BY DEF ReplayDone, DiskOK
<1>2. MemoryOK'
  BY DEF ReplayDone, MemoryOK
<1>3. HandlerOK'
  BY DEF ReplayDone, HandlerOK, NoReplay
<1>4. HistoryOK'
  BY DEF ReplayDone, HistoryOK
<1>5. CallOK'
  BY DEF ReplayDone, CallOK, Ensuring, Paging, Aging, Filling, Replaying
<1>6. DaysOK'
  BY DEF ReplayDone, DaysOK, Ensuring, Paging, Aging, Filling, Replaying
<1> QED
  BY <1>1, <1>2, <1>3, <1>4, <1>5, <1>6

\* A call of AddSample that is not stale.
LEMMA BeginAddStep ==
    ASSUME IInv, NEW m \in Metric, NEW t \in Timestamp, BeginAdd(m, t)
    PROVE  IInv'
<1> USE DEF IInv, TypeOK
<1>1. DiskOK'
  BY DEF BeginAdd, DiskOK
<1>2. MemoryOK'
  BY DEF BeginAdd, MemoryOK
<1>3. HandlerOK'
  BY DEF BeginAdd, HandlerOK, HistoryOK, Name
<1>4. HistoryOK'
  <2>1. latest' \in [Day -> Timestamp \cup {0}]
    BY DaysAreNumbers DEF BeginAdd, HistoryOK
  <2>2. calls' \in Nat
    BY DEF BeginAdd, HistoryOK
  <2>3. newest' = newest \/ newest' = newest \cup {calls'}
    BY DEF BeginAdd
  <2> QED
    BY <2>1, <2>2, <2>3 DEF BeginAdd, HistoryOK
<1>5. CallOK'
  BY DEF BeginAdd, CallOK, Ensuring, Paging, Aging, Filling, Replaying
<1>6. DaysOK'
  BY DEF BeginAdd, DaysOK, Ensuring, Paging, Aging, Filling, Replaying
<1> QED
  BY <1>1, <1>2, <1>3, <1>4, <1>5, <1>6

\* ensureDayOpen: the day is open, or the oldest is sealed first.
LEMMA EnsureDayOpenStep ==
    ASSUME IInv, EnsureDayOpen
    PROVE  IInv'
<1> USE DEF IInv, TypeOK
<1> DEFINE d == DayOf[call.ts]
           Seal == NeedsSeal(d) /\ StartSeal
           Open == ~NeedsSeal(d) /\ openDays' = openDays \cup {d} /\ pc' = "log" /\ UNCHANGED flush
<1>a. call.op = "add" /\ call.metric \in Metric /\ call.ts \in Timestamp /\ d \in Day
  BY DaysAreNumbers DEF EnsureDayOpen, CallOK, Ensuring
<1>b. /\ Seal \/ Open
      /\ pc = "ensure" /\ d \notin sealedDays
      /\ UNCHANGED <<disk, catalog, idToName, dirty, lastTS, page, sealedDays, call,
                      replay, closeErrs, history>>
  BY DEF EnsureDayOpen, IsSealed
<1>c. ASSUME Seal
      PROVE  /\ flush' = [day |-> OldestOpenDay, goal |-> "seal"]
             /\ OldestOpenDay \in Day /\ OldestOpenDay \notin sealedDays
             /\ pc' \in {"flush", "reset"}
             /\ openDays' \subseteq openDays
             /\ IsFiniteSet(openDays')
             /\ Cardinality(openDays') <= MaxActiveDays
             /\ pc' = "reset" => OldestOpenDay \notin openDays'
  BY <1>a, <1>c, StartSealOK
<1>1. DiskOK'
  BY <1>b DEF DiskOK
<1>2. MemoryOK'
  BY <1>a, <1>b, <1>c DEF MemoryOK
<1>3. HandlerOK'
  BY <1>b, <1>c DEF HandlerOK
<1>4. HistoryOK'
  BY <1>b DEF HistoryOK
<1>5. CallOK'
  BY <1>a, <1>b, <1>c DEF CallOK, HandlerOK, Ensuring, Paging, Aging, Filling, Replaying
<1>6. DaysOK'
  <2>1. IsFiniteSet(openDays') /\ Cardinality(openDays') <= MaxActiveDays
    BY <1>b, <1>c, OneMoreDayFits
  <2>2. openDays' \cap sealedDays' = {}
    BY <1>b, <1>c DEF DaysOK
  <2> QED
    BY <1>a, <1>b, <1>c, <2>1, <2>2 DEF DaysOK, HandlerOK, Ensuring, Paging, Aging, Filling, Replaying
<1> QED
  BY <1>1, <1>2, <1>3, <1>4, <1>5, <1>6

\* The call returns an error: its day was sealed.
LEMMA DayIsSealedStep ==
    ASSUME IInv, DayIsSealed
    PROVE  IInv'
<1> USE DEF IInv, TypeOK
<1>r. /\ HandlerOK' /\ CallOK'
      /\ answered' \subseteq [metric : Metric, ts : Timestamp, val : Nat, ok : BOOLEAN]
  BY ReturnOK DEF DayIsSealed, HistoryOK
<1>1. DiskOK'
  BY DEF DayIsSealed, DiskOK
<1>2. MemoryOK'
  BY DEF DayIsSealed, MemoryOK
<1>3. HandlerOK'
  BY <1>r
<1>4. HistoryOK'
  BY <1>r DEF DayIsSealed, HistoryOK
<1>5. CallOK'
  BY <1>r
<1>6. DaysOK'
  BY ReturnDaysOK DEF DayIsSealed
<1> QED
  BY <1>1, <1>2, <1>3, <1>4, <1>5, <1>6

\* The call returns an error: GetMetricID refuses the metric.
LEMMA RejectMetricStep ==
    ASSUME IInv, RejectMetric
    PROVE  IInv'
<1> USE DEF IInv, TypeOK
<1>r. /\ HandlerOK' /\ CallOK'
      /\ answered' \subseteq [metric : Metric, ts : Timestamp, val : Nat, ok : BOOLEAN]
  BY ReturnOK DEF RejectMetric, HistoryOK
<1>1. DiskOK'
  BY DEF RejectMetric, DiskOK
<1>2. MemoryOK'
  BY DEF RejectMetric, MemoryOK
<1>3. HandlerOK'
  BY <1>r
<1>4. HistoryOK'
  BY <1>r DEF RejectMetric, HistoryOK
<1>5. CallOK'
  BY <1>r
<1>6. DaysOK'
  BY ReturnDaysOK DEF RejectMetric
<1> QED
  BY <1>1, <1>2, <1>3, <1>4, <1>5, <1>6

\* GetMetricID and the WAL append.
LEMMA LogSampleStep ==
    ASSUME IInv, NEW useWAL \in BOOLEAN, LogSample(useWAL)
    PROVE  IInv'
<1> USE DEF IInv, TypeOK
<1> DEFINE i == IF Known(call.metric) THEN catalog[call.metric] ELSE NextMetricID
<1>a. call.op = "add" /\ call.metric \in Metric /\ call.ts \in Timestamp /\ pc = "log"
  BY DEF LogSample, CallOK
<1>b. i \in MetricID
  BY <1>a, NextIDFits DEF LogSample, Known, MemoryOK
<1>c. WALRecord(i) \in Record
  BY <1>a, <1>b, WALRecordType
<1>d. /\ catalog' \in [Metric -> MetricID \cup {0}]
      /\ idToName' \in [MetricID -> Name]
      /\ dirty' \in BOOLEAN
      /\ catalog'[call.metric] # 0
  <2>1. CASE Known(call.metric)
    BY <2>1 DEF LogSample, MemoryOK, Known
  <2>2. CASE ~Known(call.metric) /\ Register(call.metric, i)
    BY <1>a, <1>b, <2>2, RegisterOK, ConfigAssumption DEF MetricID
  <2> QED
    BY <2>1, <2>2 DEF LogSample
<1>e. wal' \in Seq(Record)
  <2>1. wal' = wal \/ wal' = Append(wal, WALRecord(i))
    BY DEF LogSample
  <2> QED
    BY <1>c, <2>1 DEF DiskOK
<1> HIDE DEF i
<1>1. DiskOK'
  BY <1>e DEF LogSample, DiskOK
<1>2. MemoryOK'
  BY <1>d DEF LogSample, MemoryOK
<1>3. HandlerOK'
  BY DEF LogSample, HandlerOK
<1>4. HistoryOK'
  <2>1. cutoff' \in Nat
    BY <1>a, ConfigAssumption DEF LogSample, HistoryOK
  <2> QED
    BY <2>1 DEF LogSample, HistoryOK
<1>5. CallOK'
  BY <1>a, <1>d DEF LogSample, CallOK, Ensuring, Paging, Aging, Filling, Replaying, Known
<1>6. DaysOK'
  BY DEF LogSample, DaysOK, Ensuring, Paging, Aging, Filling, Replaying
<1> QED
  BY <1>1, <1>2, <1>3, <1>4, <1>5, <1>6

\* addToOpenDay, with the rollup writer's flush and retry.
LEMMA AddToPageStep ==
    ASSUME IInv, AddToPage
    PROVE  IInv'
<1> USE DEF IInv, TypeOK
<1> DEFINE d == DayOf[call.ts]
           s == [id |-> catalog[call.metric], ts |-> call.ts, val |-> call.val]
           Retry  == /\ StartFlush(d, "reorder")
                     /\ UNCHANGED <<openDays, page, lastTS, call, replay, closeErrs, answered>>
           Refuse == Return(FALSE) /\ UNCHANGED <<openDays, page, lastTS>>
           Put    == PutSample(d, s) /\ pc' = "age" /\ UNCHANGED <<call, flush, replay, closeErrs, answered>>
<1>a. /\ call.op = "add" /\ call.metric \in Metric /\ call.ts \in Timestamp /\ d \in Day
      /\ pc = "page" /\ d \notin sealedDays /\ catalog[call.metric] # 0
      /\ d \in openDays \/ Cardinality(openDays) < MaxActiveDays
  BY DaysAreNumbers DEF AddToPage, CallOK, DaysOK, Paging, Known
<1>b. s \in Sample
  BY <1>a DEF Sample, MemoryOK, HandlerOK
<1>c. /\ Retry \/ Refuse \/ Put
      /\ UNCHANGED <<idToName, disk, catalog, dirty, sealedDays, given, cutoff, crashes, faults>>
  BY DEF AddToPage
<1>r. ASSUME Refuse
      PROVE  /\ HandlerOK' /\ CallOK'
             /\ answered' \subseteq [metric : Metric, ts : Timestamp, val : Nat, ok : BOOLEAN]
  BY <1>r, ReturnOK DEF HistoryOK
<1>p. ASSUME Put
      PROVE  /\ openDays' = openDays \cup {d}
             /\ openDays' \subseteq Day
             /\ page' \in [Day -> Seq(Sample)]
             /\ lastTS' \in [Metric -> Timestamp \cup {0}]
  BY <1>a, <1>b, <1>p, PutSampleOK
<1> HIDE DEF s
<1>1. DiskOK'
  BY <1>c DEF DiskOK
<1>2. MemoryOK'
  BY <1>c, <1>p DEF MemoryOK
<1>3. HandlerOK'
  <2>1. CASE Retry
    BY <1>a, <1>c, <2>1 DEF HandlerOK, StartFlush
  <2>2. CASE Put
    BY <1>a, <1>c, <2>2 DEF HandlerOK
  <2> QED
    BY <1>c, <1>r, <2>1, <2>2
<1>4. HistoryOK'
  BY <1>c, <1>r DEF HistoryOK
<1>5. CallOK'
  <2>1. CASE Retry
    BY <1>a, <1>c, <2>1 DEF CallOK, StartFlush, Ensuring, Paging, Aging, Filling, Replaying, Known
  <2>2. CASE Put
    BY <1>a, <1>c, <2>2 DEF CallOK, Ensuring, Paging, Aging, Filling, Replaying
  <2> QED
    BY <1>c, <1>r, <2>1, <2>2
<1>6. DaysOK'
  <2>1. CASE Refuse
    BY <1>c, <2>1, ReturnDaysOK
  <2>2. CASE Retry
    BY <1>a, <1>c, <2>2 DEF DaysOK, StartFlush, Ensuring, Paging, Aging, Filling, Replaying
  <2>3. CASE Put
    <3>1. IsFiniteSet(openDays') /\ Cardinality(openDays') <= MaxActiveDays
      <4>1. Cardinality(openDays) \in Nat /\ MaxActiveDays \in Nat
        BY FS_CardinalityType, ConfigAssumption DEF DaysOK
      <4>2. ~NeedsSeal(d)
        BY <1>a, <4>1 DEF NeedsSeal
      <4> QED
        BY <1>p, <2>3, <4>2, OneMoreDayFits
    <3> QED
      BY <1>a, <1>c, <1>p, <2>3, <3>1 DEF DaysOK, Ensuring, Paging, Aging, Filling, Replaying
  <2> QED
    BY <1>c, <2>1, <2>2, <2>3
<1> QED
  BY <1>1, <1>2, <1>3, <1>4, <1>5, <1>6

\* flushEligibleOpenDays starts to write another day's page.
LEMMA FlushAgedStep ==
    ASSUME IInv, NEW d \in Day, FlushAged(d)
    PROVE  IInv'
<1> USE DEF IInv, TypeOK
<1>1. DiskOK'
  BY DEF FlushAged, DiskOK, StartFlush
<1>2. MemoryOK'
  BY DEF FlushAged, MemoryOK, StartFlush
<1>3. HandlerOK'
  BY DEF FlushAged, HandlerOK, StartFlush
<1>4. HistoryOK'
  BY DEF FlushAged, HistoryOK, StartFlush
<1>5. CallOK'
  BY DEF FlushAged, CallOK, Ensuring, Paging, Aging, Filling, Replaying, StartFlush
<1>6. DaysOK'
  BY DEF FlushAged, DaysOK, Ensuring, Paging, Aging, Filling, Replaying, StartFlush
<1> QED
  BY <1>1, <1>2, <1>3, <1>4, <1>5, <1>6

\* The sample's own page is full.
LEMMA FlushOwnPageStep ==
    ASSUME IInv, FlushOwnPage
    PROVE  IInv'
<1> USE DEF IInv, TypeOK
<1>a. call.op = "add" /\ call.ts \in Timestamp /\ DayOf[call.ts] \in Day
  BY DaysAreNumbers DEF FlushOwnPage, CallOK, Aging
<1>1. DiskOK'
  BY DEF FlushOwnPage, DiskOK, StartFlush
<1>2. MemoryOK'
  BY DEF FlushOwnPage, MemoryOK, StartFlush
<1>3. HandlerOK'
  BY <1>a DEF FlushOwnPage, StartFlush, HandlerOK
<1>4. HistoryOK'
  BY DEF FlushOwnPage, HistoryOK, StartFlush
<1>5. CallOK'
  BY <1>a DEF FlushOwnPage, StartFlush, CallOK, Ensuring, Paging, Aging, Filling, Replaying
<1>6. DaysOK'
  BY DEF FlushOwnPage, DaysOK, Ensuring, Paging, Aging, Filling, Replaying, StartFlush
<1> QED
  BY <1>1, <1>2, <1>3, <1>4, <1>5, <1>6

\* AddSample returns.
LEMMA FinishAddStep ==
    ASSUME IInv, FinishAdd
    PROVE  IInv'
<1> USE DEF IInv, TypeOK
<1>r. /\ HandlerOK' /\ CallOK'
      /\ answered' \subseteq [metric : Metric, ts : Timestamp, val : Nat, ok : BOOLEAN]
  BY ReturnOK DEF FinishAdd, HistoryOK
<1>1. DiskOK'
  BY DEF FinishAdd, DiskOK
<1>2. MemoryOK'
  BY DEF FinishAdd, MemoryOK
<1>3. HandlerOK'
  BY <1>r
<1>4. HistoryOK'
  BY <1>r DEF FinishAdd, HistoryOK
<1>5. CallOK'
  BY <1>r
<1>6. DaysOK'
  BY ReturnDaysOK DEF FinishAdd
<1> QED
  BY <1>1, <1>2, <1>3, <1>4, <1>5, <1>6

\* A flush or a Close begins.
LEMMA BeginDrainStep ==
    ASSUME IInv, NEW op \in {"flush", "close"}, BeginDrain(op)
    PROVE  IInv'
<1> USE DEF IInv, TypeOK
<1>1. DiskOK'
  BY DEF BeginDrain, DiskOK, NoCall
<1>2. MemoryOK'
  BY DEF BeginDrain, MemoryOK, NoCall
<1>3. HandlerOK'
  BY DEF BeginDrain, NoCall, HandlerOK, Name
<1>4. HistoryOK'
  BY DEF BeginDrain, HistoryOK, NoCall
<1>5. CallOK'
  BY DEF BeginDrain, CallOK, Ensuring, Paging, Aging, Filling, Replaying, NoCall
<1>6. DaysOK'
  BY DEF BeginDrain, DaysOK, Ensuring, Paging, Aging, Filling, Replaying, NoCall
<1> QED
  BY <1>1, <1>2, <1>3, <1>4, <1>5, <1>6

\* It starts to write the page of one day.
LEMMA DrainPageStep ==
    ASSUME IInv, NEW d \in Day, DrainPage(d)
    PROVE  IInv'
<1> USE DEF IInv, TypeOK
<1>1. DiskOK'
  BY DEF DrainPage, DiskOK, StartFlush
<1>2. MemoryOK'
  BY DEF DrainPage, MemoryOK, StartFlush
<1>3. HandlerOK'
  BY DEF DrainPage, HandlerOK, StartFlush
<1>4. HistoryOK'
  BY DEF DrainPage, HistoryOK, StartFlush
<1>5. CallOK'
  BY DEF DrainPage, CallOK, Ensuring, Paging, Aging, Filling, Replaying, StartFlush
<1>6. DaysOK'
  BY DEF DrainPage, DaysOK, Ensuring, Paging, Aging, Filling, Replaying, StartFlush
<1> QED
  BY <1>1, <1>2, <1>3, <1>4, <1>5, <1>6

\* Every page it could write is written.
LEMMA DrainDoneStep ==
    ASSUME IInv, DrainDone
    PROVE  IInv'
<1> USE DEF IInv, TypeOK
<1>1. DiskOK'
  BY DEF DrainDone, DiskOK, NoFlush
<1>2. MemoryOK'
  BY DEF DrainDone, MemoryOK, NoFlush
<1>3. HandlerOK'
  BY DEF DrainDone, NoFlush, HandlerOK
<1>4. HistoryOK'
  BY DEF DrainDone, HistoryOK, NoFlush
<1>5. CallOK'
  BY DEF DrainDone, CallOK, Ensuring, Paging, Aging, Filling, Replaying, NoFlush
<1>6. DaysOK'
  BY DEF DrainDone, DaysOK, Ensuring, Paging, Aging, Filling, Replaying, NoFlush
<1> QED
  BY <1>1, <1>2, <1>3, <1>4, <1>5, <1>6

\* The catalog is written, and a flush returns or a Close ends.
LEMMA PersistCatalogStep ==
    ASSUME IInv, PersistCatalog
    PROVE  IInv'
<1> USE DEF IInv, TypeOK
<1>a. catalogFile' \in [Metric -> MetricID \cup {0}]
  BY DEF PersistCatalog, CatalogOnDisk, DiskOK, MemoryOK
<1> DEFINE where == IF closeErrs = {} THEN "closed" ELSE "down"
           Stop == LoseMemory(where) /\ UNCHANGED answered
           Done == /\ dirty' = FALSE /\ Return(TRUE)
                   /\ UNCHANGED <<catalog, idToName, lastTS, openDays, page, sealedDays>>
<1>b. /\ Stop \/ Done
      /\ UNCHANGED <<wal, dataFile, given, cutoff, crashes, faults>>
  BY DEF PersistCatalog
<1>c. ASSUME Stop PROVE MemoryOK' /\ HandlerOK' /\ CallOK' /\ DaysOK'
  BY <1>c, LoseMemoryOK
<1>r. ASSUME Done
      PROVE  /\ HandlerOK' /\ CallOK'
             /\ answered' \subseteq [metric : Metric, ts : Timestamp, val : Nat, ok : BOOLEAN]
  BY <1>r, ReturnOK DEF HistoryOK
<1>d. ASSUME Done PROVE DaysOK'
  BY <1>d, ReturnDaysOK
<1>1. DiskOK'
  BY <1>a, <1>b DEF DiskOK
<1>2. MemoryOK'
  BY <1>b, <1>c DEF MemoryOK
<1>3. HandlerOK'
  BY <1>b, <1>c, <1>r
<1>4. HistoryOK'
  BY <1>b, <1>r DEF HistoryOK
<1>5. CallOK'
  BY <1>b, <1>c, <1>r
<1>6. DaysOK'
  BY <1>b, <1>c, <1>d
<1> QED
  BY <1>1, <1>2, <1>3, <1>4, <1>5, <1>6

\* A frame is appended to a data file.
LEMMA AppendFrameStep ==
    ASSUME IInv, AppendFrame
    PROVE  IInv'
<1> USE DEF IInv, TypeOK
<1>1. DiskOK'
  BY DEF AppendFrame, DiskOK, MemoryOK, CallOK
<1>2. MemoryOK'
  BY DEF AppendFrame, MemoryOK
<1>3. HandlerOK'
  BY DEF AppendFrame, HandlerOK
<1>4. HistoryOK'
  BY DEF AppendFrame, HistoryOK
<1>5. CallOK'
  BY DEF AppendFrame, CallOK, Known, Ensuring, Paging, Aging, Filling, Replaying
<1>6. DaysOK'
  BY DEF AppendFrame, DaysOK, Ensuring, Paging, Aging, Filling, Replaying
<1> QED
  BY <1>1, <1>2, <1>3, <1>4, <1>5, <1>6

\* The frame is durable and its page is dropped.
LEMMA SyncFlushedStep ==
    ASSUME IInv, SyncFlushed
    PROVE  IInv'
<1> USE DEF IInv, TypeOK
<1>a. /\ page' \in [Day -> Seq(Sample)]
      /\ openDays' = openDays \ {flush.day}
      /\ openDays' \subseteq Day
      /\ IsFiniteSet(openDays')
      /\ Cardinality(openDays') =
           IF flush.day \in openDays THEN Cardinality(openDays) - 1 ELSE Cardinality(openDays)
  BY DropPageOK DEF SyncFlushed, CallOK
<1>b. Cardinality(openDays) \in Nat /\ MaxActiveDays \in Nat
  BY FS_CardinalityType, ConfigAssumption DEF DaysOK
<1>1. DiskOK'
  BY DEF SyncFlushed, DiskOK, MemoryOK
<1>2. MemoryOK'
  BY <1>a DEF SyncFlushed, MemoryOK
<1>3. HandlerOK'
  <2>1. AfterSync \in {"reset", "replay", "page", "none", "age", "drain"}
    BY DEF AfterSync, HandlerOK
  <2>2. AfterSync # "none"
    BY DEF AfterSync, CallOK, SyncFlushed
  <2>3. flush' = flush \/ flush' = [day |-> 0, goal |-> "none"]
    BY DEF SyncFlushed, NoFlush
  <2> QED
    BY <2>1, <2>2, <2>3 DEF SyncFlushed, HandlerOK
<1>4. HistoryOK'
  BY DEF SyncFlushed, HistoryOK
<1>5. CallOK'
  BY DEF SyncFlushed, CallOK, HandlerOK, AfterSync, NoFlush, Ensuring, Paging, Aging, Filling, Replaying, Known
<1>6. DaysOK'
  BY <1>a, <1>b DEF SyncFlushed, DaysOK, HandlerOK, AfterSync, NoFlush, Ensuring, Paging, Aging, Filling, Replaying
<1> QED
  BY <1>1, <1>2, <1>3, <1>4, <1>5, <1>6

\* What follows maybeResetWAL, whether the WAL was reset or kept.
LEMMA AfterResetOK ==
    ASSUME TypeOK, CallOK, DaysOK, pc = "reset", AfterReset, UNCHANGED openDays
    PROVE  /\ sealedDays' \subseteq Day
           /\ HandlerOK' /\ CallOK' /\ DaysOK'
           /\ answered' \subseteq [metric : Metric, ts : Timestamp, val : Nat, ok : BOOLEAN]
<1> USE DEF TypeOK
<1>1. CASE flush.goal = "seal"
  <2>1. /\ sealedDays' = sealedDays \cup {flush.day}
        /\ pc' = IF Replaying THEN "replay" ELSE "ensure"
        /\ flush' = NoFlush
        /\ UNCHANGED <<call, replay, closeErrs, answered>>
    BY <1>1 DEF AfterReset
  <2>2. HandlerOK'
    BY <2>1 DEF HandlerOK, NoFlush
  <2>3. CallOK'
    BY <1>1, <2>1 DEF CallOK, NoFlush, Ensuring, Paging, Aging, Filling, Replaying
  <2>4. DaysOK'
    BY <1>1, <2>1 DEF DaysOK, NoFlush, Paging, Aging
  <2> QED
    BY <1>1, <2>1, <2>2, <2>3, <2>4 DEF CallOK, MemoryOK, HistoryOK
<1>2. CASE flush.goal = "full"
  <2>1. Return(TRUE) /\ UNCHANGED sealedDays
    BY <1>2 DEF AfterReset
  <2> QED
    BY <2>1, ReturnOK, ReturnDaysOK DEF MemoryOK, HistoryOK
<1>3. CASE flush.goal \notin {"seal", "full"}
  <2>1. /\ pc' = "persist"
        /\ flush' = NoFlush
        /\ UNCHANGED <<sealedDays, call, replay, closeErrs, answered>>
    BY <1>3 DEF AfterReset
  <2>2. HandlerOK'
    BY <2>1 DEF HandlerOK, NoFlush
  <2>3. CallOK'
    BY <2>1 DEF CallOK, NoFlush, Ensuring, Paging, Aging, Filling
  <2>4. DaysOK'
    BY <2>1 DEF DaysOK, NoFlush, Paging, Aging
  <2> QED
    BY <2>1, <2>2, <2>3, <2>4 DEF MemoryOK, HistoryOK
<1> QED
  BY <1>1, <1>2, <1>3

\* maybeResetWAL finds a page open.
LEMMA KeepWALStep ==
    ASSUME IInv, KeepWAL
    PROVE  IInv'
<1> USE DEF IInv, TypeOK
<1>a. /\ sealedDays' \subseteq Day
      /\ HandlerOK' /\ CallOK' /\ DaysOK'
      /\ answered' \subseteq [metric : Metric, ts : Timestamp, val : Nat, ok : BOOLEAN]
  BY AfterResetOK DEF KeepWAL
<1>1. DiskOK'
  BY DEF KeepWAL, DiskOK
<1>2. MemoryOK'
  BY <1>a DEF KeepWAL, MemoryOK
<1>3. HandlerOK'
  BY <1>a
<1>4. HistoryOK'
  BY <1>a DEF KeepWAL, HistoryOK
<1>5. CallOK'
  BY <1>a
<1>6. DaysOK'
  BY <1>a
<1> QED
  BY <1>1, <1>2, <1>3, <1>4, <1>5, <1>6

\* maybeResetWAL truncates the log.
LEMMA ResetWALStep ==
    ASSUME IInv, ResetWAL
    PROVE  IInv'
<1> USE DEF IInv, TypeOK
<1>a. /\ sealedDays' \subseteq Day
      /\ HandlerOK' /\ CallOK' /\ DaysOK'
      /\ answered' \subseteq [metric : Metric, ts : Timestamp, val : Nat, ok : BOOLEAN]
  BY AfterResetOK DEF ResetWAL
<1>1. DiskOK'
  <2>1. <<>> \in Seq(Record)
    OBVIOUS
  <2> QED
    BY <2>1 DEF ResetWAL, DiskOK
<1>2. MemoryOK'
  BY <1>a DEF ResetWAL, MemoryOK
<1>3. HandlerOK'
  BY <1>a
<1>4. HistoryOK'
  BY <1>a DEF ResetWAL, HistoryOK
<1>5. CallOK'
  BY <1>a
<1>6. DaysOK'
  BY <1>a
<1> QED
  BY <1>1, <1>2, <1>3, <1>4, <1>5, <1>6

\* maybeResetWAL writes the catalog first.
LEMMA CatalogBeforeResetStep ==
    ASSUME IInv, CatalogBeforeReset
    PROVE  IInv'
<1> USE DEF IInv, TypeOK
<1>1. DiskOK'
  BY DEF CatalogBeforeReset, DiskOK, MemoryOK
<1>2. MemoryOK'
  BY DEF CatalogBeforeReset, MemoryOK, Known
<1>3. HandlerOK'
  BY DEF CatalogBeforeReset, HandlerOK, Known
<1>4. HistoryOK'
  BY DEF CatalogBeforeReset, HistoryOK, Known
<1>5. CallOK'
  BY DEF CatalogBeforeReset, CallOK, Ensuring, Paging, Aging, Filling, Replaying, Known
<1>6. DaysOK'
  BY DEF CatalogBeforeReset, DaysOK, Ensuring, Paging, Aging, Filling, Replaying, Known
<1> QED
  BY <1>1, <1>2, <1>3, <1>4, <1>5, <1>6

\* The process stops.
LEMMA CrashStep ==
    ASSUME IInv, Crash
    PROVE  IInv'
<1> USE DEF IInv, TypeOK
<1>1. DiskOK'
  BY DEF Crash, DiskOK
<1>2. MemoryOK'
  BY LoseMemoryOK DEF Crash
<1>3. HandlerOK'
  BY LoseMemoryOK DEF Crash
<1>4. HistoryOK'
  BY DEF Crash, HistoryOK
<1>5. CallOK'
  BY LoseMemoryOK DEF Crash
<1>6. DaysOK'
  BY LoseMemoryOK DEF Crash
<1> QED
  BY <1>1, <1>2, <1>3, <1>4, <1>5, <1>6

\* The record is in the log, and the call fails.
LEMMA LogSyncFailsStep ==
    ASSUME IInv, LogSyncFails
    PROVE  IInv'
<1> USE DEF IInv, TypeOK
<1> DEFINE i == IF Known(call.metric) THEN catalog[call.metric] ELSE NextMetricID
<1>a. call.op = "add" /\ call.metric \in Metric /\ call.ts \in Timestamp
  BY DEF LogSyncFails, CallOK
<1>b. i \in MetricID
  BY <1>a, NextIDFits DEF LogSyncFails, Known, MemoryOK
<1>c. WALRecord(i) \in Record
  BY <1>a, <1>b, WALRecordType
<1>d. /\ catalog' \in [Metric -> MetricID \cup {0}]
      /\ idToName' \in [MetricID -> Name]
      /\ dirty' \in BOOLEAN
  <2>1. CASE Known(call.metric)
    BY <2>1 DEF LogSyncFails, MemoryOK
  <2>2. CASE ~Known(call.metric) /\ Register(call.metric, i)
    BY <1>a, <1>b, <2>2, RegisterOK
  <2> QED
    BY <2>1, <2>2 DEF LogSyncFails
<1>e. wal' \in Seq(Record)
  <2>1. wal' = Append(wal, WALRecord(i))
    BY DEF LogSyncFails
  <2> QED
    BY <1>c, <2>1 DEF DiskOK
<1>r. /\ HandlerOK' /\ CallOK'
      /\ answered' \subseteq [metric : Metric, ts : Timestamp, val : Nat, ok : BOOLEAN]
  BY ReturnOK DEF LogSyncFails, HistoryOK
<1> HIDE DEF i
<1>1. DiskOK'
  BY <1>e DEF LogSyncFails, DiskOK
<1>2. MemoryOK'
  BY <1>d DEF LogSyncFails, MemoryOK
<1>3. HandlerOK'
  BY <1>r
<1>4. HistoryOK'
  BY <1>r DEF LogSyncFails, HistoryOK
<1>5. CallOK'
  BY <1>r
<1>6. DaysOK'
  BY ReturnDaysOK DEF LogSyncFails
<1> QED
  BY <1>1, <1>2, <1>3, <1>4, <1>5, <1>6

\* A write fails while a page, the catalog or the log is written.
LEMMA WriteFailsStep ==
    ASSUME IInv, WriteFails
    PROVE  IInv'
<1> USE DEF IInv, TypeOK
<1> DEFINE Stop   == LoseMemory("down") /\ UNCHANGED answered
           Note   == /\ call.op = "close" /\ UNCHANGED memory
                     /\ closeErrs' = closeErrs \cup {flush.day}
                     /\ pc' = IF pc = "reset" THEN "persist" ELSE "drain"
                     /\ flush' = NoFlush
                     /\ UNCHANGED <<call, replay, answered>>
           Refuse == Return(FALSE) /\ UNCHANGED memory
<1>a. /\ Stop \/ Note \/ Refuse
      /\ UNCHANGED <<disk, given, cutoff, crashes>> /\ faults' = faults + 1
  BY DEF WriteFails, AfterWriteError
<1>b. ASSUME Stop PROVE MemoryOK' /\ HandlerOK' /\ CallOK' /\ DaysOK'
  BY <1>b, LoseMemoryOK
<1>c. ASSUME Refuse
      PROVE  /\ HandlerOK' /\ CallOK' /\ DaysOK'
             /\ answered' \subseteq [metric : Metric, ts : Timestamp, val : Nat, ok : BOOLEAN]
  BY <1>c, ReturnOK, ReturnDaysOK DEF HistoryOK
<1>d. ASSUME Note PROVE HandlerOK' /\ CallOK' /\ DaysOK'
  <2>1. flush.day \in Day \cup {0}
    BY DEF HandlerOK
  <2>2. HandlerOK'
    BY <1>d, <2>1 DEF HandlerOK, NoFlush
  <2>3. CallOK'
    BY <1>d DEF CallOK, NoFlush, Ensuring, Paging, Aging, Filling
  <2>4. DaysOK'
    BY <1>d DEF DaysOK, NoFlush, Paging, Aging
  <2> QED
    BY <2>2, <2>3, <2>4
<1>1. DiskOK'
  BY <1>a DEF DiskOK
<1>2. MemoryOK'
  BY <1>a, <1>b DEF MemoryOK
<1>3. HandlerOK'
  BY <1>a, <1>b, <1>c, <1>d
<1>4. HistoryOK'
  <2>1. answered' \subseteq [metric : Metric, ts : Timestamp, val : Nat, ok : BOOLEAN]
    BY <1>a, <1>c DEF HistoryOK
  <2>2. faults' \in Nat
    BY <1>a DEF HistoryOK
  <2> QED
    BY <1>a, <2>1, <2>2 DEF HistoryOK
<1>5. CallOK'
  BY <1>a, <1>b, <1>c, <1>d
<1>6. DaysOK'
  BY <1>a, <1>b, <1>c, <1>d
<1> QED
  BY <1>1, <1>2, <1>3, <1>4, <1>5, <1>6

\* Every step keeps the invariant.
LEMMA NextIInv == IInv /\ [Next]_vars => IInv'
<1> SUFFICES ASSUME IInv, [Next]_vars PROVE IInv'
  OBVIOUS
<1>1. CASE UNCHANGED vars
  BY <1>1 DEF IInv, TypeOK, DiskOK, MemoryOK, HandlerOK, HistoryOK, CallOK, DaysOK,
              Ensuring, Paging, Aging, Filling, Replaying, Known
<1>2. CASE OpenDatabase
  BY <1>2, OpenDatabaseStep
<1>3. CASE OpenFails
  BY <1>1, <1>3 DEF OpenFails
<1>4. ASSUME NEW m \in Metric, NEW t \in Timestamp, BeginAdd(m, t) PROVE IInv'
  BY <1>4, BeginAddStep
<1>5. ASSUME NEW op \in {"flush", "close"}, BeginDrain(op) PROVE IInv'
  BY <1>5, BeginDrainStep
<1>6. CASE Work
  <2>1. ASSUME NEW useWAL \in BOOLEAN, LogSample(useWAL) PROVE IInv'
    BY <2>1, LogSampleStep
  <2>2. ASSUME NEW d \in Day, FlushAged(d) \/ DrainPage(d) PROVE IInv'
    BY <2>2, FlushAgedStep, DrainPageStep
  <2> QED
    BY <1>6, <2>1, <2>2, ReplayRecordStep, ReplayFailsStep, ReplayDoneStep,
       EnsureDayOpenStep, DayIsSealedStep, RejectMetricStep, AddToPageStep,
       FlushOwnPageStep, FinishAddStep, DrainDoneStep, PersistCatalogStep,
       AppendFrameStep, SyncFlushedStep, KeepWALStep, CatalogBeforeResetStep,
       ResetWALStep DEF Work
<1>7. CASE Crash
  BY <1>7, CrashStep
<1>8. CASE LogSyncFails
  BY <1>8, LogSyncFailsStep
<1>9. CASE WriteFails
  BY <1>9, WriteFailsStep
<1> QED
  BY <1>1, <1>2, <1>3, <1>4, <1>5, <1>6, <1>7, <1>8, <1>9 DEF Next

LEMMA Invariance == Spec => []IInv
BY InitIInv, NextIInv, PTL DEF Spec

-----------------------------------------------------------------------------
(* What the store promises, for every value of the constants.              *)

\* Whatever the engine does, crashes and failed writes included, its files and
\* its memory keep their types.
THEOREM TypeCorrect == Spec => []TypeOK
<1>1. IInv => TypeOK
  BY DEF IInv
<1> QED
  BY <1>1, Invariance, PTL

\* ensureDayOpen never leaves more than retention.max_active_days days open,
\* during live ingest or replay.
THEOREM OpenDaysAreBounded == Spec => []OpenDaysBounded
<1>1. IInv => OpenDaysBounded
  BY DEF IInv, DaysOK, OpenDaysBounded
<1> QED
  BY <1>1, Invariance, PTL

\* Only AppendFrame writes a data file, and the day it writes is not sealed.
LEMMA NextFreezesSealedDays ==
    IInv /\ [Next]_vars => [\A d \in sealedDays : dataFile'[d] = dataFile[d]]_vars
<1> SUFFICES ASSUME IInv, Next, NEW d \in sealedDays PROVE dataFile'[d] = dataFile[d]
  OBVIOUS
<1>1. CASE AppendFrame
  <2>1. flush.day # d /\ d \in Day
    BY <1>1 DEF AppendFrame, IInv, TypeOK, MemoryOK, DaysOK
  <2> QED
    BY <1>1, <2>1 DEF AppendFrame, IInv, TypeOK, DiskOK
<1>2. CASE UNCHANGED dataFile
  BY <1>2
<1> QED
  BY <1>1, <1>2 DEF Next, Work, OpenDatabase, OpenFails, ReplayRecord, ReplayFails, ReplayDone,
     BeginAdd, EnsureDayOpen, DayIsSealed, RejectMetric, LogSample, AddToPage, FlushAged,
     FlushOwnPage, FinishAdd, BeginDrain, DrainPage, DrainDone, PersistCatalog, SyncFlushed,
     KeepWAL, CatalogBeforeReset, ResetWAL, Crash, LogSyncFails, WriteFails

\* A day that was sealed gets no more frames while the process runs: neither a
\* late sample, nor a flush, nor replay reopens it.
THEOREM SealedDaysStayFrozen == Spec => SealedDaysFrozen
BY Invariance, NextFreezesSealedDays, PTL DEF Spec, SealedDaysFrozen

(***************************************************************************)
(* A sample by its timestamp and the call that sent it, and where such     *)
(* points are: in the log, in the page and the file of a day, among the    *)
(* records being replayed, in the answers given and the call in progress.  *)
(***************************************************************************)
Pt(r) == <<r.ts, r.val>>

Logged    == {Pt(wal[i]) : i \in DOMAIN wal}
Paged(d)  == {Pt(page[d][k]) : k \in DOMAIN page[d]}
Filed(d)  == UNION {{Pt(dataFile[d][f][k]) : k \in DOMAIN dataFile[d][f]} : f \in DOMAIN dataFile[d]}
Replayed  == {Pt(replay.recs[i]) : i \in DOMAIN replay.recs}
Calling   == IF call.op = "add" THEN {Pt(call)} ELSE {}
Answers   == {Pt(a) : a \in answered}
InDays    == UNION {Paged(d) \cup Filed(d) : d \in Day}
Points    == Logged \cup InDays \cup Replayed \cup Calling \cup Answers

DayAt(p) == DayOf[p[1]]
Failed   == {a.val : a \in answered \ Acked}

\* Above the last timestamp of its day's data file: replay does not skip it.
Late(p)    == \A q \in Filed(DayAt(p)) : q[1] < p[1]
\* Writing the page of its day would raise the watermark to it.
Covered(p) == \E q \in Paged(DayAt(p)) : p[1] <= q[1]
\* Replay has yet to put it into a page.
Pending(p) == \E i \in DOMAIN replay.recs \ replay.durable :
                  replay.pos <= i /\ p = Pt(replay.recs[i])
\* The days of the records that replay puts into pages.
WaitDays   == {DayOf[replay.recs[i].ts] : i \in DOMAIN replay.recs \ replay.durable}

(***************************************************************************)
(* The invariant, part by part.                                            *)
(***************************************************************************)

\* A call is one sample; one that was the newest of its day exceeds all before it.
PointsOK ==
    /\ calls <= MaxCalls /\ faults <= MaxFaults /\ newest \subseteq 1..calls
    /\ \A p \in Points : p[1] \in Timestamp /\ p[2] \in 1..calls /\ p[1] <= latest[DayAt(p)]
    /\ \A p, q \in Points : p[2] = q[2] => p = q
    /\ \A p, q \in Points : DayAt(p) = DayAt(q) /\ p[2] < q[2] /\ q[2] \in newest => p[1] < q[1]

\* The steps of a flush or a Close.
Draining ==
    \/ pc \in {"drain", "persist"}
    \/ pc \in {"flush", "sync"} /\ flush.goal = "drain"
    \/ pc = "reset" /\ flush.goal \notin {"seal", "full"}

\* Where the sample of the call in progress is.
FlowOK ==
    /\ Draining => call.op # "add"
    /\ call.op = "add" => call.val = calls
    /\ \A a \in answered : call.op = "add" => a.val # call.val
    /\ \A a, b \in answered : a.val = b.val => a = b
    /\ Ensuring \/ pc = "log" => \A p \in Logged \cup InDays : p[2] # call.val
    /\ Paging => \A p \in InDays : p[2] # call.val
    /\ Aging \/ Filling => \A d \in Day : d = DayOf[call.ts] => Pt(call) \in Paged(d) \cup Filed(d)

\* A page belongs to an open day, and is in the file before it is dropped.
PagesOK ==
    /\ \A d \in Day : page[d] # <<>> => d \in openDays
    /\ \A d \in Day : \A p \in Paged(d) \cup Filed(d) : DayAt(p) = d
    /\ pc = "sync" => \A d \in Day : d = flush.day => Paged(d) \subseteq Filed(d)
    /\ Down => openDays = {} /\ call = NoCall /\ replay = NoReplay

Increasing(recs) == \A i, j \in DOMAIN recs : i < j => recs[i].val < recs[j].val

\* The log is in the order of the calls, and replay goes through it in that order, with a
\* page for each open day.
AtReplay ==
    /\ call.op = "none"
    /\ \/ pc = "replay"
       \/ pc \in {"flush", "sync"} /\ flush.goal \in {"seal", "reorder"}
       \/ pc = "reset" /\ flush.goal = "seal"

ReplayPages ==
    /\ \A d \in Day : \A p \in Paged(d) :
           \E j \in DOMAIN replay.recs : j < replay.pos /\ p = Pt(replay.recs[j])
    /\ \A d \in openDays : page[d] # <<>>

ReplayDays ==
    MaxActiveDays > 1 =>
      /\ pc \in {"flush", "sync"} /\ flush.goal = "seal" => \E e \in openDays : e # flush.day
      /\ pc = "reset" => openDays # {}

ReplayOK ==
    /\ Increasing(wal) /\ Increasing(replay.recs)
    /\ pc = "replay" => Replaying
    /\ Replaying => AtReplay /\ ReplayPages /\ ReplayDays

BookOK == PointsOK /\ FlowOK /\ PagesOK /\ ReplayOK

\* While no write fails, the records a crash leaves to be put into pages are of no more days
\* than may be open, so replay never seals.
NoSeal ==
    /\ wal = replay.recs
    /\ pc # "reset" /\ (pc \in {"flush", "sync"} => flush.goal # "seal")
    /\ IsFiniteSet(WaitDays) /\ Cardinality(WaitDays) <= MaxActiveDays
    /\ openDays \subseteq WaitDays
    /\ \A i \in DOMAIN replay.recs : \A p \in Replayed : p = Pt(replay.recs[i]) =>
         /\ i \in replay.durable => ~Late(p)
         /\ i < replay.pos /\ Late(p) => Covered(p)

LateCovered == \A p \in Logged : Late(p) => Covered(p) \/ (Paging /\ p[2] = call.val)

FewDays ==
    \E D \in SUBSET Day :
       /\ IsFiniteSet(D) /\ Cardinality(D) <= MaxActiveDays
       /\ \A p \in Logged : Late(p) => DayAt(p) \in D

SealsOK ==
    WALProtected /\ faults = 0 =>
      /\ Replaying => NoSeal
      /\ ~Replaying /\ ~Down => LateCovered
      /\ Down => FewDays

\* Of the samples in the log, those that were the newest of their day, and whose call did
\* not fail, are in a file or above its watermark; and they are in a page until then, but
\* for what is being added or replayed.
Owed == {p \in Logged : p[2] \in newest \ Failed}

OwedAbove == \A p \in Owed : p \in Filed(DayAt(p)) \/ Late(p)
OwedHeld  ==
    \A p \in Owed :
        \/ Down \/ Pending(p) \/ (Paging /\ p[2] = call.val)
        \/ p \in Paged(DayAt(p)) \cup Filed(DayAt(p))

PagesLogged == (\A d \in Day : Paged(d) \subseteq Logged) /\ (Paging => Pt(call) \in Logged)
AckedKept   == \A a \in Acked : a.val \in newest => Pt(a) \in Logged \cup Filed(DayOf[a.ts])

DurableOK ==
    WALProtected /\ ReplayKeepsWAL =>
      (Replaying => wal = replay.recs) /\ OwedAbove /\ OwedHeld /\ PagesLogged /\ AckedKept

\* While nothing stopped or failed, the log matters to no one: what was acknowledged is in a
\* page or a file, and a Close leaves nothing to replay.
CalmOK ==
    /\ ~config.wal => wal = <<>>
    /\ Calm =>
         /\ ~Replaying /\ closeErrs = {}
         /\ Down => wal = <<>>
         /\ pc = "reset" /\ flush.goal \notin {"seal", "full"} => AllPagesFlushed
         /\ pc = "persist" => AllPagesFlushed /\ wal = <<>>
         /\ \A a \in Acked : Pt(a) \in Paged(DayOf[a.ts]) \cup Filed(DayOf[a.ts])

\* No sample is at two places, but in a page that was just written; and replay puts none
\* into a page that is in a page or a file already.
FilesOnce ==
    \A d \in Day : \A f, g \in DOMAIN dataFile[d] :
      \A j \in DOMAIN dataFile[d][f], k \in DOMAIN dataFile[d][g] :
        dataFile[d][f][j].val = dataFile[d][g][k].val => f = g /\ j = k
PagesOnce   == \A d \in Day : \A j, k \in DOMAIN page[d] : page[d][j].val = page[d][k].val => j = k
BoxesApart  == \A d \in Day : Paged(d) \cap Filed(d) # {} => pc = "sync" /\ flush.day = d
WaitOutside ==
    \A i \in DOMAIN replay.recs \ replay.durable : replay.pos <= i => Pt(replay.recs[i]) \notin InDays

OnceOK == faults = 0 => FilesOnce /\ PagesOnce /\ BoxesApart /\ WaitOutside

(***************************************************************************)
(* How the actions change these sets.                                      *)
(***************************************************************************)

USE DEF disk, memory, given, history, vars

\* A record is appended to the log.
LEMMA LoggedAppend ==
    ASSUME wal \in Seq(Record), NEW r \in Record, wal' = Append(wal, r)
    PROVE  Logged' = Logged \cup {Pt(r)}
<1>1. /\ DOMAIN wal' = (DOMAIN wal) \cup {Len(wal) + 1}
      /\ \A i \in DOMAIN wal : wal'[i] = wal[i]
      /\ wal'[Len(wal) + 1] = r
  OBVIOUS
<1>2. Logged' = {Pt(wal'[i]) : i \in DOMAIN wal'}
  BY DEF Logged, Pt
<1> QED
  BY <1>1, <1>2 DEF Logged

\* The log as it is or empty.
LEMMA LoggedEmpty == wal = <<>> => Logged = {}
BY DEF Logged

\* A sample is put at the end of a page.
LEMMA PagedPut ==
    ASSUME page \in [Day -> Seq(Sample)], NEW d \in Day, NEW s \in Sample,
           page' = [page EXCEPT ![d] = Append(@, s)]
    PROVE  /\ Paged(d)' = Paged(d) \cup {Pt(s)}
           /\ \A e \in Day : e # d => Paged(e)' = Paged(e)
           /\ page'[d] # <<>>
           /\ \A e \in Day : e # d => page'[e] = page[e]
<1>1. page[d] \in Seq(Sample) /\ page'[d] = Append(page[d], s)
  OBVIOUS
<1>2. /\ DOMAIN page'[d] = (DOMAIN page[d]) \cup {Len(page[d]) + 1}
      /\ \A k \in DOMAIN page[d] : page'[d][k] = page[d][k]
      /\ page'[d][Len(page[d]) + 1] = s
  BY <1>1
<1>3. Paged(d)' = {Pt(page'[d][k]) : k \in DOMAIN page'[d]}
  BY DEF Paged, Pt
<1>4. Paged(d)' = Paged(d) \cup {Pt(s)}
  BY <1>2, <1>3 DEF Paged
<1>5. \A e \in Day : e # d => page'[e] = page[e]
  OBVIOUS
<1>6. \A e \in Day : e # d => Paged(e)' = Paged(e)
  BY <1>5 DEF Paged, Pt
<1> QED
  BY <1>1, <1>4, <1>5, <1>6

LEMMA PagedEmpty == \A d \in Day : page[d] = <<>> => Paged(d) = {}
BY DEF Paged

LEMMA PagedNonempty ==
    ASSUME page \in [Day -> Seq(Sample)], NEW d \in Day, page[d] # <<>>
    PROVE  /\ Paged(d) # {}
           /\ Pt(Last(page[d])) \in Paged(d)
           /\ Last(page[d]) \in Sample
<1>1. page[d] \in Seq(Sample) /\ Len(page[d]) \in DOMAIN page[d]
  OBVIOUS
<1> QED
  BY <1>1 DEF Paged, Last

\* A page is dropped.
LEMMA PagedDrop ==
    ASSUME page \in [Day -> Seq(Sample)], NEW d \in Day, page' = [page EXCEPT ![d] = <<>>]
    PROVE  Paged(d)' = {} /\ (\A e \in Day : e # d => Paged(e)' = Paged(e))
BY DEF Paged, Pt

\* A frame goes to the end of a data file.
LEMMA FiledAppend ==
    ASSUME dataFile \in [Day -> Seq(Seq(Sample))], page \in [Day -> Seq(Sample)], NEW d \in Day,
           dataFile' = [dataFile EXCEPT ![d] = Append(@, page[d])]
    PROVE  /\ Filed(d)' = Filed(d) \cup Paged(d)
           /\ \A e \in Day : e # d => Filed(e)' = Filed(e)
<1>1. dataFile[d] \in Seq(Seq(Sample)) /\ dataFile'[d] = Append(dataFile[d], page[d])
  OBVIOUS
<1>2. /\ DOMAIN dataFile'[d] = (DOMAIN dataFile[d]) \cup {Len(dataFile[d]) + 1}
      /\ \A f \in DOMAIN dataFile[d] : dataFile'[d][f] = dataFile[d][f]
      /\ dataFile'[d][Len(dataFile[d]) + 1] = page[d]
  BY <1>1
<1> DEFINE pts(frame) == {Pt(frame[k]) : k \in DOMAIN frame}
<1>3. Filed(d) = UNION {pts(dataFile[d][f]) : f \in DOMAIN dataFile[d]}
  BY DEF Filed
<1>4. Filed(d)' = UNION {pts(dataFile'[d][f]) : f \in DOMAIN dataFile'[d]}
  BY DEF Filed, Pt
<1>5. Paged(d) = pts(page[d])
  BY DEF Paged
<1>6. Filed(d)' = Filed(d) \cup Paged(d)
  <2> DEFINE old(f) == pts(dataFile[d][f])
             new(f) == pts(dataFile'[d][f])
  <2>1. (\A f \in DOMAIN dataFile[d] : new(f) = old(f)) /\ new(Len(dataFile[d]) + 1) = Paged(d)
    BY <1>2, <1>5
  <2>2. /\ Filed(d) = UNION {old(f) : f \in DOMAIN dataFile[d]}
        /\ Filed(d)' = UNION {new(f) : f \in (DOMAIN dataFile[d]) \cup {Len(dataFile[d]) + 1}}
    BY <1>2, <1>3, <1>4
  <2> HIDE DEF old, new
  <2> QED
    BY <2>1, <2>2
<1>7. \A e \in Day : e # d => dataFile'[e] = dataFile[e]
  OBVIOUS
<1>8. \A e \in Day : e # d => Filed(e)' = Filed(e)
  BY <1>7 DEF Filed, Pt
<1> QED
  BY <1>6, <1>8

\* What an action does not touch.
LEMMA SameLog  == wal' = wal => Logged' = Logged
BY DEF Logged, Pt
LEMMA SamePage == page' = page => \A d \in Day : Paged(d)' = Paged(d)
BY DEF Paged, Pt
LEMMA SameFile == dataFile' = dataFile => \A d \in Day : Filed(d)' = Filed(d)
BY DEF Filed, Pt
LEMMA SameRecs == replay'.recs = replay.recs => Replayed' = Replayed
BY DEF Replayed, Pt

\* The replay watermark of a record.
LEMMA Watermark ==
    ASSUME dataFile \in [Day -> Seq(Seq(Sample))], NEW r \in Record
    PROVE  BelowWatermark(r) <=> ~Late(Pt(r))
<1> DEFINE d == DayOf[r.ts]
<1>1. d \in Day /\ DayAt(Pt(r)) = d /\ Pt(r)[1] = r.ts /\ r.ts \in Nat
  BY DaysAreNumbers, ConfigAssumption DEF DayAt, Pt, Record
<1>2. dataFile[d] \in Seq(Seq(Sample))
  BY <1>1
<1> HIDE DEF d
<1>3. ASSUME NEW f \in DOMAIN dataFile[d], NEW k \in DOMAIN dataFile[d][f]
      PROVE  dataFile[d][f][k].ts \in Nat
  <2>1. dataFile[d][f] \in Seq(Sample)
    BY <1>2
  <2>2. dataFile[d][f][k] \in Sample
    BY <2>1
  <2> QED
    BY <2>2, ConfigAssumption DEF Sample
<1>4. BelowWatermark(r) <=>
        \E f \in DOMAIN dataFile[d] : \E k \in DOMAIN dataFile[d][f] : r.ts <= dataFile[d][f][k].ts
  <2>1. \A s : s \in Persisted(d) <=> \E x \in Range(dataFile[d]) : s \in Range(x)
    BY DEF Persisted
  <2>3. \A x : x \in Range(dataFile[d]) <=> \E f \in DOMAIN dataFile[d] : x = dataFile[d][f]
    BY DEF Range
  <2>4. \A x, s : s \in Range(x) <=> \E k \in DOMAIN x : s = x[k]
    BY DEF Range
  <2>2. BelowWatermark(r) <=> \E s \in Persisted(d) : r.ts <= s.ts
    BY DEF BelowWatermark, d
  <2>5. ASSUME NEW s
        PROVE  s \in Persisted(d) <=>
                 \E f \in DOMAIN dataFile[d] : \E k \in DOMAIN dataFile[d][f] : s = dataFile[d][f][k]
    <3>1. s \in Persisted(d) <=> \E f \in DOMAIN dataFile[d] : s \in Range(dataFile[d][f])
      BY <2>1, <2>3
    <3> QED
      BY <2>4, <3>1
  <2> QED
    BY <2>2, <2>5
<1>5. Late(Pt(r)) <=>
        \A f \in DOMAIN dataFile[d] : \A k \in DOMAIN dataFile[d][f] : dataFile[d][f][k].ts < r.ts
  <2>1. Late(Pt(r)) <=> \A q \in Filed(d) : q[1] < r.ts
    BY <1>1 DEF Late
  <2>2. \A f \in DOMAIN dataFile[d] : \A k \in DOMAIN dataFile[d][f] :
          Pt(dataFile[d][f][k])[1] = dataFile[d][f][k].ts
    BY DEF Pt
  <2> QED
    BY <2>1, <2>2 DEF Filed
<1> QED
  BY <1>1, <1>3, <1>4, <1>5

(***************************************************************************)
(* Which steps write the log, the pages, the files, and answer calls.      *)
(***************************************************************************)

\* The parts of ReplayRecord: a record is skipped, makes way for its day, is behind its
\* page, or goes into it.
Rec     == replay.recs[replay.pos]
RecDay  == DayOf[Rec.ts]
Advance == replay' = [replay EXCEPT !.pos = @ + 1]
ReplaySkip ==
    /\ ReplayRecord /\ replay.pos \in replay.durable
    /\ Advance /\ UNCHANGED <<pc, flush, openDays, page, lastTS>>
ReplaySeal ==
    /\ ReplayRecord /\ replay.pos \notin replay.durable /\ NeedsSeal(RecDay)
    /\ StartSeal /\ UNCHANGED <<replay, page, lastTS>>
ReplayReorder ==
    /\ ReplayRecord /\ replay.pos \notin replay.durable /\ OutOfOrder(RecDay, Rec.ts)
    /\ StartFlush(RecDay, "reorder") /\ UNCHANGED <<replay, openDays, page, lastTS>>
ReplayPut ==
    /\ ReplayRecord /\ replay.pos \notin replay.durable /\ ~OutOfOrder(RecDay, Rec.ts)
    /\ ~NeedsSeal(RecDay)
    /\ PutSample(RecDay, [id |-> Rec.id, ts |-> Rec.ts, val |-> Rec.val])
    /\ Advance /\ UNCHANGED <<pc, flush>>

LEMMA ReplayParts == ReplayRecord => ReplaySkip \/ ReplaySeal \/ ReplayReorder \/ ReplayPut
BY DEF ReplayRecord, ReplaySkip, ReplaySeal, ReplayReorder, ReplayPut, Rec, RecDay, Advance

\* The parts of AddToPage: the sample goes into its page, or behind it, where the rollup
\* writer flushes the page and tries again and others give up.
CallDay == DayOf[call.ts]
AddPut ==
    /\ AddToPage /\ ~OutOfOrder(CallDay, call.ts)
    /\ PutSample(CallDay, [id |-> catalog[call.metric], ts |-> call.ts, val |-> call.val])
    /\ pc' = "age" /\ UNCHANGED <<call, flush, replay, closeErrs, answered>>
AddRetry ==
    /\ AddToPage /\ OutOfOrder(CallDay, call.ts)
    /\ StartFlush(CallDay, "reorder")
    /\ UNCHANGED <<openDays, page, lastTS, call, replay, closeErrs, answered>>
AddRefuse ==
    /\ AddToPage /\ OutOfOrder(CallDay, call.ts)
    /\ Return(FALSE) /\ UNCHANGED <<openDays, page, lastTS>>

LEMMA AddParts == AddToPage => AddPut \/ AddRetry \/ AddRefuse
BY DEF AddToPage, AddPut, AddRetry, AddRefuse, CallDay

\* The parts of WriteFails: the process stops, Close goes on, the call returns an error.
FailStop   == WriteFails /\ LoseMemory("down") /\ UNCHANGED answered
FailClose  == /\ WriteFails /\ ~Replaying /\ call.op = "close" /\ UNCHANGED memory
              /\ closeErrs' = closeErrs \cup {flush.day}
              /\ pc' = (IF pc = "reset" THEN "persist" ELSE "drain")
              /\ flush' = NoFlush /\ UNCHANGED <<call, replay, answered>>
FailReturn == WriteFails /\ ~Replaying /\ UNCHANGED memory /\ Return(FALSE)

LEMMA FailParts == WriteFails => FailStop \/ FailClose \/ FailReturn
BY DEF WriteFails, AfterWriteError, FailStop, FailClose, FailReturn

PersistStop == /\ PersistCatalog /\ UNCHANGED answered
               /\ \E where \in {"closed", "down"} : LoseMemory(where)
PersistDone == /\ PersistCatalog /\ call.op # "close" /\ Return(TRUE)
               /\ UNCHANGED <<openDays, page, sealedDays>>

LEMMA PersistParts == PersistCatalog => PersistStop \/ PersistDone
BY DEF PersistCatalog, PersistStop, PersistDone

\* A step that loses the memory.
Stops == \E where \in {"closed", "down"} : LoseMemory(where)

\* The steps that leave log, pages and files alone and keep the process running.
Quiet ==
    \/ ReplayDone \/ ReplaySkip \/ ReplaySeal \/ ReplayReorder
    \/ EnsureDayOpen \/ DayIsSealed \/ RejectMetric \/ AddRetry \/ AddRefuse
    \/ (\E d \in Day : FlushAged(d) \/ DrainPage(d))
    \/ FlushOwnPage \/ FinishAdd \/ DrainDone \/ PersistDone \/ KeepWAL \/ CatalogBeforeReset
    \/ (\E op \in {"flush", "close"} : BeginDrain(op))
    \/ FailClose \/ FailReturn

Halting == Crash \/ ReplayFails \/ PersistStop \/ FailStop

LEMMA NextParts ==
    ASSUME [Next]_vars
    PROVE  \/ UNCHANGED vars \/ Quiet \/ Halting
           \/ OpenDatabase \/ (\E m \in Metric, t \in Timestamp : BeginAdd(m, t))
           \/ (\E useWAL \in BOOLEAN : LogSample(useWAL)) \/ LogSyncFails
           \/ ReplayPut \/ AddPut \/ AppendFrame \/ SyncFlushed \/ ResetWAL
BY ReplayParts, AddParts, FailParts, PersistParts DEF Next, Work, OpenFails, Quiet, Halting

LEMMA QuietSame == Quiet => UNCHANGED <<wal, page, dataFile, config, calls, newest, latest, crashes>>
<1>1. ASSUME ReplayDone \/ ReplaySkip \/ ReplaySeal \/ ReplayReorder \/ EnsureDayOpen
      PROVE  UNCHANGED <<wal, page, dataFile, config, calls, newest, latest, crashes>>
  BY <1>1 DEF ReplayDone, ReplaySkip, ReplaySeal, ReplayReorder, ReplayRecord, EnsureDayOpen
<1>2. ASSUME DayIsSealed \/ RejectMetric \/ AddRetry \/ AddRefuse \/ FinishAdd \/ FlushOwnPage
      PROVE  UNCHANGED <<wal, page, dataFile, config, calls, newest, latest, crashes>>
  BY <1>2 DEF DayIsSealed, RejectMetric, AddRetry, AddRefuse, AddToPage, FlushOwnPage, FinishAdd
<1>3. ASSUME \/ (\E d \in Day : FlushAged(d) \/ DrainPage(d))
             \/ (\E op \in {"flush", "close"} : BeginDrain(op))
             \/ DrainDone \/ PersistDone
      PROVE  UNCHANGED <<wal, page, dataFile, config, calls, newest, latest, crashes>>
  BY <1>3 DEF FlushAged, DrainPage, BeginDrain, DrainDone, PersistDone, PersistCatalog
<1>4. ASSUME KeepWAL \/ CatalogBeforeReset \/ FailClose \/ FailReturn
      PROVE  UNCHANGED <<wal, page, dataFile, config, calls, newest, latest, crashes>>
  <2>1. WriteFails => UNCHANGED <<wal, dataFile, config, calls, newest, latest, crashes>>
    BY DEF WriteFails
  <2> QED
    BY <1>4, <2>1 DEF KeepWAL, CatalogBeforeReset, FailClose, FailReturn
<1> QED
  BY <1>1, <1>2, <1>3, <1>4 DEF Quiet

LEMMA HaltingStops ==
    Halting => Stops /\ UNCHANGED <<wal, dataFile, config, calls, newest, latest, cutoff, answered>>
<1>1. Crash => Stops /\ UNCHANGED <<wal, dataFile, config, calls, newest, latest, cutoff, answered>>
  BY DEF Crash, Stops
<1>2. ReplayFails => Stops /\ UNCHANGED <<wal, dataFile, config, calls, newest, latest, cutoff, answered>>
  BY DEF ReplayFails, Stops
<1>3. PersistStop => Stops /\ UNCHANGED <<wal, dataFile, config, calls, newest, latest, cutoff, answered>>
  BY DEF PersistStop, PersistCatalog, Stops
<1>4. FailStop => Stops /\ UNCHANGED <<wal, dataFile, config, calls, newest, latest, cutoff, answered>>
  <2>1. WriteFails => UNCHANGED <<wal, dataFile, config, calls, newest, latest, cutoff>>
    BY DEF WriteFails
  <2> QED
    BY <2>1 DEF FailStop, Stops
<1> QED
  BY <1>1, <1>2, <1>3, <1>4 DEF Halting


(***************************************************************************)
(* The points only move: from the call to the log and the pages, from the  *)
(* log to replay and back to the pages, from there to the files.           *)
(***************************************************************************)

Answering == Return(TRUE) \/ Return(FALSE)

LEMMA InDaysParts == \A p : p \in InDays <=> \E d \in Day : p \in Paged(d) \/ p \in Filed(d)
BY DEF InDays

LEMMA InDaysNext == \A p : p \in InDays' <=> \E d \in Day : p \in Paged(d)' \/ p \in Filed(d)'
BY DEF InDays

\* A call that returns leaves its sample among the answers.
LEMMA AnsweringMoves ==
    Answering => /\ Calling' = {} /\ Answers' = Answers \cup Calling /\ Replayed' = Replayed
                 /\ call' = NoCall /\ pc' = "idle" /\ UNCHANGED replay
<1> SUFFICES ASSUME Answering
             PROVE  /\ Calling' = {} /\ Answers' = Answers \cup Calling /\ Replayed' = Replayed
                    /\ call' = NoCall /\ pc' = "idle" /\ UNCHANGED replay
  OBVIOUS
<1>1. PICK ok \in BOOLEAN : Return(ok)
  BY DEF Answering
<1>2. /\ call' = NoCall /\ pc' = "idle" /\ UNCHANGED replay
      /\ answered' = IF call.op = "add"
                   THEN answered \cup {[metric |-> call.metric, ts |-> call.ts,
                                        val |-> call.val, ok |-> ok]}
                   ELSE answered
  BY <1>1 DEF Return
<1>3. Calling' = {}
  BY <1>2 DEF Calling, NoCall
<1>4. Answers' = {Pt(a) : a \in answered'}
  BY DEF Answers, Pt
<1>5. Answers' = Answers \cup Calling
  <2>1. CASE call.op = "add"
    <3> DEFINE a == [metric |-> call.metric, ts |-> call.ts, val |-> call.val, ok |-> ok]
    <3>1. answered' = answered \cup {a} /\ Pt(a) = Pt(call)
      BY <1>2, <2>1 DEF Pt
    <3>2. Calling = {Pt(call)}
      BY <2>1 DEF Calling
    <3> HIDE DEF a
    <3> QED
      BY <1>4, <3>1, <3>2 DEF Answers
  <2>2. CASE call.op # "add"
    BY <1>2, <1>4, <2>2 DEF Answers, Calling
  <2> QED
    BY <2>1, <2>2
<1> QED
  BY <1>2, <1>3, <1>5, SameRecs

\* A process that stops forgets its call, its pages and its replay.
LEMMA StopsMoves ==
    Stops => /\ Calling' = {} /\ Replayed' = {} /\ \A d \in Day : Paged(d)' = {}
             /\ pc' \in {"down", "closed"} /\ call' = NoCall /\ flush' = NoFlush
             /\ replay' = NoReplay /\ openDays' = {} /\ closeErrs' = {}
             /\ \A d \in Day : page'[d] = <<>>
<1> SUFFICES ASSUME NEW where \in {"closed", "down"}, LoseMemory(where)
             PROVE  /\ Calling' = {} /\ Replayed' = {} /\ \A d \in Day : Paged(d)' = {}
                    /\ pc' \in {"down", "closed"} /\ call' = NoCall /\ flush' = NoFlush
                    /\ replay' = NoReplay /\ openDays' = {} /\ closeErrs' = {}
                    /\ \A d \in Day : page'[d] = <<>>
  BY DEF Stops
<1>1. /\ pc' \in {"down", "closed"} /\ call' = NoCall /\ flush' = NoFlush
      /\ replay' = NoReplay /\ openDays' = {} /\ closeErrs' = {} /\ page' = EmptyPages
  BY DEF LoseMemory
<1>2. \A d \in Day : page'[d] = <<>>
  BY <1>1 DEF EmptyPages
<1>3. \A d \in Day : Paged(d)' = {}
  BY <1>2 DEF Paged
<1>4. Calling' = {} /\ Replayed' = {}
  BY <1>1 DEF Calling, Replayed, NoCall, NoReplay
<1> QED
  BY <1>1, <1>2, <1>3, <1>4

\* What the quiet steps do to the call and to replay.
LEMMA QuietMoves ==
    HandlerOK /\ Quiet =>
             /\ \/ UNCHANGED <<call, answered>>
                \/ Answering
                \/ pc = "idle" /\ call'.op \in {"flush", "close"} /\ UNCHANGED answered
             /\ replay' = NoReplay \/ (replay'.recs = replay.recs /\ replay'.durable = replay.durable)
             /\ faults' = faults \/ (faults < MaxFaults /\ faults' = faults + 1)
<1> DEFINE Calls == \/ UNCHANGED <<call, answered>>
                    \/ Answering
                    \/ pc = "idle" /\ call'.op \in {"flush", "close"} /\ UNCHANGED answered
           Fault == faults' = faults \/ (faults < MaxFaults /\ faults' = faults + 1)
<1>1. ReplayDone => UNCHANGED <<call, answered, faults>> /\ replay' = NoReplay
  BY DEF ReplayDone
<1>2. ASSUME HandlerOK, ReplaySkip \/ ReplaySeal \/ ReplayReorder
      PROVE  UNCHANGED <<call, answered, faults>> /\ replay'.recs = replay.recs /\ replay'.durable = replay.durable
  BY <1>2 DEF ReplaySkip, ReplaySeal, ReplayReorder, ReplayRecord, Advance, HandlerOK
<1>3. ASSUME EnsureDayOpen \/ AddRetry \/ FlushOwnPage \/ DrainDone \/ CatalogBeforeReset
              \/ (\E d \in Day : FlushAged(d) \/ DrainPage(d))
      PROVE  UNCHANGED <<call, answered, faults, replay>>
  BY <1>3 DEF EnsureDayOpen, AddRetry, AddToPage, FlushOwnPage, DrainDone, CatalogBeforeReset, FlushAged, DrainPage
<1>4. ASSUME DayIsSealed \/ RejectMetric \/ AddRefuse \/ FinishAdd \/ PersistDone
      PROVE  Answering /\ UNCHANGED <<replay, faults>>
  BY <1>4 DEF DayIsSealed, RejectMetric, AddRefuse, AddToPage, FinishAdd, PersistDone, PersistCatalog, Answering, Return
<1>5. ASSUME KeepWAL
      PROVE  (UNCHANGED <<call, answered>> \/ Answering) /\ UNCHANGED <<replay, faults>>
  BY <1>5 DEF KeepWAL, AfterReset, Answering, Return
<1>6. ASSUME NEW op \in {"flush", "close"}, BeginDrain(op)
      PROVE  pc = "idle" /\ call'.op \in {"flush", "close"} /\ UNCHANGED <<answered, replay, faults>>
  BY <1>6 DEF BeginDrain, NoCall
<1>7. FailClose => UNCHANGED <<call, answered, replay>> /\ faults < MaxFaults /\ faults' = faults + 1
  BY DEF FailClose, WriteFails
<1>8. FailReturn => Answering /\ UNCHANGED replay /\ faults < MaxFaults /\ faults' = faults + 1
  BY DEF FailReturn, WriteFails, Answering, Return
<1>9. HandlerOK /\ Quiet => Calls
  BY <1>1, <1>2, <1>3, <1>4, <1>5, <1>6, <1>7, <1>8 DEF Quiet
<1>10. HandlerOK /\ Quiet => Fault
  BY <1>1, <1>2, <1>3, <1>4, <1>5, <1>6, <1>7, <1>8 DEF Quiet
<1>11. HandlerOK /\ Quiet => replay' = NoReplay \/ (replay'.recs = replay.recs /\ replay'.durable = replay.durable)
  <2> HIDE DEF Answering
  <2> QED
    BY <1>1, <1>2, <1>3, <1>4, <1>5, <1>6, <1>7, <1>8 DEF Quiet
<1> QED
  BY <1>9, <1>10, <1>11


\* A sample is taken in: BeginAdd.
Taken == \E m \in Metric, t \in Timestamp : BeginAdd(m, t)

\* What a step brings to the log.
LEMMA LogMoves ==
    ASSUME IInv, NEW useWAL \in BOOLEAN, LogSample(useWAL) \/ LogSyncFails
    PROVE  /\ Logged' = Logged \/ Logged' = Logged \cup Calling
           /\ wal' = wal \/ \E r \in Record : wal' = Append(wal, r) /\ r.val = call.val /\ Pt(r) = Pt(call)
           /\ useWAL \/ LogSyncFails => \E r \in Record : wal' = Append(wal, r) /\ Pt(r) = Pt(call)
           /\ call.op = "add" /\ Calling = {Pt(call)}
           /\ UNCHANGED <<page, dataFile, replay, openDays>>
<1> DEFINE i == IF Known(call.metric) THEN catalog[call.metric] ELSE NextMetricID
           r == WALRecord(i)
<1>1. call.op = "add" /\ call.metric \in Metric /\ call.ts \in Timestamp /\ pc = "log"
  BY DEF LogSample, LogSyncFails, IInv, CallOK
<1>2. i \in MetricID
  BY <1>1, NextIDFits DEF LogSample, LogSyncFails, Known, MemoryOK, IInv, TypeOK
<1>3. r \in Record
  BY <1>1, <1>2, WALRecordType DEF IInv, TypeOK
<1>4. r.val = call.val /\ Pt(r) = Pt(call)
  BY DEF WALRecord, Pt
<1>5. LogSyncFails => wal' = Append(wal, r)
  BY DEF LogSyncFails
<1>6. LogSample(useWAL) => wal' = IF useWAL THEN Append(wal, r) ELSE wal
  BY DEF LogSample
<1>7. Calling = {Pt(call)}
  BY <1>1 DEF Calling
<1> HIDE DEF r, i
<1>8. wal' = wal \/ wal' = Append(wal, r)
  BY <1>5, <1>6
<1>9. Logged' = Logged \/ Logged' = Logged \cup Calling
  BY <1>3, <1>4, <1>7, <1>8, LoggedAppend, SameLog DEF IInv, TypeOK, DiskOK
<1>10. UNCHANGED <<page, dataFile, replay, openDays>>
  BY DEF LogSample, LogSyncFails, Return
<1> QED
  BY <1>1, <1>3, <1>4, <1>5, <1>6, <1>7, <1>8, <1>9, <1>10

\* A record that is replayed goes into the page of its day.
LEMMA ReplayPutMoves ==
    ASSUME IInv, ReplayPut
    PROVE  /\ Rec \in Record /\ RecDay \in Day /\ Pt(Rec) \in Replayed
           /\ DayAt(Pt(Rec)) = RecDay
           /\ replay.pos \in DOMAIN replay.recs
           /\ \A e \in Day : Paged(e)' = IF e = RecDay THEN Paged(e) \cup {Pt(Rec)} ELSE Paged(e)
           /\ \A e \in Day : IF e = RecDay THEN page'[e] # <<>> ELSE page'[e] = page[e]
           /\ openDays' = openDays \cup {RecDay}
           /\ replay' = [replay EXCEPT !.pos = replay.pos + 1]
           /\ UNCHANGED <<wal, dataFile, pc, flush, call, answered, faults, crashes, closeErrs,
                          sealedDays, given, cutoff>>
<1> DEFINE s == [id |-> Rec.id, ts |-> Rec.ts, val |-> Rec.val]
<1>1. replay.pos \in DOMAIN replay.recs /\ Rec \in Record /\ Rec = replay.recs[replay.pos]
  BY DEF ReplayPut, ReplayRecord, Rec, IInv, TypeOK, HandlerOK
<1>2. RecDay \in Day /\ s \in Sample /\ Pt(s) = Pt(Rec) /\ DayAt(Pt(Rec)) = RecDay
  BY <1>1, DaysAreNumbers DEF RecDay, Record, Sample, Pt, DayAt
<1>3. Pt(Rec) \in Replayed
  BY <1>1 DEF Replayed
<1>4. /\ page' = [page EXCEPT ![RecDay] = Append(@, s)]
      /\ openDays' = openDays \cup {RecDay}
  BY DEF ReplayPut, PutSample
<1>5. page \in [Day -> Seq(Sample)]
  BY DEF IInv, TypeOK, MemoryOK
<1>6. /\ replay' = [replay EXCEPT !.pos = replay.pos + 1]
      /\ UNCHANGED <<wal, dataFile, pc, flush, call, answered, faults, crashes, closeErrs,
                     sealedDays, given, cutoff>>
  BY DEF ReplayPut, ReplayRecord, Advance
<1> HIDE DEF s
<1>7. ASSUME NEW d \in Day, d = RecDay
      PROVE  /\ Paged(d)' = Paged(d) \cup {Pt(Rec)}
             /\ \A e \in Day : e # d => Paged(e)' = Paged(e) /\ page'[e] = page[e]
             /\ page'[d] # <<>>
  <2>1. page' = [page EXCEPT ![d] = Append(@, s)]
    BY <1>4, <1>7
  <2> QED
    BY <1>2, <1>5, <2>1, PagedPut
<1> QED
  BY <1>1, <1>2, <1>3, <1>4, <1>6, <1>7

\* A sample that is added goes into the page of its day.
LEMMA AddPutMoves ==
    ASSUME IInv, AddPut
    PROVE  /\ CallDay \in Day /\ call.op = "add" /\ Calling = {Pt(call)} /\ DayAt(Pt(call)) = CallDay
           /\ \A e \in Day : Paged(e)' = IF e = CallDay THEN Paged(e) \cup {Pt(call)} ELSE Paged(e)
           /\ \A e \in Day : IF e = CallDay THEN page'[e] # <<>> ELSE page'[e] = page[e]
           /\ openDays' = openDays \cup {CallDay}
           /\ pc = "page" /\ pc' = "age"
           /\ UNCHANGED <<wal, dataFile, replay, flush, call, answered, faults, crashes, closeErrs,
                          sealedDays, given, cutoff>>
<1> DEFINE s == [id |-> catalog[call.metric], ts |-> call.ts, val |-> call.val]
<1>1. /\ call.op = "add" /\ call.metric \in Metric /\ call.ts \in Timestamp /\ CallDay \in Day
      /\ pc = "page" /\ catalog[call.metric] # 0
  BY DaysAreNumbers DEF AddPut, AddToPage, IInv, CallOK, Paging, Known, CallDay
<1>2. s \in Sample /\ Pt(s) = Pt(call)
  BY <1>1 DEF Sample, MemoryOK, HandlerOK, IInv, TypeOK, Pt
<1>3. Calling = {Pt(call)} /\ DayAt(Pt(call)) = CallDay
  BY <1>1 DEF Calling, DayAt, Pt, CallDay
<1>4. /\ page' = [page EXCEPT ![CallDay] = Append(@, s)]
      /\ openDays' = openDays \cup {CallDay}
  BY DEF AddPut, PutSample
<1>5. page \in [Day -> Seq(Sample)]
  BY DEF IInv, TypeOK, MemoryOK
<1>6. /\ pc' = "age"
      /\ UNCHANGED <<wal, dataFile, replay, flush, call, answered, faults, crashes, closeErrs,
                     sealedDays, given, cutoff>>
  BY DEF AddPut, AddToPage
<1> HIDE DEF s
<1>7. ASSUME NEW d \in Day, d = CallDay
      PROVE  /\ Paged(d)' = Paged(d) \cup {Pt(call)}
             /\ \A e \in Day : e # d => Paged(e)' = Paged(e) /\ page'[e] = page[e]
             /\ page'[d] # <<>>
  <2>1. page' = [page EXCEPT ![d] = Append(@, s)]
    BY <1>4, <1>7
  <2> QED
    BY <1>2, <1>5, <2>1, PagedPut
<1> QED
  BY <1>1, <1>3, <1>4, <1>6, <1>7

\* The page that is written goes to the file of its day.
LEMMA AppendFrameMoves ==
    ASSUME IInv, AppendFrame
    PROVE  /\ flush.day \in Day
           /\ \A e \in Day : Filed(e)' = IF e = flush.day THEN Filed(e) \cup Paged(e) ELSE Filed(e)
           /\ \A e \in Day : Paged(e)' = Paged(e)
           /\ pc = "flush" /\ pc' = "sync"
           /\ UNCHANGED <<wal, page, memory, call, flush, replay, closeErrs, history>>
<1>1. flush.day \in Day
  BY DEF AppendFrame, IInv, CallOK
<1>2. /\ pc = "flush" /\ pc' = "sync"
      /\ UNCHANGED <<wal, page, memory, call, flush, replay, closeErrs, history>>
      /\ dataFile' = [dataFile EXCEPT ![flush.day] = Append(@, page[flush.day])]
  BY DEF AppendFrame
<1>3. dataFile \in [Day -> Seq(Seq(Sample))] /\ page \in [Day -> Seq(Sample)]
  BY DEF IInv, TypeOK, MemoryOK, DiskOK
<1>4. ASSUME NEW d \in Day, d = flush.day
      PROVE  /\ Filed(d)' = Filed(d) \cup Paged(d)
             /\ \A e \in Day : e # d => Filed(e)' = Filed(e)
  <2>1. dataFile' = [dataFile EXCEPT ![d] = Append(@, page[d])]
    BY <1>2, <1>4
  <2> QED
    BY <1>3, <2>1, FiledAppend
<1> QED
  BY <1>1, <1>2, <1>4, SamePage

\* It is dropped once the file is synced.
LEMMA SyncFlushedMoves ==
    ASSUME IInv, SyncFlushed
    PROVE  /\ flush.day \in Day
           /\ \A e \in Day : Paged(e)' = IF e = flush.day THEN {} ELSE Paged(e)
           /\ \A e \in Day : page'[e] = IF e = flush.day THEN <<>> ELSE page[e]
           /\ openDays' = openDays \ {flush.day}
           /\ \A e \in Day : Filed(e)' = Filed(e)
           /\ pc = "sync" /\ pc' = AfterSync
           /\ flush' = IF AfterSync = "reset" THEN flush ELSE NoFlush
           /\ UNCHANGED <<wal, dataFile, call, replay, closeErrs, sealedDays, history>>
<1>1. flush.day \in Day
  BY DEF SyncFlushed, IInv, CallOK
<1>2. /\ pc = "sync" /\ pc' = AfterSync
      /\ flush' = IF AfterSync = "reset" THEN flush ELSE NoFlush
      /\ UNCHANGED <<wal, dataFile, call, replay, closeErrs, sealedDays, history>>
      /\ page' = [page EXCEPT ![flush.day] = <<>>]
      /\ openDays' = openDays \ {flush.day}
  BY DEF SyncFlushed, DropPage
<1>3. page \in [Day -> Seq(Sample)]
  BY DEF IInv, TypeOK, MemoryOK
<1>4. /\ page'[flush.day] = <<>>
      /\ \A e \in Day : e # flush.day => page'[e] = page[e]
  BY <1>1, <1>2, <1>3
<1>5. ASSUME NEW d \in Day, d = flush.day
      PROVE  Paged(d)' = {} /\ (\A e \in Day : e # d => Paged(e)' = Paged(e))
  <2>1. page' = [page EXCEPT ![d] = <<>>]
    BY <1>2, <1>5
  <2> QED
    BY <1>3, <2>1, PagedDrop
<1> QED
  BY <1>1, <1>2, <1>4, <1>5, SameFile

\* The log is emptied.
LEMMA ResetWALMoves ==
    ASSUME IInv, ResetWAL
    PROVE  /\ Logged' = {} /\ wal' = <<>> /\ pc = "reset" /\ config.wal
           /\ \A d \in Day : page[d] = <<>>
           /\ \A e \in Day : Filed(e)' = Filed(e) /\ Paged(e)' = Paged(e)
           /\ UNCHANGED replay
           /\ \/ flush.goal = "full" /\ Answering
              \/ /\ UNCHANGED <<call, answered>> /\ flush.goal # "full" /\ flush' = NoFlush
                 /\ pc' = IF flush.goal = "seal" THEN (IF Replaying THEN "replay" ELSE "ensure")
                          ELSE "persist"
           /\ UNCHANGED <<page, dataFile, openDays, given, cutoff, crashes, faults>>
<1>1. /\ wal' = <<>> /\ pc = "reset" /\ AfterReset /\ MayReset
      /\ UNCHANGED <<page, dataFile, openDays, given, cutoff, crashes, faults>>
  BY DEF ResetWAL
<1>2. \/ flush.goal = "full" /\ Answering /\ UNCHANGED replay
      \/ /\ UNCHANGED <<call, answered, replay>> /\ flush.goal # "full" /\ flush' = NoFlush
         /\ pc' = IF flush.goal = "seal" THEN (IF Replaying THEN "replay" ELSE "ensure") ELSE "persist"
  BY <1>1 DEF AfterReset, Answering, Return
<1>3. Logged' = {}
  BY <1>1 DEF Logged
<1>4. config.wal /\ \A d \in Day : page[d] = <<>>
  BY <1>1 DEF MayReset, AllPagesFlushed
<1> QED
  BY <1>1, <1>2, <1>3, <1>4, SameFile, SamePage

\* An open leaves the pages empty and hands the log to replay.
LEMMA OpenMoves ==
    ASSUME IInv, OpenDatabase
    PROVE  /\ Down
           /\ \/ /\ pc' = "replay" /\ wal # <<>> /\ UNCHANGED wal /\ Logged' = Logged /\ Replayed' = Logged
                 /\ replay' = [recs |-> wal, pos |-> 1, durable |-> {i \in DOMAIN wal : BelowWatermark(wal[i])}]
              \/ /\ pc' = "idle" /\ wal' = <<>> /\ Logged' = {} /\ UNCHANGED replay /\ Replayed' = Replayed
                 /\ config.wal => wal = <<>>
           /\ UNCHANGED <<dataFile, page, openDays, sealedDays, call, flush, closeErrs, history>>
           /\ \A e \in Day : Filed(e)' = Filed(e) /\ Paged(e)' = Paged(e)
<1>1. /\ Down
      /\ IF config.wal /\ wal # <<>>
         THEN /\ pc' = "replay"
              /\ replay' = [recs |-> wal, pos |-> 1,
                            durable |-> {i \in DOMAIN wal : BelowWatermark(wal[i])}]
              /\ UNCHANGED wal
         ELSE pc' = "idle" /\ wal' = <<>> /\ UNCHANGED replay
      /\ UNCHANGED <<dataFile, page, openDays, sealedDays, call, flush, closeErrs, history>>
  BY DEF OpenDatabase
<1>2. replay'.recs = wal => Replayed' = Logged
  BY DEF Replayed, Logged, Pt
<1>3. wal' = <<>> => Logged' = {}
  BY DEF Logged
<1> QED
  BY <1>1, <1>2, <1>3, SameLog, SameRecs, SameFile, SamePage


LEMMA PointsMove ==
    ASSUME IInv, [Next]_vars, ~Taken
    PROVE  /\ Points' \subseteq Points
           /\ UNCHANGED <<config, calls, newest, latest>>
           /\ faults' = faults \/ (faults < MaxFaults /\ faults' = faults + 1)
<1> DEFINE Same == UNCHANGED <<config, calls, newest, latest>>
           Fault == faults' = faults \/ (faults < MaxFaults /\ faults' = faults + 1)
           Boxed == \A d \in Day : Paged(d)' \cup Filed(d)' \subseteq Points
<1>a. /\ Points = Logged \cup InDays \cup Replayed \cup Calling \cup Answers
      /\ Points' = Logged' \cup InDays' \cup Replayed' \cup Calling' \cup Answers'
      /\ \A d \in Day : Paged(d) \cup Filed(d) \subseteq Points
  BY InDaysParts DEF Points
<1>b. ASSUME Boxed PROVE InDays' \subseteq Points
  BY <1>b, InDaysNext
<1>s. UNCHANGED call => Calling' = Calling
  BY DEF Calling, Pt
<1>t. UNCHANGED answered => Answers' = Answers
  BY DEF Answers, Pt
<1>n. replay' = NoReplay => Replayed' = {}
  BY DEF Replayed, NoReplay
<1> HIDE DEF Boxed
<1>1. CASE UNCHANGED vars
  <2>1. Boxed
    BY <1>1, <1>a, SamePage, SameFile DEF Boxed
  <2>2. Logged' = Logged /\ Replayed' = Replayed
    BY <1>1, SameLog, SameRecs
  <2> QED
    BY <1>1, <1>a, <1>b, <1>s, <1>t, <2>1, <2>2
<1>2. CASE Quiet
  <2>1. /\ UNCHANGED <<wal, page, dataFile>> /\ Same
    BY <1>2, QuietSame
  <2>2. Boxed
    BY <2>1, <1>a, SamePage, SameFile DEF Boxed
  <2>3. Logged' = Logged
    BY <2>1, SameLog
  <2>4. /\ \/ UNCHANGED <<call, answered>>
           \/ Answering
           \/ pc = "idle" /\ call'.op \in {"flush", "close"} /\ UNCHANGED answered
        /\ replay' = NoReplay \/ replay'.recs = replay.recs
        /\ Fault
    BY <1>2, QuietMoves DEF IInv, TypeOK
  <2>5. Replayed' \subseteq Replayed
    BY <2>4, <1>n, SameRecs
  <2>6. call'.op \in {"flush", "close"} => Calling' = {}
    BY DEF Calling
  <2>7. Calling' \subseteq Calling /\ Answers' \subseteq Answers \cup Calling
    BY <2>4, <2>6, <1>s, <1>t, AnsweringMoves
  <2> QED
    BY <1>a, <1>b, <2>1, <2>2, <2>3, <2>4, <2>5, <2>7
<1>3. CASE Halting
  <2>1. Stops /\ UNCHANGED <<wal, dataFile, answered>> /\ Same
    BY <1>3, HaltingStops
  <2>2. Boxed
    BY <2>1, <1>a, StopsMoves, SameFile DEF Boxed
  <2>3. Fault
    BY <1>3 DEF Halting, Crash, ReplayFails, PersistStop, PersistCatalog, FailStop, WriteFails
  <2> QED
    BY <1>a, <1>b, <1>t, <2>1, <2>2, <2>3, SameLog, StopsMoves
<1>4. CASE OpenDatabase
  <2>1. Boxed
    BY <1>4, <1>a, OpenMoves DEF Boxed
  <2> QED
    BY <1>4, <1>a, <1>b, <1>s, <1>t, <2>1, OpenMoves
<1>5. CASE (\E useWAL \in BOOLEAN : LogSample(useWAL)) \/ LogSyncFails
  <2>1. PICK useWAL \in BOOLEAN : LogSample(useWAL) \/ LogSyncFails
    BY <1>5
  <2>2. /\ Logged' \subseteq Logged \cup Calling
        /\ UNCHANGED <<page, dataFile, replay>>
    BY <2>1, LogMoves
  <2>3. Boxed
    BY <2>2, <1>a, SamePage, SameFile DEF Boxed
  <2>4. (UNCHANGED <<call, answered>> \/ Answering) /\ Same /\ Fault
    BY <2>1 DEF LogSample, LogSyncFails, Answering, Return
  <2>5. Calling' \subseteq Calling /\ Answers' \subseteq Answers \cup Calling
    BY <2>4, <1>s, <1>t, AnsweringMoves
  <2> QED
    BY <1>a, <1>b, <2>2, <2>3, <2>4, <2>5, SameRecs
<1>6. CASE ReplayPut
  <2>1. replay'.recs = replay.recs
    BY <1>6, ReplayPutMoves DEF IInv, TypeOK, HandlerOK
  <2>2. Boxed
    BY <1>6, <1>a, ReplayPutMoves, SameFile DEF Boxed
  <2>3. Same /\ Fault /\ UNCHANGED <<wal, call, answered>>
    BY <1>6, ReplayPutMoves
  <2> QED
    BY <1>a, <1>b, <1>s, <1>t, <2>1, <2>2, <2>3, SameLog, SameRecs
<1>7. CASE AddPut
  <2>1. Boxed
    BY <1>7, <1>a, AddPutMoves, SameFile DEF Boxed
  <2>2. Same /\ Fault /\ UNCHANGED <<wal, call, answered, replay>>
    BY <1>7, AddPutMoves
  <2> QED
    BY <1>a, <1>b, <1>s, <1>t, <2>1, <2>2, SameLog, SameRecs
<1>8. CASE AppendFrame
  <2>1. Boxed
    BY <1>8, <1>a, AppendFrameMoves DEF Boxed
  <2>2. Same /\ Fault /\ UNCHANGED <<wal, call, answered, replay>>
    BY <1>8, AppendFrameMoves
  <2> QED
    BY <1>a, <1>b, <1>s, <1>t, <2>1, <2>2, SameLog, SameRecs
<1>9. CASE SyncFlushed
  <2>1. Boxed
    BY <1>9, <1>a, SyncFlushedMoves DEF Boxed
  <2>2. Same /\ Fault /\ UNCHANGED <<wal, call, answered, replay>>
    BY <1>9, SyncFlushedMoves
  <2> QED
    BY <1>a, <1>b, <1>s, <1>t, <2>1, <2>2, SameLog, SameRecs
<1>10. CASE ResetWAL
  <2>1. Boxed
    BY <1>10, <1>a, ResetWALMoves DEF Boxed
  <2>2. Same /\ Fault /\ UNCHANGED replay /\ Logged' = {}
    BY <1>10, ResetWALMoves
  <2>3. Calling' \subseteq Calling /\ Answers' \subseteq Answers \cup Calling
    BY <1>10, <1>s, <1>t, ResetWALMoves, AnsweringMoves
  <2> QED
    BY <1>a, <1>b, <2>1, <2>2, <2>3, SameRecs
<1> QED
  BY <1>1, <1>2, <1>3, <1>4, <1>5, <1>6, <1>7, <1>8, <1>9, <1>10, NextParts DEF Taken

\* A new call brings one point, the newest of all calls.
LEMMA TakenMoves ==
    ASSUME IInv, NEW m \in Metric, NEW t \in Timestamp, BeginAdd(m, t)
    PROVE  /\ Points' \subseteq Points \cup {<<t, calls + 1>>}
           /\ call' = [op |-> "add", metric |-> m, ts |-> t, val |-> calls + 1, fresh |-> ~Known(m)]
           /\ Logged' = Logged /\ Replayed' = Replayed /\ Answers' = Answers
           /\ \A d \in Day : Paged(d)' = Paged(d) /\ Filed(d)' = Filed(d)
           /\ InDays' = InDays
           /\ pc = "idle" /\ pc' = "ensure" /\ calls < MaxCalls /\ calls' = calls + 1
           /\ \/ /\ t > latest[DayOf[t]] /\ latest' = [latest EXCEPT ![DayOf[t]] = t]
                 /\ newest' = newest \cup {calls + 1}
              \/ ~(t > latest[DayOf[t]]) /\ UNCHANGED <<latest, newest>>
           /\ UNCHANGED <<disk, memory, flush, replay, closeErrs, config, cutoff, answered, crashes, faults>>
<1>1. /\ call' = [op |-> "add", metric |-> m, ts |-> t, val |-> calls + 1, fresh |-> ~Known(m)]
      /\ pc = "idle" /\ pc' = "ensure" /\ calls < MaxCalls /\ calls' = calls + 1
      /\ \/ /\ t > latest[DayOf[t]] /\ latest' = [latest EXCEPT ![DayOf[t]] = t]
            /\ newest' = newest \cup {calls + 1}
         \/ ~(t > latest[DayOf[t]]) /\ UNCHANGED <<latest, newest>>
      /\ UNCHANGED <<disk, memory, flush, replay, closeErrs, config, cutoff, answered, crashes, faults>>
  BY DEF BeginAdd
<1>2. Logged' = Logged /\ Replayed' = Replayed /\ \A d \in Day : Paged(d)' = Paged(d) /\ Filed(d)' = Filed(d)
  BY <1>1, SameLog, SameRecs, SamePage, SameFile
<1>3. Answers' = Answers
  BY <1>1 DEF Answers, Pt
<1>4. Calling' = {<<t, calls + 1>>}
  BY <1>1 DEF Calling, Pt
<1>5. \A p : p \in InDays' <=> p \in InDays
  BY <1>2, InDaysParts, InDaysNext
<1>6. Points' \subseteq Points \cup {<<t, calls + 1>>}
  <2>1. Points' = Logged' \cup InDays' \cup Replayed' \cup Calling' \cup Answers'
    BY DEF Points
  <2> QED
    BY <1>2, <1>3, <1>4, <1>5, <2>1 DEF Points
<1> QED
  BY <1>1, <1>2, <1>3, <1>5, <1>6


-----------------------------------------------------------------------------
(* The points of the calls.                                                *)

LEMMA PointsKept ==
    ASSUME IInv, PointsOK, [Next]_vars
    PROVE  PointsOK'
<1>a. calls \in Nat /\ faults \in Nat /\ MaxFaults \in Nat /\ MaxCalls \in Nat
  BY ConfigAssumption DEF IInv, TypeOK, HistoryOK
<1>1. CASE ~Taken
  <2>1. /\ Points' \subseteq Points
        /\ UNCHANGED <<calls, newest, latest>>
        /\ faults' = faults \/ (faults < MaxFaults /\ faults' = faults + 1)
    BY <1>1, PointsMove
  <2>2. calls' <= MaxCalls /\ faults' <= MaxFaults /\ newest' \subseteq 1..calls'
    BY <1>a, <2>1 DEF PointsOK
  <2> QED
    BY <2>1, <2>2 DEF PointsOK, DayAt
<1>2. ASSUME NEW m \in Metric, NEW t \in Timestamp, BeginAdd(m, t)
      PROVE  PointsOK'
  <2> DEFINE n == calls + 1
             p0 == <<t, n>>
  <2>1. /\ Points' \subseteq Points \cup {p0}
        /\ calls < MaxCalls /\ calls' = n /\ faults' = faults
    BY <1>2, TakenMoves
  <2>2. \/ /\ t > latest[DayOf[t]] /\ latest' = [latest EXCEPT ![DayOf[t]] = t]
           /\ newest' = newest \cup {n}
        \/ ~(t > latest[DayOf[t]]) /\ UNCHANGED <<latest, newest>>
    BY <1>2, TakenMoves
  <2>3. latest \in [Day -> Timestamp \cup {0}] /\ DayOf[t] \in Day /\ t \in Nat
    BY DaysAreNumbers, ConfigAssumption DEF IInv, TypeOK, HistoryOK
  <2>4. ASSUME NEW d \in Day
        PROVE  latest[d] \in Nat /\ latest'[d] \in Nat /\ latest[d] <= latest'[d]
    <3>1. latest[d] \in Nat /\ latest[DayOf[t]] \in Nat
      <4>1. Timestamp \cup {0} \subseteq Nat
        BY ConfigAssumption
      <4>2. latest[d] \in Timestamp \cup {0} /\ latest[DayOf[t]] \in Timestamp \cup {0}
        BY <2>3
      <4> QED
        BY <4>1, <4>2
    <3>2. latest'[d] = latest[d] \/ (d = DayOf[t] /\ t > latest[d] /\ latest'[d] = t)
      BY <2>2, <2>3
    <3> QED
      BY <2>3, <3>1, <3>2
  <2>5. t <= latest'[DayOf[t]]
    BY <2>2, <2>3, <2>4
  <2>6. p0[1] = t /\ p0[2] = n /\ DayAt(p0) = DayOf[t]
    BY DEF DayAt
  <2>7. \A p \in Points : /\ p[1] \in Timestamp /\ p[2] \in 1..calls /\ p[1] <= latest[DayAt(p)]
                          /\ DayAt(p) \in Day /\ p[1] \in Nat
    BY DaysAreNumbers, ConfigAssumption DEF PointsOK, DayAt
  <2> HIDE DEF p0
  <2>8. calls' <= MaxCalls /\ faults' <= MaxFaults /\ newest' \subseteq 1..calls'
    <3>1. faults <= MaxFaults /\ newest \subseteq 1..calls
      BY DEF PointsOK
    <3>2. n \in 1..n /\ newest' \subseteq newest \cup {n} /\ 1..calls \subseteq 1..n
      BY <1>a, <2>2
    <3> QED
      BY <1>a, <2>1, <3>1, <3>2
  <2>9. \A p \in Points' : p[1] \in Timestamp /\ p[2] \in 1..calls' /\ p[1] <= latest'[DayAt(p)]
    <3> SUFFICES ASSUME NEW p \in Points'
                 PROVE  p[1] \in Timestamp /\ p[2] \in 1..calls' /\ p[1] <= latest'[DayAt(p)]
      OBVIOUS
    <3>1. CASE p = p0
      BY <1>a, <2>1, <2>5, <2>6, <3>1
    <3>2. CASE p \in Points
      BY <1>a, <2>1, <2>4, <2>7, <3>2
    <3> QED
      BY <2>1, <3>1, <3>2
  <2>10. \A p, q \in Points' : p[2] = q[2] => p = q
    <3>1. \A p \in Points : p[2] # n
      BY <1>a, <2>7
    <3>2. \A p, q \in Points : p[2] = q[2] => p = q
      BY DEF PointsOK
    <3> QED
      BY <2>1, <2>6, <3>1, <3>2
  <2>11. ASSUME NEW p \in Points', NEW q \in Points', DayAt(p) = DayAt(q), p[2] < q[2], q[2] \in newest'
         PROVE  p[1] < q[1]
    <3>1. CASE q = p0
      <4>1. p \in Points
        BY <1>a, <2>1, <2>6, <2>11, <3>1
      <4>2. n \notin newest
        BY <1>a DEF PointsOK
      <4>3. t > latest[DayOf[t]]
        BY <2>2, <2>6, <2>11, <3>1, <4>2
      <4> QED
        BY <2>3, <2>4, <2>6, <2>7, <2>11, <3>1, <4>1, <4>3
    <3>2. CASE q \in Points
      <4>1. p \in Points
        BY <1>a, <2>1, <2>6, <2>7, <2>11, <3>2
      <4>2. q[2] \in newest
        BY <1>a, <2>2, <2>7, <2>11, <3>2
      <4> QED
        BY <2>11, <3>2, <4>1, <4>2 DEF PointsOK
    <3> QED
      BY <2>1, <3>1, <3>2
  <2>12. \A p, q \in Points' : DayAt(p) = DayAt(q) /\ p[2] < q[2] /\ q[2] \in newest' => p[1] < q[1]
    BY <2>11
  <2> QED
    BY <2>8, <2>9, <2>10, <2>12 DEF PointsOK, DayAt
<1> QED
  BY <1>1, <1>2 DEF Taken


-----------------------------------------------------------------------------
(* Where the sample of the call is.                                        *)

\* A call in progress goes forward only.
LEMMA QuietStage ==
    ASSUME IInv, Quiet
    PROVE  /\ Ensuring' \/ pc' = "log" => Ensuring \/ pc = "log"
           /\ Paging' => Paging
           /\ Aging' \/ Filling' => Aging \/ Filling
           /\ Draining' => Draining \/ call'.op # "add"
<1> DEFINE Goal == /\ Ensuring' \/ pc' = "log" => Ensuring \/ pc = "log"
                   /\ Paging' => Paging
                   /\ Aging' \/ Filling' => Aging \/ Filling
                   /\ Draining' => Draining \/ call'.op # "add"
<1> USE DEF Ensuring, Paging, Aging, Filling, Draining
<1>1. ASSUME \/ Answering \/ pc' \in {"idle", "replay"}
             \/ pc' \in {"drain", "persist"} /\ call'.op # "add"
      PROVE  Goal
  BY <1>1, AnsweringMoves
<1>2. ASSUME ReplaySkip \/ ReplaySeal \/ ReplayReorder PROVE Goal
  <2>1. replay'.recs = replay.recs /\ pc = "replay" /\ replay.recs # <<>>
    BY <1>2 DEF ReplaySkip, ReplaySeal, ReplayReorder, ReplayRecord, Advance, IInv, TypeOK, HandlerOK
  <2>2. \/ pc' = pc \/ (pc' = "flush" /\ flush'.goal \in {"seal", "reorder"})
        \/ pc' = "reset" /\ flush'.goal = "seal"
    BY <1>2 DEF ReplaySkip, ReplaySeal, ReplayReorder, StartSeal, StartFlush
  <2> QED
    BY <2>1, <2>2 DEF Replaying
<1>3. ASSUME EnsureDayOpen PROVE Goal
  BY <1>3 DEF EnsureDayOpen, StartSeal, StartFlush, Replaying
<1>4. ASSUME AddRetry PROVE Goal
  BY <1>4 DEF AddRetry, AddToPage, StartFlush, Replaying
<1>5. ASSUME FlushOwnPage \/ CatalogBeforeReset \/ (\E d \in Day : FlushAged(d) \/ DrainPage(d))
      PROVE  Goal
  BY <1>5 DEF FlushOwnPage, CatalogBeforeReset, FlushAged, DrainPage, StartFlush, Replaying
<1>6. ASSUME DrainDone PROVE Goal
  BY <1>6 DEF DrainDone, NoFlush
<1>7. ASSUME KeepWAL PROVE Goal
  BY <1>7 DEF KeepWAL, AfterReset, Replaying, Return
<1>8. ASSUME DayIsSealed \/ RejectMetric \/ AddRefuse \/ FinishAdd \/ PersistDone \/ FailReturn
      PROVE  Goal
  BY <1>1, <1>8 DEF DayIsSealed, RejectMetric, AddRefuse, FinishAdd, PersistDone, FailReturn, Answering
<1>9. ASSUME ReplayDone \/ FailClose \/ (\E op \in {"flush", "close"} : BeginDrain(op)) PROVE Goal
  BY <1>1, <1>9 DEF ReplayDone, FailClose, BeginDrain, NoCall
<1> QED
  BY <1>2, <1>3, <1>4, <1>5, <1>6, <1>7, <1>8, <1>9 DEF Quiet

\* The call that returned is not in progress any more.
LEMMA FlowAnswering ==
    ASSUME FlowOK, Answering, calls' = calls
    PROVE  FlowOK'
<1>1. call' = NoCall /\ pc' = "idle"
  BY AnsweringMoves
<1>2. call'.op # "add" /\ ~Ensuring' /\ ~Paging' /\ ~Aging' /\ ~Filling' /\ pc' # "log" /\ ~Draining'
  BY <1>1 DEF NoCall, Ensuring, Paging, Aging, Filling, Draining
<1>3. PICK ok \in BOOLEAN : Return(ok)
  BY DEF Answering
<1>4. answered' = answered \/ (call.op = "add" /\ \E b : answered' = answered \cup {b} /\ b.val = call.val)
  BY <1>3 DEF Return
<1>5. \A a, b \in answered' : a.val = b.val => a = b
  BY <1>4 DEF FlowOK
<1> QED
  BY <1>2, <1>5 DEF FlowOK

LEMMA FlowStops ==
    ASSUME FlowOK, Stops, answered' = answered
    PROVE  FlowOK'
<1>1. call' = NoCall /\ pc' \in {"down", "closed"}
  BY StopsMoves
<1>2. call'.op # "add" /\ ~Ensuring' /\ ~Paging' /\ ~Aging' /\ ~Filling' /\ pc' # "log" /\ ~Draining'
  BY <1>1 DEF NoCall, Ensuring, Paging, Aging, Filling, Draining
<1> QED
  BY <1>2 DEF FlowOK

\* Log, pages and files as they were.
LEMMA FlowSame ==
    ASSUME FlowOK, UNCHANGED <<call, answered, calls>>, Logged' \subseteq Logged,
           \A d \in Day : Paged(d)' \cup Filed(d)' = Paged(d) \cup Filed(d),
           Ensuring' \/ pc' = "log" => Ensuring \/ pc = "log",
           Paging' => Paging,
           Aging' \/ Filling' => Aging \/ Filling,
           Draining' => Draining \/ call'.op # "add"
    PROVE  FlowOK'
<1>1. \A p : p \in InDays' <=> p \in InDays
  BY InDaysParts, InDaysNext
<1>2. Pt(call)' = Pt(call)
  BY DEF Pt
<1>3. Aging' \/ Filling' =>
        \A d \in Day : d = DayOf[call'.ts] => Pt(call)' \in Paged(d)' \cup Filed(d)'
  BY <1>2 DEF FlowOK
<1> QED
  BY <1>1, <1>2, <1>3 DEF FlowOK


LEMMA FlowKept ==
    ASSUME IInv, PointsOK, FlowOK, PagesOK, [Next]_vars
    PROVE  FlowOK'
<1> DEFINE NoStage == ~Ensuring' /\ pc' # "log" /\ ~Paging' /\ ~Aging' /\ ~Filling'
           NoDrain == Draining' => Draining \/ call'.op # "add"
<1>a. ASSUME pc' \in {"idle", "replay", "down", "closed"} PROVE NoStage /\ ~Draining'
  BY <1>a DEF Ensuring, Paging, Aging, Filling, Draining
<1>b. ASSUME NoStage, ~Draining', UNCHANGED <<call, answered, calls>> PROVE FlowOK'
  BY <1>b DEF FlowOK
<1>1. CASE UNCHANGED vars
  <2>1. /\ Ensuring' = Ensuring /\ pc' = pc /\ Paging' = Paging /\ Aging' = Aging /\ Filling' = Filling
        /\ Draining' = Draining
    BY <1>1 DEF Ensuring, Paging, Aging, Filling, Draining, Replaying
  <2>2. Logged' = Logged /\ \A d \in Day : Paged(d)' = Paged(d) /\ Filed(d)' = Filed(d)
    BY <1>1, SameLog, SamePage, SameFile
  <2> QED
    BY <1>1, <2>1, <2>2, FlowSame
<1>2. CASE Quiet
  <2>1. UNCHANGED <<wal, page, dataFile, calls>>
    BY <1>2, QuietSame
  <2>2. Logged' = Logged /\ \A d \in Day : Paged(d)' = Paged(d) /\ Filed(d)' = Filed(d)
    BY <2>1, SameLog, SamePage, SameFile
  <2>3. CASE UNCHANGED <<call, answered>>
    BY <1>2, <2>1, <2>2, <2>3, QuietStage, FlowSame
  <2>4. CASE Answering
    BY <2>1, <2>4, FlowAnswering
  <2>5. CASE pc = "idle" /\ call'.op \in {"flush", "close"} /\ UNCHANGED answered
    <3>1. ~Ensuring /\ pc # "log" /\ ~Paging /\ ~Aging /\ ~Filling
      BY <2>5 DEF Ensuring, Paging, Aging, Filling
    <3>2. NoStage /\ NoDrain
      BY <1>2, <3>1, QuietStage
    <3> QED
      BY <2>5, <3>2 DEF FlowOK
  <2> QED
    BY <1>2, <2>3, <2>4, <2>5, QuietMoves DEF IInv, TypeOK
<1>3. CASE Halting
  BY <1>3, HaltingStops, FlowStops
<1>4. CASE OpenDatabase
  <2>1. UNCHANGED <<call, answered, calls>> /\ pc' \in {"idle", "replay"}
    BY <1>4, OpenMoves
  <2> QED
    BY <1>a, <1>b, <2>1
<1>5. ASSUME NEW m \in Metric, NEW t \in Timestamp, BeginAdd(m, t)
      PROVE  FlowOK'
  <2>1. /\ call' = [op |-> "add", metric |-> m, ts |-> t, val |-> calls + 1, fresh |-> ~Known(m)]
        /\ Logged' = Logged /\ InDays' = InDays
        /\ pc' = "ensure" /\ calls' = calls + 1 /\ answered' = answered
    BY <1>5, TakenMoves
  <2>2. \A p \in Points : p[2] # calls + 1
    BY DEF PointsOK, IInv, TypeOK, HistoryOK
  <2>3. \A a \in answered : Pt(a) \in Points /\ Pt(a)[2] = a.val
    BY DEF Points, Answers, Pt
  <2>4. \A a \in answered' : a.val # call'.val
    BY <2>1, <2>2, <2>3
  <2>5. \A p \in Logged' \cup InDays' : p[2] # call'.val
    BY <2>1, <2>2 DEF Points
  <2>6. ~Paging' /\ ~Aging' /\ ~Filling' /\ ~Draining'
    BY <2>1 DEF Paging, Aging, Filling, Draining
  <2>7. \A a, b \in answered' : a.val = b.val => a = b
    BY <2>1 DEF FlowOK
  <2>8. call'.val = calls'
    BY <2>1
  <2> QED
    BY <2>4, <2>5, <2>6, <2>7, <2>8 DEF FlowOK
<1>6. ASSUME NEW useWAL \in BOOLEAN, LogSample(useWAL)
      PROVE  FlowOK'
  <2>1. pc = "log" /\ pc' = "page" /\ UNCHANGED <<page, dataFile, call, answered, calls>>
    BY <1>6 DEF LogSample
  <2>2. ~Ensuring' /\ pc' # "log" /\ ~Aging' /\ ~Filling' /\ ~Draining'
    BY <2>1 DEF Ensuring, Aging, Filling, Draining
  <2>3. \A p : p \in InDays' <=> p \in InDays
    BY <2>1, InDaysParts, InDaysNext, SamePage, SameFile
  <2>4. \A p \in InDays' : p[2] # call'.val
    BY <2>1, <2>3 DEF FlowOK
  <2> QED
    BY <2>1, <2>2, <2>4 DEF FlowOK
<1>7. CASE LogSyncFails
  BY <1>7, FlowAnswering DEF LogSyncFails, Answering
<1>8. CASE ReplayPut
  <2>1. UNCHANGED <<call, answered, calls, pc>> /\ pc = "replay"
    BY <1>8, ReplayPutMoves DEF ReplayPut, ReplayRecord
  <2> QED
    BY <1>a, <1>b, <2>1
<1>9. CASE AddPut
  <2>1. /\ \A e \in Day : Paged(e)' = IF e = CallDay THEN Paged(e) \cup {Pt(call)} ELSE Paged(e)
        /\ UNCHANGED <<call, answered, calls>> /\ pc' = "age"
    BY <1>9, AddPutMoves
  <2>2. ~Ensuring' /\ pc' # "log" /\ ~Paging' /\ ~Draining'
    BY <2>1 DEF Ensuring, Paging, Draining
  <2>3. \A d \in Day : d = DayOf[call'.ts] => Pt(call)' \in Paged(d)' \cup Filed(d)'
    BY <2>1 DEF CallDay, Pt
  <2> QED
    BY <2>1, <2>2, <2>3 DEF FlowOK
<1>10. CASE AppendFrame
  <2>1. /\ \A e \in Day : Filed(e)' = IF e = flush.day THEN Filed(e) \cup Paged(e) ELSE Filed(e)
        /\ \A e \in Day : Paged(e)' = Paged(e)
        /\ UNCHANGED <<wal, flush, replay, call, answered, calls>> /\ pc = "flush" /\ pc' = "sync"
    BY <1>10, AppendFrameMoves
  <2>2. \A d \in Day : Paged(d)' \cup Filed(d)' = Paged(d) \cup Filed(d)
    BY <2>1
  <2>3. /\ Ensuring' => Ensuring
        /\ Paging' => Paging
        /\ Aging' \/ Filling' => Aging \/ Filling
        /\ NoDrain
    BY <2>1 DEF Ensuring, Paging, Aging, Filling, Draining, Replaying
  <2> QED
    BY <2>1, <2>2, <2>3, SameLog, FlowSame
<1>11. CASE SyncFlushed
  <2>1. /\ \A e \in Day : Paged(e)' = IF e = flush.day THEN {} ELSE Paged(e)
        /\ \A e \in Day : Filed(e)' = Filed(e)
        /\ UNCHANGED <<wal, replay, call, answered, calls>>
        /\ pc = "sync" /\ pc' = AfterSync
        /\ flush' = IF AfterSync = "reset" THEN flush ELSE NoFlush
    BY <1>11, SyncFlushedMoves
  <2>2. \A d \in Day : Paged(d)' \cup Filed(d)' = Paged(d) \cup Filed(d)
    BY <2>1 DEF PagesOK
  <2>3. /\ Ensuring' \/ pc' = "log" => Ensuring
        /\ Paging' => Paging
        /\ Aging' \/ Filling' => Aging \/ Filling
        /\ NoDrain
    BY <2>1 DEF Ensuring, Paging, Aging, Filling, Draining, Replaying, AfterSync, NoFlush, IInv, TypeOK, HandlerOK
  <2> QED
    BY <2>1, <2>2, <2>3, SameLog, FlowSame
<1>12. CASE ResetWAL
  <2>1. /\ Logged' = {} /\ pc = "reset"
        /\ \A e \in Day : Filed(e)' = Filed(e) /\ Paged(e)' = Paged(e)
        /\ UNCHANGED replay /\ calls' = calls
        /\ \/ flush.goal = "full" /\ Answering
           \/ /\ UNCHANGED <<call, answered>> /\ flush.goal # "full" /\ flush' = NoFlush
              /\ pc' = IF flush.goal = "seal" THEN (IF Replaying THEN "replay" ELSE "ensure")
                       ELSE "persist"
    BY <1>12, ResetWALMoves
  <2>2. CASE Answering
    BY <2>1, <2>2, FlowAnswering
  <2>3. CASE UNCHANGED <<call, answered>> /\ flush.goal # "full" /\ flush' = NoFlush
             /\ pc' = IF flush.goal = "seal" THEN (IF Replaying THEN "replay" ELSE "ensure") ELSE "persist"
    <3>1. /\ Ensuring' \/ pc' = "log" => Ensuring
          /\ ~Paging' /\ ~Aging' /\ ~Filling' /\ NoDrain
      BY <2>1, <2>3 DEF Ensuring, Paging, Aging, Filling, Draining, NoFlush
    <3> QED
      BY <2>1, <2>3, <3>1, FlowSame
  <2> QED
    BY <2>1, <2>2, <2>3
<1> QED
  BY <1>1, <1>2, <1>3, <1>4, <1>5, <1>6, <1>7, <1>8, <1>9, <1>10, <1>11, <1>12, NextParts


-----------------------------------------------------------------------------
(* Pages and days.                                                         *)

LEMMA PagesKept ==
    ASSUME IInv, PagesOK, [Next]_vars
    PROVE  PagesOK'
<1> DEFINE Open   == \A d \in Day : page[d] # <<>> => d \in openDays
           Dated  == \A d \in Day : \A p \in Paged(d) \cup Filed(d) : DayAt(p) = d
           Synced == pc = "sync" => \A d \in Day : d = flush.day => Paged(d) \subseteq Filed(d)
           Ended  == Down => openDays = {} /\ call = NoCall /\ replay = NoReplay
<1>a. Open /\ Dated /\ Synced /\ Ended
  BY DEF PagesOK
<1>b. Open' /\ Dated' /\ Synced' /\ Ended' => PagesOK'
  BY DEF PagesOK, DayAt
<1>c. ASSUME \A d \in Day : Paged(d)' \cup Filed(d)' \subseteq Paged(d) \cup Filed(d) PROVE Dated'
  BY <1>a, <1>c DEF DayAt
<1>1. CASE UNCHANGED vars
  <2>1. \A d \in Day : Paged(d)' = Paged(d) /\ Filed(d)' = Filed(d)
    BY <1>1, SamePage, SameFile
  <2> QED
    BY <1>1, <1>a, <1>b, <1>c, <2>1 DEF Down
<1>2. CASE Quiet
  <2>1. \A d \in Day : Paged(d)' = Paged(d) /\ Filed(d)' = Filed(d)
    BY <1>2, QuietSame, SamePage, SameFile
  <2>2. page' = page
    BY <1>2, QuietSame
  <2>3. pc' \notin {"down", "closed", "sync"}
    <3>1. ASSUME ReplayDone \/ ReplaySkip \/ ReplaySeal \/ ReplayReorder \/ EnsureDayOpen
                  \/ AddRetry \/ (\E d \in Day : FlushAged(d) \/ DrainPage(d)) \/ FlushOwnPage
                  \/ DrainDone \/ (\E op \in {"flush", "close"} : BeginDrain(op)) \/ FailClose
          PROVE  pc' \notin {"down", "closed", "sync"}
      BY <3>1 DEF ReplayDone, ReplaySkip, ReplaySeal, ReplayReorder, ReplayRecord, EnsureDayOpen, AddRetry,
           FlushAged, DrainPage, FlushOwnPage, DrainDone, BeginDrain, FailClose, StartSeal, StartFlush
    <3>2. ASSUME DayIsSealed \/ RejectMetric \/ AddRefuse \/ FinishAdd \/ PersistDone \/ FailReturn
          PROVE  pc' \notin {"down", "closed", "sync"}
      BY <3>2 DEF DayIsSealed, RejectMetric, AddRefuse, FinishAdd, PersistDone, FailReturn, Return
    <3>3. ASSUME KeepWAL \/ CatalogBeforeReset
          PROVE  pc' \notin {"down", "closed", "sync"}
      BY <3>3 DEF KeepWAL, CatalogBeforeReset, AfterReset, Return
    <3> QED
      BY <1>2, <3>1, <3>2, <3>3 DEF Quiet
  <2>4. \A d \in Day : page[d] # <<>> => d \in openDays'
    <3>1. ASSUME ReplaySeal \/ EnsureDayOpen, NEW d \in Day, page[d] # <<>>
          PROVE  d \in openDays'
      BY <1>a, <3>1 DEF ReplaySeal, EnsureDayOpen, StartSeal, StartFlush
    <3>2. ASSUME ReplayDone \/ ReplaySkip \/ ReplayReorder \/ AddRetry
                  \/ (\E d \in Day : FlushAged(d) \/ DrainPage(d)) \/ FlushOwnPage
                  \/ DrainDone \/ (\E op \in {"flush", "close"} : BeginDrain(op)) \/ FailClose
          PROVE  openDays' = openDays
      BY <3>2 DEF ReplayDone, ReplaySkip, ReplayReorder, AddRetry, AddToPage,
           FlushAged, DrainPage, FlushOwnPage, DrainDone, BeginDrain, FailClose
    <3>3. ASSUME DayIsSealed \/ RejectMetric \/ AddRefuse \/ FinishAdd \/ PersistDone \/ FailReturn
                  \/ KeepWAL \/ CatalogBeforeReset
          PROVE  openDays' = openDays
      BY <3>3 DEF DayIsSealed, RejectMetric, AddRefuse, FinishAdd, PersistDone, FailReturn,
           KeepWAL, CatalogBeforeReset
    <3> QED
      BY <1>2, <1>a, <3>1, <3>2, <3>3 DEF Quiet
  <2> QED
    BY <1>b, <1>c, <2>1, <2>2, <2>3, <2>4 DEF Down
<1>3. CASE Halting
  <2>1. \A d \in Day : Paged(d)' = {} /\ Filed(d)' = Filed(d)
    BY <1>3, HaltingStops, StopsMoves, SameFile
  <2>2. Dated'
    BY <1>c, <2>1
  <2> QED
    BY <1>3, <1>b, <2>2, HaltingStops, StopsMoves
<1>4. CASE OpenDatabase
  <2>1. /\ \A e \in Day : Filed(e)' = Filed(e) /\ Paged(e)' = Paged(e)
        /\ UNCHANGED <<page, openDays>> /\ pc' \in {"idle", "replay"}
    BY <1>4, OpenMoves
  <2> QED
    BY <1>a, <1>b, <1>c, <2>1 DEF Down
<1>5. CASE Taken
  <2>1. /\ \A d \in Day : Paged(d)' = Paged(d) /\ Filed(d)' = Filed(d)
        /\ UNCHANGED <<page, openDays>> /\ pc' = "ensure"
    BY <1>5, TakenMoves DEF Taken
  <2> QED
    BY <1>a, <1>b, <1>c, <2>1 DEF Down
<1>6. CASE (\E useWAL \in BOOLEAN : LogSample(useWAL)) \/ LogSyncFails
  <2>1. UNCHANGED <<page, dataFile, openDays>> /\ pc' \in {"page", "idle"}
    BY <1>6 DEF LogSample, LogSyncFails, Return
  <2>2. \A d \in Day : Paged(d)' = Paged(d) /\ Filed(d)' = Filed(d)
    BY <2>1, SamePage, SameFile
  <2> QED
    BY <1>a, <1>b, <1>c, <2>1, <2>2 DEF Down
<1>7. CASE ReplayPut
  <2>1. /\ \A e \in Day : Paged(e)' = IF e = RecDay THEN Paged(e) \cup {Pt(Rec)} ELSE Paged(e)
        /\ \A e \in Day : IF e = RecDay THEN page'[e] # <<>> ELSE page'[e] = page[e]
        /\ openDays' = openDays \cup {RecDay} /\ DayAt(Pt(Rec)) = RecDay
        /\ pc' = "replay" /\ UNCHANGED dataFile
    BY <1>7, ReplayPutMoves DEF ReplayPut, ReplayRecord
  <2>2. Dated'
    BY <1>a, <2>1, SameFile DEF DayAt
  <2> QED
    BY <1>a, <1>b, <2>1, <2>2 DEF Down
<1>8. CASE AddPut
  <2>1. /\ \A e \in Day : Paged(e)' = IF e = CallDay THEN Paged(e) \cup {Pt(call)} ELSE Paged(e)
        /\ \A e \in Day : IF e = CallDay THEN page'[e] # <<>> ELSE page'[e] = page[e]
        /\ openDays' = openDays \cup {CallDay} /\ DayAt(Pt(call)) = CallDay
        /\ pc' = "age" /\ UNCHANGED dataFile
    BY <1>8, AddPutMoves
  <2>2. Dated'
    BY <1>a, <2>1, SameFile DEF DayAt
  <2> QED
    BY <1>a, <1>b, <2>1, <2>2 DEF Down
<1>9. CASE AppendFrame
  <2>1. /\ \A e \in Day : Filed(e)' = IF e = flush.day THEN Filed(e) \cup Paged(e) ELSE Filed(e)
        /\ \A e \in Day : Paged(e)' = Paged(e)
        /\ UNCHANGED <<page, flush, openDays>> /\ pc' = "sync"
    BY <1>9, AppendFrameMoves
  <2>2. Dated'
    BY <1>a, <2>1 DEF DayAt
  <2>3. Synced'
    BY <2>1
  <2> QED
    BY <1>a, <1>b, <2>1, <2>2, <2>3 DEF Down
<1>10. CASE SyncFlushed
  <2>1. /\ \A e \in Day : Paged(e)' = IF e = flush.day THEN {} ELSE Paged(e)
        /\ \A e \in Day : page'[e] = IF e = flush.day THEN <<>> ELSE page[e]
        /\ \A e \in Day : Filed(e)' = Filed(e)
        /\ openDays' = openDays \ {flush.day} /\ pc' = AfterSync
    BY <1>10, SyncFlushedMoves
  <2>2. pc' \notin {"down", "closed", "sync"}
    BY <2>1 DEF AfterSync, IInv, TypeOK, HandlerOK
  <2> QED
    BY <1>a, <1>b, <1>c, <2>1, <2>2 DEF Down
<1>11. CASE ResetWAL
  <2>1. /\ \A e \in Day : Filed(e)' = Filed(e) /\ Paged(e)' = Paged(e)
        /\ UNCHANGED <<page, openDays>> /\ pc' \in {"idle", "replay", "ensure", "persist"}
    BY <1>11, ResetWALMoves, AnsweringMoves
  <2> QED
    BY <1>a, <1>b, <1>c, <2>1 DEF Down
<1> QED
  BY <1>1, <1>2, <1>3, <1>4, <1>5, <1>6, <1>7, <1>8, <1>9, <1>10, <1>11, NextParts DEF Taken


-----------------------------------------------------------------------------
(* The order of the log, and how replay goes through it.                   *)

LEMMA LogOrderKept ==
    ASSUME IInv, BookOK, [Next]_vars
    PROVE  Increasing(wal)'
<1>a. Increasing(wal)
  BY DEF BookOK, ReplayOK
<1>b. UNCHANGED wal => Increasing(wal)'
  BY <1>a DEF Increasing
<1>c. wal' = <<>> => Increasing(wal)'
  BY DEF Increasing
<1>1. ASSUME NEW useWAL \in BOOLEAN, LogSample(useWAL) \/ LogSyncFails
      PROVE  Increasing(wal)'
  <2>1. wal' = wal \/ \E r \in Record : wal' = Append(wal, r) /\ r.val = call.val /\ Pt(r) = Pt(call)
    BY <1>1, LogMoves
  <2>2. CASE wal' = wal
    BY <1>b, <2>2
  <2>3. ASSUME NEW r \in Record, wal' = Append(wal, r), r.val = call.val
        PROVE  Increasing(wal)'
    <3>1. pc = "log" /\ call.op = "add"
      BY <1>1 DEF LogSample, LogSyncFails, IInv, CallOK
    <3>2. ASSUME NEW i \in DOMAIN wal PROVE wal[i].val < r.val
      <4>1. Pt(wal[i]) \in Logged /\ Pt(wal[i])[2] = wal[i].val
        BY DEF Logged, Pt
      <4>2. wal[i].val \in 1..calls
        BY <4>1 DEF BookOK, PointsOK, Points
      <4>3. wal[i].val # call.val /\ call.val = calls
        BY <3>1, <4>1 DEF BookOK, FlowOK
      <4> QED
        BY <2>3, <4>2, <4>3 DEF IInv, TypeOK, HistoryOK
    <3>3. /\ DOMAIN wal' = (DOMAIN wal) \cup {Len(wal) + 1}
          /\ \A i \in DOMAIN wal : wal'[i] = wal[i] /\ i \in Nat /\ i < Len(wal) + 1
          /\ wal'[Len(wal) + 1] = r
      BY <2>3 DEF IInv, TypeOK, DiskOK
    <3>4. ASSUME NEW i \in DOMAIN wal', NEW j \in DOMAIN wal', i < j
          PROVE  wal'[i].val < wal'[j].val
      <4>1. Len(wal) \in Nat
        BY DEF IInv, TypeOK, DiskOK
      <4>2. i \in DOMAIN wal
        BY <3>3, <3>4, <4>1
      <4> QED
        BY <1>a, <3>2, <3>3, <3>4, <4>2 DEF Increasing
    <3> QED
      BY <3>4 DEF Increasing
  <2> QED
    BY <2>1, <2>2, <2>3
<1>2. OpenDatabase => wal' = wal \/ wal' = <<>>
  BY OpenMoves
<1>4. ReplayPut \/ AddPut \/ AppendFrame \/ SyncFlushed \/ Taken => wal' = wal
  BY ReplayPutMoves, AddPutMoves, AppendFrameMoves, SyncFlushedMoves, TakenMoves DEF Taken
<1>5. ResetWAL => wal' = <<>>
  BY ResetWALMoves
<1>6. UNCHANGED vars \/ Quiet \/ Halting => wal' = wal
  BY QuietSame, HaltingStops
<1> QED
  BY <1>b, <1>c, <1>1, <1>2, <1>4, <1>5, <1>6, NextParts DEF Taken


LEMMA ReplayKept ==
    ASSUME IInv, BookOK, [Next]_vars
    PROVE  ReplayOK'
<1>a. /\ Increasing(wal) /\ Increasing(replay.recs) /\ (pc = "replay" => Replaying)
      /\ (Replaying => AtReplay /\ ReplayPages /\ ReplayDays)
  BY DEF BookOK, ReplayOK
<1>b. replay.recs \in Seq(Record) /\ replay.pos \in Nat \ {0}
  BY DEF IInv, TypeOK, HandlerOK
<1>w. Increasing(wal)'
  BY LogOrderKept
<1>c. ASSUME replay'.recs = replay.recs PROVE Increasing(replay.recs)'
  BY <1>a, <1>c DEF Increasing
<1>d. ASSUME replay' = NoReplay, pc' # "replay" PROVE ReplayOK'
  <2>1. Increasing(replay.recs)' /\ ~Replaying'
    BY <1>d DEF NoReplay, Increasing, Replaying
  <2> QED
    BY <1>d, <1>w, <2>1 DEF ReplayOK
<1>e. ASSUME UNCHANGED replay, ~Replaying, pc' # "replay" PROVE ReplayOK'
  <2>1. ~Replaying'
    BY <1>e DEF Replaying
  <2> QED
    BY <1>c, <1>e, <1>w, <2>1 DEF ReplayOK
<1>f. ASSUME replay'.recs = replay.recs, Replaying, AtReplay', ReplayPages', ReplayDays'
      PROVE  ReplayOK'
  <2>1. Replaying'
    BY <1>f DEF Replaying
  <2> QED
    BY <1>c, <1>f, <1>w, <2>1 DEF ReplayOK
<1>g. ASSUME replay'.recs = replay.recs, replay'.pos = replay.pos, Replaying, page' = page,
             openDays' \subseteq openDays
      PROVE  ReplayPages'
  BY <1>a, <1>g, SamePage DEF ReplayPages, Pt
<1>h. Replaying => pc \notin {"ensure", "log", "page", "age", "drain", "persist", "idle", "down", "closed"}
  BY <1>a DEF AtReplay
<1>1. CASE UNCHANGED vars
  <2>1. CASE Replaying
    <3>1. ReplayPages'
      BY <1>1, <1>g, <2>1
    <3> QED
      BY <1>1, <1>a, <1>f, <2>1, <3>1 DEF AtReplay, ReplayDays
  <2>2. CASE ~Replaying
    BY <1>1, <1>a, <1>e, <2>2
  <2> QED
    BY <2>1, <2>2
<1>2. CASE ReplayDone
  BY <1>2, <1>d DEF ReplayDone
<1>3. CASE ReplaySkip
  <2>1. /\ replay' = [replay EXCEPT !.pos = replay.pos + 1]
        /\ UNCHANGED <<pc, flush, openDays, page, call>> /\ pc = "replay"
    BY <1>3 DEF ReplaySkip, ReplayRecord, Advance
  <2>2. replay'.recs = replay.recs /\ replay'.pos = replay.pos + 1
    BY <2>1 DEF IInv, TypeOK, HandlerOK
  <2>3. \A j \in DOMAIN replay.recs : j < replay.pos => j < replay'.pos
    BY <1>b, <2>2
  <2>4. ReplayPages'
    BY <1>a, <2>1, <2>2, <2>3, SamePage DEF ReplayPages, Pt
  <2> QED
    BY <1>a, <1>f, <2>1, <2>2, <2>4 DEF AtReplay, ReplayDays
<1>4. CASE ReplaySeal
  <2> DEFINE o == OldestOpenDay
  <2>1. UNCHANGED <<replay, page, call>> /\ pc = "replay" /\ RecDay \in Day /\ NeedsSeal(RecDay) /\ StartSeal
    <3>1. Rec \in Record
      BY <1>4, <1>b DEF ReplaySeal, ReplayRecord, Rec
    <3> QED
      BY <1>4, <3>1, DaysAreNumbers DEF ReplaySeal, ReplayRecord, RecDay, Record
  <2>2. o \in openDays
    BY <2>1, SealsAnOpenDay DEF IInv, TypeOK
  <2>3. page[o] # <<>>
    BY <1>a, <2>1, <2>2 DEF ReplayPages
  <2>4. pc' = "flush" /\ flush' = [day |-> o, goal |-> "seal"] /\ UNCHANGED openDays
    BY <2>1, <2>3 DEF StartSeal, StartFlush
  <2>5. ASSUME MaxActiveDays > 1 PROVE \E e \in openDays : e # o
    <3>1. IsFiniteSet(openDays) /\ Cardinality(openDays) >= MaxActiveDays /\ MaxActiveDays \in Nat
      BY <2>1, ConfigAssumption DEF IInv, DaysOK, NeedsSeal
    <3>2. Cardinality(openDays) # 1
      BY <2>5, <3>1
    <3>3. openDays # {o}
      BY <3>2, FS_Singleton
    <3> QED
      BY <2>2, <3>3
  <2> HIDE DEF o
  <2> QED
    BY <1>a, <1>f, <1>g, <2>1, <2>4, <2>5 DEF AtReplay, ReplayDays
<1>5. CASE ReplayReorder
  <2>1. UNCHANGED <<replay, openDays, page, call>> /\ pc = "replay" /\ pc' = "flush" /\ flush'.goal = "reorder"
    BY <1>5 DEF ReplayReorder, ReplayRecord, StartFlush
  <2> QED
    BY <1>a, <1>f, <1>g, <2>1 DEF AtReplay, ReplayDays
<1>6. CASE KeepWAL \/ CatalogBeforeReset \/ ResetWAL
  <2>1. UNCHANGED <<replay, openDays, page>> /\ pc = "reset"
    BY <1>6 DEF KeepWAL, CatalogBeforeReset, ResetWAL, AfterReset, Return
  <2>2. CASE ~Replaying
    <3>1. pc' # "replay"
      BY <1>6, <2>2 DEF KeepWAL, CatalogBeforeReset, ResetWAL, AfterReset, Return
    <3> QED
      BY <1>e, <2>1, <2>2, <3>1
  <2>3. CASE Replaying
    <3>1. flush.goal = "seal"
      BY <1>a, <2>1, <2>3 DEF AtReplay
    <3>2. call' = call /\ (pc' = "replay" \/ (pc' = pc /\ flush' = flush))
      BY <1>6, <2>3, <3>1 DEF KeepWAL, CatalogBeforeReset, ResetWAL, AfterReset
    <3> QED
      BY <1>a, <1>f, <1>g, <2>1, <2>3, <3>1, <3>2 DEF AtReplay, ReplayDays
  <2> QED
    BY <2>2, <2>3
<1>7. ASSUME EnsureDayOpen \/ DayIsSealed \/ RejectMetric \/ AddRetry \/ AddRefuse \/ AddPut
              \/ (\E d \in Day : FlushAged(d) \/ DrainPage(d))
              \/ FlushOwnPage \/ FinishAdd \/ DrainDone \/ PersistDone
              \/ (\E op \in {"flush", "close"} : BeginDrain(op))
              \/ Taken \/ (\E useWAL \in BOOLEAN : LogSample(useWAL)) \/ LogSyncFails
      PROVE  ReplayOK'
  <2>1. ASSUME EnsureDayOpen \/ DayIsSealed \/ RejectMetric \/ AddRetry \/ AddRefuse \/ AddPut
        PROVE  pc \in {"ensure", "log", "page"} /\ pc' # "replay" /\ UNCHANGED replay
    BY <2>1 DEF EnsureDayOpen, DayIsSealed, RejectMetric, AddRetry, AddRefuse, AddPut, AddToPage,
                StartSeal, StartFlush, Return
  <2>2. ASSUME (\E d \in Day : FlushAged(d) \/ DrainPage(d)) \/ FlushOwnPage \/ FinishAdd
                \/ DrainDone \/ PersistDone \/ (\E op \in {"flush", "close"} : BeginDrain(op))
        PROVE  pc \in {"age", "drain", "persist", "idle"} /\ pc' # "replay" /\ UNCHANGED replay
    BY <2>2 DEF FlushAged, DrainPage, FlushOwnPage, FinishAdd, DrainDone, PersistDone, PersistCatalog,
                BeginDrain, StartFlush, Return
  <2>3. ASSUME Taken \/ (\E useWAL \in BOOLEAN : LogSample(useWAL)) \/ LogSyncFails
        PROVE  pc \in {"idle", "log"} /\ pc' # "replay" /\ UNCHANGED replay
    BY <2>3 DEF Taken, BeginAdd, LogSample, LogSyncFails, Return
  <2> QED
    BY <1>7, <1>h, <1>e, <2>1, <2>2, <2>3
<1>8. CASE FailClose \/ FailReturn
  BY <1>8, <1>e DEF FailClose, FailReturn, Return
<1>9. CASE Halting
  BY <1>9, <1>d, HaltingStops, StopsMoves
<1>10. CASE OpenDatabase
  <2>1. Down /\ UNCHANGED <<page, openDays, call>>
    BY <1>10, OpenMoves
  <2>2. openDays = {} /\ call = NoCall /\ replay = NoReplay /\ \A d \in Day : page[d] = <<>>
    BY <2>1 DEF BookOK, PagesOK
  <2>3. CASE pc' = "idle" /\ UNCHANGED replay
    BY <1>d, <2>2, <2>3
  <2>4. CASE /\ pc' = "replay" /\ wal # <<>>
             /\ replay' = [recs |-> wal, pos |-> 1, durable |-> {i \in DOMAIN wal : BelowWatermark(wal[i])}]
    <3>1. replay'.recs = wal
      BY <2>4
    <3>2. Increasing(replay.recs)' /\ Replaying'
      BY <1>a, <2>4, <3>1 DEF Increasing, Replaying
    <3>3. \A d \in Day : Paged(d)' = {}
      BY <2>1, <2>2, SamePage, PagedEmpty
    <3>4. ReplayPages'
      BY <2>1, <2>2, <3>3 DEF ReplayPages
    <3>5. AtReplay' /\ ReplayDays'
      BY <2>1, <2>2, <2>4 DEF AtReplay, ReplayDays, NoCall
    <3> QED
      BY <1>w, <3>2, <3>4, <3>5 DEF ReplayOK
  <2> QED
    BY <1>10, <2>3, <2>4, OpenMoves
<1>11. CASE ReplayPut
  <2>1. /\ RecDay \in Day /\ Pt(Rec) \in Replayed /\ replay.pos \in DOMAIN replay.recs
        /\ \A e \in Day : Paged(e)' = IF e = RecDay THEN Paged(e) \cup {Pt(Rec)} ELSE Paged(e)
        /\ \A e \in Day : IF e = RecDay THEN page'[e] # <<>> ELSE page'[e] = page[e]
        /\ openDays' = openDays \cup {RecDay}
        /\ replay' = [replay EXCEPT !.pos = replay.pos + 1]
        /\ UNCHANGED <<pc, flush, call>>
    BY <1>11, ReplayPutMoves
  <2>2. pc = "replay" /\ Replaying /\ openDays \subseteq Day
    BY <1>11, <1>a DEF ReplayPut, ReplayRecord, IInv, TypeOK, MemoryOK
  <2>3. replay'.recs = replay.recs /\ replay'.pos = replay.pos + 1
    BY <2>1 DEF IInv, TypeOK, HandlerOK
  <2>4. \A j \in DOMAIN replay.recs : j < replay.pos => j < replay'.pos
    BY <1>b, <2>3
  <2>5. replay.pos < replay'.pos
    BY <1>b, <2>3
  <2>6. ASSUME NEW d \in Day, NEW p \in Paged(d)'
        PROVE  \E j \in DOMAIN replay'.recs : j < replay'.pos /\ p = Pt(replay'.recs[j])
    <3>1. CASE p \in Paged(d)
      BY <1>a, <2>2, <2>3, <2>4, <3>1 DEF ReplayPages
    <3>2. CASE p = Pt(Rec)
      BY <2>1, <2>3, <2>5, <3>2 DEF Rec
    <3> QED
      BY <2>1, <2>6, <3>1, <3>2
  <2>7. \A d \in openDays' : page'[d] # <<>>
    BY <1>a, <2>1, <2>2 DEF ReplayPages
  <2>8. ReplayPages'
    BY <2>6, <2>7 DEF ReplayPages, Pt
  <2> QED
    BY <1>a, <1>f, <2>1, <2>2, <2>3, <2>8 DEF AtReplay, ReplayDays
<1>12. CASE AppendFrame
  <2>1. UNCHANGED <<replay, page, openDays, call, flush>> /\ pc = "flush" /\ pc' = "sync"
    BY <1>12, AppendFrameMoves
  <2>2. CASE Replaying
    BY <1>a, <1>f, <1>g, <2>1, <2>2 DEF AtReplay, ReplayDays
  <2> QED
    BY <1>e, <2>1, <2>2
<1>13. CASE SyncFlushed
  <2>1. /\ \A e \in Day : Paged(e)' = IF e = flush.day THEN {} ELSE Paged(e)
        /\ \A e \in Day : page'[e] = IF e = flush.day THEN <<>> ELSE page[e]
        /\ openDays' = openDays \ {flush.day}
        /\ pc = "sync" /\ pc' = AfterSync
        /\ flush' = IF AfterSync = "reset" THEN flush ELSE NoFlush
        /\ UNCHANGED <<call, replay>>
    BY <1>13, SyncFlushedMoves
  <2>2. CASE Replaying
    <3>1. flush.goal \in {"seal", "reorder"}
      BY <1>a, <2>1, <2>2 DEF AtReplay
    <3>2. pc' = IF flush.goal = "seal" THEN "reset" ELSE "replay"
      BY <2>1, <2>2, <3>1 DEF AfterSync
    <3>3. openDays \subseteq Day
      BY DEF IInv, TypeOK, MemoryOK
    <3>4. ReplayPages'
      BY <1>a, <2>1, <2>2, <3>3 DEF ReplayPages, Pt
    <3>5. ReplayDays'
      BY <1>a, <2>1, <2>2, <3>1, <3>2 DEF ReplayDays
    <3>6. AtReplay'
      BY <1>a, <2>1, <2>2, <3>1, <3>2 DEF AtReplay
    <3> QED
      BY <1>f, <2>1, <2>2, <3>4, <3>5, <3>6
  <2>3. CASE ~Replaying
    <3>1. pc' # "replay"
      BY <2>1, <2>3 DEF AfterSync, IInv, TypeOK, HandlerOK
    <3> QED
      BY <1>e, <2>1, <2>3, <3>1
  <2> QED
    BY <2>2, <2>3
<1> QED
  BY <1>1, <1>2, <1>3, <1>4, <1>5, <1>6, <1>7, <1>8, <1>9, <1>10, <1>11, <1>12, <1>13, NextParts
     DEF Quiet, Taken


\* The books are in order: initially, and after every step.
LEMMA InitBook == Init => BookOK
<1> SUFFICES ASSUME Init PROVE BookOK
  OBVIOUS
<1>1. /\ wal = <<>> /\ dataFile = EmptyPages /\ page = EmptyPages /\ openDays = {}
      /\ call = NoCall /\ replay = NoReplay /\ pc = "closed" /\ answered = {} /\ calls = 0
      /\ newest = {} /\ faults = 0
  BY DEF Init
<1>2. Logged = {} /\ Replayed = {} /\ Calling = {} /\ Answers = {} /\ \A d \in Day : Paged(d) = {} /\ Filed(d) = {}
  BY <1>1 DEF Logged, Replayed, Calling, Answers, Paged, Filed, EmptyPages, NoCall, NoReplay
<1>3. Points = {}
  <2>1. InDays = {}
    BY <1>2, InDaysParts
  <2> QED
    BY <1>2, <2>1 DEF Points
<1>4. PointsOK
  BY <1>1, <1>3, ConfigAssumption DEF PointsOK
<1>5. FlowOK
  BY <1>1 DEF FlowOK, NoCall, Ensuring, Paging, Aging, Filling, Draining
<1>6. PagesOK
  BY <1>1, <1>2 DEF PagesOK, EmptyPages
<1>7. ReplayOK
  BY <1>1 DEF ReplayOK, Increasing, NoReplay, Replaying
<1> QED
  BY <1>4, <1>5, <1>6, <1>7 DEF BookOK

LEMMA NextBook ==
    ASSUME IInv, BookOK, [Next]_vars
    PROVE  BookOK'
BY PointsKept, FlowKept, PagesKept, ReplayKept DEF BookOK


-----------------------------------------------------------------------------
(* Replay does not seal, as long as no write fails.                        *)

\* What a step leaves of the watermarks and of the pages above them.
LEMMA PointDay ==
    ASSUME PointsOK, NEW p \in Points
    PROVE  DayAt(p) \in Day /\ p[1] \in Nat /\ p[1] \in Timestamp
BY DaysAreNumbers, ConfigAssumption DEF PointsOK, DayAt

LEMMA LatePersists ==
    ASSUME NEW p, DayAt(p) \in Day, \A d \in Day : Filed(d) \subseteq Filed(d)'
    PROVE  Late(p)' => Late(p)
BY DEF Late, DayAt

LEMMA LateSame ==
    ASSUME NEW p, DayAt(p) \in Day, \A d \in Day : Filed(d) = Filed(d)'
    PROVE  Late(p)' <=> Late(p)
BY DEF Late, DayAt

LEMMA CoveredPersists ==
    ASSUME NEW p, DayAt(p) \in Day, \A d \in Day : Paged(d) \subseteq Paged(d)', Covered(p)
    PROVE  Covered(p)'
BY DEF Covered, DayAt

\* A point that is late is not covered by a page that is in the file already.
LEMMA LateUncovered ==
    ASSUME PointsOK, NEW p \in Points, Late(p), Covered(p)
    PROVE  ~(Paged(DayAt(p)) \subseteq Filed(DayAt(p)))
<1> SUFFICES ASSUME Paged(DayAt(p)) \subseteq Filed(DayAt(p)) PROVE FALSE
  OBVIOUS
<1>1. PICK q \in Paged(DayAt(p)) : p[1] <= q[1]
  BY DEF Covered
<1>2. q[1] < p[1]
  BY <1>1 DEF Late
<1>3. DayAt(p) \in Day
  BY PointDay
<1>4. q \in Points
  BY <1>1, <1>3, InDaysParts DEF Points
<1> QED
  BY <1>1, <1>2, <1>4, PointDay

\* No day is sealed to make way for a record that is put into a page.
LEMMA WaitDaysFit ==
    ASSUME IInv, IsFiniteSet(WaitDays), Cardinality(WaitDays) <= MaxActiveDays, openDays \subseteq WaitDays,
           NEW d \in WaitDays
    PROVE  ~NeedsSeal(d)
<1> SUFFICES ASSUME d \notin openDays PROVE ~(Cardinality(openDays) >= MaxActiveDays)
  BY DEF NeedsSeal
<1>1. openDays \cup {d} \subseteq WaitDays
  OBVIOUS
<1>2. Cardinality(openDays \cup {d}) <= Cardinality(WaitDays)
  BY <1>1, FS_Subset
<1>3. Cardinality(openDays \cup {d}) = Cardinality(openDays) + 1
  BY FS_AddElement DEF IInv, DaysOK
<1>4. Cardinality(openDays) \in Nat /\ Cardinality(WaitDays) \in Nat /\ MaxActiveDays \in Nat
  BY FS_CardinalityType, ConfigAssumption DEF IInv, DaysOK
<1> QED
  BY <1>2, <1>3, <1>4

LEMMA WaitDaysType ==
    ASSUME IInv
    PROVE  /\ WaitDays \subseteq Day
           /\ \A i \in DOMAIN replay.recs \ replay.durable : DayAt(Pt(replay.recs[i])) \in WaitDays
           /\ \A i \in DOMAIN replay.recs : replay.recs[i] \in Record
<1>1. \A i \in DOMAIN replay.recs : replay.recs[i] \in Record
  BY DEF IInv, TypeOK, HandlerOK
<1>2. \A i \in DOMAIN replay.recs : DayOf[replay.recs[i].ts] \in Day
  BY <1>1, DaysAreNumbers DEF Record
<1> QED
  BY <1>1, <1>2 DEF WaitDays, DayAt, Pt

\* The days of the records that a stop leaves to be put into pages.
LEMMA StopLeavesFewDays ==
    ASSUME IInv, BookOK, ~Down, Replaying => NoSeal, ~Replaying => LateCovered
    PROVE  FewDays
<1>1. CASE Replaying
  <2>1. ASSUME NEW p \in Logged, Late(p)
        PROVE  DayAt(p) \in WaitDays
    <3>1. PICK i \in DOMAIN wal : p = Pt(wal[i])
      BY DEF Logged
    <3>2. i \in DOMAIN replay.recs \ replay.durable /\ p = Pt(replay.recs[i])
      BY <1>1, <2>1, <3>1 DEF NoSeal, Replayed
    <3> QED
      BY <3>2, WaitDaysType
  <2> QED
    BY <1>1, <2>1, WaitDaysType DEF NoSeal, FewDays
<1>2. CASE ~Replaying
  <2> DEFINE D == IF Paging THEN openDays \cup {DayOf[call.ts]} ELSE openDays
  <2>1. D \subseteq Day
    BY DaysAreNumbers DEF IInv, TypeOK, MemoryOK, CallOK
  <2>2. IsFiniteSet(D) /\ Cardinality(D) <= MaxActiveDays
    <3>1. IsFiniteSet(openDays) /\ Cardinality(openDays) <= MaxActiveDays
      BY DEF IInv, DaysOK
    <3>2. CASE ~Paging
      BY <3>1, <3>2
    <3>3. CASE Paging
      <4>1. ~NeedsSeal(DayOf[call.ts])
        <5>1. DayOf[call.ts] \in openDays \/ Cardinality(openDays) < MaxActiveDays
          BY <3>3 DEF IInv, DaysOK
        <5> QED
          BY <3>1, <5>1, FS_CardinalityType, ConfigAssumption DEF NeedsSeal
      <4> QED
        BY <3>3, <4>1, OneMoreDayFits DEF IInv
    <3> QED
      BY <3>2, <3>3
  <2>3. ASSUME NEW p \in Logged, Late(p)
        PROVE  DayAt(p) \in D
    <3>1. p \in Points
      BY DEF Points
    <3>2. CASE Covered(p)
      <4>1. DayAt(p) \in Day
        BY <3>1, PointDay DEF BookOK
      <4>2. page[DayAt(p)] # <<>>
        BY <3>2, <4>1, PagedEmpty DEF Covered
      <4> QED
        BY <4>1, <4>2 DEF BookOK, PagesOK
    <3>3. CASE Paging /\ p[2] = call.val
      <4>1. call.op = "add"
        BY <3>3 DEF IInv, CallOK
      <4>2. Pt(call) \in Points /\ Pt(call)[2] = call.val
        BY <4>1 DEF Points, Calling, Pt
      <4>3. p = Pt(call)
        BY <3>1, <3>3, <4>2 DEF BookOK, PointsOK
      <4> QED
        BY <3>3, <4>3 DEF DayAt, Pt
    <3> QED
      BY <1>2, <2>3, <3>2, <3>3 DEF LateCovered
  <2> HIDE DEF D
  <2> QED
    BY <2>1, <2>2, <2>3 DEF FewDays
<1> QED
  BY <1>1, <1>2


LEMMA LateCoveredStays ==
    ASSUME IInv, BookOK, LateCovered, Logged' \subseteq Logged,
           \A d \in Day : Filed(d) \subseteq Filed(d)' /\ Paged(d) \subseteq Paged(d)',
           Paging => Paging' /\ call' = call
    PROVE  LateCovered'
<1>1. ASSUME NEW p \in Logged', Late(p)'
      PROVE  Covered(p)' \/ (Paging' /\ p[2] = call'.val)
  <2>1. p \in Logged /\ DayAt(p) \in Day
    BY PointDay DEF Points, BookOK
  <2>2. Late(p)
    BY <1>1, <2>1, LatePersists
  <2> QED
    BY <2>1, <2>2, CoveredPersists DEF LateCovered
<1> QED
  BY <1>1 DEF LateCovered

LEMMA NoSealStays ==
    ASSUME IInv, BookOK, NoSeal, wal' = wal, Replaying,
           replay'.recs = replay.recs, replay'.durable = replay.durable,
           \A d \in Day : Filed(d) \subseteq Filed(d)' /\ Paged(d) \subseteq Paged(d)',
           openDays' \subseteq WaitDays,
           pc' \in {"flush", "sync", "replay"}, pc' \in {"flush", "sync"} => flush'.goal = "reorder",
           \A i \in DOMAIN replay.recs : \A p \in Replayed :
              p = Pt(replay.recs[i]) /\ i < replay'.pos => i < replay.pos \/ ~Late(p) \/ Covered(p)'
    PROVE  NoSeal'
<1>1. WaitDays' = WaitDays
  BY DEF WaitDays
<1>2. ASSUME NEW i \in DOMAIN replay'.recs, NEW p \in Replayed', p = Pt(replay'.recs[i])
      PROVE  /\ i \in replay'.durable => ~Late(p)'
             /\ i < replay'.pos /\ Late(p)' => Covered(p)'
  <2>1. i \in DOMAIN replay.recs /\ p \in Replayed /\ p = Pt(replay.recs[i])
    BY <1>2, SameRecs
  <2>2. DayAt(p) \in Day
    BY <2>1, PointDay DEF BookOK, Points
  <2>3. Late(p)' => Late(p)
    BY <2>2, LatePersists
  <2>4. Covered(p) => Covered(p)'
    BY <2>2, CoveredPersists
  <2> QED
    BY <2>1, <2>3, <2>4 DEF NoSeal
<1>3. \A i \in DOMAIN replay'.recs : \A p \in Replayed' : p = Pt(replay'.recs[i]) =>
         /\ i \in replay'.durable => ~Late(p)'
         /\ i < replay'.pos /\ Late(p)' => Covered(p)'
  BY <1>2
<1> QED
  BY <1>1, <1>3 DEF NoSeal, Pt

\* The steps that leave log, pages and files alone.
LEMMA SealsQuiet ==
    ASSUME IInv, BookOK, faults' = 0, Quiet, Replaying => NoSeal, ~Replaying /\ ~Down => LateCovered
    PROVE  /\ Replaying' => NoSeal'
           /\ ~Replaying' /\ ~Down' => LateCovered'
<1>a. UNCHANGED <<wal, page, dataFile>> /\ Logged' = Logged
  BY QuietSame, SameLog
<1>b. \A d \in Day : Filed(d)' = Filed(d) /\ Paged(d)' = Paged(d)
  BY <1>a, SamePage, SameFile
<1>c. replay.recs \in Seq(Record) /\ replay.pos \in Nat /\ faults \in Nat
  BY DEF IInv, TypeOK, HandlerOK, HistoryOK
<1>0. ~Down
  <2>1. ASSUME \/ ReplayDone \/ ReplaySkip \/ ReplaySeal \/ ReplayReorder \/ EnsureDayOpen
               \/ DayIsSealed \/ RejectMetric \/ AddRetry \/ AddRefuse
               \/ (\E d \in Day : FlushAged(d) \/ DrainPage(d))
        PROVE  ~Down
    BY <2>1 DEF ReplayDone, ReplaySkip, ReplaySeal, ReplayReorder, ReplayRecord, EnsureDayOpen,
         DayIsSealed, RejectMetric, AddRetry, AddRefuse, AddToPage, FlushAged, DrainPage, Down
  <2>2. ASSUME \/ FlushOwnPage \/ FinishAdd \/ DrainDone \/ PersistDone \/ KeepWAL \/ CatalogBeforeReset
               \/ (\E op \in {"flush", "close"} : BeginDrain(op))
               \/ FailClose \/ FailReturn
        PROVE  ~Down
    BY <2>2 DEF FlushOwnPage, FinishAdd, DrainDone, PersistDone, PersistCatalog, KeepWAL,
         CatalogBeforeReset, BeginDrain, FailClose, FailReturn, WriteFails, Down
  <2> QED
    BY <2>1, <2>2 DEF Quiet
<1>1. CASE Replaying
  <2>1. NoSeal
    BY <1>1
  <2>2. CASE ReplayDone
    <3>1. replay' = NoReplay /\ pc' = "idle" /\ \A i \in DOMAIN replay.recs : i < replay.pos
      BY <1>c, <2>2 DEF ReplayDone
    <3>2. ASSUME NEW p \in Logged', Late(p)' PROVE Covered(p)'
      <4>1. PICK i \in DOMAIN replay.recs : p = Pt(replay.recs[i])
        BY <1>a, <2>1, <3>2 DEF NoSeal, Logged
      <4>2. p \in Replayed /\ DayAt(p) \in Day
        BY <4>1, PointDay DEF BookOK, Points, Replayed
      <4>3. Late(p)
        BY <1>b, <3>2, <4>2, LateSame
      <4>4. Covered(p)
        BY <2>1, <3>1, <4>1, <4>2, <4>3 DEF NoSeal
      <4> QED
        BY <1>b, <4>2, <4>4, CoveredPersists
    <3> QED
      BY <3>1, <3>2 DEF LateCovered, Replaying, NoReplay
  <2>3. CASE ReplaySkip
    <3>1. /\ replay' = [replay EXCEPT !.pos = replay.pos + 1] /\ replay.pos \in replay.durable
          /\ UNCHANGED <<pc, openDays>> /\ pc = "replay"
      BY <2>3 DEF ReplaySkip, ReplayRecord, Advance
    <3>2. replay'.recs = replay.recs /\ replay'.durable = replay.durable /\ replay'.pos = replay.pos + 1
      BY <3>1 DEF IInv, TypeOK, HandlerOK
    <3>3. \A i \in DOMAIN replay.recs : i < replay'.pos => i < replay.pos \/ i = replay.pos
      BY <1>c, <3>2
    <3>4. NoSeal'
      BY <1>1, <1>a, <1>b, <2>1, <3>1, <3>2, <3>3, NoSealStays DEF NoSeal
    <3> QED
      BY <1>1, <3>2, <3>4 DEF Replaying
  <2>4. ReplaySeal => FALSE
    <3>1. SUFFICES ASSUME ReplaySeal PROVE FALSE
      OBVIOUS
    <3>2. replay.pos \in DOMAIN replay.recs \ replay.durable /\ NeedsSeal(RecDay)
      BY <1>c, <3>1 DEF ReplaySeal, ReplayRecord, IInv, TypeOK, HandlerOK
    <3>3. RecDay \in WaitDays
      BY <3>2 DEF RecDay, Rec, WaitDays
    <3> QED
      BY <2>1, <3>2, <3>3, WaitDaysFit DEF NoSeal
  <2>5. CASE ReplayReorder
    <3>1. /\ UNCHANGED <<replay, openDays>> /\ pc' = "flush" /\ flush'.goal = "reorder"
      BY <2>5 DEF ReplayReorder, StartFlush
    <3>2. NoSeal'
      BY <1>1, <1>a, <1>b, <2>1, <3>1, NoSealStays DEF NoSeal
    <3> QED
      BY <1>1, <3>1, <3>2 DEF Replaying
  <2>6. pc \in {"replay", "flush", "sync"}
    BY <1>1, <2>1 DEF BookOK, ReplayOK, AtReplay, NoSeal
  <2>7. \/ ReplayDone \/ ReplaySkip \/ ReplaySeal \/ ReplayReorder
    BY <1>1, <2>6 DEF Quiet, EnsureDayOpen, DayIsSealed, RejectMetric, AddRetry, AddRefuse, AddToPage,
         FlushAged, DrainPage, FlushOwnPage, FinishAdd, DrainDone, PersistDone, PersistCatalog, KeepWAL,
         CatalogBeforeReset, BeginDrain, FailClose, FailReturn
  <2> QED
    BY <2>2, <2>3, <2>4, <2>5, <2>7
<1>2. CASE ~Replaying
  <2>1. LateCovered
    BY <1>0, <1>2
  <2>2. ~Replaying'
    BY <1>2, QuietMoves DEF Replaying, NoReplay, IInv, TypeOK
  <2>3. ASSUME Paging => Paging' /\ call' = call PROVE LateCovered'
    BY <1>a, <1>b, <2>1, <2>3, LateCoveredStays
  <2>4. CASE AddRetry
    BY <1>2, <2>2, <2>3, <2>4 DEF AddRetry, AddToPage, StartFlush, Paging
  <2>5. CASE AddRefuse
    <3>1. /\ OutOfOrder(CallDay, call.ts) /\ pc = "page"
      BY <2>5 DEF AddRefuse, AddToPage
    <3>2. call.op = "add" /\ CallDay \in Day /\ page \in [Day -> Seq(Sample)] /\ call.ts \in Timestamp
      BY <3>1, DaysAreNumbers DEF IInv, CallOK, Paging, CallDay, TypeOK, MemoryOK
    <3>3. Pt(Last(page[CallDay])) \in Paged(CallDay) /\ call.ts < Pt(Last(page[CallDay]))[1]
      BY <3>1, <3>2, PagedNonempty DEF OutOfOrder, Pt
    <3>4. ASSUME NEW p \in Logged', Late(p)' PROVE Covered(p)'
      <4>1. p \in Logged /\ p \in Points /\ DayAt(p) \in Day
        BY <1>a, <3>4, PointDay DEF Points, BookOK
      <4>2. Late(p)
        BY <1>b, <3>4, <4>1, LateSame
      <4>3. CASE Covered(p)
        BY <1>b, <4>1, <4>3, CoveredPersists
      <4>4. CASE p[2] = call.val
        <5>1. Pt(call) \in Points /\ Pt(call)[2] = call.val
          BY <3>2 DEF Points, Calling, Pt
        <5>2. p = Pt(call)
          BY <4>1, <4>4, <5>1 DEF BookOK, PointsOK
        <5>3. DayAt(p) = CallDay /\ p[1] = call.ts
          BY <5>2 DEF DayAt, Pt, CallDay
        <5>4. Pt(Last(page[CallDay])) \in Points
          BY <3>2, <3>3, InDaysParts DEF Points
        <5>5. call.ts <= Pt(Last(page[CallDay]))[1]
          <6>1. Pt(Last(page[CallDay]))[1] \in Nat
            BY <5>4, PointDay DEF BookOK
          <6>2. call.ts \in Nat
            BY <3>2, ConfigAssumption
          <6> QED
            BY <3>3, <6>1, <6>2
        <5>6. Covered(p)
          BY <3>3, <5>3, <5>5 DEF Covered
        <5> QED
          BY <1>b, <4>1, <5>6, CoveredPersists
      <4> QED
        BY <2>1, <4>1, <4>2, <4>3, <4>4 DEF LateCovered
    <3> QED
      BY <2>2, <3>4 DEF LateCovered
  <2>6. ~FailClose /\ ~FailReturn
    <3>1. WriteFails => faults' = faults + 1
      BY DEF WriteFails
    <3>2. ~(faults' = faults + 1)
      BY <1>c
    <3> QED
      BY <3>1, <3>2 DEF FailClose, FailReturn
  <2>7. ASSUME ~AddRetry, ~AddRefuse PROVE ~Paging
    <3>1. ASSUME \/ ReplayDone \/ ReplaySkip \/ ReplaySeal \/ ReplayReorder \/ EnsureDayOpen
                 \/ DayIsSealed \/ RejectMetric
                 \/ (\E d \in Day : FlushAged(d) \/ DrainPage(d))
          PROVE  ~Paging
      BY <3>1 DEF ReplayDone, ReplaySkip, ReplaySeal, ReplayReorder, ReplayRecord, EnsureDayOpen,
           DayIsSealed, RejectMetric, FlushAged, DrainPage, Paging
    <3>2. ASSUME \/ FlushOwnPage \/ FinishAdd \/ DrainDone \/ PersistDone \/ KeepWAL \/ CatalogBeforeReset
                 \/ (\E op \in {"flush", "close"} : BeginDrain(op))
          PROVE  ~Paging
      BY <3>2 DEF FlushOwnPage, FinishAdd, DrainDone, PersistDone, PersistCatalog, KeepWAL,
           CatalogBeforeReset, BeginDrain, Paging
    <3> QED
      BY <2>6, <2>7, <3>1, <3>2 DEF Quiet
  <2> QED
    BY <2>2, <2>3, <2>4, <2>5, <2>7
<1> QED
  BY <1>1, <1>2


\* A process that stops while no write failed leaves few days to replay.
LEMMA SealsHalting ==
    ASSUME IInv, BookOK, Halting, Replaying => NoSeal, ~Replaying /\ ~Down => LateCovered
    PROVE  ~Replaying' /\ Down' /\ FewDays'
<1>1. Stops /\ UNCHANGED <<wal, dataFile>>
  BY HaltingStops
<1>2. replay' = NoReplay /\ pc' \in {"down", "closed"}
  BY <1>1, StopsMoves
<1>3. ~Down
  BY DEF Halting, Crash, ReplayFails, PersistStop, PersistCatalog, FailStop, WriteFails, Down
<1>4. FewDays
  BY <1>3, StopLeavesFewDays
<1>5. PICK D \in SUBSET Day : /\ IsFiniteSet(D) /\ Cardinality(D) <= MaxActiveDays
                              /\ \A p \in Logged : Late(p) => DayAt(p) \in D
  BY <1>4 DEF FewDays
<1>6. ASSUME NEW p \in Logged', Late(p)' PROVE DayAt(p) \in D
  <2>1. p \in Logged /\ DayAt(p) \in Day
    BY <1>1, SameLog, PointDay DEF Points, BookOK
  <2> QED
    BY <1>1, <1>5, <1>6, <2>1, SameFile, LateSame
<1>7. FewDays'
  BY <1>5, <1>6 DEF FewDays, DayAt
<1> QED
  BY <1>2, <1>7 DEF Replaying, NoReplay, Down

\* Replay starts with the records above the watermarks.
LEMMA SealsOpen ==
    ASSUME IInv, BookOK, OpenDatabase, WALProtected, FewDays
    PROVE  ~Down' /\ (Replaying' => NoSeal') /\ (~Replaying' => LateCovered')
<1>0. /\ Down /\ UNCHANGED <<dataFile, page, openDays, flush>>
      /\ \A e \in Day : Filed(e)' = Filed(e) /\ Paged(e)' = Paged(e)
  BY OpenMoves
<1>1. openDays = {} /\ replay = NoReplay
  BY <1>0 DEF BookOK, PagesOK
<1>2. CASE pc' = "idle" /\ Logged' = {} /\ UNCHANGED replay
  BY <1>1, <1>2 DEF Down, Replaying, NoReplay, LateCovered
<1>3. CASE /\ pc' = "replay" /\ wal # <<>> /\ UNCHANGED wal /\ Logged' = Logged /\ Replayed' = Logged
           /\ replay' = [recs |-> wal, pos |-> 1, durable |-> {i \in DOMAIN wal : BelowWatermark(wal[i])}]
  <2>1. /\ replay'.recs = wal /\ replay'.pos = 1
        /\ replay'.durable = {i \in DOMAIN wal : BelowWatermark(wal[i])}
    BY <1>3
  <2>2. wal \in Seq(Record) /\ dataFile \in [Day -> Seq(Seq(Sample))]
    BY DEF IInv, TypeOK, DiskOK
  <2>3. ASSUME NEW i \in DOMAIN wal
        PROVE  i \in replay'.durable <=> ~Late(Pt(wal[i]))
    <3>1. wal[i] \in Record
      BY <2>2
    <3> QED
      BY <2>1, <2>2, <3>1, Watermark
  <2>4. ASSUME NEW i \in DOMAIN wal
        PROVE  Pt(wal[i]) \in Logged /\ DayAt(Pt(wal[i])) \in Day /\ DayAt(Pt(wal[i])) = DayOf[wal[i].ts]
    <3>1. Pt(wal[i]) \in Logged
      BY DEF Logged
    <3> QED
      BY <3>1, PointDay DEF BookOK, Points, DayAt, Pt
  <2>5. PICK D \in SUBSET Day : /\ IsFiniteSet(D) /\ Cardinality(D) <= MaxActiveDays
                                /\ \A p \in Logged : Late(p) => DayAt(p) \in D
    BY DEF FewDays
  <2>6. WaitDays' \subseteq D
    <3>1. WaitDays' = {DayOf[wal[i].ts] : i \in DOMAIN wal \ replay'.durable}
      BY <2>1 DEF WaitDays
    <3> QED
      BY <2>3, <2>4, <2>5, <3>1
  <2>7. IsFiniteSet(WaitDays') /\ Cardinality(WaitDays') <= MaxActiveDays
    <3>1. IsFiniteSet(WaitDays') /\ Cardinality(WaitDays') <= Cardinality(D)
      BY <2>5, <2>6, FS_Subset
    <3> QED
      BY <2>5, <3>1, FS_CardinalityType, ConfigAssumption
  <2>8. ASSUME NEW i \in DOMAIN replay'.recs, NEW p \in Replayed', p = Pt(replay'.recs[i])
        PROVE  /\ i \in replay'.durable => ~Late(p)'
               /\ i < replay'.pos /\ Late(p)' => Covered(p)'
    <3>1. i \in DOMAIN wal /\ p = Pt(wal[i]) /\ ~(i < replay'.pos)
      BY <2>1, <2>2, <2>8
    <3>2. Late(p)' <=> Late(p)
      BY <1>0, <2>4, <3>1, LateSame
    <3> QED
      BY <2>3, <3>1, <3>2
  <2>9. \A i \in DOMAIN replay'.recs : \A p \in Replayed' : p = Pt(replay'.recs[i]) =>
           /\ i \in replay'.durable => ~Late(p)'
           /\ i < replay'.pos /\ Late(p)' => Covered(p)'
    BY <2>8
  <2>10. NoSeal'
    BY <1>0, <1>1, <1>3, <2>1, <2>7, <2>9 DEF NoSeal, Pt
  <2> QED
    BY <1>3, <2>1, <2>10 DEF Down, Replaying
<1> QED
  BY <1>2, <1>3, OpenMoves

LEMMA SealsKept ==
    ASSUME IInv, BookOK, SealsOK, [Next]_vars
    PROVE  SealsOK'
<1> SUFFICES ASSUME WALProtected', faults' = 0
             PROVE  /\ Replaying' => NoSeal'
                    /\ ~Replaying' /\ ~Down' => LateCovered'
                    /\ Down' => FewDays'
  BY DEF SealsOK
<1>a. config' = config /\ (faults' = faults \/ faults' = faults + 1)
  BY PointsMove, TakenMoves DEF Taken
<1>b. faults = 0 /\ faults' # faults + 1 /\ WALProtected
  BY <1>a DEF IInv, TypeOK, HistoryOK, WALProtected
<1>c. /\ Replaying => NoSeal
      /\ ~Replaying /\ ~Down => LateCovered
      /\ Down => FewDays /\ ~Replaying
  BY <1>b DEF SealsOK, BookOK, PagesOK, NoReplay, Replaying
<1>d. ASSUME UNCHANGED replay, ~Replaying, ~Down', LateCovered'
      PROVE  /\ Replaying' => NoSeal'
             /\ ~Replaying' /\ ~Down' => LateCovered'
             /\ Down' => FewDays'
  BY <1>d DEF Replaying
<1>e. ASSUME Replaying', NoSeal', ~Down'
      PROVE  /\ Replaying' => NoSeal'
             /\ ~Replaying' /\ ~Down' => LateCovered'
             /\ Down' => FewDays'
  BY <1>e
<1>1. CASE UNCHANGED vars
  <2>1. /\ Logged' = Logged /\ \A d \in Day : Paged(d)' = Paged(d) /\ Filed(d)' = Filed(d)
    BY <1>1, SameLog, SamePage, SameFile
  <2>2. CASE Down
    <3>1. PICK D \in SUBSET Day : /\ IsFiniteSet(D) /\ Cardinality(D) <= MaxActiveDays
                                  /\ \A p \in Logged : Late(p) => DayAt(p) \in D
      BY <1>c, <2>2 DEF FewDays
    <3>2. ASSUME NEW p \in Logged', Late(p)' PROVE DayAt(p) \in D
      <4>1. p \in Logged /\ DayAt(p) \in Day
        BY <2>1, PointDay DEF Points, BookOK
      <4> QED
        BY <2>1, <3>1, <3>2, <4>1, LateSame
    <3>3. FewDays'
      BY <3>1, <3>2 DEF FewDays, DayAt
    <3>4. Down' /\ ~Replaying'
      BY <1>1, <1>c, <2>2 DEF Down, Replaying
    <3> QED
      BY <3>3, <3>4
  <2>3. CASE ~Down /\ Replaying
    <3>1. pc \in {"flush", "sync", "replay"} /\ (pc \in {"flush", "sync"} => flush.goal = "reorder")
      BY <1>c, <2>3 DEF NoSeal, BookOK, ReplayOK, AtReplay
    <3>2. NoSeal'
      BY <1>1, <1>c, <2>1, <2>3, <3>1, NoSealStays DEF NoSeal
    <3> QED
      BY <1>1, <1>e, <2>3, <3>2 DEF Down, Replaying
  <2>4. CASE ~Down /\ ~Replaying
    <3>1. Paging' = Paging
      BY <1>1 DEF Paging, Replaying
    <3>2. LateCovered'
      BY <1>1, <1>c, <2>1, <2>4, <3>1, LateCoveredStays
    <3> QED
      BY <1>1, <1>d, <2>4, <3>2 DEF Down
  <2> QED
    BY <2>2, <2>3, <2>4
<1>2. CASE Quiet
  <2>1. ~Down'
    <3>1. ASSUME ReplayDone \/ ReplaySkip \/ ReplaySeal \/ ReplayReorder \/ EnsureDayOpen
                  \/ AddRetry \/ (\E d \in Day : FlushAged(d) \/ DrainPage(d)) \/ FlushOwnPage
                  \/ DrainDone \/ (\E op \in {"flush", "close"} : BeginDrain(op)) \/ FailClose
          PROVE  ~Down'
      BY <3>1 DEF ReplayDone, ReplaySkip, ReplaySeal, ReplayReorder, ReplayRecord, EnsureDayOpen, AddRetry,
           FlushAged, DrainPage, FlushOwnPage, DrainDone, BeginDrain, FailClose, StartSeal, StartFlush, Down
    <3>2. ASSUME DayIsSealed \/ RejectMetric \/ AddRefuse \/ FinishAdd \/ PersistDone \/ FailReturn
          PROVE  ~Down'
      BY <3>2 DEF DayIsSealed, RejectMetric, AddRefuse, FinishAdd, PersistDone, FailReturn, Return, Down
    <3>3. ASSUME KeepWAL \/ CatalogBeforeReset
          PROVE  ~Down'
      BY <3>3 DEF KeepWAL, CatalogBeforeReset, AfterReset, Return, Down
    <3> QED
      BY <1>2, <3>1, <3>2, <3>3 DEF Quiet
  <2> QED
    BY <1>2, <1>c, <2>1, SealsQuiet
<1>3. CASE Halting
  BY <1>3, <1>c, SealsHalting
<1>4. CASE OpenDatabase
  <2>1. Down
    BY <1>4, OpenMoves
  <2> QED
    BY <1>4, <1>b, <1>c, <2>1, SealsOpen
<1>5. CASE Taken
  <2>1. /\ Logged' = Logged /\ \A d \in Day : Paged(d)' = Paged(d) /\ Filed(d)' = Filed(d)
        /\ pc = "idle" /\ pc' = "ensure" /\ UNCHANGED replay
    BY <1>5, TakenMoves DEF Taken
  <2>2. ~Paging /\ ~Down /\ ~Down' /\ ~Replaying
    BY <2>1 DEF Paging, Down, BookOK, ReplayOK, AtReplay
  <2>3. LateCovered'
    BY <1>c, <2>1, <2>2, LateCoveredStays
  <2> QED
    BY <1>d, <2>1, <2>2, <2>3
<1>6. ASSUME NEW useWAL \in BOOLEAN, LogSample(useWAL)
      PROVE  /\ Replaying' => NoSeal'
             /\ ~Replaying' /\ ~Down' => LateCovered'
             /\ Down' => FewDays'
  <2>1. /\ Logged' \subseteq Logged \cup Calling /\ call.op = "add" /\ Calling = {Pt(call)}
        /\ UNCHANGED <<page, dataFile, replay>>
    BY <1>6, LogMoves
  <2>2. pc = "log" /\ pc' = "page" /\ call' = call
    BY <1>6 DEF LogSample
  <2>3. ~Paging /\ ~Down /\ ~Down' /\ ~Replaying /\ Paging'
    BY <2>2 DEF Paging, Down, BookOK, ReplayOK, AtReplay
  <2>4. \A d \in Day : Paged(d)' = Paged(d) /\ Filed(d)' = Filed(d)
    BY <2>1, SamePage, SameFile
  <2>5. ASSUME NEW p \in Logged', Late(p)'
        PROVE  Covered(p)' \/ (Paging' /\ p[2] = call'.val)
    <3>1. CASE p \in Logged
      <4>1. DayAt(p) \in Day
        BY <3>1, PointDay DEF Points, BookOK
      <4>2. Late(p)
        BY <2>4, <2>5, <4>1, LateSame
      <4>3. Covered(p)
        BY <1>c, <2>3, <3>1, <4>2 DEF LateCovered
      <4> QED
        BY <2>4, <4>1, <4>3, CoveredPersists
    <3>2. CASE p = Pt(call)
      BY <2>2, <2>3, <3>2 DEF Pt
    <3> QED
      BY <2>1, <2>5, <3>1, <3>2
  <2>6. LateCovered'
    BY <2>5 DEF LateCovered
  <2> QED
    BY <1>d, <2>1, <2>3, <2>6
<1>7. ~LogSyncFails
  BY <1>b DEF LogSyncFails
<1>8. CASE ReplayPut
  <2>1. /\ RecDay \in Day /\ DayAt(Pt(Rec)) = RecDay /\ Rec \in Record
        /\ replay.pos \in DOMAIN replay.recs
        /\ \A e \in Day : Paged(e)' = IF e = RecDay THEN Paged(e) \cup {Pt(Rec)} ELSE Paged(e)
        /\ openDays' = openDays \cup {RecDay}
        /\ replay' = [replay EXCEPT !.pos = replay.pos + 1]
        /\ UNCHANGED <<wal, dataFile, pc>>
    BY <1>8, ReplayPutMoves
  <2>2. pc = "replay" /\ Replaying /\ replay.pos \notin replay.durable
    BY <1>8 DEF ReplayPut, ReplayRecord, BookOK, ReplayOK
  <2>3. replay'.recs = replay.recs /\ replay'.durable = replay.durable /\ replay'.pos = replay.pos + 1
    BY <2>1 DEF IInv, TypeOK, HandlerOK
  <2>4. RecDay \in WaitDays
    BY <2>1, <2>2 DEF WaitDays, RecDay, Rec
  <2>5. ASSUME NEW i \in DOMAIN replay.recs, NEW p \in Replayed, p = Pt(replay.recs[i]), i < replay'.pos
        PROVE  i < replay.pos \/ ~Late(p) \/ Covered(p)'
    <3>1. i < replay.pos \/ i = replay.pos
      BY <2>3, <2>5 DEF IInv, TypeOK, HandlerOK
    <3>2. CASE i = replay.pos
      <4>1. p = Pt(Rec) /\ DayAt(p) = RecDay /\ p \in Paged(DayAt(p))'
        BY <2>1, <2>5, <3>2 DEF Rec
      <4>2. p[1] <= p[1]
        BY PointDay DEF Points, BookOK
      <4> QED
        BY <4>1, <4>2 DEF Covered, DayAt
    <3> QED
      BY <3>1, <3>2
  <2>6. \A d \in Day : Filed(d)' = Filed(d)
    BY <2>1, SameFile
  <2>7. openDays' \subseteq WaitDays
    BY <1>c, <2>1, <2>2, <2>4 DEF NoSeal
  <2>8. NoSeal'
    BY <1>c, <2>1, <2>2, <2>3, <2>5, <2>6, <2>7, NoSealStays
  <2> QED
    BY <1>e, <2>1, <2>2, <2>3, <2>8 DEF Replaying, Down
<1>9. CASE AddPut
  <2>1. /\ CallDay \in Day /\ call.op = "add" /\ Calling = {Pt(call)} /\ DayAt(Pt(call)) = CallDay
        /\ \A e \in Day : Paged(e)' = IF e = CallDay THEN Paged(e) \cup {Pt(call)} ELSE Paged(e)
        /\ pc = "page" /\ pc' = "age" /\ UNCHANGED <<wal, dataFile, replay>>
    BY <1>9, AddPutMoves
  <2>2. ~Down /\ ~Down' /\ ~Replaying /\ Logged' = Logged /\ \A d \in Day : Filed(d)' = Filed(d)
    BY <2>1, SameLog, SameFile DEF Down, BookOK, ReplayOK, AtReplay
  <2>3. ASSUME NEW p \in Logged', Late(p)' PROVE Covered(p)'
    <3>1. p \in Logged /\ p \in Points /\ DayAt(p) \in Day /\ p[1] \in Nat
      BY <2>2, PointDay DEF Points, BookOK
    <3>2. Late(p)
      BY <2>2, <2>3, <3>1, LateSame
    <3>3. CASE Covered(p)
      BY <2>1, <3>1, <3>3, CoveredPersists
    <3>4. CASE p[2] = call.val
      <4>1. Pt(call) \in Points /\ Pt(call)[2] = call.val
        BY <2>1 DEF Points, Pt
      <4>2. p = Pt(call)
        BY <3>1, <3>4, <4>1 DEF BookOK, PointsOK
      <4>3. p \in Paged(DayAt(p))' /\ p[1] <= p[1]
        BY <2>1, <3>1, <4>2
      <4> QED
        BY <4>3 DEF Covered, DayAt
    <3> QED
      BY <1>c, <2>2, <3>1, <3>2, <3>3, <3>4 DEF LateCovered
  <2>4. LateCovered'
    BY <2>3 DEF LateCovered
  <2> QED
    BY <1>d, <2>1, <2>2, <2>4
<1>10. CASE AppendFrame
  <2>1. /\ \A e \in Day : Filed(e)' = IF e = flush.day THEN Filed(e) \cup Paged(e) ELSE Filed(e)
        /\ \A e \in Day : Paged(e)' = Paged(e)
        /\ UNCHANGED <<wal, openDays, call, flush, replay>> /\ pc = "flush" /\ pc' = "sync"
    BY <1>10, AppendFrameMoves
  <2>2. ~Down /\ ~Down' /\ \A d \in Day : Filed(d) \subseteq Filed(d)'
    BY <2>1 DEF Down
  <2>3. CASE Replaying
    <3>1. flush.goal = "reorder"
      BY <1>c, <2>1, <2>3 DEF NoSeal, BookOK, ReplayOK, AtReplay
    <3>2. NoSeal'
      BY <1>c, <2>1, <2>2, <2>3, <3>1, NoSealStays DEF NoSeal
    <3> QED
      BY <1>e, <2>1, <2>2, <2>3, <3>2 DEF Replaying
  <2>4. CASE ~Replaying
    <3>1. Paging => Paging'
      BY <2>1, <2>4 DEF Paging, Replaying
    <3>2. LateCovered'
      BY <1>c, <2>1, <2>2, <2>4, <3>1, SameLog, LateCoveredStays
    <3> QED
      BY <1>d, <2>1, <2>2, <2>4, <3>2
  <2> QED
    BY <2>3, <2>4
<1>11. CASE SyncFlushed
  <2>1. /\ \A e \in Day : Paged(e)' = IF e = flush.day THEN {} ELSE Paged(e)
        /\ \A e \in Day : Filed(e)' = Filed(e)
        /\ openDays' = openDays \ {flush.day}
        /\ pc = "sync" /\ pc' = AfterSync
        /\ UNCHANGED <<wal, call, replay>>
    BY <1>11, SyncFlushedMoves
  <2>2. ~Down /\ ~Down' /\ Logged' = Logged /\ Replayed' = Replayed
    BY <2>1, SameLog, SameRecs DEF Down, AfterSync, IInv, TypeOK, HandlerOK
  <2>3. \A d \in Day : d = flush.day => Paged(d) \subseteq Filed(d)
    BY <2>1 DEF BookOK, PagesOK
  <2>4. ASSUME NEW p \in Points, Late(p)', Covered(p) PROVE Late(p) /\ Covered(p)'
    <3>1. DayAt(p) \in Day
      BY PointDay DEF BookOK
    <3>2. Late(p)
      BY <2>1, <2>4, <3>1, LateSame
    <3>3. DayAt(p) # flush.day
      BY <2>3, <2>4, <3>1, <3>2, LateUncovered DEF BookOK
    <3>4. Paged(DayAt(p))' = Paged(DayAt(p))
      BY <2>1, <3>1, <3>3
    <3> QED
      BY <2>4, <3>2, <3>4 DEF Covered, DayAt
  <2>5. CASE Replaying
    <3>1. flush.goal = "reorder"
      BY <1>c, <2>1, <2>5 DEF NoSeal, BookOK, ReplayOK, AtReplay
    <3>2. pc' = "replay" /\ Replaying'
      BY <2>1, <2>5, <3>1 DEF AfterSync, Replaying
    <3>3. ASSUME NEW i \in DOMAIN replay'.recs, NEW p \in Replayed', p = Pt(replay'.recs[i])
          PROVE  /\ i \in replay'.durable => ~Late(p)'
                 /\ i < replay'.pos /\ Late(p)' => Covered(p)'
      <4>1. i \in DOMAIN replay.recs /\ p \in Replayed /\ p = Pt(replay.recs[i]) /\ p \in Points
        BY <2>1, <2>2, <3>3 DEF Points
      <4>2. DayAt(p) \in Day
        BY <4>1, PointDay DEF BookOK
      <4>3. Late(p)' => Late(p)
        BY <2>1, <4>2, LateSame
      <4> QED
        BY <1>c, <2>1, <2>4, <2>5, <4>1, <4>3 DEF NoSeal
    <3>4. \A i \in DOMAIN replay'.recs : \A p \in Replayed' : p = Pt(replay'.recs[i]) =>
             /\ i \in replay'.durable => ~Late(p)'
             /\ i < replay'.pos /\ Late(p)' => Covered(p)'
      BY <3>3
    <3>5. WaitDays' = WaitDays
      BY <2>1 DEF WaitDays
    <3>6. NoSeal'
      BY <1>c, <2>1, <2>5, <3>2, <3>4, <3>5 DEF NoSeal, Pt
    <3> QED
      BY <1>e, <2>2, <3>2, <3>6
  <2>6. CASE ~Replaying
    <3>1. Paging => Paging'
      BY <2>1, <2>6 DEF Paging, Replaying, AfterSync
    <3>2. ASSUME NEW p \in Logged', Late(p)'
          PROVE  Covered(p)' \/ (Paging' /\ p[2] = call'.val)
      <4>1. p \in Logged /\ p \in Points /\ DayAt(p) \in Day
        BY <2>2, PointDay DEF Points, BookOK
      <4>2. Late(p)
        BY <2>1, <3>2, <4>1, LateSame
      <4> QED
        BY <1>c, <2>1, <2>2, <2>4, <2>6, <3>1, <3>2, <4>1, <4>2 DEF LateCovered
    <3>3. LateCovered'
      BY <3>2 DEF LateCovered
    <3> QED
      BY <1>d, <2>1, <2>2, <2>6, <3>3
  <2> QED
    BY <2>5, <2>6
<1>12. CASE ResetWAL
  <2>1. Logged' = {} /\ pc = "reset" /\ UNCHANGED replay /\ pc' \in {"idle", "replay", "ensure", "persist"}
    BY <1>12, ResetWALMoves, AnsweringMoves
  <2>2. ~Replaying /\ ~Down' /\ LateCovered'
    BY <1>c, <2>1 DEF NoSeal, Down, LateCovered
  <2> QED
    BY <1>d, <2>1, <2>2
<1> QED
  BY <1>1, <1>2, <1>3, <1>4, <1>5, <1>6, <1>7, <1>8, <1>9, <1>10, <1>11, <1>12, NextParts DEF Taken


LEMMA InitSeals == Init => SealsOK
<1> SUFFICES ASSUME Init PROVE SealsOK
  OBVIOUS
<1>1. pc = "closed" /\ wal = <<>> /\ replay = NoReplay
  BY DEF Init
<1>2. Down /\ ~Replaying /\ Logged = {}
  BY <1>1 DEF Down, Replaying, NoReplay, Logged
<1>3. IsFiniteSet({}) /\ Cardinality({}) <= MaxActiveDays /\ {} \in SUBSET Day
  BY FS_EmptySet, ConfigAssumption
<1>4. FewDays
  BY <1>2, <1>3 DEF FewDays
<1> QED
  BY <1>2, <1>4 DEF SealsOK

-----------------------------------------------------------------------------
(* What the log owes is kept.                                              *)

\* The log is not reset while its records are replayed.
LEMMA NoResetInReplay ==
    ASSUME IInv, BookOK, SealsOK, WALProtected, ReplayKeepsWAL, ResetWAL
    PROVE  ~Replaying
<1> SUFFICES ASSUME Replaying PROVE FALSE
  OBVIOUS
<1>1. pc = "reset" /\ \A d \in Day : page[d] = <<>>
  BY ResetWALMoves
<1>2. faults # 0
  BY <1>1 DEF SealsOK, NoSeal
<1>3. MaxActiveDays > 1
  BY <1>2 DEF ReplayKeepsWAL
<1>4. openDays # {} /\ \A d \in openDays : page[d] # <<>>
  BY <1>1, <1>3 DEF BookOK, ReplayOK, ReplayDays, ReplayPages
<1> QED
  BY <1>1, <1>4 DEF IInv, TypeOK, MemoryOK

\* Answers are only added, and their verdict stands.
LEMMA AnswersGrow ==
    ASSUME IInv, [Next]_vars
    PROVE  /\ answered \subseteq answered' /\ Failed \subseteq Failed'
           /\ newest' = newest \/ newest' = newest \cup {calls + 1}
           /\ config' = config /\ (ReplayKeepsWAL' => ReplayKeepsWAL)
<1>1. Answering => answered \subseteq answered'
  BY DEF Answering, Return
<1>2. answered \subseteq answered'
  <2>1. UNCHANGED vars \/ Quiet \/ Halting => answered \subseteq answered'
    BY <1>1, QuietMoves, HaltingStops DEF IInv, TypeOK
  <2>2. OpenDatabase \/ Taken \/ ReplayPut \/ AddPut \/ AppendFrame \/ SyncFlushed => answered' = answered
    BY OpenMoves, TakenMoves, ReplayPutMoves, AddPutMoves, AppendFrameMoves, SyncFlushedMoves DEF Taken
  <2>3. ResetWAL => answered \subseteq answered'
    BY <1>1, ResetWALMoves
  <2>4. (\E useWAL \in BOOLEAN : LogSample(useWAL)) \/ LogSyncFails => answered \subseteq answered'
    BY <1>1 DEF LogSample, LogSyncFails, Answering
  <2> QED
    BY <2>1, <2>2, <2>3, <2>4, NextParts DEF Taken
<1>3. Failed \subseteq Failed'
  BY <1>2 DEF Failed, Acked
<1>4. newest' = newest \/ newest' = newest \cup {calls + 1}
  BY PointsMove, TakenMoves DEF Taken
<1>5. config' = config /\ (faults' = faults \/ faults' = faults + 1)
  BY PointsMove, TakenMoves DEF Taken
<1>6. ReplayKeepsWAL' => ReplayKeepsWAL
  BY <1>5 DEF ReplayKeepsWAL, IInv, TypeOK, HistoryOK
<1> QED
  BY <1>2, <1>3, <1>4, <1>5, <1>6

\* A call that returns an error owes nothing.
LEMMA RefusalFails ==
    ASSUME Return(FALSE), call.op = "add"
    PROVE  call.val \in Failed'
<1> DEFINE a == [metric |-> call.metric, ts |-> call.ts, val |-> call.val, ok |-> FALSE]
<1>1. a \in answered' /\ ~a.ok /\ a.val = call.val
  BY DEF Return
<1> HIDE DEF a
<1> QED
  BY <1>1 DEF Failed, Acked

\* Only LogSample makes the log owe more.
LEMMA OwedMoves ==
    ASSUME IInv, BookOK, [Next]_vars
    PROVE  \/ Owed' \subseteq Owed
           \/ /\ \E useWAL \in BOOLEAN : LogSample(useWAL)
              /\ Owed' \subseteq Owed \cup {Pt(call)}
<1>1. Failed \subseteq Failed' /\ (newest' = newest \/ newest' = newest \cup {calls + 1})
  BY AnswersGrow
<1>2. ASSUME NEW p \in Owed', p \in Logged PROVE p \in Owed
  <2>1. p[2] \in 1..calls
    BY <1>2 DEF Points, BookOK, PointsOK
  <2>2. p[2] # calls + 1
    BY <2>1 DEF IInv, TypeOK, HistoryOK
  <2>3. p[2] \in newest' /\ p[2] \notin Failed'
    BY <1>2 DEF Owed
  <2> QED
    BY <1>1, <1>2, <2>2, <2>3 DEF Owed
<1>3. ASSUME Logged' \subseteq Logged PROVE Owed' \subseteq Owed
  BY <1>2, <1>3 DEF Owed
<1>4. CASE LogSyncFails
  <2>1. Logged' \subseteq Logged \cup Calling /\ call.op = "add" /\ Calling = {Pt(call)}
    BY <1>4, LogMoves
  <2>2. call.val \in Failed'
    BY <1>4, <2>1, RefusalFails DEF LogSyncFails
  <2>3. \A p \in Owed' : p # Pt(call)
    BY <2>2 DEF Owed, Pt
  <2> QED
    BY <1>2, <2>1, <2>3 DEF Owed
<1>5. ASSUME NEW useWAL \in BOOLEAN, LogSample(useWAL)
      PROVE  Owed' \subseteq Owed \cup {Pt(call)}
  <2>1. Logged' \subseteq Logged \cup {Pt(call)}
    BY <1>5, LogMoves
  <2> QED
    BY <1>2, <2>1 DEF Owed
<1>6. \/ Logged' \subseteq Logged \/ LogSyncFails \/ (\E useWAL \in BOOLEAN : LogSample(useWAL))
  <2>1. UNCHANGED vars \/ Quiet \/ Halting => Logged' \subseteq Logged
    BY QuietSame, HaltingStops, SameLog
  <2>2. OpenDatabase \/ Taken \/ ResetWAL => Logged' \subseteq Logged
    BY OpenMoves, TakenMoves, ResetWALMoves DEF Taken
  <2>3. ReplayPut \/ AddPut \/ AppendFrame \/ SyncFlushed => Logged' \subseteq Logged
    BY ReplayPutMoves, AddPutMoves, AppendFrameMoves, SyncFlushedMoves, SameLog
  <2> QED
    BY <2>1, <2>2, <2>3, NextParts DEF Taken
<1> QED
  BY <1>3, <1>4, <1>5, <1>6


\* Only AppendFrame changes a file.
LEMMA FilesMove ==
    ASSUME IInv, [Next]_vars
    PROVE  AppendFrame \/ (dataFile' = dataFile /\ \A d \in Day : Filed(d)' = Filed(d))
<1>1. UNCHANGED vars \/ Quiet \/ Halting => dataFile' = dataFile
  BY QuietSame, HaltingStops
<1>2. OpenDatabase \/ Taken \/ ResetWAL \/ ReplayPut \/ AddPut \/ SyncFlushed => dataFile' = dataFile
  BY OpenMoves, TakenMoves, ResetWALMoves, ReplayPutMoves, AddPutMoves, SyncFlushedMoves DEF Taken
<1>3. (\E useWAL \in BOOLEAN : LogSample(useWAL)) \/ LogSyncFails => dataFile' = dataFile
  BY LogMoves
<1> QED
  BY <1>1, <1>2, <1>3, SameFile, NextParts DEF Taken

\* The page that is written holds nothing newer than a sample the log owes.
LEMMA OwedIsNewest ==
    ASSUME IInv, BookOK, OwedHeld, ~Down, NEW p \in Owed, NEW q \in Paged(DayAt(p)),
           p \notin Paged(DayAt(p)) \cup Filed(DayAt(p))
    PROVE  q[1] < p[1]
<1>1. p \in Points /\ DayAt(p) \in Day /\ p[2] \in newest
  BY PointDay DEF Owed, Points, BookOK
<1>2. q \in InDays /\ q \in Points
  BY <1>1, InDaysParts DEF Points
<1>3. DayAt(q) = DayAt(p) /\ q[2] \in 1..calls /\ p[2] \in 1..calls
  BY <1>1, <1>2 DEF BookOK, PagesOK, PointsOK
<1>4. q[2] < p[2]
  <2>1. CASE Pending(p)
    <3>1. PICK i \in DOMAIN replay.recs \ replay.durable : replay.pos <= i /\ p = Pt(replay.recs[i])
      BY <2>1 DEF Pending
    <3>2. Replaying
      BY <3>1 DEF Replaying
    <3>3. PICK j \in DOMAIN replay.recs : j < replay.pos /\ q = Pt(replay.recs[j])
      BY <1>1, <3>2 DEF BookOK, ReplayOK, ReplayPages
    <3>4. i \in Nat /\ j \in Nat /\ replay.pos \in Nat
      BY <3>1, <3>3 DEF IInv, TypeOK, HandlerOK
    <3>5. j < i
      BY <3>1, <3>3, <3>4
    <3>6. replay.recs[j].val < replay.recs[i].val
      BY <3>1, <3>3, <3>5 DEF BookOK, ReplayOK, Increasing
    <3> QED
      BY <3>1, <3>3, <3>6 DEF Pt
  <2>2. CASE Paging /\ p[2] = call.val
    <3>1. q[2] # call.val /\ call.val = calls
      BY <1>2, <2>2 DEF BookOK, FlowOK, IInv, CallOK
    <3> QED
      BY <1>3, <2>2, <3>1 DEF IInv, TypeOK, HistoryOK
  <2> QED
    BY <2>1, <2>2 DEF OwedHeld
<1> QED
  BY <1>1, <1>2, <1>3, <1>4 DEF BookOK, PointsOK

\* A sample the log owes does not fall below the watermark before it is in the file.
LEMMA AboveKept ==
    ASSUME IInv, BookOK, [Next]_vars, OwedAbove, OwedHeld
    PROVE  OwedAbove'
<1>1. CASE AppendFrame
  <2>1. /\ \A e \in Day : Filed(e)' = IF e = flush.day THEN Filed(e) \cup Paged(e) ELSE Filed(e)
        /\ pc = "flush"
    BY <1>1, AppendFrameMoves
  <2>2. Owed' \subseteq Owed /\ ~Down
    BY <1>1, <2>1, OwedMoves DEF LogSample, Down
  <2>3. ASSUME NEW p \in Owed' PROVE p \in Filed(DayAt(p))' \/ Late(p)'
    <3>1. p \in Owed /\ DayAt(p) \in Day
      BY <2>2, PointDay DEF Owed, Points, BookOK
    <3>2. CASE p \in Filed(DayAt(p))
      BY <2>1, <3>1, <3>2
    <3>3. CASE Late(p) /\ DayAt(p) # flush.day
      BY <2>1, <3>1, <3>3 DEF Late, DayAt
    <3>4. CASE p \in Paged(DayAt(p)) /\ DayAt(p) = flush.day
      BY <2>1, <3>1, <3>4
    <3>5. CASE Late(p) /\ DayAt(p) = flush.day /\ p \notin Paged(DayAt(p)) \cup Filed(DayAt(p))
      <4>1. \A q \in Paged(DayAt(p)) : q[1] < p[1]
        BY <2>2, <3>1, <3>5, OwedIsNewest
      <4>2. \A q \in Filed(DayAt(p)) : q[1] < p[1]
        BY <3>5 DEF Late
      <4>3. \A q \in Filed(DayAt(p))' : q[1] < p[1]
        BY <2>1, <3>1, <3>5, <4>1, <4>2
      <4> QED
        BY <4>3 DEF Late, DayAt
    <3> QED
      BY <3>1, <3>2, <3>3, <3>4, <3>5 DEF OwedAbove
  <2> QED
    BY <2>3 DEF OwedAbove, DayAt
<1>2. ASSUME NEW useWAL \in BOOLEAN, LogSample(useWAL)
      PROVE  OwedAbove'
  <2>1. /\ call.op = "add" /\ Calling = {Pt(call)} /\ UNCHANGED dataFile
    BY <1>2, LogMoves
  <2>2. pc = "log" /\ newest' = newest
    BY <1>2 DEF LogSample
  <2>3. \A d \in Day : Filed(d)' = Filed(d)
    BY <2>1, SameFile
  <2>4. ASSUME NEW p \in Owed' PROVE p \in Filed(DayAt(p))' \/ Late(p)'
    <3>1. CASE p \in Owed
      <4>1. DayAt(p) \in Day
        BY <3>1, PointDay DEF Owed, Points, BookOK
      <4> QED
        BY <2>3, <3>1, <4>1, LateSame DEF OwedAbove
    <3>2. CASE p = Pt(call)
      <4>1. p \in Points /\ DayAt(p) \in Day /\ p[2] = calls /\ p[2] = call.val
        <5>1. p \in Points /\ p[2] = call.val
          BY <2>1, <3>2 DEF Points, Pt
        <5> QED
          BY <2>1, <5>1, PointDay DEF BookOK, FlowOK
      <4>2. p[2] \in newest
        BY <2>2, <2>4 DEF Owed
      <4>3. ASSUME NEW q \in Filed(DayAt(p)) PROVE q[1] < p[1]
        <5>1. q \in InDays /\ q \in Points
          BY <4>1, InDaysParts DEF Points
        <5>2. q[2] # call.val /\ q[2] \in 1..calls /\ DayAt(q) = DayAt(p)
          BY <2>2, <4>1, <5>1 DEF BookOK, FlowOK, PointsOK, PagesOK
        <5>3. q[2] < p[2]
          BY <4>1, <5>2 DEF IInv, TypeOK, HistoryOK
        <5> QED
          BY <4>1, <4>2, <5>1, <5>2, <5>3 DEF BookOK, PointsOK
      <4>4. Late(p)
        BY <4>3 DEF Late
      <4> QED
        BY <2>3, <4>1, <4>4, LateSame
    <3>3. p \in Owed \/ p = Pt(call)
      BY <1>2, <2>4, OwedMoves
    <3> QED
      BY <3>1, <3>2, <3>3
  <2> QED
    BY <2>4 DEF OwedAbove, DayAt
<1>3. ASSUME ~AppendFrame, Owed' \subseteq Owed PROVE OwedAbove'
  <2>1. \A d \in Day : Filed(d)' = Filed(d)
    BY <1>3, FilesMove
  <2>2. ASSUME NEW p \in Owed' PROVE p \in Filed(DayAt(p))' \/ Late(p)'
    <3>1. p \in Owed /\ DayAt(p) \in Day
      BY <1>3, PointDay DEF Owed, Points, BookOK
    <3> QED
      BY <2>1, <3>1, LateSame DEF OwedAbove
  <2> QED
    BY <2>2 DEF OwedAbove, DayAt
<1> QED
  BY <1>1, <1>2, <1>3, OwedMoves


\* What is in a page or a file stays in one, unless the process stops.
LEMMA BoxesKeep ==
    ASSUME IInv, BookOK, [Next]_vars
    PROVE  Halting \/ \A d \in Day : Paged(d) \cup Filed(d) \subseteq Paged(d)' \cup Filed(d)'
<1>1. UNCHANGED vars \/ Quiet => \A d \in Day : Paged(d)' = Paged(d) /\ Filed(d)' = Filed(d)
  BY QuietSame, SamePage, SameFile
<1>3. OpenDatabase \/ Taken \/ ResetWAL => \A d \in Day : Paged(d)' = Paged(d) /\ Filed(d)' = Filed(d)
  BY OpenMoves, TakenMoves, ResetWALMoves DEF Taken
<1>4. (\E useWAL \in BOOLEAN : LogSample(useWAL)) \/ LogSyncFails =>
        \A d \in Day : Paged(d)' = Paged(d) /\ Filed(d)' = Filed(d)
  BY LogMoves, SamePage, SameFile
<1>5. ReplayPut \/ AddPut \/ AppendFrame =>
        \A d \in Day : Paged(d) \subseteq Paged(d)' /\ Filed(d) \subseteq Filed(d)'
  BY ReplayPutMoves, AddPutMoves, AppendFrameMoves, SameFile
<1>6. CASE SyncFlushed
  <2>1. /\ \A e \in Day : Paged(e)' = IF e = flush.day THEN {} ELSE Paged(e)
        /\ \A e \in Day : Filed(e)' = Filed(e) /\ pc = "sync"
    BY <1>6, SyncFlushedMoves
  <2> QED
    BY <2>1 DEF BookOK, PagesOK
<1> QED
  BY <1>1, <1>3, <1>4, <1>5, <1>6, NextParts DEF Taken

\* The steps of a running process that move on in the replay.
LEMMA QuietReplay == Quiet => ReplayDone \/ ReplaySkip \/ UNCHANGED replay
<1> SUFFICES ASSUME Quiet PROVE ReplayDone \/ ReplaySkip \/ UNCHANGED replay
  OBVIOUS
<1>1. ASSUME ReplaySeal \/ ReplayReorder \/ EnsureDayOpen \/ AddRetry
              \/ (\E d \in Day : FlushAged(d) \/ DrainPage(d)) \/ FlushOwnPage
              \/ DrainDone \/ (\E op \in {"flush", "close"} : BeginDrain(op)) \/ FailClose
      PROVE  UNCHANGED replay
  BY <1>1 DEF ReplaySeal, ReplayReorder, EnsureDayOpen, AddRetry, AddToPage,
       FlushAged, DrainPage, FlushOwnPage, DrainDone, BeginDrain, FailClose
<1>2. ASSUME DayIsSealed \/ RejectMetric \/ AddRefuse \/ FinishAdd \/ PersistDone \/ FailReturn
      PROVE  UNCHANGED replay
  BY <1>2 DEF DayIsSealed, RejectMetric, AddRefuse, FinishAdd, PersistDone, FailReturn, Return
<1>3. ASSUME KeepWAL \/ CatalogBeforeReset
      PROVE  UNCHANGED replay
  BY <1>3 DEF KeepWAL, CatalogBeforeReset, AfterReset, Return
<1> QED
  BY <1>1, <1>2, <1>3 DEF Quiet

\* A record that waits for replay is put into a page, or goes on waiting.
LEMMA PendingMoves ==
    ASSUME IInv, BookOK, [Next]_vars, ~Down, NEW p, Pending(p)
    PROVE  Down' \/ Pending(p)' \/ (DayAt(p) \in Day /\ p \in Paged(DayAt(p))')
<1>1. PICK i \in DOMAIN replay.recs \ replay.durable : replay.pos <= i /\ p = Pt(replay.recs[i])
  BY DEF Pending
<1>2. /\ Replaying /\ replay.pos \in Nat /\ i \in 1..Len(replay.recs) /\ Len(replay.recs) \in Nat
      /\ i \in Nat
  BY <1>1 DEF IInv, TypeOK, HandlerOK, Replaying
<1>3. pc \in {"replay", "flush", "sync", "reset"}
  BY <1>2 DEF BookOK, ReplayOK, AtReplay
<1>4. UNCHANGED replay => Pending(p)'
  BY <1>1 DEF Pending, Pt
<1>5. ~ReplayDone
  <2>1. ReplayDone => replay.pos > Len(replay.recs)
    BY DEF ReplayDone
  <2> QED
    BY <1>1, <1>2, <2>1
<1>6. CASE ReplaySkip
  <2>1. replay.pos \in replay.durable /\ replay' = [replay EXCEPT !.pos = replay.pos + 1]
    BY <1>6 DEF ReplaySkip, Advance
  <2>2. replay'.recs = replay.recs /\ replay'.durable = replay.durable /\ replay'.pos = replay.pos + 1
    BY <2>1 DEF IInv, TypeOK, HandlerOK
  <2>3. i # replay.pos
    BY <1>1, <2>1
  <2>4. replay'.pos <= i
    BY <1>1, <1>2, <2>2, <2>3
  <2> QED
    BY <1>1, <2>2, <2>4 DEF Pending, Pt
<1>7. CASE ReplayPut
  <2>1. /\ \A e \in Day : Paged(e)' = IF e = RecDay THEN Paged(e) \cup {Pt(Rec)} ELSE Paged(e)
        /\ RecDay \in Day /\ DayAt(Pt(Rec)) = RecDay
        /\ replay' = [replay EXCEPT !.pos = replay.pos + 1]
    BY <1>7, ReplayPutMoves
  <2>2. replay'.recs = replay.recs /\ replay'.durable = replay.durable /\ replay'.pos = replay.pos + 1
    BY <2>1 DEF IInv, TypeOK, HandlerOK
  <2>3. CASE i = replay.pos
    <3>1. p = Pt(Rec)
      BY <1>1, <2>3 DEF Rec
    <3> QED
      BY <2>1, <3>1
  <2>4. CASE i # replay.pos
    <3>1. replay'.pos <= i
      BY <1>1, <1>2, <2>2, <2>4
    <3> QED
      BY <1>1, <2>2, <3>1 DEF Pending, Pt
  <2> QED
    BY <2>3, <2>4
<1>8. Halting => Down'
  BY HaltingStops, StopsMoves DEF Down
<1>9. ~OpenDatabase
  BY OpenMoves
<1>10. UNCHANGED vars \/ AppendFrame \/ SyncFlushed \/ ResetWAL \/ AddPut \/ Taken => UNCHANGED replay
  BY AppendFrameMoves, SyncFlushedMoves, ResetWALMoves, AddPutMoves, TakenMoves DEF Taken
<1>11. (\E useWAL \in BOOLEAN : LogSample(useWAL)) \/ LogSyncFails => UNCHANGED replay
  BY LogMoves
<1>12. Quiet => ReplayDone \/ ReplaySkip \/ UNCHANGED replay
  BY QuietReplay
<1> QED
  BY <1>4, <1>5, <1>6, <1>7, <1>8, <1>9, <1>10, <1>11, <1>12, NextParts DEF Taken

\* A sample that is being put into its page is put there, refused, or still at it.
LEMMA PagingMoves ==
    ASSUME IInv, BookOK, [Next]_vars, Paging
    PROVE  \/ Paging' /\ call' = call
           \/ AddPut \/ Return(FALSE) \/ Halting
<1>1. /\ call.op = "add"
      /\ pc = "page" \/ (pc \in {"flush", "sync"} /\ flush.goal = "reorder" /\ ~Replaying)
  BY DEF Paging, IInv, CallOK
<1>2. UNCHANGED vars => Paging' /\ call' = call
  BY DEF Paging, Replaying
<1>3. AddRetry => Paging' /\ call' = call
  BY DEF AddRetry, StartFlush, Paging, AddToPage, Replaying, BookOK, ReplayOK, AtReplay
<1>4. AddRefuse => Return(FALSE)
  BY DEF AddRefuse
<1>5. AppendFrame => Paging' /\ call' = call
  BY <1>1, AppendFrameMoves DEF Paging, Replaying
<1>6. SyncFlushed => Paging' /\ call' = call
  BY <1>1, SyncFlushedMoves DEF Paging, Replaying, AfterSync
<1>7. FailReturn => Return(FALSE)
  BY DEF FailReturn
<1>8. ~FailClose
  BY <1>1 DEF FailClose
<1>9. ~(OpenDatabase \/ Taken \/ (\E useWAL \in BOOLEAN : LogSample(useWAL)) \/ LogSyncFails \/ ReplayPut \/ ResetWAL)
  BY <1>1 DEF OpenDatabase, Down, Taken, BeginAdd, LogSample, LogSyncFails, ReplayPut, ReplayRecord, ResetWAL
<1>10. Quiet => AddRetry \/ AddRefuse \/ FailReturn \/ FailClose
  <2>1. ~(ReplayDone \/ ReplaySkip \/ ReplaySeal \/ ReplayReorder \/ EnsureDayOpen \/ DayIsSealed \/ RejectMetric)
    BY <1>1 DEF ReplayDone, ReplaySkip, ReplaySeal, ReplayReorder, ReplayRecord, EnsureDayOpen,
         DayIsSealed, RejectMetric
  <2>2. ~(\E d \in Day : FlushAged(d) \/ DrainPage(d))
    BY <1>1 DEF FlushAged, DrainPage
  <2>3. ~(FlushOwnPage \/ FinishAdd \/ DrainDone \/ PersistDone \/ KeepWAL \/ CatalogBeforeReset)
    BY <1>1 DEF FlushOwnPage, FinishAdd, DrainDone, PersistDone, PersistCatalog, KeepWAL, CatalogBeforeReset
  <2>4. ~(\E op \in {"flush", "close"} : BeginDrain(op))
    BY <1>1 DEF BeginDrain
  <2> QED
    BY <2>1, <2>2, <2>3, <2>4 DEF Quiet
<1> QED
  BY <1>2, <1>3, <1>4, <1>5, <1>6, <1>7, <1>8, <1>9, <1>10, NextParts DEF Taken

\* What the log owes is in a page or a file, or on its way.
LEMMA HeldKept ==
    ASSUME IInv, BookOK, [Next]_vars, OwedAbove, OwedHeld
    PROVE  OwedHeld'
<1> DEFINE Held(p) == \/ Down' \/ Pending(p)' \/ (Paging' /\ p[2] = call'.val)
                      \/ p \in Paged(DayAt(p))' \cup Filed(DayAt(p))'
<1>a. ASSUME \A p \in Owed' : Held(p) PROVE OwedHeld'
  BY <1>a DEF OwedHeld, DayAt
<1>1. ASSUME NEW p \in Owed, p \in Owed', ~Down
      PROVE  Held(p)
  <2>1. DayAt(p) \in Day /\ p \in Points
    BY <1>1, PointDay DEF Owed, Points, BookOK
  <2>2. CASE Pending(p)
    BY <1>1, <2>2, PendingMoves
  <2>3. CASE Paging /\ p[2] = call.val
    <3>1. call.op = "add" /\ CallDay \in Day
      BY <2>3, DaysAreNumbers DEF IInv, CallOK, CallDay
    <3>2. CASE Paging' /\ call' = call
      BY <2>3, <3>2
    <3>3. CASE AddPut
      <4>1. \A e \in Day : Paged(e)' = IF e = CallDay THEN Paged(e) \cup {Pt(call)} ELSE Paged(e)
        BY <3>3, AddPutMoves
      <4>2. Pt(call) \in Points /\ Pt(call)[2] = call.val /\ DayAt(Pt(call)) = CallDay
        BY <3>1 DEF Points, Calling, Pt, DayAt, CallDay
      <4>3. p = Pt(call)
        BY <2>1, <2>3, <4>2 DEF BookOK, PointsOK
      <4> QED
        BY <3>1, <4>1, <4>2, <4>3
    <3>4. CASE Return(FALSE)
      <4>1. call.val \in Failed'
        BY <3>1, <3>4, RefusalFails
      <4> QED
        BY <1>1, <2>3, <4>1 DEF Owed
    <3>5. CASE Halting
      BY <3>5, HaltingStops, StopsMoves DEF Down
    <3> QED
      BY <2>3, <3>2, <3>3, <3>4, <3>5, PagingMoves
  <2>4. CASE p \in Paged(DayAt(p)) \cup Filed(DayAt(p))
    BY <2>1, <2>4, BoxesKeep, HaltingStops, StopsMoves DEF Down
  <2> QED
    BY <1>1, <2>2, <2>3, <2>4 DEF OwedHeld
<1>2. ASSUME NEW useWAL \in BOOLEAN, LogSample(useWAL)
      PROVE  OwedHeld'
  <2>1. pc = "log" /\ pc' = "page" /\ call' = call
    BY <1>2 DEF LogSample
  <2>2. ~Down /\ Paging'
    BY <2>1 DEF Down, Paging
  <2>3. \A p \in Owed' : p \in Owed \/ p = Pt(call)
    BY <1>2, OwedMoves
  <2>4. ASSUME NEW p \in Owed', p = Pt(call) PROVE Held(p)
    BY <2>1, <2>2, <2>4 DEF Pt
  <2> QED
    BY <1>1, <1>a, <2>2, <2>3, <2>4
<1>3. ASSUME ~Down, Owed' \subseteq Owed PROVE OwedHeld'
  BY <1>1, <1>3, <1>a
<1>4. ASSUME Down, Owed' \subseteq Owed PROVE OwedHeld'
  <2>1. ASSUME OpenDatabase, NEW p \in Owed' PROVE Held(p)
    <3>1. p \in Owed /\ DayAt(p) \in Day /\ p \in Logged
      BY <1>4, <2>1, PointDay DEF Owed, Points, BookOK
    <3>2. p \in Logged'
      BY <2>1 DEF Owed
    <3>3. /\ replay' = [recs |-> wal, pos |-> 1, durable |-> {i \in DOMAIN wal : BelowWatermark(wal[i])}]
          /\ \A e \in Day : Filed(e)' = Filed(e)
      BY <2>1, <3>2, OpenMoves
    <3>4. PICK i \in DOMAIN wal : p = Pt(wal[i])
      BY <3>1 DEF Logged
    <3>5. wal[i] \in Record /\ i \in 1..Len(wal) /\ dataFile \in [Day -> Seq(Seq(Sample))]
      BY <3>4 DEF IInv, TypeOK, DiskOK
    <3>6. CASE BelowWatermark(wal[i])
      <4>1. ~Late(p)
        BY <3>4, <3>5, <3>6, Watermark
      <4> QED
        BY <3>1, <3>3, <4>1 DEF OwedAbove
    <3>7. CASE ~BelowWatermark(wal[i])
      <4>1. replay'.recs = wal /\ replay'.pos = 1 /\ i \notin replay'.durable
        BY <3>3, <3>7
      <4>2. replay'.pos <= i
        BY <3>5, <4>1
      <4> QED
        BY <3>4, <4>1, <4>2 DEF Pending, Pt
    <3> QED
      BY <3>6, <3>7
  <2>2. OpenDatabase \/ UNCHANGED pc
    <3>1. pc \in {"down", "closed"}
      BY <1>4 DEF Down
    <3> QED
      BY <3>1 DEF Next, Work, OpenFails, ReplayRecord, ReplayFails, ReplayDone,
         BeginAdd, EnsureDayOpen, DayIsSealed, RejectMetric, LogSample, AddToPage, FlushAged,
         FlushOwnPage, FinishAdd, BeginDrain, DrainPage, DrainDone, PersistCatalog, AppendFrame, SyncFlushed,
         KeepWAL, CatalogBeforeReset, ResetWAL, Crash, Down, LogSyncFails, WriteFails
  <2>3. UNCHANGED pc => Down'
    BY <1>4 DEF Down
  <2> QED
    BY <1>a, <2>1, <2>2, <2>3
<1> QED
  BY <1>2, <1>3, <1>4, OwedMoves

\* While its records are replayed the log is what was read.
LEMMA LogStays ==
    ASSUME IInv, BookOK, SealsOK, [Next]_vars, WALProtected, ReplayKeepsWAL, Replaying => wal = replay.recs
    PROVE  Replaying' => wal' = replay'.recs
<1>1. UNCHANGED vars \/ Quiet => wal' = wal /\ (replay' = NoReplay \/ replay'.recs = replay.recs)
  BY QuietSame, QuietMoves DEF IInv, TypeOK
<1>2. Halting => replay' = NoReplay
  BY HaltingStops, StopsMoves
<1>3. OpenDatabase => wal' = replay'.recs \/ replay' = NoReplay
  BY OpenMoves DEF BookOK, PagesOK
<1>4. Taken \/ AddPut \/ AppendFrame \/ SyncFlushed => wal' = wal /\ replay' = replay
  BY TakenMoves, AddPutMoves, AppendFrameMoves, SyncFlushedMoves DEF Taken
<1>5. ReplayPut => wal' = wal /\ replay'.recs = replay.recs
  BY ReplayPutMoves DEF IInv, TypeOK, HandlerOK
<1>6. (\E useWAL \in BOOLEAN : LogSample(useWAL)) \/ LogSyncFails => replay' = replay /\ ~Replaying
  BY LogMoves DEF BookOK, ReplayOK, AtReplay
<1>7. ResetWAL => replay' = replay /\ ~Replaying
  BY ResetWALMoves, NoResetInReplay
<1>8. replay' = NoReplay => ~Replaying'
  BY DEF NoReplay, Replaying
<1>9. wal' = wal /\ replay'.recs = replay.recs => (Replaying' => wal' = replay'.recs)
  BY DEF Replaying
<1>10. replay' = replay /\ ~Replaying => ~Replaying'
  BY DEF Replaying
<1>11. wal' = wal /\ replay' = replay => (Replaying' => wal' = replay'.recs)
  BY DEF Replaying
<1>12. UNCHANGED vars \/ Quiet \/ Halting \/ OpenDatabase => (Replaying' => wal' = replay'.recs)
  BY <1>1, <1>2, <1>3, <1>8, <1>9
<1>13. Taken \/ AddPut \/ AppendFrame \/ SyncFlushed \/ ReplayPut => (Replaying' => wal' = replay'.recs)
  BY <1>4, <1>5, <1>9, <1>11
<1>14. (\E useWAL \in BOOLEAN : LogSample(useWAL)) \/ LogSyncFails \/ ResetWAL => ~Replaying'
  BY <1>6, <1>7, <1>10
<1> QED
  BY <1>12, <1>13, <1>14, NextParts DEF Taken

\* A sample comes to be put into its page by LogSample only.
LEMMA PagingBegins ==
    ASSUME IInv, BookOK, [Next]_vars, Paging'
    PROVE  (Paging /\ call' = call) \/ (pc = "log" /\ \E useWAL \in BOOLEAN : LogSample(useWAL))
<1>1. UNCHANGED vars \/ Quiet => Paging
  BY QuietStage DEF Paging, Replaying
<1>2. ~Halting
  BY HaltingStops, StopsMoves DEF Paging
<1>3. ~OpenDatabase /\ ~Taken
  BY OpenMoves, TakenMoves DEF Paging, Taken
<1>4. ~LogSyncFails /\ ~AddPut
  BY AddPutMoves DEF Paging, LogSyncFails, Return
<1>5. ~ReplayPut /\ ~ResetWAL
  BY ReplayPutMoves, ResetWALMoves, AnsweringMoves DEF Paging, ReplayPut, ReplayRecord
<1>6. AppendFrame => Paging
  BY AppendFrameMoves DEF Paging, Replaying
<1>7. SyncFlushed => Paging
  <2>1. SyncFlushed => pc = "sync" /\ pc' = AfterSync /\ UNCHANGED replay
    BY SyncFlushedMoves
  <2>2. flush.goal \in {"none", "seal", "age", "full", "drain", "reorder"}
    BY DEF IInv, TypeOK, HandlerOK
  <2> QED
    BY <2>1, <2>2 DEF Paging, AfterSync, Replaying
<1>8. ~Return(FALSE)
  BY DEF Return, Paging
<1>9. LogSample(TRUE) \/ LogSample(FALSE) => pc = "log"
  BY DEF LogSample
<1>10. Paging => Paging' /\ call' = call
  BY <1>2, <1>4, <1>8, PagingMoves
<1> QED
  BY <1>1, <1>2, <1>3, <1>4, <1>5, <1>6, <1>7, <1>9, <1>10, NextParts DEF Taken

\* Only a reset takes records from a log that protects all samples.
LEMMA LogGrows ==
    ASSUME IInv, [Next]_vars, config.wal
    PROVE  ResetWAL \/ Logged \subseteq Logged'
<1>1. UNCHANGED vars \/ Quiet \/ Halting => Logged' = Logged
  BY QuietSame, HaltingStops, SameLog
<1>2. OpenDatabase \/ Taken => Logged \subseteq Logged'
  BY OpenMoves, TakenMoves, LoggedEmpty DEF Taken
<1>3. ReplayPut \/ AddPut \/ AppendFrame \/ SyncFlushed => Logged' = Logged
  BY ReplayPutMoves, AddPutMoves, AppendFrameMoves, SyncFlushedMoves, SameLog
<1>4. (\E useWAL \in BOOLEAN : LogSample(useWAL)) \/ LogSyncFails => Logged \subseteq Logged'
  BY LogMoves
<1> QED
  BY <1>1, <1>2, <1>3, <1>4, NextParts DEF Taken

\* What is in a page is in the log, too.
LEMMA PagesLoggedKept ==
    ASSUME IInv, BookOK, [Next]_vars, WALProtected, Replaying => wal = replay.recs, PagesLogged
    PROVE  PagesLogged'
<1>1. Paging' => Pt(call)' \in Logged'
  <2>1. CASE Paging /\ Paging' /\ call' = call
    <3>1. Pt(call) \in Logged /\ ~ResetWAL
      BY <2>1, ResetWALMoves DEF PagesLogged, Paging
    <3> QED
      BY <2>1, <3>1, LogGrows DEF WALProtected, Pt
  <2>2. ASSUME NEW useWAL \in BOOLEAN, LogSample(useWAL)
        PROVE  Pt(call)' \in Logged'
    <3>1. useWAL /\ call' = call
      BY <2>2 DEF LogSample, MaySkipWAL, WALProtected
    <3>2. PICK r \in Record : wal' = Append(wal, r) /\ Pt(r) = Pt(call)
      BY <2>2, <3>1, LogMoves
    <3>3. Logged' = Logged \cup {Pt(r)}
      BY <3>2, LoggedAppend DEF IInv, TypeOK, DiskOK
    <3> QED
      BY <3>1, <3>2, <3>3 DEF Pt
  <2> QED
    BY <2>1, <2>2, PagingBegins
<1>2. CASE ResetWAL
  <2>1. \A d \in Day : Paged(d)' = {}
    BY <1>2, ResetWALMoves, PagedEmpty
  <2> QED
    BY <1>1, <2>1 DEF PagesLogged
<1>3. CASE ReplayPut
  <2>1. \A e \in Day : Paged(e)' = IF e = RecDay THEN Paged(e) \cup {Pt(Rec)} ELSE Paged(e)
    BY <1>3, ReplayPutMoves
  <2>2. Pt(Rec) \in Logged /\ Logged' = Logged
    <3>1. wal' = wal /\ replay.pos \in DOMAIN replay.recs
      BY <1>3, ReplayPutMoves
    <3>2. Replaying
      BY <3>1 DEF Replaying
    <3> QED
      BY <3>1, <3>2, SameLog DEF Logged, Rec
  <2> QED
    BY <1>1, <2>1, <2>2 DEF PagesLogged
<1>4. CASE AddPut
  <2>1. \A e \in Day : Paged(e)' = IF e = CallDay THEN Paged(e) \cup {Pt(call)} ELSE Paged(e)
    BY <1>4, AddPutMoves
  <2>2. Pt(call) \in Logged /\ Logged' = Logged
    BY <1>4, AddPutMoves, SameLog DEF Paging, PagesLogged
  <2> QED
    BY <1>1, <2>1, <2>2 DEF PagesLogged
<1>5. ASSUME ~ResetWAL, \A d \in Day : Paged(d)' \subseteq Paged(d)
      PROVE  PagesLogged'
  <2>1. Logged \subseteq Logged'
    BY <1>5, LogGrows DEF WALProtected
  <2> QED
    BY <1>1, <1>5, <2>1 DEF PagesLogged
<1>6. UNCHANGED vars \/ Quiet => \A d \in Day : Paged(d)' \subseteq Paged(d)
  BY QuietSame, SamePage
<1>7. Halting => \A d \in Day : Paged(d)' \subseteq Paged(d)
  BY HaltingStops, StopsMoves
<1>8. OpenDatabase \/ Taken => \A d \in Day : Paged(d)' \subseteq Paged(d)
  BY OpenMoves, TakenMoves DEF Taken
<1>9. (\E useWAL \in BOOLEAN : LogSample(useWAL)) \/ LogSyncFails \/ AppendFrame \/ SyncFlushed =>
         \A d \in Day : Paged(d)' \subseteq Paged(d)
  BY LogMoves, SamePage, AppendFrameMoves, SyncFlushedMoves
<1> QED
  BY <1>2, <1>3, <1>4, <1>5, <1>6, <1>7, <1>8, <1>9, NextParts DEF Taken

\* A sample is acknowledged when its page is open or written.
LEMMA NewAck ==
    ASSUME IInv, BookOK, [Next]_vars, NEW a \in answered', a \notin answered, a.ok
    PROVE  /\ call.op = "add" /\ call.metric = a.metric /\ call.ts = a.ts /\ call.val = a.val
           /\ Pt(a) = Pt(call) /\ (Aging \/ Filling) /\ Return(TRUE)
           /\ FinishAdd \/ KeepWAL \/ ResetWAL
<1>1. ASSUME Return(TRUE)
      PROVE  /\ call.op = "add" /\ call.metric = a.metric /\ call.ts = a.ts /\ call.val = a.val
             /\ Pt(a) = Pt(call)
  <2>1. answered' # answered
    OBVIOUS
  <2>2. call.op = "add" /\ a = [metric |-> call.metric, ts |-> call.ts, val |-> call.val, ok |-> TRUE]
    BY <1>1, <2>1 DEF Return
  <2>3. call.metric = a.metric /\ call.ts = a.ts /\ call.val = a.val
    BY <2>2
  <2> QED
    BY <2>2, <2>3 DEF Pt
<1>2. ~Return(FALSE)
  BY DEF Return
<1>3. CASE PersistDone
  <2>1. Return(TRUE) /\ pc = "persist"
    BY <1>3 DEF PersistDone, PersistCatalog
  <2> QED
    BY <1>1, <2>1 DEF BookOK, FlowOK, Draining
<1>4. CASE FinishAdd
  <2>1. Return(TRUE) /\ Aging
    BY <1>4 DEF FinishAdd, Aging
  <2> QED
    BY <1>1, <1>4, <2>1
<1>5. CASE KeepWAL \/ ResetWAL
  <2>1. pc = "reset" /\ AfterReset
    BY <1>5 DEF KeepWAL, ResetWAL
  <2>2. flush.goal = "full" /\ Return(TRUE)
    BY <2>1 DEF AfterReset
  <2> QED
    BY <1>1, <1>5, <2>1, <2>2 DEF Filling
<1>6. ~(DayIsSealed \/ RejectMetric \/ AddRefuse \/ FailReturn \/ LogSyncFails)
  BY <1>2 DEF DayIsSealed, RejectMetric, AddRefuse, FailReturn, LogSyncFails
<1>7. ~(ReplayDone \/ ReplaySkip \/ ReplaySeal \/ ReplayReorder \/ EnsureDayOpen \/ AddRetry)
  BY DEF ReplayDone, ReplaySkip, ReplaySeal, ReplayReorder, ReplayRecord, EnsureDayOpen, AddRetry
<1>8. ~((\E d \in Day : FlushAged(d) \/ DrainPage(d)) \/ FlushOwnPage \/ DrainDone \/ CatalogBeforeReset
        \/ (\E op \in {"flush", "close"} : BeginDrain(op)) \/ FailClose)
  BY DEF FlushAged, DrainPage, FlushOwnPage, DrainDone, CatalogBeforeReset, BeginDrain, FailClose
<1>9. Quiet => PersistDone \/ FinishAdd \/ KeepWAL
  BY <1>6, <1>7, <1>8 DEF Quiet
<1>10. ~(UNCHANGED vars \/ Halting \/ OpenDatabase \/ Taken)
  BY HaltingStops, OpenMoves, TakenMoves DEF Taken
<1>11. ~(ReplayPut \/ AddPut \/ AppendFrame \/ SyncFlushed)
  BY ReplayPutMoves, AddPutMoves, AppendFrameMoves, SyncFlushedMoves
<1>12. ~(\E useWAL \in BOOLEAN : LogSample(useWAL))
  BY DEF LogSample
<1> QED
  BY <1>3, <1>4, <1>5, <1>6, <1>9, <1>10, <1>11, <1>12, NextParts DEF Taken

\* What was acknowledged is in the log or in a file.
LEMMA AckedStay ==
    ASSUME IInv, BookOK, SealsOK, [Next]_vars, WALProtected, ReplayKeepsWAL, OwedHeld, PagesLogged, AckedKept
    PROVE  AckedKept'
<1>1. \A d \in Day : Filed(d) \subseteq Filed(d)'
  BY FilesMove, AppendFrameMoves
<1>2. ASSUME NEW a \in Acked PROVE Pt(a) \in Points /\ a.val \in 1..calls /\ DayOf[a.ts] \in Day
  <2>1. Pt(a) \in Points
    BY <1>2 DEF Acked, Points, Answers
  <2> QED
    BY <2>1, PointDay DEF BookOK, PointsOK, Pt, DayAt
<1>3. ASSUME ResetWAL, NEW a \in Acked, a.val \in newest, Pt(a) \in Logged
      PROVE  Pt(a) \in Filed(DayOf[a.ts])
  <2>1. a.val \notin Failed
    BY <1>3 DEF BookOK, FlowOK, Failed, Acked
  <2>2. Pt(a) \in Owed /\ DayAt(Pt(a)) = DayOf[a.ts]
    BY <1>3, <2>1 DEF Owed, Pt, DayAt
  <2>3. ~Down /\ ~Paging /\ \A d \in Day : Paged(d) = {}
    BY <1>3, ResetWALMoves, PagedEmpty DEF Down, Paging
  <2>4. ~Pending(Pt(a))
    <3>1. ~Replaying
      BY <1>3, NoResetInReplay
    <3> QED
      BY <3>1 DEF Pending, Replaying
  <2> QED
    BY <1>2, <2>2, <2>3, <2>4 DEF OwedHeld
<1>4. ASSUME NEW a \in Acked, a.val \in newest'
      PROVE  Pt(a) \in Logged' \cup Filed(DayOf[a.ts])'
  <2>1. a.val # calls + 1
    BY <1>2, <1>4 DEF IInv, TypeOK, HistoryOK
  <2>2. a.val \in newest
    BY <1>4, <2>1, AnswersGrow
  <2>3. Pt(a) \in Logged \cup Filed(DayOf[a.ts])
    BY <1>4, <2>2 DEF AckedKept
  <2> QED
    BY <1>1, <1>2, <1>3, <1>4, <2>2, <2>3, LogGrows DEF WALProtected
<1>5. ASSUME NEW a \in Acked', a \notin Acked
      PROVE  Pt(a) \in Logged' \cup Filed(DayOf[a.ts])'
  <2>1. a \in answered' /\ a.ok /\ a \notin answered
    BY <1>5 DEF Acked
  <2>2. call.op = "add" /\ Pt(a) = Pt(call) /\ call.ts = a.ts /\ (Aging \/ Filling)
    BY <2>1, NewAck
  <2>3. DayOf[call.ts] \in Day
    BY <2>2, DaysAreNumbers DEF IInv, CallOK
  <2>4. Pt(call) \in Paged(DayOf[call.ts]) \cup Filed(DayOf[call.ts])
    BY <2>2, <2>3 DEF BookOK, FlowOK
  <2>5. CASE ResetWAL
    <3>1. Paged(DayOf[call.ts]) = {}
      BY <2>3, <2>5, ResetWALMoves, PagedEmpty
    <3> QED
      BY <1>1, <2>2, <2>3, <2>4, <3>1
  <2>6. CASE ~ResetWAL
    <3>1. Paged(DayOf[call.ts]) \subseteq Logged /\ Logged \subseteq Logged'
      BY <2>3, <2>6, LogGrows DEF PagesLogged, WALProtected
    <3> QED
      BY <1>1, <2>2, <2>3, <2>4, <3>1
  <2> QED
    BY <2>5, <2>6
<1> QED
  BY <1>4, <1>5 DEF AckedKept, Pt

LEMMA DurableKept ==
    ASSUME IInv, BookOK, SealsOK, DurableOK, [Next]_vars
    PROVE  DurableOK'
<1>1. WALProtected' /\ ReplayKeepsWAL' => WALProtected /\ ReplayKeepsWAL
  BY AnswersGrow DEF WALProtected
<1> QED
  BY <1>1, LogStays, AboveKept, HeldKept, PagesLoggedKept, AckedStay DEF DurableOK

LEMMA InitDurable == Init => DurableOK
<1> SUFFICES ASSUME Init PROVE DurableOK
  OBVIOUS
<1>1. Logged = {} /\ answered = {} /\ replay.recs = <<>> /\ pc = "closed"
  BY LoggedEmpty DEF Init, NoReplay
<1>2. \A d \in Day : Paged(d) = {}
  BY PagedEmpty DEF Init, EmptyPages
<1> QED
  BY <1>1, <1>2 DEF DurableOK, Replaying, OwedAbove, OwedHeld, Owed, PagesLogged, AckedKept, Acked, Paging

-----------------------------------------------------------------------------
(* While nothing stops or fails.                                           *)

\* In a page or a file.
Boxed(a) == Pt(a) \in Paged(DayOf[a.ts]) \cup Filed(DayOf[a.ts])

LEMMA CalmBefore ==
    ASSUME IInv, [Next]_vars, Calm'
    PROVE  /\ Calm /\ ~LogSyncFails /\ ~FailClose /\ ~FailReturn /\ ~FailStop /\ ~Crash
           /\ config' = config
<1>1. faults' = 0 /\ crashes' = 0
  BY DEF Calm
<1>2. faults = 0
  <2>1. faults' = faults \/ (faults' = faults + 1 /\ faults \in Nat)
    BY PointsMove, TakenMoves DEF Taken, IInv, TypeOK, HistoryOK
  <2> QED
    BY <1>1, <2>1
<1>3. ~LogSyncFails /\ ~WriteFails /\ ~Crash
  BY <1>1, <1>2 DEF LogSyncFails, WriteFails, Crash, IInv, TypeOK, HistoryOK
<1>4. crashes' = crashes
  BY <1>3, HaltingStops, QuietSame, NextParts, OpenMoves, TakenMoves, ReplayPutMoves, AddPutMoves,
     AppendFrameMoves, SyncFlushedMoves, ResetWALMoves
     DEF Taken, LogSample, Halting, FailStop, ReplayFails, PersistStop, PersistCatalog
<1> QED
  BY <1>1, <1>2, <1>3, <1>4, AnswersGrow DEF Calm, FailClose, FailReturn, FailStop

\* Without a WAL nothing is logged.
LEMMA NoLogKept ==
    ASSUME IInv, [Next]_vars, ~config.wal => wal = <<>>
    PROVE  ~config'.wal => wal' = <<>>
<1>1. config' = config
  BY AnswersGrow
<1>2. UNCHANGED vars \/ Quiet \/ Halting => wal' = wal
  BY QuietSame, HaltingStops
<1>3. OpenDatabase \/ ResetWAL => wal' = wal \/ wal' = <<>>
  BY OpenMoves, ResetWALMoves
<1>4. Taken \/ ReplayPut \/ AddPut \/ AppendFrame \/ SyncFlushed => wal' = wal
  BY TakenMoves, ReplayPutMoves, AddPutMoves, AppendFrameMoves, SyncFlushedMoves DEF Taken
<1>5. (\E useWAL \in BOOLEAN : LogSample(useWAL)) \/ LogSyncFails => wal' = wal \/ config.wal
  BY DEF LogSample, LogSyncFails, ShouldWriteWAL
<1> QED
  BY <1>1, <1>2, <1>3, <1>4, <1>5, NextParts DEF Taken

\* Nothing is replayed, and nothing went wrong in a Close.
LEMMA CalmRuns ==
    ASSUME IInv, BookOK, CalmOK, [Next]_vars, Calm'
    PROVE  ~Replaying' /\ closeErrs' = {}
<1>1. /\ Calm /\ ~Replaying /\ closeErrs = {} /\ (Down => wal = <<>>)
      /\ ~LogSyncFails /\ ~FailClose
  BY CalmBefore DEF CalmOK
<1>2. replay' = replay \/ replay' = NoReplay \/ replay'.recs = replay.recs => ~Replaying'
  BY <1>1 DEF Replaying, NoReplay
<1>3. UNCHANGED vars \/ Quiet => ~Replaying'
  BY <1>2, QuietMoves DEF IInv, TypeOK
<1>4. Halting => ~Replaying' /\ closeErrs' = {}
  BY <1>2, HaltingStops, StopsMoves
<1>5. OpenDatabase => ~Replaying' /\ closeErrs' = closeErrs
  BY <1>1, <1>2, OpenMoves
<1>6. Taken \/ AddPut \/ AppendFrame \/ SyncFlushed => ~Replaying' /\ closeErrs' = closeErrs
  BY <1>2, TakenMoves, AddPutMoves, AppendFrameMoves, SyncFlushedMoves DEF Taken
<1>7. ~ReplayPut
  BY <1>1 DEF ReplayPut, ReplayRecord, BookOK, ReplayOK
<1>8. (\E useWAL \in BOOLEAN : LogSample(useWAL)) => ~Replaying' /\ closeErrs' = closeErrs
  BY <1>2 DEF LogSample
<1>9. ResetWAL => ~Replaying' /\ closeErrs' = closeErrs
  <2>1. ResetWAL => closeErrs' = closeErrs
    BY DEF ResetWAL, AfterReset, Return
  <2> QED
    BY <1>2, <2>1, ResetWALMoves
<1>10. UNCHANGED vars \/ Quiet => closeErrs' = closeErrs
  <2>1. ReplayDone \/ ReplaySkip \/ ReplaySeal \/ ReplayReorder \/ EnsureDayOpen \/ AddRetry
        \/ (\E d \in Day : FlushAged(d) \/ DrainPage(d)) \/ FlushOwnPage
        \/ DrainDone \/ (\E op \in {"flush", "close"} : BeginDrain(op)) => closeErrs' = closeErrs
    BY DEF ReplayDone, ReplaySkip, ReplaySeal, ReplayReorder, ReplayRecord, EnsureDayOpen, AddRetry,
         FlushAged, DrainPage, FlushOwnPage, DrainDone, BeginDrain
  <2>2. DayIsSealed \/ RejectMetric \/ AddRefuse \/ FinishAdd \/ PersistDone \/ FailReturn => closeErrs' = closeErrs
    BY DEF DayIsSealed, RejectMetric, AddRefuse, FinishAdd, PersistDone, FailReturn, Return
  <2>3. KeepWAL \/ CatalogBeforeReset => closeErrs' = closeErrs
    BY DEF KeepWAL, CatalogBeforeReset, AfterReset, Return
  <2> QED
    BY <1>1, <2>1, <2>2, <2>3 DEF Quiet
<1> QED
  BY <1>1, <1>3, <1>4, <1>5, <1>6, <1>7, <1>8, <1>9, <1>10, NextParts DEF Taken

\* A flush or a Close that succeeds leaves no page and an empty log.
LEMMA CalmDrains ==
    ASSUME IInv, BookOK, CalmOK, [Next]_vars, Calm'
    PROVE  /\ pc' = "reset" /\ flush'.goal \notin {"seal", "full"} => AllPagesFlushed'
           /\ pc' = "persist" => AllPagesFlushed' /\ wal' = <<>>
<1> DEFINE Safely == /\ pc' = "reset" /\ flush'.goal \notin {"seal", "full"} => AllPagesFlushed'
                     /\ pc' = "persist" => AllPagesFlushed' /\ wal' = <<>>
<1>1. /\ Calm /\ ~Replaying /\ closeErrs = {}
      /\ pc = "reset" /\ flush.goal \notin {"seal", "full"} => AllPagesFlushed
      /\ pc = "persist" => AllPagesFlushed /\ wal = <<>>
      /\ ~config.wal => wal = <<>>
      /\ ~LogSyncFails /\ ~FailClose
  BY CalmBefore DEF CalmOK
<1>2. page' = page => (AllPagesFlushed => AllPagesFlushed')
  BY DEF AllPagesFlushed
<1>3. CASE UNCHANGED vars
  BY <1>1, <1>2, <1>3
<1>4. CASE DrainDone
  <2>1. NoPageLeft /\ page' = page /\ pc' = "reset"
    BY <1>4 DEF DrainDone
  <2>2. AllPagesFlushed
    BY <1>1, <2>1 DEF NoPageLeft, AllPagesFlushed, BookOK, PagesOK
  <2> QED
    BY <1>2, <2>1, <2>2
<1>5. CASE KeepWAL
  <2>1. pc = "reset" /\ page' = page /\ wal' = wal /\ ~MayReset /\ AfterReset
    BY <1>5 DEF KeepWAL
  <2>2. CASE flush.goal \in {"seal", "full"}
    BY <2>1, <2>2 DEF AfterReset, Return, Safely
  <2>3. CASE flush.goal \notin {"seal", "full"}
    <3>1. AllPagesFlushed /\ wal = <<>>
      BY <1>1, <2>1, <2>3 DEF MayReset
    <3> QED
      BY <1>2, <2>1, <3>1
  <2> QED
    BY <2>2, <2>3
<1>6. CASE ResetWAL
  <2>1. pc' # "reset" /\ wal' = <<>> /\ AllPagesFlushed /\ page' = page
    BY <1>6, ResetWALMoves, AnsweringMoves DEF AllPagesFlushed
  <2> QED
    BY <1>2, <2>1
<1>7. CASE CatalogBeforeReset
  <2>1. pc' = pc /\ flush' = flush /\ page' = page /\ wal' = wal
    BY <1>7 DEF CatalogBeforeReset
  <2> QED
    BY <1>1, <1>2, <2>1
<1>8. CASE SyncFlushed
  <2>1. pc' = AfterSync /\ flush' = IF AfterSync = "reset" THEN flush ELSE NoFlush
    BY <1>8, SyncFlushedMoves
  <2>2. flush.goal \in {"none", "seal", "age", "full", "drain", "reorder"}
    BY DEF IInv, TypeOK, HandlerOK
  <2> QED
    BY <2>1, <2>2 DEF AfterSync
<1>9. CASE ReplaySeal \/ EnsureDayOpen
  BY <1>9 DEF ReplaySeal, EnsureDayOpen, StartSeal, StartFlush
<1>10. CASE ReplayDone \/ ReplaySkip \/ ReplayReorder \/ AddRetry \/ FlushOwnPage
            \/ (\E d \in Day : FlushAged(d) \/ DrainPage(d)) \/ (\E op \in {"flush", "close"} : BeginDrain(op))
  BY <1>10 DEF ReplayDone, ReplaySkip, ReplayReorder, ReplayRecord, AddRetry, FlushOwnPage,
       FlushAged, DrainPage, BeginDrain, StartFlush
<1>11. CASE DayIsSealed \/ RejectMetric \/ AddRefuse \/ FinishAdd \/ PersistDone \/ FailReturn
  BY <1>11 DEF DayIsSealed, RejectMetric, AddRefuse, FinishAdd, PersistDone, FailReturn, Return
<1>12. CASE Halting
  BY <1>12, HaltingStops, StopsMoves
<1>13. CASE OpenDatabase \/ Taken
  BY <1>13, OpenMoves, TakenMoves DEF Taken
<1>14. CASE (\E useWAL \in BOOLEAN : LogSample(useWAL)) \/ AddPut \/ AppendFrame
  BY <1>14, AddPutMoves, AppendFrameMoves DEF LogSample
<1>15. CASE ReplayPut
  <2>1. pc' = pc /\ pc = "replay"
    BY <1>15, ReplayPutMoves DEF ReplayPut, ReplayRecord
  <2> QED
    BY <2>1
<1> QED
  BY <1>1, <1>3, <1>4, <1>5, <1>6, <1>7, <1>8, <1>9, <1>10, <1>11, <1>12, <1>13, <1>14, <1>15,
     NextParts DEF Taken, Quiet

\* A process that stops by itself has written all it held.
LEMMA CalmStops ==
    ASSUME IInv, BookOK, CalmOK, [Next]_vars, Calm', Halting
    PROVE  AllPagesFlushed /\ wal = <<>> /\ wal' = <<>>
<1>1. /\ Calm /\ ~Replaying /\ ~FailStop /\ ~Crash
      /\ pc = "persist" => AllPagesFlushed /\ wal = <<>>
  BY CalmBefore DEF CalmOK
<1>2. ~ReplayFails
  BY <1>1 DEF ReplayFails, BookOK, ReplayOK
<1>3. PersistStop
  BY <1>1, <1>2 DEF Halting
<1>4. pc = "persist" /\ wal' = wal
  BY <1>3, HaltingStops DEF PersistStop, PersistCatalog
<1> QED
  BY <1>1, <1>4

\* A process that runs is stopped by the halting steps only.
LEMMA OnlyHaltingStops ==
    ASSUME IInv, [Next]_vars, Down'
    PROVE  Halting \/ UNCHANGED <<pc, wal>>
<1>1. ~Answering
  BY DEF Answering, Return, Down
<1>2. ~(ReplayDone \/ ReplaySkip \/ ReplayReorder \/ AddRetry \/ FlushOwnPage
        \/ (\E d \in Day : FlushAged(d) \/ DrainPage(d)) \/ (\E op \in {"flush", "close"} : BeginDrain(op)))
  BY DEF ReplayDone, ReplaySkip, ReplayReorder, ReplayRecord, AddRetry, FlushOwnPage,
     FlushAged, DrainPage, BeginDrain, StartFlush, Down
<1>3. ~(ReplaySeal \/ EnsureDayOpen)
  BY DEF ReplaySeal, EnsureDayOpen, StartSeal, StartFlush, Down
<1>4. ~(DayIsSealed \/ RejectMetric \/ AddRefuse \/ FinishAdd \/ PersistDone \/ FailReturn \/ LogSyncFails)
  BY <1>1 DEF DayIsSealed, RejectMetric, AddRefuse, FinishAdd, PersistDone, FailReturn, Answering, LogSyncFails
<1>5. ~KeepWAL
  BY <1>1 DEF KeepWAL, AfterReset, Down, Answering
<1>6. ~(CatalogBeforeReset \/ DrainDone \/ FailClose)
  BY DEF CatalogBeforeReset, DrainDone, FailClose, Down
<1>7. ~Quiet
  BY <1>2, <1>3, <1>4, <1>5, <1>6 DEF Quiet
<1>8. ~(OpenDatabase \/ Taken)
  BY OpenMoves, TakenMoves DEF Taken, Down
<1>9. ~(\E useWAL \in BOOLEAN : LogSample(useWAL)) /\ ~AddPut /\ ~AppendFrame
  BY AddPutMoves, AppendFrameMoves DEF LogSample, Down
<1>10. ~ReplayPut /\ ~ResetWAL
  BY ReplayPutMoves, ResetWALMoves, AnsweringMoves DEF ReplayPut, ReplayRecord, Down
<1>11. ~SyncFlushed
  <2>1. flush.goal \in {"none", "seal", "age", "full", "drain", "reorder"}
    BY DEF IInv, TypeOK, HandlerOK
  <2> QED
    BY <2>1, SyncFlushedMoves DEF AfterSync, Down
<1> QED
  BY <1>4, <1>7, <1>8, <1>9, <1>10, <1>11, NextParts DEF Taken

LEMMA CalmKept ==
    ASSUME IInv, BookOK, CalmOK, [Next]_vars
    PROVE  CalmOK'
<1>1. ~config'.wal => wal' = <<>>
  BY NoLogKept DEF CalmOK
<1>2. ASSUME Calm' PROVE Down' => wal' = <<>>
  <2>1. Calm /\ (Down => wal = <<>>)
    BY <1>2, CalmBefore DEF CalmOK
  <2>2. Halting => wal' = <<>>
    BY <1>2, CalmStops
  <2>3. Down' => Halting \/ UNCHANGED <<pc, wal>>
    BY OnlyHaltingStops
  <2> QED
    BY <2>1, <2>2, <2>3 DEF Down
<1>3. ASSUME Calm', NEW a \in Acked' PROVE Boxed(a)'
  <2>1. Calm /\ \A b \in Acked : Boxed(b)
    BY <1>3, CalmBefore DEF CalmOK, Boxed
  <2>2. a \in answered' /\ a.ok
    BY <1>3 DEF Acked
  <2>3. DayOf[a.ts] \in Day
    BY NextIInv, <2>2, DaysAreNumbers DEF IInv, TypeOK, HistoryOK
  <2>4. Boxed(a)
    <3>1. CASE a \in answered
      BY <2>1, <2>2, <3>1 DEF Acked
    <3>2. CASE a \notin answered
      <4>1. call.op = "add" /\ Pt(a) = Pt(call) /\ call.ts = a.ts /\ (Aging \/ Filling)
        BY <2>2, <3>2, NewAck
      <4> QED
        BY <2>3, <4>1 DEF BookOK, FlowOK, Boxed
    <3> QED
      BY <3>1, <3>2
  <2>5. CASE ~Halting
    <3>1. \A d \in Day : Paged(d) \cup Filed(d) \subseteq Paged(d)' \cup Filed(d)'
      BY <2>5, BoxesKeep
    <3> QED
      BY <2>3, <2>4, <3>1 DEF Boxed, Pt
  <2>6. CASE Halting
    <3>1. Paged(DayOf[a.ts]) = {}
      BY <1>3, <2>3, <2>6, CalmStops, PagedEmpty DEF AllPagesFlushed
    <3>2. Filed(DayOf[a.ts])' = Filed(DayOf[a.ts])
      BY <2>3, <2>6, HaltingStops, SameFile
    <3> QED
      BY <2>4, <3>1, <3>2 DEF Boxed, Pt
  <2> QED
    BY <2>5, <2>6
<1> QED
  BY <1>1, <1>2, <1>3, CalmRuns, CalmDrains DEF CalmOK, Boxed

LEMMA InitCalm == Init => CalmOK
BY DEF Init, CalmOK, Replaying, NoReplay, Acked

-----------------------------------------------------------------------------
(* No sample is stored twice.                                              *)

\* Two points of the same call are one.
LEMMA SameVal ==
    ASSUME PointsOK, NEW p \in Points, NEW q \in Points, p[2] = q[2]
    PROVE  p = q
BY DEF PointsOK

\* The frame that is appended repeats nothing of its file.
LEMMA FilesOnceAppend ==
    ASSUME IInv, BookOK, FilesOnce, PagesOnce, BoxesApart, AppendFrame
    PROVE  FilesOnce'
<1> DEFINE d == flush.day
           n == Len(dataFile[d]) + 1
<1>1. /\ d \in Day /\ pc = "flush"
      /\ dataFile' = [dataFile EXCEPT ![d] = Append(@, page[d])]
      /\ dataFile \in [Day -> Seq(Seq(Sample))] /\ page \in [Day -> Seq(Sample)]
  BY AppendFrameMoves DEF AppendFrame, IInv, TypeOK, DiskOK, MemoryOK
<1>2. dataFile[d] \in Seq(Seq(Sample)) /\ dataFile'[d] = Append(dataFile[d], page[d])
  BY <1>1
<1>3. /\ DOMAIN dataFile'[d] = (DOMAIN dataFile[d]) \cup {n} /\ n \notin DOMAIN dataFile[d]
      /\ \A f \in DOMAIN dataFile[d] : dataFile'[d][f] = dataFile[d][f]
      /\ dataFile'[d][n] = page[d]
  BY <1>2
<1> HIDE DEF n
<1>4. ASSUME NEW f \in DOMAIN dataFile[d], NEW j \in DOMAIN dataFile[d][f], NEW k \in DOMAIN page[d]
      PROVE  dataFile[d][f][j].val # page[d][k].val
  <2> DEFINE p == Pt(dataFile[d][f][j])
             q == Pt(page[d][k])
  <2>1. p \in Filed(d)
    BY <1>4 DEF Filed
  <2>2. q \in Paged(d)
    BY <1>4 DEF Paged
  <2>3. p[2] = dataFile[d][f][j].val /\ q[2] = page[d][k].val
    BY DEF Pt
  <2> HIDE DEF p, q
  <2>4. p \in Points /\ q \in Points
    BY <1>1, <2>1, <2>2, InDaysParts DEF Points
  <2>5. p # q
    BY <1>1, <2>1, <2>2 DEF BoxesApart
  <2> QED
    BY <2>3, <2>4, <2>5, SameVal DEF BookOK
<1>5. ASSUME NEW f \in DOMAIN dataFile'[d], NEW g \in DOMAIN dataFile'[d],
             NEW j \in DOMAIN dataFile'[d][f], NEW k \in DOMAIN dataFile'[d][g],
             dataFile'[d][f][j].val = dataFile'[d][g][k].val
      PROVE  f = g /\ j = k
  <2>1. CASE f \in DOMAIN dataFile[d] /\ g \in DOMAIN dataFile[d]
    <3>1. dataFile'[d][f] = dataFile[d][f] /\ dataFile'[d][g] = dataFile[d][g]
      BY <1>3, <2>1
    <3> QED
      BY <1>1, <1>5, <2>1, <3>1 DEF FilesOnce
  <2>2. CASE f = n /\ g = n
    <3>1. dataFile'[d][f] = page[d] /\ dataFile'[d][g] = page[d]
      BY <1>3, <2>2
    <3> QED
      BY <1>1, <1>5, <2>2, <3>1 DEF PagesOnce
  <2>3. CASE f \in DOMAIN dataFile[d] /\ g = n
    <3>1. dataFile'[d][f] = dataFile[d][f] /\ dataFile'[d][g] = page[d]
      BY <1>3, <2>3
    <3> QED
      BY <1>4, <1>5, <2>3, <3>1
  <2>4. CASE f = n /\ g \in DOMAIN dataFile[d]
    <3>1. dataFile'[d][f] = page[d] /\ dataFile'[d][g] = dataFile[d][g]
      BY <1>3, <2>4
    <3> QED
      BY <1>4, <1>5, <2>4, <3>1
  <2> QED
    BY <1>3, <1>5, <2>1, <2>2, <2>3, <2>4
<1>6. \A e \in Day : e # d => dataFile'[e] = dataFile[e]
  BY <1>1
<1> HIDE DEF d
<1>7. ASSUME NEW e \in Day
      PROVE  \A f, g \in DOMAIN dataFile'[e] :
               \A j \in DOMAIN dataFile'[e][f], k \in DOMAIN dataFile'[e][g] :
                 dataFile'[e][f][j].val = dataFile'[e][g][k].val => f = g /\ j = k
  <2>1. CASE e = d
    BY <1>5, <2>1
  <2>2. CASE e # d
    BY <1>6, <2>2 DEF FilesOnce
  <2> QED
    BY <2>1, <2>2
<1> QED
  BY <1>7 DEF FilesOnce

\* A sample that is in no page and no file is put at the end of a page.
LEMMA PagesOncePut ==
    ASSUME IInv, BookOK, PagesOnce, NEW d \in Day, NEW s \in Sample,
           page' = [page EXCEPT ![d] = Append(@, s)], Pt(s) \in Points, Pt(s) \notin Paged(d)
    PROVE  PagesOnce'
<1> DEFINE n == Len(page[d]) + 1
<1>1. page \in [Day -> Seq(Sample)]
  BY DEF IInv, TypeOK, MemoryOK
<1>2. page[d] \in Seq(Sample) /\ page'[d] = Append(page[d], s)
  BY <1>1
<1>3. /\ DOMAIN page'[d] = (DOMAIN page[d]) \cup {n}
      /\ \A k \in DOMAIN page[d] : page'[d][k] = page[d][k]
      /\ page'[d][n] = s
  BY <1>2
<1> HIDE DEF n
<1>4. ASSUME NEW k \in DOMAIN page[d] PROVE page[d][k].val # s.val
  <2> DEFINE q == Pt(page[d][k])
  <2>1. q \in Paged(d)
    BY <1>4 DEF Paged
  <2>2. q[2] = page[d][k].val /\ Pt(s)[2] = s.val
    BY DEF Pt
  <2> HIDE DEF q
  <2>3. q \in Points
    BY <2>1, InDaysParts DEF Points
  <2> QED
    BY <2>1, <2>2, <2>3, SameVal DEF BookOK
<1>5. \A e \in Day : e # d => page'[e] = page[e]
  BY <1>1
<1>6. ASSUME NEW e \in Day
      PROVE  \A j, k \in DOMAIN page'[e] : page'[e][j].val = page'[e][k].val => j = k
  <2>1. CASE e # d
    BY <1>5, <2>1 DEF PagesOnce
  <2>2. CASE e = d
    <3>1. ASSUME NEW j \in DOMAIN page'[d], NEW k \in DOMAIN page'[d], page'[d][j].val = page'[d][k].val
          PROVE  j = k
      <4>1. CASE j \in DOMAIN page[d] /\ k \in DOMAIN page[d]
        <5>1. page'[d][j] = page[d][j] /\ page'[d][k] = page[d][k]
          BY <1>3, <4>1
        <5> QED
          BY <3>1, <4>1, <5>1 DEF PagesOnce
      <4>2. CASE j = n /\ k \in DOMAIN page[d]
        BY <1>3, <1>4, <3>1, <4>2
      <4>3. CASE k = n /\ j \in DOMAIN page[d]
        BY <1>3, <1>4, <3>1, <4>3
      <4> QED
        BY <1>3, <3>1, <4>1, <4>2, <4>3
    <3> QED
      BY <2>2, <3>1
  <2> QED
    BY <2>1, <2>2
<1> QED
  BY <1>6 DEF PagesOnce

\* What an action that puts no sample does to the pages.
LEMMA PagesOnceDrop ==
    ASSUME PagesOnce, \A d \in Day : page'[d] = page[d] \/ page'[d] = <<>>
    PROVE  PagesOnce'
<1>1. ASSUME NEW d \in Day PROVE \A j, k \in DOMAIN page'[d] : page'[d][j].val = page'[d][k].val => j = k
  <2>1. CASE page'[d] = page[d]
    BY <2>1 DEF PagesOnce
  <2>2. CASE page'[d] = <<>>
    BY <2>2
  <2> QED
    BY <2>1, <2>2
<1> QED
  BY <1>1 DEF PagesOnce

\* The sample that is put into a page is in none.
LEMMA PutIsNew ==
    ASSUME IInv, BookOK, WaitOutside, ReplayPut \/ AddPut
    PROVE  \E d \in Day, s \in Sample :
             /\ page' = [page EXCEPT ![d] = Append(@, s)]
             /\ Pt(s) \in Points \ InDays
             /\ pc \in {"page", "replay"} /\ dataFile' = dataFile
             /\ \A e \in Day : Paged(e)' = IF e = d THEN Paged(e) \cup {Pt(s)} ELSE Paged(e)
             /\ ReplayPut => s.val = Rec.val /\ Pt(s) = Pt(Rec)
<1>1. CASE ReplayPut
  <2> DEFINE s == [id |-> Rec.id, ts |-> Rec.ts, val |-> Rec.val]
  <2>1. /\ page' = [page EXCEPT ![RecDay] = Append(@, s)]
        /\ pc = "replay" /\ replay.pos \notin replay.durable
    BY <1>1 DEF ReplayPut, PutSample, ReplayRecord
  <2>2. /\ Rec \in Record /\ RecDay \in Day /\ Pt(Rec) \in Replayed
        /\ replay.pos \in DOMAIN replay.recs /\ dataFile' = dataFile
        /\ \A e \in Day : Paged(e)' = IF e = RecDay THEN Paged(e) \cup {Pt(Rec)} ELSE Paged(e)
    BY <1>1, ReplayPutMoves
  <2>3. s \in Sample /\ Pt(s) = Pt(Rec) /\ s.val = Rec.val
    BY <2>2 DEF Record, Sample, Pt
  <2> HIDE DEF s
  <2>4. replay.pos \in Nat
    BY DEF IInv, TypeOK, HandlerOK
  <2>5. Pt(Rec) \notin InDays /\ Pt(Rec) \in Points
    BY <2>1, <2>2, <2>4 DEF WaitOutside, Rec, Points
  <2> QED
    BY <2>1, <2>2, <2>3, <2>5
<1>2. CASE AddPut
  <2> DEFINE s == [id |-> catalog[call.metric], ts |-> call.ts, val |-> call.val]
  <2>1. page' = [page EXCEPT ![CallDay] = Append(@, s)] /\ Paging /\ pc = "page" /\ ~ReplayPut
    BY <1>2 DEF AddPut, PutSample, AddToPage, Paging, ReplayPut, ReplayRecord
  <2>2. /\ CallDay \in Day /\ call.op = "add" /\ Calling = {Pt(call)} /\ dataFile' = dataFile
        /\ \A e \in Day : Paged(e)' = IF e = CallDay THEN Paged(e) \cup {Pt(call)} ELSE Paged(e)
    BY <1>2, AddPutMoves
  <2>3. s \in Sample
    <3>1. call.metric \in Metric /\ call.ts \in Timestamp /\ call.val \in Nat /\ Known(call.metric)
      BY <2>1, <2>2 DEF IInv, CallOK, TypeOK, HandlerOK
    <3>2. catalog[call.metric] \in MetricID
      BY <3>1 DEF IInv, TypeOK, MemoryOK, Known
    <3> QED
      BY <3>1, <3>2 DEF Sample
  <2>4. Pt(s) = Pt(call) /\ Pt(call)[2] = call.val
    BY DEF Pt
  <2> HIDE DEF s
  <2>5. Pt(call) \in Points /\ Pt(call) \notin InDays
    BY <2>1, <2>2, <2>4 DEF Points, BookOK, FlowOK
  <2> QED
    BY <2>1, <2>2, <2>3, <2>4, <2>5
<1> QED
  BY <1>1, <1>2

\* A page that was written is dropped next.
LEMMA SyncIsNext ==
    ASSUME pc = "sync", [Next]_vars
    PROVE  UNCHANGED vars \/ SyncFlushed \/ Crash \/ WriteFails
BY DEF Next, Work, OpenDatabase, OpenFails, ReplayRecord, ReplayFails, ReplayDone,
   BeginAdd, EnsureDayOpen, DayIsSealed, RejectMetric, LogSample, AddToPage, FlushAged,
   FlushOwnPage, FinishAdd, BeginDrain, DrainPage, DrainDone, PersistCatalog, AppendFrame,
   KeepWAL, CatalogBeforeReset, ResetWAL, Down, LogSyncFails

\* No sample is put into a page that is in one or in a file.
LEMMA ApartKept ==
    ASSUME IInv, BookOK, [Next]_vars, faults' = 0, faults = 0, BoxesApart, WaitOutside
    PROVE  BoxesApart'
<1> DEFINE Apart(d) == Paged(d)' \cap Filed(d)' = {}
<1>1. ~WriteFails /\ ~LogSyncFails
  BY DEF WriteFails, LogSyncFails
<1>2. (\A d \in Day : Apart(d)) => BoxesApart'
  BY DEF BoxesApart
<1>3. CASE Halting
  <2>1. \A d \in Day : Paged(d)' = {}
    BY <1>3, HaltingStops, StopsMoves
  <2> QED
    BY <1>2, <2>1
<1>4. CASE UNCHANGED vars
  BY <1>4, SamePage, SameFile DEF BoxesApart
<1>5. CASE SyncFlushed
  <2>1. /\ \A e \in Day : Paged(e)' = IF e = flush.day THEN {} ELSE Paged(e)
        /\ \A e \in Day : Filed(e)' = Filed(e)
    BY <1>5, SyncFlushedMoves
  <2>2. \A d \in Day : Apart(d)
    BY <2>1 DEF BoxesApart
  <2> QED
    BY <1>2, <2>2
<1>6. CASE pc # "sync" /\ ~Halting /\ ~SyncFlushed
  <2>1. \A d \in Day : Paged(d) \cap Filed(d) = {}
    BY <1>6 DEF BoxesApart
  <2>2. CASE AppendFrame
    <3>1. /\ \A e \in Day : Filed(e)' = IF e = flush.day THEN Filed(e) \cup Paged(e) ELSE Filed(e)
          /\ \A e \in Day : Paged(e)' = Paged(e)
          /\ pc' = "sync" /\ flush' = flush
      BY <2>2, AppendFrameMoves
    <3>2. \A d \in Day : d # flush.day => Apart(d)
      BY <2>1, <3>1
    <3> QED
      BY <3>1, <3>2 DEF BoxesApart
  <2>3. CASE ReplayPut \/ AddPut
    <3>1. PICK d \in Day, s \in Sample :
             /\ Pt(s) \in Points \ InDays /\ dataFile' = dataFile
             /\ \A e \in Day : Paged(e)' = IF e = d THEN Paged(e) \cup {Pt(s)} ELSE Paged(e)
      BY <2>3, PutIsNew
    <3>2. \A e \in Day : Filed(e)' = Filed(e) /\ Pt(s) \notin Filed(e)
      BY <3>1, SameFile, InDaysParts
    <3>3. \A e \in Day : Apart(e)
      BY <2>1, <3>1, <3>2
    <3> QED
      BY <1>2, <3>3
  <2>4. UNCHANGED vars \/ Quiet => \A d \in Day : Paged(d)' = Paged(d) /\ Filed(d)' = Filed(d)
    BY QuietSame, SamePage, SameFile
  <2>5. OpenDatabase \/ Taken \/ ResetWAL => \A d \in Day : Paged(d)' = Paged(d) /\ Filed(d)' = Filed(d)
    BY OpenMoves, TakenMoves, ResetWALMoves DEF Taken
  <2>6. (\E useWAL \in BOOLEAN : LogSample(useWAL)) => \A d \in Day : Paged(d)' = Paged(d) /\ Filed(d)' = Filed(d)
    BY LogMoves, SamePage, SameFile
  <2>7. ASSUME \A d \in Day : Paged(d)' = Paged(d) /\ Filed(d)' = Filed(d) PROVE BoxesApart'
    BY <1>2, <2>1, <2>7
  <2> QED
    BY <1>1, <1>6, <2>2, <2>3, <2>4, <2>5, <2>6, <2>7, NextParts DEF Taken
<1>7. pc = "sync" => UNCHANGED vars \/ SyncFlushed \/ Halting
  BY <1>1, SyncIsNext DEF Halting
<1> QED
  BY <1>3, <1>4, <1>5, <1>6, <1>7

\* No record is put into a page twice, nor one that a file holds.
LEMMA OutsideKept ==
    ASSUME IInv, BookOK, [Next]_vars, faults' = 0, faults = 0, WaitOutside
    PROVE  WaitOutside'
<1> DEFINE Waits(i) == i \in DOMAIN replay.recs \ replay.durable /\ replay.pos <= i
<1>1. ~WriteFails /\ ~LogSyncFails
  BY DEF WriteFails, LogSyncFails
<1>2. ASSUME \/ replay' = replay
             \/ replay' = [replay EXCEPT !.pos = replay.pos + 1],
             InDays' \subseteq InDays
      PROVE  WaitOutside'
  <2>1. replay'.recs = replay.recs /\ replay'.durable = replay.durable /\ replay.pos \in Nat
        /\ replay'.pos \in Nat /\ replay.pos <= replay'.pos
    BY <1>2 DEF IInv, TypeOK, HandlerOK
  <2>2. ASSUME NEW i \in DOMAIN replay'.recs \ replay'.durable, replay'.pos <= i
        PROVE  Pt(replay'.recs[i]) \notin InDays'
    <3>1. i \in Nat /\ i \in DOMAIN replay.recs \ replay.durable
      BY <2>1, <2>2 DEF IInv, TypeOK, HandlerOK
    <3>2. replay.pos <= i
      BY <2>1, <2>2, <3>1
    <3> QED
      BY <1>2, <2>1, <3>1, <3>2 DEF WaitOutside
  <2> QED
    BY <2>2 DEF WaitOutside, Pt
<1>3. ASSUME replay'.recs = <<>> PROVE WaitOutside'
  BY <1>3 DEF WaitOutside
<1>4. replay' = NoReplay => replay'.recs = <<>>
  BY DEF NoReplay
<1>5. CASE UNCHANGED vars \/ Quiet
  <2>1. InDays' \subseteq InDays
    BY <1>5, QuietSame, SamePage, SameFile, InDaysParts, InDaysNext
  <2>2. ReplayDone => replay' = NoReplay
    BY DEF ReplayDone
  <2>3. ReplaySkip => replay' = [replay EXCEPT !.pos = replay.pos + 1]
    BY DEF ReplaySkip, Advance
  <2> QED
    BY <1>2, <1>3, <1>4, <1>5, <2>1, <2>2, <2>3, QuietReplay
<1>6. CASE Halting
  BY <1>3, <1>4, <1>6, HaltingStops, StopsMoves
<1>7. CASE Taken \/ ResetWAL \/ AppendFrame \/ SyncFlushed \/ (\E useWAL \in BOOLEAN : LogSample(useWAL))
  <2>1. replay' = replay
    BY <1>7, TakenMoves, ResetWALMoves, AppendFrameMoves, SyncFlushedMoves, LogMoves DEF Taken
  <2>2. \A d \in Day : Paged(d)' \cup Filed(d)' \subseteq Paged(d) \cup Filed(d)
    <3>1. Taken \/ ResetWAL => \A d \in Day : Paged(d)' = Paged(d) /\ Filed(d)' = Filed(d)
      BY TakenMoves, ResetWALMoves DEF Taken
    <3>2. AppendFrame \/ SyncFlushed => \A d \in Day : Paged(d)' \cup Filed(d)' \subseteq Paged(d) \cup Filed(d)
      BY AppendFrameMoves, SyncFlushedMoves
    <3>3. (\E useWAL \in BOOLEAN : LogSample(useWAL)) => \A d \in Day : Paged(d)' = Paged(d) /\ Filed(d)' = Filed(d)
      BY LogMoves, SamePage, SameFile
    <3> QED
      BY <1>7, <3>1, <3>2, <3>3
  <2>3. InDays' \subseteq InDays
    BY <2>2, InDaysParts, InDaysNext
  <2> QED
    BY <1>2, <2>1, <2>3
<1>8. CASE AddPut
  <2>1. replay' = replay /\ call.op = "add"
    BY <1>8, AddPutMoves
  <2>2. replay.recs = <<>>
    BY <2>1 DEF BookOK, ReplayOK, AtReplay, Replaying
  <2> QED
    BY <1>3, <2>1, <2>2
<1>9. CASE ReplayPut
  <2>1. PICK d \in Day, s \in Sample :
           /\ dataFile' = dataFile /\ Pt(s) = Pt(Rec)
           /\ \A e \in Day : Paged(e)' = IF e = d THEN Paged(e) \cup {Pt(s)} ELSE Paged(e)
    BY <1>9, PutIsNew
  <2>2. InDays' \subseteq InDays \cup {Pt(Rec)}
    BY <2>1, SameFile, InDaysParts, InDaysNext
  <2>3. /\ replay.pos \in DOMAIN replay.recs
        /\ replay' = [replay EXCEPT !.pos = replay.pos + 1]
    BY <1>9, ReplayPutMoves
  <2>4. replay'.recs = replay.recs /\ replay'.durable = replay.durable /\ replay'.pos = replay.pos + 1
    BY <2>3 DEF IInv, TypeOK, HandlerOK
  <2>5. ASSUME NEW i \in DOMAIN replay.recs \ replay.durable, replay.pos + 1 <= i
        PROVE  Pt(replay.recs[i]) \notin InDays'
    <3>1. i \in Nat /\ replay.pos \in Nat
      BY DEF IInv, TypeOK, HandlerOK
    <3>2. replay.pos < i /\ replay.pos <= i
      BY <2>5, <3>1
    <3>3. Rec.val < replay.recs[i].val
      BY <2>3, <2>5, <3>2 DEF BookOK, ReplayOK, Increasing, Rec
    <3>4. Rec.val \in Nat
      <4>1. Rec \in Record
        BY <1>9, ReplayPutMoves
      <4> QED
        BY <4>1 DEF Record
    <3>5. Pt(replay.recs[i]) # Pt(Rec)
      BY <3>3, <3>4 DEF Pt
    <3>6. Pt(replay.recs[i]) \notin InDays
      BY <2>5, <3>2 DEF WaitOutside
    <3> QED
      BY <2>2, <3>5, <3>6
  <2> QED
    BY <2>4, <2>5 DEF WaitOutside, Pt
<1>10. CASE OpenDatabase
  <2>1. CASE replay' = [recs |-> wal, pos |-> 1, durable |-> {i \in DOMAIN wal : BelowWatermark(wal[i])}]
    <3>1. Down /\ \A e \in Day : Filed(e)' = Filed(e) /\ Paged(e)' = Paged(e)
      BY <1>10, OpenMoves
    <3>2. \A d \in Day : Paged(d) = {}
      BY <3>1, PagedEmpty DEF BookOK, PagesOK
    <3>3. ASSUME NEW i \in DOMAIN wal, ~BelowWatermark(wal[i])
          PROVE  Pt(wal[i]) \notin InDays'
      <4>1. wal[i] \in Record /\ dataFile \in [Day -> Seq(Seq(Sample))]
        BY <3>3 DEF IInv, TypeOK, DiskOK
      <4>2. Late(Pt(wal[i])) /\ Pt(wal[i])[1] \in Nat
        <5>1. Late(Pt(wal[i]))
          BY <3>3, <4>1, Watermark
        <5> QED
          BY <4>1, <5>1, ConfigAssumption DEF Record, Pt
      <4>3. \A d \in Day : Pt(wal[i]) \notin Filed(d)
        BY <4>2 DEF Late, BookOK, PagesOK
      <4> QED
        BY <3>1, <3>2, <4>3, InDaysNext
    <3>4. replay'.recs = wal /\ replay'.durable = {i \in DOMAIN wal : BelowWatermark(wal[i])}
      BY <2>1
    <3> QED
      BY <3>3, <3>4 DEF WaitOutside, Pt
  <2>2. CASE replay' = replay
    <3>1. replay' = NoReplay
      BY <1>10, <2>2, OpenMoves DEF BookOK, PagesOK
    <3> QED
      BY <1>3, <1>4, <3>1
  <2> QED
    BY <1>10, <2>1, <2>2, OpenMoves
<1> QED
  BY <1>1, <1>5, <1>6, <1>7, <1>8, <1>9, <1>10, NextParts DEF Taken

LEMMA OnceKept ==
    ASSUME IInv, BookOK, OnceOK, [Next]_vars
    PROVE  OnceOK'
<1> SUFFICES ASSUME faults' = 0 PROVE FilesOnce' /\ PagesOnce' /\ BoxesApart' /\ WaitOutside'
  BY DEF OnceOK
<1>1. faults = 0
  <2>1. faults' = faults \/ (faults' = faults + 1 /\ faults \in Nat)
    BY PointsMove, TakenMoves DEF Taken, IInv, TypeOK, HistoryOK
  <2> QED
    BY <2>1
<1>2. FilesOnce /\ PagesOnce /\ BoxesApart /\ WaitOutside
  BY <1>1 DEF OnceOK
<1>3. FilesOnce'
  <2>1. CASE AppendFrame
    BY <1>2, <2>1, FilesOnceAppend
  <2>2. CASE dataFile' = dataFile
    BY <1>2, <2>2 DEF FilesOnce
  <2> QED
    BY <2>1, <2>2, FilesMove
<1>4. PagesOnce'
  <2>1. CASE ReplayPut \/ AddPut
    <3>1. PICK d \in Day, s \in Sample :
             page' = [page EXCEPT ![d] = Append(@, s)] /\ Pt(s) \in Points \ InDays
      BY <1>2, <2>1, PutIsNew
    <3>2. Pt(s) \notin Paged(d)
      BY <3>1, InDaysParts
    <3> QED
      BY <1>2, <3>1, <3>2, PagesOncePut
  <2>2. UNCHANGED vars \/ Quiet \/ OpenDatabase \/ Taken \/ ResetWAL => page' = page
    BY QuietSame, OpenMoves, TakenMoves, ResetWALMoves DEF Taken
  <2>3. (\E useWAL \in BOOLEAN : LogSample(useWAL)) \/ LogSyncFails \/ AppendFrame => page' = page
    BY LogMoves, AppendFrameMoves
  <2>4. SyncFlushed \/ Halting => \A d \in Day : page'[d] = page[d] \/ page'[d] = <<>>
    BY SyncFlushedMoves, HaltingStops, StopsMoves
  <2>5. page' = page => PagesOnce'
    BY <1>2 DEF PagesOnce
  <2> QED
    BY <1>2, <2>1, <2>2, <2>3, <2>4, <2>5, PagesOnceDrop, NextParts DEF Taken
<1> QED
  BY <1>1, <1>2, <1>3, <1>4, ApartKept, OutsideKept

LEMMA InitOnce == Init => OnceOK
<1> SUFFICES ASSUME Init PROVE OnceOK
  OBVIOUS
<1>1. \A d \in Day : dataFile[d] = <<>> /\ page[d] = <<>> /\ replay.recs = <<>>
  BY DEF Init, EmptyPages, NoReplay
<1>2. \A d \in Day : Paged(d) = {}
  BY <1>1, PagedEmpty
<1>3. replay.recs = <<>>
  BY DEF Init, NoReplay
<1>4. FilesOnce /\ PagesOnce
  BY <1>1 DEF FilesOnce, PagesOnce
<1> QED
  BY <1>2, <1>3, <1>4 DEF OnceOK, BoxesApart, WaitOutside

-----------------------------------------------------------------------------
(* What the invariant says of the samples that queries read.               *)

DurableInv == IInv /\ BookOK /\ SealsOK /\ DurableOK /\ CalmOK /\ OnceOK

LEMMA InitDurableInv == Init => DurableInv
BY InitIInv, InitBook, InitSeals, InitDurable, InitCalm, InitOnce DEF DurableInv

LEMMA NextDurableInv == DurableInv /\ [Next]_vars => DurableInv'
<1> SUFFICES ASSUME DurableInv, [Next]_vars PROVE DurableInv'
  OBVIOUS
<1> QED
  BY NextIInv, NextBook, SealsKept, DurableKept, CalmKept, OnceKept DEF DurableInv

\* The log, the pages and the files are what the proofs say they are, in every state.
THEOREM Durable == Spec => []DurableInv
BY InitDurableInv, NextDurableInv, PTL DEF Spec

\* A query of a day meets a sample in the frames of its file and in its page.
LEMMA FramesParts ==
    ASSUME IInv, NEW d \in Day
    PROVE  /\ Frames(d) \in Seq(Seq(Sample))
           /\ \A f \in DOMAIN dataFile[d] : f \in DOMAIN Frames(d) /\ Frames(d)[f] = dataFile[d][f]
           /\ page[d] # <<>> => /\ Len(dataFile[d]) + 1 \in DOMAIN Frames(d)
                                /\ Frames(d)[Len(dataFile[d]) + 1] = page[d]
           /\ \A f \in DOMAIN Frames(d) :
                f \in DOMAIN dataFile[d] \/ (page[d] # <<>> /\ f = Len(dataFile[d]) + 1)
<1>1. dataFile[d] \in Seq(Seq(Sample)) /\ page[d] \in Seq(Sample)
  BY DEF IInv, TypeOK, DiskOK, MemoryOK
<1> QED
  BY <1>1 DEF Frames

LEMMA PlacesParts ==
    ASSUME NEW d, NEW v
    PROVE  \A x : x \in Places(d, v) <=>
             \E f \in DOMAIN Frames(d) : \E k \in DOMAIN Frames(d)[f] :
                x = <<f, k>> /\ Frames(d)[f][k].val = v
<1> DEFINE ks(f) == {k \in DOMAIN Frames(d)[f] : Frames(d)[f][k].val = v}
           of(f) == {<<f, k>> : k \in ks(f)}
<1>1. Places(d, v) = UNION {of(f) : f \in DOMAIN Frames(d)}
  BY DEF Places
<1>2. \A f, x : x \in of(f) <=> \E k \in DOMAIN Frames(d)[f] : x = <<f, k>> /\ Frames(d)[f][k].val = v
  OBVIOUS
<1> HIDE DEF of
<1> QED
  BY <1>1, <1>2

\* A point in a page or a file is at some place.
LEMMA PointPlaced ==
    ASSUME IInv, NEW d \in Day, NEW p \in Paged(d) \cup Filed(d)
    PROVE  Places(d, p[2]) # {}
<1>1. CASE p \in Filed(d)
  <2>1. PICK f \in DOMAIN dataFile[d] : \E k \in DOMAIN dataFile[d][f] : p = Pt(dataFile[d][f][k])
    BY <1>1 DEF Filed
  <2>2. PICK k \in DOMAIN dataFile[d][f] : p = Pt(dataFile[d][f][k])
    BY <2>1
  <2>3. f \in DOMAIN Frames(d) /\ Frames(d)[f] = dataFile[d][f] /\ dataFile[d][f][k].val = p[2]
    BY <2>1, <2>2, FramesParts DEF Pt
  <2>4. <<f, k>> \in Places(d, p[2])
    BY <2>2, <2>3, PlacesParts
  <2> QED
    BY <2>4
<1>2. CASE p \in Paged(d)
  <2>1. PICK k \in DOMAIN page[d] : p = Pt(page[d][k])
    BY <1>2 DEF Paged
  <2> DEFINE n == Len(dataFile[d]) + 1
  <2>2. page[d] # <<>> /\ page[d][k].val = p[2]
    BY <2>1 DEF Pt
  <2>3. n \in DOMAIN Frames(d) /\ Frames(d)[n] = page[d]
    BY <2>2, FramesParts
  <2> HIDE DEF n
  <2>4. <<n, k>> \in Places(d, p[2])
    BY <2>1, <2>2, <2>3, PlacesParts
  <2> QED
    BY <2>4
<1> QED
  BY <1>1, <1>2

\* Between calls, what a sample's call promised is in a page or a file.
LEMMA SafeIsBoxed ==
    ASSUME DurableInv, pc = "idle", ReplayKeepsWAL, NEW a \in Safe
    PROVE  Boxed(a) /\ DayOf[a.ts] \in Day
<1>1. a \in Acked /\ a \in answered /\ DayOf[a.ts] \in Day
  BY DaysAreNumbers DEF Safe, Acked, DurableInv, IInv, TypeOK, HistoryOK
<1>2. CASE Calm
  BY <1>1, <1>2 DEF DurableInv, CalmOK, Boxed
<1>3. CASE WALProtected /\ a.val \in newest
  <2>1. OwedHeld /\ AckedKept
    BY <1>3 DEF DurableInv, DurableOK
  <2>2. CASE Pt(a) \in Logged
    <3>1. a.val \notin Failed
      BY <1>1 DEF DurableInv, BookOK, FlowOK, Failed, Acked
    <3>2. Pt(a) \in Owed /\ DayAt(Pt(a)) = DayOf[a.ts]
      BY <1>3, <2>2, <3>1 DEF Owed, Pt, DayAt
    <3>3. ~Replaying
      BY DEF DurableInv, BookOK, ReplayOK, AtReplay
    <3>4. ~Down /\ ~Paging /\ ~Pending(Pt(a))
      BY <3>3 DEF Down, Paging, Pending, Replaying
    <3> QED
      BY <1>1, <2>1, <3>2, <3>4 DEF OwedHeld, Boxed
  <2> QED
    BY <1>1, <1>3, <2>1, <2>2 DEF AckedKept, Boxed
<1> QED
  BY <1>2, <1>3 DEF Safe

LEMMA InvKept == DurableInv => EveryAckedSampleKept
<1> SUFFICES ASSUME DurableInv, pc = "idle", ReplayKeepsWAL, NEW a \in Safe
             PROVE  Places(DayOf[a.ts], a.val) # {}
  BY DEF EveryAckedSampleKept
<1>1. Boxed(a) /\ DayOf[a.ts] \in Day
  BY SafeIsBoxed
<1>2. Pt(a) \in Paged(DayOf[a.ts]) \cup Filed(DayOf[a.ts]) /\ Pt(a)[2] = a.val
  BY <1>1 DEF Boxed, Pt
<1> QED
  BY <1>1, <1>2, PointPlaced DEF DurableInv

\* Two places of one sample are one.
LEMMA OnePlace ==
    ASSUME DurableInv, pc = "idle", faults = 0, NEW d \in Day, NEW v,
           NEW x \in Places(d, v), NEW y \in Places(d, v)
    PROVE  x = y
<1>1. FilesOnce /\ PagesOnce /\ BoxesApart /\ IInv /\ PointsOK
  BY DEF DurableInv, OnceOK, BookOK
<1>a. PICK f \in DOMAIN Frames(d) : \E j \in DOMAIN Frames(d)[f] : x = <<f, j>> /\ Frames(d)[f][j].val = v
  BY PlacesParts
<1>2. PICK j \in DOMAIN Frames(d)[f] : x = <<f, j>> /\ Frames(d)[f][j].val = v
  BY <1>a
<1>b. PICK g \in DOMAIN Frames(d) : \E k \in DOMAIN Frames(d)[g] : y = <<g, k>> /\ Frames(d)[g][k].val = v
  BY PlacesParts
<1>3. PICK k \in DOMAIN Frames(d)[g] : y = <<g, k>> /\ Frames(d)[g][k].val = v
  BY <1>b
<1> DEFINE n == Len(dataFile[d]) + 1
<1>4. /\ \A h \in DOMAIN dataFile[d] : Frames(d)[h] = dataFile[d][h]
      /\ \A h \in DOMAIN Frames(d) : h \in DOMAIN dataFile[d] \/ (Frames(d)[h] = page[d] /\ h = n)
  BY <1>1, FramesParts
<1> HIDE DEF n
<1>5. ASSUME NEW h \in DOMAIN dataFile[d], NEW i \in DOMAIN dataFile[d][h], NEW m \in DOMAIN page[d]
      PROVE  dataFile[d][h][i].val # page[d][m].val
  <2> DEFINE p == Pt(dataFile[d][h][i])
             q == Pt(page[d][m])
  <2>1. p \in Filed(d)
    BY <1>5 DEF Filed
  <2>2. q \in Paged(d)
    BY <1>5 DEF Paged
  <2>3. p[2] = dataFile[d][h][i].val /\ q[2] = page[d][m].val
    BY DEF Pt
  <2> HIDE DEF p, q
  <2>4. p \in Points /\ q \in Points
    BY <2>1, <2>2, InDaysParts DEF Points
  <2>5. p # q
    BY <1>1, <2>1, <2>2 DEF BoxesApart
  <2> QED
    BY <1>1, <2>3, <2>4, <2>5, SameVal
<1>6. CASE f \in DOMAIN dataFile[d] /\ g \in DOMAIN dataFile[d]
  <2>1. Frames(d)[f] = dataFile[d][f] /\ Frames(d)[g] = dataFile[d][g]
    BY <1>4, <1>6
  <2>2. f = g /\ j = k
    BY <1>1, <1>2, <1>3, <1>6, <2>1 DEF FilesOnce
  <2> QED
    BY <1>2, <1>3, <2>2
<1>7. CASE f \notin DOMAIN dataFile[d] /\ g \notin DOMAIN dataFile[d]
  <2>1. Frames(d)[f] = page[d] /\ Frames(d)[g] = page[d] /\ f = n /\ g = n
    BY <1>4, <1>7
  <2>2. j = k
    BY <1>1, <1>2, <1>3, <2>1 DEF PagesOnce
  <2> QED
    BY <1>2, <1>3, <2>1, <2>2
<1>8. CASE f \in DOMAIN dataFile[d] /\ g \notin DOMAIN dataFile[d]
  <2>1. Frames(d)[f] = dataFile[d][f] /\ Frames(d)[g] = page[d]
    BY <1>4, <1>8
  <2> QED
    BY <1>2, <1>3, <1>5, <1>8, <2>1
<1>9. CASE f \notin DOMAIN dataFile[d] /\ g \in DOMAIN dataFile[d]
  <2>1. Frames(d)[f] = page[d] /\ Frames(d)[g] = dataFile[d][g]
    BY <1>4, <1>9
  <2> QED
    BY <1>2, <1>3, <1>5, <1>9, <2>1
<1> QED
  BY <1>6, <1>7, <1>8, <1>9

LEMMA InvOnce == DurableInv => EveryAckedSampleOnce
<1> SUFFICES ASSUME DurableInv, pc = "idle", faults = 0, NEW a \in Safe
             PROVE  Cardinality(Places(DayOf[a.ts], a.val)) = 1
  BY DEF EveryAckedSampleOnce
<1>1. ReplayKeepsWAL
  BY DEF ReplayKeepsWAL
<1>2. Boxed(a) /\ DayOf[a.ts] \in Day
  BY <1>1, SafeIsBoxed
<1> DEFINE P == Places(DayOf[a.ts], a.val)
<1>3. P # {}
  BY <1>1, InvKept DEF EveryAckedSampleKept
<1>4. PICK x : x \in P
  BY <1>3
<1>5. P = {x}
  BY <1>2, <1>4, OnePlace
<1> QED
  BY <1>5, FS_Singleton

LEMMA InvBacked == DurableInv => PagesBackedByWAL
<1> SUFFICES ASSUME DurableInv, WALProtected, ReplayKeepsWAL,
                    NEW d \in Day, NEW s \in Range(page[d])
             PROVE  \E r \in Range(wal) : r.val = s.val
  BY DEF PagesBackedByWAL
<1>1. PICK k \in DOMAIN page[d] : s = page[d][k]
  BY DEF Range
<1>2. Pt(s) \in Paged(d)
  BY <1>1 DEF Paged
<1>3. Pt(s) \in Logged
  BY <1>2 DEF DurableInv, DurableOK, PagesLogged
<1>4. PICK i \in DOMAIN wal : Pt(s) = Pt(wal[i])
  BY <1>3 DEF Logged
<1>5. wal[i] \in Range(wal) /\ wal[i].val = s.val
  BY <1>4 DEF Range, Pt
<1> QED
  BY <1>5

\* LAW 11: an acknowledged sample that was the newest of its day survives every crash, and
\* failed write, of a database whose WAL takes all samples; one of any other database is
\* there as long as nothing stopped or failed.
THEOREM AckedSamplesKept == Spec => []EveryAckedSampleKept
BY Durable, InvKept, PTL

\* And while no write fails, it is there once: replay doubles nothing.
THEOREM AckedSamplesOnce == Spec => []EveryAckedSampleOnce
BY Durable, InvOnce, PTL

\* LAW 11: the WAL is not reset while it alone could bring back a sample of an open page.
THEOREM PagesBacked == Spec => []PagesBackedByWAL
BY Durable, InvBacked, PTL

-----------------------------------------------------------------------------
(* The refinement: a protected database implements SampleLog.              *)

\* The calls whose samples the log or the files hold, and what SampleLog sees of them.
Written   == {p[2] : p \in Logged \cup UNION {Filed(d) : d \in Day}}
AckedVals == {a.val : a \in Acked}
LogStored == IF Claimed
             THEN (newest \ {a.val : a \in answered \ Acked}) \cap
                      ({r.val : r \in Range(wal)} \cup
                       {s.val : s \in UNION {Persisted(d) : d \in Day}})
             ELSE {}
LogAcked  == IF Claimed THEN newest \cap {a.val : a \in Acked} ELSE {}

LEMMA WrittenParts ==
    \A v : v \in Written <=> \/ \E p \in Logged : v = p[2]
                             \/ \E d \in Day : \E p \in Filed(d) : v = p[2]
BY DEF Written
LEMMA WrittenPartsNext ==
    \A v : v \in Written' <=> \/ \E p \in Logged' : v = p[2]
                              \/ \E d \in Day : \E p \in Filed(d)' : v = p[2]
BY DEF Written

\* The records and frames themselves, by the calls that sent them.
LEMMA WrittenIs ==
    {r.val : r \in Range(wal)} \cup {s.val : s \in UNION {Persisted(d) : d \in Day}} = Written
<1>1. ASSUME NEW v
      PROVE  v \in {r.val : r \in Range(wal)} <=> \E p \in Logged : v = p[2]
  <2>1. v \in {r.val : r \in Range(wal)} <=> \E i \in DOMAIN wal : v = wal[i].val
    BY DEF Range
  <2>2. \A p : p \in Logged <=> \E i \in DOMAIN wal : p = Pt(wal[i])
    BY DEF Logged
  <2>3. \A r : Pt(r)[2] = r.val
    BY DEF Pt
  <2>4. (\E p \in Logged : v = p[2]) <=> \E i \in DOMAIN wal : v = wal[i].val
    BY <2>2, <2>3
  <2> QED
    BY <2>1, <2>4
<1>2. ASSUME NEW v, NEW d
      PROVE  (\E s \in Persisted(d) : v = s.val) <=> \E p \in Filed(d) : v = p[2]
  <2> DEFINE In(s) == \E f \in DOMAIN dataFile[d] : \E k \in DOMAIN dataFile[d][f] : s = dataFile[d][f][k]
  <2>1. \A s : s \in Persisted(d) <=> \E x \in Range(dataFile[d]) : s \in Range(x)
    BY DEF Persisted
  <2>2. \A s : s \in Persisted(d) <=> \E f \in DOMAIN dataFile[d] : s \in Range(dataFile[d][f])
    BY <2>1 DEF Range
  <2>3. \A x, s : s \in Range(x) <=> \E k \in DOMAIN x : s = x[k]
    BY DEF Range
  <2>4. \A s : s \in Persisted(d) <=> In(s)
    BY <2>2, <2>3
  <2>5. \A p : p \in Filed(d) <=>
              \E f \in DOMAIN dataFile[d] : \E k \in DOMAIN dataFile[d][f] : p = Pt(dataFile[d][f][k])
    BY DEF Filed
  <2>6. \A r : Pt(r)[2] = r.val
    BY DEF Pt
  <2>7. (\E s \in Persisted(d) : v = s.val) <=>
           \E f \in DOMAIN dataFile[d] : \E k \in DOMAIN dataFile[d][f] : v = dataFile[d][f][k].val
    BY <2>4
  <2>8. (\E p \in Filed(d) : v = p[2]) <=>
           \E f \in DOMAIN dataFile[d] : \E k \in DOMAIN dataFile[d][f] : v = dataFile[d][f][k].val
    BY <2>5, <2>6
  <2> QED
    BY <2>7, <2>8
<1>3. ASSUME NEW v
      PROVE  v \in {s.val : s \in UNION {Persisted(d) : d \in Day}} <=> \E d \in Day : \E s \in Persisted(d) : v = s.val
  OBVIOUS
<1>4. ASSUME NEW v
      PROVE  v \in {r.val : r \in Range(wal)} \cup {s.val : s \in UNION {Persisted(d) : d \in Day}} <=> v \in Written
  BY <1>1, <1>2, <1>3, WrittenParts
<1> QED
  BY <1>4

\* How an action answers the call in progress.
LEMMA AnswerKinds ==
    ASSUME IInv, [Next]_vars
    PROVE  answered' = answered \/ (call.op = "add" /\ (Return(TRUE) \/ Return(FALSE)))
<1>1. Answering => answered' = answered \/ (call.op = "add" /\ (Return(TRUE) \/ Return(FALSE)))
  BY DEF Answering, Return
<1>2. UNCHANGED vars \/ Quiet \/ Halting => answered' = answered \/ Answering
  BY QuietMoves, HaltingStops DEF IInv, TypeOK
<1>3. OpenDatabase \/ Taken \/ ReplayPut \/ AddPut \/ AppendFrame \/ SyncFlushed => answered' = answered
  BY OpenMoves, TakenMoves, ReplayPutMoves, AddPutMoves, AppendFrameMoves, SyncFlushedMoves DEF Taken
<1>4. ResetWAL => answered' = answered \/ Answering
  BY ResetWALMoves
<1>5. (\E useWAL \in BOOLEAN : LogSample(useWAL)) \/ LogSyncFails => answered' = answered \/ Answering
  BY DEF LogSample, LogSyncFails, Answering
<1> QED
  BY <1>1, <1>2, <1>3, <1>4, <1>5, NextParts DEF Taken

LEMMA AnswerVals ==
    /\ answered' = answered => Failed' = Failed /\ AckedVals' = AckedVals
    /\ call.op = "add" /\ Return(TRUE) => Failed' = Failed /\ AckedVals' = AckedVals \cup {call.val}
    /\ call.op = "add" /\ Return(FALSE) => Failed' = Failed \cup {call.val} /\ AckedVals' = AckedVals
<1>1. answered' = answered => Failed' = Failed /\ AckedVals' = AckedVals
  BY DEF Failed, AckedVals, Acked
<1>2. ASSUME NEW ok \in BOOLEAN, call.op = "add", Return(ok)
      PROVE  /\ ok => Failed' = Failed /\ AckedVals' = AckedVals \cup {call.val}
             /\ ~ok => Failed' = Failed \cup {call.val} /\ AckedVals' = AckedVals
  <2> DEFINE a == [metric |-> call.metric, ts |-> call.ts, val |-> call.val, ok |-> ok]
  <2>1. answered' = answered \cup {a} /\ a.ok = ok /\ a.val = call.val
    BY <1>2 DEF Return
  <2> HIDE DEF a
  <2>2. CASE ok
    <3>1. Acked' = Acked \cup {a} /\ answered' \ Acked' = answered \ Acked
      BY <2>1, <2>2 DEF Acked
    <3>2. Failed' = Failed
      BY <3>1 DEF Failed
    <3>3. AckedVals' = AckedVals \cup {call.val}
      BY <2>1, <3>1 DEF AckedVals
    <3> QED
      BY <2>2, <3>2, <3>3
  <2>3. CASE ~ok
    <3>1. Acked' = Acked /\ answered' \ Acked' = (answered \ Acked) \cup {a}
      BY <2>1, <2>3 DEF Acked
    <3>2. Failed' = Failed \cup {call.val}
      BY <2>1, <3>1 DEF Failed
    <3>3. AckedVals' = AckedVals
      BY <3>1 DEF AckedVals
    <3> QED
      BY <2>3, <3>2, <3>3
  <2> QED
    BY <2>2, <2>3
<1> QED
  BY <1>1, <1>2

\* The sample of the call in progress has no answer yet.
LEMMA CallUnanswered ==
    ASSUME DurableInv, call.op = "add"
    PROVE  call.val \notin Failed /\ call.val \notin AckedVals /\ call.val \in 1..MaxCalls
<1>1. call.val = calls /\ \A a \in answered : a.val # call.val
  BY DEF DurableInv, BookOK, FlowOK
<1>2. Pt(call) \in Points /\ Pt(call)[2] = call.val
  BY DEF Points, Calling, Pt
<1>3. call.val \in 1..calls /\ calls <= MaxCalls /\ calls \in Nat /\ MaxCalls \in Nat
  BY <1>2, ConfigAssumption DEF DurableInv, BookOK, PointsOK, IInv, TypeOK, HistoryOK
<1>4. call.val \in 1..MaxCalls
  BY <1>3
<1> QED
  BY <1>1, <1>4 DEF Failed, AckedVals, Acked

\* A database that SampleLog describes keeps its log.
LEMMA ClaimHolds == DurableInv /\ Claimed => WALProtected /\ ReplayKeepsWAL
<1> SUFFICES ASSUME DurableInv, Claimed PROVE WALProtected /\ ReplayKeepsWAL
  OBVIOUS
<1>1. faults <= MaxFaults /\ faults \in Nat
  BY DEF DurableInv, BookOK, PointsOK, IInv, TypeOK, HistoryOK
<1>2. MaxFaults = 0 => faults = 0
  BY <1>1
<1> QED
  BY <1>2 DEF Claimed, ReplayKeepsWAL

\* Only LogSample and LogSyncFails write what was not in the log; only a reset of the log
\* takes away, and nothing of what is owed.
LEMMA WrittenMoves ==
    ASSUME DurableInv, Claimed, [Next]_vars
    PROVE  IF LogSyncFails \/ \E useWAL \in BOOLEAN : LogSample(useWAL)
           THEN Written' = Written \cup {call.val} /\ call.val \notin Written /\ call.op = "add"
           ELSE Written' \cap (newest \ Failed) = Written \cap (newest \ Failed)
<1>0. IInv /\ BookOK /\ WALProtected /\ ReplayKeepsWAL
  BY ClaimHolds DEF DurableInv
<1>1. CASE LogSyncFails \/ \E useWAL \in BOOLEAN : LogSample(useWAL)
  <2>1. \E r \in Record : wal' = Append(wal, r) /\ Pt(r) = Pt(call)
    <3>1. LogSyncFails \/ LogSample(TRUE)
      BY <1>0, <1>1 DEF LogSample, MaySkipWAL, WALProtected
    <3> QED
      BY <1>0, <3>1, LogMoves
  <2>2. Logged' = Logged \cup {Pt(call)}
    BY <1>0, <2>1, LoggedAppend DEF IInv, TypeOK, DiskOK
  <2>3. call.op = "add" /\ dataFile' = dataFile
    BY <1>0, <1>1, LogMoves
  <2>4. Pt(call)[2] = call.val
    BY DEF Pt
  <2>5. Written' = Written \cup {call.val}
    <3>1. \A d \in Day : Filed(d)' = Filed(d)
      BY <2>3, SameFile
    <3> QED
      BY <2>2, <2>4, <3>1, WrittenParts, WrittenPartsNext
  <2>6. pc = "log"
    BY <1>1 DEF LogSample, LogSyncFails
  <2>7. \A p \in Logged \cup InDays : p[2] # call.val
    BY <1>0, <2>6 DEF BookOK, FlowOK
  <2>8. call.val \notin Written
    BY <2>7, WrittenParts, InDaysParts
  <2> QED
    BY <1>1, <2>3, <2>5, <2>8
<1>2. CASE ResetWAL
  <2>1. /\ Logged' = {} /\ \A e \in Day : Filed(e)' = Filed(e)
        /\ pc = "reset" /\ \A d \in Day : page[d] = <<>>
    BY <1>0, <1>2, ResetWALMoves
  <2>2. Written' \subseteq Written
    BY <2>1, WrittenParts, WrittenPartsNext
  <2>3. ASSUME NEW v \in Written, v \in newest \ Failed PROVE v \in Written'
    <3>1. ASSUME NEW p \in Logged, v = p[2] PROVE v \in Written'
      <4>1. p \in Owed
        BY <2>3, <3>1 DEF Owed
      <4>2. DayAt(p) \in Day
        BY <1>0, <3>1, PointDay DEF Points, BookOK
      <4>3. ~Down /\ ~Paging /\ Paged(DayAt(p)) = {}
        BY <2>1, <4>2, PagedEmpty DEF Down, Paging
      <4>4. ~Replaying
        BY <1>0, <1>2, NoResetInReplay DEF DurableInv
      <4>5. ~Pending(p)
        BY <4>4 DEF Pending, Replaying
      <4>6. p \in Filed(DayAt(p))
        BY <1>0, <4>1, <4>3, <4>5 DEF DurableInv, DurableOK, OwedHeld
      <4> QED
        BY <2>1, <3>1, <4>2, <4>6, WrittenPartsNext
    <3>2. ASSUME NEW d \in Day, NEW p \in Filed(d), v = p[2] PROVE v \in Written'
      BY <2>1, <3>2, WrittenPartsNext
    <3> QED
      BY <2>3, <3>1, <3>2, WrittenParts
  <2>4. pc # "log"
    BY <2>1
  <2>5. ~(LogSyncFails \/ \E useWAL \in BOOLEAN : LogSample(useWAL))
    BY <2>4 DEF LogSample, LogSyncFails
  <2> QED
    BY <2>2, <2>3, <2>5
<1>3. CASE AppendFrame
  <2>1. /\ \A e \in Day : Filed(e)' = IF e = flush.day THEN Filed(e) \cup Paged(e) ELSE Filed(e)
        /\ wal' = wal /\ pc = "flush"
    BY <1>0, <1>3, AppendFrameMoves
  <2>2. \A d \in Day : Paged(d) \subseteq Logged
    BY <1>0 DEF DurableInv, DurableOK, PagesLogged
  <2>3. Logged' = Logged
    BY <2>1, SameLog
  <2>4. Written' = Written
    BY <2>1, <2>2, <2>3, WrittenParts, WrittenPartsNext
  <2>5. ~(LogSyncFails \/ \E useWAL \in BOOLEAN : LogSample(useWAL))
    BY <2>1 DEF LogSample, LogSyncFails
  <2> QED
    BY <2>4, <2>5
<1>4. CASE ~AppendFrame /\ ~ResetWAL /\ ~(LogSyncFails \/ \E useWAL \in BOOLEAN : LogSample(useWAL))
  <2>1. \A d \in Day : Filed(d)' = Filed(d)
    BY <1>0, <1>4, FilesMove
  <2>2. Logged' = Logged
    <3>1. UNCHANGED vars \/ Quiet \/ Halting => Logged' = Logged
      BY <1>0, QuietSame, HaltingStops, SameLog
    <3>2. OpenDatabase \/ Taken => Logged' = Logged
      BY <1>0, OpenMoves, TakenMoves, LoggedEmpty DEF Taken, WALProtected
    <3>3. ReplayPut \/ AddPut \/ SyncFlushed => Logged' = Logged
      BY <1>0, ReplayPutMoves, AddPutMoves, SyncFlushedMoves, SameLog
    <3> QED
      BY <1>0, <1>4, <3>1, <3>2, <3>3, NextParts DEF Taken
  <2>3. Written' = Written
    BY <2>1, <2>2, WrittenParts, WrittenPartsNext
  <2> QED
    BY <1>4, <2>3
<1> QED
  BY <1>1, <1>2, <1>3, <1>4

\* What SampleLog sees, in these terms.
LEMMA LogSees ==
    Claimed => LogStored = (newest \ Failed) \cap Written /\ LogAcked = newest \cap AckedVals
BY WrittenIs DEF LogStored, LogAcked, Failed, AckedVals

\* What a step of the database is to SampleLog.
LogStep ==
    \/ UNCHANGED <<LogStored, LogAcked>>
    \/ \E v \in 1..MaxCalls :
         \/ v \notin LogStored /\ LogStored' = LogStored \cup {v} /\ UNCHANGED LogAcked
         \/ v \in LogStored /\ LogAcked' = LogAcked \cup {v} /\ UNCHANGED LogStored
         \/ v \notin LogAcked /\ LogStored' = LogStored \ {v} /\ UNCHANGED LogAcked

LEMMA StepIsLogStep ==
    ASSUME DurableInv, [Next]_vars, Claimed,
           LogStored = (newest \ Failed) \cap Written, LogAcked = newest \cap AckedVals,
           LogStored' = (newest' \ Failed') \cap Written', LogAcked' = newest' \cap AckedVals'
    PROVE  LogStep
<1>0. IInv /\ BookOK /\ WALProtected /\ ReplayKeepsWAL
  BY ClaimHolds DEF DurableInv
<1>1. CASE Taken
  <2>1. /\ answered' = answered /\ Logged' = Logged /\ (newest' = newest \/ newest' = newest \cup {calls + 1})
        /\ \A d \in Day : Filed(d)' = Filed(d)
    BY <1>0, <1>1, TakenMoves DEF Taken
  <2>2. Written' = Written
    BY <2>1, WrittenParts, WrittenPartsNext
  <2>3. \A p \in Points : p[2] # calls + 1
    BY <1>0 DEF BookOK, PointsOK, IInv, TypeOK, HistoryOK
  <2>4. calls + 1 \notin Written
    BY <2>3, WrittenParts, InDaysParts DEF Points
  <2>5. calls + 1 \notin AckedVals
    <3>1. \A a \in Acked : Pt(a) \in Points /\ Pt(a)[2] = a.val
      BY DEF Acked, Points, Answers, Pt
    <3> QED
      BY <2>3, <3>1 DEF AckedVals
  <2>6. Failed' = Failed /\ AckedVals' = AckedVals
    BY <2>1, AnswerVals
  <2>7. LogStored' = LogStored /\ LogAcked' = LogAcked
    BY <2>1, <2>2, <2>4, <2>5, <2>6
  <2> QED
    BY <2>7 DEF LogStep
<1>2. ASSUME NEW useWAL \in BOOLEAN, LogSample(useWAL)
      PROVE  LogStep
  <2>1. answered' = answered /\ newest' = newest
    BY <1>2 DEF LogSample
  <2>2. Written' = Written \cup {call.val} /\ call.val \notin Written /\ call.op = "add"
    BY <1>2, WrittenMoves
  <2>3. Failed' = Failed /\ AckedVals' = AckedVals
    BY <2>1, AnswerVals
  <2>4. call.val \notin Failed /\ call.val \in 1..MaxCalls
    BY <2>2, CallUnanswered
  <2>5. CASE call.val \in newest
    <3>1. /\ call.val \notin LogStored /\ LogStored' = LogStored \cup {call.val}
          /\ LogAcked' = LogAcked
      BY <2>1, <2>2, <2>3, <2>4, <2>5
    <3> QED
      BY <2>4, <3>1 DEF LogStep
  <2>6. CASE call.val \notin newest
    <3>1. LogStored' = LogStored /\ LogAcked' = LogAcked
      BY <2>1, <2>2, <2>3, <2>6
    <3> QED
      BY <3>1 DEF LogStep
  <2> QED
    BY <2>5, <2>6
<1>3. CASE LogSyncFails
  <2>1. Written' = Written \cup {call.val} /\ call.val \notin Written /\ call.op = "add"
    BY <1>3, WrittenMoves
  <2>2. newest' = newest /\ Return(FALSE)
    BY <1>3 DEF LogSyncFails
  <2>3. Failed' = Failed \cup {call.val} /\ AckedVals' = AckedVals
    BY <2>1, <2>2, AnswerVals
  <2>4. LogStored' = LogStored /\ LogAcked' = LogAcked
    BY <2>1, <2>2, <2>3
  <2> QED
    BY <2>4 DEF LogStep
<1>4. CASE ~Taken /\ ~LogSyncFails /\ ~\E useWAL \in BOOLEAN : LogSample(useWAL)
  <2>1. newest' = newest
    BY <1>0, <1>4, PointsMove
  <2>2. Written' \cap (newest \ Failed) = Written \cap (newest \ Failed)
    BY <1>4, WrittenMoves
  <2>3. CASE answered' = answered
    <3>1. Failed' = Failed /\ AckedVals' = AckedVals
      BY <2>3, AnswerVals
    <3>2. LogStored' = LogStored /\ LogAcked' = LogAcked
      BY <2>1, <2>2, <3>1
    <3> QED
      BY <3>2 DEF LogStep
  <2>4. CASE call.op = "add" /\ Return(FALSE)
    <3>1. Failed' = Failed \cup {call.val} /\ AckedVals' = AckedVals
      BY <2>4, AnswerVals
    <3>2. call.val \notin AckedVals /\ call.val \in 1..MaxCalls
      BY <2>4, CallUnanswered
    <3>3. call.val \notin LogAcked /\ LogStored' = LogStored \ {call.val} /\ LogAcked' = LogAcked
      BY <2>1, <2>2, <3>1, <3>2
    <3> QED
      BY <3>2, <3>3 DEF LogStep
  <2>5. CASE call.op = "add" /\ Return(TRUE) /\ answered' # answered
    <3>1. Failed' = Failed /\ AckedVals' = AckedVals \cup {call.val}
      BY <2>5, AnswerVals
    <3>2. call.val \notin Failed /\ call.val \in 1..MaxCalls
      BY <2>5, CallUnanswered
    <3>3. Aging \/ Filling
      <4>1. PICK a \in answered' : a \notin answered
        BY <1>0, <2>5, AnswersGrow
      <4>2. a.ok
        BY <2>5, <4>1 DEF Return
      <4> QED
        BY <1>0, <4>1, <4>2, NewAck
    <3>4. DayOf[call.ts] \in Day
      BY <1>0, <2>5, DaysAreNumbers DEF IInv, CallOK
    <3>5. Pt(call) \in Paged(DayOf[call.ts]) \cup Filed(DayOf[call.ts])
      BY <1>0, <3>3, <3>4 DEF BookOK, FlowOK
    <3>6. Pt(call) \in Logged \/ Pt(call) \in Filed(DayOf[call.ts])
      BY <1>0, <3>4, <3>5 DEF DurableInv, DurableOK, PagesLogged
    <3>7. call.val \in Written
      <4>1. Pt(call)[2] = call.val
        BY DEF Pt
      <4> QED
        BY <3>4, <3>6, <4>1, WrittenParts
    <3>8. LogStored' = LogStored
      BY <2>1, <2>2, <3>1
    <3>9. CASE call.val \in newest
      <4>1. call.val \in LogStored /\ LogAcked' = LogAcked \cup {call.val}
        BY <2>1, <3>1, <3>2, <3>7, <3>9
      <4> QED
        BY <3>2, <3>8, <4>1 DEF LogStep
    <3>10. CASE call.val \notin newest
      <4>1. LogAcked' = LogAcked
        BY <2>1, <3>1, <3>10
      <4> QED
        BY <3>8, <4>1 DEF LogStep
    <3> QED
      BY <3>9, <3>10
  <2> QED
    BY <1>0, <2>3, <2>4, <2>5, AnswerKinds
<1> QED
  BY <1>1, <1>2, <1>3, <1>4

LEMMA LogSeesNext ==
    (Claimed => LogStored = (newest \ Failed) \cap Written /\ LogAcked = newest \cap AckedVals)'
BY LogSees, PTL

LEMMA NextLog == DurableInv /\ [Next]_vars => [Log!Next]_<<LogStored, LogAcked>>
<1> SUFFICES ASSUME DurableInv, [Next]_vars PROVE [Log!Next]_<<LogStored, LogAcked>>
  OBVIOUS
<1>1. Claimed' = Claimed
  BY AnswersGrow DEF DurableInv, Claimed, WALProtected
<1>2. CASE Claimed
  <2>1. LogStep
    BY <1>1, <1>2, LogSees, LogSeesNext, StepIsLogStep
  <2> QED
    BY <2>1 DEF LogStep, Log!Next, Log!Store, Log!Acknowledge, Log!Drop, LogStored, LogAcked
<1>3. CASE ~Claimed
  BY <1>1, <1>3 DEF LogStored, LogAcked
<1> QED
  BY <1>2, <1>3

LEMMA InitLog == Init => Log!Init
BY DEF Init, Log!Init, Acked

\* Through crashes, failed writes and the replays that follow, a protected database is a
\* log of samples that keeps what it acknowledged.
THEOREM ImplementsSampleLog == Spec => LogSpec
<1>1. DurableInv /\ [Next]_vars => [Log!Next]_<<LogStored, LogAcked>>
  BY NextLog
<1>2. Init => Log!Init
  BY InitLog
<1> QED
  BY <1>1, <1>2, Durable, PTL DEF Spec, LogSpec, Log!Spec, LogStored, LogAcked

(***************************************************************************)
(* The names of the ids: those the catalog in memory holds, and while the  *)
(* process is down or replays, those the catalog file and the log hold     *)
(* between them.                                                           *)
(***************************************************************************)
Named       == {m \in Metric : catalog[m] # 0}
NamedOnDisk == {m \in Metric : catalogFile[m] # 0}
Learnt      == {k \in DOMAIN wal : wal[k].name # NoName}

KnownNames == {<<m, catalog[m]>> : m \in Named}
FileNames  == {<<m, catalogFile[m]>> : m \in NamedOnDisk}
LogNames   == {<<wal[k].name, wal[k].id>> : k \in Learnt}
Names      == IF Down \/ Replaying THEN FileNames \cup LogNames ELSE KnownNames

\* A sample by its id and its call, and where such marks are.
Mark(s)      == <<s.id, s.val>>
LogMarks     == {Mark(wal[i]) : i \in DOMAIN wal}
PageMarks(d) == {Mark(page[d][k]) : k \in DOMAIN page[d]}
FileMarks(d) ==
    UNION {{Mark(dataFile[d][f][k]) : k \in DOMAIN dataFile[d][f]} : f \in DOMAIN dataFile[d]}
Marks        == LogMarks \cup UNION {PageMarks(d) \cup FileMarks(d) : d \in Day}

(***************************************************************************)
(* The invariant, part by part.                                            *)
(***************************************************************************)

\* The log takes every sample and no replay resets it; or nothing went wrong yet.
Trusted == Calm \/ (WALProtected /\ ReplayKeepsWAL)

\* Ids are given to names one to one, and counted up from 1.
OneToOne(S) == \A x, y \in S : x[1] = y[1] <=> x[2] = y[2]
Numbered(S) == \A x \in S : x[2] \in 1..Cardinality(S)

\* A catalog that is not dirty is in its file.
FileFresh == (Down => ~dirty) /\ (~Down /\ ~dirty => catalog = catalogFile)

\* What the catalog file does not hold yet the log holds.
FileBacked == ~Down /\ ~Replaying /\ WALProtected => KnownNames = FileNames \cup LogNames

\* Replay has learnt the names of the records it went through, and no others.
ReplayNames ==
    Replaying =>
        /\ FileNames \subseteq KnownNames /\ KnownNames \subseteq Names
        /\ \A i \in DOMAIN replay.recs :
             i < replay.pos /\ replay.recs[i].name # NoName =>
                 <<replay.recs[i].name, replay.recs[i].id>> \in KnownNames

CatalogOK == OneToOne(Names) /\ Numbered(Names) /\ FileFresh /\ FileBacked /\ ReplayNames

\* The first record of a metric is the one that carries its name.
FreshOK == Ensuring \/ pc = "log" => (call.fresh <=> ~Known(call.metric))

\* A stored sample has the id of the metric its call named.
MarksOK ==
    \A x \in Marks :
        /\ \A a \in answered : a.val = x[2] => <<a.metric, x[1]>> \in Names
        /\ call.op = "add" /\ call.val = x[2] => <<call.metric, x[1]>> \in Names

NamesOK  == FreshOK /\ (Trusted => CatalogOK /\ MarksOK)
NamesInv == DurableInv /\ NamesOK

-----------------------------------------------------------------------------
(* Which steps write the catalog, its file and the names in the log.       *)

SameNames == UNCHANGED <<wal, catalog, catalogFile, dirty>>

\* The catalog goes to its file.
Saves == /\ catalogFile' = catalog /\ dirty' = FALSE /\ UNCHANGED <<wal, catalog>>
         /\ UNCHANGED replay /\ ~Down /\ ~Down'

\* Nothing moves.
Rests == SameNames /\ UNCHANGED replay /\ (Down' <=> Down)

Logs == LogSyncFails \/ \E useWAL \in BOOLEAN : LogSample(useWAL)

LEMMA AnsweringRests == Answering => UNCHANGED replay /\ ~Down'
BY AnsweringMoves DEF Down

LEMMA QuietNames ==
    ASSUME IInv, Quiet
    PROVE  Rests \/ Saves \/ ReplayRecord \/ ReplayDone
<1>1. ASSUME ReplaySkip \/ ReplaySeal \/ ReplayReorder \/ ReplayDone
      PROVE  ReplayRecord \/ ReplayDone
  BY <1>1 DEF ReplaySkip, ReplaySeal, ReplayReorder
<1>2. ASSUME DayIsSealed \/ RejectMetric \/ FinishAdd
      PROVE  Rests
  <2>1. Answering /\ SameNames /\ ~Down
    BY <1>2 DEF DayIsSealed, RejectMetric, FinishAdd, Answering, SameNames, Down
  <2> QED
    BY <2>1, AnsweringRests DEF Rests
<1>3. ASSUME EnsureDayOpen \/ FlushOwnPage \/ DrainDone
             \/ (\E d \in Day : FlushAged(d) \/ DrainPage(d))
             \/ (\E op \in {"flush", "close"} : BeginDrain(op))
      PROVE  Rests
  BY <1>3 DEF EnsureDayOpen, StartSeal, StartFlush, FlushOwnPage, DrainDone, FlushAged, DrainPage,
     BeginDrain, Rests, SameNames, Down
<1>4. ASSUME AddRetry \/ AddRefuse PROVE Rests
  <2>1. SameNames /\ ~Down /\ UNCHANGED replay
    BY <1>4, AnsweringRests DEF AddRetry, AddRefuse, AddToPage, SameNames, Down, Answering
  <2>2. ~Down'
    BY <1>4 DEF AddRetry, AddRefuse, StartFlush, Return, Down
  <2> QED
    BY <2>1, <2>2 DEF Rests
<1>5. ASSUME KeepWAL PROVE Rests
  <2>1. SameNames /\ ~Down
    BY <1>5 DEF KeepWAL, SameNames, Down
  <2>2. UNCHANGED replay /\ ~Down'
    BY <1>5 DEF KeepWAL, AfterReset, Return, Down
  <2> QED
    BY <2>1, <2>2 DEF Rests
<1>6. ASSUME CatalogBeforeReset PROVE Saves
  BY <1>6 DEF CatalogBeforeReset, Saves, Down
<1>7. ASSUME PersistDone PROVE Rests \/ Saves
  <2>1. /\ pc = "persist" /\ catalogFile' = CatalogOnDisk /\ call.op # "close" /\ Answering
        /\ dirty' = FALSE /\ UNCHANGED <<wal, catalog>>
    BY <1>7 DEF PersistDone, PersistCatalog, Answering
  <2>2. UNCHANGED replay /\ ~Down /\ ~Down'
    BY <2>1, AnsweringRests DEF Down
  <2>3. dirty \in BOOLEAN
    BY DEF IInv, TypeOK, MemoryOK
  <2>4. CASE dirty
    BY <2>1, <2>2, <2>4 DEF Saves, CatalogOnDisk
  <2>5. CASE ~dirty
    BY <2>1, <2>2, <2>3, <2>5 DEF Rests, SameNames, CatalogOnDisk
  <2> QED
    BY <2>4, <2>5
<1>8. ASSUME FailClose PROVE Rests
  BY <1>8 DEF FailClose, WriteFails, Rests, SameNames, Down
<1>9. ASSUME FailReturn PROVE Rests
  <2>1. SameNames /\ ~Down /\ Answering
    BY <1>9 DEF FailReturn, WriteFails, SameNames, Down, Answering
  <2> QED
    BY <2>1, AnsweringRests DEF Rests
<1> QED
  BY <1>1, <1>2, <1>3, <1>4, <1>5, <1>6, <1>7, <1>8, <1>9 DEF Quiet

LEMMA NamesParts ==
    ASSUME IInv, [Next]_vars
    PROVE  \/ Rests \/ Saves \/ ReplayRecord \/ ReplayDone
           \/ Logs \/ ResetWAL \/ OpenDatabase \/ Halting
<1>1. UNCHANGED vars => Rests
  BY DEF Rests, SameNames, Down
<1>2. Taken => Rests
  BY TakenMoves DEF Taken, Rests, SameNames, Down
<1>3. AddPut => Rests
  <2>1. AddPut => UNCHANGED <<wal, catalog, catalogFile, dirty, replay>> /\ ~Down /\ ~Down'
    BY AddPutMoves DEF AddPut, AddToPage, Down
  <2> QED
    BY <2>1 DEF Rests, SameNames
<1>4. AppendFrame => Rests
  BY DEF AppendFrame, Rests, SameNames, Down
<1>5. ReplayPut => ReplayRecord
  BY DEF ReplayPut
<1>6. SyncFlushed => Rests \/ Saves
  <2>1. SyncFlushed => UNCHANGED <<wal, catalog, replay>> /\ pc = "sync" /\ pc' = AfterSync
                       /\ ((catalogFile' = catalog /\ dirty' = FALSE) \/ UNCHANGED <<catalogFile, dirty>>)
    BY DEF SyncFlushed
  <2>2. AfterSync \notin {"down", "closed"}
    BY DEF AfterSync, IInv, TypeOK, HandlerOK
  <2> QED
    BY <2>1, <2>2 DEF Rests, Saves, SameNames, Down
<1> QED
  BY <1>1, <1>2, <1>3, <1>4, <1>5, <1>6, QuietNames, NextParts DEF Taken, Logs


-----------------------------------------------------------------------------
(* The names of the ids.                                                   *)

LEMMA SameKnown == catalog' = catalog => KnownNames' = KnownNames
BY DEF KnownNames, Named
LEMMA SameFileNames == catalogFile' = catalogFile => FileNames' = FileNames
BY DEF FileNames, NamedOnDisk
LEMMA SameLogNames == wal' = wal => LogNames' = LogNames
BY DEF LogNames, Learnt
LEMMA NoLogNames == wal = <<>> => LogNames = {}
BY DEF LogNames, Learnt
LEMMA SavedNames == catalogFile' = catalog => FileNames' = KnownNames
BY DEF FileNames, NamedOnDisk, KnownNames, Named
LEMMA LoadedNames == catalog' = catalogFile => KnownNames' = FileNames
BY DEF FileNames, NamedOnDisk, KnownNames, Named

\* The catalog in memory names as many ids as it has metrics.
LEMMA KnownCount ==
    IsFiniteSet(KnownNames) /\ Cardinality(KnownNames) = Cardinality(Registered)
<1> DEFINE f == [m \in Registered |-> <<m, catalog[m]>>]
<1>1. Registered = Named
  BY DEF Registered, Known, Named
<1>2. IsFiniteSet(Registered)
  BY FS_Subset, ConfigAssumption DEF Registered
<1>3. f \in Bijection(Registered, KnownNames)
  BY <1>1 DEF KnownNames, Bijection, Injection, Surjection, IsInjective
<1>4. ExistsBijection(Registered, KnownNames)
  BY <1>3 DEF ExistsBijection
<1> QED
  BY <1>2, <1>4, FS_Bijection

\* The names as they were, or one more with the next id.
LEMMA NamesStay ==
    ASSUME OneToOne(Names), Numbered(Names), Names' = Names
    PROVE  OneToOne(Names') /\ Numbered(Names')
OBVIOUS

LEMMA OneMoreName ==
    ASSUME NEW S, NEW m, IsFiniteSet(S), OneToOne(S), Numbered(S), \A x \in S : x[1] # m
    PROVE  /\ OneToOne(S \cup {<<m, Cardinality(S) + 1>>})
           /\ Numbered(S \cup {<<m, Cardinality(S) + 1>>})
<1> DEFINE n == Cardinality(S)
           y == <<m, n + 1>>
           T == S \cup {y}
<1>1. n \in Nat
  BY FS_CardinalityType
<1>2. y \notin S /\ y[1] = m /\ y[2] = n + 1
  OBVIOUS
<1>3. Cardinality(T) = n + 1
  BY <1>2, FS_AddElement
<1>4. \A x \in S : x[2] \in 1..n /\ x[1] # m
  BY DEF Numbered
<1>5. \A x \in S : x[2] # y[2] /\ x[1] # y[1]
  BY <1>1, <1>2, <1>4
<1>6. OneToOne(T)
  BY <1>5 DEF OneToOne
<1>7. Numbered(T)
  BY <1>1, <1>2, <1>3, <1>4 DEF Numbered
<1> QED
  BY <1>6, <1>7

\* What holds with a database that is trusted.
LEMMA TrustedBefore ==
    ASSUME DurableInv, [Next]_vars, Trusted'
    PROVE  Trusted /\ config' = config
<1>1. config' = config /\ (ReplayKeepsWAL' => ReplayKeepsWAL)
  BY AnswersGrow DEF DurableInv
<1>2. Calm' => Calm
  BY CalmBefore DEF DurableInv
<1> QED
  BY <1>1, <1>2 DEF Trusted, WALProtected

LEMMA TrustedReplay ==
    ASSUME DurableInv, Trusted
    PROVE  /\ Replaying => WALProtected /\ ReplayKeepsWAL /\ wal = replay.recs /\ AtReplay
           /\ Down => ~Replaying
           /\ Calm => ~Replaying /\ (Down => wal = <<>>)
<1>1. Calm => ~Replaying /\ (Down => wal = <<>>)
  BY DEF DurableInv, CalmOK
<1>2. Replaying => WALProtected /\ ReplayKeepsWAL /\ wal = replay.recs /\ AtReplay
  BY <1>1 DEF Trusted, DurableInv, DurableOK, BookOK, ReplayOK
<1>3. Down => ~Replaying
  BY DEF DurableInv, BookOK, PagesOK, NoReplay, Replaying
<1> QED
  BY <1>1, <1>2, <1>3

LEMMA RestsNames ==
    ASSUME CatalogOK, config' = config, Rests
    PROVE  CatalogOK' /\ Names' = Names
<1>1. /\ KnownNames' = KnownNames /\ FileNames' = FileNames /\ LogNames' = LogNames
      /\ Replaying' = Replaying /\ Down' = Down
  BY SameKnown, SameFileNames, SameLogNames DEF Rests, SameNames, Replaying, Down
<1>2. Names' = Names
  BY <1>1 DEF Names
<1>3. OneToOne(Names') /\ Numbered(Names')
  BY <1>2 DEF CatalogOK
<1>4. FileFresh' /\ FileBacked'
  BY <1>1 DEF CatalogOK, FileFresh, FileBacked, Rests, SameNames, WALProtected
<1>5. ReplayNames'
  BY <1>1, <1>2 DEF CatalogOK, ReplayNames, Rests
<1> QED
  BY <1>2, <1>3, <1>4, <1>5 DEF CatalogOK, OneToOne, Numbered

LEMMA SavesNames ==
    ASSUME CatalogOK, config' = config, Saves
    PROVE  CatalogOK' /\ Names' = Names
<1>1. /\ KnownNames' = KnownNames /\ FileNames' = KnownNames /\ LogNames' = LogNames
      /\ Replaying' = Replaying /\ ~Down /\ ~Down'
  BY SameKnown, SavedNames, SameLogNames DEF Saves, Replaying
<1>2. Names' = Names
  <2>1. Replaying => FileNames \subseteq KnownNames /\ KnownNames \subseteq FileNames \cup LogNames
    BY DEF CatalogOK, ReplayNames, Names
  <2> QED
    BY <1>1, <2>1 DEF Names
<1>3. OneToOne(Names') /\ Numbered(Names')
  BY <1>2 DEF CatalogOK
<1>4. FileFresh'
  BY <1>1 DEF FileFresh, Saves
<1>5. FileBacked'
  BY <1>1 DEF CatalogOK, FileBacked, WALProtected
<1>6. ReplayNames'
  BY <1>1, <1>2 DEF CatalogOK, ReplayNames, Saves
<1> QED
  BY <1>2, <1>3, <1>4, <1>5, <1>6 DEF CatalogOK, OneToOne, Numbered


\* Replay learns the name of a record, or knows it already.
LEMMA ReplayRecordNames ==
    ASSUME DurableInv, Trusted, CatalogOK, config' = config, ReplayRecord
    PROVE  CatalogOK' /\ Names' = Names
<1>1. /\ pc = "replay" /\ replay.pos \in DOMAIN replay.recs /\ Rec \in Record
      /\ Rec.name # NoName => ~EnsureConflict(Rec)
      /\ IF Rec.name # NoName /\ ~Known(Rec.name) THEN Register(Rec.name, Rec.id)
         ELSE UNCHANGED <<catalog, idToName, dirty>>
      /\ UNCHANGED <<wal, catalogFile>>
  BY DEF ReplayRecord, Rec, DurableInv, IInv, TypeOK, HandlerOK
<1>2. replay'.recs = replay.recs /\ (replay'.pos = replay.pos \/ replay'.pos = replay.pos + 1)
  BY DEF ReplayRecord, DurableInv, IInv, TypeOK, HandlerOK
<1>3. Replaying /\ Replaying' /\ ~Down /\ wal = replay.recs
  BY <1>1, <1>2, TrustedReplay DEF Replaying, DurableInv, BookOK, ReplayOK, Down
<1>4. ~Down'
  BY <1>1 DEF ReplayRecord, StartSeal, StartFlush, Down
<1>5. FileNames' = FileNames /\ LogNames' = LogNames /\ Names' = Names
  BY <1>1, <1>3, <1>4, SameFileNames, SameLogNames DEF Names
<1>6. catalog \in [Metric -> MetricID \cup {0}]
  BY DEF DurableInv, IInv, TypeOK, MemoryOK
<1>7. Rec.name # NoName => Rec.name \in Metric /\ Rec.id \in MetricID /\ Rec.id # 0
  BY <1>1, ConfigAssumption DEF Record, Name, MetricID
<1>8. Rec.name # NoName => <<Rec.name, Rec.id>> \in LogNames
  BY <1>1, <1>3 DEF LogNames, Learnt, Rec
<1>9. /\ KnownNames \subseteq KnownNames' /\ KnownNames' \subseteq KnownNames \cup LogNames
      /\ Rec.name # NoName => <<Rec.name, Rec.id>> \in KnownNames'
      /\ dirty' = TRUE \/ UNCHANGED <<catalog, dirty>>
  <2>1. CASE Rec.name # NoName /\ ~Known(Rec.name)
    <3>1. catalog' = [catalog EXCEPT ![Rec.name] = Rec.id] /\ dirty' = TRUE
      BY <1>1, <2>1 DEF Register
    <3>2. \A n \in Metric : catalog'[n] = IF n = Rec.name THEN Rec.id ELSE catalog[n]
      BY <1>6, <3>1
    <3>3. catalog[Rec.name] = 0
      BY <2>1 DEF Known
    <3>4. Named' = Named \cup {Rec.name} /\ Rec.name \notin Named
      BY <1>7, <2>1, <3>2, <3>3 DEF Named
    <3>5. KnownNames' = {<<n, catalog'[n]>> : n \in Named'}
      BY DEF KnownNames
    <3>6. KnownNames' = KnownNames \cup {<<Rec.name, Rec.id>>}
      <4>1. \A n \in Named : catalog'[n] = catalog[n]
        BY <3>2, <3>4 DEF Named
      <4>2. catalog'[Rec.name] = Rec.id
        BY <1>7, <2>1, <3>2
      <4> QED
        BY <3>4, <3>5, <4>1, <4>2 DEF KnownNames
    <3> QED
      BY <1>8, <2>1, <3>1, <3>6
  <2>2. CASE ~(Rec.name # NoName /\ ~Known(Rec.name))
    <3>1. UNCHANGED <<catalog, dirty>>
      BY <1>1, <2>2
    <3>2. KnownNames' = KnownNames
      BY <3>1, SameKnown
    <3>3. Rec.name # NoName => catalog[Rec.name] = Rec.id
      BY <1>1, <2>2 DEF EnsureConflict
    <3>4. Rec.name # NoName => <<Rec.name, Rec.id>> \in KnownNames
      BY <1>7, <3>3 DEF KnownNames, Named
    <3> QED
      BY <3>1, <3>2, <3>4
  <2> QED
    BY <2>1, <2>2
<1>10. OneToOne(Names') /\ Numbered(Names')
  BY <1>5 DEF CatalogOK
<1>11. FileFresh'
  BY <1>1, <1>3, <1>4, <1>9 DEF CatalogOK, FileFresh
<1>12. FileBacked'
  BY <1>3 DEF FileBacked
<1>13. ReplayNames'
  <2>1. FileNames' \subseteq KnownNames' /\ KnownNames' \subseteq Names'
    BY <1>3, <1>5, <1>9 DEF CatalogOK, ReplayNames, Names
  <2>2. ASSUME NEW i \in DOMAIN replay'.recs, i < replay'.pos, replay'.recs[i].name # NoName
        PROVE  <<replay'.recs[i].name, replay'.recs[i].id>> \in KnownNames'
    <3>1. i < replay.pos \/ i = replay.pos
      <4>1. i \in Nat /\ replay.pos \in Nat
        BY <1>1, <1>2, <2>2 DEF DurableInv, IInv, TypeOK, HandlerOK
      <4> QED
        BY <1>2, <2>2, <4>1
    <3>2. CASE i < replay.pos
      BY <1>2, <1>3, <1>9, <2>2, <3>2 DEF CatalogOK, ReplayNames
    <3>3. CASE i = replay.pos
      BY <1>2, <1>9, <2>2, <3>3 DEF Rec
    <3> QED
      BY <3>1, <3>2, <3>3
  <2> QED
    BY <2>1, <2>2 DEF ReplayNames
<1> QED
  BY <1>5, <1>10, <1>11, <1>12, <1>13 DEF CatalogOK, OneToOne, Numbered

\* Replay ends with every name of the log in the catalog.
LEMMA ReplayDoneNames ==
    ASSUME DurableInv, Trusted, CatalogOK, config' = config, ReplayDone
    PROVE  CatalogOK' /\ Names' = Names
<1>1. /\ pc = "replay" /\ replay.pos > Len(replay.recs) /\ pc' = "idle" /\ replay' = NoReplay
      /\ UNCHANGED <<wal, catalog, catalogFile, dirty>>
  BY DEF ReplayDone
<1>2. Replaying /\ ~Replaying' /\ ~Down /\ ~Down' /\ wal = replay.recs
  BY <1>1, TrustedReplay DEF Replaying, NoReplay, DurableInv, BookOK, ReplayOK, Down
<1>3. KnownNames' = KnownNames /\ FileNames' = FileNames /\ LogNames' = LogNames
  BY <1>1, SameKnown, SameFileNames, SameLogNames
<1>4. LogNames \subseteq KnownNames
  <2>1. ASSUME NEW k \in Learnt PROVE <<wal[k].name, wal[k].id>> \in KnownNames
    <3>1. k \in DOMAIN replay.recs /\ k < replay.pos /\ replay.recs[k].name # NoName
      BY <1>1, <1>2, <2>1 DEF Learnt, DurableInv, IInv, TypeOK, HandlerOK
    <3> QED
      BY <1>2, <3>1 DEF CatalogOK, ReplayNames
  <2> QED
    BY <2>1 DEF LogNames
<1>5. KnownNames = FileNames \cup LogNames
  BY <1>2, <1>4 DEF CatalogOK, ReplayNames, Names
<1>6. Names' = Names
  BY <1>2, <1>3, <1>5 DEF Names
<1>7. OneToOne(Names') /\ Numbered(Names')
  BY <1>6 DEF CatalogOK
<1>8. FileFresh' /\ FileBacked' /\ ReplayNames'
  BY <1>1, <1>2, <1>3, <1>5 DEF CatalogOK, FileFresh, FileBacked, ReplayNames
<1> QED
  BY <1>6, <1>7, <1>8 DEF CatalogOK, OneToOne, Numbered

\* A log reset while nothing is replayed held no name that the file lacks.
LEMMA ResetWALNames ==
    ASSUME DurableInv, Trusted, CatalogOK, config' = config, ResetWAL
    PROVE  CatalogOK' /\ Names' = Names
<1>1. ~Replaying
  BY TrustedReplay, NoResetInReplay DEF DurableInv
<1>2. /\ pc = "reset" /\ ~dirty /\ wal' = <<>> /\ UNCHANGED <<catalog, catalogFile, dirty>>
  BY DEF ResetWAL, CatalogFirst
<1>3. UNCHANGED replay /\ ~Down'
  BY <1>2, ResetWALMoves, AnsweringMoves DEF Down, DurableInv
<1>4. ~Down /\ ~Replaying' /\ catalog = catalogFile
  BY <1>1, <1>2, <1>3 DEF Down, Replaying, CatalogOK, FileFresh
<1>5. KnownNames' = KnownNames /\ FileNames' = KnownNames /\ LogNames' = {}
  <2>1. LogNames' = {}
    BY <1>2 DEF LogNames, Learnt
  <2>2. FileNames' = FileNames /\ FileNames = KnownNames
    BY <1>2, <1>4, SameFileNames DEF FileNames, NamedOnDisk, KnownNames, Named
  <2> QED
    BY <1>2, <2>1, <2>2, SameKnown
<1>6. Names' = Names
  BY <1>1, <1>3, <1>4, <1>5 DEF Names
<1>7. OneToOne(Names') /\ Numbered(Names')
  BY <1>6 DEF CatalogOK
<1>8. FileFresh' /\ FileBacked' /\ ReplayNames'
  BY <1>2, <1>3, <1>4, <1>5 DEF FileFresh, FileBacked, ReplayNames
<1> QED
  BY <1>6, <1>7, <1>8 DEF CatalogOK, OneToOne, Numbered

\* An open starts from the file and goes on with the log.
LEMMA OpenNames ==
    ASSUME DurableInv, Trusted, CatalogOK, config' = config, OpenDatabase
    PROVE  CatalogOK' /\ Names' = Names
<1>1. Down /\ ~dirty /\ ~Replaying /\ catalog' = catalogFile /\ UNCHANGED <<catalogFile, dirty>>
  BY TrustedReplay DEF OpenDatabase, CatalogOK, FileFresh
<1>2. KnownNames' = FileNames /\ FileNames' = FileNames
  BY <1>1, LoadedNames, SameFileNames
<1>3. \/ /\ pc' = "replay" /\ wal # <<>> /\ UNCHANGED wal
         /\ replay'.recs = wal /\ replay'.pos = 1
      \/ pc' = "idle" /\ wal' = <<>> /\ UNCHANGED replay /\ wal = <<>>
  BY OpenMoves, TrustedReplay DEF DurableInv, Trusted, WALProtected
<1>4. ~Down'
  BY <1>3 DEF Down
<1>5. CASE pc' = "replay" /\ wal # <<>> /\ UNCHANGED wal /\ replay'.recs = wal /\ replay'.pos = 1
  <2>1. Replaying' /\ LogNames' = LogNames
    BY <1>5, SameLogNames DEF Replaying
  <2>2. Names' = Names
    BY <1>1, <1>2, <2>1 DEF Names
  <2>3. OneToOne(Names') /\ Numbered(Names')
    BY <2>2 DEF CatalogOK
  <2>4. FileFresh' /\ FileBacked'
    BY <1>1, <1>4, <2>1 DEF FileFresh, FileBacked
  <2>5. \A i \in DOMAIN replay'.recs : ~(i < replay'.pos)
    BY <1>5 DEF DurableInv, IInv, TypeOK, DiskOK
  <2>6. ReplayNames'
    BY <1>1, <1>2, <2>2, <2>5 DEF ReplayNames, Names
  <2> QED
    BY <2>2, <2>3, <2>4, <2>6 DEF CatalogOK, OneToOne, Numbered
<1>6. CASE pc' = "idle" /\ wal' = <<>> /\ UNCHANGED replay /\ wal = <<>>
  <2>1. LogNames = {} /\ LogNames' = LogNames /\ ~Replaying'
    BY <1>1, <1>6, NoLogNames, SameLogNames DEF Replaying
  <2>2. Names' = Names
    BY <1>1, <1>2, <1>4, <2>1 DEF Names
  <2>3. OneToOne(Names') /\ Numbered(Names')
    BY <2>2 DEF CatalogOK
  <2>4. FileFresh' /\ FileBacked' /\ ReplayNames'
    BY <1>1, <1>2, <1>4, <2>1 DEF FileFresh, FileBacked, ReplayNames
  <2> QED
    BY <2>2, <2>3, <2>4 DEF CatalogOK, OneToOne, Numbered
<1> QED
  BY <1>3, <1>5, <1>6

\* A process that stops leaves its names in the file and the log.
LEMMA HaltingNames ==
    ASSUME DurableInv, [Next]_vars, Trusted, Trusted', CatalogOK, config' = config, Halting
    PROVE  CatalogOK' /\ Names' = Names
<1>1. Down' /\ ~Replaying' /\ ~dirty' /\ wal' = wal
  <2>1. Stops /\ wal' = wal
    BY HaltingStops
  <2>2. dirty' = FALSE
    BY <2>1 DEF Stops, LoseMemory
  <2> QED
    BY <2>1, <2>2, StopsMoves DEF Down, Replaying, NoReplay
<1>2. ~Down
  BY DEF Halting, Crash, ReplayFails, PersistStop, PersistCatalog, FailStop, WriteFails, Down
<1>3. \/ catalogFile' = catalogFile /\ ~PersistStop
      \/ pc = "persist" /\ catalogFile' = CatalogOnDisk
  BY DEF Halting, Crash, ReplayFails, PersistStop, PersistCatalog, FailStop, WriteFails
<1>4. CatalogOnDisk = catalog
  BY <1>2 DEF CatalogOnDisk, CatalogOK, FileFresh
<1>5. \/ FileNames' = FileNames /\ ~PersistStop
      \/ pc = "persist" /\ FileNames' = KnownNames
  BY <1>3, <1>4, SameFileNames, SavedNames
<1>6. LogNames' = LogNames /\ Names' = FileNames' \cup LogNames'
  BY <1>1, SameLogNames DEF Names
<1>7. Names' = Names
  <2>1. CASE Replaying
    <3>1. pc # "persist"
      BY <2>1, TrustedReplay DEF AtReplay
    <3> QED
      BY <1>5, <1>6, <2>1, <3>1 DEF Names
  <2>2. CASE ~Replaying /\ WALProtected
    <3>1. Names = KnownNames /\ KnownNames = FileNames \cup LogNames
      BY <1>2, <2>2 DEF Names, CatalogOK, FileBacked
    <3> QED
      BY <1>5, <1>6, <3>1
  <2>3. CASE ~Replaying /\ ~WALProtected
    <3>1. Calm'
      BY <2>3 DEF Trusted, WALProtected
    <3>2. wal = <<>> /\ LogNames = {}
      BY <3>1, CalmStops, NoLogNames DEF DurableInv
    <3>3. PersistStop
      BY <3>1, CalmBefore, TrustedReplay DEF Halting, DurableInv, ReplayFails, BookOK, ReplayOK
    <3> QED
      BY <1>2, <1>5, <1>6, <2>3, <3>2, <3>3 DEF Names
  <2> QED
    BY <2>1, <2>2, <2>3
<1>8. OneToOne(Names') /\ Numbered(Names')
  BY <1>7 DEF CatalogOK
<1>9. FileFresh' /\ FileBacked' /\ ReplayNames'
  BY <1>1 DEF FileFresh, FileBacked, ReplayNames
<1> QED
  BY <1>7, <1>8, <1>9 DEF CatalogOK, OneToOne, Numbered


\* A sample is logged under the id of its metric; a new metric gets the next one, and its
\* name goes into the log with it.
LEMMA LogsMove ==
    ASSUME DurableInv, Trusted, FreshOK, config' = config, Logs
    PROVE  \E i \in MetricID :
             /\ pc = "log" /\ call.op = "add" /\ call.metric \in Metric
             /\ ~Down /\ ~Down' /\ ~Replaying /\ ~Replaying' /\ UNCHANGED <<replay, catalogFile>>
             /\ i = IF Known(call.metric) THEN catalog[call.metric] ELSE NextMetricID
             /\ IF Known(call.metric) THEN UNCHANGED <<catalog, dirty>>
                ELSE catalog' = [catalog EXCEPT ![call.metric] = i] /\ dirty' = TRUE
             /\ wal' = Append(wal, WALRecord(i)) \/ (wal' = wal /\ ~WALProtected)
             /\ WALRecord(i) \in Record
<1> DEFINE i == IF Known(call.metric) THEN catalog[call.metric] ELSE NextMetricID
<1>1. pc = "log" /\ call.op = "add" /\ call.metric \in Metric /\ call.ts \in Timestamp /\ ~Down
  BY DEF Logs, LogSample, LogSyncFails, DurableInv, IInv, CallOK, Down
<1>2. Known(call.metric) \/ Cardinality(Registered) < MaxMetrics
  BY DEF Logs, LogSample, LogSyncFails
<1>3. i \in MetricID
  BY <1>1, <1>2, NextIDFits DEF DurableInv, IInv, TypeOK, MemoryOK, Known
<1>4. WALRecord(i) \in Record
  BY <1>1, <1>3, WALRecordType DEF DurableInv, IInv, TypeOK
<1>5. ~Replaying
  BY <1>1, TrustedReplay DEF AtReplay
<1>6. ASSUME NEW useWAL \in BOOLEAN, LogSample(useWAL)
      PROVE  /\ pc' = "page" /\ UNCHANGED <<replay, catalogFile>>
             /\ IF Known(call.metric) THEN UNCHANGED <<catalog, dirty>>
                ELSE catalog' = [catalog EXCEPT ![call.metric] = i] /\ dirty' = TRUE
             /\ wal' = Append(wal, WALRecord(i)) \/ (wal' = wal /\ ~WALProtected)
  BY <1>6 DEF LogSample, Register, WALProtected, MaySkipWAL
<1>7. ASSUME LogSyncFails
      PROVE  /\ pc' = "idle" /\ UNCHANGED <<replay, catalogFile>>
             /\ IF Known(call.metric) THEN UNCHANGED <<catalog, dirty>>
                ELSE catalog' = [catalog EXCEPT ![call.metric] = i] /\ dirty' = TRUE
             /\ wal' = Append(wal, WALRecord(i))
  BY <1>7 DEF LogSyncFails, Register, Return
<1>8. /\ pc' \in {"page", "idle"} /\ UNCHANGED <<replay, catalogFile>>
      /\ IF Known(call.metric) THEN UNCHANGED <<catalog, dirty>>
         ELSE catalog' = [catalog EXCEPT ![call.metric] = i] /\ dirty' = TRUE
      /\ wal' = Append(wal, WALRecord(i)) \/ (wal' = wal /\ ~WALProtected)
  BY <1>6, <1>7 DEF Logs
<1>9. ~Down' /\ ~Replaying'
  BY <1>5, <1>8 DEF Down, Replaying
<1> HIDE DEF i
<1>10. /\ pc = "log" /\ call.op = "add" /\ call.metric \in Metric
       /\ ~Down /\ ~Down' /\ ~Replaying /\ ~Replaying' /\ UNCHANGED <<replay, catalogFile>>
       /\ i = IF Known(call.metric) THEN catalog[call.metric] ELSE NextMetricID
       /\ IF Known(call.metric) THEN UNCHANGED <<catalog, dirty>>
          ELSE catalog' = [catalog EXCEPT ![call.metric] = i] /\ dirty' = TRUE
       /\ wal' = Append(wal, WALRecord(i)) \/ (wal' = wal /\ ~WALProtected)
       /\ WALRecord(i) \in Record
  BY <1>1, <1>4, <1>5, <1>8, <1>9 DEF i
<1> QED
  BY <1>3, <1>10

LEMMA LearntAppend ==
    ASSUME wal \in Seq(Record), NEW r \in Record, wal' = Append(wal, r)
    PROVE  LogNames' = LogNames \cup (IF r.name # NoName THEN {<<r.name, r.id>>} ELSE {})
<1>1. /\ DOMAIN wal' = (DOMAIN wal) \cup {Len(wal) + 1}
      /\ \A i \in DOMAIN wal : wal'[i] = wal[i]
      /\ wal'[Len(wal) + 1] = r
  OBVIOUS
<1>2. LogNames' = {<<wal'[k].name, wal'[k].id>> : k \in Learnt'}
  BY DEF LogNames
<1>3. Learnt' = Learnt \cup (IF r.name # NoName THEN {Len(wal) + 1} ELSE {})
  <2>1. Learnt' = {k \in DOMAIN wal' : wal'[k].name # NoName}
    BY DEF Learnt
  <2> QED
    BY <1>1, <2>1 DEF Learnt
<1>4. \A k \in Learnt : wal'[k] = wal[k]
  BY <1>1 DEF Learnt
<1> QED
  BY <1>1, <1>2, <1>3, <1>4 DEF LogNames

LEMMA LogsNames ==
    ASSUME DurableInv, Trusted, FreshOK, CatalogOK, config' = config, Logs
    PROVE  /\ CatalogOK' /\ Names \subseteq Names' /\ Names' = KnownNames'
           /\ \A i \in MetricID :
                i = (IF Known(call.metric) THEN catalog[call.metric] ELSE NextMetricID) =>
                    <<call.metric, i>> \in Names'
<1>1. PICK i \in MetricID :
         /\ pc = "log" /\ call.op = "add" /\ call.metric \in Metric
         /\ ~Down /\ ~Down' /\ ~Replaying /\ ~Replaying' /\ UNCHANGED <<replay, catalogFile>>
         /\ i = IF Known(call.metric) THEN catalog[call.metric] ELSE NextMetricID
         /\ IF Known(call.metric) THEN UNCHANGED <<catalog, dirty>>
            ELSE catalog' = [catalog EXCEPT ![call.metric] = i] /\ dirty' = TRUE
         /\ wal' = Append(wal, WALRecord(i)) \/ (wal' = wal /\ ~WALProtected)
         /\ WALRecord(i) \in Record
  BY LogsMove
<1>2. Names = KnownNames /\ Names' = KnownNames' /\ FileNames' = FileNames
  BY <1>1, SameFileNames DEF Names
<1>3. WALRecord(i).id = i /\ WALRecord(i).name = IF Known(call.metric) THEN NoName ELSE call.metric
  BY <1>1 DEF WALRecord, FreshOK, DurableInv, IInv, TypeOK, HandlerOK
<1>4. catalog \in [Metric -> MetricID \cup {0}] /\ i # 0 /\ wal \in Seq(Record)
  BY ConfigAssumption DEF MetricID, DurableInv, IInv, TypeOK, MemoryOK, DiskOK
<1>5. LogNames' = LogNames \cup (IF Known(call.metric) THEN {} ELSE {<<call.metric, i>>})
      \/ ~WALProtected
  <2>1. call.metric # NoName
    BY <1>1, ConfigAssumption
  <2> QED
    BY <1>1, <1>3, <1>4, <2>1, LearntAppend
<1>6. CASE Known(call.metric)
  <2>1. KnownNames' = KnownNames /\ UNCHANGED <<catalog, dirty>>
    BY <1>1, <1>6, SameKnown
  <2>2. Names' = Names
    BY <1>2, <2>1
  <2>3. OneToOne(Names') /\ Numbered(Names')
    BY <2>2 DEF CatalogOK
  <2>4. <<call.metric, i>> \in Names'
    BY <1>1, <1>2, <1>6, <2>1 DEF KnownNames, Named, Known
  <2>5. FileFresh' /\ ReplayNames'
    BY <1>1, <2>1 DEF CatalogOK, FileFresh, ReplayNames
  <2>6. FileBacked'
    BY <1>1, <1>2, <1>5, <1>6, <2>1 DEF CatalogOK, FileBacked, WALProtected
  <2> QED
    BY <1>1, <1>2, <2>2, <2>3, <2>4, <2>5, <2>6 DEF CatalogOK, OneToOne, Numbered
<1>7. CASE ~Known(call.metric)
  <2>1. catalog' = [catalog EXCEPT ![call.metric] = i] /\ dirty' = TRUE
    BY <1>1, <1>7
  <2>2. \A n \in Metric : catalog'[n] = IF n = call.metric THEN i ELSE catalog[n]
    BY <1>1, <1>4, <2>1
  <2>3. Named' = Named \cup {call.metric} /\ call.metric \notin Named
    BY <1>1, <1>4, <1>7, <2>2 DEF Named, Known
  <2>4. KnownNames' = {<<n, catalog'[n]>> : n \in Named'}
    BY DEF KnownNames
  <2>5. KnownNames' = KnownNames \cup {<<call.metric, i>>}
    <3>1. \A n \in Named : catalog'[n] = catalog[n]
      BY <2>2, <2>3 DEF Named
    <3>2. catalog'[call.metric] = i
      BY <1>1, <2>2
    <3> QED
      BY <2>3, <2>4, <3>1, <3>2 DEF KnownNames
  <2>6. i = Cardinality(Names) + 1 /\ IsFiniteSet(Names)
    BY <1>1, <1>2, <1>7, KnownCount DEF NextMetricID
  <2>7. \A x \in Names : x[1] # call.metric
    BY <1>2, <2>3 DEF KnownNames
  <2>8. Names' = Names \cup {<<call.metric, Cardinality(Names) + 1>>}
    BY <1>2, <2>5, <2>6
  <2>9. OneToOne(Names') /\ Numbered(Names')
    BY <2>6, <2>7, <2>8, OneMoreName DEF CatalogOK
  <2>10. FileFresh' /\ ReplayNames'
    BY <1>1, <2>1 DEF FileFresh, ReplayNames
  <2>11. FileBacked'
    BY <1>1, <1>2, <1>5, <1>7, <2>5 DEF CatalogOK, FileBacked, WALProtected
  <2> QED
    BY <1>1, <1>2, <2>5, <2>8, <2>9, <2>10, <2>11 DEF CatalogOK, OneToOne, Numbered
<1> QED
  BY <1>6, <1>7

\* Every step keeps the names there are.
LEMMA NamesMove ==
    ASSUME DurableInv, [Next]_vars, FreshOK, Trusted', CatalogOK
    PROVE  CatalogOK' /\ Names \subseteq Names'
<1>1. Trusted /\ config' = config
  BY TrustedBefore
<1>2. CASE Rests \/ Saves
  BY <1>1, <1>2, RestsNames, SavesNames
<1>3. CASE ReplayRecord \/ ReplayDone
  BY <1>1, <1>3, ReplayRecordNames, ReplayDoneNames
<1>4. CASE Logs
  BY <1>1, <1>4, LogsNames
<1>5. CASE ResetWAL \/ OpenDatabase
  BY <1>1, <1>5, ResetWALNames, OpenNames
<1>6. CASE Halting
  BY <1>1, <1>6, HaltingNames
<1> QED
  BY <1>2, <1>3, <1>4, <1>5, <1>6, NamesParts DEF DurableInv

\* Whether a metric is new does not change between the start of a call and its record.
LEMMA FreshKept ==
    ASSUME DurableInv, [Next]_vars, FreshOK
    PROVE  FreshOK'
<1> DEFINE Stage == Ensuring \/ pc = "log"
<1>a. IInv /\ HandlerOK
  BY DEF DurableInv, IInv, TypeOK
<1>b. ASSUME UNCHANGED <<call, catalog>>, Stage' => Stage PROVE FreshOK'
  BY <1>b DEF FreshOK, Known
<1>c. ASSUME pc' \in {"idle", "replay", "down", "closed", "page", "age"} PROVE FreshOK'
  BY <1>c DEF FreshOK, Ensuring
<1>1. CASE UNCHANGED vars
  BY <1>1, <1>b DEF Ensuring, Replaying
<1>2. CASE Quiet
  <2>1. Stage' => Stage
    BY <1>a, <1>2, QuietStage
  <2>2. CASE Answering
    BY <1>c, <2>2, AnsweringMoves
  <2>3. CASE pc = "idle"
    <3>1. ~Stage
      BY <2>3 DEF Ensuring
    <3> QED
      BY <2>1, <3>1 DEF FreshOK
  <2>4. CASE UNCHANGED <<call, answered>>
    <3>1. CASE ReplayRecord
      <4>1. ~Stage
        BY <3>1 DEF Ensuring, ReplayRecord
      <4> QED
        BY <2>1, <4>1 DEF FreshOK
    <3>2. CASE Rests \/ Saves \/ ReplayDone
      <4>1. catalog' = catalog
        BY <3>2 DEF Rests, SameNames, Saves, ReplayDone
      <4> QED
        BY <1>b, <2>1, <2>4, <4>1
    <3> QED
      BY <1>a, <1>2, <3>1, <3>2, QuietNames
  <2> QED
    BY <1>a, <1>2, <2>2, <2>3, <2>4, QuietMoves
<1>3. CASE Halting
  BY <1>3, <1>c, HaltingStops, StopsMoves
<1>4. CASE OpenDatabase
  BY <1>4, <1>a, <1>c, OpenMoves
<1>5. ASSUME NEW m \in Metric, NEW t \in Timestamp, BeginAdd(m, t)
      PROVE  FreshOK'
  <2>1. call' = [op |-> "add", metric |-> m, ts |-> t, val |-> calls + 1, fresh |-> ~Known(m)]
        /\ catalog' = catalog
    BY <1>5, <1>a, TakenMoves
  <2> QED
    BY <2>1 DEF FreshOK, Known
<1>6. CASE (\E useWAL \in BOOLEAN : LogSample(useWAL)) \/ LogSyncFails
  BY <1>6, <1>c DEF LogSample, LogSyncFails, Return
<1>7. CASE ReplayPut \/ AddPut
  BY <1>7, <1>a, <1>c, AddPutMoves DEF ReplayPut, ReplayRecord
<1>8. CASE AppendFrame
  <2>1. UNCHANGED <<call, catalog, flush, replay>> /\ pc = "flush" /\ pc' = "sync"
    BY <1>8 DEF AppendFrame
  <2> QED
    BY <1>b, <2>1 DEF Ensuring, Replaying
<1>9. CASE SyncFlushed
  <2>1. /\ UNCHANGED <<call, catalog, replay>> /\ pc = "sync" /\ pc' = AfterSync
        /\ flush' = IF AfterSync = "reset" THEN flush ELSE NoFlush
    BY <1>9 DEF SyncFlushed
  <2>2. Stage' => Stage
    BY <1>a, <2>1 DEF Ensuring, Replaying, AfterSync, NoFlush, HandlerOK
  <2> QED
    BY <1>b, <2>1, <2>2
<1>10. CASE ResetWAL
  <2>1. /\ pc = "reset" /\ UNCHANGED replay /\ catalog' = catalog
        /\ \/ Answering
           \/ /\ UNCHANGED <<call, answered>> /\ flush' = NoFlush
              /\ pc' = IF flush.goal = "seal" THEN (IF Replaying THEN "replay" ELSE "ensure")
                       ELSE "persist"
    BY <1>10, <1>a, ResetWALMoves DEF ResetWAL
  <2>2. CASE Answering
    BY <1>c, <2>2, AnsweringMoves
  <2>3. CASE ~Answering
    BY <1>b, <2>1, <2>3 DEF Ensuring, NoFlush, Replaying
  <2> QED
    BY <2>2, <2>3
<1> QED
  BY <1>1, <1>2, <1>3, <1>4, <1>5, <1>6, <1>7, <1>8, <1>9, <1>10, NextParts


-----------------------------------------------------------------------------
(* The stored samples.                                                     *)

LEMMA MarksParts ==
    \A x : x \in Marks <=> x \in LogMarks \/ \E d \in Day : x \in PageMarks(d) \/ x \in FileMarks(d)
<1>1. \A x : x \in UNION {PageMarks(d) \cup FileMarks(d) : d \in Day}
               <=> \E d \in Day : x \in PageMarks(d) \/ x \in FileMarks(d)
  OBVIOUS
<1> QED
  BY <1>1 DEF Marks

MarksSplit ==
    \A x : x \in Marks <=> x \in LogMarks \/ \E d \in Day : x \in PageMarks(d) \/ x \in FileMarks(d)
LEMMA MarksPartsNext == MarksSplit'
BY MarksParts, PTL DEF MarksSplit

\* What an action does not touch, and what it adds.
LEMMA SameLogMarks  == wal' = wal => LogMarks' = LogMarks
BY DEF LogMarks, Mark
LEMMA SamePageMarks == page' = page => \A d \in Day : PageMarks(d)' = PageMarks(d)
BY DEF PageMarks, Mark
LEMMA SameFileMarks == dataFile' = dataFile => \A d \in Day : FileMarks(d)' = FileMarks(d)
BY DEF FileMarks, Mark

LEMMA NoLogMarks == wal' = <<>> => LogMarks' = {}
BY DEF LogMarks
LEMMA NoPageMarks == ASSUME NEW d \in Day, page'[d] = <<>> PROVE PageMarks(d)' = {}
BY DEF PageMarks

LEMMA LogMarksAppend ==
    ASSUME wal \in Seq(Record), NEW r \in Record, wal' = Append(wal, r)
    PROVE  LogMarks' = LogMarks \cup {Mark(r)}
<1>1. /\ DOMAIN wal' = (DOMAIN wal) \cup {Len(wal) + 1}
      /\ \A i \in DOMAIN wal : wal'[i] = wal[i]
      /\ wal'[Len(wal) + 1] = r
  OBVIOUS
<1>2. LogMarks' = {Mark(wal'[i]) : i \in DOMAIN wal'}
  BY DEF LogMarks, Mark
<1> QED
  BY <1>1, <1>2 DEF LogMarks

LEMMA PageMarksPut ==
    ASSUME page \in [Day -> Seq(Sample)], NEW d \in Day, NEW s \in Sample,
           page' = [page EXCEPT ![d] = Append(@, s)]
    PROVE  \A e \in Day : PageMarks(e)' \subseteq PageMarks(e) \cup {Mark(s)}
<1>1. page[d] \in Seq(Sample) /\ page'[d] = Append(page[d], s)
  OBVIOUS
<1>2. /\ DOMAIN page'[d] = (DOMAIN page[d]) \cup {Len(page[d]) + 1}
      /\ \A k \in DOMAIN page[d] : page'[d][k] = page[d][k]
      /\ page'[d][Len(page[d]) + 1] = s
  BY <1>1
<1>3. PageMarks(d)' = {Mark(page'[d][k]) : k \in DOMAIN page'[d]}
  BY DEF PageMarks, Mark
<1>4. PageMarks(d)' = PageMarks(d) \cup {Mark(s)}
  BY <1>2, <1>3 DEF PageMarks
<1>5. \A e \in Day : e # d => page'[e] = page[e]
  OBVIOUS
<1>6. \A e \in Day : e # d => PageMarks(e)' = PageMarks(e)
  BY <1>5 DEF PageMarks, Mark
<1> QED
  BY <1>4, <1>6

LEMMA FileMarksAppend ==
    ASSUME dataFile \in [Day -> Seq(Seq(Sample))], page \in [Day -> Seq(Sample)], NEW d \in Day,
           dataFile' = [dataFile EXCEPT ![d] = Append(@, page[d])]
    PROVE  \A e \in Day : FileMarks(e)' \subseteq FileMarks(e) \cup PageMarks(e)
<1>1. dataFile[d] \in Seq(Seq(Sample)) /\ dataFile'[d] = Append(dataFile[d], page[d])
  OBVIOUS
<1>2. /\ DOMAIN dataFile'[d] = (DOMAIN dataFile[d]) \cup {Len(dataFile[d]) + 1}
      /\ \A f \in DOMAIN dataFile[d] : dataFile'[d][f] = dataFile[d][f]
      /\ dataFile'[d][Len(dataFile[d]) + 1] = page[d]
  BY <1>1
<1>3. ASSUME NEW x \in FileMarks(d)' PROVE x \in FileMarks(d) \cup PageMarks(d)
  <2>1. FileMarks(d)' = UNION {{Mark(dataFile'[d][f][k]) : k \in DOMAIN dataFile'[d][f]} : f \in DOMAIN dataFile'[d]}
    BY DEF FileMarks, Mark
  <2>2. PICK f \in DOMAIN dataFile'[d] : x \in {Mark(dataFile'[d][f][k]) : k \in DOMAIN dataFile'[d][f]}
    BY <1>3, <2>1
  <2>3. CASE f \in DOMAIN dataFile[d]
    <3>1. x \in {Mark(dataFile[d][f][k]) : k \in DOMAIN dataFile[d][f]}
      BY <1>2, <2>2, <2>3
    <3> QED
      BY <2>3, <3>1 DEF FileMarks
  <2>4. CASE f = Len(dataFile[d]) + 1
    BY <1>2, <2>2, <2>4 DEF PageMarks
  <2> QED
    BY <1>2, <2>3, <2>4
<1>4. \A e \in Day : e # d => dataFile'[e] = dataFile[e]
  OBVIOUS
<1>5. \A e \in Day : e # d => FileMarks(e)' = FileMarks(e)
  BY <1>4 DEF FileMarks, Mark
<1> QED
  BY <1>3, <1>5

\* A mark that a step brings is that of the call in progress, under the id that the catalog
\* then has for its metric.
Brought(x) ==
    /\ call.op = "add" /\ call.metric \in Metric
    /\ x[2] = call.val /\ <<call.metric, x[1]>> \in Names'

LEMMA AddPutNames ==
    ASSUME DurableInv, Trusted, CatalogOK, config' = config, AddPut
    PROVE  <<call.metric, catalog[call.metric]>> \in Names'
<1>1. /\ pc = "page" /\ pc' = "age" /\ UNCHANGED <<catalog, replay>>
      /\ call.metric \in Metric /\ catalog[call.metric] # 0
  BY AddPutMoves DEF AddPut, AddToPage, DurableInv, IInv, CallOK, Paging, Known
<1>2. ~Replaying /\ ~Replaying' /\ ~Down'
  BY <1>1, TrustedReplay DEF AtReplay, Replaying, Down
<1>3. <<call.metric, catalog[call.metric]>> \in KnownNames'
  BY <1>1, SameKnown DEF KnownNames, Named
<1> QED
  BY <1>2, <1>3 DEF Names

LEMMA MarksMove ==
    ASSUME DurableInv, [Next]_vars, FreshOK, CatalogOK, Trusted, config' = config
    PROVE  \A x \in Marks' : x \in Marks \/ Brought(x)
<1>a. /\ wal \in Seq(Record) /\ page \in [Day -> Seq(Sample)] /\ IInv
      /\ dataFile \in [Day -> Seq(Seq(Sample))]
  BY DEF DurableInv, IInv, TypeOK, DiskOK, MemoryOK
<1> DEFINE Drops == /\ LogMarks' \subseteq LogMarks
                    /\ \A d \in Day : PageMarks(d)' \subseteq PageMarks(d)
                    /\ \A d \in Day : FileMarks(d)' \subseteq FileMarks(d) \cup PageMarks(d)
           Goal  == \A x \in Marks' : x \in Marks \/ Brought(x)
<1>b. ASSUME Drops PROVE Goal
  BY <1>b, MarksParts, MarksPartsNext DEF MarksSplit
<1>c. wal' = wal \/ wal' = <<>> => LogMarks' \subseteq LogMarks
  BY SameLogMarks, NoLogMarks
<1>d. page' = page => \A d \in Day : PageMarks(d)' \subseteq PageMarks(d)
  BY SamePageMarks
<1>e. dataFile' = dataFile => \A d \in Day : FileMarks(d)' \subseteq FileMarks(d) \cup PageMarks(d)
  BY SameFileMarks
<1>1. CASE UNCHANGED vars \/ Quiet
  BY <1>1, <1>b, <1>c, <1>d, <1>e, QuietSame
<1>2. CASE Halting
  <2>1. wal' = wal /\ dataFile' = dataFile /\ \A d \in Day : page'[d] = <<>>
    BY <1>2, HaltingStops, StopsMoves
  <2>2. \A d \in Day : PageMarks(d)' \subseteq PageMarks(d)
    BY <2>1, NoPageMarks
  <2> QED
    BY <1>b, <1>c, <1>e, <2>1, <2>2
<1>3. CASE OpenDatabase
  BY <1>3, <1>a, <1>b, <1>c, <1>d, <1>e, OpenMoves
<1>4. ASSUME NEW m \in Metric, NEW t \in Timestamp, BeginAdd(m, t) PROVE Goal
  BY <1>4, <1>a, <1>b, <1>c, <1>d, <1>e, TakenMoves
<1>5. CASE Logs
  <2>1. PICK i \in MetricID :
           /\ call.op = "add" /\ call.metric \in Metric
           /\ i = IF Known(call.metric) THEN catalog[call.metric] ELSE NextMetricID
           /\ wal' = Append(wal, WALRecord(i)) \/ wal' = wal
           /\ WALRecord(i) \in Record
    BY <1>5, LogsMove
  <2>2. UNCHANGED <<page, dataFile>>
    BY <1>5 DEF Logs, LogSample, LogSyncFails
  <2>3. <<call.metric, i>> \in Names'
    BY <1>5, <2>1, LogsNames
  <2>4. Mark(WALRecord(i)) = <<i, call.val>>
    BY DEF WALRecord, Mark
  <2>5. Brought(Mark(WALRecord(i)))
    BY <2>1, <2>3, <2>4 DEF Brought
  <2>6. LogMarks' \subseteq LogMarks \cup {Mark(WALRecord(i))}
    BY <1>a, <2>1, LogMarksAppend, SameLogMarks
  <2>7. \A d \in Day : PageMarks(d)' = PageMarks(d) /\ FileMarks(d)' = FileMarks(d)
    BY <2>2, SamePageMarks, SameFileMarks
  <2> QED
    BY <2>5, <2>6, <2>7, MarksParts, MarksPartsNext DEF MarksSplit
<1>6. CASE ReplayPut
  <2> DEFINE s == [id |-> Rec.id, ts |-> Rec.ts, val |-> Rec.val]
  <2>1. /\ Rec \in Record /\ RecDay \in Day /\ replay.pos \in DOMAIN replay.recs
        /\ UNCHANGED <<wal, dataFile>>
    BY <1>6, <1>a, ReplayPutMoves
  <2>2. page' = [page EXCEPT ![RecDay] = Append(@, s)] /\ s \in Sample
    BY <1>6, <2>1 DEF ReplayPut, PutSample, Record, Sample
  <2>3. Replaying
    BY <1>6 DEF ReplayPut, ReplayRecord, DurableInv, BookOK, ReplayOK
  <2>4. wal = replay.recs
    BY <2>3, TrustedReplay
  <2>5. Mark(s) \in LogMarks
    BY <2>1, <2>4 DEF LogMarks, Mark, Rec
  <2> HIDE DEF s
  <2>6. \A e \in Day : PageMarks(e)' \subseteq PageMarks(e) \cup {Mark(s)}
    BY <1>a, <2>1, <2>2, PageMarksPut
  <2>7. LogMarks' = LogMarks /\ \A d \in Day : FileMarks(d)' = FileMarks(d)
    BY <2>1, SameLogMarks, SameFileMarks
  <2> QED
    BY <2>5, <2>6, <2>7, MarksParts, MarksPartsNext DEF MarksSplit
<1>7. CASE AddPut
  <2> DEFINE s == [id |-> catalog[call.metric], ts |-> call.ts, val |-> call.val]
  <2>1. CallDay \in Day /\ call.op = "add" /\ UNCHANGED <<wal, dataFile>> /\ pc = "page"
    BY <1>7, <1>a, AddPutMoves
  <2>2. call.metric \in Metric /\ call.ts \in Timestamp /\ catalog[call.metric] # 0
    BY <2>1 DEF DurableInv, IInv, CallOK, Paging, Known
  <2>3. page' = [page EXCEPT ![CallDay] = Append(@, s)]
    BY <1>7 DEF AddPut, PutSample
  <2>4. s \in Sample
    BY <2>2 DEF DurableInv, IInv, TypeOK, MemoryOK, HandlerOK, Sample
  <2>5. Brought(Mark(s))
    BY <1>7, <2>1, <2>2, AddPutNames DEF Brought, Mark
  <2> HIDE DEF s
  <2>6. \A e \in Day : PageMarks(e)' \subseteq PageMarks(e) \cup {Mark(s)}
    BY <1>a, <2>1, <2>3, <2>4, PageMarksPut
  <2>7. LogMarks' = LogMarks /\ \A d \in Day : FileMarks(d)' = FileMarks(d)
    BY <2>1, SameLogMarks, SameFileMarks
  <2> QED
    BY <2>5, <2>6, <2>7, MarksParts, MarksPartsNext DEF MarksSplit
<1>8. CASE AppendFrame
  <2>1. /\ flush.day \in Day /\ UNCHANGED <<wal, page>>
        /\ dataFile' = [dataFile EXCEPT ![flush.day] = Append(@, page[flush.day])]
    BY <1>8, <1>a, AppendFrameMoves DEF AppendFrame
  <2>2. \A d \in Day : FileMarks(d)' \subseteq FileMarks(d) \cup PageMarks(d)
    BY <1>a, <2>1, FileMarksAppend
  <2> QED
    BY <1>b, <1>c, <1>d, <2>1, <2>2
<1>9. CASE SyncFlushed
  <2>1. \A e \in Day : page'[e] = IF e = flush.day THEN <<>> ELSE page[e]
    BY <1>9, <1>a, SyncFlushedMoves
  <2>2. UNCHANGED <<wal, dataFile>>
    BY <1>9 DEF SyncFlushed
  <2>3. \A e \in Day : PageMarks(e)' \subseteq PageMarks(e)
    BY <2>1 DEF PageMarks, Mark
  <2> QED
    BY <1>b, <1>c, <1>e, <2>2, <2>3
<1>10. CASE ResetWAL
  <2>1. wal' = <<>> /\ UNCHANGED <<page, dataFile>>
    BY <1>10 DEF ResetWAL
  <2> QED
    BY <1>b, <1>c, <1>d, <1>e, <2>1
<1> QED
  BY <1>1, <1>2, <1>3, <1>4, <1>5, <1>6, <1>7, <1>8, <1>9, <1>10, NextParts DEF Logs


\* A stored sample is of a call that was made.
LEMMA MarkOfCall ==
    ASSUME DurableInv, NEW x \in Marks
    PROVE  x[2] \in 1..calls
<1>1. \E p \in Points : p[2] = x[2]
  <2>1. CASE x \in LogMarks
    <3>1. PICK i \in DOMAIN wal : x = Mark(wal[i])
      BY <2>1 DEF LogMarks
    <3>2. Pt(wal[i]) \in Points
      BY DEF Logged, Points
    <3> QED
      BY <3>1, <3>2 DEF Mark, Pt
  <2>2. ASSUME NEW d \in Day, x \in PageMarks(d)
        PROVE  \E p \in Points : p[2] = x[2]
    <3>1. PICK k \in DOMAIN page[d] : x = Mark(page[d][k])
      BY <2>2 DEF PageMarks
    <3>2. Pt(page[d][k]) \in Paged(d)
      BY DEF Paged
    <3>3. Pt(page[d][k]) \in Points
      BY <3>2, InDaysParts DEF Points
    <3> QED
      BY <3>1, <3>3 DEF Mark, Pt
  <2>3. ASSUME NEW d \in Day, x \in FileMarks(d)
        PROVE  \E p \in Points : p[2] = x[2]
    <3>1. PICK f \in DOMAIN dataFile[d] : x \in {Mark(dataFile[d][f][k]) : k \in DOMAIN dataFile[d][f]}
      BY <2>3 DEF FileMarks
    <3>2. PICK k \in DOMAIN dataFile[d][f] : x = Mark(dataFile[d][f][k])
      BY <3>1
    <3>3. Pt(dataFile[d][f][k]) \in Filed(d)
      BY DEF Filed
    <3>4. Pt(dataFile[d][f][k]) \in Points
      BY <3>3, InDaysParts DEF Points
    <3> QED
      BY <3>2, <3>4 DEF Mark, Pt
  <2> QED
    BY <2>1, <2>2, <2>3, MarksParts
<1> QED
  BY <1>1 DEF DurableInv, BookOK, PointsOK

\* The call in progress stays, ends, or is the next one.
LEMMA CallMoves ==
    ASSUME IInv, [Next]_vars
    PROVE  call' = call \/ call'.op # "add" \/ call'.val = calls + 1
<1>1. Answering \/ Stops => call'.op # "add"
  BY AnsweringMoves, StopsMoves DEF NoCall
<1>2. CASE Quiet
  BY <1>1, <1>2, QuietMoves DEF IInv, TypeOK
<1>3. CASE Halting
  BY <1>1, <1>3, HaltingStops
<1>4. ASSUME NEW m \in Metric, NEW t \in Timestamp, BeginAdd(m, t) PROVE call'.val = calls + 1
  BY <1>4, TakenMoves
<1>5. CASE (\E useWAL \in BOOLEAN : LogSample(useWAL)) \/ LogSyncFails
  BY <1>1, <1>5 DEF LogSample, LogSyncFails, Answering
<1>6. CASE UNCHANGED vars \/ OpenDatabase \/ ReplayPut \/ AddPut \/ AppendFrame \/ SyncFlushed
  BY <1>6, OpenMoves, ReplayPutMoves, AddPutMoves, AppendFrameMoves, SyncFlushedMoves DEF SyncFlushed
<1>7. CASE ResetWAL
  BY <1>1, <1>7, ResetWALMoves
<1> QED
  BY <1>2, <1>3, <1>4, <1>5, <1>6, <1>7, NextParts

LEMMA MarksKept ==
    ASSUME DurableInv, [Next]_vars, FreshOK, CatalogOK, MarksOK, Trusted'
    PROVE  MarksOK'
<1>1. Trusted /\ config' = config
  BY TrustedBefore
<1>2. Names \subseteq Names'
  BY NamesMove
<1>3. /\ calls \in Nat
      /\ call.op = "add" => call.val = calls /\ \A a \in answered : a.val # call.val
  BY DEF DurableInv, IInv, TypeOK, HistoryOK, BookOK, FlowOK
<1>4. \A a \in answered' : a \in answered \/ (call.op = "add" /\ a.metric = call.metric /\ a.val = call.val)
  BY AnswerKinds DEF DurableInv, Return
<1>5. call' = call \/ call'.op # "add" \/ call'.val = calls + 1
  BY CallMoves DEF DurableInv
<1>6. ASSUME NEW x \in Marks'
      PROVE  /\ \A a \in answered' : a.val = x[2] => <<a.metric, x[1]>> \in Names'
             /\ call'.op = "add" /\ call'.val = x[2] => <<call'.metric, x[1]>> \in Names'
  <2>1. CASE x \in Marks
    <3>1. /\ \A a \in answered : a.val = x[2] => <<a.metric, x[1]>> \in Names'
          /\ call.op = "add" /\ call.val = x[2] => <<call.metric, x[1]>> \in Names'
      BY <1>2, <2>1 DEF MarksOK
    <3>2. x[2] # calls + 1
      BY <1>3, <2>1, MarkOfCall
    <3>3. \A a \in answered' : a.val = x[2] => <<a.metric, x[1]>> \in Names'
      BY <1>4, <3>1
    <3>4. call'.op = "add" /\ call'.val = x[2] => <<call'.metric, x[1]>> \in Names'
      BY <1>5, <3>1, <3>2
    <3> QED
      BY <3>3, <3>4
  <2>2. CASE Brought(x)
    <3>1. call.op = "add" /\ x[2] = calls /\ x[2] = call.val /\ <<call.metric, x[1]>> \in Names'
      BY <1>3, <2>2 DEF Brought
    <3>2. x[2] # calls + 1
      BY <1>3, <3>1
    <3>3. \A a \in answered' : a.val = x[2] => <<a.metric, x[1]>> \in Names'
      BY <1>3, <1>4, <3>1
    <3>4. call'.op = "add" /\ call'.val = x[2] => <<call'.metric, x[1]>> \in Names'
      BY <1>5, <3>1, <3>2
    <3> QED
      BY <3>3, <3>4
  <2> QED
    BY <1>1, <2>1, <2>2, MarksMove
<1> QED
  BY <1>6 DEF MarksOK

-----------------------------------------------------------------------------
(* The invariant and the property.                                         *)

LEMMA InitNames == Init => NamesOK
<1> SUFFICES ASSUME Init PROVE NamesOK
  OBVIOUS
<1>1. /\ wal = <<>> /\ page = EmptyPages /\ dataFile = EmptyPages /\ pc = "closed"
      /\ catalog = NoMetrics /\ catalogFile = NoMetrics /\ dirty = FALSE /\ ~Replaying /\ Down
      /\ answered = {} /\ call = NoCall
  BY DEF Init, Replaying, NoReplay, Down
<1>2. FileNames = {} /\ LogNames = {} /\ Names = {}
  BY <1>1 DEF FileNames, NamedOnDisk, NoMetrics, LogNames, Learnt, Names
<1>3. OneToOne(Names) /\ Numbered(Names)
  BY <1>2 DEF OneToOne, Numbered
<1>4. FileFresh /\ FileBacked /\ ReplayNames
  BY <1>1 DEF FileFresh, FileBacked, ReplayNames
<1>5. FreshOK
  BY <1>1 DEF FreshOK, Ensuring
<1>6. MarksOK
  BY <1>1 DEF MarksOK, NoCall
<1> QED
  BY <1>3, <1>4, <1>5, <1>6 DEF NamesOK, CatalogOK

LEMMA NextNamesInv == NamesInv /\ [Next]_vars => NamesInv'
<1> SUFFICES ASSUME NamesInv, [Next]_vars PROVE NamesInv'
  OBVIOUS
<1>1. DurableInv /\ FreshOK /\ (Trusted => CatalogOK /\ MarksOK)
  BY DEF NamesInv, NamesOK
<1>2. DurableInv' /\ FreshOK'
  BY <1>1, NextDurableInv, FreshKept
<1>3. ASSUME Trusted' PROVE CatalogOK' /\ MarksOK'
  <2>1. CatalogOK /\ MarksOK
    BY <1>1, <1>3, TrustedBefore
  <2> QED
    BY <1>1, <1>3, <2>1, NamesMove, MarksKept
<1> QED
  BY <1>2, <1>3 DEF NamesInv, NamesOK

\* What a query of a day returns is in its page or its file.
LEMMA VisibleMarks ==
    ASSUME IInv, NEW d \in Day, NEW s \in Visible(d)
    PROVE  Mark(s) \in Marks /\ s.id \in MetricID
<1>1. PICK g \in Range(Frames(d)) : s \in Range(g)
  BY DEF Visible
<1>2. PICK f \in DOMAIN Frames(d) : g = Frames(d)[f]
  BY <1>1 DEF Range
<1>3. PICK k \in DOMAIN g : s = g[k]
  BY <1>1 DEF Range
<1>4. s \in Sample
  <2>1. g \in Seq(Sample)
    BY <1>2, FramesParts
  <2> QED
    BY <1>3, <2>1
<1>5. CASE f \in DOMAIN dataFile[d]
  <2>1. g = dataFile[d][f]
    BY <1>2, <1>5, FramesParts
  <2>2. Mark(s) \in FileMarks(d)
    BY <1>3, <1>5, <2>1 DEF FileMarks
  <2> QED
    BY <1>4, <2>2, MarksParts DEF Sample
<1>6. CASE page[d] # <<>> /\ f = Len(dataFile[d]) + 1
  <2>1. g = page[d]
    BY <1>2, <1>6, FramesParts
  <2>2. Mark(s) \in PageMarks(d)
    BY <1>3, <2>1 DEF PageMarks
  <2> QED
    BY <1>4, <2>2, MarksParts DEF Sample
<1> QED
  BY <1>2, <1>5, <1>6, FramesParts

LEMMA InvNamed == NamesInv => SamplesKeepTheirMetric
<1> SUFFICES ASSUME NamesInv, pc = "idle", Calm \/ (WALProtected /\ ReplayKeepsWAL),
                    NEW a \in answered, NEW s \in Visible(DayOf[a.ts]), s.val = a.val,
                    NEW m \in Metric
             PROVE  catalog[m] = s.id <=> m = a.metric
  BY DEF SamplesKeepTheirMetric
<1>1. DurableInv /\ IInv /\ Trusted /\ CatalogOK /\ MarksOK
  BY DEF NamesInv, NamesOK, DurableInv, Trusted
<1>2. a.metric \in Metric /\ DayOf[a.ts] \in Day
  BY <1>1, DaysAreNumbers DEF IInv, TypeOK, HistoryOK
<1>3. Mark(s) \in Marks /\ s.id \in MetricID
  BY <1>1, <1>2, VisibleMarks
<1>4. Mark(s)[1] = s.id /\ Mark(s)[2] = a.val
  BY DEF Mark
<1>5. <<a.metric, s.id>> \in Names
  BY <1>1, <1>3, <1>4 DEF MarksOK
<1>6. ~Replaying /\ ~Down
  BY <1>1, TrustedReplay DEF AtReplay, Down
<1>7. Names = KnownNames
  BY <1>6 DEF Names
<1>8. catalog[a.metric] = s.id /\ s.id # 0
  BY <1>3, <1>5, <1>7, ConfigAssumption DEF KnownNames, Named, MetricID
<1>9. ASSUME catalog[m] = s.id PROVE m = a.metric
  <2>1. <<m, s.id>> \in Names
    BY <1>7, <1>8, <1>9 DEF KnownNames, Named
  <2> QED
    BY <1>1, <1>5, <2>1 DEF CatalogOK, OneToOne
<1> QED
  BY <1>8, <1>9

\* LAW 11: between calls a stored sample is found under the metric its call named and under
\* no other, after every crash, failed write and replay of a database whose WAL takes all
\* samples; in any other database as long as nothing stopped or failed.
THEOREM SamplesStayNamed == Spec => []SamplesKeepTheirMetric
<1>1. Init => NamesInv
  BY InitDurableInv, InitNames DEF NamesInv
<1> QED
  BY <1>1, NextNamesInv, InvNamed, PTL DEF Spec

=============================================================================
