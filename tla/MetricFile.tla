----------------------------- MODULE MetricFile -----------------------------
(***************************************************************************)
(* The metric file of one sealed partition: how it is laid out from the    *)
(* pages of the data file, published, and read back by queries that share  *)
(* two caches with each other.                                             *)
(*                                                                         *)
(* A build lays the samples out metric by metric, in time order.  In       *)
(* version 1 each metric keeps its timestamps; in version 2 they are kept  *)
(* in time frames, and a metric whose timestamps are a run of those of an  *)
(* earlier frame points into it.  A build replaces the file whole (rename  *)
(* of a temporary), so a query that has it open goes on reading the old    *)
(* one.  A query opens the path twice: for the version, then for the rest. *)
(*                                                                         *)
(* A frame is named by its place among the frames of the file, for its     *)
(* offset.  The size of a file is any of a few: compression makes it.      *)
(*                                                                         *)
(* Source: internal/engine/metricfile_v1.go, metricfile_v2.go,             *)
(* metricfile_build.go, metricfile_reader.go, engine.go.                   *)
(***************************************************************************)
EXTENDS Aggregates

CONSTANTS
    Reader,      \* queries that run at the same time
    Settings,    \* what a run starts from: see Init
    IndexSlots,  \* files whose indexes the shared cache holds
    TimeSlots,   \* time frames the shared cache holds
    MaxTimes,    \* timestamps the shared cache holds
    Window,      \* window of an aggregate query
    AggSets      \* what aggregate queries ask for, together

\* A sample, with the metric it is of; what a query asks for.
Sample  == [id : Nat, ts : Int, v : Int]
Request == [ids : SUBSET Nat, from : Int, to : Int, stride : Nat \ {0}, seen : Nat]

\* AddSample refuses a sample that is before the last one of its page.
InTime(samples) == \A i, j \in 1..Len(samples) : i < j => samples[i].ts <= samples[j].ts
PagesOf(S)      == {p \in Seq(S) : p # <<>> /\ InTime(p)}
Page            == PagesOf(Sample)

ASSUME SettingsAreData ==
    \A s \in Settings : /\ s.pages \in Seq(Page) /\ s.requests \subseteq Request
                         /\ s.more \subseteq PagesOf([id : Nat, ts : Int])

ASSUME CacheLimits == IndexSlots \in Nat /\ TimeSlots \in Nat /\ MaxTimes \in Nat

\* QueryAggregateRange refuses a window that is not positive.
ASSUME WindowIsPositive == Window \in Nat \ {0}

NoFile  == [version |-> 0, size |-> 0, mtime |-> 0, from |-> 0,
            times |-> <<>>, metrics |-> <<>>]
NoSlice == -1

VARIABLES
    setting,     \* the element of Settings this run started from
    data,        \* pages of the data file, a sequence of samples each
    file,        \* what the path of the metric file names, or NoFile
    builds,      \* builds so far: also the clock behind the time of a file
    indexCache,  \* sharedMetricFileIndexCacheV2, most recent first
    timeCache,   \* sharedMetricTimeFrameCacheV2, most recent first
    reads,       \* queries so far
    rd           \* where each query is

vars == <<setting, data, file, builds, indexCache, timeCache, reads, rd>>

-----------------------------------------------------------------------------
(* Laying out.                                                             *)

\* normalizeMetricFilePageInputOrder, normalizePartitionSamplePointOrder: a stable sort.
Earlier(s) == {p \in (DOMAIN s) \X (DOMAIN s) :
                  \/ s[p[1]].ts < s[p[2]].ts
                  \/ s[p[1]].ts = s[p[2]].ts /\ p[1] < p[2]}
SortByTime(s) ==
    LET order == Sorted(DOMAIN s, Earlier(s))
    IN [k \in DOMAIN order |-> s[order[k]]]

Of(id, samples) == Picked(samples, {k \in DOMAIN samples : samples[k].id = id})

\* What a partition holds of each metric: buildCoalescedMetricInputsFromDataFile and
\* collectRawPartitionSamples.
Inputs(pages) ==
    LET all == FlattenSeq(pages)
    IN [id \in {all[k].id : k \in DOMAIN all} |-> SortByTime(Of(id, all))]

TimesOf(samples) == [k \in DOMAIN samples |-> samples[k].ts]
ValuesOf(samples) == [k \in DOMAIN samples |-> samples[k].v]

\* findTimeSliceOffset
SliceOffset(haystack, needle) ==
    LET starts == {o \in 0..(Len(haystack) - Len(needle)) :
                      SubSeq(haystack, o + 1, o + Len(needle)) = needle}
    IN IF starts = {} THEN NoSlice ELSE CHOOSE o \in starts : \A p \in starts : o <= p

\* planMetricFramesV2: the longest metrics first, each into the first frame it fits.
BySize(inputs) ==
    LET ids == DOMAIN inputs
    IN Sorted(ids, {p \in ids \X ids :
                       \/ Len(inputs[p[1]]) > Len(inputs[p[2]])
                       \/ Len(inputs[p[1]]) = Len(inputs[p[2]]) /\ p[1] < p[2]})
Place(plan, id, times) ==
    LET fits  == {f \in DOMAIN plan.times : SliceOffset(plan.times[f], times) # NoSlice}
        first == CHOOSE f \in fits : \A g \in fits : f <= g
    IN IF fits # {}
         THEN [plan EXCEPT !.at[id] = [frame |-> first,
                                       offset |-> SliceOffset(plan.times[first], times)]]
         ELSE [plan EXCEPT !.times = Append(@, times),
                           !.at[id] = [frame |-> Len(plan.times) + 1, offset |-> 0]]
Plan(inputs) ==
    LET ids == BySize(inputs)
        plan[n \in 0..Len(ids)] ==
            IF n = 0 THEN [times |-> <<>>, at |-> [id \in DOMAIN inputs |-> [frame |-> 0, offset |-> 0]]]
            ELSE Place(plan[n - 1], ids[n], TimesOf(inputs[ids[n]]))
    IN plan[Len(ids)]

MetricFrame(id, samples, at, times) ==
    [id |-> id, frame |-> at.frame, offset |-> at.offset, times |-> times,
     start |-> samples[1].ts, end |-> Last(samples).ts, values |-> ValuesOf(samples)]

\* WriteMetricFileV1: the metrics in the order of their ids, each with its timestamps.
LayoutV1(inputs) ==
    LET ids == Sorted(DOMAIN inputs, Less(DOMAIN inputs))
    IN [times   |-> <<>>,
        metrics |-> [k \in DOMAIN ids |-> MetricFrame(ids[k], inputs[ids[k]],
                         [frame |-> 0, offset |-> 0], TimesOf(inputs[ids[k]]))]]

\* WriteMetricFileV2: the time frames, then the metrics that point into them.
LayoutV2(inputs) ==
    LET ids  == Sorted(DOMAIN inputs, Less(DOMAIN inputs))
        plan == Plan(inputs)
    IN [times   |-> plan.times,
        metrics |-> [k \in DOMAIN ids |-> MetricFrame(ids[k], inputs[ids[k]], plan.at[ids[k]], <<>>)]]

\* BuildMetricFileV1, BuildMetricFileV2
Layout(version, pages) ==
    IF version = 1 THEN LayoutV1(Inputs(pages)) ELSE LayoutV2(Inputs(pages))

\* The file a build writes of the pages there are.
Written(version, pages, size, mtime) ==
    LET layout == Layout(version, pages)
    IN [version |-> version, size |-> size, mtime |-> mtime, from |-> Len(pages),
        times |-> layout.times, metrics |-> layout.metrics]

\* The indexes at the end of a version 2 file: everything about a frame but its payload.
TimeEntry(k, times) ==
    [place |-> k, start |-> times[1], end |-> Last(times), points |-> Len(times)]
MetricEntry(k, m) ==
    [place |-> k, id |-> m.id, frame |-> m.frame, offset |-> m.offset,
     start |-> m.start, end |-> m.end, points |-> Len(m.values)]
IndexOf(f) ==
    [times   |-> [k \in DOMAIN f.times |-> TimeEntry(k, f.times[k])],
     metrics |-> [k \in DOMAIN f.metrics |-> MetricEntry(k, f.metrics[k])]]

\* The header in front of a frame, decoded: it is what the index says of the frame.
TimeHeaderAgrees(f, info) ==
    info.place \in DOMAIN f.times /\ TimeEntry(info.place, f.times[info.place]) = info
MetricHeaderAgrees(f, info) ==
    info.place \in DOMAIN f.metrics /\ MetricEntry(info.place, f.metrics[info.place]) = info

-----------------------------------------------------------------------------
(* Reading.                                                                *)

Wanted(rq, ts) == rq.from <= ts /\ ts <= rq.to

\* collectInt32Samples, collectFloat32Samples: every stride-th of a metric's samples in
\* the range, seen of which came from the partitions before.
Strided(samples, rq) ==
    LET wanted == {k \in DOMAIN samples : Wanted(rq, samples[k].ts)}
        nth(k) == rq.seen + Cardinality({j \in wanted : j < k /\ samples[j].id = samples[k].id})
    IN Picked(samples, {k \in wanted : nth(k) % rq.stride = 0})

\* An entry that holds a metric asked for and meets the range.
Asked(rq, m) == m.id \in rq.ids /\ ~(m.end < rq.from \/ m.start > rq.to)
ToRead(entries, rq) == Picked(entries, {k \in DOMAIN entries : Asked(rq, entries[k])})

SamplesOf(m, times) == [k \in DOMAIN m.values |-> [id |-> m.id, ts |-> times[k], v |-> m.values[k]]]

\* collectMetricSetFromFile: the pages that meet the range.
LateHeader(rq, page) == page[1].ts > rq.to \/ Last(page).ts <= rq.from
OutsideHeader(rq, page) == page[1].ts > rq.to \/ Last(page).ts < rq.from
SamplesIn(page, rq) == Picked(page, {k \in DOMAIN page : page[k].id \in rq.ids})
RawStream(pages, rq) ==
    LET passed == Picked(pages, {k \in DOMAIN pages : ~OutsideHeader(rq, pages[k])})
    IN Strided(FlattenSeq([k \in DOMAIN passed |-> SamplesIn(passed[k], rq)]), rq)

\* collectMetricSetFromMetricFileV1
StreamV1(f, rq) ==
    LET asked == ToRead(f.metrics, rq)
    IN FlattenSeq([k \in DOMAIN asked |-> Strided(SamplesOf(asked[k], asked[k].times), rq)])

\* metricTimeFrameCacheIdentityV2, metricFileIndexCacheIdentityV2
PathAndSize(f) == <<f.size>>
CacheKey(f) == <<f.size, f.mtime>>

Holds(cache, key) == \E k \in DOMAIN cache : cache[k].key = key
Entry(cache, key) == cache[CHOOSE k \in DOMAIN cache : cache[k].key = key]

\* A hit moves the entry to the front; a put drops the oldest past the limits.
Without(cache, key) == Picked(cache, {k \in DOMAIN cache : cache[k].key # key})
Touch(cache, key)   == <<Entry(cache, key)>> \o Without(cache, key)

Within(cache, slots, most, costs) ==
    LET sizes == {n \in 0..Len(cache) : n <= slots /\ Total(SubSeq(costs, 1, n)) <= most}
    IN SubSeq(cache, 1, CHOOSE n \in sizes : \A m \in sizes : m <= n)

PutIndex(key, index) ==
    LET cache == <<[key |-> key, index |-> index]>> \o Without(indexCache, key)
    IN Within(cache, IndexSlots, 0, [k \in DOMAIN cache |-> 0])

PutTimes(key, times) ==
    LET cache == <<[key |-> key, times |-> times]>> \o Without(timeCache, key)
    IN Within(cache, TimeSlots, MaxTimes, [k \in DOMAIN cache |-> Len(cache[k].times)])

\* compareMetricPartitionSamplesFromFile and its V2: a metric file against the data file.
FrameTimes(f, m) == IF f.version = 1 THEN m.times
                    ELSE SubSeq(f.times[m.frame], m.offset + 1, m.offset + Len(m.values))
PrefixesMatch(f, pages) ==
    LET expected == Inputs(pages) IN
    \A k \in DOMAIN f.metrics : LET m == f.metrics[k] IN
        m.id \in DOMAIN expected /\ IsPrefix(SamplesOf(m, FrameTimes(f, m)), expected[m.id])
Compare(f, pages) ==
    LET expected == Inputs(pages)
        held     == [id \in DOMAIN expected |-> {k \in DOMAIN f.metrics : f.metrics[k].id = id}] IN
    /\ PrefixesMatch(f, pages)
    /\ \A id \in DOMAIN expected :
           \E k \in held[id] : Len(f.metrics[k].values) = Len(expected[id])

-----------------------------------------------------------------------------
Idle == [pc |-> "idle", rq |-> [ids |-> {}, from |-> 0, to |-> 0, stride |-> 1, seen |-> 0],
         version |-> 0, fd |-> NoFile, index |-> <<>>, todo |-> <<>>, local |-> <<>>,
         out |-> <<>>, raw |-> 0]

\* A setting is the pages a partition starts with, the pages that may be added to it, the
\* requests, the sizes of a file, and how many builds and queries there are.
Init ==
    /\ setting \in Settings
    /\ data = setting.pages
    /\ file = NoFile
    /\ builds = 0 /\ reads = 0
    /\ indexCache = <<>> /\ timeCache = <<>>
    /\ rd = [r \in Reader |-> Idle]

Number(page) == LET before == Len(FlattenSeq(data))
                IN [k \in DOMAIN page |-> [id |-> page[k].id, ts |-> page[k].ts, v |-> before + k]]

\* A page is flushed to the data file after all.
AppendPage ==
    /\ \E page \in setting.more :
           /\ Len(data) < setting.maxPages
           /\ data' = Append(data, Number(page))
    /\ UNCHANGED <<setting, file, builds, indexCache, timeCache, reads, rd>>

\* buildMetricFileForPartition(V2): the data file is read and the new file renamed over the
\* old.  Two builds do not end within one tick of the clock of the file system.
Build(version) ==
    /\ builds < setting.builds
    /\ data # <<>>
    /\ builds' = builds + 1
    /\ \E size \in setting.sizes :
           file' = Written(version, data, size, builds')
    /\ UNCHANGED <<setting, data, indexCache, timeCache, reads, rd>>

\* scanPersistedPartition begins.
Ask(r) ==
    /\ rd[r].pc \in {"idle", "done", "failed"}
    /\ reads < setting.reads
    /\ reads' = reads + 1
    /\ \E rq \in setting.requests : rd' = [rd EXCEPT ![r] = [Idle EXCEPT !.pc = "version", !.rq = rq]]
    /\ UNCHANGED <<setting, data, file, builds, indexCache, timeCache>>

\* OpenMetricFile: the version of the file there is, or the data file when there is none.
ReadVersion(r) ==
    /\ rd[r].pc = "version"
    /\ rd' = [rd EXCEPT ![r] =
                 IF file = NoFile
                   THEN [@ EXCEPT !.pc = "done", !.raw = Len(data), !.out = RawStream(data, rd[r].rq)]
                   ELSE [@ EXCEPT !.pc = "open", !.version = file.version]]
    /\ UNCHANGED <<setting, data, file, builds, indexCache, timeCache, reads>>

\* decodeMetricFileV2Header; version 1 checks its header alike.
HeaderDecodes(f, version) == f.version = version

\* The path is opened again, and the header checked against the version expected.
OpenFile(r) ==
    /\ rd[r].pc = "open"
    /\ rd' = [rd EXCEPT ![r] =
                 [@ EXCEPT !.fd = file,
                           !.pc = IF ~HeaderDecodes(file, rd[r].version) THEN "failed"
                                  ELSE IF file.version = 1 THEN "done" ELSE "index",
                           !.out = IF HeaderDecodes(file, 1) /\ rd[r].version = 1
                                     THEN StreamV1(file, rd[r].rq) ELSE <<>>]]
    /\ UNCHANGED <<setting, data, file, builds, indexCache, timeCache, reads>>

WithIndex(q, index) ==
    [q EXCEPT !.index = index, !.todo = ToRead(index.metrics, q.rq), !.pc = "frames"]

\* resolveMetricFileIndexesV2: the cache is asked, and filled after the file was read.
FindIndex(r) ==
    LET key == CacheKey(rd[r].fd)
        hit == Holds(indexCache, key) IN
    /\ rd[r].pc = "index"
    /\ indexCache' = IF hit THEN Touch(indexCache, key) ELSE indexCache
    /\ rd' = [rd EXCEPT ![r] = IF hit THEN WithIndex(@, Entry(indexCache, key).index)
                                      ELSE [@ EXCEPT !.pc = "loadIndex"]]
    /\ UNCHANGED <<setting, data, file, builds, timeCache, reads>>

LoadIndex(r) ==
    LET index == IndexOf(rd[r].fd) IN
    /\ rd[r].pc = "loadIndex"
    /\ indexCache' = PutIndex(CacheKey(rd[r].fd), index)
    /\ rd' = [rd EXCEPT ![r] = WithIndex(@, index)]
    /\ UNCHANGED <<setting, data, file, builds, timeCache, reads>>

\* The time frames a query has, with one more.
Learned(local, frame, times) ==
    [k \in DOMAIN local \cup {frame} |-> IF k = frame THEN times ELSE local[k]]

\* readOneMetricMetricFrameV2 and collectMetricFromMetricFrameV2, of the first entry to do:
\* a frame that is not as the index says, or a slice past the time frame, is an error.
Collect(q, times) ==
    LET info  == Head(q.todo)
        found == MetricHeaderAgrees(q.fd, info)
        slice == SubSeq(times, info.offset + 1, info.offset + info.points) IN
    IF ~found \/ info.offset + info.points > Len(times) THEN [q EXCEPT !.pc = "failed"]
    ELSE [q EXCEPT !.pc = "frames", !.todo = Tail(@),
                   !.local = Learned(@, info.frame, times),
                   !.out = @ \o Strided(SamplesOf(q.fd.metrics[info.place], slice), q.rq)]

\* resolveMetricTimeFrameV2: the time frames this query has, then the shared ones.
FindTimes(r) ==
    LET q     == rd[r]
        frame == Head(q.todo).frame
        key   == <<CacheKey(q.fd), frame>>
        hit   == frame \notin DOMAIN q.local /\ Holds(timeCache, key) IN
    /\ q.pc = "frames" /\ q.todo # <<>>
    /\ timeCache' = IF hit THEN Touch(timeCache, key) ELSE timeCache
    /\ rd' = [rd EXCEPT ![r] =
                 IF frame \in DOMAIN q.local THEN Collect(q, q.local[frame])
                 ELSE IF hit THEN Collect(q, Entry(timeCache, key).times)
                 ELSE [q EXCEPT !.pc = "loadTimes"]]
    /\ UNCHANGED <<setting, data, file, builds, indexCache, reads>>

LoadTimes(r) ==
    LET q     == rd[r]
        frame == Head(q.todo).frame
        found == TimeHeaderAgrees(q.fd, q.index.times[frame]) IN
    /\ q.pc = "loadTimes"
    /\ timeCache' = IF found THEN PutTimes(<<CacheKey(q.fd), frame>>, q.fd.times[frame])
                             ELSE timeCache
    /\ rd' = [rd EXCEPT ![r] = IF found THEN Collect(q, q.fd.times[frame])
                                        ELSE [q EXCEPT !.pc = "failed"]]
    /\ UNCHANGED <<setting, data, file, builds, indexCache, reads>>

Finish(r) ==
    /\ rd[r].pc = "frames" /\ rd[r].todo = <<>>
    /\ rd' = [rd EXCEPT ![r].pc = "done"]
    /\ UNCHANGED <<setting, data, file, builds, indexCache, timeCache, reads>>

Next ==
    \/ AppendPage
    \/ \E version \in {1, 2} : Build(version)
    \/ \E r \in Reader : \/ Ask(r) \/ ReadVersion(r) \/ OpenFile(r)
                         \/ FindIndex(r) \/ LoadIndex(r)
                         \/ FindTimes(r) \/ LoadTimes(r) \/ Finish(r)

Spec == Init /\ [][Next]_vars

-----------------------------------------------------------------------------
(* Properties.                                                             *)

\* The samples of a partition, metric by metric and each metric in time order.
Contents(pages, rq) ==
    LET inputs == Inputs(pages)
        ids    == Sorted(DOMAIN inputs, Less(DOMAIN inputs))
    IN FlattenSeq([k \in DOMAIN ids |->
                      IF ids[k] \in rq.ids THEN Strided(inputs[ids[k]], rq) ELSE <<>>])

Pages(q) == SubSeq(data, 1, IF q.fd = NoFile THEN q.raw ELSE q.fd.from)

\* A query answers from the one file it opened: what the caches hand it was read from that
\* file, although files of the same path and size came and went, entries were dropped while
\* it ran and other queries filled the caches.  It fails only when a build of the other
\* version came between its two opens.
ReadsExact ==
    \A r \in Reader :
        /\ rd[r].pc = "done" /\ rd[r].fd # NoFile => rd[r].out = Contents(Pages(rd[r]), rd[r].rq)
        /\ rd[r].pc = "failed" => rd[r].fd.version # rd[r].version

\* docs/METRIC_FILES.md:113: metric files change the layout of a query and not the stream it
\* returns.  Of a metric whose samples came in time order, a query of the metric file
\* returns what one of the data file it was built from returns.
StreamsAgree ==
    \A r \in Reader : \A id \in rd[r].rq.ids :
        LET came == Of(id, FlattenSeq(Pages(rd[r]))) IN
        rd[r].pc = "done" /\ rd[r].fd # NoFile /\ SortByTime(came) = came
        => Of(id, rd[r].out) = Of(id, RawStream(Pages(rd[r]), rd[r].rq))

CompareDataAndMetricPartition == Compare(file, data)

\* Comparing a metric file with the data file finds out whether the data file grew since.
CompareAgrees == file # NoFile => (CompareDataAndMetricPartition <=> file.from = Len(data))

\* An aggregate query of a metric file reports every window of the range that holds a
\* sample, once and in order, with each aggregate of exactly the samples of that window,
\* whether it is streamed or computed from the points.  The range does not begin before
\* the epoch: floorTimestamp puts what is within a window of it, on either side, into one.
BucketsExact ==
    \A r \in Reader : \A id \in rd[r].rq.ids : \A aggs \in AggSets :
        rd[r].pc = "done" /\ rd[r].fd # NoFile /\ rd[r].rq.stride = 1 /\ rd[r].rq.from >= 0
        => Buckets(Of(id, rd[r].out), rd[r].rq, Window, aggs)
           = TrueBuckets(Of(id, rd[r].out), rd[r].rq, Window, aggs)
=============================================================================
