----------------------------- MODULE PartitionFiles -----------------------------
(***************************************************************************)
(* The files of the partitions of one NanoTDB database: a partition is     *)
(* written to data-<part>.dat, sealed when a newer one needs its place,    *)
(* rewritten to metric-<part>.dat, its source kept, renamed to             *)
(* raw-<part>.dat or removed, and at last deleted or archived, while       *)
(* queries look for it.  Source: internal/engine (engine.go,               *)
(* metricfile_v1.go, metricfile_v2.go, metricfile_build.go, recompact.go). *)
(*                                                                         *)
(* Writers hold Engine.writeMu; pc says where the one in progress is, and  *)
(* one action is one effect on disk.  A query takes writeMu for the open   *)
(* page only.  A sample is the number of its call, which is also its order *)
(* in time within its partition: partitions are written in any order, one  *)
(* partition in the order of time, and each call has a metric of its own.  *)
(* The catalog, timestamps that repeat and failing writes are MetricStore's *)
(* subject; partitions are days and the log is always on.                  *)
(***************************************************************************)
EXTENDS Integers, FiniteSets, SequencesExt

CONSTANTS
    Day,             \* the partitions, numbered in the order of time
    MaxActiveDays,   \* manifest: partition.max_active_days
    PageMaxRecords,  \* manifest: page.max_records
    RetentionDays,   \* manifest: retention_days; 0 is as retention_action "keep"
    Settings         \* the settings and bounds behaviors start with

ASSUME PartitionAssumption ==
    /\ Day \subseteq Nat \ {0} /\ IsFiniteSet(Day)
    /\ {MaxActiveDays, PageMaxRecords, RetentionDays} \subseteq Nat \ {0}
    /\ Settings \subseteq
          [build     : BOOLEAN,                        \* [metrics].enabled
           raw       : {"keep", "rename", "delete"},   \* [metrics].raw_ingest_action
           retention : {"keep", "delete", "archive"},  \* retention_action
           calls : Nat, crashes : Nat, queries : Nat, repacks : Nat]  \* bounds

VARIABLES
    \* on disk
    file,     \* the frames of each file of each day; no frames, no file
    archive,  \* the tar bucket: the files in it, and whether its end is broken
    wal,      \* the samples logged since the last reset
    \* in memory
    open,     \* dbRuntime.openDays: its keys
    page,     \* and its pages, empty for nil
    sealed,   \* dbRuntime.sealedDays
    \* the writer in progress, and what a replay has left
    pc, job, replay,
    query,    \* the query in progress
    \* history
    setting,  \* the settings of this behavior, never changed
    calls, acked, newest, late, crashes, queries, repacks

disk    == <<file, archive, wal>>
days    == <<open, page, sealed>>
memory  == <<days, pc, job, replay, query>>
counts  == <<crashes, queries, repacks>>
history == <<setting, calls, acked, newest, late, counts>>
vars    == <<disk, memory, history>>

Kind   == {"data", "metric", "raw"}
Sample == [day : Day, n : Nat]

NoFiles  == [d \in Day |-> [k \in Kind |-> <<>>]]
NoPages  == [d \in Day |-> <<>>]
NoJob    == [op |-> "none", day |-> 0, n |-> 0, seal |-> 0, from |-> "data"]
NoQuery  == [phase |-> "none", day |-> 0, from |-> "data", got |-> <<>>, due |-> {}]

-----------------------------------------------------------------------------
Held(frames) == FlattenSeq(frames)
Exists(d, k) == file[d][k] # <<>>
Members(d, k) == Range(Held(file[d][k]))

\* resolveMetricRawPartitionPath: the data file, else the renamed one.
RawOnly(d) == "raw"  \* faulty
Source(d)  == IF Exists(d, "data") THEN "data" ELSE "raw"

\* buildCoalescedMetricInputsFromDataFile: the samples of all frames.  It sorts
\* those of each metric; here each is the only one of its metric.
FirstFrame(frames) == <<Head(frames)>>  \* faulty
Columns(frames)    == <<Held(frames)>>

\* recompactDataFileBlob: pages filled up in the order of the file; a page ends
\* when it is full or the next sample is older than its last.
Packed(frames) ==
    LET h == Held(frames)
        add(f, n) ==
            IF f # <<>> /\ Len(Last(f)) < PageMaxRecords /\ Last(Last(f)) <= n
            THEN Append(Front(f), Append(Last(f), n))
            ELSE Append(f, <<n>>)
        pages[i \in 0..Len(h)] == IF i = 0 THEN <<>> ELSE add(pages[i - 1], h[i])
    IN pages[Len(h)]
LastPageDropped(frames) ==  \* faulty: no flushPage at the end
    SelectSeq(Packed(frames), LAMBDA f : Len(f) = PageMaxRecords)
Repacked(frames) == Packed(frames)

\* The tar bucket has files of the day.
Archived(d) == \E f \in archive.files : f.day = d

\* What a query of a day reads: its metric file if there is one, else its source,
\* then its open page.
Readable(d)  ==
    Held(file[d][IF Exists(d, "metric") THEN "metric" ELSE Source(d)]) \o page[d]

HasRoom    == Cardinality(open) < MaxActiveDays
OldestOpen == CHOOSE d \in open : \A e \in open : d <= e

\* cleanupRetention: before the cutoff, counted from the sample being written.
PastOrLastDay(d, now) == d + RetentionDays <= now  \* faulty
Past(d, now)          == d + RetentionDays < now
Swept(now)            == {d \in Day : Past(d, now) /\ \E k \in Kind : Exists(d, k)}

TypeOK ==
    /\ file \in [Day -> [Kind -> Seq(Seq(Nat))]]
    /\ archive \in [files : SUBSET [day : Day, kind : Kind, frames : Seq(Seq(Nat))],
                    broken : BOOLEAN]
    /\ wal \in Seq(Sample)
    /\ open \subseteq Day /\ sealed \subseteq Day /\ open \cap sealed = {}
    /\ page \in [Day -> Seq(Nat)]
    /\ \A d \in Day : page[d] # <<>> => d \in open
    /\ Cardinality(open) <= MaxActiveDays
    /\ pc \in {"down", "replay", "idle", "open", "reset", "build", "source", "rename",
               "sweep", "remove", "log", "store", "others", "full", "drain"}
    /\ job \in [op : {"none", "add", "replay", "flush", "close", "compact"},
                day : Day \cup {0}, n : Nat, seal : Day \cup {0}, from : Kind]
    /\ replay \in Seq(Sample)
    /\ query \in [phase : {"none", "metric", "resolve", "source", "page", "done"},
                  day : Day \cup {0}, from : Kind, got : Seq(Nat), due : SUBSET Nat]
    /\ setting \in Settings
    /\ acked \subseteq Sample /\ late \subseteq Day /\ newest \in Day \cup {0}
    /\ {calls, crashes, queries, repacks} \subseteq Nat

Init ==
    /\ file = NoFiles /\ archive = [files |-> {}, broken |-> FALSE] /\ wal = <<>>
    /\ open = {} /\ page = NoPages /\ sealed = {}
    /\ pc = "down" /\ job = NoJob /\ replay = <<>> /\ query = NoQuery
    /\ setting \in Settings
    /\ calls = 0 /\ acked = {} /\ newest = 0 /\ late = {}
    /\ crashes = 0 /\ queries = 0 /\ repacks = 0

LoseMemory ==
    /\ open' = {} /\ page' = NoPages /\ sealed' = {}
    /\ pc' = "down" /\ job' = NoJob /\ replay' = <<>> /\ query' = NoQuery

\* A query of day d that can no longer find the samples ns where it goes on.
Hide(d, phases, ns) ==
    query' = IF query.day = d /\ query.phase \in phases
             THEN [query EXCEPT !.due = @ \ ns] ELSE query

-----------------------------------------------------------------------------
(* Pages to frames.                                                         *)

AppendFrame(d) ==
    /\ file' = [file EXCEPT ![d]["data"] = Append(@, page[d])]
    /\ page' = [page EXCEPT ![d] = <<>>]
    /\ open' = open \ {d}
    /\ Hide(d, {"page"}, Range(page[d]))

\* maybeResetWAL
NoPageOpen     == page = NoPages
ResetIfNoPages == wal' = IF NoPageOpen THEN <<>> ELSE wal

Return ==
    /\ pc' = "idle" /\ job' = NoJob
    /\ acked' = IF job.op = "add" THEN acked \cup {[day |-> job.day, n |-> job.n]} ELSE acked

-----------------------------------------------------------------------------
(* Opening: replayWALIntoRuntime, record by record.  The watermark of a     *)
(* partition is the end of its data file, which its renamed one is not.     *)

Durable(d) == IF Exists(d, "data") THEN Max(Members(d, "data")) ELSE 0

Open ==
    /\ pc = "down"
    /\ pc' = "replay"
    /\ replay' = wal
    /\ UNCHANGED <<disk, days, job, query, history>>

SkipDurable(r) == r.n <= Durable(r.day)

ReplaySkip ==
    /\ pc = "replay" /\ replay # <<>>
    /\ SkipDurable(Head(replay))
    /\ replay' = Tail(replay)
    /\ UNCHANGED <<disk, days, pc, job, query, history>>

ReplayTake ==
    LET r == Head(replay) IN
    /\ pc = "replay" /\ replay # <<>>
    /\ ~SkipDurable(r)
    /\ r.day \notin sealed  \* else the open fails
    /\ pc' = "open"
    /\ job' = [NoJob EXCEPT !.op = "replay", !.day = r.day, !.n = r.n]
    /\ replay' = Tail(replay)
    /\ UNCHANGED <<disk, days, query, history>>

ReplayRefused ==
    /\ pc = "replay" /\ replay # <<>>
    /\ ~SkipDurable(Head(replay))
    /\ Head(replay).day \in sealed
    /\ LoseMemory
    /\ UNCHANGED <<disk, history>>

ReplayDone ==
    /\ pc = "replay" /\ replay = <<>>
    /\ pc' = "idle" /\ replay' = <<>>
    /\ UNCHANGED <<disk, days, job, query, history>>

-----------------------------------------------------------------------------
(* AddSample: find a place for the partition, log, add to its page, write   *)
(* what is full.                                                            *)

BeginAdd(d) ==
    /\ pc = "idle"
    /\ calls < setting.calls
    /\ d \notin sealed  \* else refused
    /\ calls' = calls + 1
    /\ newest' = IF d > newest THEN d ELSE newest
    /\ pc' = "open"
    /\ job' = [NoJob EXCEPT !.op = "add", !.day = d, !.n = calls + 1]
    /\ UNCHANGED <<disk, days, replay, query, setting, acked, late, counts>>

\* ensureDayOpen
OpenDay ==
    /\ pc = "open"
    /\ job.day \in open \/ HasRoom
    /\ open' = open \cup {job.day}
    /\ pc' = IF job.op = "add" THEN "log" ELSE "store"
    /\ UNCHANGED <<disk, page, sealed, job, replay, query, history>>

\* sealDay of the oldest open day: its page, its log, its metric file, its
\* source, then the days that are past.
SealPage ==
    LET o == OldestOpen IN
    /\ pc = "open"
    /\ job.day \notin open /\ ~HasRoom
    /\ job' = [job EXCEPT !.seal = o]
    /\ pc' = "reset"
    /\ IF page[o] # <<>> THEN AppendFrame(o)
       ELSE open' = open \ {o} /\ UNCHANGED <<file, page, query>>
    /\ UNCHANGED <<archive, wal, sealed, replay, history>>

SealReset ==
    /\ pc = "reset"
    /\ ResetIfNoPages
    /\ pc' = IF setting.build /\ Exists(job.seal, Source(job.seal)) THEN "build" ELSE "sweep"
    /\ UNCHANGED <<file, archive, days, job, replay, query, history>>

AfterBuild ==
    IF job.op = "compact" THEN Return ELSE pc' = "sweep" /\ UNCHANGED <<job, acked>>

\* buildMetricFileForPartitionV2: the metric file replaced by a rename.
WriteMetricFile ==
    LET s == job.seal IN
    /\ pc = "build"
    /\ file' = [file EXCEPT ![s]["metric"] = Columns(file[s][Source(s)])]
    /\ late' = IF setting.raw = "keep" /\ query.day # s /\ ~Archived(s) THEN late \ {s} ELSE late
    /\ job' = [job EXCEPT !.from = Source(s)]
    /\ pc' = "source"
    /\ UNCHANGED <<archive, wal, days, replay, query, setting, calls, acked, newest, counts>>

\* applyMetricRawIngestAction
KeepSource ==
    /\ pc = "source"
    /\ setting.raw = "keep" \/ (setting.raw = "rename" /\ job.from = "raw")
    /\ AfterBuild
    /\ UNCHANGED <<disk, days, replay, query, setting, calls, newest, late, counts>>

DeleteSource ==
    LET s == job.seal IN
    /\ pc = "source" /\ setting.raw = "delete"
    /\ file' = [file EXCEPT ![s][job.from] = <<>>]
    /\ Hide(s, {"resolve", "source"}, Members(s, job.from))
    /\ AfterBuild
    /\ UNCHANGED <<archive, wal, days, replay, setting, calls, newest, late, counts>>

RemoveOldRaw ==
    /\ pc = "source" /\ setting.raw = "rename" /\ job.from = "data"
    /\ file' = [file EXCEPT ![job.seal]["raw"] = <<>>]
    /\ pc' = "rename"
    /\ UNCHANGED <<archive, wal, days, job, replay, query, history>>

RenameSource ==
    LET s == job.seal IN
    /\ pc = "rename"
    /\ file' = [file EXCEPT ![s]["raw"] = file[s]["data"], ![s]["data"] = <<>>]
    /\ IF query.from = "data" THEN Hide(s, {"source"}, Members(s, "data"))
       ELSE UNCHANGED query
    /\ AfterBuild
    /\ UNCHANGED <<archive, wal, days, replay, setting, calls, newest, late, counts>>

\* cleanupRetention: one past day after the other, all its files into the bucket
\* or none (a base name the bucket has is not added again), then each file
\* removed.
Sweeping == setting.retention # "keep" /\ Swept(job.day) # {}
              /\ ~(setting.retention = "archive" /\ archive.broken)

SweepDay ==
    LET d    == CHOOSE d \in Swept(job.day) : \A e \in Swept(job.day) : d <= e
        new  == {k \in Kind : Exists(d, k) /\ \A f \in archive.files : <<f.day, f.kind>> # <<d, k>>}
    IN
    /\ pc = "sweep" /\ Sweeping
    /\ archive' = IF setting.retention = "archive"
                  THEN [archive EXCEPT !.files = @ \cup
                           {[day |-> d, kind |-> k, frames |-> file[d][k]] : k \in new}]
                  ELSE archive
    /\ late' = IF setting.retention = "archive" /\ page[d] # <<>> THEN late \cup {d} ELSE late
    /\ pc' = "remove"
    /\ UNCHANGED <<file, wal, days, job, replay, query, setting, calls, acked, newest, counts>>

\* The files of a day go in the order of their names.
RemoveFile ==
    LET d == CHOOSE d \in Swept(job.day) : \A e \in Swept(job.day) : d <= e
        k == CHOOSE k \in Kind : /\ Exists(d, k)
                                 /\ \A j \in Kind : Exists(d, j) =>
                                        \/ k = "data" \/ j = "raw" \/ j = k
    IN
    /\ pc = "remove"
    /\ file' = [file EXCEPT ![d][k] = <<>>]
    /\ Hide(d, {"metric", "resolve", "source"}, Members(d, k))
    /\ pc' = IF \E j \in Kind \ {k} : Exists(d, j) THEN "remove" ELSE "sweep"
    /\ UNCHANGED <<archive, wal, days, job, replay, history>>

SweepDone ==
    /\ pc = "sweep" /\ ~Sweeping
    /\ sealed' = sealed \cup {job.seal}
    /\ open' = open \cup {job.day}
    /\ pc' = IF job.op = "add" THEN "log" ELSE "store"
    /\ UNCHANGED <<disk, page, job, replay, query, history>>

LogSample ==
    /\ pc = "log"
    /\ wal' = Append(wal, [day |-> job.day, n |-> job.n])
    /\ pc' = "store"
    /\ UNCHANGED <<file, archive, days, job, replay, query, history>>

\* addToOpenDay.  late: the day has had its metric file built, or is archived.
Stored(d) == Exists(d, "metric") \/ Exists(d, "raw") \/ Archived(d)
StoreSample ==
    LET d == job.day IN
    /\ pc = "store"
    /\ page' = [page EXCEPT ![d] = Append(@, job.n)]
    /\ late' = IF Stored(d) THEN late \cup {d} ELSE late
    /\ IF job.op = "add" THEN pc' = "others" /\ UNCHANGED job
       ELSE pc' = "replay" /\ job' = NoJob
    /\ UNCHANGED <<disk, open, sealed, replay, query, setting, calls, acked, newest, counts>>

\* IsFull by count; by age any page may be.
Full(d) == Len(page[d]) >= PageMaxRecords

\* flushEligibleOpenDays: the other full pages; then the page itself.
FlushOther(d) ==
    /\ pc = "others" /\ d # job.day /\ page[d] # <<>>
    /\ AppendFrame(d)
    /\ UNCHANGED <<archive, wal, sealed, pc, job, replay, history>>

OthersDone ==
    /\ pc = "others"
    /\ \A d \in Day \ {job.day} : ~Full(d)
    /\ IF Full(job.day)
       THEN AppendFrame(job.day) /\ pc' = "full" /\ UNCHANGED <<job, acked>>
       ELSE Return /\ UNCHANGED <<file, open, page, query>>
    /\ UNCHANGED <<archive, wal, sealed, replay, setting, calls, newest, late, counts>>

FullReset ==
    /\ pc = "full"
    /\ ResetIfNoPages
    /\ Return
    /\ UNCHANGED <<file, archive, days, replay, query, setting, calls, newest, late, counts>>

-----------------------------------------------------------------------------
(* Flush and Close, and the maintenance calls.                              *)

BeginDrain(op) ==
    /\ pc = "idle"
    /\ pc' = "drain"
    /\ job' = [NoJob EXCEPT !.op = op]
    /\ UNCHANGED <<disk, days, replay, query, history>>

DrainPage(d) ==
    /\ pc = "drain" /\ page[d] # <<>>
    /\ AppendFrame(d)
    /\ UNCHANGED <<archive, wal, sealed, pc, job, replay, history>>

DrainDone ==
    /\ pc = "drain" /\ NoPageOpen
    /\ wal' = <<>>
    /\ IF job.op = "close" THEN LoseMemory /\ UNCHANGED acked
       ELSE Return /\ UNCHANGED <<days, replay, query>>
    /\ UNCHANGED <<file, archive, setting, calls, newest, late, counts>>

\* RecompactDataFile, refused while the day has an open page.
Recompact(d) ==
    /\ pc = "idle" /\ page[d] = <<>> /\ Exists(d, "data")
    /\ repacks < setting.repacks
    /\ repacks' = repacks + 1
    /\ file' = [file EXCEPT ![d]["data"] = Repacked(@)]
    /\ UNCHANGED <<archive, wal, memory, setting, calls, acked, newest, late, crashes, queries>>

\* CompactDataFileToMetricV2: the build of a seal, on demand.
Compact(d) ==
    /\ pc = "idle" /\ page[d] = <<>> /\ Exists(d, Source(d))
    /\ repacks < setting.repacks
    /\ repacks' = repacks + 1
    /\ pc' = "build"
    /\ job' = [NoJob EXCEPT !.op = "compact", !.seal = d]
    /\ UNCHANGED <<disk, days, replay, query, setting, calls, acked, newest, late, crashes,
                   queries>>

\* A crash while the bucket is written leaves it without its end, and some of
\* the files in it: no later append accepts it (invalid tar footer).
Crash ==
    /\ pc # "down"
    /\ crashes < setting.crashes
    /\ crashes' = crashes + 1
    /\ \/ UNCHANGED archive
       \/ /\ pc = "sweep" /\ Sweeping /\ setting.retention = "archive"
          /\ archive' = [archive EXCEPT !.broken = TRUE]
    /\ LoseMemory
    /\ UNCHANGED <<file, wal, setting, calls, acked, newest, late, queries, repacks>>

-----------------------------------------------------------------------------
(* A query of one day: queryRangeManyImpl and scanPersistedPartition.       *)

QueryStart(d) ==
    /\ query = NoQuery
    /\ pc \notin {"down", "replay", "drain"} /\ job.op # "replay"  \* Engine.mu
    /\ queries < setting.queries
    /\ query' = [NoQuery EXCEPT !.phase = "metric", !.day = d, !.due = Range(Readable(d))]
    /\ queries' = queries + 1
    /\ UNCHANGED <<disk, days, pc, job, replay, setting, calls, acked, newest, late, crashes,
                   repacks>>

QueryMetric ==
    LET d == query.day IN
    /\ query.phase = "metric"
    /\ query' = IF Exists(d, "metric")
                THEN [query EXCEPT !.got = Held(file[d]["metric"]), !.phase = "page"]
                ELSE [query EXCEPT !.phase = "resolve"]
    /\ UNCHANGED <<disk, days, pc, job, replay, history>>

QueryResolve ==
    LET d == query.day IN
    /\ query.phase = "resolve"
    /\ query' = IF Exists(d, Source(d)) THEN [query EXCEPT !.from = Source(d), !.phase = "source"]
                ELSE [query EXCEPT !.phase = "page"]
    /\ UNCHANGED <<disk, days, pc, job, replay, history>>

\* A file that is gone by now holds nothing.
QuerySource ==
    /\ query.phase = "source"
    /\ query' = [query EXCEPT !.got = Held(file[query.day][query.from]), !.phase = "page"]
    /\ UNCHANGED <<disk, days, pc, job, replay, history>>

\* snapshotOpenPage needs writeMu.
QueryPage ==
    /\ query.phase = "page" /\ pc = "idle"
    /\ query' = [query EXCEPT !.got = @ \o page[query.day], !.phase = "done"]
    /\ UNCHANGED <<disk, days, pc, job, replay, history>>

QueryReturn ==
    /\ query.phase = "done"
    /\ query' = NoQuery
    /\ UNCHANGED <<disk, days, pc, job, replay, history>>

-----------------------------------------------------------------------------
Seal ==
    \/ SealPage \/ SealReset \/ WriteMetricFile
    \/ KeepSource \/ DeleteSource \/ RemoveOldRaw \/ RenameSource
    \/ SweepDay \/ RemoveFile \/ SweepDone

Write ==
    \/ Open \/ ReplaySkip \/ ReplayTake \/ ReplayRefused \/ ReplayDone
    \/ \E d \in Day : BeginAdd(d)
    \/ OpenDay \/ Seal \/ LogSample \/ StoreSample
    \/ \E d \in Day : FlushOther(d) \/ DrainPage(d) \/ Recompact(d) \/ Compact(d)
    \/ OthersDone \/ FullReset
    \/ \E op \in {"flush", "close"} : BeginDrain(op)
    \/ DrainDone \/ Crash

Query ==
    \/ \E d \in Day : QueryStart(d)
    \/ QueryMetric \/ QueryResolve \/ QuerySource \/ QueryPage \/ QueryReturn

Next == Write \/ Query

Spec == Init /\ [][Next]_vars
-----------------------------------------------------------------------------
(* What the files promise.                                                  *)

Expired(d) == setting.retention # "keep" /\ newest - d > RetentionDays
Times(n, s) == Cardinality({k \in DOMAIN s : s[k] = n})

\* docs/METRIC_FILES.md "Metric files change query layout, not the logical result
\* stream": between calls a query finds every acknowledged sample exactly once,
\* whichever files its day is in, for a day that got no sample after its metric
\* file was built (neither from a caller nor from a replay).
ReadsEverySample ==
    pc = "idle" =>
        \A a \in acked : ~Expired(a.day) /\ a.day \notin late => Times(a.n, Readable(a.day)) = 1

\* With raw_ingest_action = "keep" no build, recompaction, crash or replay costs an
\* acknowledged sample, late days included: the data file, the page and what a
\* replay has left hold each exactly once.
SourceKeepsAll ==
    setting.raw = "keep" /\ pc = "idle" =>
        \A a \in acked : ~Expired(a.day) =>
            Times(a.n, Held(file[a.day]["data"]) \o page[a.day]) = 1

\* Every file of a day at once; a sample of it is in the files or archived.
InFiles(d) == UNION {Members(d, k) : k \in Kind}
InArchive(d) == UNION {Range(Held(f.frames)) : f \in {f \in archive.files : f.day = d}}

\* docs/LAWS.md, LAW 8: what leaves the files is past the retention cutoff, and
\* with retention_action = "archive" in the bucket before; a day that got samples
\* after it was built or archived is excepted.
OnlyPastDaysLeave ==
    [][\A d \in Day : late' = late /\ d \notin late =>
          \A n \in InFiles(d) \ InFiles(d)' :
              /\ Expired(d)
              /\ setting.retention = "archive" => n \in InArchive(d)]_vars

\* A query returns no sample twice, and every one it could read when it began,
\* unless that moved meanwhile from where the query had still to look to where it
\* had looked already.
QueryIsExact ==
    query.phase = "done" /\ query.day \notin late =>
        query.due \subseteq Range(query.got) /\ IsInjective(query.got)

\* docs/METRIC_FILES.md "Metric files change query layout, not the logical result
\* stream": an acknowledged sample that has not expired is in some file or page.
\* The code does not keep this: a sample that comes after the build, from a
\* caller or from the replay of a log the seal could not reset, begins a data
\* file that the next build makes the metric file of the whole day.
NothingLost ==
    pc = "idle" => \A a \in acked : ~Expired(a.day) =>
        a.n \in InFiles(a.day) \cup Range(page[a.day])
=============================================================================
