# NanoTDB in TLA+

NanoTDB (`internal/engine`) is an embedded time-series database for small
machines: samples go to a write-ahead log and an in-memory page per partition
(by default a day), pages are appended as frames to `data-<part>.dat`, closed
partitions are rewritten by metric and rolled up, and after a crash the log is
replayed. This directory holds TLA+ specifications of the engine, the TLC
configurations that check them on small instances, and TLAPS proofs.

## The system

One process holds an `Engine`; each database below it has its own directory.
`Engine.writeMu` serialises every operation that writes samples, `Engine.mu` guards
the table of databases (order: `writeMu`, then `mu`). Goroutines besides the callers:
the drain and the batch loop of the internal events, the MQTT worker and its pinger.
Queries hold `writeMu` for the open page only.

| component | state | operations | what is hard | what makes it correct |
|---|---|---|---|---|
| metric store (`engine.go`, `catalog.go`, `pages.go`, `datstats.go`, `db.go`) | `<db>.wal`, `data-<day>.dat`, `catalog.json`; open pages, sealed days, catalog with `LastTS` | `AddSample`, flush, `Close`, open with replay, seal, WAL reset | crashes between any two writes, failed writes, replay that seals and flushes by itself, ids that frames use before the catalog is written | acknowledged samples kept exactly once and under their metric; the WAL outlives every page that needs it; days stay bounded and sealed |
| WAL file (`wal.go`) | length-prefixed records with deltas to a baseline; `bufferSize`, `baselineTS` | append, fsync, read, reset | a record is two writes; a failed append changes the baseline; torn tails | a record in front of any torn one is read back as written |
| events layer (`events_*.go`) | `events.json`, `<db>.events.wal`, `events-<day>.dat`; events pages, `LastTS` per name | `AddEvent`, query, flush, replay, reset | id assigned before the append; readers without lock | acknowledged events kept once, ids and types stable, the log replays |
| partition life cycle (`metricfile_build.go`, `recompact.go`, retention in `engine.go`) | `data-`, `raw-`, `metric-` files of a day, the tar archive | build after seal, recompact, expire | renames and deletions with crashes between; late samples; readers in between | the files a reader prefers hold every sample of the day; only expired days leave |
| metric file formats (`metricfile_v1.go`, `_v2.go`, `metricfile_reader.go`) | frames and index of a file; two caches shared by all readers | build, read, compare | a file is replaced under its readers; time frames shared between metrics | a query of a metric file returns what one of its source returns |
| queries (`engine.go` 1578-2294, `query_aggregates.go`, `aggregates.go`) | none | range, stride, aggregates, last, export | two ways to compute each aggregate; windows cut by the range | each window once, from exactly its samples |
| rollups (`rollup.go`) | checkpoints, destination databases | trigger on seal, backfill, chained jobs, lineage | checkpoint and destination are separate writes; backfill beside triggers | each closed window is stored once with its full content, and none is skipped |
| configuration (`engine.go`, `duration.go`) | `engine.toml`, a `manifest.toml` for each database | defaults, validation, write-back | who opens a database first decides on its manifest | stored settings do not drift with `engine.toml` |
| internal events (`internal_events.go`) | bounded channel, batch counters, stopped flag | emit, batched emit, drain, toggle, stop | emitters race shutdown; the destination database emits, too | everything queued at stop is written, nothing is reported twice, `Close` returns |
| MQTT worker (`mqtt.go`) | connection, stop flag | connect, subscribe, receive, retry, stop | stop races a connection being made or used | stop ends the worker |
| HTTP server, nanocli, drip, dashboards | none of the engine's | one engine call each | | not modelled |

`PROJECT.json` lists these parts with their status, the hazards of the code line
by line with the properties that guard each, and where every definition comes
from.

## Modules

| module | what it is |
|---|---|
| `SampleLog` | what a WAL-protected database promises, whatever it keeps in it |
| `MetricStore` | the write path and recovery of one database; implements `SampleLog` |
| `WALFile` | the log file below the records: two writes for a record, baselines, fsync policies, torn tails |
| `EventStore` | the events layer of one database and a reader beside its writer; implements `SampleLog` |
| `PartitionFiles` | which files hold a partition from its first frame to its deletion, and a query beside it |
| `MetricFile` | one metric file: layout, index, readers that share the caches while files are replaced |
| `Aggregates` | the aggregates of a range query as functions of a sequence of samples; used by `MetricFile` |
| `Rollup` | the jobs of one source into one destination: windows, checkpoints, failures, backfill |
| `Manifests` | `engine.toml` and the manifests: reading, defaults, validation, writing |
| `Backfill` | the graph of all rollups over `Manifests`: triggers, backfill, lineage |
| `InternalEvents` | the emitter of internal events and the part of `Close` that stops it |
| `MQTTWorker` | the ingest worker, its pinger and stop |
| `Shutdown` | `InternalEvents` and `MQTTWorker` composed: an engine from running to closed |
| `DurabilityProofs` | theorems about `MetricStore`: types and days; what is kept, kept once and under which metric, and the refinement of `SampleLog` |
| `WALFileProofs`, `EventStoreProofs`, `PartitionProofs`, `MetricFileProofs`, `RollupProofs`, `ShutdownProofs`, `BackfillProofs` | theorems about the other components |
| `MC...` | the small instances for TLC, one for each specification that is run |

Some modules state a `TypeOK` that no run lists: there it documents the variables.
Alternatives marked as faulty beside a definition are what the definition is
compared with, to see that a property notices the difference.

In every module writers hold `writeMu`, so at most one of them is in progress and a
variable `pc` says where it is. The unit of atomicity is one effect on disk
together with the memory changes up to the next: a crash can come between any two
actions, and nowhere else makes a difference. Settings and bounds are a variable that
never changes, so that one run covers several combinations.

### MetricStore

| `pc` | actions | code |
|---|---|---|
| `down`, `closed` | `OpenDatabase`, `OpenFails` | `getOrCreateDBWithDefaults`, `LoadCatalog`, `RecordsWithCatalog` |
| `replay` | `ReplayRecord`, `ReplayFails`, `ReplayDone` | `replayWALIntoRuntime` |
| `idle` | `BeginAdd`, `BeginDrain` | `addParsedSample`, `flushDatabasesLocked`, `Close` |
| `ensure` | `EnsureDayOpen`, `DayIsSealed` | `ensureDayOpen`, `sealDay` |
| `log` | `LogSample`, `RejectMetric`, `LogSyncFails` | `GetMetricID`, `appendSampleRecord`, `shouldWriteWAL` |
| `page` | `AddToPage` | `addToOpenDay`, the rollup writer's retry |
| `age` | `FlushAged`, `FlushOwnPage`, `FinishAdd` | `flushEligibleOpenDays`, `IsFull` |
| `drain` | `DrainPage`, `DrainDone` | the loops of `flushDatabasesLocked` and `Close` |
| `flush`, `sync` | `AppendFrame`, `SyncFlushed`, `WriteFails` | `writePageWithOptions` |
| `reset` | `KeepWAL`, `CatalogBeforeReset`, `ResetWAL`, `WriteFails` | `maybeResetWAL`, `WAL.Reset` |
| `persist` | `PersistCatalog`, `WriteFails` | the end of flush and of `Close` |

`flush.goal` says why a page is being written (to seal its day, because it is old
or full, for a drain, or to take an older record) and so where the handler goes
on. The value of a sample is the number of the call that sent it, a frame is a
sequence of samples, a day is a number, page age and the clock of `wal.skip_before`
are nondeterministic (`cutoff` keeps the clock from running backwards). What a crash
tears of a record is left to `WALFile`; what hangs off `sealDay` behind settings that
are off by default is in `PartitionFiles` and `Rollup`.

### WALFile

A chunk is what one append left in the file, whole or torn, and stands for the
bytes of a record: `new` and `base` are the flag and the field of a baseline, `delta`
the 24 bits, `n` the content. `file` is what the running system sees, `stable` what
the medium is known to hold.

| `pc` | actions | code |
|---|---|---|
| `closed` | `Open` | `NewWAL` |
| `idle` | `Encode`, `Reset`, `Close` | `appendSampleRecord` up to its writes, `WAL.Reset`, `WAL.Close` |
| `length`, `payload` | `WriteLength`, `WritePayload`, `AppendFails` | its two writes |
| `sync` | `SyncAppend`, `AppendFails` | `ShouldFsyncAfterAppend`, `Fsync` |
| `fsync`, `truncate` | `SyncReset`, `Truncate`, `ResetFails` | the rest of `WAL.Reset` |
| any | `Crash`, `PowerLoss` | outside the program |

The decoders (`RecordsWithCatalog`, `scanWALAppendStats`, `WalkWALFile`) are loops;
`DecodesTo` says without recursion that a record counts from the last baseline up to
it. A torn chunk at the end stops the decoders. One with records behind it makes them
take the bytes of those for its own, so `IsRead` has them come to a record only if no
chunk before it is torn. What they make of the bytes behind a torn chunk (they stop,
return an error as in `wal.go:425`, or read a record no one wrote) is not modelled.
Three history variables say what the properties except: `behind` has the appends begun
while a torn chunk was in the file, `astray` those that count from a baseline whose own
append failed (`baseLost` while the writer goes on with such a one).
The check that a delta lies within 24 bits (`wal.go:211`) is left out because it
cannot fail: `WALTypeCorrect` has every delta in range. A power loss keeps what was
synced and any more of the file, the last chunk torn or not; after an unsynced
truncation it may keep the old file instead. Sizes are in records.

### EventStore

| `pc` | actions | code |
|---|---|---|
| `down` | `Open`, `OpenFails` | `NewEventsWAL`, `LoadEventCatalog`, `replayEventsWALIntoRuntime` |
| `idle` | `BeginAdd`, `BeginDrain` | `Engine.AddEvent` up to the append, flush and `Close` |
| `append`, `payload` | `WriteLength`, `WritePayload`, `AppendFails` | `appendEventRecord`, its two writes |
| `page` | `AddToPage` | the rest of `AddEvent` |
| `drain` | `DrainPage`, `DrainDone` | `flushOpenEventsPages` |
| `flush` | `AppendFrame`, `WriteFails` | `AppendEventsPageFrame` |
| `reset` | `KeepWAL`, `CatalogBeforeReset`, `ResetWAL` | `maybeResetEventsWAL` |
| `persist` | `PersistCatalog` | `writeEventCatalogIfDirty` |
| any | `Crash` | outside the program |

Replay never flushes or seals here, so an open is one step: it either rebuilds the
catalog, `lastTS` and the pages from the log (`CatalogAfter`, `ReplayedOf`) or fails.
`wal` is the log in front of its first torn record, `torn` counts the torn ones and
`buried` says whether a whole one is behind one of them. A torn record at the end is
skipped at open and stays in the file, and the next append goes behind it
(`events_wal.go:422`). From then on the decoder takes the bytes behind it for its
payload (`Misaligned`): it stops, or returns an error and the open fails (`OpenFails`),
or by chance finds a valid record in them, which is left out. The open also fails if
names and ids do not fit (`Replayable`). Two history variables say what the properties
except: `behind` has the calls begun while a torn record was in the log, and `unnamed`
is set when an append that was to name an event has failed and left nothing.
`QueryEvents` holds no lock: `QueryStart` lists the partitions,
`ReadFile` and `ReadPage` take one at a time, with any writer's step between.
`query.due` is what the query has still to meet where it was; a page that is written
in between leaves it.

### PartitionFiles

`file[d]` holds the frames of `data-`, `raw-` and `metric-<d>.dat`; no frames, no
file. A sample is the number of its call.

| `pc` | actions | code |
|---|---|---|
| `down`, `replay` | `Open`, `ReplaySkip`, `ReplayTake`, `ReplayRefused`, `ReplayDone` | `replayWALIntoRuntime` |
| `idle` | `BeginAdd`, `BeginDrain`, `Recompact`, `Compact` | `addParsedSample`, flush, `RecompactDataFile`, `CompactDataFileToMetricV2` |
| `open` | `OpenDay`, `SealPage` | `ensureDayOpen`, the begin of `sealDay` |
| `reset`, `full` | `SealReset`, `FullReset` | `maybeResetWAL` |
| `build`, `source`, `rename` | `WriteMetricFile`, `KeepSource`, `DeleteSource`, `RemoveOldRaw`, `RenameSource` | `buildMetricFileForPartitionV2`, `applyMetricRawIngestAction` |
| `sweep`, `remove` | `SweepDay`, `RemoveFile`, `SweepDone` | `cleanupRetention`, `appendRetentionPartitionToArchive` |
| `log`, `store`, `others` | `LogSample`, `StoreSample`, `FlushOther`, `OthersDone` | the rest of `addParsedSample` |
| `drain` | `DrainPage`, `DrainDone` | `flushDatabasesLocked`, `Close` |

A query goes through `metric`, `resolve`, `source`, `page`: `scanPersistedPartition`
looks for the metric file, then for the source, opens it, and at last takes `writeMu`
for the open page. `late` has the days that got a sample after their metric file was
built or they were archived, or were archived with a page still open. The code does
not take these into account: the metric file, or what the archive has under the name
of a file, is then not all of the day. Several properties except them, and
`partition_loss` is what it costs.

### MetricFile and Aggregates

`Layout` says what a build writes: `Plan` puts the timestamps of each metric into the
first frame of which they are a run. `Build` replaces the file, since the code writes
a temporary and renames it. A reader goes through `version`, `open`, `index` or
`loadIndex`, and for each metric asked for `frames` or `loadTimes`; the caches are
keyed by `CacheKey`. A reader that found no file reads the data file. `Compare` is
`CompareDataAndMetricPartition`, the check before a source is deleted by hand. The path of
the file, the encoding of its columns and their compression are data; the last shows
in the size of a file, which is any of a few. **Assumption:** two builds of one file
do not end within one tick of the file system's clock: the caches tell them apart
by size and modification time. What the constants must satisfy is stated where they are
declared: the pages of a setting are in time order, since `Page.AddSample` refuses a
sample before the last of its page (`SettingsAreData`), the caches have limits
(`CacheLimits`), and a window is positive (`WindowIsPositive`, `query_aggregates.go:95`).
Nothing is assumed of one page against another: a late page may follow.

`Aggregates` has the code's one pass over the samples of a query (`Buckets`) with its
two ways to compute, and `TrueBuckets`, what the result should be, window by window.
Averages are pairs and percentiles hundredths, so nothing is rounded. `FloorTo` is
`floorTimestamp` with the division of the language, which rounds towards zero: before
the epoch a window starts after its samples, and the windows on either side of the
epoch become one. Samples at -1 and 1 and a window of 2 are reported as one
window from 0. `cmd/nanocli/events.go:209` rounds down for such timestamps;
`rollup.go:777` does not. `BucketsExact` is about ranges that do not begin before the
epoch.

### Rollup

| `pc` | actions | code |
|---|---|---|
| `idle` | `AddSample`, `SealDay` | `addParsedSample`, `sealDay` up to its trigger |
| `trigger` | `LoadJobs` | `loadRollupCheckpoints`, the state of each job |
| `windows` | `NextWindow`, `RowRefused`, `InsertRow`, `InsertFails`, `FullPageFails`, `WindowsDone` | `buildRollupJobPeriod`, `insertRollupSample` |
| `flush` | `FlushDest`, `FlushFails` | the flush of the destination |
| `append` | `AppendCheckpoint`, `AppendFails`, `TriggerDone` | `appendRollupCheckpoint` |
| `done` | `FinishAdd` | the rest of `sealDay` and the sample |
| `backfill` | `ResetDest`, `ClearCheckpoints`, `BackfillTrigger`, `BackfillDone` | `BackfillRollups` |

A row stands for an aggregate by the set of samples it was computed from, so that
`RowsExact` can say which these are. The source's WAL and the states of its files are
`MetricStore`'s and `PartitionFiles`' subject: here open pages survive a crash, and a
renamed file is one that `databaseClosedTimeBounds` does not see.

The append of a checkpoint is one step. A line that a crash tears is not modelled: the
code skips it or reads an earlier timestamp, and loses the line behind it with it
(`rollup.go:802`), so windows are taken again.

### Manifests and Backfill

`Manifests` has the functions that make settings of files (`Normalize`, `LoadExisting`,
`Load`, `Defaults`), and `OpenAll`, which opens databases and writes their manifests,
alone or as rollup destinations. `Backfill` adds the graph: `Expand` is
`expandRollupJobs`, `TriggerRollups` a whole trigger in one step, since it holds
`writeMu` from begin to end. A backfill does not: `PlanNext` and `Planned` walk the
graph, `ResetDestination` and `ClearCheckpoint` work through what was found, `Rebuild`
triggers source after source, and `Open`, `Ingest`, `Trigger` come in between. A row is
a window with the way it went through the databases. `Lineage` is
`GetMetricRollupDownstream`. `left` is a history variable, in no guard: the sources
whose rows a reset removed while their checkpoints stay, until they are removed too.
`FollowsFrom` says what a backfill owes: a row that was, or would be, derived by jobs of
its sources from a row that was there when it began in a database it does not reset.
**Assumption:** an operator edits files only while the engine is stopped.

### InternalEvents, MQTTWorker, Shutdown

Every goroutine that enters the engine is a task; `doing` is what it will do next.
An emitter checks the flags (`Emit`, `EmitBatched`) and later sends or counts (`Send`,
`Count`). `Receive`, `DrainLock`, `DrainExit` are the drain, `Tick`, `FinalFlush`,
`EmitReady`, `BatchExit` the batch loop, `CloseBegins` to `CloseDone` the order in which
`Engine.Close` stops them. A send on the closed channel sets `panicked`.
`panicked` stands for the end of the process, also where the goroutine is the worker,
whose panic `mqtt.go:172` recovers: `CloseReturns` says nothing of such a behavior.
`MQTTWorker` has the worker's loop (`Dial`, `Handshake`, `Subscribe`, `Publish`,
`SessionEnds`, `RetryTimer`), its pinger and `Stop`, whose read and use of the
connection are two steps. `Shutdown` joins them: the worker emits and locks as one of
the clients, and stops while `Close` holds the mutex.

## Runs

| run | instance | shows |
|---|---|---|
| `store` | 2 metrics, 3 timestamps in 2 days, 1 active day, pages of 2, 3 calls, 2 crashes; protected, `wal.skip_before` and rollup destination | `EveryAckedSampleOnce`, `SamplesKeepTheirMetric`, `OpenDaysBounded`, `SealedDaysFrozen`, `LogSpec`, `TypeOK`, with the replays that fail on a sealed day |
| `store_faults` | 1 metric, 3 timestamps in 3 days, 2 active days, protected and rollup destination, 3 calls, 1 crash, 1 failed write | `EveryAckedSampleKept`, `PagesBackedByWAL`, `CallsReturn` |
| `replay_resets` | protected, 2 days of which 1 is active, 3 calls, 2 crashes, 2 failed writes | `RecoveryIsLossless` is violated |
| `reopens` | protected, 3 calls, 1 crash | `AlwaysOpens` is violated |
| `wal_file` | 3 appends at, below and beyond the largest delta, segments of 2, both policies, 2 crashes or power losses, 2 failed writes | `ReadBackAsWritten`, `AckedInFile`, `LossIsBounded`, `NothingUnaccounted`, `TypeOK` |
| `events_store` | 2 names, 2 types, 2 partitions, pages of 2; 3 calls and 1 crash, or 2 calls with 2 crashes and a failed write, or 3 calls and a query | `EveryAckedEventKept`, `EventsKeepTheirName`, `AlwaysReplays`, `QueryIsExact`, `LogSpec` |
| `partition_files` | 3 days, 2 active, pages of 2, retention of 1 day; 3 or 4 calls with a crash, a query or maintenance, for each `raw_ingest_action` and `retention_action` | `ReadsEverySample`, `SourceKeepsAll`, `QueryIsExact`, `OnlyPastDaysLeave` |
| `partition_loss` | sources renamed, 4 calls, 1 crash | `NothingLost` is violated |
| `metric_files` | all layouts of 3 metrics over 3 timestamps with 1 build and 1 query; 2 builds, 3 queries and 2 readers over shared caches of 1 index and 2 frames | `ReadsExact`, `StreamsAgree`, `CompareAgrees`, `BucketsExact` |
| `rollup` | 2 metrics, 6 timestamps on 5 days, 1 active, 2 aggregates, windows of 2; 4 calls and a crash (sources renamed or not), 5 calls and 2 failures, 4 calls and a backfill alone, 3 calls and one beside the writers | `CheckpointCovered`, `RowsExact`, `RowsOnce` |
| `backfill` | 4 databases: a chain against the order of names, a diamond with an excluded metric, a circle, two sources that share a destination with 2 backfills that a stop may cut, and edited files with 3 starts and 2 edits | `PlanIsClosed`, `DoneRowsExist`, `RebuiltWhole`, `LineageCoversRows`, `StorageKept` |
| `shutdown` | 2 clients, channel of 1; 2 emissions with a toggle and a lock, 3 with a lock, 1 with a lock and the MQTT worker | `PendingFlushed`, `ReportedOnce`, `CloseDoesNotPanic`, `CloseReturns`, `StopEndsSession` |

Why the bounds are enough:

- *Stores.* Three calls give a full page, a page that stays open and a late sample,
  or a day that is sealed for the next; two crashes let the second fall into the
  recovery from the first. Page limit, active days and number of metrics are reached:
  with one active day of two every new day seals the last, with two of three the WAL
  outlives a seal, which is where failed writes and replay meet. The rollup destination
  has no WAL, so it is checked up to its first crash. What more calls and days would
  add is left to the proofs.
- *WAL.* Three appends give a record with its own baseline, one that counts from it and
  one beyond it, in any order, a full segment and the append after it; two stops let a
  power loss follow a torn tail or bring back a log that a crash had already cut.
- *Partition files.* Two active days of three let a seal happen while another page is
  open, so that the log outlives the build; the fourth call brings a second seal.
- *Metric files.* Three metrics over three timestamps share frames in every way: equal,
  a prefix, a middle, a suffix, not at all. One index slot and two files make every
  lookup evict; two sizes let two builds have the same size or not.
- *Rollups.* Five days and one active make each call but the first seal; two timestamps
  of the last window let it be incomplete. A destination page of three with two
  aggregates ends in the middle of a window.
- *Graph.* A chain of three needs two passes when the names run against it; the diamond
  has two ways to one destination; the circle must not keep the plan from ending. Two
  sources of one destination, a backfill of one of them and one of all, and a stop in
  between are the ways in which checkpoints outlive their rows.
- *Shutdown.* A channel of one is full at the second emission; with the worker one
  session and two retries cover each of its states.

Deadlock is checked except where a behavior ends with its bounds (`rollup`,
`metric_files`, `backfill`).

**Fairness.** `MetricStore!FairSpec` asks weak fairness of `Work`, the steps a handler
takes by itself once a call or an open has begun: the goroutine that holds `writeMu` is
scheduled and waits for nothing. No fairness is assumed of callers, crashes or
faults. `Shutdown!Spec` asks weak fairness of each goroutine's own steps and strong
fairness of the two that wait for `writeMu` (`DrainLock`, `CloseLocks`): a `sync.Mutex`
hands itself to a waiter of more than a millisecond. Nothing is assumed of a broker
that keeps a session, only of a worker whose connection is gone.

## What the runs say about the code

The properties state what the code keeps. Where the documents ask for more, the
comment of the property says so. Three disagreements are runs that expect a violation:

- `reopens`: two samples of a new metric, a crash before `catalog.json` is first
  written, and the database no longer opens: the second record names the metric by
  an id only the first record could explain (`wal.go:423`).
- `replay_resets`: `docs/LAWS.md:217` has recovery of WAL-protected samples lossless.
  With one active day, writes that fail can leave a log with records of two days. After
  a crash replay opens the second day, seals the first (`engine.go:2665`) and resets the
  WAL after it (`engine.go:2822`), because no page is open at that moment; the records
  still to be replayed are then in memory only, and a second crash loses them, with the
  names of ids that a data file uses already and the catalog does not. A smaller
  `max_active_days` at the next start has the same effect. With more than one active
  day a page is always open there, and `DurabilityProofs` shows that nothing is lost.
- `partition_loss`: a day is built and its source renamed while the log still has its
  last samples; after a crash, replay starts a new data file with those, and the next
  seal makes the metric file of the day out of them alone (`engine.go:2621`).

The same modules show others, by weaker guards in their properties; a hazard in
`PROJECT.json` has the line of most:

- Replay takes every record at or below the last timestamp of a data file as durable:
  a late sample, or a second one with the timestamp of the last, is lost in a crash
  (`EveryAckedSampleOnce` is about the others).
- With `wal.skip_before`, a metric no log names loses its id to another in a crash.
- A record of the metric log appended behind a torn tail, which nothing truncates, is
  not found again; with its bytes taken for the torn record's, the reader may stop,
  refuse the open (`wal.go:425`) or read a record no one wrote. Nor is a record found
  that counts from a baseline whose write failed. `AckedInFile` and `ReadBackAsWritten`
  except these and no others.
- The same tail in the events log (a crash between `events_wal.go:247` and `:253`, an
  open, one more `AddEvent`) keeps the database from opening: a decoder error there is
  hard (`events_wal.go:450`, `events_engine.go:388`), because the comment at
  `events_wal.go:416` and `docs/EVENTS.md:260` hold that a crash cannot cause one.
  `AlwaysReplays` has this for its one exception besides the next, and shows that bytes
  come to lie behind a torn record in no other way.
- An append that fails without a trace, and was to name an event, leaves its id in the
  catalog: the next record of that name has the id only (`events_engine.go:91`), and
  the log does not replay. After an append that left all of its record it does.
- A query misses a page that is written between its read of the file and of the page.
- A crash in the middle of a tar append leaves an archive that no later sweep accepts.
- Retention does not look at open pages (`engine.go:2962`): it archives and removes a
  day whose page is open, the page is later written to a new `data-<part>.dat`, and
  since the archive has a file of that name (`engine.go:3117`) the next sweep removes
  this one without archiving it, against `docs/LAWS.md:157`. It takes a second active
  day and an older partition written late; `OnlyPastDaysLeave` excepts the day.
- With one active day and no failed write, a build on demand after a crash renames a
  data file whose samples the log still holds. Replay opens that day again and seals it
  for the next, and the reset behind this seal loses the records still to be replayed
  if the process stops then. `EverySampleRead` asks for `MaxActiveDays # 1` for this.
- A client that emits while `Close` runs can send on the closed channel; a stop during
  the worker's dial finds nothing to close, and the worker goes on; its pinger may
  write to a connection that was set to nil.
- A backfill beside a trigger of the same source (`online` in `Rollup`), cut by a stop
  (`Undisturbed` in `Rollup`, `cut` in `Backfill`), or of one of two sources that share a
  destination leaves checkpoints of windows that are gone, until a backfill of their
  source. `DoneRowsExist` excepts the sources in `left`, which are these.
- `default_destination_db` and `global_exclude_patterns` left blank in a manifest follow
  `engine.toml` at every open, although `docs/DESIGN.md:635` has defaults apply when a
  database is created.
- A backfill plans with the manifests there are when it begins. A database that a sample,
  a query or a trigger creates beside it takes its jobs from `[manifest_defaults]`
  (`engine.go:276`), and if these have any, sources are left out of the plan;
  `PlanIsClosed` excepts it.
- Read alongside, and outside the models: a manifest without `wal.enabled` switches the
  WAL off and the open that follows resets it (`engine.go:3622`, `engine.go:2376`);
  lineage follows exact jobs of loaded databases only (`engine.go:1112`); an export reads
  `data-*.dat` only (`engine.go:1550`); builds share one temporary name
  (`metricfile_v1.go:877`).

## Proofs

`DurabilityProofs` proves, for all constants that satisfy `ConfigAssumption` (no
bound on metrics, days, calls, crashes or faults), first the types and the days:

- `TypeCorrect`: `Spec => []TypeOK`.
- `OpenDaysAreBounded`: `Spec => []OpenDaysBounded`.
- `SealedDaysStayFrozen`: `Spec => SealedDaysFrozen`.

None of the three is inductive: which day a handler may open or write depends on
what it checked several steps before. The inductive invariant `IInv` adds to
`TypeOK` what the handler knows at each step (`CallOK`) and how its day stands to
the open and the sealed days (`DaysOK`): while a sample is being logged its day is
open or there is room for it, the day being written is not sealed, and open and
sealed days are disjoint. There is one lemma per action. `Ensuring`, `Paging`,
`Aging` and `Filling` carry that knowledge through the page write in between.
`OldestIsOpen` is where the order of days enters: a nonempty set of days has a
smallest one. `NextFreezesSealedDays` then shows that `AppendFrame`, the only
action that writes a data file, writes an unsealed day.

It then proves, from the same assumption and no other, what the store is for:

- `PagesBacked`: `Spec => []PagesBackedByWAL`.
- `AckedSamplesKept`: `Spec => []EveryAckedSampleKept`.
- `AckedSamplesOnce`: `Spec => []EveryAckedSampleOnce`.
- `ImplementsSampleLog`: `Spec => LogSpec`, the refinement: every step of the store
  stores, acknowledges or drops one sample of `SampleLog`, or changes nothing in it.

It looks at a sample as a point, its timestamp and the number of its call, and at log,
pages and files as sets of points. The invariant has five parts.

- `BookOK` keeps the books: a point is of one call and never above the largest
  timestamp of its day (`PointsOK`), where the sample in progress has got to (`FlowOK`),
  a page is of an open day and is in the file before it is dropped (`PagesOK`), and
  replay goes through the log in the order of the calls (`ReplayOK`).
- `SealsOK` is why replay does not seal while no write fails. What a crash leaves above
  the watermarks is of at most `max_active_days` days (`FewDays`), because every such
  record was covered by an open page (`LateCovered`); so replay finds room for each
  (`NoSeal`).
- `DurableOK` is the heart. A record is owed if it was the newest of its day and its call
  did not fail: it is in a file or above the watermark of its day's (`OwedAbove`), so
  replay takes it, and it is in a page until a file has it, or replay has yet to reach
  it (`OwedHeld`); what a page holds is logged (`PagesLogged`). Together they make an
  empty set of pages the right condition for a reset of the log.
- `CalmOK` is about databases without WAL, and samples that were late, as long as nothing
  stopped or failed.
- `OnceOK`: while no write fails no sample is at two places, except between a frame and
  the drop of its page, and replay has no record before it that a page or file has.

All of it needs `ReplayKeepsWAL`: one active day and a failed write are the case of
`replay_resets`, where the invariant breaks with the code.

`DurabilityProofs` also proves `SamplesStayNamed`: `Spec =>
[]SamplesKeepTheirMetric`. An id is in frames and records that reach the disk before
`catalog.json` does, so it matters who knows its name. `Names` is what the catalog in
memory holds, and while the process is down or replays, what `catalog.json` and the log
hold between them. `CatalogOK` says that these are one to one and numbered from 1, which
is why `NextMetricID` is new; that what the file lacks the log has (`FileBacked`); and
that replay has learnt the names of the records it went through, and no others
(`ReplayNames`). No step takes a name away (`NamesMove`), and every sample in the log, a
page or a file has the id of the metric its call named (`MarksOK`). The first attempt
failed for a reason: after failed writes and with one active day the reset of
`replay_resets` loses names, too, so the property asks for `ReplayKeepsWAL`.

`WALFileProofs` proves, for all constants that satisfy `WALAssumption`:

- `WALTypeCorrect`: `Spec => []TypeOK`, with every delta within its field.
- `RecordsReadBack`: `Spec => []ReadBackAsWritten`.
- `AckedStayInFile`: `Spec => []AckedInFile`.
- `ResetMissesNothing`: `Spec => []NothingUnaccounted`.
- `PowerLossIsBounded`: `Spec => []LossIsBounded`.

Decoding depends on the whole file, so the invariant says of `file` and of `stable`
that all a reader comes to decodes (`AllDecode`), and ties the baseline in memory to the
last one in the file or to the record about to be written (`BaselineOK`). That tie is
claimed unless the append of this baseline failed (`baseLost`), or a torn chunk is in
the file, behind which there is nothing to show; so it outlives failed writes.
`PendingOK` has the record being written come behind no torn chunk, unless it is in
`behind`: that is why it can be read once its payload is written. `AckedOK` adds that
under the policy `always` the file has only grown behind the synced part since the
first acknowledgement. `LeftDecodes` is the lemma for power losses: what is left of a
file decodes as it did. `AccountInv` is the invariant of the last two theorems: what is
acknowledged and not synced is never more than `bufferSize` records and less than a
segment, and as long as `bufferSize` is zero there are only torn chunks in the file.

`EventStoreProofs` proves, for all constants that satisfy `EventAssumption`:

- `TypeCorrect`: `Spec => []TypeOK`.
- `LogsReplay`: `Spec => []AlwaysReplays`.
- `NamesKept`: `Spec => []EventsKeepTheirName`.
- `AckedEventsKept`: `Spec => []EveryAckedEventKept`.
- `QueryExact`: `Spec => []QueryIsExact`.
- `ImplementsSampleLog`: `Spec => LogSpec`.

`LogOK` says where torn records are: a call that begins behind one is in `behind`, and
bytes come to be behind one in no other way. `CatalogOK` says what a crash or a failed
write may leave, unless one was `unnamed`: `events.json` and the log agree, and the ids
are 1, 2, ... in the order names were declared. While no record is torn but the one being
written (`Whole`), the catalog in memory has what the two tell and at most the name of the
event being logged; behind a torn one it may have names no one will find. `NamesOK` follows an answer
to its declaration, unless it is in `behind`. `DurableOK` and `OnceOK` are those of the store, for a recovery that
is one step and never flushes. `QueryOK` is about a reader between whose reads the
writer may do anything: what it got is in the parts it has been to, and what it is
still due is in a part it has yet to visit. What the model computes by recursion over
the log and over frames (`Kept`, `FoundIn`) is characterised by lemmas; each goes to
the smallest position where it would fail, since the library's induction theorems
cannot be instantiated here.

`PartitionProofs` proves, for all constants that satisfy `PartitionAssumption` (any
number of days, active days, calls, crashes, queries and recompactions):

- `TypeCorrect`: `Spec => []TypeOK`.
- `OnlyPastLeaves`: `Spec => OnlyPastDaysLeave`.
- `QueriesExact`: `Spec => []QueryIsExact`.
- `EverySampleRead`: `Spec => []ReadsEverySample`, if `MaxActiveDays # 1`.
- `SourceKeeps`: `Spec => []SourceKeepsAll`, if `MaxActiveDays # 1`.

The invariants build on one another. `Base` is the control: where a call has got to
(`FlowOK`), how the day it writes and the day it seals stand to the open and the sealed
ones (`PlaceOK`), which files a build and a sweep have still to deal with (`BuildOK`,
`SweepOK`). `FilesOK` is about the files of a day that is not late: a metric file has
what its source has, a renamed source excludes a data file, and no day with either, or
in the archive, has an open page; `BuiltOK` carries the first through the steps of a
build. That is enough for `OnlyPastLeaves`: what a build or a recompaction replaces is in
the new file. `OrderOK` adds the order of time. Samples rise in every file, page and log,
and a page is later than its data file, so nothing is there twice, the largest sample of
a data file is its watermark, and recompaction, which never splits or reorders what
rises, keeps the content (`PackedHolds`).

`OwedOK` follows an acknowledged sample of a day of which nothing may be missing
(`Watched`). Its record is in the files, in a page, or `Pending`: what a replay has left,
or the call in progress. Every page and everything pending is in the log (`LoggedOK`), the
day of a record left to replay is not skipped because of a later one (`MarkOK`), and while
a replay goes on and there is something pending, a page is open (`ReplayPagesOK`). This
last part keeps a seal during a replay from resetting the log, and needs a second active
day: with `MaxActiveDays = 1` TLC finds `ReadsEverySample` violated, as described above.
The manifest's default is 2 (`engine.go:392`).

`QueryOK` is the invariant of `QueriesExact`, and needs no such hypothesis. At each
phase it says where the samples are that the query has still to find: in the file it
will open or in the page, and once it has read a file, in what it got or in a page later
than that. `Looks` is this, and there is one lemma for each step of a writer that moves
samples (`LooksAppend`, `LooksWrite`, `LooksDelete`, `LooksRename`, `LooksRemove`,
`LooksStore`) and one for each step of the query. Two attempts failed for a reason. A
query over a late day used to lose its exception when the day was built again. And
`late` did not have a day that is archived with an open page, of which
`OnlyPastDaysLeave` is false; the bounds of `partition_files` do not reach one.

`MetricFileProofs` proves, for any pages, requests, readers, windows and sizes of the
caches that satisfy `SettingsAreData`, `CacheLimits` and `WindowIsPositive`:

- `QueriesReadOneFile`: `Spec => []ReadsExact`.
- `ComparisonFindsGrowth`: `Spec => []CompareAgrees`.
- `MetricFilesKeepTheStream`: `Spec => []StreamsAgree`.
- `WindowsAreExact`: `Spec => []BucketsExact`.

The four follow from one inductive invariant, `MetricInv`. What makes `ReadsExact` not
inductive is that the path forgets the files builds replaced, and readers and caches do
not. So the invariant says that there is a list `h` of the files built, one for each tick
of the clock, each `Written` from a prefix of the data file (`Built`): the path, every
reader's file and every cache entry is of one of them, under its key, and a key
determines its file because of the tick. `Reading` is what a reader knows between two
entries: the index of its file, time frames of its file, and the samples of the entries
it is done with, which are a prefix of `Contents`.

Below that are the algorithms. `Sorted` and `Picked` are characterised by an increasing
enumeration of the places (`Climbing`, `Picks`), recursion by `Recursion`. A stable sort
keeps the samples of a metric and their order (`Earlier`). `Plan` keeps, while it places
one metric after the other, that each metric placed has its timestamps in the frame and at
the offset it was given (`Spot`), so a file of either version is `Faithful`: of each metric
it gives back what the pages hold. The same fact is the heart of `CompareAgrees`: a file
agrees with the pages of its build, and a page more, never empty, gives some metric
more samples than its frame has.

For the streams, picking twice is picking once (`PickTwice`), picking from a concatenation is
concatenating what is picked (`ThoseFlat`), and to take a metric's samples before or
after the range, the stride and the other metrics makes no difference, as a stride
counts the samples of each metric on their own (`StridedOf`). A page that the header
check skips has no sample in the range, since its first and last timestamps bound it
(`OutsideIs`): there the order of time within a page is used.

For the windows, floors of rising timestamps rise (`FloorsRise`), and two samples have the
same floor exactly if they are in the same window (`SameWindow`). `Reduced` is the state of
the pass after k samples: what it has reported is the bucket of each window it left, in
order, and the one it fills (`Filled`) has the sum, the count, the least, the greatest and
the points of exactly the samples of its window so far. Streaming an aggregate and
computing it from the points then give the same value (`ValueIs`).

`RollupProofs` proves, for all constants that satisfy `RollupAssumption`:

- `RowsAreExact`: `Spec => []RowsExact`.
- `CheckpointsCover`: `Spec => []CheckpointCovered`.
- `WindowsOnce`: `Spec => []RowsOnce`.

`ExactInv` is the first: a row is made of a window that ends below the newest sample of
its metric, because `safe` is never above that sample, whichever of memory, data files
and renamed files it was read from; so what still comes into the window is late
(`WindowKept`). It holds in every behavior, an online backfill included. `JobsInv` says
where a job stands: its next window is the first it may claim, or the one after the last
it claimed. `CoverInv` follows a claim. While windows are computed, the rows of what a job
has updated are in the destination's page or file (`JobClaim`), after the flush in the
file, and the checkpoint only takes that over (`FileClaim`): what was claimed before ends
where the trigger began, which is why it loads the checkpoints first (`LoadedOK`). A
window whose rows are half written is in `RowClaim`. `OnceInv` bounds the records of a
metric by what its job has done (`Placed`), so a row never meets a later one of its metric
(`RowAhead`) and is never refused or written again. That windows begin at multiples of
`Interval` and so do not overlap (`GridGap`) is all the arithmetic there is.
`CheckpointsCover` and `WindowsOnce` are about behaviors in which a rebuild has the
database to itself and no stop cuts it (`Undisturbed`): without that the code breaks them.

`ShutdownProofs` proves, for all constants that satisfy `EmitterAssumption` (any number
of clients, groups and batches, any size of the channel, the MQTT worker doing what it
may):

- `EngineDoesNotPanic`: `Spec => []CloseDoesNotPanic`.
- `PendingIsFlushed`: `Spec => []PendingFlushed`.
- `CallsReportedOnce`: `Spec => []ReportedOnce`.

`CloseDoesNotPanic` speaks of the moment a send meets the closed channel; what keeps it
from happening is the order in which `Close` stops things. `OrderOK` states it: how far
`Close` has come tells what is stopped, the batch loop is done before the channel is
closed, and the drain is done before `writeMu` is taken. `FlowOK` follows each call that
was queued: it is counted in a batch, ready, in the hand of the batch loop, in the
channel, in the hand of the drain, or settled. When `Close` takes `writeMu`, `OrderOK`
leaves only the last. `OnceOK` is `FlowOK` turned round: of these places a call is in one
at most (`OnePlace`), and in one record of it (`Single`), and a call that is anywhere has
been made (`OnlyMade`), so a new one is nowhere yet. Each step then either moves the
calls of one record from one place to another (`Moves`), makes one (`Begins`), or leaves
them (`Stays`). `TakeCounts` moves several at once: they stay apart because its order
names each batch once, which is a fact about cardinalities (`OrderInjective`).

`BackfillProofs` proves, for any finite set of databases and any manifests, jobs, edits
of the files and requests that satisfy `DatabasesAreNames` and `SettingsAreFiles`:

- `StorageIsKept`: `Spec => StorageKept`.
- `PlanCloses`: `Spec => []PlanIsClosed`.
- `LineageCoversEveryRow`: `Spec => []LineageCoversRows`.
- `CheckpointsAreTrue`: `Spec => []DoneRowsExist`.
- `RebuildsWhole`: `Spec => []RebuiltWhole`.

`RanOK` makes the first inductive: what a database last ran with passed
`normalizeDBInfo` and is what its manifest says, and normalising such a manifest changes
none of its storage settings, whatever the defaults are (`NormalizeKeeps`). `OpenAllOK`
is the step, whoever opens the database.

For the plan, `PlanSoFar` says of the databases seen and queued what `PlanIsClosed` says
at the end: they have what was asked for and what was fed so far, the sources and
destinations are those of the databases seen, and no set that has what was asked for and
is closed under the jobs of the databases seen (`Closed`) leaves one of them out. A
database that was planned may be opened by a sample, a query or a trigger before the plan
is used, with the defaults of the engine or those of a destination; `InfoStays` shows that
its jobs are then the same, which fails for one without a manifest if
`[manifest_defaults]` has jobs. `ReachIs` is about the closure itself: every level of
`Reach` has a database more than the one before until it is closed, so as many levels as
there are databases are enough, and it is the least closed set.

For the lineage, `RowsOK` says that a row is in the database its path ends with, at most
`MaxHops` rollups away. `LineageIs` and `LevelsClimb` characterise the levels of the
search: they only grow, and a node was at the front of the level that first met it. By
induction along the path (`Covered`), the k-th database of a row was met at level k at
the latest, so its jobs were followed at the level after, however it was met.

The last two rest on `CInv` (`RebuildInvariance`), which adds to the invariants above:

- `ReadsOK`: what is loaded is, as far as a trigger uses it, what the manifest would
  give if it were read again. A reset drops the runtime of a destination, which may be a
  source as well, and the pass that follows opens it again. It finds the same jobs only
  because of this, and `SourcesOK` says so for the whole backfill.
- `DoneOK`, `RowsThere`: checkpoints are of rows, and those of sources not in `left`
  have what was derived. A reset puts the sources that lose a row into `left`.
- `BackOK`, about the backfill that runs: what was there when it began is still where it
  is not reset (`HadOK`); a source whose checkpoints are removed is not in `left`
  (`LeftOK`), and its checkpoints since then are true of the very job they are for
  (`CheckOK`: `RowsThere` speaks of some job, since a manifest may be edited between
  starts); and `RebuiltOK`.

`RebuiltOK` is the argument for the passes. A row of a source that is fewer rollups away
from what there was than there are passes behind its source has everything that follows
from it in one step. A trigger in the pass makes the rows of its source whole; and a row
that a sample or a trigger adds, in the pass or beside it, and that follows from what there
was, comes from a row that was not whole, which is as many rollups away as the passes
behind its source at least, so the new one is further away still (`NewRowsFollow`).
At the end, `PassesSuffice`: if no database feeds itself, the databases that a row went
through since differ (`NoReturn`), all are sources, so there were passes enough.

The library's induction theorems cannot be used; `Recursion` (a recursive function over
an interval exists), `Induct` and `Smallest` take their place here as in `PartitionProofs`.

Model-checked only is liveness (`CallsReturn`, `CloseReturns`, `StopEndsSession`), which
is out of the prover's reach. Every other property that a run shows to hold is proved.

## Plan

1. Torn frames at the end of a data file and `RecoverDataFile`, in the manner of
   `WALFile`: a torn frame makes the scan for the replay watermark fail
   (`datstats.go:134`).
2. The metric-file build and the trigger of `Rollup` in one model with a query.

## Not modelled

- The HTTP server, `nanocli`, `drip`, the dashboards and the load generators: each
  handler or command is one engine call, or reads files of a stopped engine; their
  interleavings are those of the engine's own operations.
- Encodings: the bytes of frames, columns and compression, and the formatting and
  parsing of values, durations and topics. They are pure functions of text and bytes
  with no control to check; what of them matters (deltas, widths, sharing) is in
  `WALFile` and `MetricFile`.
- Statistics and logging: counters without effect on stored data.
- `QueryLast`, `DBStats`, the inspections and the export: they read what the modelled
  queries read.
- Import, export and recovery of files without an engine (`recover.go`,
  `offline_parts.go`).
- Retries of single rollup aggregates and compaction of the checkpoint file, which keep
  what is stored.
