---------------------------- MODULE MetricStore ----------------------------
(***************************************************************************)
(* The metric write path of one NanoTDB database: the write-ahead log, the *)
(* open day pages, the data-<day>.dat files and the metric catalog, with a *)
(* crash possible between any two effects on disk, and recovery by WAL     *)
(* replay.  Source: internal/engine (engine.go, wal.go, catalog.go,        *)
(* pages.go, datstats.go, db.go).                                          *)
(*                                                                         *)
(* Every handler runs under Engine.writeMu, so at most one call is in      *)
(* progress; pc says how far it is.  One action is one effect on disk (a   *)
(* WAL append, a page frame, a catalog file, a WAL truncation) with the    *)
(* changes to memory made up to the next one, because a crash only tells   *)
(* those points apart.  A payload is the number of the call that sent it.  *)
(***************************************************************************)
EXTENDS Naturals, FiniteSets, SequencesExt

CONSTANTS
    Metric,          \* metric names clients write to
    NoName,          \* the empty name of a WAL record for a known metric
    Timestamp,       \* sample timestamps
    DayOf,           \* the partition a timestamp belongs to (partitionKey)
    MaxActiveDays,   \* manifest: retention.max_active_days
    PageMaxRecords,  \* manifest: page.max_records
    MaxMetrics,      \* MaxMetricsPerDatabase
    Configs,         \* the configurations a database may have, see Config
    MaxCalls, MaxCrashes, MaxFaults  \* bounds of the model

\* wal: wal.enabled; skip: wal.skip_before > 0; strict: durability.profile is
\* strict; retry: the caller is the rollup writer (insertRollupSample).
Config == [wal : BOOLEAN, skip : BOOLEAN, strict : BOOLEAN, retry : BOOLEAN]

ASSUME ConfigAssumption ==
    /\ NoName \notin Metric
    /\ IsFiniteSet(Metric)
    /\ Timestamp \subseteq Nat \ {0}
    /\ DayOf \in [Timestamp -> Nat \ {0}]
    /\ {MaxActiveDays, PageMaxRecords, MaxMetrics} \subseteq Nat \ {0}
    /\ Configs \subseteq Config
    /\ {MaxCalls, MaxCrashes, MaxFaults} \subseteq Nat

VARIABLES
    config,      \* the manifest and engine.toml: read at every open, never written
    \* on disk
    wal,         \* <db>.wal: the records appended since the last reset
    dataFile,    \* data-<day>.dat: the frames of each day, each a page written whole
    catalogFile, \* catalog.json: metric name to id, 0 for a name it does not hold
    \* in memory (Database and dbRuntime)
    catalog,     \* Catalog.metrics: name to id, 0 for an unknown name
    idToName,    \* Catalog.idToName
    dirty,       \* Catalog.dirty
    lastTS,      \* MetricEntry.LastTS, 0 while LastValid is false
    openDays,    \* the keys of dbRuntime.openDays
    page,        \* the page of an open day, empty while it is nil
    sealedDays,  \* dbRuntime.sealedDays
    \* the handler in progress
    pc,          \* the step it does next
    call,        \* its arguments
    flush,       \* the day whose page is being written, and for what
    replay,      \* the records replayWALIntoRuntime read, and its position
    closeErrs,   \* the days Close could not flush, 0 for the WAL it could not reset
    \* history
    calls,       \* AddSample calls so far
    latest,      \* the largest timestamp submitted so far for each day
    newest,      \* the calls with a timestamp above every earlier one of its day
    cutoff,      \* the largest timestamp found older than wal.skip_before so far
    answered,    \* the samples a call has returned for, and what it returned
    crashes, faults

disk    == <<wal, dataFile, catalogFile>>
memory  == <<catalog, idToName, dirty, lastTS, openDays, page, sealedDays>>
given   == <<config, calls, latest, newest>>
history == <<given, cutoff, answered, crashes, faults>>
vars    == <<disk, memory, pc, call, flush, replay, closeErrs, history>>

Day      == Range(DayOf)
MetricID == 1..MaxMetrics
Name     == Metric \cup {NoName}
Sample   == [id : MetricID, ts : Timestamp, val : Nat]
Record   == [name : Name, id : MetricID, ts : Timestamp, val : Nat]

NoCall   == [op |-> "none", metric |-> NoName, ts |-> 0, val |-> 0, fresh |-> FALSE]
NoFlush  == [day |-> 0, goal |-> "none"]
NoReplay == [recs |-> <<>>, pos |-> 1, durable |-> {}]

-----------------------------------------------------------------------------
(* The catalog.                                                            *)

NoMetrics    == [m \in Metric |-> 0]
NoIds        == [i \in MetricID |-> NoName]
Known(m)     == catalog[m] # 0
Registered   == {m \in Metric : Known(m)}
Ids(c)       == {c[m] : m \in Metric} \ {0}

NextMetricIDFromZero == Cardinality(Registered)  \* faulty: no + 1
NextMetricID         == Cardinality(Registered) + 1

\* GetMetricID and EnsureMetricEntry both enter a new name this way.
Register(m, i) ==
    /\ catalog' = [catalog EXCEPT ![m] = i]
    /\ idToName' = [idToName EXCEPT ![i] = m]
    /\ dirty' = TRUE

\* EnsureMetricEntry refuses an id or a name bound to something else.
EnsureConflict(r) ==
    \/ idToName[r.id] \notin {NoName, r.name}
    \/ Known(r.name) /\ catalog[r.name] # r.id

\* LoadCatalog refuses a file in which two names share an id.
CatalogLoadable ==
    \A m, n \in Metric : m # n /\ catalogFile[m] # 0 => catalogFile[m] # catalogFile[n]

(* Pages and files.                                                        *)

EmptyPages       == [d \in Day |-> <<>>]
Persisted(d)     == UNION {Range(f) : f \in Range(dataFile[d])}
AllPagesFlushed  == \A d \in Day : page[d] = <<>>
OldestOpenDay    == CHOOSE d \in openDays : \A e \in openDays : d <= e
OutOfOrder(d, t) == page[d] # <<>> /\ t < Last(page[d]).ts
PageCountFull(d) == Len(page[d]) >= PageMaxRecords

\* A record is taken as durable when its timestamp does not exceed the last
\* timestamp in its day's data file (the replay watermark MaxEnd).
NoWatermark(r)    == FALSE  \* faulty: replays everything
AnyWatermark(r)   == \E d \in Day : \E s \in Persisted(d) : r.ts <= s.ts  \* faulty: of any day
BelowWatermark(r) == \E s \in Persisted(DayOf[r.ts]) : r.ts <= s.ts

\* RecordsWithCatalog resolves a nameless record's value type in the catalog
\* loaded from disk; one unknown id fails the whole read.
WALDecodable == \A r \in Range(wal) : r.name = NoName => r.id \in Ids(catalogFile)

DiskOK ==
    /\ wal \in Seq(Record)
    /\ dataFile \in [Day -> Seq(Seq(Sample))]
    /\ catalogFile \in [Metric -> MetricID \cup {0}]

MemoryOK ==
    /\ catalog \in [Metric -> MetricID \cup {0}]
    /\ idToName \in [MetricID -> Name]
    /\ dirty \in BOOLEAN
    /\ lastTS \in [Metric -> Timestamp \cup {0}]
    /\ openDays \subseteq Day /\ sealedDays \subseteq Day
    /\ page \in [Day -> Seq(Sample)]

HandlerOK ==
    /\ pc \in {"down", "closed", "replay", "idle", "ensure", "log", "page", "age",
               "drain", "flush", "sync", "reset", "persist"}
    /\ call \in [op : {"none", "add", "flush", "close"}, metric : Name,
                 ts : Timestamp \cup {0}, val : Nat, fresh : BOOLEAN]
    /\ flush \in [day : Day \cup {0},
                  goal : {"none", "seal", "age", "full", "drain", "reorder"}]
    /\ replay \in [recs : Seq(Record), pos : Nat \ {0}, durable : SUBSET Nat]
    /\ closeErrs \subseteq Day \cup {0}

HistoryOK ==
    /\ config \in Configs
    /\ calls \in Nat
    /\ latest \in [Day -> Timestamp \cup {0}]
    /\ newest \subseteq Nat
    /\ cutoff \in Nat /\ crashes \in Nat /\ faults \in Nat
    /\ answered \subseteq [metric : Metric, ts : Timestamp, val : Nat, ok : BOOLEAN]

TypeOK == DiskOK /\ MemoryOK /\ HandlerOK /\ HistoryOK

Init ==
    /\ wal = <<>>
    /\ dataFile = EmptyPages
    /\ catalogFile = NoMetrics
    /\ catalog = NoMetrics /\ idToName = NoIds /\ dirty = FALSE
    /\ lastTS = [m \in Metric |-> 0]
    /\ openDays = {} /\ page = EmptyPages /\ sealedDays = {}
    /\ pc = "closed"
    /\ call = NoCall /\ flush = NoFlush /\ replay = NoReplay /\ closeErrs = {}
    /\ config \in Configs
    /\ calls = 0 /\ latest = [d \in Day |-> 0] /\ newest = {} /\ cutoff = 0
    /\ answered = {} /\ crashes = 0 /\ faults = 0

Replaying == replay.recs # <<>>
Down      == pc \in {"down", "closed"}

\* What a process that stops leaves of its memory: nothing.
LoseMemory(where) ==
    /\ catalog' = NoMetrics /\ idToName' = NoIds /\ dirty' = FALSE
    /\ lastTS' = [m \in Metric |-> 0]
    /\ openDays' = {} /\ page' = EmptyPages /\ sealedDays' = {}
    /\ pc' = where
    /\ call' = NoCall /\ flush' = NoFlush /\ replay' = NoReplay /\ closeErrs' = {}

\* The call in progress returns to its caller.
Return(ok) ==
    /\ pc' = "idle"
    /\ call' = NoCall
    /\ flush' = NoFlush
    /\ answered' = IF call.op = "add"
                   THEN answered \cup {[metric |-> call.metric, ts |-> call.ts,
                                        val |-> call.val, ok |-> ok]}
                   ELSE answered
    /\ UNCHANGED <<replay, closeErrs>>

\* The handler starts writing the page of day d; goal says what it is for.
StartFlush(d, goal) ==
    /\ pc' = "flush"
    /\ flush' = [day |-> d, goal |-> goal]

-----------------------------------------------------------------------------
(* Pieces several handlers share.                                          *)

\* ensureDayOpen finds max_active_days days open already.
NeedsSealLate(d) == d \notin openDays /\ Cardinality(openDays) > MaxActiveDays  \* faulty
NeedsSeal(d)     == d \notin openDays /\ Cardinality(openDays) >= MaxActiveDays

NeverSealed(d) == FALSE  \* faulty: the check dropped
IsSealed(d)    == d \in sealedDays

\* sealDay of the oldest open day: its page is written unless it is nil.
StartSeal ==
    LET d == OldestOpenDay IN
    IF page[d] # <<>>
    THEN StartFlush(d, "seal") /\ UNCHANGED openDays
    ELSE /\ openDays' = openDays \ {d}
         /\ pc' = "reset"
         /\ flush' = [day |-> d, goal |-> "seal"]

\* addToOpenDay of a sample its page accepts, with UpdateLastByMetricID.
PutSample(d, s) ==
    /\ openDays' = openDays \cup {d}
    /\ page' = [page EXCEPT ![d] = Append(@, s)]
    /\ lastTS' = [lastTS EXCEPT ![idToName'[s.id]] = IF s.ts >= @ THEN s.ts ELSE @]

\* A page that was written is dropped with its day.
DropPage(d) ==
    /\ page' = [page EXCEPT ![d] = <<>>]
    /\ openDays' = openDays \ {d}

\* A page that could not be written stays.
DropUnwritten   == DropPage(flush.day) /\ UNCHANGED <<catalog, idToName, dirty, lastTS, sealedDays>>  \* faulty
AfterWriteError == UNCHANGED memory

-----------------------------------------------------------------------------
(* Opening the database: LoadCatalog, then replayWALIntoRuntime.           *)

OpenDatabase ==
    /\ Down
    /\ CatalogLoadable
    /\ config.wal => WALDecodable
    /\ catalog' = catalogFile
    /\ idToName' = [i \in MetricID |-> IF i \in Ids(catalogFile)
                                      THEN CHOOSE m \in Metric : catalogFile[m] = i
                                      ELSE NoName]
    /\ IF config.wal /\ wal # <<>>
       THEN /\ pc' = "replay"
            /\ replay' = [recs |-> wal, pos |-> 1,
                          durable |-> {i \in DOMAIN wal : BelowWatermark(wal[i])}]
            /\ UNCHANGED wal
       ELSE pc' = "idle" /\ wal' = <<>> /\ UNCHANGED replay
    /\ UNCHANGED <<dataFile, catalogFile, dirty, lastTS, openDays, page, sealedDays,
                   call, flush, closeErrs, history>>

\* Opening returns an error and the database stays closed.
OpenFails ==
    /\ Down
    /\ ~CatalogLoadable \/ (config.wal /\ ~WALDecodable)
    /\ UNCHANGED vars

ReplayRecord ==
    LET r == replay.recs[replay.pos]
        d == DayOf[r.ts] IN
    /\ pc = "replay"
    /\ replay.pos <= Len(replay.recs)
    /\ ~(r.name # NoName /\ EnsureConflict(r))
    /\ IF r.name # NoName /\ ~Known(r.name) THEN Register(r.name, r.id)
       ELSE UNCHANGED <<catalog, idToName, dirty>>
    /\ \/ /\ replay.pos \in replay.durable
          /\ replay' = [replay EXCEPT !.pos = @ + 1]
          /\ UNCHANGED <<pc, flush, openDays, page, lastTS>>
       \/ /\ replay.pos \notin replay.durable
          /\ ~IsSealed(d)
          /\ NeedsSeal(d)
          /\ StartSeal
          /\ UNCHANGED <<replay, page, lastTS>>
       \/ /\ replay.pos \notin replay.durable
          /\ ~IsSealed(d)
          /\ ~NeedsSeal(d)
          /\ IF OutOfOrder(d, r.ts)
             THEN StartFlush(d, "reorder") /\ UNCHANGED <<replay, openDays, page, lastTS>>
             ELSE /\ PutSample(d, [id |-> r.id, ts |-> r.ts, val |-> r.val])
                  /\ replay' = [replay EXCEPT !.pos = @ + 1]
                  /\ UNCHANGED <<pc, flush>>
    /\ UNCHANGED <<disk, sealedDays, call, closeErrs, history>>

\* A record that contradicts the catalog, or falls in a day sealed meanwhile.
ReplayFails ==
    LET r == replay.recs[replay.pos] IN
    /\ pc = "replay"
    /\ replay.pos <= Len(replay.recs)
    /\ \/ r.name # NoName /\ EnsureConflict(r)
       \/ replay.pos \notin replay.durable /\ IsSealed(DayOf[r.ts])
    /\ LoseMemory("down")
    /\ UNCHANGED <<disk, history>>

ReplayDone ==
    /\ pc = "replay"
    /\ replay.pos > Len(replay.recs)
    /\ pc' = "idle"
    /\ replay' = NoReplay
    /\ UNCHANGED <<disk, memory, call, flush, closeErrs, history>>

-----------------------------------------------------------------------------
(* AddSample (addParsedSample).  A stale sample returns at once and changes *)
(* nothing, so it is no action.                                            *)

Stale(m, t) == t < lastTS[m]

BeginAdd(m, t) ==
    /\ pc = "idle"
    /\ calls < MaxCalls
    /\ ~Stale(m, t)
    /\ pc' = "ensure"
    /\ call' = [op |-> "add", metric |-> m, ts |-> t, val |-> calls + 1,
                fresh |-> ~Known(m)]
    /\ calls' = calls + 1
    /\ IF t > latest[DayOf[t]]
       THEN latest' = [latest EXCEPT ![DayOf[t]] = t] /\ newest' = newest \cup {calls + 1}
       ELSE UNCHANGED <<latest, newest>>
    /\ UNCHANGED <<disk, memory, flush, replay, closeErrs, config, cutoff, answered, crashes,
                   faults>>

EnsureDayOpen ==
    LET d == DayOf[call.ts] IN
    /\ pc = "ensure"
    /\ ~IsSealed(d)
    /\ IF NeedsSeal(d) THEN StartSeal
       ELSE openDays' = openDays \cup {d} /\ pc' = "log" /\ UNCHANGED flush
    /\ UNCHANGED <<disk, catalog, idToName, dirty, lastTS, page, sealedDays, call,
                   replay, closeErrs, history>>

DayIsSealed ==
    /\ pc = "ensure"
    /\ IsSealed(DayOf[call.ts])
    /\ Return(FALSE)
    /\ UNCHANGED <<disk, memory, given, cutoff, crashes, faults>>

\* GetMetricID: no id is left, or the metric has another value type.
RejectMetric ==
    /\ pc = "log"
    /\ call.fresh => Cardinality(Registered) >= MaxMetrics
    /\ Return(FALSE)
    /\ UNCHANGED <<disk, memory, given, cutoff, crashes, faults>>

\* The first record of a metric carries its name; later ones only its id.
WALRecord(i) == [name |-> IF call.fresh THEN call.metric ELSE NoName,
                 id |-> i, ts |-> call.ts, val |-> call.val]

\* shouldWriteWAL: samples older than wal.skip_before are not logged.  The
\* clock only moves on, so a timestamp once too old stays too old.
ShouldWriteWAL(t) == config.wal /\ t > cutoff
MaySkipWAL == ~config.wal \/ config.skip

\* GetMetricID, then the WAL append.
LogSample(useWAL) ==
    LET i == IF Known(call.metric) THEN catalog[call.metric] ELSE NextMetricID IN
    /\ pc = "log"
    /\ Known(call.metric) \/ Cardinality(Registered) < MaxMetrics
    /\ IF useWAL THEN ShouldWriteWAL(call.ts) ELSE MaySkipWAL
    /\ cutoff' = IF useWAL \/ call.ts <= cutoff THEN cutoff ELSE call.ts
    /\ IF Known(call.metric) THEN UNCHANGED <<catalog, idToName, dirty>>
       ELSE Register(call.metric, i)
    /\ wal' = IF useWAL THEN Append(wal, WALRecord(i)) ELSE wal
    /\ pc' = "page"
    /\ UNCHANGED <<dataFile, catalogFile, lastTS, openDays, page, sealedDays, call, flush,
                   replay, closeErrs, given, answered, crashes, faults>>

\* addToOpenDay, with the rollup writer's flush and retry.
AddToPage ==
    LET d == DayOf[call.ts] IN
    /\ pc = "page"
    /\ UNCHANGED idToName
    /\ IF OutOfOrder(d, call.ts)
       THEN /\ UNCHANGED <<openDays, page, lastTS>>
            /\ IF config.retry
               THEN StartFlush(d, "reorder") /\ UNCHANGED <<call, replay, closeErrs, answered>>
               ELSE Return(FALSE)
       ELSE /\ PutSample(d, [id |-> catalog[call.metric], ts |-> call.ts, val |-> call.val])
            /\ pc' = "age"
            /\ UNCHANGED <<call, flush, replay, closeErrs, answered>>
    /\ UNCHANGED <<disk, catalog, dirty, sealedDays, given, cutoff, crashes, faults>>

\* flushEligibleOpenDays: pages of other days that are full; a page may be
\* full by age at any time.
FlushAged(d) ==
    /\ pc = "age"
    /\ d \in openDays \ {DayOf[call.ts]}
    /\ page[d] # <<>>
    /\ StartFlush(d, "age")
    /\ UNCHANGED <<disk, memory, call, replay, closeErrs, history>>

NoOtherFullPage == \A d \in openDays \ {DayOf[call.ts]} : ~PageCountFull(d)

\* The sample's own page is full by count or by age.
FlushOwnPage ==
    /\ pc = "age"
    /\ NoOtherFullPage
    /\ StartFlush(DayOf[call.ts], "full")
    /\ UNCHANGED <<disk, memory, call, replay, closeErrs, history>>

FinishAdd ==
    /\ pc = "age"
    /\ NoOtherFullPage
    /\ ~PageCountFull(DayOf[call.ts])
    /\ Return(TRUE)
    /\ UNCHANGED <<disk, memory, given, cutoff, crashes, faults>>

-----------------------------------------------------------------------------
(* flushDatabasesLocked and Close.                                         *)

BeginDrain(op) ==
    /\ pc = "idle"
    /\ pc' = "drain"
    /\ call' = [NoCall EXCEPT !.op = op]
    /\ UNCHANGED <<disk, memory, flush, replay, closeErrs, history>>

DrainPage(d) ==
    /\ pc = "drain"
    /\ d \in openDays \ closeErrs
    /\ page[d] # <<>>
    /\ StartFlush(d, "drain")
    /\ UNCHANGED <<disk, memory, call, replay, closeErrs, history>>

NoDayLeft  == openDays \subseteq closeErrs  \* faulty: waits for days without a page
NoPageLeft == \A d \in openDays \ closeErrs : page[d] = <<>>

DrainDone ==
    /\ pc = "drain"
    /\ NoPageLeft
    /\ pc' = "reset"
    /\ flush' = [NoFlush EXCEPT !.goal = "drain"]
    /\ UNCHANGED <<disk, memory, call, replay, closeErrs, history>>

\* The last thing both do: write the catalog if it is still dirty.
CatalogOnDisk == IF dirty THEN catalog ELSE catalogFile

PersistCatalog ==
    /\ pc = "persist"
    /\ catalogFile' = CatalogOnDisk
    /\ IF call.op = "close"
       THEN LoseMemory(IF closeErrs = {} THEN "closed" ELSE "down") /\ UNCHANGED answered
       ELSE /\ dirty' = FALSE
            /\ Return(TRUE)
            /\ UNCHANGED <<catalog, idToName, lastTS, openDays, page, sealedDays>>
    /\ UNCHANGED <<wal, dataFile, given, cutoff, crashes, faults>>

-----------------------------------------------------------------------------
(* Writing a page and resetting the WAL, for every caller.                 *)

\* writePageWithOptions: the frame goes to the end of the day's data file.
AppendFrame ==
    /\ pc = "flush"
    /\ dataFile' = [dataFile EXCEPT ![flush.day] = Append(@, page[flush.day])]
    /\ pc' = "sync"
    /\ UNCHANGED <<wal, catalogFile, memory, call, flush, replay, closeErrs, history>>

AfterSync ==
    CASE flush.goal \in {"seal", "full"} -> "reset"
      [] flush.goal = "reorder"          -> IF Replaying THEN "replay" ELSE "page"
      [] OTHER                           -> flush.goal

\* The rest of writePageWithOptions; then the caller drops the page.
SyncFlushed ==
    /\ pc = "sync"
    /\ IF config.strict /\ dirty
       THEN catalogFile' = catalog /\ dirty' = FALSE
       ELSE UNCHANGED <<catalogFile, dirty>>
    /\ DropPage(flush.day)
    /\ pc' = AfterSync
    /\ flush' = IF AfterSync = "reset" THEN flush ELSE NoFlush
    /\ UNCHANGED <<wal, dataFile, catalog, idToName, lastTS, sealedDays, call, replay,
                   closeErrs, history>>

\* What follows maybeResetWAL.
AfterReset ==
    CASE flush.goal = "seal" ->
            /\ sealedDays' = sealedDays \cup {flush.day}
            /\ pc' = IF Replaying THEN "replay" ELSE "ensure"
            /\ flush' = NoFlush
            /\ UNCHANGED <<call, replay, closeErrs, answered>>
      [] flush.goal = "full" -> Return(TRUE) /\ UNCHANGED sealedDays
      [] OTHER ->
            /\ pc' = "persist"
            /\ flush' = NoFlush
            /\ UNCHANGED <<sealedDays, call, replay, closeErrs, answered>>

\* maybeResetWAL returns without touching the WAL while a page is open.
ResetAnyTime == config.wal  \* faulty: open pages not looked at
MayReset     == config.wal /\ AllPagesFlushed

\* The catalog is written before the WAL goes.
ResetFirst   == FALSE  \* faulty: the WAL goes first
CatalogFirst == dirty

KeepWAL ==
    /\ pc = "reset"
    /\ ~MayReset
    /\ AfterReset
    /\ UNCHANGED <<disk, catalog, idToName, dirty, lastTS, openDays, page, given, cutoff,
                   crashes, faults>>

CatalogBeforeReset ==
    /\ pc = "reset"
    /\ MayReset /\ CatalogFirst
    /\ catalogFile' = catalog /\ dirty' = FALSE
    /\ UNCHANGED <<wal, dataFile, catalog, idToName, lastTS, openDays, page, sealedDays, pc,
                   call, flush, replay, closeErrs, history>>

ResetWAL ==
    /\ pc = "reset"
    /\ MayReset /\ ~CatalogFirst
    /\ wal' = <<>>
    /\ AfterReset
    /\ UNCHANGED <<dataFile, catalogFile, catalog, idToName, dirty, lastTS, openDays, page,
                   given, cutoff, crashes, faults>>

-----------------------------------------------------------------------------
(* What goes wrong around the code: crashes and failed writes.             *)

Crash ==
    /\ ~Down
    /\ crashes < MaxCrashes
    /\ crashes' = crashes + 1
    /\ LoseMemory("down")
    /\ UNCHANGED <<disk, given, cutoff, answered, faults>>

\* The fsync of a WAL append fails (wal.fsync_policy = always): the record is
\* in the file and GetMetricID has registered the metric, but the call fails.
\* A record that is cut short is the matter of WALFile.
LogSyncFails ==
    LET i == IF Known(call.metric) THEN catalog[call.metric] ELSE NextMetricID IN
    /\ pc = "log" /\ ShouldWriteWAL(call.ts)
    /\ faults < MaxFaults
    /\ Known(call.metric) \/ Cardinality(Registered) < MaxMetrics
    /\ IF Known(call.metric) THEN UNCHANGED <<catalog, idToName, dirty>>
       ELSE Register(call.metric, i)
    /\ wal' = Append(wal, WALRecord(i))
    /\ Return(FALSE)
    /\ faults' = faults + 1
    /\ UNCHANGED <<dataFile, catalogFile, lastTS, openDays, page, sealedDays, given, cutoff,
                   crashes>>

\* A page frame, its fsync, the catalog or the WAL reset fails: an open in
\* progress gives up, Close notes it and goes on, any other call returns it.
WriteFails ==
    /\ pc \in {"flush", "sync", "reset", "persist"}
    /\ pc = "reset" => MayReset
    /\ pc \in {"persist"} => dirty
    /\ faults < MaxFaults
    /\ faults' = faults + 1
    /\ IF Replaying \/ (call.op = "close" /\ pc = "persist")
       THEN LoseMemory("down") /\ UNCHANGED answered
       ELSE /\ AfterWriteError
            /\ IF call.op = "close"
               THEN /\ closeErrs' = closeErrs \cup {flush.day}
                    /\ pc' = IF pc = "reset" THEN "persist" ELSE "drain"
                    /\ flush' = NoFlush
                    /\ UNCHANGED <<call, replay, answered>>
               ELSE Return(FALSE)
    /\ UNCHANGED <<disk, given, cutoff, crashes>>

-----------------------------------------------------------------------------
\* What the engine does by itself once a call or an open has begun.
Work ==
    \/ ReplayRecord \/ ReplayFails \/ ReplayDone
    \/ EnsureDayOpen \/ DayIsSealed \/ RejectMetric
    \/ \E useWAL \in BOOLEAN : LogSample(useWAL)
    \/ AddToPage
    \/ \E d \in Day : FlushAged(d)
    \/ FlushOwnPage \/ FinishAdd
    \/ \E d \in Day : DrainPage(d)
    \/ DrainDone \/ PersistCatalog
    \/ AppendFrame \/ SyncFlushed
    \/ KeepWAL \/ CatalogBeforeReset \/ ResetWAL

Next ==
    \/ OpenDatabase \/ OpenFails
    \/ \E m \in Metric, t \in Timestamp : BeginAdd(m, t)
    \/ \E op \in {"flush", "close"} : BeginDrain(op)
    \/ Work
    \/ Crash
    \/ LogSyncFails
    \/ WriteFails

Spec == Init /\ [][Next]_vars

\* A process that keeps running carries a call to its end.
FairSpec == Spec /\ WF_vars(Work)

-----------------------------------------------------------------------------
(* What the store promises.                                                *)

\* The frames a query of day d reads: the data file, then the open page.
Frames(d)  == IF page[d] = <<>> THEN dataFile[d] ELSE Append(dataFile[d], page[d])
Visible(d) == UNION {Range(f) : f \in Range(Frames(d))}

\* Where a query of day d meets the sample of call v.
Places(d, v) ==
    UNION {{<<f, k>> : k \in {k \in DOMAIN Frames(d)[f] : Frames(d)[f][k].val = v}}
             : f \in DOMAIN Frames(d)}

Acked == {a \in answered : a.ok}

\* wal.enabled, and no sample exempt from it.
WALProtected == config.wal /\ ~config.skip

\* Nothing stopped or failed so far.
Calm == crashes = 0 /\ faults = 0

\* The acknowledged samples the code as it is keeps.  A crash may cost those
\* never logged, and those at or below the replay watermark of their day, which
\* only passes samples that were not the newest of their day when submitted.
Safe == {a \in Acked : Calm \/ (WALProtected /\ a.val \in newest)}

\* Between calls a query returns every such sample exactly once: no crash,
\* flush or replay drops one (the WAL was reset too early, a record was skipped
\* as durable) or doubles one (its frame was on disk and its record was
\* replayed all the same).
EveryAckedSampleOnce ==
    pc = "idle" /\ faults = 0 => \A a \in Safe : Cardinality(Places(DayOf[a.ts], a.val)) = 1

\* Replay seals the oldest open day when the log holds records of more than max_active_days
\* days.  Only a failed write leaves such a log, and with one active day that seal finds no
\* page open and resets the WAL, with records in it that are still to be replayed: samples,
\* and names of ids that a data file may use already.
ReplayKeepsWAL == faults = 0 \/ MaxActiveDays > 1

\* When writes fail a sample may come to be on disk twice (a frame was written
\* and its fsync failed), but still none is lost.
EveryAckedSampleKept ==
    pc = "idle" /\ ReplayKeepsWAL => \A a \in Safe : Places(DayOf[a.ts], a.val) # {}

\* docs/LAWS.md:217, LAW 11: recovery of WAL-protected samples is lossless, however many
\* days a database may hold open.
RecoveryIsLossless ==
    pc = "idle" /\ WALProtected =>
        \A a \in Acked : a.val \in newest => Places(DayOf[a.ts], a.val) # {}

\* A stored sample is found under the metric it was written to and under no
\* other: an id outlives crashes with the name it was assigned to, although
\* frames reach the disk before the catalog that names their ids.
SamplesKeepTheirMetric ==
    pc = "idle" /\ (Calm \/ (WALProtected /\ ReplayKeepsWAL)) =>
        \A a \in answered : \A s \in Visible(DayOf[a.ts]) :
            s.val = a.val => \A m \in Metric : catalog[m] = s.id <=> m = a.metric

\* LAW 11: while a page is open the WAL still holds every sample in it, so a
\* crash at this point loses none of them.
PagesBackedByWAL ==
    WALProtected /\ ReplayKeepsWAL =>
        \A d \in Day : \A s \in Range(page[d]) : \E r \in Range(wal) : r.val = s.val

\* At most max_active_days pages are held in memory, replay included.
OpenDaysBounded == Cardinality(openDays) <= MaxActiveDays

\* A day that was sealed gets no more frames while the process runs.
SealedDaysFrozen == [][\A d \in sealedDays : dataFile'[d] = dataFile[d]]_vars

\* LAW 11: whatever a crash leaves on disk, the next open can read it.
AlwaysOpens == Down => CatalogLoadable /\ (config.wal => WALDecodable)

\* A call, an open or a shutdown that began comes to its end.
CallsReturn == (pc \notin {"down", "closed", "idle"}) ~> (pc \in {"down", "closed", "idle"})

\* A WAL-protected database implements SampleLog for the samples that were the
\* newest of their day: what is stored is what the WAL and the data files hold
\* between them, but for the samples whose call failed.  With one active day this
\* is so as long as no write fails.
Claimed == WALProtected /\ (MaxFaults = 0 \/ MaxActiveDays > 1)
Log == INSTANCE SampleLog WITH
    Sample <- 1..MaxCalls,
    stored <- IF Claimed
              THEN (newest \ {a.val : a \in answered \ Acked}) \cap
                       ({r.val : r \in Range(wal)} \cup
                        {s.val : s \in UNION {Persisted(d) : d \in Day}})
              ELSE {},
    acked  <- IF Claimed THEN newest \cap {a.val : a \in Acked} ELSE {}
LogSpec == Log!Spec
=============================================================================
