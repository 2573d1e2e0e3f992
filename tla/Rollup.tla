------------------------------- MODULE Rollup -------------------------------
(***************************************************************************)
(* The rollup jobs of one source database with a job for each metric, the  *)
(* destination database they write to, the checkpoint log, and backfill.   *)
(* Source: internal/engine/rollup.go, and the parts of engine.go that run  *)
(* the jobs when a day is sealed and store what they compute.              *)
(*                                                                         *)
(* The destination has no WAL, its rows share one partition.  The samples  *)
(* of an open source page survive a crash: MetricStore has the WAL that    *)
(* brings them back, and PartitionFiles the files of a day that is sealed  *)
(* and built.  A row stands for an aggregate by the set of the samples it  *)
(* was computed from.  Writers hold Engine.writeMu, so pc says where the   *)
(* one in progress is; BackfillRollups takes it only for its own trigger.  *)
(***************************************************************************)
EXTENDS Naturals, FiniteSets, SequencesExt

CONSTANTS
    Metric,
    Timestamp,       \* timestamps of source samples
    DayOf,           \* the partition of each
    Interval,        \* of the jobs
    Aggregates,      \* how many aggregates each job writes
    MaxActiveDays, PageMaxRecords, DestPageMaxRecords,
    Cutoffs,         \* now - grace, over time
    Settings         \* raw_ingest_action and the bounds of a behavior

ASSUME RollupAssumption ==
    /\ Timestamp \subseteq Nat /\ {Interval, Aggregates} \subseteq Nat \ {0}
    /\ \A t \in Timestamp : t >= Interval
    /\ DayOf \in [Timestamp -> Nat]
    /\ {MaxActiveDays, PageMaxRecords, DestPageMaxRecords} \subseteq Nat \ {0}
    /\ Cutoffs \subseteq Nat /\ Cutoffs # {}
    /\ Settings \subseteq [rename : BOOLEAN, calls : Nat, crashes : Nat, faults : Nat,
                           backfills : Nat, online : BOOLEAN]

Day == {DayOf[t] : t \in Timestamp}

VARIABLES
    \* the source: its open days, its pages and its data files
    open, page, disk,
    renamed,     \* days whose data file a metric-file build has renamed
    sealed,      \* dbRuntime.sealedDays
    lastTS,      \* MetricEntry.LastTS, 0 while LastValid is false
    \* the destination: open page, data file, and LastTS of each of its metrics
    destPage, destFile, destLast,
    checkpoint,  \* the checkpoint log: the last entry of each job, 0 for none
    \* the writer in progress
    pc, call,
    jobs,        \* rollupJobState of each job; loaded is its checkpoint when it began
    row,         \* the row buildRollupJobPeriod writes next
    backfill,    \* how far BackfillRollups has come
    \* history
    setting, calls, crashes, faults, backfills,
    cutoff,
    newest,      \* the largest timestamp each metric has stored
    late,        \* samples stored below it
    from         \* where the first window behind each checkpoint begins

source   == <<open, page, disk, renamed, sealed, lastTS>>
dest     == <<destPage, destFile, destLast>>
run      == <<jobs, row>>
counters == <<setting, calls, crashes, faults, backfills>>
history  == <<counters, cutoff, newest, late, from>>
vars     == <<source, dest, checkpoint, pc, call, run, backfill, history>>

NoCall == [none |-> TRUE]
NoRow  == [none |-> TRUE]
NoJob  == [next |-> 0, safe |-> 0, from |-> 0, loaded |-> 0, updated |-> 0]

Smallest(S) == CHOOSE x \in S : \A y \in S : x <= y
Largest(S)  == CHOOSE x \in S : \A y \in S : x >= y
Lower(a, b) == IF a < b THEN a ELSE b

Init ==
    /\ open = {} /\ page = [d \in Day |-> <<>>] /\ disk = [d \in Day |-> {}]
    /\ renamed = {} /\ sealed = {} /\ lastTS = [m \in Metric |-> 0]
    /\ destPage = <<>> /\ destFile = <<>>
    /\ destLast = [x \in Metric \X (1..Aggregates) |-> 0]
    /\ checkpoint = [m \in Metric |-> 0]
    /\ pc = "idle" /\ call = NoCall
    /\ jobs = [m \in Metric |-> NoJob] /\ row = NoRow
    /\ backfill = "none"
    /\ setting \in Settings
    /\ calls = 0 /\ crashes = 0 /\ faults = 0 /\ backfills = 0
    /\ cutoff = Smallest(Cutoffs)
    /\ newest = [m \in Metric |-> 0] /\ late = {} /\ from = [m \in Metric |-> 0]

-----------------------------------------------------------------------------
(* A sample for the source database.                                       *)

Stored == UNION {disk[d] \cup ToSet(page[d]) : d \in Day}

\* addToOpenDay, with the flush of a page that is full.
Store(s, opened) ==
    LET d == DayOf[s.ts]
        p == Append(page[d], s)
        full == Len(p) >= PageMaxRecords IN
    /\ page[d] # <<>> => Last(page[d]).ts <= s.ts
    /\ page' = [page EXCEPT ![d] = IF full THEN <<>> ELSE p]
    /\ disk' = [disk EXCEPT ![d] = IF full THEN @ \cup ToSet(p) ELSE @]
    /\ open' = IF full THEN opened \ {d} ELSE opened \cup {d}
    /\ lastTS' = [lastTS EXCEPT ![s.metric] = s.ts]
    /\ newest' = [newest EXCEPT ![s.metric] = Largest({@, s.ts})]
    /\ late' = IF s.ts < newest[s.metric] THEN late \cup {s.n} ELSE late

\* A sample addParsedSample does not refuse as stale, nor for the day it belongs to.
Taken(m, t) == lastTS[m] <= t /\ DayOf[t] \notin sealed

\* While an offline rebuild runs, nothing else does.
MayWrite == pc = "idle" /\ calls < setting.calls /\ (backfill = "none" \/ setting.online)

HasRoom(d) == d \in open \/ Cardinality(open) < MaxActiveDays

AddSample(m, t) ==
    /\ MayWrite /\ Taken(m, t) /\ HasRoom(DayOf[t])
    /\ Store([metric |-> m, ts |-> t, n |-> calls + 1], open)
    /\ calls' = calls + 1
    /\ UNCHANGED <<renamed, sealed, dest, checkpoint, pc, call, run, backfill, setting, crashes,
                   faults, backfills, cutoff, from>>

\* sealDay, up to the trigger of the rollups: the oldest open day makes room.
SealDay(m, t) ==
    /\ MayWrite /\ Taken(m, t) /\ ~HasRoom(DayOf[t])
    /\ LET d == Smallest(open) IN
       /\ disk' = [disk EXCEPT ![d] = @ \cup ToSet(page[d])]
       /\ page' = [page EXCEPT ![d] = <<>>]
       /\ open' = open \ {d}
       /\ call' = [metric |-> m, ts |-> t, sealing |-> d]
    /\ calls' = calls + 1
    /\ pc' = "trigger"
    /\ UNCHANGED <<renamed, sealed, lastTS, dest, checkpoint, run, backfill, setting, crashes,
                   faults, backfills, cutoff, newest, late, from>>

\* The rest of sealDay, a metric-file build included, and the sample.
FinishAdd ==
    /\ pc = "done" /\ call # NoCall
    /\ renamed' = IF setting.rename THEN renamed \cup {call.sealing} ELSE renamed
    /\ sealed' = sealed \cup {call.sealing}
    /\ Store([metric |-> call.metric, ts |-> call.ts, n |-> calls], open)
    /\ pc' = "idle" /\ call' = NoCall
    /\ UNCHANGED <<dest, checkpoint, run, backfill, counters, cutoff, from>>

-----------------------------------------------------------------------------
(* The trigger: triggerRollupsForSourceLocked.                             *)

\* databaseClosedTimeBounds: what the data files of closed days hold.
ClosedSamples == UNION {disk[d] : d \in Day \ (open \cup renamed)}

Floor(t) == (t \div Interval) * Interval

\* latestClosedMetricTimestamp, 0 for none: the last sample, if its day is closed.
LatestClosed(m) ==
    LET times == {s.ts : s \in {s \in ClosedSamples : s.metric = m}} IN
    IF lastTS[m] # 0 THEN IF DayOf[lastTS[m]] \in open THEN 0 ELSE lastTS[m]
    ELSE IF times = {} THEN 0 ELSE Largest(times)

\* initialRollupStart
InitialStart == IF ClosedSamples = {} THEN 0 ELSE Floor(Smallest({s.ts : s \in ClosedSamples}))

\* The state each job starts with.
JobState(m, cut) ==
    LET safe  == Lower(LatestClosed(m), cut)
        start == IF checkpoint[m] = 0 THEN InitialStart ELSE checkpoint[m] IN
    [next |-> IF safe = 0 THEN 0 ELSE start, safe |-> safe, from |-> start,
     loaded |-> checkpoint[m], updated |-> 0]

\* The checkpoints are loaded and the states of the jobs computed.
LoadJobs ==
    /\ pc = "trigger"
    /\ \E c \in {c \in Cutoffs : c >= cutoff} :
         cutoff' = c /\ jobs' = [m \in Metric |-> JobState(m, c)]
    /\ pc' = "windows"
    /\ UNCHANGED <<source, dest, checkpoint, call, row, backfill, counters, newest, late, from>>

WindowBegins(j) == j.next # 0 /\ j.next <= j.safe

\* A window is due once the job is past its end.
Due(j) == j.next # 0 /\ j.next + Interval <= j.safe

\* The jobs with the earliest window that is due; the order of their ids is left open.
NextJobs == LET due == {m \in Metric : Due(jobs[m])} IN
            {m \in due : \A o \in due : jobs[m].next <= jobs[o].next}

InWindow(m, w) == {s \in Stored : s.metric = m /\ w <= s.ts /\ s.ts < w + Interval}

NotRecorded(m, w) == [jobs EXCEPT ![m].next = w + Interval]
Completed(m, w) == [jobs EXCEPT ![m].next = w + Interval, ![m].updated = w + Interval]

\* buildRollupJobPeriod reads the source; a window without points is complete at once.
NextWindow(m) ==
    /\ pc = "windows" /\ row = NoRow /\ m \in NextJobs
    /\ LET w == jobs[m].next
           points == {s.n : s \in InWindow(m, w)} IN
       IF points = {} THEN jobs' = Completed(m, w) /\ UNCHANGED row
       ELSE row' = [metric |-> m, agg |-> 1, start |-> w, of |-> points] /\ UNCHANGED jobs
    /\ UNCHANGED <<source, dest, checkpoint, pc, call, backfill, history>>

Fault == faults < setting.faults /\ faults' = faults + 1

\* The job of a row that failed is given up until the next trigger.
GiveUp == /\ jobs' = [jobs EXCEPT ![row.metric].next = 0]
          /\ row' = NoRow

Stale == destLast[<<row.metric, row.agg>>] > row.start

\* The destination refuses a row older than the last one of its metric.
RowRefused ==
    /\ pc = "windows" /\ row # NoRow /\ Stale
    /\ GiveUp
    /\ UNCHANGED <<source, dest, checkpoint, pc, call, backfill, history>>

Behind == destPage # <<>> /\ row.start < Last(destPage).start

\* The destination's open page with the row in it.
Page == IF Behind THEN <<row>> ELSE Append(destPage, row)
Full == Len(Page) >= DestPageMaxRecords

\* insertRollupSample: a row behind the page's last one has the page written first, and
\* a full page is written.
InsertRow ==
    /\ pc = "windows" /\ row # NoRow /\ ~Stale
    /\ destPage' = IF Full THEN <<>> ELSE Page
    /\ destFile' = destFile \o (IF Behind THEN destPage ELSE <<>>) \o (IF Full THEN Page ELSE <<>>)
    /\ destLast' = [destLast EXCEPT ![<<row.metric, row.agg>>] = row.start]
    /\ IF row.agg < Aggregates
         THEN row' = [row EXCEPT !.agg = @ + 1] /\ UNCHANGED jobs
         ELSE row' = NoRow /\ jobs' = Completed(row.metric, row.start)
    /\ UNCHANGED <<source, checkpoint, pc, call, backfill, history>>

\* The page that had to be written first could not be.
InsertFails ==
    /\ pc = "windows" /\ row # NoRow /\ ~Stale /\ Behind
    /\ Fault /\ GiveUp
    /\ UNCHANGED <<source, dest, checkpoint, pc, call, backfill, setting, calls, crashes,
                   backfills, cutoff, newest, late, from>>

\* The page could not be written when the row had filled it: the row stays in it.
FullPageFails ==
    /\ pc = "windows" /\ row # NoRow /\ ~Stale /\ ~Behind /\ Full
    /\ Fault /\ GiveUp
    /\ destPage' = Page
    /\ destLast' = [destLast EXCEPT ![<<row.metric, row.agg>>] = row.start]
    /\ UNCHANGED <<source, destFile, checkpoint, pc, call, backfill, setting, calls, crashes,
                   backfills, cutoff, newest, late, from>>

Updated == {m \in Metric : jobs[m].updated > jobs[m].loaded}

WindowsDone ==
    /\ pc = "windows" /\ row = NoRow /\ NextJobs = {}
    /\ pc' = IF Updated # {} THEN "flush" ELSE "done"
    /\ UNCHANGED <<source, dest, checkpoint, call, run, backfill, history>>

\* The destination is flushed before a checkpoint says that a window is done.
FlushLeftOut ==
    /\ pc = "flush"
    /\ pc' = "append"
    /\ UNCHANGED <<source, dest, checkpoint, call, run, backfill, history>>

FlushDest ==
    /\ pc = "flush"
    /\ destFile' = destFile \o destPage
    /\ destPage' = <<>>
    /\ pc' = "append"
    /\ UNCHANGED <<source, destLast, checkpoint, call, run, backfill, history>>

\* The checkpoints wait for the next trigger when it fails.
FlushFails ==
    /\ pc = "flush" /\ Fault
    /\ pc' = "done"
    /\ UNCHANGED <<source, dest, checkpoint, call, run, backfill, setting, calls, crashes,
                   backfills, cutoff, newest, late, from>>

Handled(m) == [jobs EXCEPT ![m].updated = 0]

\* appendRollupCheckpoint, for each job that has moved.
AppendCheckpoint(m) ==
    /\ pc = "append" /\ m \in Updated
    /\ checkpoint' = [checkpoint EXCEPT ![m] = jobs[m].updated]
    /\ from' = [from EXCEPT ![m] = IF jobs[m].loaded = 0 THEN jobs[m].from ELSE @]
    /\ jobs' = Handled(m)
    /\ UNCHANGED <<source, dest, pc, call, row, backfill, counters, cutoff, newest, late>>

AppendFails(m) ==
    /\ pc = "append" /\ m \in Updated /\ Fault
    /\ jobs' = Handled(m)
    /\ UNCHANGED <<source, dest, checkpoint, pc, call, row, backfill, setting, calls, crashes,
                   backfills, cutoff, newest, late, from>>

TriggerDone ==
    /\ pc = "append" /\ Updated = {}
    /\ pc' = "done"
    /\ UNCHANGED <<source, dest, checkpoint, call, run, backfill, history>>

-----------------------------------------------------------------------------
(* BackfillRollups and crashes.                                            *)

\* resetRollupDestination: the destination is closed and its files removed, whoever
\* writes to it.
ResetDest ==
    /\ backfill = "none" /\ backfills < setting.backfills
    /\ setting.online \/ pc = "idle"
    /\ backfills' = backfills + 1
    /\ destPage' = <<>> /\ destFile' = <<>>
    /\ destLast' = [x \in DOMAIN destLast |-> 0]
    /\ backfill' = "reset"
    /\ UNCHANGED <<source, checkpoint, pc, call, run, setting, calls, crashes, faults, cutoff,
                   newest, late, from>>

\* The checkpoint log is removed.
ClearCheckpoints ==
    /\ backfill = "reset"
    /\ checkpoint' = [m \in Metric |-> 0]
    /\ from' = [m \in Metric |-> 0]
    /\ backfill' = "cleared"
    /\ UNCHANGED <<source, dest, pc, call, run, counters, cutoff, newest, late>>

\* The trigger of the rebuild waits for writeMu.
BackfillTrigger ==
    /\ backfill = "cleared" /\ pc = "idle"
    /\ pc' = "trigger"
    /\ backfill' = "replay"
    /\ UNCHANGED <<source, dest, checkpoint, call, run, history>>

\* The trigger is done, and the destination flushed once more.
BackfillDone ==
    /\ backfill = "replay" /\ pc = "done" /\ call = NoCall
    /\ destFile' = destFile \o destPage /\ destPage' = <<>>
    /\ pc' = "idle" /\ backfill' = "none"
    /\ UNCHANGED <<source, destLast, checkpoint, call, run, history>>

\* The process stops and starts again: the WAL brings the open source pages back, the
\* destination's are lost, and only what was replayed has a LastTS.
Crash ==
    /\ crashes < setting.crashes
    /\ crashes' = crashes + 1
    /\ open' = {d \in Day : page[d] # <<>>}
    /\ sealed' = {}
    /\ lastTS' = [m \in Metric |->
         LET times == {s.ts : s \in {s \in UNION {ToSet(page[d]) : d \in Day} : s.metric = m}} IN
         IF times = {} THEN 0 ELSE Largest(times)]
    /\ destPage' = <<>> /\ destLast' = [x \in DOMAIN destLast |-> 0]
    /\ pc' = "idle" /\ call' = NoCall
    /\ jobs' = [m \in Metric |-> NoJob] /\ row' = NoRow
    /\ backfill' = "none"
    /\ UNCHANGED <<page, disk, renamed, destFile, checkpoint, setting, calls, faults, backfills,
                   cutoff, newest, late, from>>

Add  == \E m \in Metric, t \in Timestamp : AddSample(m, t) \/ SealDay(m, t)
Jobs == \/ LoadJobs \/ RowRefused \/ InsertRow \/ InsertFails \/ FullPageFails
        \/ WindowsDone \/ FlushDest \/ FlushFails \/ TriggerDone
        \/ \E m \in Metric : NextWindow(m) \/ AppendCheckpoint(m) \/ AppendFails(m)
Next == \/ Add \/ FinishAdd \/ Jobs
        \/ ResetDest \/ ClearCheckpoints \/ BackfillTrigger \/ BackfillDone
        \/ Crash

Spec == Init /\ [][Next]_vars

-----------------------------------------------------------------------------
Rows == ToSet(destFile \o destPage)

TypeOK ==
    /\ open \subseteq Day /\ Cardinality(open) <= MaxActiveDays
    /\ sealed \subseteq Day /\ renamed \subseteq Day /\ open \cap sealed = {}
    /\ \A d \in Day : Len(page[d]) < PageMaxRecords /\ (page[d] # <<>> => d \in open)
    /\ Len(destPage) < DestPageMaxRecords + faults
    /\ \A r \in Rows : /\ r.metric \in Metric /\ r.agg \in 1..Aggregates
                       /\ r.start % Interval = 0 /\ r.of # {}
    /\ pc \in {"idle", "trigger", "windows", "flush", "append", "done"}
    /\ backfill \in {"none", "reset", "cleared", "replay"}
    /\ \A m \in Metric : checkpoint[m] % Interval = 0

\* The samples of a window that came in order.
OnTime(m, w) == {s.n : s \in InWindow(m, w)} \ late

Window == {Floor(t) : t \in Timestamp}

\* A backfill leaves checkpoints of windows that are gone when it runs beside a trigger of
\* the same source, or when a stop cuts it.
Undisturbed == backfills = 0 \/ (~setting.online /\ crashes = 0)

\* A window behind a job's checkpoint is never computed again: for each that has samples,
\* every aggregate is in the destination's files, whatever crashes or fails.  (rollup.go, on
\* why the destination is flushed before the checkpoint is written.)
CheckpointCovered ==
    Undisturbed /\ backfill # "reset" =>
        \A m \in Metric, w \in Window, k \in 1..Aggregates :
            /\ from[m] <= w /\ w < checkpoint[m]
            /\ OnTime(m, w) # {}
            => \E i \in DOMAIN destFile : /\ destFile[i].metric = m /\ destFile[i].agg = k
                                          /\ destFile[i].start = w

\* No row is of a partial window: it was computed from every sample of its window that came
\* in order, the later ones too, and from no other.
RowsExact ==
    \A r \in Rows : /\ OnTime(r.metric, r.start) \subseteq r.of
                    /\ r.of \subseteq {s.n : s \in InWindow(r.metric, r.start)}

\* Without a crash or a failed write no window is computed twice, whatever triggers and
\* rebuilds follow each other.
RowsOnce ==
    Undisturbed /\ crashes = 0 /\ faults = 0 =>
        LET rows == destFile \o destPage IN
        \A i, j \in DOMAIN rows :
            (rows[i].metric = rows[j].metric /\ rows[i].agg = rows[j].agg
                                             /\ rows[i].start = rows[j].start) => i = j
=============================================================================
