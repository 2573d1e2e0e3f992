------------------------------ MODULE Backfill ------------------------------
(***************************************************************************)
(* The rollups of all databases as a graph: which jobs feed which          *)
(* database, what a trigger of a source derives, and the backfill that     *)
(* plans, resets and rebuilds a part of the graph, while other triggers    *)
(* and writers go on.  Source: internal/engine/rollup.go, engine.go.       *)
(*                                                                         *)
(* A row stands for a window of a metric: the name it was ingested under   *)
(* and the databases it went through.  A checkpoint is the set of the rows *)
(* a job has done.  A trigger is one step here, since it holds writeMu;    *)
(* Rollup has its inside, and what a reset may do in the middle of it.     *)
(***************************************************************************)
EXTENDS Manifests

VARIABLES
    rows,        \* of each database, flushed
    done,        \* the checkpoint log of each source: pairs of an expanded job and a row
    bf,          \* the backfill in progress
    counts,      \* starts of the engine, edits and backfills so far
    left         \* history: sources with rows a backfill removed and checkpoints it did not

vars == <<setting, up, settingVars, rows, done, bf, counts, left>>

NoBackfill == [pc |-> "none", queue |-> <<>>, seen |-> {}, sources |-> {}, dests |-> {},
               todo |-> <<>>, pass |-> 0, asked |-> {}, had |-> {}]

\* A setting has the manifests and the engine.toml there are, the metrics ingested, what an
\* operator may make of the files, the backfills asked for, and bounds on all of them.
Init ==
    /\ setting \in Settings
    /\ up = FALSE
    /\ config = setting.config /\ manifest = setting.manifest
    /\ defaults = BuiltIn
    /\ loaded = [d \in Database |-> Nothing] /\ ran = [d \in Database |-> Nothing]
    /\ rows = [d \in Database |-> {}] /\ done = [d \in Database |-> {}]
    /\ bf = NoBackfill
    /\ counts = [starts |-> 0, edits |-> 0, backfills |-> 0]
    /\ left = {}

InOrder(ds) == [k \in 1..Cardinality(ds) |->
                   CHOOSE d \in ds : Cardinality({x \in ds : x < d}) = k - 1]

-----------------------------------------------------------------------------
(* Triggering the jobs of a source.                                        *)

NameOf(row) == <<row.base, Len(row.path) - 1>>
Names(d)    == {NameOf(row) : row \in rows[d]}

\* rollupDestinationMetricName: the prefix is the name of the source, then the aggregate.
Derived(row, dst) == [row EXCEPT !.path = Append(@, dst)]

\* isRollupMetricExcluded
Excluded(name, info, job) == name \in info.exclude \cup job.except

\* expandRollupJobs: a job on a pattern becomes one for each metric there is.
Expand(info, names) ==
    {job \in info.jobs : job.src # AnyName}
    \cup UNION {{[job EXCEPT !.src = name, !.id = Append(@, name)] :
                    name \in {n \in names : ~Excluded(n, info, job)}} :
                 job \in {j \in info.jobs : j.src = AnyName}}

Runs(info) == info \notin {Nothing, Refused} /\ info.enabled /\ info.jobs # {}

\* The jobs a trigger of source s runs; it opens s if it has to.
JobsToRun(s) ==
    LET info == IF loaded[s] # Nothing THEN loaded[s] ELSE Load(s, defaults)
    IN IF Runs(info) THEN Expand(info, Names(s)) ELSE {}

\* groupRollupJobs: groups by destination and interval, the shortest interval first.
FirstIsLong(jobs, d) == \A job \in {j \in jobs : j.dst = d} : job.long

\* triggerRollupsForSourceLocked: the destinations are opened, the windows not done yet are
\* computed and flushed, then the checkpoints are appended.
TriggerRollups(s) ==
    LET jobs  == JobsToRun(s)
        dests == {job.dst : job \in jobs}
        def   == [d \in Database |-> IF d = s THEN defaults ELSE RollupDefaults(FirstIsLong(jobs, d))]
        opened(d) == loaded[d] # Nothing \/ Load(d, def[d]) # Refused
        due   == {p \in jobs \X rows[s] :
                     /\ NameOf(p[2]) = p[1].src /\ opened(p[1].dst)
                     /\ <<p[1].id, p[2]>> \notin done[s] /\ Len(p[2].path) <= MaxHops}
    IN
    /\ OpenAll({s} \cup dests, dests \ {s}, def)
    /\ rows' = [d \in Database |-> rows[d] \cup {Derived(p[2], d) : p \in {q \in due : q[1].dst = d}}]
    /\ done' = [done EXCEPT ![s] = @ \cup {<<p[1].id, p[2]>> : p \in due}]

\* A page of source s is flushed, or its day sealed.
Trigger(s) ==
    /\ up /\ loaded[s] # Nothing /\ rows[s] # {}
    /\ TriggerRollups(s)
    /\ UNCHANGED <<setting, up, config, defaults, bf, counts, left>>

\* The samples of one more window of a metric are stored and flushed.
Ingest(d) ==
    /\ up /\ loaded[d] # Nothing
    /\ \E base \in setting.ingested[d] :
           rows' = [rows EXCEPT ![d] = @ \cup {[base |-> base, path |-> <<d>>]}]
    /\ UNCHANGED <<setting, up, settingVars, done, bf, counts, left>>

-----------------------------------------------------------------------------
(* Backfill.                                                               *)

\* discoverRollupSourceCandidates: what is loaded and what has a directory.
Candidates == OnDisk \cup {d \in Database : loaded[d] # Nothing}

\* rollupInfoForDB
RollupInfo(d) == IF loaded[d] # Nothing THEN loaded[d] ELSE LoadExisting(d, defaults)

\* BackfillRollups begins; rollupBackfill admits one at a time.
BackfillRollups ==
    /\ up /\ bf.pc \in {"none", "done"} /\ counts.backfills < setting.backfills
    /\ \E asked \in setting.requests :
           bf' = [NoBackfill EXCEPT !.pc = "plan", !.asked = asked, !.had = UNION {rows[d] : d \in Database},
                      !.queue = InOrder(IF asked = {} THEN Candidates ELSE asked)]
    /\ counts' = [counts EXCEPT !.backfills = @ + 1]
    /\ UNCHANGED <<setting, up, settingVars, rows, done, left>>

\* planRollupBackfill: the next database of the queue; a source puts its destinations behind.
DirectOnly(queue, dsts) == Tail(queue)  \* faulty
Enqueue(queue, dsts) == Tail(queue) \o InOrder(dsts)
PlanNext ==
    LET d    == Head(bf.queue)
        info == RollupInfo(d)
        dsts == {job.dst : job \in info.jobs} IN
    /\ bf.pc = "plan" /\ bf.queue # <<>>
    /\ bf' = IF d \in bf.seen THEN [bf EXCEPT !.queue = Tail(@)]
             ELSE IF info = Refused THEN NoBackfill
             ELSE IF ~Runs(info) THEN [bf EXCEPT !.queue = Tail(@), !.seen = @ \cup {d}]
             ELSE [bf EXCEPT !.queue = Enqueue(@, dsts), !.seen = @ \cup {d},
                             !.sources = @ \cup {d}, !.dests = @ \cup dsts]
    /\ UNCHANGED <<setting, up, settingVars, rows, done, counts, left>>

Planned ==
    /\ bf.pc = "plan" /\ bf.queue = <<>>
    /\ bf' = IF bf.sources = {} THEN NoBackfill
             ELSE [bf EXCEPT !.pc = "reset", !.todo = InOrder(bf.dests)]
    /\ UNCHANGED <<setting, up, settingVars, rows, done, counts, left>>

\* resetRollupDestination: the runtime is dropped, the data files, WAL and catalog removed.
ResetDestination ==
    /\ bf.pc = "reset" /\ bf.todo # <<>>
    /\ loaded' = [loaded EXCEPT ![Head(bf.todo)] = Nothing]
    /\ rows' = [rows EXCEPT ![Head(bf.todo)] = {}]
    /\ left' = left \cup {s \in Database :
                            \E p \in done[s] : Derived(p[2], Head(bf.todo)) \in rows[Head(bf.todo)]}
    /\ bf' = IF Len(bf.todo) > 1 THEN [bf EXCEPT !.todo = Tail(@)]
             ELSE [bf EXCEPT !.pc = "clear", !.todo = InOrder(bf.sources)]
    /\ UNCHANGED <<setting, up, config, defaults, manifest, ran, done, counts>>

\* The checkpoint file of the next source is removed.
StaleCheckpoints(s) == done  \* faulty
WithoutCheckpoints(s) == [done EXCEPT ![s] = {}]
ClearCheckpoint ==
    /\ bf.pc = "clear"
    /\ done' = WithoutCheckpoints(Head(bf.todo)) /\ left' = left \ {Head(bf.todo)}
    /\ bf' = IF Len(bf.todo) > 1 THEN [bf EXCEPT !.todo = Tail(@)]
             ELSE [bf EXCEPT !.pc = "rebuild", !.todo = InOrder(bf.sources)]
    /\ UNCHANGED <<setting, up, settingVars, rows, counts>>

\* As many passes over the sources as there are sources.
OnePass(n) == 1  \* faulty
Passes(n) == n
Rebuild ==
    /\ bf.pc = "rebuild"
    /\ TriggerRollups(Head(bf.todo))
    /\ bf' = IF Len(bf.todo) > 1 THEN [bf EXCEPT !.todo = Tail(@)]
             ELSE IF bf.pass + 1 < Passes(Cardinality(bf.sources))
               THEN [bf EXCEPT !.todo = InOrder(bf.sources), !.pass = @ + 1]
               ELSE [bf EXCEPT !.pc = "done", !.todo = <<>>]
    /\ UNCHANGED <<setting, up, config, defaults, counts, left>>

-----------------------------------------------------------------------------
\* The engine, and the operator, around all this.
Start ==
    /\ counts.starts < setting.starts
    /\ OpenEngine
    /\ counts' = [counts EXCEPT !.starts = @ + 1]
    /\ UNCHANGED <<rows, done, bf, left>>

Access(d) == Open(d) /\ UNCHANGED <<rows, done, bf, counts, left>>

\* A setting may let the engine stop during a backfill.
Stop ==
    /\ up
    /\ bf.pc \in {"none", "done"} \/ setting.cut
    /\ StopEngine
    /\ bf' = NoBackfill
    /\ UNCHANGED <<rows, done, counts, left>>

Edit ==
    /\ counts.edits < setting.maxEdits
    /\ EditConfig \/ EditManifest
    /\ counts' = [counts EXCEPT !.edits = @ + 1]
    /\ UNCHANGED <<rows, done, bf, left>>

Next ==
    \/ Start \/ Stop \/ Edit
    \/ \E d \in Database : Access(d) \/ Ingest(d) \/ Trigger(d)
    \/ BackfillRollups \/ PlanNext \/ Planned \/ ResetDestination \/ ClearCheckpoint \/ Rebuild

Spec == Init /\ [][Next]_vars

-----------------------------------------------------------------------------
(* Lineage.                                                                *)

\* GetMetricRollupDownstream, level by level: the nodes first met after n rollups, the
\* nodes met so far, and the steps taken.  Only exact jobs of loaded databases are followed.
SameName(name) == name  \* faulty
DerivedName(name) == <<name[1], name[2] + 1>>
StepsFrom(nodes) ==
    UNION {{[from |-> node, job |-> job, to |-> [db |-> job.dst, name |-> DerivedName(node.name)]] :
               job \in {j \in loaded[node.db].jobs : j.src = node.name}} :
           node \in {x \in nodes : Runs(loaded[x.db])}}
Lineage(d, name) ==
    LET level[n \in 0..MaxHops] ==
            IF n = 0 THEN [front |-> {[db |-> d, name |-> name]}, met |-> {[db |-> d, name |-> name]},
                           steps |-> {}]
            ELSE LET taken == StepsFrom(level[n - 1].front)
                     new   == {t.to : t \in taken} \ level[n - 1].met
                 IN [front |-> new, met |-> level[n - 1].met \cup new,
                     steps |-> level[n - 1].steps \cup
                               {[hop |-> n, id |-> t.job.id, db |-> t.to.db, name |-> t.to.name] : t \in taken}]
    IN level[MaxHops].steps

-----------------------------------------------------------------------------
(* Properties.                                                             *)

\* A job between two databases, expanded.
Feeds(s, d) == Runs(RollupInfo(s)) /\ \E job \in RollupInfo(s).jobs : job.dst = d

Reach(asked) ==
    LET near[n \in 0..Cardinality(Database)] ==
            IF n = 0 THEN asked
            ELSE near[n - 1] \cup {d \in Database : \E s \in near[n - 1] : Feeds(s, d)}
    IN near[Cardinality(Database)]

\* A backfill resets the databases that rollups of the databases asked for reach, directly
\* or through others, and clears the checkpoints of every one of these that has jobs; jobs
\* that feed each other in a circle do not keep it from ending.  Databases created beside
\* the plan are not in it, so [manifest_defaults] must not give them jobs.
PlanIsClosed ==
    bf.pc = "reset" /\ bf.todo = InOrder(bf.dests) /\ ~Runs(defaults)
    => LET all == Reach(IF bf.asked = {} THEN bf.seen ELSE bf.asked) IN
       /\ bf.seen = all
       /\ bf.sources = {s \in all : Runs(RollupInfo(s))}
       /\ bf.dests = {d \in Database : \E s \in all : Feeds(s, d)}

\* internal/engine/rollup.go:105: a checkpoint does not say a window is done that is not in
\* the data file of the destination.  The exceptions are sources left by a backfill that
\* removed their rows and has not come to their checkpoints: it goes on, or was stopped, or
\* never meant to, being asked for another source of that destination.  A backfill that
\* ends leaves none of its own.
DoneRowsExist ==
    /\ \A s \in Database \ left : \A p \in done[s] : \E d \in Database : Derived(p[2], d) \in rows[d]
    /\ bf.pc = "done" => left \cap bf.sources = {}

\* No database feeds itself, directly or through others.
Acyclic == \A s \in Database : s \notin Reach({d \in Database : Feeds(s, d)})

\* A row follows from what there was when the backfill began in the k-th database of its
\* path, which is not reset, by the jobs there are of sources of the backfill.
FollowsFrom(row, k) ==
    /\ row.path[k] \notin bf.dests /\ [row EXCEPT !.path = SubSeq(@, 1, k)] \in bf.had
    /\ \A i \in k..Len(row.path) : row.path[i] \in bf.sources
    /\ \A i \in k..(Len(row.path) - 1) : Feeds(row.path[i], row.path[i + 1])
Follows(row) == \E k \in 1..Len(row.path) : FollowsFrom(row, k)

\* A backfill derives again everything that follows from what there was when it began, in
\* whatever order the names put the databases, when no database feeds itself: there is
\* nothing of this that another trigger would add.
RebuiltWhole ==
    bf.pc = "done" /\ Acyclic =>
        \A s \in bf.sources : \A job \in JobsToRun(s) : \A row \in rows[s] :
            NameOf(row) = job.src /\ Follows(row)
            => Len(row.path) > MaxHops \/ Derived(row, job.dst) \in rows[job.dst]

\* The lineage of a metric names every database a row of it went to through jobs on its
\* very name, while the databases on the way are loaded.
LineageCoversRows ==
    \A d \in Database : \A row \in rows[d] :
        LET start == row.path[1]
            hops  == Len(row.path) - 1
            way(k) == row.path[k] IN
        /\ hops > 0
        /\ \A k \in 1..hops :
               /\ loaded[way(k)] # Nothing
               /\ \E job \in loaded[way(k)].jobs : job.src = <<row.base, k - 1>> /\ job.dst = way(k + 1)
        => \E step \in Lineage(start, <<row.base, 0>>) : step.db = d /\ step.name = NameOf(row)
=============================================================================
