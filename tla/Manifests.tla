----------------------------- MODULE Manifests -----------------------------
(***************************************************************************)
(* Where the settings of a database come from: engine.toml, whose          *)
(* [manifest_defaults] a new database takes over, and the manifest.toml of *)
(* each database, read when the database is opened and written when it is  *)
(* created, or opened as the destination of a rollup.                      *)
(* Source: internal/engine/engine.go.                                      *)
(*                                                                         *)
(* Of the settings these are kept apart: wal.enabled, which a manifest     *)
(* that does not name it switches off; retention.partition, which stands   *)
(* for every setting a blank takes from the defaults and normalising       *)
(* writes back; retention.retention_action, which an existing manifest     *)
(* must name; rollups.global_exclude_patterns, which stands for the        *)
(* settings that may stay blank for good; rollups.default_destination_db;  *)
(* and the jobs.                                                           *)
(***************************************************************************)
EXTENDS Naturals, FiniteSets, SequencesExt

CONSTANTS
    Database,    \* numbers: the order of the names
    Base,        \* names of the metrics that are ingested
    MaxHops,     \* rollups a row may be from the sample it comes from
    Settings     \* what a run starts from, and its bounds: see Init of Backfill

None     == 0
Blank    == "blank"
Unknown  == "unknown"   \* a value that is not one of those allowed
AnyName  == <<"*">>
Nothing  == [absent |-> "nothing"]  \* no file, no runtime
Refused  == [absent |-> "refused"]  \* a manifest that is not accepted

\* A metric by the name it was ingested under and the aggregations behind it.
Name == Base \X (0..MaxHops)

Partition == {"day", "month", "year", "forever"}
Action    == {"keep", "delete", "archive"}

\* DBManifestRollupJob and DBManifestTOML, as a file may have them.
Job == [id : Seq(Nat \cup Name), src : Name \cup {AnyName}, except : SUBSET Name,
        dst : Database \cup {None}, long : BOOLEAN]
Manifest == [wal : BOOLEAN, partition : Partition \cup {Blank, Unknown},
             action : Action \cup {Blank, Unknown}, exclude : SUBSET Name,
             dest : Database \cup {None}, enabled : BOOLEAN, jobs : SUBSET Job]

ASSUME DatabasesAreNames ==
    Database \subseteq Nat \ {None} /\ IsFiniteSet(Database) /\ MaxHops \in Nat

ASSUME SettingsAreFiles ==
    \A s \in Settings :
        /\ s.configs \cup {s.config} \subseteq Manifest \cup {Nothing}
        /\ s.manifest \in [Database -> Manifest \cup {Nothing}]
        /\ \A edit \in s.edits : edit.db \in Database /\ edit.manifest \in Manifest
        /\ s.requests \subseteq SUBSET Database /\ s.ingested \in [Database -> SUBSET Base]

VARIABLES
    setting,     \* the element of Settings this run started from
    up,          \* the engine is open
    config,      \* [manifest_defaults] of engine.toml, or Nothing
    defaults,    \* Engine.dbDefaults
    manifest,    \* manifest.toml of each database, or Nothing
    loaded,      \* dbRuntime.info of each database, or Nothing
    ran          \* history: what a database last ran with since the engine wrote its
                 \* manifest, Nothing once an operator edits it

settingVars == <<config, manifest, defaults, loaded, ran>>

-----------------------------------------------------------------------------
(* Reading and writing.                                                    *)

\* defaultDBInfo
BuiltIn == [wal |-> TRUE, partition |-> "day", action |-> "keep", exclude |-> {},
            dest |-> None, enabled |-> FALSE, jobs |-> {}]

\* normalizeDBInfo, first part: what is blank is taken from the defaults.
FillDefaults(info, def) ==
    [info EXCEPT !.partition = IF @ = Blank THEN def.partition ELSE @,
                 !.action    = IF @ = Blank THEN def.action ELSE @,
                 !.exclude   = IF @ = {} THEN def.exclude ELSE @,
                 !.dest      = IF @ = None THEN def.dest ELSE @]

\* Second part: the values, and what no combination may be.
Valid(info) ==
    /\ info.partition \in Partition /\ info.action \in Action
    /\ ~(info.partition = "forever" /\ info.action = "archive")

\* Third part: the jobs are dropped while rollups are off; one without a destination takes
\* the default, which must then be there.
NormalizeJobs(info) ==
    IF ~info.enabled THEN [info EXCEPT !.jobs = {}]
    ELSE [info EXCEPT !.jobs = {[job EXCEPT !.dst = IF @ = None THEN info.dest ELSE @] : job \in @}]
JobsValid(info) == \A job \in info.jobs : job.dst # None

Normalize(info, def) ==
    LET filled == FillDefaults(info, def)
        jobs   == NormalizeJobs(filled)
    IN IF Valid(filled) /\ JobsValid(jobs) THEN jobs ELSE Nothing

\* loadExistingDBInfo
LoadExisting(d, def) ==
    IF manifest[d] = Nothing THEN Nothing
    ELSE IF manifest[d].action = Blank \/ Normalize(manifest[d], def) = Nothing THEN Refused
    ELSE Normalize(manifest[d], def)

\* defaultRollupDestinationDBInfo, of a job whose interval is a day or longer, or shorter.
RollupDefaults(long) ==
    [defaults EXCEPT !.wal = FALSE, !.enabled = FALSE, !.jobs = {},
                     !.partition = IF long THEN "year" ELSE "month"]

\* loadOrCreateDBInfoWithOptions: what the database runs with, or Refused.
Load(d, def) ==
    IF LoadExisting(d, def) # Nothing THEN LoadExisting(d, def)
    ELSE IF Normalize(def, def) = Nothing THEN Refused ELSE Normalize(def, def)

\* writeDBInfoTOML when the manifest was not there, writeRollupDBInfoTOML in any case.
FromDefaults(info, def) == def  \* faulty
Written(info, def) == info
Writes(d, asDestination) == manifest[d] = Nothing \/ asDestination

\* engineConfigManifestDefaultsFromInfo, of defaultEngineConfig and the engine.toml built in.
DefaultConfig == BuiltIn

\* dbInfoDefaultsFromEngineConfig
Defaults(cfg) == Normalize(cfg, BuiltIn)

\* normalizeEngineConfig: a setting of engine.toml that is not accepted stands for all of them.
Accepted(cfg) == Defaults(cfg) # Nothing

\* loadOrCreateEngineConfig: the file there is, or the one that is written.
EngineToml == IF config = Nothing THEN DefaultConfig ELSE config

\* discoverDatabaseNames: the databases with a directory.
OnDisk == {d \in Database : manifest[d] # Nothing}

-----------------------------------------------------------------------------
(* Actions.                                                                *)

\* getOrCreateDBWithDefaults of every database of ds that is not loaded, each with the
\* defaults Def gives it; those of dests as the destination of a rollup.
OpenAll(ds, dests, def) ==
    LET opens  == {d \in ds : loaded[d] = Nothing /\ Load(d, def[d]) # Refused}
        writes == {d \in opens : Writes(d, d \in dests)}
    IN
    /\ loaded' = [d \in Database |-> IF d \in opens THEN Load(d, def[d]) ELSE loaded[d]]
    /\ manifest' = [d \in Database |->
           IF d \in writes THEN Written(Load(d, def[d]), def[d]) ELSE manifest[d]]
    /\ ran' = [d \in Database |->
           IF d \in writes \/ (d \in opens /\ ran[d] # Nothing) THEN Load(d, def[d]) ELSE ran[d]]

\* OpenEngine: engine.toml is read, or written with the defaults.
OpenEngine ==
    /\ ~up
    /\ Accepted(EngineToml)
    /\ up' = TRUE /\ config' = EngineToml /\ defaults' = Defaults(EngineToml)
    /\ UNCHANGED <<setting, manifest, loaded, ran>>

\* getOrCreateDB, for a sample or a query.
Open(d) ==
    /\ up /\ loaded[d] = Nothing
    /\ OpenAll({d}, {}, [x \in Database |-> defaults])
    /\ UNCHANGED <<setting, up, config, defaults>>

\* Close, or a crash: the manifests stay.
StopEngine ==
    /\ up' = FALSE
    /\ defaults' = BuiltIn
    /\ loaded' = [d \in Database |-> Nothing]
    /\ UNCHANGED <<setting, config, manifest, ran>>

\* An operator edits a file while the engine is stopped.
EditConfig ==
    /\ ~up
    /\ \E cfg \in setting.configs : config # cfg /\ config' = cfg
    /\ UNCHANGED <<setting, up, defaults, manifest, loaded, ran>>

EditManifest ==
    /\ ~up
    /\ \E edit \in setting.edits :
           /\ manifest[edit.db] # edit.manifest
           /\ manifest' = [manifest EXCEPT ![edit.db] = edit.manifest]
           /\ ran' = [ran EXCEPT ![edit.db] = Nothing]
    /\ UNCHANGED <<setting, up, config, defaults, loaded>>

-----------------------------------------------------------------------------
(* Properties.                                                             *)

\* docs/DESIGN.md:635: [manifest_defaults] applies when a database is created.  A database
\* whose manifest the engine wrote opens with the storage settings it ran with before,
\* whatever has become of engine.toml, and whether a sample, a query or a rollup opens it:
\* a change of partition would leave its old files outside every query.
StorageKept ==
    [][\A d \in Database :
           loaded[d] = Nothing /\ loaded'[d] # Nothing /\ ran[d] # Nothing
           => /\ loaded'[d].partition = ran[d].partition
              /\ loaded'[d].wal = ran[d].wal
              /\ loaded'[d].action = ran[d].action
              /\ loaded'[d].jobs = ran[d].jobs]_<<loaded, ran>>
=============================================================================
