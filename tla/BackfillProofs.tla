--------------------------- MODULE BackfillProofs ---------------------------
(***************************************************************************)
(* Proofs, for any set of databases, any engine.toml and manifests and any *)
(* edits of them: a database keeps its storage settings, since reading     *)
(* again what the engine wrote gives what it ran with; a backfill plans    *)
(* the databases rollups reach, whatever is opened beside it; the lineage  *)
(* of a metric names every database its rows went to; a checkpoint says    *)
(* nothing is done that is not; and a backfill derives everything again.   *)
(***************************************************************************)
EXTENDS Backfill, FiniteSetTheorems, WellFoundedInduction, TLAPS

(***************************************************************************)
(* Numbers and recursive functions.                                        *)
(***************************************************************************)
LEMMA Smallest ==
    ASSUME NEW T, T \subseteq Nat, T # {}
    PROVE  \E m \in T : \A k \in T : m <= k
<1>1. PICK m \in T : \A k \in T : <<k, m>> \notin OpToRel(<, Nat)
  BY WFMin, NatLessThanWellFounded, Zenon
<1>2. \A k \in T : ~(k < m)
  BY <1>1, Zenon DEF OpToRel
<1> QED
  BY <1>2

\* A function given by what it is at 0 and how it goes on.
Recursive(t, n, S, init, step) ==
    /\ t \in [0..n -> S]
    /\ \A k \in 0..n : t[k] = IF k = 0 THEN init ELSE step[k][t[k - 1]]

LEMMA Recursion ==
    ASSUME NEW n \in Nat, NEW S, NEW init \in S, NEW step \in [1..n -> [S -> S]]
    PROVE  \E t : Recursive(t, n, S, init, step)
<1> DEFINE Ok(t, m) == \A k \in 0..m : t[k] = IF k = 0 THEN init ELSE step[k][t[k - 1]]
           bad == {m \in 0..n : ~\E t \in [0..m -> S] : Ok(t, m)}
<1>1. SUFFICES ASSUME bad # {} PROVE FALSE
  <2>1. ASSUME bad = {} PROVE \E t : Recursive(t, n, S, init, step)
    <3>1. n \in 0..n
      OBVIOUS
    <3>2. \E t \in [0..n -> S] : Ok(t, n)
      BY <2>1, <3>1
    <3> QED
      BY <3>2 DEF Recursive
  <2> QED
    BY <2>1
<1>2. bad \subseteq Nat
  OBVIOUS
<1> HIDE DEF bad
<1>3. PICK m \in bad : \A k \in bad : m <= k
  BY <1>1, <1>2, Smallest
<1> USE DEF bad
<1>4. m # 0
  <2>1. [k \in 0..0 |-> init] \in [0..0 -> S] /\ Ok([k \in 0..0 |-> init], 0)
    OBVIOUS
  <2>2. 0 \notin bad
    BY <2>1
  <2> QED
    BY <1>3, <2>2
<1>5. m \in 1..n /\ m - 1 \in 0..n /\ m - 1 \notin bad
  <2>1. m \in 0..n
    BY <1>3
  <2> HIDE DEF bad
  <2> QED
    BY <1>3, <1>4, <2>1
<1>6. PICK t \in [0..(m - 1) -> S] : Ok(t, m - 1)
  BY <1>5
<1> DEFINE u == [k \in 0..m |-> IF k < m THEN t[k] ELSE step[m][t[m - 1]]]
<1>7. t[m - 1] \in S /\ step[m] \in [S -> S]
  BY <1>5
<1>8. step[m][t[m - 1]] \in S
  BY <1>7
<1>9. u \in [0..m -> S]
  <2>1. \A k \in 0..m : k < m => k \in 0..(m - 1)
    BY <1>5
  <2> QED
    BY <1>8, <2>1
<1>10. u[m] = step[m][t[m - 1]] /\ \A k \in 0..(m - 1) : u[k] = t[k]
  BY <1>5
<1> HIDE DEF u
<1>11. Ok(u, m)
  <2> SUFFICES ASSUME NEW k \in 0..m
               PROVE  u[k] = IF k = 0 THEN init ELSE step[k][u[k - 1]]
    OBVIOUS
  <2>1. CASE k = m
    <3>1. u[m - 1] = t[m - 1]
      BY <1>5, <1>10
    <3> QED
      BY <1>4, <1>10, <2>1, <3>1
  <2>2. CASE k # m
    <3>1. k \in 0..(m - 1) /\ (k # 0 => k - 1 \in 0..(m - 1))
      BY <1>5, <2>2
    <3>2. t[k] = IF k = 0 THEN init ELSE step[k][t[k - 1]]
      BY <1>6, <3>1
    <3> QED
      BY <1>10, <3>1, <3>2
  <2> QED
    BY <2>1, <2>2
<1> QED
  BY <1>3, <1>9, <1>11

LEMMA Induct ==
    ASSUME NEW n \in Nat, NEW T, 0 \in T, \A k \in T : k \in 0..n /\ k < n => k + 1 \in T
    PROVE  \A k \in 0..n : k \in T
<1> DEFINE bad == {k \in 0..n : k \notin T}
<1>1. SUFFICES ASSUME bad # {} PROVE FALSE
  OBVIOUS
<1>2. bad \subseteq Nat
  OBVIOUS
<1> HIDE DEF bad
<1>3. PICK m \in bad : \A k \in bad : m <= k
  BY <1>1, <1>2, Smallest
<1> USE DEF bad
<1>4. m \in 0..n /\ m # 0 /\ m \notin T
  BY <1>3
<1>5. m - 1 \in 0..n /\ m - 1 < n /\ (m - 1) + 1 = m /\ ~(m <= m - 1)
  BY <1>4
<1>6. m - 1 \in T
  BY <1>3, <1>5
<1> QED
  BY <1>4, <1>5, <1>6

LEMMA Climbs ==
    ASSUME NEW n \in Nat, NEW s, \A i \in 1..n : s[i - 1] \subseteq s[i]
    PROVE  \A j \in 0..n : \A i \in 0..j : s[i] \subseteq s[j]
<1> DEFINE T == {j \in 0..n : \A i \in 0..j : s[i] \subseteq s[j]}
<1>1. 0 \in T
  OBVIOUS
<1>2. ASSUME NEW k \in T, k \in 0..n, k < n PROVE k + 1 \in T
  <2>1. k + 1 \in 1..n /\ k + 1 \in 0..n /\ (k + 1) - 1 = k
    BY <1>2
  <2>2. s[k] \subseteq s[k + 1]
    BY <2>1
  <2>3. \A i \in 0..(k + 1) : i = k + 1 \/ i \in 0..k
    BY <1>2
  <2> QED
    BY <2>1, <2>2, <2>3
<1> HIDE DEF T
<1>3. \A j \in 0..n : j \in T
  BY <1>1, <1>2, Induct
<1> QED
  BY <1>3 DEF T

Absent == {Nothing, Refused}

\* What normalizeDBInfo leaves of a manifest.
Normal(info) ==
    /\ Valid(info)
    /\ ~info.enabled => info.jobs = {}
    /\ JobsValid(info)

\* The settings that StorageKept is about, and rollups.enabled, which the jobs depend on.
SameStorage(a, b) ==
    /\ a.partition = b.partition /\ a.wal = b.wal /\ a.action = b.action
    /\ a.enabled = b.enabled /\ a.jobs = b.jobs

FilesOK ==
    /\ setting \in Settings
    /\ config \in Manifest \cup {Nothing} /\ defaults \in Manifest
    /\ manifest \in [Database -> Manifest \cup {Nothing}]
    /\ loaded \in [Database -> Manifest \cup {Nothing}]
    /\ ran \in [Database -> Manifest \cup {Nothing}]

\* What a database last ran with is what its manifest says.
RanOK == \A d \in Database : ran[d] # Nothing =>
             Normal(ran[d]) /\ manifest[d] # Nothing /\ SameStorage(manifest[d], ran[d])

IInv == FilesOK /\ RanOK

(***************************************************************************)
(* Manifests.                                                              *)
(***************************************************************************)

USE SettingsAreFiles

LEMMA PresentOrAbsent == Nothing # Refused /\ Nothing \notin Manifest /\ Refused \notin Manifest
<1>1. \A m \in Manifest : "wal" \in DOMAIN m
  BY DEF Manifest
<1>2. "wal" \notin DOMAIN Nothing /\ "wal" \notin DOMAIN Refused
  BY DEF Nothing, Refused
<1> QED
  BY <1>1, <1>2 DEF Nothing, Refused

LEMMA BuiltInOK == BuiltIn \in Manifest
<1>1. {} \in SUBSET Name /\ {} \in SUBSET Job /\ None \in Database \cup {None}
  OBVIOUS
<1> QED
  BY <1>1 DEF BuiltIn, Manifest, Partition, Action

LEMMA FilledOK ==
    ASSUME NEW info \in Manifest, NEW def \in Manifest
    PROVE  /\ FillDefaults(info, def) \in Manifest
           /\ FillDefaults(info, def).wal = info.wal
           /\ FillDefaults(info, def).enabled = info.enabled
           /\ FillDefaults(info, def).jobs = info.jobs
           /\ info.partition # Blank => FillDefaults(info, def).partition = info.partition
           /\ info.action # Blank => FillDefaults(info, def).action = info.action
<1> DEFINE partition == IF info.partition = Blank THEN def.partition ELSE info.partition
           action    == IF info.action = Blank THEN def.action ELSE info.action
           exclude   == IF info.exclude = {} THEN def.exclude ELSE info.exclude
           dest      == IF info.dest = None THEN def.dest ELSE info.dest
           filled    == [info EXCEPT !.partition = partition, !.action = action,
                                     !.exclude = exclude, !.dest = dest]
<1>1. FillDefaults(info, def) = filled
  BY DEF FillDefaults
<1>2. /\ partition \in Partition \cup {Blank, Unknown}
      /\ action \in Action \cup {Blank, Unknown}
      /\ exclude \in SUBSET Name /\ dest \in Database \cup {None}
  BY DEF Manifest
<1>3. /\ info.partition # Blank => partition = info.partition
      /\ info.action # Blank => action = info.action
  OBVIOUS
<1> HIDE DEF partition, action, exclude, dest
<1>4. filled \in Manifest
  BY <1>2 DEF Manifest
<1>5. /\ filled.wal = info.wal /\ filled.enabled = info.enabled /\ filled.jobs = info.jobs
      /\ filled.partition = partition /\ filled.action = action
  BY DEF Manifest
<1> HIDE DEF filled
<1> QED
  BY <1>1, <1>3, <1>4, <1>5

LEMMA JobsOK ==
    ASSUME NEW info \in Manifest
    PROVE  /\ NormalizeJobs(info) \in Manifest
           /\ NormalizeJobs(info).wal = info.wal /\ NormalizeJobs(info).enabled = info.enabled
           /\ NormalizeJobs(info).partition = info.partition
           /\ NormalizeJobs(info).action = info.action
           /\ ~info.enabled => NormalizeJobs(info).jobs = {}
           /\ info.enabled /\ JobsValid(info) => NormalizeJobs(info).jobs = info.jobs
<1> DEFINE filled(job) == [job EXCEPT !.dst = IF @ = None THEN info.dest ELSE @]
<1>1. \A job \in info.jobs : filled(job) \in Job /\ (job.dst # None => filled(job) = job)
  BY DEF Manifest, Job
<1>2. CASE ~info.enabled
  BY <1>2 DEF NormalizeJobs, Manifest
<1>3. CASE info.enabled
  <2>1. {filled(job) : job \in info.jobs} \in SUBSET Job
    BY <1>1
  <2>2. NormalizeJobs(info) = [info EXCEPT !.jobs = {filled(job) : job \in info.jobs}]
    BY <1>3 DEF NormalizeJobs, Manifest
  <2>3. ASSUME JobsValid(info) PROVE {filled(job) : job \in info.jobs} = info.jobs
    <3>1. \A job \in info.jobs : filled(job) = job
      BY <1>1, <2>3 DEF JobsValid
    <3> HIDE DEF filled
    <3> QED
      BY <3>1
  <2> QED
    BY <1>3, <2>1, <2>2, <2>3 DEF Manifest
<1> QED
  BY <1>2, <1>3

LEMMA NormalizeOK ==
    ASSUME NEW info \in Manifest, NEW def \in Manifest, Normalize(info, def) # Nothing
    PROVE  Normalize(info, def) \in Manifest /\ Normal(Normalize(info, def))
<1> DEFINE filled == FillDefaults(info, def)
<1>1. filled \in Manifest
  BY FilledOK
<1>2. Normalize(info, def) = NormalizeJobs(filled) /\ Valid(filled) /\ JobsValid(NormalizeJobs(filled))
  BY DEF Normalize
<1> QED
  BY <1>1, <1>2, JobsOK DEF Normal, Valid

\* A manifest that is normal already keeps its storage settings, whatever the defaults.
LEMMA NormalizeKeeps ==
    ASSUME NEW info \in Manifest, NEW def \in Manifest, Normal(info)
    PROVE  Normalize(info, def) \in Manifest /\ SameStorage(Normalize(info, def), info)
<1> DEFINE filled == FillDefaults(info, def)
<1>1. info.partition # Blank /\ info.action # Blank
  BY DEF Normal, Valid, Partition, Action, Blank
<1>2. /\ filled \in Manifest /\ SameStorage(filled, info)
  BY <1>1, FilledOK DEF SameStorage
<1>3. Valid(filled) /\ JobsValid(filled)
  BY <1>2 DEF Normal, Valid, JobsValid, SameStorage
<1>4. NormalizeJobs(filled) \in Manifest /\ SameStorage(NormalizeJobs(filled), info)
  BY <1>2, <1>3, JobsOK DEF SameStorage, Normal
<1>5. JobsValid(NormalizeJobs(filled))
  BY <1>4 DEF SameStorage, Normal, JobsValid
<1> QED
  BY <1>3, <1>4, <1>5 DEF Normalize

LEMMA LoadOK ==
    ASSUME IInv, NEW d \in Database, NEW def \in Manifest, Load(d, def) # Refused
    PROVE  Load(d, def) \in Manifest /\ Normal(Load(d, def))
BY NormalizeOK, PresentOrAbsent DEF IInv, FilesOK, Load, LoadExisting

\* A manifest that a database ran with loads again, with the same storage settings.
LEMMA LoadKeeps ==
    ASSUME IInv, NEW d \in Database, NEW def \in Manifest, ran[d] # Nothing
    PROVE  SameStorage(Load(d, def), manifest[d])
<1>1. manifest[d] \in Manifest /\ Normal(manifest[d]) /\ manifest[d].action # Blank
  BY DEF IInv, FilesOK, RanOK, Normal, SameStorage, Valid, JobsValid, Action, Blank
<1>2. /\ Normalize(manifest[d], def) \in Manifest
      /\ SameStorage(Normalize(manifest[d], def), manifest[d])
  BY <1>1, NormalizeKeeps
<1>3. Load(d, def) = Normalize(manifest[d], def)
  BY <1>1, <1>2, PresentOrAbsent DEF Load, LoadExisting
<1> QED
  BY <1>2, <1>3

(***************************************************************************)
(* The steps.                                                              *)
(***************************************************************************)

LEMMA InitOK == Init => IInv
BY BuiltInOK DEF Init, IInv, FilesOK, RanOK

\* StorageKept, of one step.
Keeps == \A d \in Database :
             loaded[d] = Nothing /\ loaded'[d] # Nothing /\ ran[d] # Nothing
             => /\ loaded'[d].partition = ran[d].partition
                /\ loaded'[d].wal = ran[d].wal
                /\ loaded'[d].action = ran[d].action
                /\ loaded'[d].jobs = ran[d].jobs

LEMMA OpenAllOK ==
    ASSUME IInv, NEW ds, NEW dests, NEW def \in [Database -> Manifest], OpenAll(ds, dests, def),
           UNCHANGED <<setting, config, defaults>>
    PROVE  IInv' /\ Keeps
<1> DEFINE opens  == {d \in ds : loaded[d] = Nothing /\ Load(d, def[d]) # Refused}
           writes == {d \in opens : Writes(d, d \in dests)}
<1>1. /\ loaded' = [d \in Database |-> IF d \in opens THEN Load(d, def[d]) ELSE loaded[d]]
      /\ manifest' = [d \in Database |->
             IF d \in writes THEN Load(d, def[d]) ELSE manifest[d]]
      /\ ran' = [d \in Database |->
             IF d \in writes \/ (d \in opens /\ ran[d] # Nothing) THEN Load(d, def[d]) ELSE ran[d]]
  BY DEF OpenAll, Written
<1>2. \A d \in Database : d \in opens => Load(d, def[d]) \in Manifest /\ Normal(Load(d, def[d]))
  BY LoadOK
<1>3. \A d \in Database : ran[d] # Nothing => SameStorage(Load(d, def[d]), manifest[d])
  BY LoadKeeps
<1> HIDE DEF opens, writes
<1>4. FilesOK'
  BY <1>1, <1>2 DEF IInv, FilesOK, writes
<1>5. RanOK'
  <2> SUFFICES ASSUME NEW d \in Database, ran'[d] # Nothing
               PROVE  Normal(ran'[d]) /\ manifest'[d] # Nothing
                        /\ SameStorage(manifest'[d], ran'[d])
    BY DEF RanOK
  <2>1. CASE d \in writes
    BY <1>1, <1>2, <2>1, PresentOrAbsent DEF writes, SameStorage
  <2>2. CASE d \notin writes /\ d \in opens
    BY <1>1, <1>2, <1>3, <2>2 DEF IInv, RanOK, SameStorage
  <2>3. CASE d \notin writes /\ d \notin opens
    BY <1>1, <2>3 DEF IInv, RanOK
  <2> QED
    BY <2>1, <2>2, <2>3
<1>6. Keeps
  BY <1>1, <1>3 DEF IInv, RanOK, Keeps, SameStorage
<1> QED
  BY <1>4, <1>5, <1>6 DEF IInv

LEMMA TriggerOK ==
    ASSUME IInv, NEW s, TriggerRollups(s), UNCHANGED <<setting, config, defaults>>
    PROVE  IInv' /\ Keeps
<1> DEFINE jobs  == JobsToRun(s)
           dests == {job.dst : job \in jobs}
           def   == [d \in Database |-> IF d = s THEN defaults ELSE RollupDefaults(FirstIsLong(jobs, d))]
<1>1. OpenAll({s} \cup dests, dests \ {s}, def)
  BY DEF TriggerRollups
<1>2. \A long : RollupDefaults(long) \in Manifest
  BY DEF IInv, FilesOK, RollupDefaults, Manifest, Partition
<1>3. def \in [Database -> Manifest]
  BY <1>2 DEF IInv, FilesOK
<1> QED
  BY <1>1, <1>3, OpenAllOK

\* The steps that leave the settings of every database alone.
LEMMA SettledOK ==
    ASSUME IInv, UNCHANGED <<setting, settingVars>>
    PROVE  IInv' /\ Keeps
BY DEF IInv, FilesOK, RanOK, Keeps, settingVars

LEMMA StartOK ==
    ASSUME IInv, OpenEngine
    PROVE  IInv' /\ Keeps
<1>1. EngineToml \in Manifest
  BY BuiltInOK DEF IInv, FilesOK, EngineToml, DefaultConfig
<1>2. Defaults(EngineToml) \in Manifest
  BY <1>1, BuiltInOK, NormalizeOK DEF OpenEngine, Accepted, Defaults
<1>3. /\ config' \in Manifest /\ defaults' \in Manifest
      /\ UNCHANGED <<setting, manifest, loaded, ran>>
  BY <1>1, <1>2 DEF OpenEngine
<1> QED
  BY <1>3 DEF IInv, FilesOK, RanOK, Keeps

LEMMA StopOK ==
    ASSUME IInv, StopEngine
    PROVE  IInv' /\ Keeps
BY BuiltInOK DEF StopEngine, IInv, FilesOK, RanOK, Keeps

LEMMA EditConfigOK ==
    ASSUME IInv, EditConfig
    PROVE  IInv' /\ Keeps
BY DEF EditConfig, IInv, FilesOK, RanOK, Keeps

LEMMA EditManifestOK ==
    ASSUME IInv, EditManifest
    PROVE  IInv' /\ Keeps
<1>1. PICK edit \in setting.edits :
          /\ manifest' = [manifest EXCEPT ![edit.db] = edit.manifest]
          /\ ran' = [ran EXCEPT ![edit.db] = Nothing]
          /\ UNCHANGED <<setting, config, defaults, loaded>>
  BY DEF EditManifest
<1>2. edit.db \in Database /\ edit.manifest \in Manifest
  BY DEF IInv, FilesOK
<1>3. FilesOK'
  BY <1>1, <1>2 DEF IInv, FilesOK
<1>4. RanOK'
  BY <1>1, <1>2 DEF IInv, FilesOK, RanOK
<1> QED
  BY <1>1, <1>3, <1>4 DEF IInv, Keeps

LEMMA AccessOK ==
    ASSUME IInv, NEW d, Open(d)
    PROVE  IInv' /\ Keeps
<1>1. [x \in Database |-> defaults] \in [Database -> Manifest]
  BY DEF IInv, FilesOK
<1> QED
  BY <1>1, OpenAllOK DEF Open

LEMMA ResetOK ==
    ASSUME IInv, ResetDestination
    PROVE  IInv' /\ Keeps
BY DEF ResetDestination, IInv, FilesOK, RanOK, Keeps

LEMMA NextOK ==
    ASSUME IInv, [Next]_vars
    PROVE  IInv' /\ Keeps
<1>1. CASE Start
  BY <1>1, StartOK DEF Start
<1>2. CASE Stop
  BY <1>2, StopOK DEF Stop
<1>3. CASE Edit
  BY <1>3, EditConfigOK, EditManifestOK DEF Edit
<1>4. ASSUME NEW d \in Database, Access(d) PROVE IInv' /\ Keeps
  BY <1>4, AccessOK DEF Access
<1>5. ASSUME NEW d \in Database, Ingest(d) PROVE IInv' /\ Keeps
  BY <1>5, SettledOK DEF Ingest
<1>6. ASSUME NEW d \in Database, Trigger(d) PROVE IInv' /\ Keeps
  BY <1>6, TriggerOK DEF Trigger
<1>7. CASE BackfillRollups
  BY <1>7, SettledOK DEF BackfillRollups
<1>8. CASE PlanNext
  BY <1>8, SettledOK DEF PlanNext
<1>9. CASE Planned
  BY <1>9, SettledOK DEF Planned
<1>10. CASE ResetDestination
  BY <1>10, ResetOK
<1>11. CASE ClearCheckpoint
  BY <1>11, SettledOK DEF ClearCheckpoint
<1>12. CASE Rebuild
  BY <1>12, TriggerOK DEF Rebuild
<1>13. CASE UNCHANGED vars
  BY <1>13, SettledOK DEF vars
<1> QED
  BY <1>1, <1>2, <1>3, <1>4, <1>5, <1>6, <1>7, <1>8, <1>9, <1>10, <1>11, <1>12, <1>13 DEF Next

\* Files are manifests or absent, and what a database last ran with is what its manifest
\* says, so that loadOrCreateDBInfo gives it again.
THEOREM Invariance == Spec => []IInv
<1>1. Init => IInv
  BY InitOK
<1>2. IInv /\ [Next]_vars => IInv'
  BY NextOK
<1> QED
  BY <1>1, <1>2, PTL DEF Spec

\* A database whose manifest the engine wrote opens with the partition, wal, action and jobs
\* it ran with before, whatever engine.toml has become and whoever opens it.
THEOREM StorageIsKept == Spec => StorageKept
<1>1. IInv /\ [Next]_vars => [Keeps]_<<loaded, ran>>
  BY NextOK
<1> QED
  BY <1>1, Invariance, PTL DEF Spec, StorageKept, Keeps

(***************************************************************************)
(* The databases of a set in the order of their names.                     *)
(***************************************************************************)
HIDE SettingsAreFiles
USE DatabasesAreNames

Rank(ds, d) == Cardinality({x \in ds : x < d})

LEMMA RanksRise ==
    ASSUME NEW ds, ds \subseteq Database, NEW d \in ds
    PROVE  /\ IsFiniteSet(ds) /\ Cardinality(ds) \in Nat
           /\ Rank(ds, d) \in Nat /\ Rank(ds, d) < Cardinality(ds)
           /\ \A e \in ds : d < e => Rank(ds, d) < Rank(ds, e)
<1>1. IsFiniteSet(ds) /\ Cardinality(ds) \in Nat /\ ds \subseteq Nat
  BY FS_Subset, FS_CardinalityType
<1>2. ASSUME NEW T, T \subseteq ds, d \in T, {x \in ds : x < d} \subseteq T
      PROVE  /\ IsFiniteSet(T) /\ Cardinality(T) \in Nat
             /\ Rank(ds, d) \in Nat /\ Rank(ds, d) < Cardinality(T)
  <2> DEFINE S == {x \in ds : x < d}
  <2>1. IsFiniteSet(T) /\ Cardinality(T) \in Nat
    BY <1>1, <1>2, FS_Subset, FS_CardinalityType
  <2>2. S \in SUBSET T /\ d \notin S
    BY <1>1, <1>2
  <2>3. Cardinality(S) <= Cardinality(T) /\ Cardinality(T) # Cardinality(S) /\ IsFiniteSet(S)
    BY <1>2, <2>1, <2>2, FS_Subset
  <2>4. Cardinality(S) \in Nat
    BY <2>3, FS_CardinalityType
  <2> QED
    BY <2>1, <2>3, <2>4 DEF Rank
<1>3. Rank(ds, d) \in Nat /\ Rank(ds, d) < Cardinality(ds)
  BY <1>2
<1>4. ASSUME NEW e \in ds, d < e PROVE Rank(ds, d) < Rank(ds, e)
  <2>1. \A x, y, z \in Nat : x < y /\ y < z => x < z
    OBVIOUS
  <2>2. \A x \in ds : x < d => x < e
    BY <1>1, <1>4, <2>1, SMT
  <2>3. {x \in ds : x < d} \subseteq {x \in ds : x < e} /\ d \in {x \in ds : x < e}
    BY <1>4, <2>2
  <2> QED
    BY <1>2, <2>3 DEF Rank
<1> QED
  BY <1>1, <1>3, <1>4

LEMMA InOrderIs ==
    ASSUME NEW ds, ds \subseteq Database
    PROVE  /\ InOrder(ds) \in Seq(Database) /\ Cardinality(ds) \in Nat
           /\ Len(InOrder(ds)) = Cardinality(ds) /\ Range(InOrder(ds)) = ds
           /\ ds # {} => InOrder(ds) # <<>>
<1> DEFINE n == Cardinality(ds)
           f == [d \in ds |-> Rank(ds, d) + 1]
           s == InOrder(ds)
           nth(k) == CHOOSE d \in ds : Cardinality({x \in ds : x < d}) = k - 1
<1>1. IsFiniteSet(ds) /\ n \in Nat /\ ds \subseteq Nat
  BY FS_Subset, FS_CardinalityType
<1>2. IsFiniteSet(1..n) /\ Cardinality(1..n) = n
  BY <1>1, FS_Interval
<1>3. f \in [ds -> 1..n]
  <2>1. ASSUME NEW d \in ds PROVE Rank(ds, d) + 1 \in 1..n
    <3>1. Rank(ds, d) \in Nat /\ Rank(ds, d) < n
      BY RanksRise
    <3> QED
      BY <1>1, <3>1
  <2> QED
    BY <2>1
<1>4. \A d, e \in ds : Rank(ds, d) = Rank(ds, e) => d = e
  <2> SUFFICES ASSUME NEW d \in ds, NEW e \in ds, Rank(ds, d) = Rank(ds, e), d # e PROVE FALSE
    OBVIOUS
  <2>1. d < e \/ e < d
    BY <1>1
  <2>2. Rank(ds, d) < Rank(ds, e) \/ Rank(ds, e) < Rank(ds, d)
    BY <2>1, RanksRise
  <2>3. Rank(ds, d) \in Nat /\ Rank(ds, e) \in Nat
    BY RanksRise
  <2> QED
    BY <2>2, <2>3
<1>5. f \in Injection(ds, 1..n)
  <2>1. ASSUME NEW d \in ds, NEW e \in ds, f[d] = f[e] PROVE d = e
    <3>1. Rank(ds, d) \in Nat /\ Rank(ds, e) \in Nat
      BY RanksRise
    <3>2. Rank(ds, d) + 1 = Rank(ds, e) + 1
      BY <2>1
    <3>3. Rank(ds, d) = Rank(ds, e)
      BY <3>1, <3>2
    <3> QED
      BY <1>4, <3>3
  <2> QED
    BY <1>3, <2>1 DEF Injection, IsInjective
<1>6. f \in Surjection(ds, 1..n)
  BY <1>2, <1>5, FS_Injection
<1>7. ASSUME NEW k \in 1..n PROVE \E d \in ds : Rank(ds, d) = k - 1
  <2>1. PICK d \in ds : f[d] = k
    BY <1>6 DEF Surjection
  <2>2. Rank(ds, d) + 1 = k /\ Rank(ds, d) \in Nat
    BY <2>1, RanksRise
  <2> QED
    BY <2>2
<1>10. s = [k \in 1..n |-> nth(k)]
  BY DEF InOrder
<1>8. ASSUME NEW k \in 1..n PROVE s[k] \in ds /\ Rank(ds, s[k]) = k - 1
  BY <1>7, <1>8 DEF InOrder, Rank
<1>9. DOMAIN s = 1..n
  BY DEF InOrder
<1> HIDE DEF s, f, nth
<1>11. s \in [1..n -> Database]
  <2>1. \A k \in 1..n : s[k] = nth(k)
    BY <1>10
  <2>2. \A k \in 1..n : nth(k) \in Database
    BY <1>8, <2>1
  <2> QED
    BY <1>10, <2>2
<1>12. s \in Seq(Database) /\ Len(s) = n
  BY <1>1, <1>11, <1>9
<1>13. Range(s) \subseteq ds
  BY <1>8, <1>9 DEF Range
<1>14. ASSUME NEW d \in ds PROVE d \in Range(s)
  <2>1. Rank(ds, d) \in Nat /\ Rank(ds, d) < n
    BY RanksRise
  <2>2. Rank(ds, d) + 1 \in 1..n
    BY <1>1, <2>1
  <2>3. s[Rank(ds, d) + 1] \in ds /\ Rank(ds, s[Rank(ds, d) + 1]) = Rank(ds, d)
    BY <1>8, <2>1, <2>2
  <2>4. s[Rank(ds, d) + 1] = d
    BY <1>4, <2>3
  <2> QED
    BY <1>9, <2>2, <2>4 DEF Range
<1>15. ds # {} => n # 0
  BY <1>1, FS_EmptySet
<1> QED
  BY <1>1, <1>12, <1>13, <1>14, <1>15 DEF s


(***************************************************************************)
(* The levels of a lineage.                                                *)
(***************************************************************************)
Row  == {r \in [base : Base, path : Seq(Database)] : Len(r.path) \in 1..(MaxHops + 1)}
Node == [db : Database, name : Base \X Nat]
Taken == [from : Node, job : Job, to : Node]
Level == [front : SUBSET Node, met : SUBSET Node,
          steps : SUBSET [hop : Nat, id : Seq(Nat \cup Name), db : Database, name : Base \X Nat]]

\* A runtime has what normalizeDBInfo left of its manifest.
LoadedOK == \A d \in Database : loaded[d] # Nothing => Normal(loaded[d])

\* The next level.
Deeper(n, l) ==
    LET taken == StepsFrom(l.front)
        new   == {t.to : t \in taken} \ l.met
    IN [front |-> new, met |-> l.met \cup new,
        steps |-> l.steps \cup
                  {[hop |-> n, id |-> t.job.id, db |-> t.to.db, name |-> t.to.name] : t \in taken}]

LEMMA LoadedRuns ==
    ASSUME FilesOK, LoadedOK, NEW d \in Database
    PROVE  /\ Runs(loaded[d]) <=> loaded[d] # Nothing /\ loaded[d].jobs # {}
           /\ loaded[d] # Nothing => \A job \in loaded[d].jobs : job \in Job /\ job.dst \in Database
<1>1. loaded[d] # Nothing => loaded[d] \in Manifest /\ Normal(loaded[d]) /\ loaded[d] # Refused
  BY PresentOrAbsent DEF FilesOK, LoadedOK
<1>2. loaded[d] # Nothing => loaded[d].jobs \subseteq Job
  BY <1>1 DEF Manifest
<1>3. \A job \in Job : job.dst \in Database \cup {None}
  BY DEF Job
<1>4. loaded[d] # Nothing => \A job \in loaded[d].jobs : job.dst # None
  BY <1>1 DEF Normal, JobsValid
<1>5. loaded[d] # Nothing /\ loaded[d].jobs # {} => loaded[d].enabled
  BY <1>1 DEF Normal
<1> QED
  BY <1>1, <1>2, <1>3, <1>4, <1>5 DEF Runs

LEMMA StepsAre ==
    ASSUME FilesOK, LoadedOK, NEW nodes, nodes \subseteq Node
    PROVE  /\ StepsFrom(nodes) \subseteq Taken
           /\ \A node \in nodes : \A job \in loaded[node.db].jobs :
                  loaded[node.db] # Nothing /\ job.src = node.name =>
                  \E t \in StepsFrom(nodes) :
                      t.job = job /\ t.to = [db |-> job.dst, name |-> DerivedName(node.name)]
<1> DEFINE to(node, job) == [db |-> job.dst, name |-> DerivedName(node.name)]
           step(node, job) == [from |-> node, job |-> job, to |-> to(node, job)]
           jobs(node) == {j \in loaded[node.db].jobs : j.src = node.name}
           on == {x \in nodes : Runs(loaded[x.db])}
<1>1. StepsFrom(nodes) = UNION {{step(node, job) : job \in jobs(node)} : node \in on}
  BY DEF StepsFrom
<1>2. \A node \in nodes : node \in Node /\ node.db \in Database
                          /\ DerivedName(node.name) \in Base \X Nat
  BY DEF Node, DerivedName
<1>3. ASSUME NEW node \in on, NEW job \in jobs(node) PROVE step(node, job) \in Taken
  <2>1. node \in Node /\ node.db \in Database /\ DerivedName(node.name) \in Base \X Nat
    BY <1>2
  <2>2. job \in Job /\ job.dst \in Database
    BY <2>1, LoadedRuns
  <2>3. to(node, job) \in Node
    BY <2>1, <2>2 DEF Node
  <2> HIDE DEF to
  <2> QED
    BY <2>1, <2>2, <2>3 DEF Taken
<1>4. ASSUME NEW node \in nodes, NEW job \in loaded[node.db].jobs, loaded[node.db] # Nothing,
             job.src = node.name
      PROVE  \E t \in StepsFrom(nodes) : t.job = job /\ t.to = to(node, job)
  <2>1. node \in on /\ job \in jobs(node)
    BY <1>2, <1>4, LoadedRuns
  <2>2. step(node, job) \in StepsFrom(nodes)
    <3> HIDE DEF on, jobs, step
    <3>1. step(node, job) \in {step(node, j) : j \in jobs(node)}
      BY <2>1
    <3>2. {step(node, j) : j \in jobs(node)} \in {{step(x, j) : j \in jobs(x)} : x \in on}
      BY <2>1
    <3> QED
      BY <1>1, <3>1, <3>2
  <2>3. step(node, job).job = job /\ step(node, job).to = to(node, job)
    OBVIOUS
  <2> HIDE DEF step
  <2> QED
    BY <2>2, <2>3
<1> HIDE DEF step, on, jobs
<1>5. StepsFrom(nodes) \subseteq Taken
  BY <1>1, <1>3
<1> QED
  BY <1>4, <1>5

LEMMA DeeperIs ==
    ASSUME FilesOK, LoadedOK, NEW n \in Nat, NEW l \in Level
    PROVE  /\ Deeper(n, l) \in Level
           /\ l.met \subseteq Deeper(n, l).met /\ l.steps \subseteq Deeper(n, l).steps
           /\ Deeper(n, l).met = l.met \cup Deeper(n, l).front
           /\ \A node \in l.front : \A job \in loaded[node.db].jobs :
                  loaded[node.db] # Nothing /\ job.src = node.name =>
                  /\ [db |-> job.dst, name |-> DerivedName(node.name)] \in Deeper(n, l).met
                  /\ \E step \in Deeper(n, l).steps :
                         step.db = job.dst /\ step.name = DerivedName(node.name)
<1> DEFINE taken == StepsFrom(l.front)
           new   == {t.to : t \in taken} \ l.met
           mark(t) == [hop |-> n, id |-> t.job.id, db |-> t.to.db, name |-> t.to.name]
           steps == l.steps \cup {mark(t) : t \in taken}
           Mark  == [hop : Nat, id : Seq(Nat \cup Name), db : Database, name : Base \X Nat]
<1>1. Deeper(n, l) = [front |-> new, met |-> l.met \cup new, steps |-> steps]
  BY DEF Deeper
<1>2. l.front \subseteq Node /\ l.met \subseteq Node /\ l.steps \subseteq Mark
  BY DEF Level
<1>3. taken \subseteq Taken
  BY <1>2, StepsAre
<1>4. \A t \in Taken : t.to \in Node /\ t.job \in Job
  BY DEF Taken
<1>5. \A job \in Job : job.id \in Seq(Nat \cup Name)
  BY DEF Job
<1>6. \A x \in Node : x.db \in Database /\ x.name \in Base \X Nat
  BY DEF Node
<1>7. \A t \in Taken : mark(t) \in Mark
  BY <1>4, <1>5, <1>6
<1>8. \A t : mark(t).db = t.to.db /\ mark(t).name = t.to.name
  OBVIOUS
<1>9. \A node \in l.front : \A job \in loaded[node.db].jobs :
          loaded[node.db] # Nothing /\ job.src = node.name =>
          \E t \in taken : t.job = job /\ t.to = [db |-> job.dst, name |-> DerivedName(node.name)]
  BY <1>2, StepsAre
<1> HIDE DEF taken, mark
<1>10. new \subseteq Node /\ steps \subseteq Mark
  BY <1>2, <1>3, <1>4, <1>7
<1>11. Deeper(n, l) \in Level
  BY <1>1, <1>2, <1>10 DEF Level
<1>12. ASSUME NEW node \in l.front, NEW job \in loaded[node.db].jobs,
              loaded[node.db] # Nothing, job.src = node.name
       PROVE  /\ [db |-> job.dst, name |-> DerivedName(node.name)] \in l.met \cup new
              /\ \E step \in steps : step.db = job.dst /\ step.name = DerivedName(node.name)
  <2> DEFINE to == [db |-> job.dst, name |-> DerivedName(node.name)]
  <2>1. PICK t \in taken : t.to = to
    BY <1>9, <1>12
  <2>2. to.db = job.dst /\ to.name = DerivedName(node.name)
    OBVIOUS
  <2> HIDE DEF to
  <2>3. to \in l.met \cup new
    BY <2>1
  <2>4. mark(t) \in steps /\ mark(t).db = job.dst /\ mark(t).name = DerivedName(node.name)
    BY <1>8, <2>1, <2>2
  <2> QED
    BY <2>3, <2>4 DEF to
<1>13. l.steps \subseteq steps
  OBVIOUS
<1> HIDE DEF new, steps
<1>14. /\ Deeper(n, l).front = new /\ Deeper(n, l).met = l.met \cup new
       /\ Deeper(n, l).steps = steps
  BY <1>1
<1> QED
  BY <1>11, <1>12, <1>13, <1>14


\* The levels are what the definition says they are.
Levels(s, d, name) ==
    /\ s \in [0..MaxHops -> Level]
    /\ s[0] = [front |-> {[db |-> d, name |-> name]}, met |-> {[db |-> d, name |-> name]}, steps |-> {}]
    /\ \A n \in 1..MaxHops : s[n] = Deeper(n, s[n - 1])

LEMMA LineageIs ==
    ASSUME FilesOK, LoadedOK, NEW d \in Database, NEW name \in Base \X Nat
    PROVE  \E s : Levels(s, d, name) /\ Lineage(d, name) = s[MaxHops].steps
<1> DEFINE init == [front |-> {[db |-> d, name |-> name]}, met |-> {[db |-> d, name |-> name]},
                    steps |-> {}]
           Def(t) == [n \in 0..MaxHops |-> IF n = 0 THEN init ELSE Deeper(n, t[n - 1])]
           s == CHOOSE t : t = Def(t)
<1>1. Lineage(d, name) = s[MaxHops].steps
  BY DEF Lineage, Deeper
<1>2. MaxHops \in Nat
  OBVIOUS
<1>3. init \in Level
  BY DEF Level, Node
<1> HIDE DEF init
<1>4. PICK t : t \in [0..MaxHops -> Level] /\ t = Def(t)
  <2> DEFINE step == [n \in 1..MaxHops |-> [l \in Level |-> Deeper(n, l)]]
  <2>1. step \in [1..MaxHops -> [Level -> Level]]
    <3>1. ASSUME NEW n \in 1..MaxHops, NEW l \in Level PROVE Deeper(n, l) \in Level
      BY DeeperIs
    <3> QED
      BY <3>1
  <2>2. \A n \in 1..MaxHops : \A l \in Level : step[n][l] = Deeper(n, l)
    OBVIOUS
  <2> HIDE DEF step
  <2>3. PICK t : Recursive(t, MaxHops, Level, init, step)
    BY <1>2, <1>3, <2>1, Recursion
  <2>4. \A n \in 0..MaxHops : n = 0 \/ (n \in 1..MaxHops /\ n - 1 \in 0..MaxHops)
    BY <1>2
  <2>5. \A n \in 0..MaxHops : t[n] = IF n = 0 THEN init ELSE Deeper(n, t[n - 1])
    BY <2>2, <2>3, <2>4 DEF Recursive
  <2>6. t \in [0..MaxHops -> Level] /\ t = [n \in 0..MaxHops |-> t[n]]
    BY <2>3 DEF Recursive
  <2>7. t = Def(t)
    BY <2>5, <2>6
  <2> QED
    BY <2>6, <2>7
<1>5. s = Def(s)
  BY <1>4
<1>6. \A n \in 0..MaxHops : s[n] = IF n = 0 THEN init ELSE Deeper(n, s[n - 1])
  BY <1>5
<1>7. s = [n \in 0..MaxHops |-> s[n]]
  BY <1>5
<1> HIDE DEF s
<1>8. s[0] = init /\ \A n \in 1..MaxHops : s[n] = Deeper(n, s[n - 1]) /\ n - 1 \in 0..MaxHops
  BY <1>2, <1>6
<1>9. \A n \in 0..MaxHops : s[n] \in Level
  <2> DEFINE T == {n \in 0..MaxHops : s[n] \in Level}
  <2>1. 0 \in T
    BY <1>2, <1>3, <1>8
  <2>2. ASSUME NEW k \in T, k \in 0..MaxHops, k < MaxHops PROVE k + 1 \in T
    <3>1. k + 1 \in 1..MaxHops /\ k + 1 \in 0..MaxHops /\ (k + 1) - 1 = k /\ k + 1 \in Nat
      BY <2>2
    <3>2. s[k + 1] = Deeper(k + 1, s[k])
      BY <1>8, <3>1
    <3> QED
      BY <3>1, <3>2, DeeperIs
  <2> HIDE DEF T
  <2>3. \A k \in 0..MaxHops : k \in T
    BY <1>2, <2>1, <2>2, Induct
  <2> QED
    BY <2>3 DEF T
<1>10. s \in [0..MaxHops -> Level]
  BY <1>7, <1>9
<1> QED
  BY <1>1, <1>8, <1>10 DEF Levels, init

\* What a level has met or stepped over stays, and what it has met was new at a level before.
LEMMA LevelsClimb ==
    ASSUME FilesOK, LoadedOK, NEW d \in Database, NEW name \in Base \X Nat, NEW s, Levels(s, d, name)
    PROVE  /\ \A j \in 0..MaxHops : \A i \in 0..j :
                  s[i].met \subseteq s[j].met /\ s[i].steps \subseteq s[j].steps
           /\ \A j \in 0..MaxHops : \A x \in s[j].met : \E i \in 0..j : x \in s[i].front
<1> DEFINE met == [i \in 0..MaxHops |-> s[i].met]
           steps == [i \in 0..MaxHops |-> s[i].steps]
<1>1. MaxHops \in Nat /\ \A i \in 0..MaxHops : s[i] \in Level
  BY DEF Levels
<1>2. ASSUME NEW i \in 1..MaxHops
      PROVE  /\ i \in 0..MaxHops /\ i - 1 \in 0..MaxHops
             /\ s[i - 1].met \subseteq s[i].met /\ s[i - 1].steps \subseteq s[i].steps
             /\ s[i].met = s[i - 1].met \cup s[i].front
  <2>1. i \in Nat /\ i \in 0..MaxHops /\ i - 1 \in 0..MaxHops
    BY <1>1
  <2>2. s[i] = Deeper(i, s[i - 1]) /\ s[i - 1] \in Level
    BY <1>1, <2>1 DEF Levels
  <2> QED
    BY <2>1, <2>2, DeeperIs
<1>3. \A i \in 1..MaxHops : met[i - 1] \subseteq met[i]
  BY <1>2
<1>4. \A i \in 1..MaxHops : steps[i - 1] \subseteq steps[i]
  BY <1>2
<1>5. \A j \in 0..MaxHops : \A i \in 0..j : met[i] \subseteq met[j]
  <2> HIDE DEF met
  <2> QED
    BY <1>1, <1>3, Climbs
<1>6. \A j \in 0..MaxHops : \A i \in 0..j : steps[i] \subseteq steps[j]
  <2> HIDE DEF steps
  <2> QED
    BY <1>1, <1>4, Climbs
<1>7. \A j \in 0..MaxHops : \A i \in 0..j : i \in 0..MaxHops
  BY <1>1
<1>8. \A j \in 0..MaxHops : \A i \in 0..j :
          s[i].met \subseteq s[j].met /\ s[i].steps \subseteq s[j].steps
  BY <1>5, <1>6, <1>7
<1>9. \A j \in 0..MaxHops : \A x \in s[j].met : \E i \in 0..j : x \in s[i].front
  <2> DEFINE T == {j \in 0..MaxHops : \A x \in s[j].met : \E i \in 0..j : x \in s[i].front}
  <2>1. 0 \in T
    <3>1. s[0].met = s[0].front /\ 0 \in 0..0 /\ 0 \in 0..MaxHops
      BY <1>1 DEF Levels
    <3> QED
      BY <3>1
  <2>2. ASSUME NEW k \in T, k \in 0..MaxHops, k < MaxHops PROVE k + 1 \in T
    <3>1. k + 1 \in 1..MaxHops /\ k + 1 \in 0..MaxHops /\ (k + 1) - 1 = k
          /\ k + 1 \in 0..(k + 1) /\ \A i \in 0..k : i \in 0..(k + 1)
      BY <2>2
    <3>2. s[k + 1].met = s[k].met \cup s[k + 1].front
      BY <1>2, <3>1
    <3>3. \A x \in s[k].met : \E i \in 0..k : x \in s[i].front
      OBVIOUS
    <3>4. \A x \in s[k + 1].met : \E i \in 0..(k + 1) : x \in s[i].front
      BY <3>1, <3>2, <3>3
    <3> QED
      BY <3>1, <3>4
  <2> HIDE DEF T
  <2>3. \A k \in 0..MaxHops : k \in T
    BY <1>1, <2>1, <2>2, Induct
  <2> QED
    BY <2>3 DEF T
<1> QED
  BY <1>8, <1>9


\* A row is in the database its path ends with.
RowsOK == /\ rows \in [Database -> SUBSET Row]
          /\ \A d \in Database : \A row \in rows[d] : row.path[Len(row.path)] = d

LEMMA Covered ==
    ASSUME FilesOK, LoadedOK, RowsOK
    PROVE  LineageCoversRows
<1> SUFFICES ASSUME NEW d \in Database, NEW row \in rows[d],
                    Len(row.path) - 1 > 0,
                    \A k \in 1..(Len(row.path) - 1) :
                        /\ loaded[row.path[k]] # Nothing
                        /\ \E job \in loaded[row.path[k]].jobs :
                               job.src = <<row.base, k - 1>> /\ job.dst = row.path[k + 1]
             PROVE  \E step \in Lineage(row.path[1], <<row.base, 0>>) :
                        step.db = d /\ step.name = NameOf(row)
  BY Zenon DEF LineageCoversRows
<1> DEFINE hops == Len(row.path) - 1
           way(k) == row.path[k]
           v(k) == [db |-> way(k + 1), name |-> <<row.base, k>>]
<1>1. /\ row.base \in Base /\ hops \in Nat /\ hops # 0 /\ hops <= MaxHops /\ MaxHops \in Nat
      /\ \A k \in 1..(hops + 1) : way(k) \in Database
      /\ way(hops + 1) = d
  <2>1. row \in Row /\ row.path[Len(row.path)] = d
    BY DEF RowsOK
  <2>2. row.base \in Base /\ row.path \in Seq(Database) /\ Len(row.path) \in 1..(MaxHops + 1)
    BY <2>1 DEF Row
  <2>3. Len(row.path) \in Nat /\ Len(row.path) = hops + 1
    BY <2>2
  <2>4. \A k \in 1..Len(row.path) : row.path[k] \in Database
    BY <2>2
  <2> QED
    BY <2>1, <2>2, <2>3, <2>4
<1>2. \A k \in 1..hops : /\ loaded[way(k)] # Nothing
                         /\ \E job \in loaded[way(k)].jobs :
                                job.src = <<row.base, k - 1>> /\ job.dst = way(k + 1)
  OBVIOUS
<1>3. NameOf(row) = <<row.base, hops>>
  BY DEF NameOf
<1> HIDE DEF hops, way
<1>4. way(1) \in Database /\ <<row.base, 0>> \in Base \X Nat
  BY <1>1
<1>5. PICK s : Levels(s, way(1), <<row.base, 0>>) /\ Lineage(way(1), <<row.base, 0>>) = s[MaxHops].steps
  BY <1>4, LineageIs
<1>6. /\ \A j \in 0..MaxHops : \A i \in 0..j :
             s[i].met \subseteq s[j].met /\ s[i].steps \subseteq s[j].steps
      /\ \A j \in 0..MaxHops : \A x \in s[j].met : \E i \in 0..j : x \in s[i].front
  BY <1>4, <1>5, LevelsClimb
\* From a node met at level k the next one is met, and stepped to, at level k + 1.
<1>7. ASSUME NEW k \in 0..hops, k < hops, v(k) \in s[k].met
      PROVE  /\ v(k + 1) \in s[k + 1].met
             /\ \E step \in s[k + 1].steps : step.db = way(k + 2) /\ step.name = <<row.base, k + 1>>
  <2>1. /\ k \in 0..MaxHops /\ k + 1 \in 0..MaxHops /\ k + 1 \in 1..hops /\ (k + 1) - 1 = k
        /\ (k + 1) + 1 = k + 2
    BY <1>1, <1>7
  <2>2. PICK m \in 0..k : v(k) \in s[m].front
    BY <1>6, <1>7, <2>1
  <2>3. m + 1 \in 1..MaxHops /\ m + 1 \in Nat /\ (m + 1) - 1 = m /\ m \in 0..MaxHops /\ m + 1 \in 0..(k + 1)
    BY <2>1, <2>2
  <2>4. s[m + 1] = Deeper(m + 1, s[m]) /\ s[m] \in Level
    BY <1>5, <2>3 DEF Levels
  <2>5. v(k).db = way(k + 1) /\ v(k).name = <<row.base, k>> /\ DerivedName(v(k).name) = <<row.base, k + 1>>
    BY DEF DerivedName
  <2>6. loaded[way(k + 1)] # Nothing
    BY <1>2, <2>1
  <2>7. PICK job \in loaded[way(k + 1)].jobs : job.src = <<row.base, k>> /\ job.dst = way(k + 2)
    BY <1>2, <2>1
  <2>8. v(k + 1) = [db |-> way(k + 2), name |-> <<row.base, k + 1>>]
    BY <2>1
  <2> DEFINE x == v(k)
  <2>9. x \in s[m].front /\ x.db = way(k + 1) /\ x.name = <<row.base, k>>
        /\ DerivedName(x.name) = <<row.base, k + 1>>
    BY <2>2, <2>5
  <2> HIDE DEF x
  <2>10. /\ [db |-> job.dst, name |-> DerivedName(x.name)] \in s[m + 1].met
         /\ \E step \in s[m + 1].steps : step.db = job.dst /\ step.name = DerivedName(x.name)
    <3>1. loaded[x.db] # Nothing /\ job \in loaded[x.db].jobs /\ job.src = x.name
      BY <2>6, <2>7, <2>9
    <3> QED
      BY <2>3, <2>4, <2>9, <3>1, DeeperIs
  <2>11. s[m + 1].met \subseteq s[k + 1].met /\ s[m + 1].steps \subseteq s[k + 1].steps
    BY <1>6, <2>1, <2>3
  <2> HIDE DEF v
  <2>12. v(k + 1) \in s[m + 1].met
    BY <2>7, <2>8, <2>9, <2>10
  <2> QED
    BY <2>7, <2>9, <2>10, <2>11, <2>12
<1>8. \A k \in 0..hops : v(k) \in s[k].met
  <2> DEFINE T == {k \in 0..hops : v(k) \in s[k].met}
  <2>1. 0 \in T
    <3>1. v(0) = [db |-> way(1), name |-> <<row.base, 0>>] /\ 0 \in 0..hops
      BY <1>1
    <3>2. s[0].met = {[db |-> way(1), name |-> <<row.base, 0>>]}
      BY <1>5 DEF Levels
    <3> HIDE DEF v
    <3> QED
      BY <3>1, <3>2
  <2>2. ASSUME NEW k \in T, k \in 0..hops, k < hops PROVE k + 1 \in T
    <3>1. k + 1 \in 0..hops
      BY <1>1, <2>2
    <3> HIDE DEF v
    <3> QED
      BY <1>7, <2>2, <3>1
  <2> HIDE DEF T
  <2>3. \A k \in 0..hops : k \in T
    BY <1>1, <2>1, <2>2, Induct
  <2> QED
    BY <2>3 DEF T
<1>9. hops - 1 \in 0..hops /\ hops - 1 < hops /\ (hops - 1) + 1 = hops /\ (hops - 1) + 2 = hops + 1
      /\ hops \in 0..MaxHops /\ MaxHops \in 0..MaxHops
  BY <1>1
<1> HIDE DEF v
<1>10. PICK step \in s[hops].steps : step.db = way(hops + 1) /\ step.name = <<row.base, hops>>
  BY <1>7, <1>8, <1>9
<1>11. step \in s[MaxHops].steps
  BY <1>6, <1>9, <1>10
<1>12. step \in Lineage(way(1), <<row.base, 0>>) /\ step.db = d /\ step.name = NameOf(row)
  BY <1>1, <1>3, <1>5, <1>10, <1>11
<1> QED
  BY <1>12 DEF way


(***************************************************************************)
(* The invariant of a backfill.                                            *)
(***************************************************************************)
Backfills == [pc : {"none", "plan", "reset", "clear", "rebuild", "done"},
              queue : Seq(Database), seen : SUBSET Database, sources : SUBSET Database,
              dests : SUBSET Database, todo : Seq(Database), pass : Nat,
              asked : SUBSET Database, had : SUBSET Row]

\* A backfill is of an engine that is open, and has something to do when it says it has.
BfOK ==
    /\ bf \in Backfills
    /\ ~up => bf = NoBackfill
    /\ bf.pc \in {"reset", "clear", "rebuild"} => bf.sources # {}
    /\ bf.pc \in {"clear", "rebuild"} => bf.todo # <<>>
    /\ bf.pc = "reset" => bf.queue = <<>> /\ Len(bf.todo) <= Cardinality(bf.dests)

\* T has whatever the jobs of databases in it that were planned feed.
Closed(T) == \A s \in bf.seen \cap T : \A d \in Database : Feeds(s, d) => d \in T

\* The plan while it is made, and until a destination is reset.
Planning == bf.pc = "plan" \/ (bf.pc = "reset" /\ bf.todo = InOrder(bf.dests))
PlanSoFar(reached) ==
    /\ bf.asked \subseteq reached
    /\ bf.sources = {s \in bf.seen : Runs(RollupInfo(s))}
    /\ bf.dests = {d \in Database : \E s \in bf.seen : Feeds(s, d)}
    /\ bf.dests \subseteq reached
    /\ bf.asked # {} => \A T \in SUBSET Database : bf.asked \subseteq T /\ Closed(T) => reached \subseteq T
    /\ \A s \in bf.seen : RollupInfo(s) # Refused
PlanOK == Planning /\ ~Runs(defaults) => PlanSoFar(bf.seen \cup Range(bf.queue))

BInv == IInv /\ LoadedOK /\ RowsOK /\ BfOK /\ PlanOK


(***************************************************************************)
(* What a database runs with.                                              *)
(***************************************************************************)
LEMMA InfoIs ==
    ASSUME FilesOK, RanOK, LoadedOK, NEW d \in Database
    PROVE  /\ RollupInfo(d) \in {Nothing, Refused} \/ (RollupInfo(d) \in Manifest /\ Normal(RollupInfo(d)))
           /\ Runs(RollupInfo(d)) => /\ RollupInfo(d).jobs # {}
                                     /\ \A job \in RollupInfo(d).jobs : job.dst \in Database
<1>1. RollupInfo(d) \in {Nothing, Refused} \/ (RollupInfo(d) \in Manifest /\ Normal(RollupInfo(d)))
  <2>1. CASE loaded[d] # Nothing
    <3>1. RollupInfo(d) = loaded[d] /\ loaded[d] \in Manifest /\ Normal(loaded[d])
      BY <2>1 DEF RollupInfo, FilesOK, LoadedOK
    <3> QED
      BY <3>1
  <2>2. CASE loaded[d] = Nothing
    <3>1. RollupInfo(d) = LoadExisting(d, defaults)
      BY <2>2 DEF RollupInfo
    <3>2. defaults \in Manifest /\ manifest[d] \in Manifest \cup {Nothing}
      BY DEF FilesOK
    <3>3. LoadExisting(d, defaults) \notin {Nothing, Refused} =>
             /\ manifest[d] \in Manifest /\ Normalize(manifest[d], defaults) # Nothing
             /\ LoadExisting(d, defaults) = Normalize(manifest[d], defaults)
      BY <3>2 DEF LoadExisting
    <3> QED
      BY <3>1, <3>2, <3>3, NormalizeOK
  <2> QED
    BY <2>1, <2>2
<1>2. ASSUME Runs(RollupInfo(d))
      PROVE  RollupInfo(d).jobs # {} /\ \A job \in RollupInfo(d).jobs : job.dst \in Database
  <2>1. RollupInfo(d) \in Manifest /\ Normal(RollupInfo(d)) /\ RollupInfo(d).jobs # {}
    BY <1>1, <1>2 DEF Runs
  <2>2. RollupInfo(d).jobs \subseteq Job /\ JobsValid(RollupInfo(d))
    BY <2>1 DEF Manifest, Normal
  <2>3. \A job \in RollupInfo(d).jobs : job.dst \in Database \cup {None} /\ job.dst # None
    BY <2>2 DEF JobsValid, Job
  <2> QED
    BY <2>1, <2>3
<1> QED
  BY <1>1, <1>2

\* The destinations of a database do not depend on which defaults it is opened with.
LEMMA SameJobs ==
    ASSUME NEW info \in Manifest, NEW a \in Manifest, NEW b \in Manifest, a.dest = b.dest,
           Normalize(info, a) # Nothing, Normalize(info, b) # Nothing
    PROVE  /\ Normalize(info, a).enabled = Normalize(info, b).enabled
           /\ Normalize(info, a).jobs = Normalize(info, b).jobs
<1> DEFINE filled(def) == FillDefaults(info, def)
           dest == IF info.dest = None THEN a.dest ELSE info.dest
           jobs == {[job EXCEPT !.dst = IF @ = None THEN dest ELSE @] : job \in info.jobs}
<1>1. ASSUME NEW def \in Manifest, def.dest = a.dest, Normalize(info, def) # Nothing
      PROVE  /\ Normalize(info, def).enabled = info.enabled
             /\ Normalize(info, def).jobs = IF info.enabled THEN jobs ELSE {}
  <2>1. /\ filled(def) \in Manifest /\ filled(def).enabled = info.enabled
        /\ filled(def).jobs = info.jobs
    BY FilledOK
  <2>2. filled(def).dest = dest
    BY <1>1 DEF FillDefaults, Manifest
  <2>3. Normalize(info, def) = NormalizeJobs(filled(def))
    BY <1>1 DEF Normalize
  <2> HIDE DEF filled, dest
  <2>4. NormalizeJobs(filled(def)).enabled = info.enabled
    BY <2>1, JobsOK
  <2>5. NormalizeJobs(filled(def)).jobs = IF info.enabled THEN jobs ELSE {}
    <3>1. CASE ~info.enabled
      BY <2>1, <3>1, JobsOK
    <3>2. CASE info.enabled
      <4> DEFINE other(job) == [job EXCEPT !.dst = IF @ = None THEN filled(def).dest ELSE @]
                 all == {other(job) : job \in filled(def).jobs}
      <4>1. NormalizeJobs(filled(def)) = [filled(def) EXCEPT !.jobs = all]
        BY <2>1, <3>2 DEF NormalizeJobs, Manifest
      <4>2. all = jobs
        BY <2>1, <2>2
      <4> HIDE DEF all, jobs
      <4>3. [filled(def) EXCEPT !.jobs = all].jobs = all
        BY <2>1 DEF Manifest
      <4> QED
        BY <3>2, <4>1, <4>2, <4>3
    <3> QED
      BY <3>1, <3>2
  <2> QED
    BY <2>3, <2>4, <2>5
<1> HIDE DEF jobs
<1>2. a.dest = a.dest
  OBVIOUS
<1> QED
  BY <1>1, <1>2

\* Defaults that give no database of their own jobs to run.
Idle(def) == def \in Manifest /\ (def.enabled => def.jobs = {}) /\ def.dest = defaults.dest

LEMMA IdleLoads ==
    ASSUME NEW def, Idle(def), Normalize(def, def) # Nothing
    PROVE  ~Runs(Normalize(def, def))
<1>1. def \in Manifest /\ def.enabled => def.jobs = {}
  BY DEF Idle
<1> DEFINE filled == FillDefaults(def, def)
<1>2. filled \in Manifest /\ filled.enabled = def.enabled /\ filled.jobs = def.jobs
  BY FilledOK DEF Idle
<1>3. Normalize(def, def) = NormalizeJobs(filled)
  BY DEF Normalize
<1> HIDE DEF filled
<1>4. def.jobs = {} => JobsValid(filled)
  BY <1>2 DEF JobsValid
<1>5. NormalizeJobs(filled).jobs = {}
  <2>1. CASE filled.enabled
    BY <1>2, <1>4, <2>1, JobsOK DEF Idle
  <2>2. CASE ~filled.enabled
    BY <1>2, <2>2, JobsOK
  <2> QED
    BY <2>1, <2>2
<1> QED
  BY <1>3, <1>5 DEF Runs

\* A database that was planned, or has no jobs, has the same jobs once it is opened.
LEMMA InfoStays ==
    ASSUME IInv, LoadedOK, NEW ds, NEW dests, NEW def, OpenAll(ds, dests, def), defaults' = defaults,
           \A d \in Database : Idle(def[d]), NEW x \in Database, RollupInfo(x) # Refused
    PROVE  /\ RollupInfo(x)' # Refused
           /\ Runs(RollupInfo(x)') <=> Runs(RollupInfo(x))
           /\ Runs(RollupInfo(x)) => RollupInfo(x)'.jobs = RollupInfo(x).jobs
<1> DEFINE opens  == {d \in ds : loaded[d] = Nothing /\ Load(d, def[d]) # Refused}
           writes == {d \in opens : Writes(d, d \in dests)}
<1>1. /\ loaded' = [d \in Database |-> IF d \in opens THEN Load(d, def[d]) ELSE loaded[d]]
      /\ manifest' = [d \in Database |-> IF d \in writes THEN Load(d, def[d]) ELSE manifest[d]]
  BY DEF OpenAll, Written
<1>2. x \in writes => x \in opens
  OBVIOUS
<1>3. x \in opens => loaded[x] = Nothing /\ Load(x, def[x]) # Refused
  OBVIOUS
<1> HIDE DEF opens, writes
<1>4. FilesOK /\ RanOK /\ Idle(def[x]) /\ def[x] \in Manifest /\ defaults \in Manifest
      /\ manifest[x] \in Manifest \cup {Nothing}
  BY DEF IInv, FilesOK, Idle
<1>5. CASE x \notin opens
  <2>1. loaded'[x] = loaded[x] /\ manifest'[x] = manifest[x]
    BY <1>1, <1>2, <1>5
  <2>2. RollupInfo(x)' = RollupInfo(x)
    BY <2>1 DEF RollupInfo, LoadExisting
  <2> QED
    BY <2>2
<1>6. CASE x \in opens
  <2>1. loaded'[x] = Load(x, def[x])
    BY <1>1, <1>6
  <2>2. loaded'[x] \in Manifest
    BY <1>3, <1>4, <1>6, <2>1, LoadOK
  <2>3. RollupInfo(x)' = Load(x, def[x]) /\ Load(x, def[x]) # Nothing
    BY <2>1, <2>2, PresentOrAbsent DEF RollupInfo
  <2>4. RollupInfo(x) = LoadExisting(x, defaults)
    BY <1>3, <1>6 DEF RollupInfo
  <2>5. CASE manifest[x] = Nothing
    <3>1. RollupInfo(x) = Nothing /\ Load(x, def[x]) = Normalize(def[x], def[x])
          /\ Normalize(def[x], def[x]) # Nothing
      BY <1>3, <1>6, <2>4, <2>5 DEF LoadExisting, Load
    <3>2. ~Runs(RollupInfo(x)) /\ ~Runs(Load(x, def[x]))
      BY <1>4, <3>1, IdleLoads DEF Runs
    <3> QED
      BY <1>3, <1>6, <2>3, <3>2
  <2>6. CASE manifest[x] # Nothing
    <3>1. /\ Normalize(manifest[x], defaults) # Nothing
          /\ RollupInfo(x) = Normalize(manifest[x], defaults)
      BY <2>4, <2>6 DEF LoadExisting
    <3>2. /\ Normalize(manifest[x], def[x]) # Nothing
          /\ Load(x, def[x]) = Normalize(manifest[x], def[x])
      BY <1>3, <1>6, <2>6, PresentOrAbsent DEF LoadExisting, Load
    <3>3. def[x].dest = defaults.dest /\ manifest[x] \in Manifest
      BY <1>4, <2>6 DEF Idle
    <3>4. /\ Load(x, def[x]).enabled = RollupInfo(x).enabled
          /\ Load(x, def[x]).jobs = RollupInfo(x).jobs
      BY <1>4, <3>1, <3>2, <3>3, SameJobs
    <3>5. Load(x, def[x]) \notin {Nothing, Refused} /\ RollupInfo(x) \notin {Nothing, Refused}
      BY <1>3, <1>4, <1>6, <2>3, <3>1, <3>3, NormalizeOK, PresentOrAbsent
    <3> QED
      BY <2>3, <3>4, <3>5 DEF Runs
  <2> QED
    BY <2>5, <2>6
<1> QED
  BY <1>5, <1>6


(***************************************************************************)
(* The steps keep the rows and the plan.                                   *)
(***************************************************************************)

\* What a step that opens databases, or none, leaves of the jobs there are.
InfosKept == \A x \in Database : RollupInfo(x) # Refused =>
                 /\ RollupInfo(x)' # Refused
                 /\ Runs(RollupInfo(x)') <=> Runs(RollupInfo(x))
                 /\ Runs(RollupInfo(x)) => RollupInfo(x)'.jobs = RollupInfo(x).jobs

LEMMA SoFarStays ==
    ASSUME NEW reached, PlanSoFar(reached), bf' = bf, InfosKept, BfOK, reached' = reached
    PROVE  PlanSoFar(reached)'
<1>1. \A s \in bf.seen : s \in Database /\ RollupInfo(s) # Refused
  BY DEF PlanSoFar, BfOK, Backfills
<1>2. \A s \in bf.seen : /\ RollupInfo(s)' # Refused
                         /\ Runs(RollupInfo(s)') <=> Runs(RollupInfo(s))
                         /\ \A d \in Database : Feeds(s, d)' <=> Feeds(s, d)
  <2> SUFFICES ASSUME NEW s \in bf.seen
               PROVE  /\ RollupInfo(s)' # Refused
                      /\ Runs(RollupInfo(s)') <=> Runs(RollupInfo(s))
                      /\ \A d \in Database : Feeds(s, d)' <=> Feeds(s, d)
    OBVIOUS
  <2>1. /\ RollupInfo(s)' # Refused
        /\ Runs(RollupInfo(s)') <=> Runs(RollupInfo(s))
        /\ Runs(RollupInfo(s)) => RollupInfo(s)'.jobs = RollupInfo(s).jobs
    BY <1>1 DEF InfosKept
  <2>2. Runs(RollupInfo(s))' <=> Runs(RollupInfo(s)')
    BY DEF Runs
  <2> QED
    BY <2>1, <2>2 DEF Feeds
<1>3. \A s \in bf.seen : Runs(RollupInfo(s))' <=> Runs(RollupInfo(s))
  BY <1>2 DEF Runs
<1>4. bf.asked \subseteq reached /\ bf.dests \subseteq reached
  BY DEF PlanSoFar
<1>5. bf.sources = {s \in bf.seen : Runs(RollupInfo(s))'}
  BY <1>3, Zenon DEF PlanSoFar
<1>6. bf.dests = {d \in Database : \E s \in bf.seen : Feeds(s, d)'}
  <2>1. \A d \in Database : (\E s \in bf.seen : Feeds(s, d)') <=> \E s \in bf.seen : Feeds(s, d)
    BY <1>2
  <2>2. bf.dests = {d \in Database : \E s \in bf.seen : Feeds(s, d)}
    BY DEF PlanSoFar
  <2> QED
    BY <2>1, <2>2
<1>7. \A T \in SUBSET Database : Closed(T)' => Closed(T)
  BY <1>2, Zenon DEF Closed
<1>8. bf.asked # {} => \A T \in SUBSET Database : bf.asked \subseteq T /\ Closed(T)' => reached \subseteq T
  BY <1>7 DEF PlanSoFar
<1>9. \A s \in bf.seen : RollupInfo(s)' # Refused
  BY <1>2
<1> QED
  BY <1>4, <1>5, <1>6, <1>8, <1>9 DEF PlanSoFar

LEMMA PlanStays ==
    ASSUME BfOK, PlanOK, bf' = bf, defaults' = defaults, ~Runs(defaults) => InfosKept
    PROVE  PlanOK'
<1> SUFFICES ASSUME Planning', ~Runs(defaults)' PROVE PlanSoFar(bf.seen \cup Range(bf.queue))'
  BY DEF PlanOK
<1>1. Planning /\ ~Runs(defaults)
  BY DEF Planning, Runs
<1>2. PlanSoFar(bf.seen \cup Range(bf.queue)) /\ InfosKept
  BY <1>1 DEF PlanOK
<1> DEFINE reached == bf.seen \cup Range(bf.queue)
<1>3. PlanSoFar(reached) /\ reached' = reached
  BY <1>2
<1> QED
  BY <1>2, <1>3, SoFarStays, Zenon

LEMMA SameInfos == UNCHANGED <<manifest, defaults, loaded>> => InfosKept
BY DEF InfosKept, RollupInfo, LoadExisting

LEMMA DefaultsIdle ==
    ASSUME FilesOK, ~Runs(defaults)
    PROVE  Idle(defaults) /\ \A long : Idle(RollupDefaults(long))
<1>1. defaults \in Manifest /\ (defaults.enabled => defaults.jobs = {})
  BY PresentOrAbsent DEF FilesOK, Runs
<1>2. ASSUME NEW long PROVE Idle(RollupDefaults(long))
  BY <1>1 DEF Idle, RollupDefaults, Manifest, Partition
<1> QED
  BY <1>1, <1>2 DEF Idle

LEMMA OpensKeep ==
    ASSUME IInv, LoadedOK, NEW ds, NEW dests, NEW def, OpenAll(ds, dests, def), defaults' = defaults,
           \A d \in Database : def[d] = defaults \/ \E long : def[d] = RollupDefaults(long)
    PROVE  LoadedOK' /\ (~Runs(defaults) => InfosKept)
<1>1. ASSUME NEW d \in Database PROVE def[d] \in Manifest
  <2>1. defaults \in Manifest
    BY DEF IInv, FilesOK
  <2>2. \A long : RollupDefaults(long) \in Manifest
    BY <2>1 DEF RollupDefaults, Manifest, Partition
  <2> QED
    BY <2>1, <2>2
<1>2. LoadedOK'
  <2> DEFINE opens == {d \in ds : loaded[d] = Nothing /\ Load(d, def[d]) # Refused}
  <2>1. loaded' = [d \in Database |-> IF d \in opens THEN Load(d, def[d]) ELSE loaded[d]]
    BY DEF OpenAll
  <2>2. \A d \in Database : d \in opens => Normal(Load(d, def[d]))
    BY <1>1, LoadOK
  <2> HIDE DEF opens
  <2> QED
    BY <2>1, <2>2 DEF LoadedOK
<1>3. ASSUME ~Runs(defaults) PROVE InfosKept
  <2>1. \A d \in Database : Idle(def[d])
    BY <1>3, DefaultsIdle DEF IInv
  <2> QED
    BY <2>1, InfoStays DEF InfosKept
<1> QED
  BY <1>2, <1>3

LEMMA TriggerKeeps ==
    ASSUME IInv, LoadedOK, RowsOK, NEW s \in Database, TriggerRollups(s), defaults' = defaults
    PROVE  LoadedOK' /\ RowsOK' /\ (~Runs(defaults) => InfosKept)
<1> DEFINE jobs  == JobsToRun(s)
           dests == {job.dst : job \in jobs}
           def   == [d \in Database |-> IF d = s THEN defaults ELSE RollupDefaults(FirstIsLong(jobs, d))]
           opened(d) == loaded[d] # Nothing \/ Load(d, def[d]) # Refused
           due   == {p \in jobs \X rows[s] :
                        /\ NameOf(p[2]) = p[1].src /\ opened(p[1].dst)
                        /\ <<p[1].id, p[2]>> \notin done[s] /\ Len(p[2].path) <= MaxHops}
           new(d) == {Derived(p[2], d) : p \in {q \in due : q[1].dst = d}}
<1>1. /\ OpenAll({s} \cup dests, dests \ {s}, def)
      /\ rows' = [d \in Database |-> rows[d] \cup new(d)]
  BY DEF TriggerRollups
<1>2. \A d \in Database : def[d] = defaults \/ \E long : def[d] = RollupDefaults(long)
  OBVIOUS
<1>3. \A p \in due : p[2] \in rows[s] /\ Len(p[2].path) <= MaxHops
  OBVIOUS
<1>4. ASSUME NEW row \in Row, Len(row.path) <= MaxHops, NEW d \in Database
      PROVE  Derived(row, d) \in Row /\ Derived(row, d).path[Len(Derived(row, d).path)] = d
  <2>1. row \in [base : Base, path : Seq(Database)] /\ Len(row.path) \in 1..(MaxHops + 1)
    BY DEF Row
  <2> DEFINE path == Append(row.path, d)
  <2>2. path \in Seq(Database) /\ Len(path) = Len(row.path) + 1 /\ path[Len(path)] = d
    BY <2>1
  <2>3. Derived(row, d) = [row EXCEPT !.path = path]
    BY DEF Derived
  <2>4. Derived(row, d) \in [base : Base, path : Seq(Database)] /\ Derived(row, d).path = path
    BY <2>1, <2>2, <2>3
  <2>5. Len(path) \in 1..(MaxHops + 1)
    BY <1>4, <2>1, <2>2
  <2> QED
    BY <2>2, <2>4, <2>5 DEF Row
<1> HIDE DEF jobs, def, due, dests
<1>5. RowsOK'
  <2>1. ASSUME NEW d \in Database, NEW row \in new(d)
        PROVE  row \in Row /\ row.path[Len(row.path)] = d
    <3>1. PICK p \in due : row = Derived(p[2], d)
      OBVIOUS
    <3>2. p[2] \in Row /\ Len(p[2].path) <= MaxHops
      BY <1>3 DEF RowsOK
    <3> QED
      BY <1>4, <3>1, <3>2
  <2> HIDE DEF new
  <2>2. \A d \in Database : rows[d] \cup new(d) \subseteq Row
    BY <2>1 DEF RowsOK
  <2>3. rows' \in [Database -> SUBSET Row]
    BY <1>1, <2>2
  <2> QED
    BY <1>1, <2>1, <2>3 DEF RowsOK
<1> QED
  BY <1>1, <1>2, <1>5, OpensKeep


(***************************************************************************)
(* The steps of a backfill.                                                *)
(***************************************************************************)
LEMMA HeadAndTail ==
    ASSUME NEW q \in Seq(Database), q # <<>>
    PROVE  /\ Head(q) \in Database /\ Tail(q) \in Seq(Database) /\ Len(Tail(q)) = Len(q) - 1
           /\ Len(q) \in Nat /\ Len(q) >= 1
           /\ Range(q) = {Head(q)} \cup Range(Tail(q))
           /\ Len(q) > 1 => Tail(q) # <<>>
<1> DEFINE n == Len(q)
           t == Tail(q)
<1>1. n \in Nat /\ n >= 1 /\ \A k \in 1..n : q[k] \in Database
  OBVIOUS
<1>2. t \in Seq(Database) /\ Len(t) = n - 1 /\ Head(q) = q[1] /\ \A k \in 1..(n - 1) : t[k] = q[k + 1]
  OBVIOUS
<1>3. DOMAIN q = 1..n /\ DOMAIN t = 1..(n - 1)
  BY <1>1, <1>2
<1> HIDE DEF n, t
<1>4. ASSUME NEW k \in 1..n PROVE q[k] \in {Head(q)} \cup Range(t)
  <2>1. CASE k = 1
    BY <1>2, <2>1
  <2>2. CASE k # 1
    <3>1. k - 1 \in 1..(n - 1) /\ (k - 1) + 1 = k
      BY <1>1, <2>2
    <3>2. t[k - 1] = q[k]
      BY <1>2, <3>1
    <3> QED
      BY <1>3, <3>1, <3>2 DEF Range
  <2> QED
    BY <2>1, <2>2
<1>5. ASSUME NEW k \in 1..(n - 1) PROVE t[k] \in Range(q)
  <2>1. k + 1 \in 1..n
    BY <1>1
  <2> QED
    BY <1>2, <1>3, <2>1 DEF Range
<1>6. Head(q) \in Range(q) /\ Head(q) \in Database
  <2>1. 1 \in 1..n
    BY <1>1
  <2> QED
    BY <1>1, <1>2, <1>3, <2>1 DEF Range
<1>7. Range(q) = {Head(q)} \cup Range(t)
  <2>1. Range(q) \subseteq {Head(q)} \cup Range(t)
    BY <1>3, <1>4 DEF Range
  <2>2. Range(t) \subseteq Range(q)
    BY <1>3, <1>5 DEF Range
  <2> QED
    BY <1>6, <2>1, <2>2
<1>8. n > 1 => t # <<>>
  BY <1>1, <1>2
<1> QED
  BY <1>1, <1>2, <1>6, <1>7, <1>8 DEF n, t

LEMMA JoinRange ==
    ASSUME NEW a \in Seq(Database), NEW b \in Seq(Database)
    PROVE  a \o b \in Seq(Database) /\ Range(a \o b) = Range(a) \cup Range(b)
<1> DEFINE m == Len(a)
           n == Len(b)
           c == a \o b
<1>1. m \in Nat /\ n \in Nat /\ DOMAIN a = 1..m /\ DOMAIN b = 1..n
  OBVIOUS
<1>2. c \in Seq(Database) /\ Len(c) = m + n /\ DOMAIN c = 1..(m + n)
      /\ \A k \in 1..(m + n) : c[k] = IF k <= m THEN a[k] ELSE b[k - m]
  OBVIOUS
<1> HIDE DEF m, n, c
<1>3. ASSUME NEW k \in 1..(m + n) PROVE c[k] \in Range(a) \cup Range(b)
  <2>1. CASE k <= m
    <3>1. k \in 1..m
      BY <1>1, <2>1
    <3>2. c[k] = a[k]
      BY <1>2, <2>1
    <3> QED
      BY <1>1, <3>1, <3>2 DEF Range
  <2>2. CASE ~(k <= m)
    <3>1. k - m \in 1..n
      BY <1>1, <2>2
    <3>2. c[k] = b[k - m]
      BY <1>2, <2>2
    <3> QED
      BY <1>1, <3>1, <3>2 DEF Range
  <2> QED
    BY <2>1, <2>2
<1>4. ASSUME NEW k \in 1..m PROVE a[k] \in Range(c)
  <2>1. k \in 1..(m + n) /\ k <= m
    BY <1>1
  <2> QED
    BY <1>2, <2>1 DEF Range
<1>5. ASSUME NEW k \in 1..n PROVE b[k] \in Range(c)
  <2>1. k + m \in 1..(m + n) /\ ~(k + m <= m) /\ (k + m) - m = k
    BY <1>1
  <2>2. c[k + m] = b[k]
    BY <1>2, <2>1
  <2> QED
    BY <1>2, <2>1, <2>2 DEF Range
<1>6. Range(c) \subseteq Range(a) \cup Range(b)
  BY <1>2, <1>3 DEF Range
<1>7. Range(a) \subseteq Range(c) /\ Range(b) \subseteq Range(c)
  BY <1>1, <1>4, <1>5 DEF Range
<1> QED
  BY <1>2, <1>6, <1>7 DEF c

\* Without a backfill nothing is planned.
LEMMA NothingPlanned ==
    ASSUME bf' = NoBackfill
    PROVE  BfOK' /\ PlanOK'
<1>1. /\ NoBackfill.pc = "none" /\ NoBackfill.queue = <<>> /\ NoBackfill.todo = <<>>
      /\ NoBackfill \in Backfills
  BY DEF NoBackfill, Backfills
<1> QED
  BY <1>1 DEF BfOK, PlanOK, Planning

LEMMA BackfillKeeps ==
    ASSUME FilesOK, RowsOK, BfOK, BackfillRollups
    PROVE  BfOK' /\ PlanOK'
<1>1. up /\ UNCHANGED <<setting, up, settingVars, rows>>
  BY DEF BackfillRollups
<1>2. PICK asked \in setting.requests :
          bf' = [NoBackfill EXCEPT !.pc = "plan", !.asked = asked, !.had = UNION {rows[d] : d \in Database},
                     !.queue = InOrder(IF asked = {} THEN Candidates ELSE asked)]
  BY DEF BackfillRollups
<1> DEFINE start == IF asked = {} THEN Candidates ELSE asked
           had == UNION {rows[d] : d \in Database}
           queue == InOrder(start)
<1>3. asked \in SUBSET Database
  <2>1. setting \in Settings
    BY DEF FilesOK
  <2>2. setting.requests \subseteq SUBSET Database
    BY <2>1, SettingsAreFiles
  <2> QED
    BY <2>2
<1>4. start \subseteq Database
  BY <1>3 DEF Candidates, OnDisk
<1>5. queue \in Seq(Database) /\ Range(queue) = start
  BY <1>4, InOrderIs
<1>6. had \in SUBSET Row
  BY DEF RowsOK
<1>7. asked # {} => start = asked
  OBVIOUS
<1> HIDE DEF queue, had
<1>8. /\ bf'.pc = "plan" /\ bf'.queue = queue /\ bf'.asked = asked
      /\ bf'.seen = {} /\ bf'.sources = {} /\ bf'.dests = {}
  BY <1>2 DEF NoBackfill, queue, had
<1>9. bf' \in Backfills
  <2>1. bf' = [pc |-> "plan", queue |-> queue, seen |-> {}, sources |-> {}, dests |-> {},
               todo |-> <<>>, pass |-> 0, asked |-> asked, had |-> had]
    BY <1>2 DEF NoBackfill, queue, had
  <2>2. <<>> \in Seq(Database)
    OBVIOUS
  <2> QED
    BY <1>3, <1>5, <1>6, <2>1, <2>2 DEF Backfills
<1> HIDE DEF start
<1>10. BfOK'
  BY <1>1, <1>8, <1>9 DEF BfOK
<1>11. PlanSoFar(bf.seen \cup Range(bf.queue))'
  <2>1. asked \subseteq start
    BY <1>3 DEF start
  <2> QED
    BY <1>5, <1>7, <1>8, <2>1 DEF PlanSoFar
<1> QED
  BY <1>10, <1>11 DEF PlanOK


LEMMA PlanNextKeeps ==
    ASSUME IInv, LoadedOK, BfOK, PlanOK, PlanNext
    PROVE  BfOK' /\ PlanOK'
<1> DEFINE d    == Head(bf.queue)
           info == RollupInfo(d)
           dsts == {job.dst : job \in info.jobs}
           reached == bf.seen \cup Range(bf.queue)
<1>1. /\ bf.pc = "plan" /\ bf.queue # <<>> /\ UNCHANGED <<up, settingVars>>
      /\ bf' = IF d \in bf.seen THEN [bf EXCEPT !.queue = Tail(@)]
               ELSE IF info = Refused THEN NoBackfill
               ELSE IF ~Runs(info) THEN [bf EXCEPT !.queue = Tail(@), !.seen = @ \cup {d}]
               ELSE [bf EXCEPT !.queue = Enqueue(@, dsts), !.seen = @ \cup {d},
                               !.sources = @ \cup {d}, !.dests = @ \cup dsts]
  BY DEF PlanNext
<1>2. /\ bf \in Backfills /\ bf.queue \in Seq(Database) /\ bf.seen \subseteq Database
      /\ bf.sources \subseteq Database /\ bf.dests \subseteq Database
  BY DEF BfOK, Backfills
<1>3. d \in Database /\ Tail(bf.queue) \in Seq(Database) /\ Range(bf.queue) = {d} \cup Range(Tail(bf.queue))
  BY <1>1, <1>2, HeadAndTail
<1>4. \A x : RollupInfo(x)' = RollupInfo(x)
  BY <1>1 DEF RollupInfo, LoadExisting, settingVars
<1>5. \A x, y : Runs(RollupInfo(x))' = Runs(RollupInfo(x)) /\ Feeds(x, y)' = Feeds(x, y)
  BY <1>4 DEF Runs, Feeds
<1>6. Runs(defaults)' = Runs(defaults)
  BY <1>1 DEF Runs, settingVars
<1>7. ASSUME ~Runs(defaults) PROVE PlanSoFar(reached)
  BY <1>1, <1>7 DEF PlanOK, Planning
<1>8. ASSUME bf' \in Backfills, bf'.pc = "plan",
             ~Runs(defaults) => PlanSoFar(bf.seen \cup Range(bf.queue))'
      PROVE  BfOK' /\ PlanOK'
  <2>1. BfOK'
    BY <1>1, <1>8 DEF BfOK, NoBackfill
  <2> QED
    BY <1>6, <1>8, <2>1 DEF PlanOK
<1> HIDE DEF d
<1>9. CASE d \in bf.seen
  <2>1. bf' = [bf EXCEPT !.queue = Tail(@)]
    BY <1>1, <1>9
  <2>2. bf' \in Backfills /\ bf'.pc = "plan" /\ bf'.queue = Tail(bf.queue) /\ bf'.seen = bf.seen
        /\ bf'.sources = bf.sources /\ bf'.dests = bf.dests /\ bf'.asked = bf.asked
    BY <1>1, <1>2, <1>3, <2>1 DEF Backfills
  <2>3. (bf.seen \cup Range(bf.queue))' = reached
    BY <1>3, <1>9, <2>2
  <2>4. \A T : Closed(T)' <=> Closed(T)
    BY <1>5, <2>2 DEF Closed
  <2>5. ASSUME ~Runs(defaults) PROVE PlanSoFar(bf.seen \cup Range(bf.queue))'
    <3>1. PlanSoFar(reached)
      BY <1>7, <2>5
    <3> HIDE DEF reached
    <3>2. /\ bf'.asked \subseteq reached /\ bf'.dests \subseteq reached
          /\ \A s \in bf'.seen : RollupInfo(s)' # Refused
      BY <1>4, <2>2, <3>1 DEF PlanSoFar
    <3>3. bf'.sources = {s \in bf'.seen : Runs(RollupInfo(s))'}
      BY <1>5, <2>2, <3>1 DEF PlanSoFar
    <3>4. bf'.dests = {x \in Database : \E s \in bf'.seen : Feeds(s, x)'}
      BY <1>5, <2>2, <3>1 DEF PlanSoFar
    <3>5. bf'.asked # {} => \A T \in SUBSET Database : bf'.asked \subseteq T /\ Closed(T)' => reached \subseteq T
      BY <2>2, <2>4, <3>1 DEF PlanSoFar
    <3> QED
      BY <2>3, <3>2, <3>3, <3>4, <3>5 DEF PlanSoFar
  <2> QED
    BY <1>8, <2>2, <2>5
<1>10. CASE d \notin bf.seen /\ info = Refused
  BY <1>1, <1>10, NothingPlanned
<1>11. CASE d \notin bf.seen /\ info # Refused /\ ~Runs(info)
  <2>1. bf' = [bf EXCEPT !.queue = Tail(@), !.seen = @ \cup {d}]
    BY <1>1, <1>11
  <2>2. bf' \in Backfills /\ bf'.pc = "plan" /\ bf'.queue = Tail(bf.queue) /\ bf'.seen = bf.seen \cup {d}
        /\ bf'.sources = bf.sources /\ bf'.dests = bf.dests /\ bf'.asked = bf.asked
    <3> DEFINE seen == bf.seen \cup {d}
               queue == Tail(bf.queue)
    <3>1. seen \in SUBSET Database /\ queue \in Seq(Database)
      BY <1>2, <1>3
    <3>2. bf' = [bf EXCEPT !.queue = queue, !.seen = seen]
      BY <1>2, <2>1 DEF Backfills
    <3> HIDE DEF seen, queue
    <3>3. bf' \in Backfills
      BY <1>2, <3>1, <3>2 DEF Backfills
    <3>4. /\ bf'.pc = bf.pc /\ bf'.queue = queue /\ bf'.seen = seen
          /\ bf'.sources = bf.sources /\ bf'.dests = bf.dests /\ bf'.asked = bf.asked
      BY <1>2, <3>2 DEF Backfills
    <3> QED
      BY <1>1, <3>3, <3>4 DEF seen, queue
  <2>3. (bf.seen \cup Range(bf.queue))' = reached
    BY <1>3, <2>2
  <2>4. \A x : ~Feeds(d, x)
    BY <1>11 DEF Feeds
  <2>5. ASSUME ~Runs(defaults) PROVE PlanSoFar(bf.seen \cup Range(bf.queue))'
    <3>1. PlanSoFar(reached)
      BY <1>7, <2>5
    <3> HIDE DEF reached
    <3>2. /\ bf'.asked \subseteq reached /\ bf'.dests \subseteq reached
          /\ \A s \in bf'.seen : RollupInfo(s)' # Refused
      BY <1>4, <1>11, <2>2, <3>1 DEF PlanSoFar
    <3>3. bf'.sources = {s \in bf'.seen : Runs(RollupInfo(s))'}
      BY <1>5, <1>11, <2>2, <3>1 DEF PlanSoFar
    <3>4. bf'.dests = {x \in Database : \E s \in bf'.seen : Feeds(s, x)'}
      BY <1>5, <2>2, <2>4, <3>1 DEF PlanSoFar
    <3>5. \A T : Closed(T)' => Closed(T)
      BY <1>5, <2>2 DEF Closed
    <3>6. bf'.asked # {} => \A T \in SUBSET Database : bf'.asked \subseteq T /\ Closed(T)' => reached \subseteq T
      BY <2>2, <3>1, <3>5 DEF PlanSoFar
    <3> QED
      BY <2>3, <3>2, <3>3, <3>4, <3>6 DEF PlanSoFar
  <2> QED
    BY <1>8, <2>2, <2>5
<1>12. CASE d \notin bf.seen /\ Runs(info)
  <2>1. bf' = [bf EXCEPT !.queue = Enqueue(@, dsts), !.seen = @ \cup {d},
                         !.sources = @ \cup {d}, !.dests = @ \cup dsts]
    BY <1>1, <1>12 DEF Runs
  <2>2. dsts \subseteq Database
    BY <1>3, <1>12, InfoIs DEF IInv
  <2>3. \A x \in Database : Feeds(d, x) <=> x \in dsts
    BY <1>12 DEF Feeds
  <2>4. info # Refused
    BY <1>12 DEF Runs
  <2> HIDE DEF dsts
  <2> DEFINE queue == Enqueue(bf.queue, dsts)
  <2>5. queue \in Seq(Database) /\ Range(queue) = Range(Tail(bf.queue)) \cup dsts
    <3>1. InOrder(dsts) \in Seq(Database) /\ Range(InOrder(dsts)) = dsts
      BY <2>2, InOrderIs
    <3>2. queue = Tail(bf.queue) \o InOrder(dsts)
      BY DEF Enqueue
    <3> QED
      BY <1>3, <3>1, <3>2, JoinRange
  <2> HIDE DEF queue
  <2>6. /\ bf' \in Backfills /\ bf'.pc = "plan" /\ bf'.queue = queue /\ bf'.seen = bf.seen \cup {d}
        /\ bf'.sources = bf.sources \cup {d} /\ bf'.dests = bf.dests \cup dsts /\ bf'.asked = bf.asked
    <3> DEFINE seen == bf.seen \cup {d}
               sources == bf.sources \cup {d}
               dests == bf.dests \cup dsts
    <3>1. seen \in SUBSET Database /\ sources \in SUBSET Database /\ dests \in SUBSET Database
      BY <1>2, <1>3, <2>2
    <3>2. bf' = [bf EXCEPT !.queue = queue, !.seen = seen, !.sources = sources, !.dests = dests]
      BY <1>2, <2>1 DEF queue, Backfills
    <3> HIDE DEF seen, sources, dests
    <3>3. bf' \in Backfills
      BY <1>2, <2>5, <3>1, <3>2 DEF Backfills
    <3>4. /\ bf'.pc = bf.pc /\ bf'.queue = queue /\ bf'.seen = seen
          /\ bf'.sources = sources /\ bf'.dests = dests /\ bf'.asked = bf.asked
      BY <1>2, <3>2 DEF Backfills
    <3> QED
      BY <1>1, <3>3, <3>4 DEF seen, sources, dests
  <2>7. (bf.seen \cup Range(bf.queue))' = reached \cup dsts
    BY <1>3, <2>5, <2>6
  <2>8. d \in reached
    BY <1>3
  <2>9. ASSUME ~Runs(defaults) PROVE PlanSoFar(bf.seen \cup Range(bf.queue))'
    <3>1. PlanSoFar(reached)
      BY <1>7, <2>9
    <3> HIDE DEF reached
    <3> DEFINE after == reached \cup dsts
    <3>2. /\ bf'.asked \subseteq after /\ bf'.dests \subseteq after
          /\ \A s \in bf'.seen : RollupInfo(s)' # Refused
      BY <1>4, <2>4, <2>6, <3>1 DEF PlanSoFar
    <3>3. bf'.sources = {s \in bf'.seen : Runs(RollupInfo(s))'}
      BY <1>5, <1>12, <2>6, <3>1 DEF PlanSoFar
    <3>4. bf'.dests = {x \in Database : \E s \in bf'.seen : Feeds(s, x)'}
      <4>1. bf.dests = {x \in Database : \E s \in bf.seen : Feeds(s, x)}
        BY <3>1 DEF PlanSoFar
      <4>2. \A x \in Database : (\E s \in bf'.seen : Feeds(s, x)')
                                <=> (\E s \in bf.seen : Feeds(s, x)) \/ x \in dsts
        BY <1>5, <2>3, <2>6
      <4> QED
        BY <2>2, <2>6, <4>1, <4>2
    <3>5. ASSUME NEW T \in SUBSET Database, bf.asked # {}, bf.asked \subseteq T, Closed(T)'
          PROVE  after \subseteq T
      <4>1. Closed(T)
        BY <1>5, <2>6, <3>5 DEF Closed
      <4>2. reached \subseteq T
        BY <3>1, <3>5, <4>1 DEF PlanSoFar
      <4>3. d \in T /\ d \in bf'.seen
        BY <2>6, <2>8, <4>2
      <4>4. \A x \in Database : Feeds(d, x) => x \in T
        BY <1>5, <3>5, <4>3 DEF Closed
      <4> QED
        BY <2>2, <2>3, <4>2, <4>4
    <3> QED
      BY <2>6, <2>7, <3>2, <3>3, <3>4, <3>5 DEF PlanSoFar
  <2> QED
    BY <1>8, <2>6, <2>9
<1> QED
  BY <1>9, <1>10, <1>11, <1>12


LEMMA PlannedKeeps ==
    ASSUME BfOK, PlanOK, Planned
    PROVE  BfOK' /\ PlanOK'
<1>1. /\ bf.pc = "plan" /\ bf.queue = <<>> /\ UNCHANGED <<up, settingVars>>
      /\ bf' = IF bf.sources = {} THEN NoBackfill
               ELSE [bf EXCEPT !.pc = "reset", !.todo = InOrder(bf.dests)]
  BY DEF Planned
<1>2. bf \in Backfills /\ bf.dests \subseteq Database
  BY DEF BfOK, Backfills
<1>3. CASE bf.sources = {}
  BY <1>1, <1>3, NothingPlanned
<1>4. CASE bf.sources # {}
  <2> DEFINE todo == InOrder(bf.dests)
  <2>1. todo \in Seq(Database) /\ Cardinality(bf.dests) \in Nat /\ Len(todo) = Cardinality(bf.dests)
    BY <1>2, InOrderIs
  <2> HIDE DEF todo
  <2>2. bf' = [bf EXCEPT !.pc = "reset", !.todo = todo]
    BY <1>1, <1>4 DEF todo
  <2>3. bf' \in Backfills
    BY <1>2, <2>1, <2>2 DEF Backfills
  <2>4. /\ bf'.pc = "reset" /\ bf'.todo = todo /\ bf'.queue = bf.queue /\ bf'.seen = bf.seen
        /\ bf'.sources = bf.sources /\ bf'.dests = bf.dests /\ bf'.asked = bf.asked
    BY <1>2, <2>2 DEF Backfills
  <2>5. up /\ up'
    BY <1>1 DEF BfOK, NoBackfill
  <2>6. BfOK'
    BY <1>1, <1>4, <2>1, <2>3, <2>4, <2>5 DEF BfOK
  <2>7. \A x : RollupInfo(x)' = RollupInfo(x)
    BY <1>1 DEF RollupInfo, LoadExisting, settingVars
  <2>8. \A x, y : Runs(RollupInfo(x))' = Runs(RollupInfo(x)) /\ Feeds(x, y)' = Feeds(x, y)
    BY <2>7 DEF Runs, Feeds
  <2>9. \A T : Closed(T)' <=> Closed(T)
    BY <2>4, <2>8 DEF Closed
  <2> DEFINE reached == bf.seen \cup Range(bf.queue)
  <2>10. reached' = reached
    BY <2>4
  <2>11. ASSUME ~Runs(defaults) PROVE PlanSoFar(reached)'
    <3>1. PlanSoFar(reached)
      BY <1>1, <2>11 DEF PlanOK, Planning
    <3> HIDE DEF reached
    <3> QED
      BY <2>4, <2>7, <2>8, <2>9, <2>10, <3>1 DEF PlanSoFar
  <2>12. Runs(defaults)' = Runs(defaults)
    BY <1>1 DEF Runs, settingVars
  <2> QED
    BY <2>6, <2>11, <2>12 DEF PlanOK
<1> QED
  BY <1>3, <1>4

\* Once a destination is reset, or nothing is planned, there is no plan to keep.
LEMMA PlanPast ==
    ASSUME bf' \in Backfills, bf'.pc \in {"reset", "clear", "rebuild", "done"}, up,
           up' = up, bf'.sources # {},
           bf'.pc \in {"clear", "rebuild"} => bf'.todo # <<>>,
           bf'.pc = "reset" => bf'.queue = <<>> /\ Len(bf'.todo) < Cardinality(bf'.dests)
    PROVE  BfOK' /\ PlanOK'
<1>1. bf'.dests \subseteq Database /\ bf'.todo \in Seq(Database)
  BY DEF Backfills
<1>2. Len(InOrder(bf'.dests)) = Cardinality(bf'.dests) /\ Cardinality(bf'.dests) \in Nat
      /\ Len(bf'.todo) \in Nat
  BY <1>1, InOrderIs
<1>3. bf'.pc = "reset" => bf'.todo # InOrder(bf'.dests) /\ Len(bf'.todo) <= Cardinality(bf'.dests)
  BY <1>2
<1>4. (bf \in Backfills)'
  BY DEF Backfills, Row
<1>5. BfOK'
  BY <1>3, <1>4 DEF BfOK
<1>6. PlanOK'
  BY <1>3 DEF PlanOK, Planning
<1> QED
  BY <1>5, <1>6

LEMMA ResetKeeps ==
    ASSUME LoadedOK, RowsOK, BfOK, ResetDestination
    PROVE  LoadedOK' /\ RowsOK' /\ BfOK' /\ PlanOK'
<1>1. /\ bf.pc = "reset" /\ bf.todo # <<>> /\ UNCHANGED <<up, defaults>>
      /\ loaded' = [loaded EXCEPT ![Head(bf.todo)] = Nothing]
      /\ rows' = [rows EXCEPT ![Head(bf.todo)] = {}]
      /\ bf' = IF Len(bf.todo) > 1 THEN [bf EXCEPT !.todo = Tail(@)]
               ELSE [bf EXCEPT !.pc = "clear", !.todo = InOrder(bf.sources)]
  BY DEF ResetDestination
<1>2. /\ bf \in Backfills /\ bf.todo \in Seq(Database) /\ bf.sources # {} /\ up
      /\ bf.sources \subseteq Database /\ bf.dests \subseteq Database
      /\ bf.queue = <<>> /\ Len(bf.todo) <= Cardinality(bf.dests)
  BY <1>1 DEF BfOK, Backfills, NoBackfill
<1>3. Tail(bf.todo) \in Seq(Database) /\ Len(Tail(bf.todo)) = Len(bf.todo) - 1 /\ Len(bf.todo) \in Nat
  BY <1>1, <1>2, HeadAndTail
<1>4. InOrder(bf.sources) \in Seq(Database) /\ InOrder(bf.sources) # <<>>
  BY <1>2, InOrderIs
<1>5. Cardinality(bf.dests) \in Nat
  BY <1>2, InOrderIs
<1>6. LoadedOK'
  BY <1>1 DEF LoadedOK
<1>7. RowsOK'
  BY <1>1 DEF RowsOK
<1>8. CASE Len(bf.todo) > 1
  <2>1. bf' = [bf EXCEPT !.todo = Tail(bf.todo)]
    BY <1>1, <1>2, <1>8 DEF Backfills
  <2>2. /\ bf'.pc = "reset" /\ bf'.todo = Tail(bf.todo) /\ bf'.queue = <<>>
        /\ bf'.sources = bf.sources /\ bf'.dests = bf.dests /\ bf' \in Backfills
    BY <1>1, <1>2, <1>3, <2>1 DEF Backfills
  <2>3. Len(bf'.todo) < Cardinality(bf'.dests)
    BY <1>2, <1>3, <1>5, <2>2
  <2> QED
    BY <1>1, <1>2, <1>6, <1>7, <2>2, <2>3, PlanPast
<1>9. CASE ~(Len(bf.todo) > 1)
  <2>1. bf' = [bf EXCEPT !.pc = "clear", !.todo = InOrder(bf.sources)]
    BY <1>1, <1>9
  <2>2. bf'.pc = "clear" /\ bf'.todo = InOrder(bf.sources) /\ bf'.sources = bf.sources /\ bf' \in Backfills
    BY <1>2, <1>4, <2>1 DEF Backfills
  <2> QED
    BY <1>1, <1>2, <1>4, <1>6, <1>7, <2>2, PlanPast
<1> QED
  BY <1>8, <1>9

LEMMA ClearKeeps ==
    ASSUME BfOK, ClearCheckpoint
    PROVE  BfOK' /\ PlanOK'
<1>1. /\ bf.pc = "clear" /\ UNCHANGED up
      /\ bf' = IF Len(bf.todo) > 1 THEN [bf EXCEPT !.todo = Tail(@)]
               ELSE [bf EXCEPT !.pc = "rebuild", !.todo = InOrder(bf.sources)]
  BY DEF ClearCheckpoint
<1>2. /\ bf \in Backfills /\ bf.todo \in Seq(Database) /\ bf.sources # {} /\ up /\ bf.todo # <<>>
      /\ bf.sources \subseteq Database
  BY <1>1 DEF BfOK, Backfills, NoBackfill
<1>3. Tail(bf.todo) \in Seq(Database) /\ (Len(bf.todo) > 1 => Tail(bf.todo) # <<>>)
  BY <1>2, HeadAndTail
<1>4. InOrder(bf.sources) \in Seq(Database) /\ InOrder(bf.sources) # <<>>
  BY <1>2, InOrderIs
<1>5. CASE Len(bf.todo) > 1
  <2>1. bf' = [bf EXCEPT !.todo = Tail(bf.todo)]
    BY <1>1, <1>2, <1>5 DEF Backfills
  <2>2. /\ bf'.pc = "clear" /\ bf'.todo = Tail(bf.todo) /\ bf'.sources = bf.sources /\ bf' \in Backfills
    BY <1>1, <1>2, <1>3, <2>1 DEF Backfills
  <2> QED
    BY <1>1, <1>2, <1>3, <1>5, <2>2, PlanPast
<1>6. CASE ~(Len(bf.todo) > 1)
  <2>1. bf' = [bf EXCEPT !.pc = "rebuild", !.todo = InOrder(bf.sources)]
    BY <1>1, <1>6
  <2>2. bf'.pc = "rebuild" /\ bf'.todo = InOrder(bf.sources) /\ bf'.sources = bf.sources /\ bf' \in Backfills
    BY <1>2, <1>4, <2>1 DEF Backfills
  <2> QED
    BY <1>1, <1>2, <1>4, <2>2, PlanPast
<1> QED
  BY <1>5, <1>6

LEMMA RebuildKeeps ==
    ASSUME IInv, LoadedOK, RowsOK, BfOK, Rebuild
    PROVE  LoadedOK' /\ RowsOK' /\ BfOK' /\ PlanOK'
<1>1. /\ bf.pc = "rebuild" /\ UNCHANGED <<up, defaults>> /\ TriggerRollups(Head(bf.todo))
      /\ bf' = IF Len(bf.todo) > 1 THEN [bf EXCEPT !.todo = Tail(@)]
               ELSE IF bf.pass + 1 < Passes(Cardinality(bf.sources))
                 THEN [bf EXCEPT !.todo = InOrder(bf.sources), !.pass = @ + 1]
                 ELSE [bf EXCEPT !.pc = "done", !.todo = <<>>]
  BY DEF Rebuild
<1>2. /\ bf \in Backfills /\ bf.todo \in Seq(Database) /\ bf.sources # {} /\ up /\ bf.todo # <<>>
      /\ bf.sources \subseteq Database
  BY <1>1 DEF BfOK, Backfills, NoBackfill
<1>3. Tail(bf.todo) \in Seq(Database) /\ (Len(bf.todo) > 1 => Tail(bf.todo) # <<>>) /\ Head(bf.todo) \in Database
  BY <1>2, HeadAndTail
<1>4. InOrder(bf.sources) \in Seq(Database) /\ InOrder(bf.sources) # <<>> /\ <<>> \in Seq(Database)
  BY <1>2, InOrderIs
<1>5. LoadedOK' /\ RowsOK'
  BY <1>1, <1>3, TriggerKeeps
<1>6. CASE Len(bf.todo) > 1
  <2>1. bf' = [bf EXCEPT !.todo = Tail(bf.todo)]
    BY <1>1, <1>2, <1>6 DEF Backfills
  <2>2. /\ bf'.pc = "rebuild" /\ bf'.todo = Tail(bf.todo) /\ bf'.sources = bf.sources /\ bf' \in Backfills
    BY <1>1, <1>2, <1>3, <2>1 DEF Backfills
  <2> QED
    BY <1>1, <1>2, <1>3, <1>5, <1>6, <2>2, PlanPast
<1>7. CASE ~(Len(bf.todo) > 1) /\ bf.pass + 1 < Passes(Cardinality(bf.sources))
  <2>1. bf.pass + 1 \in Nat
    BY <1>2 DEF Backfills
  <2>2. bf' = [bf EXCEPT !.todo = InOrder(bf.sources), !.pass = bf.pass + 1]
    BY <1>1, <1>2, <1>7 DEF Backfills
  <2>3. bf'.pc = "rebuild" /\ bf'.todo = InOrder(bf.sources) /\ bf'.sources = bf.sources
    BY <1>1, <1>2, <2>2 DEF Backfills
  <2>4. bf' \in Backfills
    BY <1>2, <1>4, <2>1, <2>2 DEF Backfills
  <2> QED
    BY <1>1, <1>2, <1>4, <1>5, <2>3, <2>4, PlanPast
<1>8. CASE ~(Len(bf.todo) > 1) /\ ~(bf.pass + 1 < Passes(Cardinality(bf.sources)))
  <2>1. bf' = [bf EXCEPT !.pc = "done", !.todo = <<>>]
    BY <1>1, <1>8
  <2>2. bf'.pc = "done" /\ bf'.sources = bf.sources /\ bf' \in Backfills
    BY <1>2, <1>4, <2>1 DEF Backfills
  <2> QED
    BY <1>1, <1>2, <1>5, <2>2, PlanPast
<1> QED
  BY <1>6, <1>7, <1>8


LEMMA BNextOK ==
    ASSUME BInv, [Next]_vars
    PROVE  BInv'
<1>1. IInv /\ FilesOK /\ RanOK /\ LoadedOK /\ RowsOK /\ BfOK /\ PlanOK
  BY DEF BInv, IInv
<1>2. IInv'
  BY <1>1, NextOK
<1> SUFFICES LoadedOK' /\ RowsOK' /\ BfOK' /\ PlanOK'
  BY <1>2 DEF BInv
\* Steps that leave the settings and the backfill alone.
<1>3. ASSUME UNCHANGED <<setting, up, settingVars, bf>> PROVE LoadedOK' /\ BfOK' /\ PlanOK'
  <2>1. LoadedOK'
    BY <1>1, <1>3 DEF LoadedOK, settingVars
  <2>2. BfOK'
    BY <1>1, <1>3 DEF BfOK, Backfills, Row, NoBackfill
  <2>3. defaults' = defaults /\ InfosKept
    BY <1>3, SameInfos DEF settingVars
  <2> QED
    BY <1>1, <1>3, <2>1, <2>2, <2>3, PlanStays
\* Steps while no engine is open.
<1>4. ASSUME bf' = bf, bf = NoBackfill PROVE BfOK' /\ PlanOK'
  BY <1>4, NothingPlanned
<1>5. CASE Start
  <2>1. ~up /\ UNCHANGED <<loaded, rows, bf>>
    BY <1>5 DEF Start, OpenEngine
  <2> QED
    BY <1>1, <1>4, <2>1 DEF LoadedOK, RowsOK, BfOK
<1>6. CASE Stop
  <2>1. /\ bf' = NoBackfill /\ UNCHANGED rows
        /\ loaded' = [d \in Database |-> Nothing]
    BY <1>6 DEF Stop, StopEngine
  <2> QED
    BY <1>1, <2>1, NothingPlanned DEF LoadedOK, RowsOK
<1>7. CASE Edit
  <2>1. ~up /\ UNCHANGED <<loaded, rows, bf>>
    BY <1>7 DEF Edit, EditConfig, EditManifest
  <2> QED
    BY <1>1, <1>4, <2>1 DEF LoadedOK, RowsOK, BfOK
<1>8. ASSUME NEW d \in Database, Access(d) PROVE LoadedOK' /\ RowsOK' /\ BfOK' /\ PlanOK'
  <2>1. /\ OpenAll({d}, {}, [x \in Database |-> defaults]) /\ defaults' = defaults
        /\ UNCHANGED <<setting, up, rows, bf>>
    BY <1>8 DEF Access, Open
  <2>2. LoadedOK' /\ (~Runs(defaults) => InfosKept)
    <3> DEFINE def == [x \in Database |-> defaults]
    <3>1. \A x \in Database : def[x] = defaults \/ \E long : def[x] = RollupDefaults(long)
      OBVIOUS
    <3> HIDE DEF def
    <3>2. OpenAll({d}, {}, def)
      BY <2>1 DEF def
    <3> QED
      BY <1>1, <2>1, <3>1, <3>2, OpensKeep
  <2>3. BfOK'
    BY <1>1, <2>1 DEF BfOK, Backfills, Row, NoBackfill
  <2>4. RowsOK'
    BY <1>1, <2>1 DEF RowsOK, Row
  <2> QED
    BY <1>1, <2>1, <2>2, <2>3, <2>4, PlanStays
<1>9. ASSUME NEW d \in Database, Ingest(d) PROVE LoadedOK' /\ RowsOK' /\ BfOK' /\ PlanOK'
  <2>1. PICK base \in setting.ingested[d] :
            rows' = [rows EXCEPT ![d] = @ \cup {[base |-> base, path |-> <<d>>]}]
    BY <1>9 DEF Ingest
  <2> DEFINE row == [base |-> base, path |-> <<d>>]
  <2>2. base \in Base
    <3>1. setting \in Settings
      BY <1>1 DEF FilesOK
    <3>2. setting.ingested \in [Database -> SUBSET Base]
      BY <3>1, SettingsAreFiles
    <3> QED
      BY <3>2
  <2>3. row \in Row /\ row.path[Len(row.path)] = d
    <3>1. <<d>> \in Seq(Database) /\ Len(<<d>>) = 1 /\ <<d>>[1] = d /\ MaxHops \in Nat
      OBVIOUS
    <3>2. Len(<<d>>) \in 1..(MaxHops + 1)
      BY <3>1
    <3>3. row.path = <<d>> /\ row \in [base : Base, path : Seq(Database)]
      BY <2>2, <3>1
    <3> HIDE DEF row
    <3> QED
      BY <3>1, <3>2, <3>3 DEF Row
  <2> HIDE DEF row
  <2>4. rows' = [rows EXCEPT ![d] = @ \cup {row}]
    BY <2>1 DEF row
  <2>5. RowsOK'
    BY <1>1, <2>3, <2>4 DEF RowsOK
  <2> QED
    BY <1>3, <1>9, <2>5 DEF Ingest
<1>10. ASSUME NEW d \in Database, Trigger(d) PROVE LoadedOK' /\ RowsOK' /\ BfOK' /\ PlanOK'
  <2>1. TriggerRollups(d) /\ UNCHANGED <<setting, up, config, defaults, bf>>
    BY <1>10 DEF Trigger
  <2>2. LoadedOK' /\ RowsOK' /\ (~Runs(defaults) => InfosKept)
    BY <1>1, <2>1, TriggerKeeps
  <2>3. BfOK'
    BY <1>1, <2>1 DEF BfOK, Backfills, Row, NoBackfill
  <2> QED
    BY <1>1, <2>1, <2>2, <2>3, PlanStays
<1>11. CASE BackfillRollups
  <2>1. UNCHANGED <<loaded, rows>>
    BY <1>11 DEF BackfillRollups, settingVars
  <2> QED
    BY <1>1, <1>11, <2>1, BackfillKeeps DEF LoadedOK, RowsOK
<1>12. CASE PlanNext
  <2>1. UNCHANGED <<loaded, rows>>
    BY <1>12 DEF PlanNext, settingVars
  <2> QED
    BY <1>1, <1>12, <2>1, PlanNextKeeps DEF LoadedOK, RowsOK
<1>13. CASE Planned
  <2>1. UNCHANGED <<loaded, rows>>
    BY <1>13 DEF Planned, settingVars
  <2> QED
    BY <1>1, <1>13, <2>1, PlannedKeeps DEF LoadedOK, RowsOK
<1>14. CASE ResetDestination
  BY <1>1, <1>14, ResetKeeps
<1>15. CASE ClearCheckpoint
  <2>1. UNCHANGED <<loaded, rows>>
    BY <1>15 DEF ClearCheckpoint, settingVars
  <2> QED
    BY <1>1, <1>15, <2>1, ClearKeeps DEF LoadedOK, RowsOK
<1>16. CASE Rebuild
  BY <1>1, <1>16, RebuildKeeps
<1>17. CASE UNCHANGED vars
  BY <1>1, <1>3, <1>17 DEF vars, RowsOK
<1> QED
  BY <1>5, <1>6, <1>7, <1>8, <1>9, <1>10, <1>11, <1>12, <1>13, <1>14, <1>15, <1>16, <1>17 DEF Next

LEMMA BInitOK == Init => BInv
<1> SUFFICES ASSUME Init PROVE BInv
  OBVIOUS
<1>1. /\ IInv /\ bf = NoBackfill
      /\ loaded = [d \in Database |-> Nothing] /\ rows = [d \in Database |-> {}]
  BY InitOK DEF Init
<1>2. /\ NoBackfill.pc = "none" /\ NoBackfill \in Backfills
  BY DEF NoBackfill, Backfills
<1> QED
  BY <1>1, <1>2 DEF BInv, LoadedOK, RowsOK, BfOK, PlanOK, Planning

\* Settings, rows and the plan of a backfill are what the theorems below need them to be.
THEOREM BackfillInvariance == Spec => []BInv
<1>1. Init => BInv
  BY BInitOK
<1>2. BInv /\ [Next]_vars => BInv'
  BY BNextOK
<1> QED
  BY <1>1, <1>2, PTL DEF Spec

\* GetMetricRollupDownstream names every database a row went to through jobs on its very
\* name, however many rollups that took, for any databases, settings and rows.
THEOREM LineageCoversEveryRow == Spec => []LineageCoversRows
<1>1. BInv => LineageCoversRows
  BY Covered DEF BInv, IInv
<1> QED
  BY <1>1, BackfillInvariance, PTL


(***************************************************************************)
(* What rollups reach.                                                     *)
(***************************************************************************)

\* What T feeds, added to it.
Nearer(T) == T \cup {d \in Database : \E s \in T : Feeds(s, d)}

LEMMA ReachLevels ==
    ASSUME NEW asked \in SUBSET Database
    PROVE  \E near : /\ Reach(asked) = near[Cardinality(Database)]
                     /\ near[0] = asked
                     /\ \A n \in 1..Cardinality(Database) : near[n] = Nearer(near[n - 1])
                     /\ \A n \in 0..Cardinality(Database) : near[n] \in SUBSET Database
<1> DEFINE N == Cardinality(Database)
           Def(t) == [n \in 0..N |-> IF n = 0 THEN asked ELSE Nearer(t[n - 1])]
           near == CHOOSE t : t = Def(t)
<1>1. N \in Nat
  BY FS_CardinalityType
<1>2. Reach(asked) = near[N]
  BY DEF Reach, Nearer
<1> HIDE DEF N
<1>3. PICK t : t \in [0..N -> SUBSET Database] /\ t = Def(t)
  <2> DEFINE step == [n \in 1..N |-> [T \in SUBSET Database |-> Nearer(T)]]
  <2>1. \A T \in SUBSET Database : Nearer(T) \in SUBSET Database
    BY DEF Nearer
  <2>2. step \in [1..N -> [SUBSET Database -> SUBSET Database]]
    BY <2>1
  <2>3. \A n \in 1..N : \A T \in SUBSET Database : step[n][T] = Nearer(T)
    OBVIOUS
  <2> HIDE DEF step
  <2>4. PICK t : Recursive(t, N, SUBSET Database, asked, step)
    BY <1>1, <2>2, Recursion
  <2>5. \A n \in 0..N : n = 0 \/ (n \in 1..N /\ n - 1 \in 0..N)
    BY <1>1
  <2>6. \A n \in 0..N : t[n] = IF n = 0 THEN asked ELSE Nearer(t[n - 1])
    BY <2>3, <2>4, <2>5 DEF Recursive
  <2>7. t \in [0..N -> SUBSET Database] /\ t = [n \in 0..N |-> t[n]]
    BY <2>4 DEF Recursive
  <2>8. t = Def(t)
    BY <2>6, <2>7
  <2> QED
    BY <2>7, <2>8
<1>4. near = Def(near)
  BY <1>3
<1>5. \A n \in 0..N : near[n] = IF n = 0 THEN asked ELSE Nearer(near[n - 1])
  BY <1>4
<1> HIDE DEF near
<1>6. near[0] = asked /\ \A n \in 1..N : near[n] = Nearer(near[n - 1])
  BY <1>1, <1>5
<1>7. \A n \in 0..N : near[n] \in SUBSET Database
  <2> DEFINE T == {n \in 0..N : near[n] \in SUBSET Database}
  <2>1. 0 \in T
    <3>1. 0 \in 0..N /\ near[0] = asked
      BY <1>1, <1>6
    <3> QED
      BY <3>1
  <2>2. ASSUME NEW k \in T, k \in 0..N, k < N PROVE k + 1 \in T
    <3>1. k + 1 \in 1..N /\ k + 1 \in 0..N /\ (k + 1) - 1 = k
      BY <1>1, <2>2
    <3> QED
      BY <1>6, <3>1 DEF Nearer
  <2> HIDE DEF T
  <2>3. \A k \in 0..N : k \in T
    BY <1>1, <2>1, <2>2, Induct
  <2> QED
    BY <2>3 DEF T
<1> QED
  BY <1>2, <1>6, <1>7 DEF N

\* Reach is the least set that has the databases asked for and whatever it feeds: each level
\* has a database more than the one before until nothing is added.
LEMMA ReachIs ==
    ASSUME NEW asked \in SUBSET Database
    PROVE  /\ asked \subseteq Reach(asked) /\ Reach(asked) \subseteq Database
           /\ \A s \in Reach(asked) : \A d \in Database : Feeds(s, d) => d \in Reach(asked)
           /\ \A T : asked \subseteq T /\ (\A s \in T : \A d \in Database : Feeds(s, d) => d \in T)
                     => Reach(asked) \subseteq T
<1> DEFINE N == Cardinality(Database)
           Whole(T) == \A s \in T : \A d \in Database : Feeds(s, d) => d \in T
<1>1. N \in Nat /\ IsFiniteSet(Database)
  BY FS_CardinalityType
<1>2. PICK near : /\ Reach(asked) = near[N] /\ near[0] = asked
                  /\ \A n \in 1..N : near[n] = Nearer(near[n - 1])
                  /\ \A n \in 0..N : near[n] \in SUBSET Database
  BY ReachLevels
<1>3. \A n \in 0..N : IsFiniteSet(near[n]) /\ Cardinality(near[n]) \in Nat /\ Cardinality(near[n]) <= N
  BY <1>1, <1>2, FS_Subset, FS_CardinalityType
<1>4. \A T : T \subseteq Nearer(T) /\ (Whole(T) <=> Nearer(T) = T)
  BY DEF Nearer
<1> HIDE DEF N, Whole
<1>5. \A n \in 0..N : asked \subseteq near[n] /\ (Whole(near[n]) \/ n <= Cardinality(near[n]))
  <2> DEFINE Good == {n \in 0..N : asked \subseteq near[n] /\ (Whole(near[n]) \/ n <= Cardinality(near[n]))}
  <2>1. 0 \in Good
    BY <1>1, <1>2, <1>3
  <2>2. ASSUME NEW k \in Good, k \in 0..N, k < N PROVE k + 1 \in Good
    <3>1. k + 1 \in 1..N /\ k + 1 \in 0..N /\ (k + 1) - 1 = k
      BY <1>1, <2>2
    <3>2. near[k + 1] = Nearer(near[k])
      BY <1>2, <3>1
    <3>3. near[k] \subseteq near[k + 1] /\ asked \subseteq near[k + 1]
      BY <1>4, <3>2
    <3>4. CASE Whole(near[k])
      <4>1. near[k + 1] = near[k]
        BY <1>4, <3>2, <3>4
      <4> QED
        BY <3>1, <3>3, <3>4, <4>1
    <3>5. CASE ~Whole(near[k])
      <4>1. near[k] # near[k + 1]
        BY <1>4, <3>2, <3>5
      <4>2. /\ IsFiniteSet(near[k + 1]) /\ Cardinality(near[k + 1]) \in Nat
            /\ Cardinality(near[k]) \in Nat
        BY <1>3, <2>2, <3>1
      <4>3. /\ Cardinality(near[k]) <= Cardinality(near[k + 1])
            /\ Cardinality(near[k]) # Cardinality(near[k + 1])
        BY <3>3, <4>1, <4>2, FS_Subset
      <4>4. k <= Cardinality(near[k])
        BY <3>5
      <4>5. k + 1 <= Cardinality(near[k + 1])
        BY <2>2, <4>2, <4>3, <4>4
      <4> QED
        BY <3>1, <3>3, <4>5
    <3> QED
      BY <3>4, <3>5
  <2> HIDE DEF Good
  <2>3. \A k \in 0..N : k \in Good
    BY <1>1, <2>1, <2>2, Induct
  <2> QED
    BY <2>3 DEF Good
<1>6. N \in 0..N
  BY <1>1
<1>7. asked \subseteq Reach(asked) /\ Reach(asked) \subseteq Database
  BY <1>2, <1>5, <1>6
<1>8. Whole(Reach(asked))
  <2>1. CASE Whole(near[N])
    BY <1>2, <2>1
  <2>2. CASE N <= Cardinality(near[N])
    <3>1. Cardinality(near[N]) = Cardinality(Database) /\ near[N] \subseteq Database
      BY <1>1, <1>2, <1>3, <1>6, <2>2 DEF N
    <3>2. near[N] = Database
      BY <1>1, <3>1, FS_Subset
    <3> QED
      BY <1>2, <3>2 DEF Whole
  <2> QED
    BY <1>5, <1>6, <2>1, <2>2
<1>9. ASSUME NEW T, asked \subseteq T, Whole(T) PROVE Reach(asked) \subseteq T
  <2> DEFINE Good == {n \in 0..N : near[n] \subseteq T}
  <2>1. 0 \in Good
    <3>1. 0 \in 0..N /\ near[0] = asked
      BY <1>1, <1>2
    <3> QED
      BY <1>9, <3>1
  <2>2. ASSUME NEW k \in Good, k \in 0..N, k < N PROVE k + 1 \in Good
    <3>1. k + 1 \in 1..N /\ k + 1 \in 0..N /\ (k + 1) - 1 = k
      BY <1>1, <2>2
    <3>2. near[k + 1] = Nearer(near[k])
      BY <1>2, <3>1
    <3>3. Nearer(near[k]) \subseteq T
      BY <1>9 DEF Nearer, Whole
    <3> QED
      BY <3>1, <3>2, <3>3
  <2> HIDE DEF Good
  <2>3. \A k \in 0..N : k \in Good
    BY <1>1, <2>1, <2>2, Induct
  <2> QED
    BY <1>2, <1>6, <2>3 DEF Good
<1> QED
  BY <1>7, <1>8, <1>9 DEF Whole

LEMMA ClosedPlan ==
    ASSUME BfOK, PlanOK
    PROVE  PlanIsClosed
<1> SUFFICES ASSUME bf.pc = "reset", bf.todo = InOrder(bf.dests), ~Runs(defaults)
             PROVE  LET all == Reach(IF bf.asked = {} THEN bf.seen ELSE bf.asked) IN
                    /\ bf.seen = all
                    /\ bf.sources = {s \in all : Runs(RollupInfo(s))}
                    /\ bf.dests = {d \in Database : \E s \in all : Feeds(s, d)}
  BY DEF PlanIsClosed
<1> DEFINE asked == IF bf.asked = {} THEN bf.seen ELSE bf.asked
<1>1. bf.queue = <<>> /\ bf.seen \subseteq Database /\ bf.asked \subseteq Database
  BY DEF BfOK, Backfills
<1>2. Range(bf.queue) = {}
  BY <1>1 DEF Range
<1>3. PlanSoFar(bf.seen \cup Range(bf.queue))
  BY DEF PlanOK, Planning
<1>4. PlanSoFar(bf.seen)
  <2>1. bf.seen \cup Range(bf.queue) = bf.seen
    BY <1>2
  <2> QED
    BY <1>3, <2>1
<1>5. asked \in SUBSET Database /\ asked \subseteq bf.seen
  BY <1>1, <1>4 DEF PlanSoFar
<1>6. \A s \in bf.seen : \A d \in Database : Feeds(s, d) => d \in bf.seen
  BY <1>4 DEF PlanSoFar
<1>7. bf.asked # {} => asked = bf.asked
  OBVIOUS
<1>8. bf.asked = {} => asked = bf.seen
  OBVIOUS
<1> HIDE DEF asked
<1>9. Reach(asked) \subseteq bf.seen
  BY <1>5, <1>6, ReachIs
<1>10. asked \subseteq Reach(asked) /\ Reach(asked) \in SUBSET Database
       /\ \A s \in Reach(asked) : \A d \in Database : Feeds(s, d) => d \in Reach(asked)
  BY <1>5, ReachIs
<1>11. Closed(Reach(asked))
  BY <1>10 DEF Closed
<1>12. bf.seen \subseteq Reach(asked)
  <2>1. CASE bf.asked = {}
    BY <1>8, <1>10, <2>1
  <2>2. CASE bf.asked # {}
    BY <1>4, <1>7, <1>10, <1>11, <2>2 DEF PlanSoFar
  <2> QED
    BY <2>1, <2>2
<1>13. Reach(asked) = bf.seen
  BY <1>9, <1>12
<1>14. bf.sources = {s \in bf.seen : Runs(RollupInfo(s))}
       /\ bf.dests = {d \in Database : \E s \in bf.seen : Feeds(s, d)}
  BY <1>4 DEF PlanSoFar
<1> QED
  BY <1>13, <1>14 DEF asked

\* planRollupBackfill ends with the databases that rollups of those asked for reach, and no
\* other, with the destinations and sources among them, whatever is opened, triggered or
\* written while it plans; any number of databases and jobs, in circles too.
THEOREM PlanCloses == Spec => []PlanIsClosed
<1>1. BInv => PlanIsClosed
  BY ClosedPlan DEF BInv
<1> QED
  BY <1>1, BackfillInvariance, PTL

(***************************************************************************)
(* What a trigger finds in a manifest stays the same while the engine runs.*)
(***************************************************************************)
\* What a trigger uses of a manifest.
SameUse(a, b) == a.enabled = b.enabled /\ a.jobs = b.jobs /\ a.exclude = b.exclude

UpOK == IF up THEN Normal(defaults) ELSE \A d \in Database : loaded[d] = Nothing

\* What is loaded is what the manifest would give if it were read again.
ReadsOK ==
    \A d \in Database : loaded[d] # Nothing =>
        /\ LoadExisting(d, defaults) \notin Absent
        /\ SameUse(LoadExisting(d, defaults), loaded[d])

\* The sources of a backfill have their jobs throughout, and every destination was planned.
SourcesOK ==
    /\ \A d \in bf.seen : RollupInfo(d) # Refused
    /\ bf.sources \subseteq bf.seen
    /\ \A s \in bf.sources : Runs(RollupInfo(s)) /\ \A job \in RollupInfo(s).jobs : job.dst \in bf.dests
    /\ bf.dests \subseteq bf.seen \cup Range(bf.queue)
    /\ bf.pc # "plan" => bf.queue = <<>>

TodoOK ==
    /\ bf.pc = "reset" => Range(bf.todo) \subseteq bf.dests
    /\ bf.pc \in {"clear", "rebuild"} => Range(bf.todo) \subseteq bf.sources
    /\ bf.pc \notin {"rebuild", "done"} => bf.pass = 0

\* The sources whose checkpoints this backfill has removed.
Cleared == {s \in bf.sources : bf.pc \in {"rebuild", "done"} \/ (bf.pc = "clear" /\ s \notin Range(bf.todo))}

LeftOK == left \subseteq Database /\ left \cap Cleared = {}

\* What there was when the backfill began stays where it is not reset.
HadOK == \A row \in bf.had : row.path[Len(row.path)] \in bf.dests \/ row \in rows[row.path[Len(row.path)]]

\* The jobs of a source on the metric of a row.
Owed(s, row) == {job \in Expand(RollupInfo(s), {NameOf(row)}) : job.src = NameOf(row)}
Whole(s, row) == \A job \in Owed(s, row) : Len(row.path) > MaxHops \/ Derived(row, job.dst) \in rows[job.dst]

CheckOK ==
    \A s \in Cleared : \A p \in done[s] : \A job \in Owed(s, p[2]) :
        job.id = p[1] => Derived(p[2], job.dst) \in rows[job.dst]

\* The passes that are behind a source.
Passed(s) == IF bf.pc = "done" THEN Cardinality(bf.sources)
             ELSE IF s \in Range(bf.todo) THEN bf.pass ELSE bf.pass + 1

\* A row that is fewer rollups from what there was than the passes behind its database has
\* everything that follows from it in one step.
RebuiltOK ==
    bf.pc \in {"rebuild", "done"} =>
        \A s \in bf.sources : \A row \in rows[s] : \A k \in 1..Len(row.path) :
            FollowsFrom(row, k) /\ Len(row.path) - k < Passed(s) => Whole(s, row)

LEMMA ExcludeIs ==
    ASSUME NEW info \in Manifest, NEW def \in Manifest, Normalize(info, def) # Nothing
    PROVE  Normalize(info, def).exclude = IF info.exclude = {} THEN def.exclude ELSE info.exclude
<1> DEFINE filled == FillDefaults(info, def)
           exclude == IF info.exclude = {} THEN def.exclude ELSE info.exclude
<1>1. filled \in Manifest
  BY FilledOK
<1>2. filled.exclude = exclude
  BY DEF FillDefaults, Manifest
<1>3. Normalize(info, def) = NormalizeJobs(filled)
  BY DEF Normalize
<1> HIDE DEF filled, exclude
<1>4. NormalizeJobs(filled).exclude = filled.exclude
  BY <1>1 DEF NormalizeJobs, Manifest
<1> QED
  BY <1>2, <1>3, <1>4 DEF exclude

LEMMA ReadAlike ==
    ASSUME NEW info \in Manifest, NEW a \in Manifest, NEW b \in Manifest,
           a.dest = b.dest, a.exclude = b.exclude,
           Normalize(info, a) # Nothing, Normalize(info, b) # Nothing
    PROVE  SameUse(Normalize(info, a), Normalize(info, b))
<1>1. /\ Normalize(info, a).enabled = Normalize(info, b).enabled
      /\ Normalize(info, a).jobs = Normalize(info, b).jobs
  BY SameJobs
<1>2. Normalize(info, a).exclude = Normalize(info, b).exclude
  BY ExcludeIs
<1> QED
  BY <1>1, <1>2 DEF SameUse

\* What was written is read again with defaults that exclude the same metrics.
LEMMA ReadAgain ==
    ASSUME NEW info \in Manifest, NEW a \in Manifest, NEW b \in Manifest, a.exclude = b.exclude,
           Normalize(info, a) # Nothing
    PROVE  LET n == Normalize(info, a) IN
           n \in Manifest /\ Normalize(n, b) # Nothing /\ SameUse(Normalize(n, b), n)
<1> DEFINE n == Normalize(info, a)
<1>1. n \in Manifest /\ Normal(n)
  BY NormalizeOK
<1>2. n.exclude = IF info.exclude = {} THEN a.exclude ELSE info.exclude
  BY ExcludeIs
<1> HIDE DEF n
<1>3. Normalize(n, b) \in Manifest /\ SameStorage(Normalize(n, b), n)
  BY <1>1, NormalizeKeeps
<1>4. Normalize(n, b) # Nothing
  BY <1>3, PresentOrAbsent
<1>5. Normalize(n, b).exclude = IF n.exclude = {} THEN b.exclude ELSE n.exclude
  BY <1>1, <1>4, ExcludeIs
<1>6. Normalize(n, b).exclude = n.exclude
  BY <1>2, <1>5
<1> QED
  BY <1>1, <1>3, <1>4, <1>6 DEF SameUse, SameStorage, n

\* Defaults that change nothing of the jobs.
Alike(def) == def \in Manifest /\ def.dest = defaults.dest /\ def.exclude = defaults.exclude

LEMMA DefaultsAlike ==
    ASSUME FilesOK
    PROVE  Alike(defaults) /\ \A long : Alike(RollupDefaults(long))
<1>1. defaults \in Manifest
  BY DEF FilesOK
<1>2. \A long : Alike(RollupDefaults(long))
  BY <1>1 DEF Alike, RollupDefaults, Manifest, Partition
<1> QED
  BY <1>1, <1>2 DEF Alike

\* What a step leaves of what the databases run with.
InfosStay == \A x \in Database :
    /\ RollupInfo(x) \notin Absent => RollupInfo(x)' \notin Absent /\ SameUse(RollupInfo(x)', RollupInfo(x))
    /\ RollupInfo(x) = Nothing => RollupInfo(x)' # Refused

\* The same of the manifests alone.
ReadsStay == \A x \in Database :
    /\ LoadExisting(x, defaults) \notin Absent =>
           /\ LoadExisting(x, defaults)' \notin Absent
           /\ SameUse(LoadExisting(x, defaults)', LoadExisting(x, defaults))
    /\ LoadExisting(x, defaults) = Nothing => LoadExisting(x, defaults)' # Refused

LEMMA InfoReads ==
    ASSUME FilesOK, ReadsOK, NEW x \in Database
    PROVE  /\ RollupInfo(x) \in Absent => LoadExisting(x, defaults) = RollupInfo(x)
           /\ RollupInfo(x) \notin Absent => /\ LoadExisting(x, defaults) \notin Absent
                                             /\ SameUse(LoadExisting(x, defaults), RollupInfo(x))
<1>1. CASE loaded[x] = Nothing
  BY <1>1 DEF RollupInfo, SameUse
<1>2. CASE loaded[x] # Nothing
  <2>1. loaded[x] \in Manifest /\ RollupInfo(x) = loaded[x]
    BY <1>2 DEF FilesOK, RollupInfo
  <2> QED
    BY <1>2, <2>1, PresentOrAbsent DEF ReadsOK, Absent
<1> QED
  BY <1>1, <1>2

LEMMA StayIs ==
    ASSUME FilesOK, ReadsOK, FilesOK', ReadsOK', ReadsStay
    PROVE  InfosStay
<1> SUFFICES ASSUME NEW x \in Database
             PROVE  /\ RollupInfo(x) \notin Absent =>
                           RollupInfo(x)' \notin Absent /\ SameUse(RollupInfo(x)', RollupInfo(x))
                    /\ RollupInfo(x) = Nothing => RollupInfo(x)' # Refused
  BY DEF InfosStay
<1>1. /\ RollupInfo(x) \in Absent => LoadExisting(x, defaults) = RollupInfo(x)
      /\ RollupInfo(x) \notin Absent => /\ LoadExisting(x, defaults) \notin Absent
                                        /\ SameUse(LoadExisting(x, defaults), RollupInfo(x))
  BY InfoReads
<1>3. /\ RollupInfo(x)' \in Absent => LoadExisting(x, defaults)' = RollupInfo(x)'
      /\ RollupInfo(x)' \notin Absent => /\ LoadExisting(x, defaults)' \notin Absent
                                         /\ SameUse(LoadExisting(x, defaults)', RollupInfo(x)')
  <2>1. CASE loaded'[x] = Nothing
    BY <2>1 DEF RollupInfo, SameUse
  <2>2. CASE loaded'[x] # Nothing
    <3>1. loaded'[x] \in Manifest /\ RollupInfo(x)' = loaded'[x]
      BY <2>2 DEF FilesOK, RollupInfo
    <3> QED
      BY <2>2, <3>1, PresentOrAbsent DEF ReadsOK, Absent
  <2> QED
    BY <2>1, <2>2
<1>4. /\ LoadExisting(x, defaults) \notin Absent =>
             /\ LoadExisting(x, defaults)' \notin Absent
             /\ SameUse(LoadExisting(x, defaults)', LoadExisting(x, defaults))
      /\ LoadExisting(x, defaults) = Nothing => LoadExisting(x, defaults)' # Refused
  BY DEF ReadsStay
<1>5. CASE RollupInfo(x) \notin Absent
  <2>1. RollupInfo(x)' \notin Absent
    BY <1>1, <1>3, <1>4, <1>5 DEF Absent
  <2> QED
    BY <1>1, <1>3, <1>4, <1>5, <2>1 DEF SameUse, Absent
<1>6. CASE RollupInfo(x) = Nothing
  BY <1>1, <1>3, <1>4, <1>6, PresentOrAbsent DEF Absent
<1> QED
  BY <1>5, <1>6 DEF Absent

LEMMA OpensStay ==
    ASSUME IInv, IInv', LoadedOK, ReadsOK, NEW ds, NEW dests, NEW def, OpenAll(ds, dests, def),
           defaults' = defaults, \A d \in Database : Alike(def[d]),
           \A d \in Database : d \in ds /\ d \notin dests => def[d] = defaults
    PROVE  ReadsOK' /\ InfosStay
<1> DEFINE opens  == {d \in ds : loaded[d] = Nothing /\ Load(d, def[d]) # Refused}
           writes == {d \in opens : Writes(d, d \in dests)}
<1>1. /\ loaded' = [d \in Database |-> IF d \in opens THEN Load(d, def[d]) ELSE loaded[d]]
      /\ manifest' = [d \in Database |-> IF d \in writes THEN Load(d, def[d]) ELSE manifest[d]]
  BY DEF OpenAll, Written
<1>2. ASSUME NEW d \in Database, d \in opens
      PROVE  /\ loaded[d] = Nothing /\ Load(d, def[d]) # Refused
             /\ d \notin writes => manifest[d] # Nothing /\ def[d] = defaults
  BY <1>2 DEF Writes
<1>3. writes \subseteq opens
  OBVIOUS
<1> HIDE DEF opens, writes
<1>4. FilesOK /\ FilesOK' /\ defaults \in Manifest /\ Alike(defaults) /\ Absent = {Nothing, Refused}
  BY DefaultsAlike DEF IInv, FilesOK, Absent
\* What is opened is a manifest, and reads again as what it is.
<1>5. ASSUME NEW d \in Database, d \in opens
      PROVE  /\ Load(d, def[d]) \in Manifest /\ Normal(Load(d, def[d]))
             /\ Normalize(Load(d, def[d]), defaults) \in Manifest
             /\ SameUse(Normalize(Load(d, def[d]), defaults), Load(d, def[d]))
             /\ LoadExisting(d, defaults) \notin Absent => SameUse(Load(d, def[d]), LoadExisting(d, defaults))
  <2>1. def[d] \in Manifest /\ def[d].exclude = defaults.exclude /\ def[d].dest = defaults.dest
    BY DEF Alike
  <2>2. Load(d, def[d]) \in Manifest /\ Normal(Load(d, def[d]))
    BY <1>2, <1>5, <2>1, LoadOK
  <2>3. manifest[d] \in Manifest \cup {Nothing}
    BY <1>4 DEF FilesOK
  <2>4. PICK info \in Manifest : Load(d, def[d]) = Normalize(info, def[d]) /\ Normalize(info, def[d]) # Nothing
    <3>1. CASE LoadExisting(d, def[d]) # Nothing
      BY <1>2, <1>5, <2>3, <3>1 DEF Load, LoadExisting
    <3>2. CASE LoadExisting(d, def[d]) = Nothing
      BY <1>2, <1>5, <2>1, <3>2 DEF Load
    <3> QED
      BY <3>1, <3>2
  <2>5. Normalize(Load(d, def[d]), defaults) # Nothing /\ SameUse(Normalize(Load(d, def[d]), defaults), Load(d, def[d]))
    BY <1>4, <2>1, <2>4, ReadAgain
  <2>6. Normalize(Load(d, def[d]), defaults) \in Manifest
    BY <1>4, <2>2, <2>5, NormalizeOK
  <2>7. ASSUME LoadExisting(d, defaults) \notin Absent
        PROVE  SameUse(Load(d, def[d]), LoadExisting(d, defaults))
    <3>1. /\ manifest[d] # Nothing /\ manifest[d].action # Blank /\ Normalize(manifest[d], defaults) # Nothing
          /\ LoadExisting(d, defaults) = Normalize(manifest[d], defaults)
      BY <1>4, <2>7 DEF LoadExisting
    <3>2. /\ Normalize(manifest[d], def[d]) # Nothing
          /\ Load(d, def[d]) = Normalize(manifest[d], def[d])
      BY <1>2, <1>5, <3>1, PresentOrAbsent DEF LoadExisting, Load
    <3>3. manifest[d] \in Manifest
      BY <2>3, <3>1
    <3> QED
      BY <1>4, <2>1, <3>1, <3>2, <3>3, ReadAlike
  <2> QED
    BY <2>2, <2>5, <2>6, <2>7
<1>6. ASSUME NEW d \in Database, d \in writes
      PROVE  LoadExisting(d, defaults)' = Normalize(Load(d, def[d]), defaults)
  <2> DEFINE n == Load(d, def[d])
  <2>1. n \in Manifest /\ Normal(n) /\ Normalize(n, defaults) \in Manifest
    BY <1>3, <1>5, <1>6
  <2>2. manifest'[d] = n /\ defaults' = defaults
    BY <1>1, <1>6
  <2> HIDE DEF n
  <2>3. n # Nothing /\ Normalize(n, defaults) # Nothing /\ n.action # Blank
    BY <2>1, PresentOrAbsent DEF Normal, Valid, Action, Blank
  <2>4. LoadExisting(d, defaults)' = Normalize(n, defaults)
    BY <2>2, <2>3 DEF LoadExisting
  <2> QED
    BY <2>4 DEF n
<1>7. ASSUME NEW d \in Database, d \notin writes
      PROVE  LoadExisting(d, defaults)' = LoadExisting(d, defaults)
  BY <1>1, <1>7 DEF LoadExisting
<1>8. ReadsStay
  <2> SUFFICES ASSUME NEW x \in Database
               PROVE  /\ LoadExisting(x, defaults) \notin Absent =>
                             /\ LoadExisting(x, defaults)' \notin Absent
                             /\ SameUse(LoadExisting(x, defaults)', LoadExisting(x, defaults))
                      /\ LoadExisting(x, defaults) = Nothing => LoadExisting(x, defaults)' # Refused
    BY DEF ReadsStay
  <2>1. CASE x \in writes
    <3>1. x \in opens /\ LoadExisting(x, defaults)' = Normalize(Load(x, def[x]), defaults)
      BY <1>3, <1>6, <2>1
    <3>2. LoadExisting(x, defaults)' \notin Absent
      BY <1>5, <3>1, PresentOrAbsent DEF Absent
    <3> QED
      BY <1>5, <3>1, <3>2 DEF SameUse, Absent
  <2>2. CASE x \notin writes
    BY <1>7, <2>2, PresentOrAbsent DEF SameUse
  <2> QED
    BY <2>1, <2>2
<1>9. ReadsOK'
  <2> SUFFICES ASSUME NEW d \in Database, loaded'[d] # Nothing
               PROVE  /\ LoadExisting(d, defaults)' \notin Absent
                      /\ SameUse(LoadExisting(d, defaults)', loaded'[d])
    BY DEF ReadsOK, Absent
  <2>1. CASE d \notin opens
    <3>1. loaded'[d] = loaded[d]
      BY <1>1, <2>1
    <3>2. LoadExisting(d, defaults) \notin Absent /\ SameUse(LoadExisting(d, defaults), loaded[d])
      BY <3>1 DEF ReadsOK
    <3> QED
      BY <1>3, <1>7, <2>1, <3>1, <3>2
  <2>2. CASE d \in writes
    <3>1. d \in opens /\ loaded'[d] = Load(d, def[d])
      BY <1>1, <1>3, <2>2
    <3> QED
      BY <1>5, <1>6, <2>2, <3>1, PresentOrAbsent DEF Absent
  <2>3. CASE d \in opens /\ d \notin writes
    <3>1. loaded'[d] = Load(d, defaults) /\ manifest[d] # Nothing /\ Load(d, defaults) # Refused
      BY <1>1, <1>2, <2>3
    <3>2. manifest[d] \in Manifest
      BY <1>4, <3>1 DEF FilesOK
    <3>3. LoadExisting(d, defaults) # Nothing
      BY <3>1, PresentOrAbsent DEF LoadExisting
    <3>4. Load(d, defaults) = LoadExisting(d, defaults)
      BY <3>3 DEF Load
    <3> QED
      BY <1>4, <1>7, <2>3, <3>1, <3>3, <3>4 DEF SameUse
  <2> QED
    BY <2>1, <2>2, <2>3
<1> QED
  BY <1>4, <1>8, <1>9, StayIs DEF IInv

LEMMA JobsAlike ==
    ASSUME NEW info \in Manifest, NEW a \in Manifest, NEW b \in Manifest, a.dest = b.dest
    PROVE  NormalizeJobs(FillDefaults(info, a)).jobs = NormalizeJobs(FillDefaults(info, b)).jobs
<1> DEFINE dest == IF info.dest = None THEN a.dest ELSE info.dest
           jobs == {[job EXCEPT !.dst = IF @ = None THEN dest ELSE @] : job \in info.jobs}
<1>1. ASSUME NEW def \in Manifest, def.dest = a.dest
      PROVE  NormalizeJobs(FillDefaults(info, def)).jobs = IF info.enabled THEN jobs ELSE {}
  <2> DEFINE filled == FillDefaults(info, def)
  <2>1. filled \in Manifest /\ filled.enabled = info.enabled /\ filled.jobs = info.jobs
    BY FilledOK
  <2>2. filled.dest = dest
    BY <1>1 DEF FillDefaults, Manifest
  <2> HIDE DEF filled, dest
  <2>3. CASE ~info.enabled
    BY <2>1, <2>3, JobsOK DEF filled
  <2>4. CASE info.enabled
    <3> DEFINE other(job) == [job EXCEPT !.dst = IF @ = None THEN filled.dest ELSE @]
               all == {other(job) : job \in filled.jobs}
    <3>1. NormalizeJobs(filled) = [filled EXCEPT !.jobs = all]
      BY <2>1, <2>4 DEF NormalizeJobs, Manifest
    <3>2. all = jobs
      BY <2>1, <2>2
    <3> HIDE DEF all, jobs
    <3>3. [filled EXCEPT !.jobs = all].jobs = all
      BY <2>1 DEF Manifest
    <3> QED
      BY <2>4, <3>1, <3>2, <3>3 DEF filled
  <2> QED
    BY <2>3, <2>4
<1> HIDE DEF jobs
<1> QED
  BY <1>1

\* The defaults a trigger opens a database with.
OpensWith(def) == def = defaults \/ \E long : def = RollupDefaults(long)

\* A database whose manifest can be read, or that has none, opens as a destination.
LEMMA Opens ==
    ASSUME FilesOK, UpOK, up, NEW d \in Database, RollupInfo(d) # Refused, loaded[d] = Nothing,
           NEW def, OpensWith(def)
    PROVE  Load(d, def) # Refused
<1>1. defaults \in Manifest /\ Normal(defaults) /\ manifest[d] \in Manifest \cup {Nothing}
  BY DEF FilesOK, UpOK
<1>2. /\ Alike(defaults) /\ Alike(def)
      /\ def # defaults => def.partition \in {"month", "year"}
      /\ def.action = defaults.action
  <2>1. \A long : /\ RollupDefaults(long).partition \in {"month", "year"}
                  /\ RollupDefaults(long).action = defaults.action
    BY <1>1 DEF RollupDefaults, Manifest
  <2> QED
    BY <2>1, DefaultsAlike DEF OpensWith
<1>3. Normal(def)
  <2>1. CASE def = defaults
    BY <1>1, <2>1
  <2>2. CASE def # defaults
    <3>1. def.enabled = FALSE /\ def.jobs = {}
      BY <1>1, <2>2 DEF OpensWith, RollupDefaults, Manifest
    <3> QED
      BY <1>1, <1>2, <2>2, <3>1 DEF Normal, Valid, JobsValid, Partition
  <2> QED
    BY <2>1, <2>2
<1>4. RollupInfo(d) = LoadExisting(d, defaults)
  BY DEF RollupInfo
<1>5. CASE manifest[d] = Nothing
  <2>1. LoadExisting(d, def) = Nothing
    BY <1>5 DEF LoadExisting
  <2>2. Normalize(def, def) \in Manifest
    BY <1>2, <1>3, NormalizeKeeps DEF Alike
  <2> QED
    BY <2>1, <2>2, PresentOrAbsent DEF Load
<1>6. CASE manifest[d] # Nothing
  <2> DEFINE info == manifest[d]
  <2>1. info \in Manifest /\ info.action # Blank /\ Normalize(info, defaults) # Nothing
    BY <1>1, <1>4, <1>6, PresentOrAbsent DEF LoadExisting
  <2>2. /\ Valid(FillDefaults(info, defaults)) /\ JobsValid(NormalizeJobs(FillDefaults(info, defaults)))
    BY <2>1 DEF Normalize
  <2>3. NormalizeJobs(FillDefaults(info, def)).jobs = NormalizeJobs(FillDefaults(info, defaults)).jobs
    BY <1>2, <2>1, JobsAlike DEF Alike
  <2>4. JobsValid(NormalizeJobs(FillDefaults(info, def)))
    BY <2>2, <2>3 DEF JobsValid
  <2>5. Valid(FillDefaults(info, def))
    <3>1. \A x \in Manifest : /\ FillDefaults(info, x).partition = IF info.partition = Blank THEN x.partition ELSE info.partition
                              /\ FillDefaults(info, x).action = info.action
      BY <2>1 DEF FillDefaults, Manifest
    <3>2. /\ FillDefaults(info, def).partition = IF info.partition = Blank THEN def.partition ELSE info.partition
          /\ FillDefaults(info, def).action = info.action
          /\ FillDefaults(info, defaults).partition = IF info.partition = Blank THEN defaults.partition ELSE info.partition
          /\ FillDefaults(info, defaults).action = info.action
      BY <1>1, <1>2, <3>1 DEF Alike
    <3> HIDE DEF info
    <3> QED
      BY <1>2, <2>2, <3>2 DEF Valid, Partition
  <2>6. Normalize(info, def) # Nothing
    <3>1. NormalizeJobs(FillDefaults(info, def)) \in Manifest
      BY <1>2, <2>1, FilledOK, JobsOK DEF Alike
    <3> QED
      BY <2>4, <2>5, <3>1, PresentOrAbsent DEF Normalize
  <2>7. Normalize(info, def) \in Manifest
    BY <1>2, <2>1, <2>6, NormalizeOK DEF Alike
  <2> QED
    BY <1>6, <2>1, <2>7, PresentOrAbsent DEF Load, LoadExisting
<1> QED
  BY <1>5, <1>6

(***************************************************************************)
(* What a source owes for a row.                                           *)
(***************************************************************************)
LEMMA SameExpand ==
    ASSUME NEW a, NEW b, SameUse(a, b), NEW names
    PROVE  Expand(a, names) = Expand(b, names)
<1> DEFINE on(info, job) == {n \in names : ~Excluded(n, info, job)}
           one(info, job) == {[job EXCEPT !.src = name, !.id = Append(@, name)] : name \in on(info, job)}
           pattern(info) == {j \in info.jobs : j.src = AnyName}
           exact(info) == {job \in info.jobs : job.src # AnyName}
<1>1. \A info : Expand(info, names) = exact(info) \cup UNION {one(info, job) : job \in pattern(info)}
  BY DEF Expand
<1>2. exact(a) = exact(b) /\ pattern(a) = pattern(b)
  BY DEF SameUse
<1>3. \A job : on(a, job) = on(b, job)
  BY DEF SameUse, Excluded
<1> HIDE DEF on
<1>4. \A job : one(a, job) = one(b, job)
  BY <1>3
<1> HIDE DEF one, pattern, exact
<1>5. {one(a, job) : job \in pattern(a)} = {one(b, job) : job \in pattern(b)}
  BY <1>2, <1>4
<1> QED
  BY <1>1, <1>2, <1>5

LEMMA ExpandIs ==
    ASSUME NEW info \in Manifest, Normal(info), NEW names, NEW job \in Expand(info, names)
    PROVE  job.dst \in Database /\ \E j \in info.jobs : j.dst = job.dst
<1>1. info.jobs \subseteq Job /\ JobsValid(info)
  BY DEF Manifest, Normal
<1>2. PICK j \in info.jobs : \/ job = j
                             \/ \E n \in names : job = [j EXCEPT !.src = n, !.id = Append(j.id, n)]
  BY DEF Expand
<1>3. j \in Job /\ j.dst # None
  BY <1>1 DEF JobsValid
<1>4. j.dst \in Database /\ job.dst = j.dst
  BY <1>2, <1>3 DEF Job
<1> QED
  BY <1>4

\* Which jobs there are on a metric does not depend on the others.
LEMMA ExpandOne ==
    ASSUME NEW info, info.jobs \subseteq Job, NEW names, NEW n \in names, NEW job
    PROVE  job \in Expand(info, names) /\ job.src = n <=> job \in Expand(info, {n}) /\ job.src = n
<1> DEFINE one(j, x) == [j EXCEPT !.src = x, !.id = Append(j.id, x)]
           on(j, T) == {y \in T : ~Excluded(y, info, j)}
           of(j, T) == {one(j, x) : x \in on(j, T)}
           pattern == {i \in info.jobs : i.src = AnyName}
           all(T) == UNION {of(j, T) : j \in pattern}
           exact == {j \in info.jobs : j.src # AnyName}
<1>1. \A T : Expand(info, T) = exact \cup all(T)
  BY DEF Expand
<1>2. ASSUME NEW j \in info.jobs, NEW x PROVE one(j, x).src = x
  BY DEF Job
<1>3. \A T : \A x : x \in all(T) <=> \E j \in info.jobs : \E y \in T :
                  j.src = AnyName /\ ~Excluded(y, info, j) /\ x = one(j, y)
  <2> HIDE DEF one
  <2>1. \A T, j, x : x \in of(j, T) <=> \E y \in T : ~Excluded(y, info, j) /\ x = one(j, y)
    OBVIOUS
  <2> HIDE DEF of
  <2>2. \A T, x : x \in all(T) <=> \E j \in pattern : x \in of(j, T)
    OBVIOUS
  <2> HIDE DEF all
  <2> QED
    BY <2>1, <2>2
<1> HIDE DEF one, all, exact
<1>4. job.src = n => (job \in all(names) <=> job \in all({n}))
  BY <1>2, <1>3
<1> QED
  BY <1>1, <1>4

LEMMA JobsRun ==
    ASSUME IInv, LoadedOK, NEW s \in Database
    PROVE  /\ \A job \in JobsToRun(s) : job.dst \in Database
           /\ Runs(RollupInfo(s)) => /\ JobsToRun(s) = Expand(RollupInfo(s), Names(s))
                                     /\ RollupInfo(s) \in Manifest /\ Normal(RollupInfo(s))
<1> DEFINE info == IF loaded[s] # Nothing THEN loaded[s] ELSE Load(s, defaults)
<1>1. JobsToRun(s) = IF Runs(info) THEN Expand(info, Names(s)) ELSE {}
  BY DEF JobsToRun
<1>2. Runs(info) => info \in Manifest /\ Normal(info)
  <2>1. CASE loaded[s] # Nothing
    BY <2>1 DEF IInv, FilesOK, LoadedOK
  <2>2. CASE loaded[s] = Nothing
    BY <2>2, LoadOK DEF IInv, FilesOK, Runs
  <2> QED
    BY <2>1, <2>2
<1>3. Runs(RollupInfo(s)) => info = RollupInfo(s)
  BY DEF RollupInfo, Load, Runs
<1> HIDE DEF info
<1> QED
  BY <1>1, <1>2, <1>3, ExpandIs

LEMMA OwedIs ==
    ASSUME IInv, LoadedOK, NEW s \in Database, Runs(RollupInfo(s)), NEW row \in rows[s], NEW job
    PROVE  job \in JobsToRun(s) /\ job.src = NameOf(row) <=> job \in Owed(s, row)
<1>1. /\ JobsToRun(s) = Expand(RollupInfo(s), Names(s))
      /\ RollupInfo(s).jobs \subseteq Job
  BY JobsRun DEF Manifest
<1>2. NameOf(row) \in Names(s)
  BY DEF Names
<1> DEFINE info == RollupInfo(s)
<1>3. job \in Expand(info, Names(s)) /\ job.src = NameOf(row)
      <=> job \in Expand(info, {NameOf(row)}) /\ job.src = NameOf(row)
  <2> HIDE DEF info
  <2> QED
    BY <1>1, <1>2, ExpandOne DEF info
<1> QED
  BY <1>1, <1>3 DEF Owed

LEMMA OwedStays ==
    ASSUME InfosStay, NEW s \in Database, RollupInfo(s) \notin Absent
    PROVE  /\ \A row : Owed(s, row)' = Owed(s, row)
           /\ \A d : Feeds(s, d)' <=> Feeds(s, d)
           /\ Runs(RollupInfo(s)') <=> Runs(RollupInfo(s))
           /\ RollupInfo(s)' \notin Absent /\ RollupInfo(s)'.jobs = RollupInfo(s).jobs
<1>1. RollupInfo(s)' \notin Absent /\ SameUse(RollupInfo(s)', RollupInfo(s))
  BY DEF InfosStay
<1>2. \A names : Expand(RollupInfo(s)', names) = Expand(RollupInfo(s), names)
  BY <1>1, SameExpand
<1>3. \A row : Owed(s, row)' = Owed(s, row)
  BY <1>2 DEF Owed
<1>4. Runs(RollupInfo(s)') <=> Runs(RollupInfo(s))
  BY <1>1 DEF Runs, SameUse, Absent
<1>5. \A d : Feeds(s, d)' <=> Feeds(s, d)
  BY <1>1, <1>4 DEF Feeds, SameUse, Runs
<1> QED
  BY <1>1, <1>3, <1>4, <1>5 DEF SameUse

\* A database that any trigger can open, or finds open.
CanOpen(d) == loaded[d] # Nothing \/ \A def : OpensWith(def) => Load(d, def) # Refused

DoneOK == done = [s \in Database |-> done[s]]

LEMMA TriggerDoes ==
    ASSUME IInv, LoadedOK, RowsOK, DoneOK, NEW s \in Database, TriggerRollups(s)
    PROVE  /\ DoneOK'
           /\ \A d \in Database : rows[d] \subseteq rows'[d]
           /\ \A d \in Database : \A new \in rows'[d] \ rows[d] : \E row \in rows[s] : \E job \in JobsToRun(s) :
                  /\ job.src = NameOf(row) /\ job.dst = d /\ Len(row.path) <= MaxHops
                  /\ new = Derived(row, d)
           /\ \A row \in rows[s] : \A job \in JobsToRun(s) :
                  job.src = NameOf(row) /\ Len(row.path) <= MaxHops /\ CanOpen(job.dst)
                  /\ <<job.id, row>> \notin done[s] => Derived(row, job.dst) \in rows'[job.dst]
           /\ \A x \in Database : x # s => done'[x] = done[x]
           /\ \A p \in done'[s] \ done[s] : \E row \in rows[s] : \E job \in JobsToRun(s) :
                  /\ p = <<job.id, row>> /\ job.src = NameOf(row) /\ Len(row.path) <= MaxHops
                  /\ job.dst \in Database /\ Derived(row, job.dst) \in rows'[job.dst]
<1> DEFINE jobs  == JobsToRun(s)
           dests == {job.dst : job \in jobs}
           def   == [d \in Database |-> IF d = s THEN defaults ELSE RollupDefaults(FirstIsLong(jobs, d))]
           opened(d) == loaded[d] # Nothing \/ Load(d, def[d]) # Refused
           due   == {p \in jobs \X rows[s] :
                        /\ NameOf(p[2]) = p[1].src /\ opened(p[1].dst)
                        /\ <<p[1].id, p[2]>> \notin done[s] /\ Len(p[2].path) <= MaxHops}
           new(d) == {Derived(p[2], d) : p \in {q \in due : q[1].dst = d}}
           checks == {<<p[1].id, p[2]>> : p \in due}
<1>1. /\ rows' = [d \in Database |-> rows[d] \cup new(d)]
      /\ done' = [done EXCEPT ![s] = @ \cup checks]
  BY DEF TriggerRollups
<1>2. \A job \in jobs : job.dst \in Database
  BY JobsRun
<1>3. \A d \in Database : CanOpen(d) => opened(d)
  BY DEF CanOpen, OpensWith
<1>4. \A p \in due : /\ p[1] \in jobs /\ p[2] \in rows[s] /\ NameOf(p[2]) = p[1].src
                     /\ Len(p[2].path) <= MaxHops
  OBVIOUS
<1>5. \A row \in rows[s] : \A job \in jobs :
          job.src = NameOf(row) /\ Len(row.path) <= MaxHops /\ opened(job.dst)
          /\ <<job.id, row>> \notin done[s] => <<job, row>> \in due
  <2> HIDE DEF jobs, opened
  <2> QED
    OBVIOUS
<1> HIDE DEF jobs, def, opened, due
<1>6. \A p \in due : Derived(p[2], p[1].dst) \in new(p[1].dst)
  OBVIOUS
<1>7. \A d : \A x \in new(d) : \E p \in due : p[1].dst = d /\ x = Derived(p[2], d)
  OBVIOUS
<1>8. \A x \in checks : \E p \in due : x = <<p[1].id, p[2]>>
  OBVIOUS
<1> HIDE DEF new, checks
<1>9. DoneOK' /\ done'[s] = done[s] \cup checks /\ \A x \in Database : x # s => done'[x] = done[x]
  BY <1>1 DEF DoneOK
<1>10. \A d \in Database : rows'[d] = rows[d] \cup new(d)
  BY <1>1
<1>11. ASSUME NEW row \in rows[s], NEW job \in jobs, job.src = NameOf(row), Len(row.path) <= MaxHops,
              CanOpen(job.dst), <<job.id, row>> \notin done[s]
       PROVE  Derived(row, job.dst) \in rows'[job.dst]
  <2> DEFINE p == <<job, row>>
  <2>1. p \in due /\ p[1] = job /\ p[2] = row /\ job.dst \in Database
    BY <1>2, <1>3, <1>5, <1>11
  <2> HIDE DEF p
  <2> QED
    BY <1>6, <1>10, <2>1
<1>12. ASSUME NEW x \in done'[s] \ done[s]
       PROVE  \E row \in rows[s] : \E job \in jobs :
                  /\ x = <<job.id, row>> /\ job.src = NameOf(row) /\ Len(row.path) <= MaxHops
                  /\ job.dst \in Database /\ Derived(row, job.dst) \in rows'[job.dst]
  <2>1. PICK p \in due : x = <<p[1].id, p[2]>>
    BY <1>8, <1>9
  <2>2. p[1] \in jobs /\ p[2] \in rows[s] /\ NameOf(p[2]) = p[1].src /\ Len(p[2].path) <= MaxHops
    BY <1>4
  <2>3. p[1].dst \in Database /\ Derived(p[2], p[1].dst) \in rows'[p[1].dst]
    BY <1>2, <1>6, <1>10, <2>2
  <2> QED
    BY <2>1, <2>2, <2>3
<1>13. ASSUME NEW d \in Database, NEW x \in rows'[d] \ rows[d]
       PROVE  \E row \in rows[s] : \E job \in jobs :
                  /\ job.src = NameOf(row) /\ job.dst = d /\ Len(row.path) <= MaxHops
                  /\ x = Derived(row, d)
  <2>1. PICK p \in due : p[1].dst = d /\ x = Derived(p[2], d)
    BY <1>7, <1>10
  <2> QED
    BY <1>4, <2>1
<1> QED
  BY <1>9, <1>10, <1>11, <1>12, <1>13 DEF jobs

\* A trigger of a source whose checkpoints are removed, or true, makes its rows whole.
LEMMA TriggerCovers ==
    ASSUME IInv, LoadedOK, RowsOK, DoneOK, UpOK, up, BfOK, SourcesOK, CheckOK, InfosStay,
           bf.pc # "plan", NEW s \in Cleared, TriggerRollups(s)
    PROVE  /\ \A row \in rows[s] : Whole(s, row)'
           /\ \A p \in done'[s] : \A job \in Owed(s, p[2]) :
                  job.id = p[1] => Derived(p[2], job.dst) \in rows'[job.dst]
<1>1. s \in bf.sources /\ s \in Database /\ Runs(RollupInfo(s)) /\ FilesOK
  BY DEF Cleared, BfOK, Backfills, SourcesOK, IInv
<1>2. /\ \A d \in Database : rows[d] \subseteq rows'[d]
      /\ \A row \in rows[s] : \A job \in JobsToRun(s) :
             job.src = NameOf(row) /\ Len(row.path) <= MaxHops /\ CanOpen(job.dst)
             /\ <<job.id, row>> \notin done[s] => Derived(row, job.dst) \in rows'[job.dst]
      /\ \A p \in done'[s] \ done[s] : \E row \in rows[s] : \E job \in JobsToRun(s) :
             /\ p = <<job.id, row>> /\ job.src = NameOf(row) /\ Len(row.path) <= MaxHops
             /\ job.dst \in Database /\ Derived(row, job.dst) \in rows'[job.dst]
  BY <1>1, TriggerDoes
<1>3. RollupInfo(s) \in Manifest /\ Normal(RollupInfo(s)) /\ RollupInfo(s) \notin Absent
  BY <1>1, JobsRun, PresentOrAbsent DEF Absent
<1>4. ASSUME NEW d \in bf.dests PROVE CanOpen(d)
  <2>1. Range(bf.queue) = {}
    BY DEF SourcesOK, Range
  <2>2. d \in Database /\ RollupInfo(d) # Refused
    BY <2>1 DEF SourcesOK, BfOK, Backfills
  <2> QED
    BY <1>1, <2>2, Opens DEF CanOpen
<1>5. ASSUME NEW row, NEW job \in Owed(s, row) PROVE CanOpen(job.dst) /\ job.dst \in Database /\ job.src = NameOf(row)
  <2>1. job \in Expand(RollupInfo(s), {NameOf(row)}) /\ job.src = NameOf(row)
    BY DEF Owed
  <2>2. job.dst \in Database /\ \E j \in RollupInfo(s).jobs : j.dst = job.dst
    BY <1>3, <2>1, ExpandIs
  <2>3. job.dst \in bf.dests
    BY <1>1, <2>2 DEF SourcesOK
  <2> QED
    BY <1>4, <2>1, <2>2, <2>3
<1>6. \A p \in done[s] : \A job \in Owed(s, p[2]) :
          job.id = p[1] => Derived(p[2], job.dst) \in rows'[job.dst]
  BY <1>2, <1>5 DEF CheckOK
<1>7. ASSUME NEW row \in rows[s], NEW job \in Owed(s, row), Len(row.path) <= MaxHops
      PROVE  Derived(row, job.dst) \in rows'[job.dst]
  <2>1. CASE <<job.id, row>> \in done[s]
    <3> DEFINE p == <<job.id, row>>
    <3>1. p \in done[s] /\ p[1] = job.id /\ p[2] = row
      BY <2>1
    <3> HIDE DEF p
    <3>2. job \in Owed(s, p[2])
      BY <3>1
    <3>3. Derived(p[2], job.dst) \in rows'[job.dst]
      BY <1>6, <3>1, <3>2
    <3> QED
      BY <3>1, <3>3
  <2>2. CASE <<job.id, row>> \notin done[s]
    <3>1. job \in JobsToRun(s)
      BY <1>1, OwedIs
    <3> QED
      BY <1>2, <1>5, <1>7, <2>2, <3>1
  <2> QED
    BY <2>1, <2>2
<1>8. ASSUME NEW row \in rows[s] PROVE Whole(s, row)'
  <2>1. Len(row.path) \in Nat /\ MaxHops \in Nat
    <3>1. row \in Row
      BY <1>1 DEF RowsOK
    <3> QED
      BY <3>1 DEF Row
  <2>2. Owed(s, row)' = Owed(s, row)
    BY <1>1, <1>3, OwedStays
  <2>3. ASSUME NEW job \in Owed(s, row), ~(Len(row.path) > MaxHops)
        PROVE  Derived(row, job.dst) \in rows'[job.dst]
    <3>1. Len(row.path) <= MaxHops
      BY <2>1, <2>3
    <3> QED
      BY <1>7, <3>1
  <2> QED
    BY <2>2, <2>3 DEF Whole, Derived
<1>9. ASSUME NEW p \in done'[s], NEW job \in Owed(s, p[2]), job.id = p[1]
      PROVE  Derived(p[2], job.dst) \in rows'[job.dst]
  <2>1. CASE p \in done[s]
    BY <1>6, <1>9, <2>1
  <2>2. CASE p \notin done[s]
    <3>1. PICK row \in rows[s] : \E j : p = <<j, row>> /\ Len(row.path) <= MaxHops
      BY <1>2, <2>2
    <3>2. p[2] = row
      BY <3>1
    <3> QED
      BY <1>7, <3>1, <3>2
  <2> QED
    BY <2>1, <2>2
<1> QED
  BY <1>8, <1>9

(***************************************************************************)
(* Rows that are new while a backfill rebuilds.                            *)
(***************************************************************************)

\* A new row that follows from what there was comes from one that was not whole.
NewRowsFollow ==
    \A d \in bf.sources : \A new \in rows'[d] \ rows[d] : \A k \in 1..Len(new.path) :
        FollowsFrom(new, k) =>
        \E s \in bf.sources : \E row \in rows[s] :
            /\ Len(row.path) = Len(new.path) - 1 /\ k \in 1..Len(row.path)
            /\ FollowsFrom(row, k) /\ ~Whole(s, row)

LEMMA HadOnly ==
    ASSUME HadOK, NEW new \in Row, NEW k \in 1..Len(new.path), k = Len(new.path), FollowsFrom(new, k)
    PROVE  new \in rows[new.path[k]]
<1>1. new.path \in Seq(Database) /\ new = [base |-> new.base, path |-> new.path]
  BY DEF Row
<1>2. SubSeq(new.path, 1, k) = new.path
  BY <1>1
<1>3. [new EXCEPT !.path = SubSeq(@, 1, k)] = new
  BY <1>1, <1>2
<1>4. new \in bf.had /\ new.path[k] \notin bf.dests
  BY <1>3 DEF FollowsFrom
<1> QED
  BY <1>4 DEF HadOK

LEMMA TriggerFollows ==
    ASSUME IInv, LoadedOK, RowsOK, RowsOK', DoneOK, BfOK, SourcesOK, HadOK, NEW s \in Database, TriggerRollups(s)
    PROVE  NewRowsFollow
<1> SUFFICES ASSUME NEW d \in bf.sources, NEW new \in rows'[d] \ rows[d], NEW k \in 1..Len(new.path),
                    FollowsFrom(new, k)
             PROVE  \E x \in bf.sources : \E row \in rows[x] :
                        /\ Len(row.path) = Len(new.path) - 1 /\ k \in 1..Len(row.path)
                        /\ FollowsFrom(row, k) /\ ~Whole(x, row)
  BY DEF NewRowsFollow
<1>1. d \in Database
  BY DEF BfOK, Backfills
<1>2. PICK row \in rows[s] : \E job \in JobsToRun(s) :
          /\ job.src = NameOf(row) /\ job.dst = d /\ Len(row.path) <= MaxHops
          /\ new = Derived(row, d)
  BY <1>1, TriggerDoes
<1>3. PICK job \in JobsToRun(s) : /\ job.src = NameOf(row) /\ job.dst = d /\ Len(row.path) <= MaxHops
                                  /\ new = Derived(row, d)
  BY <1>2
<1> DEFINE n == Len(row.path)
<1>4. /\ row \in Row /\ row.path[n] = s /\ row.path \in Seq(Database) /\ n \in Nat /\ n >= 1 /\ n <= MaxHops
      /\ row \in [base : Base, path : Seq(Database)]
  BY <1>3 DEF RowsOK, Row
<1>5. /\ new.path = Append(row.path, d) /\ new = [row EXCEPT !.path = Append(row.path, d)]
      /\ Len(new.path) = n + 1 /\ new.path[n + 1] = d /\ \A i \in 1..n : new.path[i] = row.path[i]
  BY <1>1, <1>3, <1>4 DEF Derived
<1>6. new \in Row /\ new.path[Len(new.path)] = d
  BY <1>1 DEF RowsOK
<1>7. k # n + 1
  BY <1>5, <1>6, HadOnly
<1>8. k \in 1..n
  BY <1>4, <1>5, <1>7
<1>9. \A i \in k..n : i \in 1..n /\ i \in k..(n + 1)
  BY <1>4, <1>8
<1>10. s \in bf.sources
  BY <1>4, <1>5, <1>8, <1>9 DEF FollowsFrom
<1>11. [row EXCEPT !.path = SubSeq(row.path, 1, k)] = [new EXCEPT !.path = SubSeq(new.path, 1, k)]
  <2>1. SubSeq(row.path, 1, k) = SubSeq(new.path, 1, k)
    BY <1>4, <1>5, <1>8
  <2> QED
    BY <1>4, <1>5, <2>1
<1>12. FollowsFrom(row, k)
  <2>1. row.path[k] \notin bf.dests /\ [row EXCEPT !.path = SubSeq(row.path, 1, k)] \in bf.had
    BY <1>4, <1>5, <1>8, <1>11 DEF FollowsFrom
  <2>2. \A i \in k..n : row.path[i] \in bf.sources
    BY <1>5, <1>9 DEF FollowsFrom
  <2>3. ASSUME NEW i \in k..(n - 1) PROVE Feeds(row.path[i], row.path[i + 1])
    <3>1. i \in k..((n + 1) - 1) /\ i \in 1..n /\ i + 1 \in 1..n
      BY <1>4, <1>8
    <3>2. Feeds(new.path[i], new.path[i + 1])
      BY <1>5, <3>1 DEF FollowsFrom
    <3> QED
      BY <1>5, <3>1, <3>2
  <2> QED
    BY <2>1, <2>2, <2>3 DEF FollowsFrom
<1>13. ~Whole(s, row)
  <2>1. job \in Owed(s, row)
    BY <1>3, <1>10, OwedIs DEF SourcesOK
  <2>2. Derived(row, job.dst) \notin rows[job.dst]
    BY <1>3
  <2>3. ~(n > MaxHops)
    <3>1. MaxHops \in Nat
      OBVIOUS
    <3> HIDE DEF n
    <3> QED
      BY <1>4, <3>1
  <2> QED
    BY <2>1, <2>2, <2>3 DEF Whole
<1> QED
  BY <1>4, <1>5, <1>8, <1>10, <1>12, <1>13

LEMMA IngestFollows ==
    ASSUME HadOK, BfOK, NEW d \in Database, NEW base \in Base,
           rows \in [Database -> SUBSET Row], rows' = [rows EXCEPT ![d] = @ \cup {[base |-> base, path |-> <<d>>]}]
    PROVE  NewRowsFollow
<1> SUFFICES ASSUME NEW x \in bf.sources, NEW new \in rows'[x] \ rows[x], NEW k \in 1..Len(new.path),
                    FollowsFrom(new, k)
             PROVE  FALSE
  BY DEF NewRowsFollow
<1> DEFINE row == [base |-> base, path |-> <<d>>]
<1>1. x \in Database
  BY DEF BfOK, Backfills
<1>2. new = row /\ x = d
  BY <1>1
<1>3. new.path = <<d>> /\ Len(new.path) = 1 /\ new.path[1] = d /\ new \in Row
  <2>1. row.path = <<d>> /\ row \in [base : Base, path : Seq(Database)]
    OBVIOUS
  <2>2. Len(<<d>>) = 1 /\ <<d>>[1] = d /\ 1 \in 1..(MaxHops + 1)
    OBVIOUS
  <2> HIDE DEF row
  <2> QED
    BY <1>2, <2>1, <2>2 DEF Row
<1>4. k = Len(new.path) /\ new.path[k] = d
  BY <1>3
<1>5. new \in rows[d]
  BY <1>3, <1>4, HadOnly
<1> QED
  BY <1>2, <1>5

LEMMA SourcesStay ==
    ASSUME SourcesOK, BfOK, InfosStay, bf'.seen = bf.seen, bf'.sources = bf.sources, bf'.dests = bf.dests,
           bf'.queue = bf.queue, bf'.pc = "plan" <=> bf.pc = "plan"
    PROVE  /\ SourcesOK'
           /\ \A s \in bf.sources : /\ \A row : Owed(s, row)' = Owed(s, row)
                                    /\ \A d : Feeds(s, d)' <=> Feeds(s, d)
<1>1. ASSUME NEW s \in bf.sources
      PROVE  /\ s \in Database /\ RollupInfo(s) \notin Absent
             /\ \A row : Owed(s, row)' = Owed(s, row)
             /\ \A d : Feeds(s, d)' <=> Feeds(s, d)
             /\ Runs(RollupInfo(s)') /\ RollupInfo(s)'.jobs = RollupInfo(s).jobs
  <2>1. s \in Database /\ RollupInfo(s) \notin Absent /\ Runs(RollupInfo(s))
    BY DEF SourcesOK, BfOK, Backfills, Runs, Absent
  <2> QED
    BY <2>1, OwedStays
<1>2. ASSUME NEW d \in bf.seen PROVE RollupInfo(d)' # Refused
  <2>1. d \in Database /\ RollupInfo(d) # Refused
    BY DEF SourcesOK, BfOK, Backfills
  <2> QED
    BY <2>1 DEF InfosStay, Absent
<1>3. SourcesOK'
  BY <1>1, <1>2 DEF SourcesOK
<1> QED
  BY <1>1, <1>3

LEMMA FollowsStays ==
    ASSUME \A s \in bf.sources : \A d : Feeds(s, d)' <=> Feeds(s, d),
           bf'.sources = bf.sources, bf'.dests = bf.dests, bf'.had = bf.had,
           NEW row \in Row, NEW k \in 1..Len(row.path)
    PROVE  FollowsFrom(row, k)' <=> FollowsFrom(row, k)
<1>1. Len(row.path) \in Nat
  BY DEF Row
<1>2. \A i \in k..(Len(row.path) - 1) : i \in k..Len(row.path)
  BY <1>1
<1> QED
  BY <1>2 DEF FollowsFrom

\* Steps of a rebuild: databases that are one pass further on have been triggered, or were
\* before.
LEMMA RebuiltStep ==
    ASSUME IInv, LoadedOK, RowsOK, RowsOK', BfOK, SourcesOK, RebuiltOK, NewRowsFollow, bf.pc \in {"rebuild", "done"},
           bf'.sources = bf.sources, bf'.dests = bf.dests, bf'.had = bf.had,
           \A s \in bf.sources : /\ \A row : Owed(s, row)' = Owed(s, row)
                                 /\ \A d : Feeds(s, d)' <=> Feeds(s, d),
           \A d \in Database : rows[d] \subseteq rows'[d],
           \A s \in bf.sources : Passed(s) \in Nat /\ Passed(s)' \in Nat,
           \A s, d \in bf.sources : Passed(d)' <= Passed(s) + 1,
           \A s \in bf.sources : Passed(s)' <= Passed(s) \/ \A row \in rows[s] : Whole(s, row)'
    PROVE  RebuiltOK'
<1> SUFFICES ASSUME NEW d \in bf.sources, NEW new \in rows'[d], NEW k \in 1..Len(new.path),
                    FollowsFrom(new, k)', Len(new.path) - k < Passed(d)'
             PROVE  Whole(d, new)'
  BY DEF RebuiltOK
<1>1. d \in Database /\ new \in Row /\ Len(new.path) \in Nat /\ bf.sources \subseteq Database
  <2>1. d \in Database /\ bf.sources \subseteq Database
    BY DEF BfOK, Backfills
  <2>2. new \in Row
    BY <2>1 DEF RowsOK
  <2> QED
    BY <2>1, <2>2 DEF Row
<1>2. FollowsFrom(new, k)
  BY <1>1, FollowsStays
\* A row is still whole, since no row is removed.
<1>3. ASSUME NEW s \in bf.sources, NEW row, Whole(s, row) PROVE Whole(s, row)'
  <2>1. Owed(s, row)' = Owed(s, row)
    OBVIOUS
  <2>2. ASSUME NEW job \in Owed(s, row), ~(Len(row.path) > MaxHops) PROVE Derived(row, job.dst) \in rows'[job.dst]
    <3>1. Derived(row, job.dst) \in rows[job.dst]
      BY <1>3, <2>2 DEF Whole
    <3>2. job.dst \in Database
      <4>1. job \in Expand(RollupInfo(s), {NameOf(row)})
        BY DEF Owed
      <4>2. RollupInfo(s) \in Manifest /\ Normal(RollupInfo(s))
        BY <1>1, JobsRun DEF SourcesOK
      <4> QED
        BY <4>1, <4>2, ExpandIs
    <3> QED
      BY <3>1, <3>2
  <2> QED
    BY <2>1, <2>2 DEF Whole, Derived
<1>4. CASE new \in rows[d]
  <2>1. CASE Passed(d)' <= Passed(d)
    <3>1. Len(new.path) - k < Passed(d)
      BY <1>1, <2>1
    <3>2. Whole(d, new)
      BY <1>2, <1>4, <3>1 DEF RebuiltOK
    <3> QED
      BY <1>3, <3>2
  <2>2. CASE \A row \in rows[d] : Whole(d, row)'
    BY <1>4, <2>2
  <2> QED
    BY <2>1, <2>2
<1>5. CASE new \notin rows[d]
  <2>1. PICK s \in bf.sources : \E row \in rows[s] :
            /\ Len(row.path) = Len(new.path) - 1 /\ k \in 1..Len(row.path)
            /\ FollowsFrom(row, k) /\ ~Whole(s, row)
    BY <1>2, <1>5 DEF NewRowsFollow
  <2>2. PICK row \in rows[s] : /\ Len(row.path) = Len(new.path) - 1 /\ k \in 1..Len(row.path)
                               /\ FollowsFrom(row, k) /\ ~Whole(s, row)
    BY <2>1
  <2>3. Passed(s) \in Nat /\ Passed(d)' \in Nat /\ Passed(d)' <= Passed(s) + 1
    OBVIOUS
  <2>4. Len(row.path) - k < Passed(s)
    BY <1>1, <2>2, <2>3
  <2> QED
    BY <2>2, <2>4 DEF RebuiltOK
<1> QED
  BY <1>4, <1>5

(***************************************************************************)
(* The steps keep what was rebuilt.                                        *)
(***************************************************************************)

\* A checkpoint says a window is done only if there is a row for it, except where left says so.
RowsThere == \A s \in Database \ left : \A p \in done[s] : \E d \in Database : Derived(p[2], d) \in rows[d]

BackOK == SourcesOK /\ TodoOK /\ HadOK /\ CheckOK /\ RebuiltOK /\ LeftOK
CInv == BInv /\ UpOK /\ ReadsOK /\ DoneOK /\ RowsThere /\ BackOK

LEMMA SameStay ==
    ASSUME ReadsOK, UNCHANGED <<manifest, defaults, loaded>>
    PROVE  ReadsOK' /\ InfosStay
<1>1. \A x \in Database : LoadExisting(x, defaults)' = LoadExisting(x, defaults) /\ RollupInfo(x)' = RollupInfo(x)
  BY DEF LoadExisting, RollupInfo
<1> QED
  BY <1>1, PresentOrAbsent DEF ReadsOK, InfosStay, SameUse

LEMMA ChecksStay ==
    ASSUME IInv, LoadedOK, BfOK, SourcesOK, CheckOK, \A d \in Database : rows[d] \subseteq rows'[d],
           NEW s \in Cleared, NEW p \in done[s], NEW job \in Owed(s, p[2]), job.id = p[1]
    PROVE  Derived(p[2], job.dst) \in rows'[job.dst]
<1>1. Derived(p[2], job.dst) \in rows[job.dst]
  BY DEF CheckOK
<1>2. s \in Database /\ Runs(RollupInfo(s))
  BY DEF Cleared, SourcesOK, BfOK, Backfills
<1>3. job \in Expand(RollupInfo(s), {NameOf(p[2])})
  BY DEF Owed
<1>4. job.dst \in Database
  BY <1>2, <1>3, JobsRun, ExpandIs
<1> QED
  BY <1>1, <1>4

LEMMA HadStays ==
    ASSUME HadOK, BfOK, \A d \in Database : rows[d] \subseteq rows'[d], bf'.had = bf.had,
           bf.dests \subseteq bf'.dests
    PROVE  HadOK'
<1>1. \A row \in bf.had : row.path[Len(row.path)] \in Database
  BY DEF BfOK, Backfills, Row
<1> QED
  BY <1>1 DEF HadOK

LEMMA Counted ==
    ASSUME BfOK, BfOK', bf'.sources = bf.sources
    PROVE  \A s : Passed(s) \in Nat /\ Passed(s)' \in Nat
<1>1. /\ bf.pass \in Nat /\ bf'.pass \in Nat /\ bf.sources \subseteq Database
  BY DEF BfOK, Backfills
<1>2. Cardinality(bf.sources) \in Nat
  BY <1>1, InOrderIs
<1> QED
  BY <1>1, <1>2 DEF Passed

LEMMA QuietKeeps ==
    ASSUME IInv, LoadedOK, RowsOK, RowsOK', BfOK, BfOK', BackOK, InfosStay, bf' = bf, left' = left, NewRowsFollow,
           \A d \in Database : rows[d] \subseteq rows'[d],
           \A s \in Cleared : \/ done'[s] = done[s]
                              \/ \A p \in done'[s] : \A job \in Owed(s, p[2]) :
                                     job.id = p[1] => Derived(p[2], job.dst) \in rows'[job.dst]
    PROVE  BackOK'
<1>1. SourcesOK /\ TodoOK /\ HadOK /\ CheckOK /\ RebuiltOK /\ LeftOK
  BY DEF BackOK
<1>2. /\ SourcesOK'
      /\ \A s \in bf.sources : /\ \A row : Owed(s, row)' = Owed(s, row)
                               /\ \A d : Feeds(s, d)' <=> Feeds(s, d)
  BY <1>1, SourcesStay
<1>3. Cleared' = Cleared /\ Cleared \subseteq bf.sources
  BY DEF Cleared
<1>4. TodoOK' /\ LeftOK'
  BY <1>1, <1>3 DEF TodoOK, LeftOK
<1>5. HadOK'
  BY <1>1, HadStays
<1>6. CheckOK'
  <2> SUFFICES ASSUME NEW s \in Cleared, NEW p \in done'[s], NEW job \in Owed(s, p[2])', job.id = p[1]
               PROVE  Derived(p[2], job.dst) \in rows'[job.dst]
    BY <1>3 DEF CheckOK, Derived
  <2>1. job \in Owed(s, p[2])
    BY <1>2, <1>3
  <2> QED
    BY <1>1, <2>1, ChecksStay
<1>7. RebuiltOK'
  <2>1. CASE bf.pc \in {"rebuild", "done"}
    <3>1. \A s : Passed(s) \in Nat /\ Passed(s)' \in Nat
      BY Counted
    <3>2. \A s : Passed(s)' = Passed(s)
      BY DEF Passed
    <3>3. \A s, d : Passed(d)' <= Passed(s) + 1
      BY <3>1, <3>2 DEF Passed
    <3>4. \A s : Passed(s)' <= Passed(s)
      BY <3>1, <3>2
    <3> QED
      BY <1>1, <1>2, <2>1, <3>1, <3>3, <3>4, RebuiltStep
  <2>2. CASE bf.pc \notin {"rebuild", "done"}
    BY <2>2 DEF RebuiltOK
  <2> QED
    BY <2>1, <2>2
<1> QED
  BY <1>2, <1>4, <1>5, <1>6, <1>7 DEF BackOK

\* Outside a backfill, and while it plans, nothing is cleared or rebuilt.
LEMMA NotYet ==
    ASSUME bf'.pc \in {"none", "plan", "reset"}, left' \subseteq Database
    PROVE  CheckOK' /\ RebuiltOK' /\ LeftOK'
<1>1. Cleared' = {}
  BY DEF Cleared
<1> QED
  BY <1>1 DEF CheckOK, RebuiltOK, LeftOK

LEMMA NoneBack ==
    ASSUME bf' = NoBackfill, left' \subseteq Database
    PROVE  BackOK'
<1>1. /\ bf'.pc = "none" /\ bf'.queue = <<>> /\ bf'.seen = {} /\ bf'.sources = {} /\ bf'.dests = {}
      /\ bf'.pass = 0 /\ bf'.had = {}
  BY DEF NoBackfill
<1>2. CheckOK' /\ RebuiltOK' /\ LeftOK'
  BY <1>1, NotYet
<1>3. SourcesOK' /\ TodoOK' /\ HadOK'
  BY <1>1 DEF SourcesOK, TodoOK, HadOK
<1> QED
  BY <1>2, <1>3 DEF BackOK

LEMMA BackfillBack ==
    ASSUME RowsOK, BfOK', BackOK, BackfillRollups
    PROVE  BackOK'
<1>1. PICK asked : bf' = [NoBackfill EXCEPT !.pc = "plan", !.asked = asked, !.had = UNION {rows[d] : d \in Database},
                     !.queue = InOrder(IF asked = {} THEN Candidates ELSE asked)]
  BY DEF BackfillRollups
<1>2. rows' = rows /\ left' = left
  BY DEF BackfillRollups
<1> DEFINE queue == InOrder(IF asked = {} THEN Candidates ELSE asked)
           had == UNION {rows[d] : d \in Database}
<1> HIDE DEF queue
<1>3. bf'.pc = "plan" /\ bf'.seen = {} /\ bf'.sources = {} /\ bf'.dests = {} /\ bf'.pass = 0 /\ bf'.had = had
  BY <1>1 DEF NoBackfill, queue
<1>4. CheckOK' /\ RebuiltOK' /\ LeftOK'
  BY <1>2, <1>3, NotYet DEF BackOK, LeftOK
<1>5. SourcesOK' /\ TodoOK'
  BY <1>3 DEF SourcesOK, TodoOK
<1>6. HadOK'
  <2> SUFFICES ASSUME NEW row \in had PROVE row \in rows[row.path[Len(row.path)]]
    BY <1>2, <1>3 DEF HadOK
  <2> QED
    BY DEF RowsOK
<1> QED
  BY <1>4, <1>5, <1>6 DEF BackOK

LEMMA PlanNextBack ==
    ASSUME IInv, LoadedOK, BfOK, BackOK, PlanNext
    PROVE  BackOK'
<1> DEFINE d    == Head(bf.queue)
           info == RollupInfo(d)
           dsts == {job.dst : job \in info.jobs}
<1>1. /\ bf.pc = "plan" /\ bf.queue # <<>> /\ UNCHANGED <<up, settingVars, rows, left>>
      /\ bf' = IF d \in bf.seen THEN [bf EXCEPT !.queue = Tail(@)]
               ELSE IF info = Refused THEN NoBackfill
               ELSE IF ~Runs(info) THEN [bf EXCEPT !.queue = Tail(@), !.seen = @ \cup {d}]
               ELSE [bf EXCEPT !.queue = Enqueue(@, dsts), !.seen = @ \cup {d},
                               !.sources = @ \cup {d}, !.dests = @ \cup dsts]
  BY DEF PlanNext
<1>2. /\ bf \in Backfills /\ bf.queue \in Seq(Database)
      /\ SourcesOK /\ TodoOK /\ HadOK /\ LeftOK
  BY DEF BfOK, Backfills, BackOK
<1>3. d \in Database /\ Tail(bf.queue) \in Seq(Database) /\ Range(bf.queue) = {d} \cup Range(Tail(bf.queue))
  BY <1>1, <1>2, HeadAndTail
<1>4. \A x : RollupInfo(x)' = RollupInfo(x)
  BY <1>1 DEF RollupInfo, LoadExisting, settingVars
<1>5. ASSUME bf'.pc = "plan", bf'.pass = bf.pass, bf'.had = bf.had, bf.dests \subseteq bf'.dests, SourcesOK'
      PROVE  BackOK'
  <2>1. CheckOK' /\ RebuiltOK' /\ LeftOK'
    BY <1>1, <1>2, <1>5, NotYet DEF LeftOK
  <2>2. TodoOK'
    BY <1>1, <1>2, <1>5 DEF TodoOK
  <2>3. HadOK'
    BY <1>1, <1>2, <1>5, HadStays
  <2> QED
    BY <1>5, <2>1, <2>2, <2>3 DEF BackOK
<1>6. CASE d \in bf.seen
  <2>1. /\ bf'.pc = "plan" /\ bf'.pass = bf.pass /\ bf'.had = bf.had /\ bf'.dests = bf.dests
        /\ bf'.queue = Tail(bf.queue) /\ bf'.seen = bf.seen /\ bf'.sources = bf.sources
    BY <1>1, <1>2, <1>6 DEF Backfills
  <2>2. bf.dests \subseteq bf.seen \cup Range(Tail(bf.queue))
    BY <1>2, <1>3, <1>6 DEF SourcesOK
  <2>3. SourcesOK'
    BY <1>2, <1>4, <2>1, <2>2 DEF SourcesOK
  <2> QED
    BY <1>5, <2>1, <2>3
<1>7. CASE d \notin bf.seen /\ info = Refused
  BY <1>1, <1>2, <1>7, NoneBack DEF LeftOK
<1>8. CASE d \notin bf.seen /\ info # Refused /\ ~Runs(info)
  <2>1. bf' = [bf EXCEPT !.queue = Tail(bf.queue), !.seen = bf.seen \cup {d}]
    BY <1>1, <1>8
  <2>2. /\ bf'.pc = "plan" /\ bf'.pass = bf.pass /\ bf'.had = bf.had /\ bf'.dests = bf.dests
        /\ bf'.queue = Tail(bf.queue) /\ bf'.seen = bf.seen \cup {d} /\ bf'.sources = bf.sources
    BY <1>1, <1>2, <2>1 DEF Backfills
  <2>3. bf.dests \subseteq (bf.seen \cup {d}) \cup Range(Tail(bf.queue))
    BY <1>2, <1>3 DEF SourcesOK
  <2>4. SourcesOK'
    BY <1>2, <1>4, <1>8, <2>2, <2>3 DEF SourcesOK
  <2> QED
    BY <1>5, <2>2, <2>4
<1>9. CASE d \notin bf.seen /\ info # Refused /\ Runs(info)
  <2>1. bf' = [bf EXCEPT !.queue = Enqueue(bf.queue, dsts), !.seen = bf.seen \cup {d},
                         !.sources = bf.sources \cup {d}, !.dests = bf.dests \cup dsts]
    BY <1>1, <1>9
  <2>2. dsts \subseteq Database
    BY <1>3, <1>9, InfoIs DEF IInv
  <2>3. InOrder(dsts) \in Seq(Database) /\ Range(InOrder(dsts)) = dsts
    BY <2>2, InOrderIs
  <2>4. Range(Enqueue(bf.queue, dsts)) = Range(Tail(bf.queue)) \cup dsts
    BY <1>3, <2>3, JoinRange DEF Enqueue
  <2>5. \A job \in info.jobs : job.dst \in dsts
    OBVIOUS
  <2> HIDE DEF dsts
  <2>6. /\ bf'.pc = "plan" /\ bf'.pass = bf.pass /\ bf'.had = bf.had /\ bf'.dests = bf.dests \cup dsts
        /\ bf'.queue = Enqueue(bf.queue, dsts) /\ bf'.seen = bf.seen \cup {d}
        /\ bf'.sources = bf.sources \cup {d}
    BY <1>1, <1>2, <2>1 DEF Backfills
  <2>7. bf.dests \cup dsts \subseteq (bf.seen \cup {d}) \cup Range(Enqueue(bf.queue, dsts))
    BY <1>2, <1>3, <2>4 DEF SourcesOK
  <2>8. SourcesOK'
    BY <1>2, <1>4, <1>9, <2>5, <2>6, <2>7 DEF SourcesOK
  <2> QED
    BY <1>5, <2>6, <2>8
<1> QED
  BY <1>6, <1>7, <1>8, <1>9

LEMMA PlannedBack ==
    ASSUME BfOK, BackOK, Planned
    PROVE  BackOK'
<1>1. /\ bf.pc = "plan" /\ bf.queue = <<>> /\ UNCHANGED <<up, settingVars, rows, left>>
      /\ bf' = IF bf.sources = {} THEN NoBackfill
               ELSE [bf EXCEPT !.pc = "reset", !.todo = InOrder(bf.dests)]
  BY DEF Planned
<1>2. bf \in Backfills /\ bf.dests \subseteq Database /\ SourcesOK /\ TodoOK /\ HadOK /\ LeftOK
  BY DEF BfOK, Backfills, BackOK
<1>3. CASE bf.sources = {}
  BY <1>1, <1>2, <1>3, NoneBack DEF LeftOK
<1>4. CASE bf.sources # {}
  <2>1. bf' = [bf EXCEPT !.pc = "reset", !.todo = InOrder(bf.dests)]
    BY <1>1, <1>4
  <2>2. /\ bf'.pc = "reset" /\ bf'.todo = InOrder(bf.dests) /\ bf'.pass = bf.pass /\ bf'.had = bf.had
        /\ bf'.dests = bf.dests /\ bf'.queue = bf.queue /\ bf'.seen = bf.seen /\ bf'.sources = bf.sources
    BY <1>2, <2>1 DEF Backfills
  <2>3. \A x : RollupInfo(x)' = RollupInfo(x)
    BY <1>1 DEF RollupInfo, LoadExisting, settingVars
  <2>4. SourcesOK'
    BY <1>1, <1>2, <2>2, <2>3 DEF SourcesOK
  <2>5. Range(InOrder(bf.dests)) = bf.dests
    BY <1>2, InOrderIs
  <2>6. TodoOK'
    BY <1>1, <1>2, <2>2, <2>5 DEF TodoOK
  <2>7. HadOK'
    BY <1>1, <1>2, <2>2, HadStays
  <2>8. CheckOK' /\ RebuiltOK' /\ LeftOK'
    BY <1>1, <1>2, <2>2, NotYet DEF LeftOK
  <2> QED
    BY <2>4, <2>6, <2>7, <2>8 DEF BackOK
<1> QED
  BY <1>3, <1>4

LEMMA ResetBack ==
    ASSUME IInv, IInv', LoadedOK, RowsOK, BfOK, BfOK', ReadsOK, RowsThere, BackOK, ResetDestination
    PROVE  ReadsOK' /\ RowsThere' /\ BackOK'
<1> DEFINE h == Head(bf.todo)
           lost == {s \in Database : \E p \in done[s] : Derived(p[2], h) \in rows[h]}
<1>1. /\ bf.pc = "reset" /\ bf.todo # <<>> /\ UNCHANGED <<up, defaults, manifest, done>>
      /\ loaded' = [loaded EXCEPT ![h] = Nothing]
      /\ rows' = [rows EXCEPT ![h] = {}]
      /\ left' = left \cup lost
      /\ bf' = IF Len(bf.todo) > 1 THEN [bf EXCEPT !.todo = Tail(@)]
               ELSE [bf EXCEPT !.pc = "clear", !.todo = InOrder(bf.sources)]
  BY DEF ResetDestination
<1>2. /\ bf \in Backfills /\ bf.todo \in Seq(Database) /\ bf.sources \subseteq Database
      /\ SourcesOK /\ TodoOK /\ HadOK /\ LeftOK
  BY DEF BfOK, Backfills, BackOK
<1>3. h \in Database /\ Range(bf.todo) = {h} \cup Range(Tail(bf.todo)) /\ h \in bf.dests
  BY <1>1, <1>2, HeadAndTail DEF TodoOK
<1>4. \A s \in Database : s \notin lost => \A p \in done[s] : Derived(p[2], h) \notin rows[h]
  OBVIOUS
<1>5. lost \subseteq Database
  OBVIOUS
<1> HIDE DEF h, lost
<1>6. ReadsOK' /\ InfosStay
  <2>1. FilesOK /\ FilesOK'
    BY DEF IInv
  <2>2. \A x : LoadExisting(x, defaults)' = LoadExisting(x, defaults)
    BY <1>1 DEF LoadExisting
  <2>3. ReadsStay
    BY <2>2, PresentOrAbsent DEF ReadsStay, SameUse
  <2>4. \A d \in Database : loaded'[d] # Nothing => loaded'[d] = loaded[d]
    BY <1>1, <2>1 DEF FilesOK
  <2>5. ReadsOK'
    BY <2>2, <2>4 DEF ReadsOK
  <2> QED
    BY <2>1, <2>3, <2>5, StayIs
<1>7. \A d \in Database : rows'[d] = IF d = h THEN {} ELSE rows[d]
  BY <1>1 DEF RowsOK
<1>8. RowsThere'
  <2> SUFFICES ASSUME NEW s \in Database, s \notin left, s \notin lost, NEW p \in done[s]
               PROVE  \E d \in Database : Derived(p[2], d) \in rows'[d]
    BY <1>1 DEF RowsThere, Derived
  <2>1. PICK d \in Database : Derived(p[2], d) \in rows[d]
    BY DEF RowsThere
  <2>2. d # h
    BY <1>4, <2>1
  <2> QED
    BY <1>7, <2>1, <2>2
<1>9. /\ bf'.pc \in {"reset", "clear"} /\ bf'.seen = bf.seen /\ bf'.sources = bf.sources
      /\ bf'.dests = bf.dests /\ bf'.queue = bf.queue /\ bf'.pass = bf.pass /\ bf'.had = bf.had
      /\ bf'.pc = "reset" => bf'.todo = Tail(bf.todo)
      /\ bf'.pc = "clear" => bf'.todo = InOrder(bf.sources)
  <2>1. CASE Len(bf.todo) > 1
    BY <1>1, <1>2, <2>1 DEF Backfills
  <2>2. CASE ~(Len(bf.todo) > 1)
    <3>1. bf' = [bf EXCEPT !.pc = "clear", !.todo = InOrder(bf.sources)]
      BY <1>1, <2>2
    <3> QED
      BY <1>2, <3>1 DEF Backfills
  <2> QED
    BY <2>1, <2>2
<1>10. SourcesOK'
  BY <1>1, <1>2, <1>6, <1>9, SourcesStay
<1>11. Range(InOrder(bf.sources)) = bf.sources
  BY <1>2, InOrderIs
<1>12. TodoOK'
  BY <1>1, <1>2, <1>3, <1>9, <1>11 DEF TodoOK
<1>13. HadOK'
  <2>1. \A row \in bf.had : row.path[Len(row.path)] \in Database
    BY <1>2 DEF Backfills, Row
  <2> QED
    BY <1>2, <1>3, <1>7, <1>9, <2>1 DEF HadOK
<1>14. Cleared' = {}
  BY <1>9, <1>11 DEF Cleared
<1>15. CheckOK' /\ RebuiltOK' /\ LeftOK'
  BY <1>1, <1>2, <1>5, <1>9, <1>14 DEF CheckOK, RebuiltOK, LeftOK
<1> QED
  BY <1>6, <1>8, <1>10, <1>12, <1>13, <1>15 DEF BackOK

LEMMA ClearBack ==
    ASSUME IInv, LoadedOK, RowsOK, BfOK, BfOK', ReadsOK, DoneOK, RowsThere, BackOK, ClearCheckpoint
    PROVE  ReadsOK' /\ DoneOK' /\ RowsThere' /\ BackOK'
<1> DEFINE h == Head(bf.todo)
<1>1. /\ bf.pc = "clear" /\ UNCHANGED <<up, settingVars, rows>>
      /\ done' = [done EXCEPT ![h] = {}] /\ left' = left \ {h}
      /\ bf' = IF Len(bf.todo) > 1 THEN [bf EXCEPT !.todo = Tail(@)]
               ELSE [bf EXCEPT !.pc = "rebuild", !.todo = InOrder(bf.sources)]
  BY DEF ClearCheckpoint, WithoutCheckpoints
<1>2. /\ bf \in Backfills /\ bf.todo \in Seq(Database) /\ bf.sources \subseteq Database /\ bf.todo # <<>>
      /\ SourcesOK /\ TodoOK /\ HadOK /\ LeftOK /\ CheckOK
  BY <1>1 DEF BfOK, Backfills, BackOK
<1>3. /\ h \in Database /\ Range(bf.todo) = {h} \cup Range(Tail(bf.todo))
      /\ Len(Tail(bf.todo)) = Len(bf.todo) - 1 /\ Len(bf.todo) \in Nat /\ Len(bf.todo) >= 1
      /\ Tail(bf.todo) \in Seq(Database)
  BY <1>2, HeadAndTail
<1> HIDE DEF h
<1>4. ReadsOK' /\ InfosStay
  BY <1>1, SameStay DEF settingVars
<1>5. DoneOK' /\ \A s \in Database : done'[s] = IF s = h THEN {} ELSE done[s]
  BY <1>1 DEF DoneOK
<1>6. RowsThere'
  <2> SUFFICES ASSUME NEW s \in Database, s \notin left', NEW p \in done'[s]
               PROVE  \E d \in Database : Derived(p[2], d) \in rows'[d]
    BY DEF RowsThere, Derived
  <2>1. s # h /\ p \in done[s] /\ s \notin left
    BY <1>1, <1>5
  <2> QED
    BY <1>1, <2>1 DEF RowsThere
<1>7. /\ bf'.pc \in {"rebuild", "clear"} /\ bf'.seen = bf.seen /\ bf'.sources = bf.sources
      /\ bf'.dests = bf.dests /\ bf'.queue = bf.queue /\ bf'.pass = bf.pass /\ bf'.had = bf.had
      /\ bf'.pc = "clear" => bf'.todo = Tail(bf.todo)
      /\ bf'.pc = "rebuild" => bf'.todo = InOrder(bf.sources) /\ Range(bf.todo) = {h}
  <2>1. CASE Len(bf.todo) > 1
    BY <1>1, <1>2, <2>1 DEF Backfills
  <2>2. CASE ~(Len(bf.todo) > 1)
    <3>1. bf' = [bf EXCEPT !.pc = "rebuild", !.todo = InOrder(bf.sources)]
      BY <1>1, <2>2
    <3> DEFINE t == Tail(bf.todo)
    <3>2. t \in Seq(Database) /\ Len(t) = 0
      <4> DEFINE n == Len(bf.todo)
      <4>1. n \in Nat /\ n >= 1 /\ ~(n > 1) /\ Len(t) = n - 1
        BY <1>3, <2>2
      <4> HIDE DEF n, t
      <4>2. Len(t) = 0
        BY <4>1
      <4> QED
        BY <1>3, <4>2 DEF t
    <3>4. Range(bf.todo) = {h}
      <4>1. Range(bf.todo) = {h} \cup Range(t)
        BY <1>3
      <4> HIDE DEF t
      <4>2. t = <<>>
        BY <3>2
      <4>3. Range(t) = {}
        BY <4>2 DEF Range
      <4> QED
        BY <4>1, <4>3
    <3> QED
      BY <1>2, <3>1, <3>4 DEF Backfills
  <2> QED
    BY <2>1, <2>2
<1>8. /\ SourcesOK'
      /\ \A s \in bf.sources : \A row : Owed(s, row)' = Owed(s, row)
  BY <1>1, <1>2, <1>4, <1>7, SourcesStay
<1>9. Range(InOrder(bf.sources)) = bf.sources
  BY <1>2, InOrderIs
<1>10. TodoOK'
  BY <1>1, <1>2, <1>3, <1>7, <1>9 DEF TodoOK
<1>11. HadOK'
  BY <1>1, <1>2, <1>7 DEF HadOK
<1>12. Cleared' \subseteq Cleared \cup {h} /\ Cleared \subseteq bf.sources /\ Cleared' \subseteq bf.sources
  BY <1>1, <1>3, <1>7 DEF Cleared
<1>13. CheckOK'
  <2> SUFFICES ASSUME NEW s \in Cleared', NEW p \in done'[s], NEW job \in Owed(s, p[2])', job.id = p[1]
               PROVE  Derived(p[2], job.dst) \in rows'[job.dst]
    BY DEF CheckOK, Derived
  <2>1. s \in bf.sources /\ s \in Database /\ s # h /\ s \in Cleared /\ p \in done[s]
    BY <1>2, <1>5, <1>12
  <2>2. job \in Owed(s, p[2])
    BY <1>8, <2>1
  <2> QED
    BY <1>1, <1>2, <2>1, <2>2 DEF CheckOK
<1>14. LeftOK'
  BY <1>1, <1>2, <1>12 DEF LeftOK
<1>15. RebuiltOK'
  <2> SUFFICES ASSUME bf'.pc = "rebuild", NEW s \in bf.sources, NEW row \in rows[s], NEW k \in 1..Len(row.path),
                      Len(row.path) - k < Passed(s)'
               PROVE  FALSE
    BY <1>1, <1>7 DEF RebuiltOK
  <2>1. Passed(s)' = 0
    BY <1>1, <1>2, <1>7, <1>9 DEF Passed, TodoOK
  <2>2. Len(row.path) \in Nat
    <3>1. row \in Row
      BY <1>2 DEF RowsOK
    <3> QED
      BY <3>1 DEF Row
  <2> QED
    BY <2>1, <2>2
<1> QED
  BY <1>4, <1>5, <1>6, <1>8, <1>10, <1>11, <1>13, <1>14, <1>15 DEF BackOK

LEMMA TriggerSettings ==
    ASSUME IInv, IInv', LoadedOK, ReadsOK, NEW s \in Database, TriggerRollups(s), defaults' = defaults
    PROVE  ReadsOK' /\ InfosStay
<1> DEFINE jobs  == JobsToRun(s)
           dests == {job.dst : job \in jobs}
           def   == [d \in Database |-> IF d = s THEN defaults ELSE RollupDefaults(FirstIsLong(jobs, d))]
<1>1. OpenAll({s} \cup dests, dests \ {s}, def)
  BY DEF TriggerRollups
<1>2. \A d \in Database : Alike(def[d])
  BY DefaultsAlike DEF IInv
<1>3. \A d \in Database : d \in {s} \cup dests /\ d \notin dests \ {s} => def[d] = defaults
  OBVIOUS
<1> HIDE DEF def, dests
<1> QED
  BY <1>1, <1>2, <1>3, OpensStay

LEMMA TriggerThere ==
    ASSUME IInv, LoadedOK, RowsOK, DoneOK, RowsThere, NEW s \in Database, TriggerRollups(s), left' = left
    PROVE  DoneOK' /\ RowsThere'
<1>1. /\ DoneOK'
      /\ \A d \in Database : rows[d] \subseteq rows'[d]
      /\ \A x \in Database : x # s => done'[x] = done[x]
      /\ \A p \in done'[s] \ done[s] : \E row \in rows[s] : \E job \in JobsToRun(s) :
             /\ p = <<job.id, row>> /\ job.src = NameOf(row) /\ Len(row.path) <= MaxHops
             /\ job.dst \in Database /\ Derived(row, job.dst) \in rows'[job.dst]
  BY TriggerDoes
<1>2. ASSUME NEW x \in Database, x \notin left, NEW p \in done'[x]
      PROVE  \E d \in Database : Derived(p[2], d) \in rows'[d]
  <2>1. CASE p \in done[x]
    BY <1>1, <1>2, <2>1 DEF RowsThere
  <2>2. CASE p \notin done[x]
    <3>1. x = s
      BY <1>1, <1>2, <2>2
    <3>2. PICK row \in rows[s] : \E job \in JobsToRun(s) :
              p = <<job.id, row>> /\ job.dst \in Database /\ Derived(row, job.dst) \in rows'[job.dst]
      BY <1>1, <1>2, <2>2, <3>1
    <3>3. p[2] = row
      BY <3>2
    <3> QED
      BY <3>2, <3>3
  <2> QED
    BY <2>1, <2>2
<1> QED
  BY <1>1, <1>2 DEF RowsThere, Derived

LEMMA TriggerBack ==
    ASSUME CInv, IInv', LoadedOK', RowsOK', BfOK', NEW s \in Database, TriggerRollups(s), up,
           defaults' = defaults, left' = left, bf' = bf
    PROVE  ReadsOK' /\ DoneOK' /\ RowsThere' /\ BackOK'
<1>1. /\ IInv /\ LoadedOK /\ RowsOK /\ BfOK /\ UpOK /\ ReadsOK /\ DoneOK /\ RowsThere /\ BackOK
      /\ SourcesOK /\ CheckOK /\ HadOK
  BY DEF CInv, BInv, BackOK
<1>2. ReadsOK' /\ InfosStay
  BY <1>1, TriggerSettings
<1>3. DoneOK' /\ RowsThere'
  BY <1>1, TriggerThere
<1>4. NewRowsFollow
  BY <1>1, TriggerFollows
<1>5. /\ \A d \in Database : rows[d] \subseteq rows'[d]
      /\ \A x \in Database : x # s => done'[x] = done[x]
  BY <1>1, TriggerDoes
<1>6. ASSUME NEW x \in Cleared
      PROVE  \/ done'[x] = done[x]
             \/ \A p \in done'[x] : \A job \in Owed(x, p[2]) :
                    job.id = p[1] => Derived(p[2], job.dst) \in rows'[job.dst]
  <2>1. x \in Database /\ bf.pc # "plan"
    BY <1>1 DEF Cleared, BfOK, Backfills
  <2>2. CASE x = s
    BY <1>1, <1>2, <2>1, <2>2, TriggerCovers
  <2>3. CASE x # s
    BY <1>5, <2>1, <2>3
  <2> QED
    BY <2>2, <2>3
<1>7. BackOK'
  BY <1>1, <1>2, <1>4, <1>5, <1>6, QuietKeeps
<1> QED
  BY <1>2, <1>3, <1>7

LEMMA RebuildBack ==
    ASSUME CInv, IInv', LoadedOK', RowsOK', BfOK', Rebuild
    PROVE  ReadsOK' /\ DoneOK' /\ RowsThere' /\ BackOK'
<1>0. PICK h : h = Head(bf.todo)
  OBVIOUS
<1>1. /\ bf.pc = "rebuild" /\ UNCHANGED <<up, defaults, left>> /\ TriggerRollups(h)
      /\ bf' = IF Len(bf.todo) > 1 THEN [bf EXCEPT !.todo = Tail(@)]
               ELSE IF bf.pass + 1 < Cardinality(bf.sources)
                 THEN [bf EXCEPT !.todo = InOrder(bf.sources), !.pass = @ + 1]
                 ELSE [bf EXCEPT !.pc = "done", !.todo = <<>>]
  BY <1>0 DEF Rebuild, Passes
<1>2. /\ IInv /\ LoadedOK /\ RowsOK /\ BfOK /\ UpOK /\ ReadsOK /\ DoneOK /\ RowsThere
      /\ SourcesOK /\ TodoOK /\ CheckOK /\ HadOK /\ RebuiltOK /\ LeftOK
  BY DEF CInv, BInv, BackOK
<1>3. /\ bf \in Backfills /\ bf.todo \in Seq(Database) /\ bf.sources \subseteq Database /\ bf.todo # <<>>
      /\ up /\ bf.pass \in Nat
  BY <1>1, <1>2 DEF BfOK, Backfills, NoBackfill
<1>4. /\ h \in Database /\ Range(bf.todo) = {h} \cup Range(Tail(bf.todo)) /\ h \in bf.sources
      /\ Len(Tail(bf.todo)) = Len(bf.todo) - 1 /\ Len(bf.todo) \in Nat /\ Len(bf.todo) >= 1
      /\ Tail(bf.todo) \in Seq(Database)
  BY <1>0, <1>1, <1>2, <1>3, HeadAndTail DEF TodoOK
<1>5. ReadsOK' /\ InfosStay
  BY <1>1, <1>2, <1>4, TriggerSettings
<1>6. DoneOK' /\ RowsThere'
  BY <1>1, <1>2, <1>4, TriggerThere
<1>7. NewRowsFollow
  BY <1>1, <1>2, <1>4, TriggerFollows
<1>8. /\ \A d \in Database : rows[d] \subseteq rows'[d]
      /\ \A x \in Database : x # h => done'[x] = done[x]
  BY <1>1, <1>2, <1>4, TriggerDoes
<1>9. Cleared = bf.sources /\ h \in Cleared
  BY <1>1, <1>4 DEF Cleared
<1>10. /\ \A row \in rows[h] : Whole(h, row)'
       /\ \A p \in done'[h] : \A job \in Owed(h, p[2]) :
              job.id = p[1] => Derived(p[2], job.dst) \in rows'[job.dst]
  <2>1. bf.pc # "plan" /\ TriggerRollups(h)
    BY <1>1
  <2> QED
    BY <1>2, <1>3, <1>5, <1>9, <2>1, TriggerCovers
<1>11. Cardinality(bf.sources) \in Nat /\ Range(InOrder(bf.sources)) = bf.sources
  BY <1>3, InOrderIs
\* How far the sources are after the step.
<1>12. /\ bf'.pc \in {"rebuild", "done"} /\ bf'.seen = bf.seen /\ bf'.sources = bf.sources
       /\ bf'.dests = bf.dests /\ bf'.queue = bf.queue /\ bf'.had = bf.had
       /\ bf'.pc = "rebuild" => Range(bf'.todo) \subseteq bf.sources
       /\ \A s \in bf.sources : Passed(s)' <= bf.pass + 1 /\ (s # h => Passed(s)' <= Passed(s))
  <2>1. CASE Len(bf.todo) > 1
    <3>1. bf' = [bf EXCEPT !.todo = Tail(bf.todo)]
      BY <1>1, <1>3, <2>1 DEF Backfills
    <3>2. /\ bf'.pc = "rebuild" /\ bf'.seen = bf.seen /\ bf'.sources = bf.sources /\ bf'.pass = bf.pass
          /\ bf'.dests = bf.dests /\ bf'.queue = bf.queue /\ bf'.had = bf.had /\ bf'.todo = Tail(bf.todo)
      BY <1>1, <1>3, <3>1 DEF Backfills
    <3>3. \A s \in bf.sources : Passed(s)' <= bf.pass + 1 /\ (s # h => Passed(s)' <= Passed(s))
      BY <1>1, <1>3, <1>4, <3>2 DEF Passed
    <3> QED
      BY <1>1, <1>2, <1>4, <3>2, <3>3 DEF TodoOK
  <2>2. CASE ~(Len(bf.todo) > 1)
    <3> DEFINE t == Tail(bf.todo)
    <3>1. t \in Seq(Database) /\ Len(t) = 0 /\ Range(bf.todo) = {h} \cup Range(t)
      <4> DEFINE n == Len(bf.todo)
      <4>1. n \in Nat /\ n >= 1 /\ ~(n > 1) /\ Len(t) = n - 1
        BY <1>4, <2>2
      <4> HIDE DEF n, t
      <4>2. Len(t) = 0
        BY <4>1
      <4> QED
        BY <1>4, <4>2 DEF t
    <3> HIDE DEF t
    <3>2. t = <<>>
      BY <3>1
    <3>3. Range(bf.todo) = {h}
      BY <3>1, <3>2 DEF Range
    <3>4. CASE bf.pass + 1 < Cardinality(bf.sources)
      <4>1. bf' = [bf EXCEPT !.todo = InOrder(bf.sources), !.pass = bf.pass + 1]
        BY <1>1, <1>3, <2>2, <3>4 DEF Backfills
      <4>2. /\ bf'.pc = "rebuild" /\ bf'.seen = bf.seen /\ bf'.sources = bf.sources /\ bf'.pass = bf.pass + 1
            /\ bf'.dests = bf.dests /\ bf'.queue = bf.queue /\ bf'.had = bf.had /\ bf'.todo = InOrder(bf.sources)
        BY <1>1, <1>3, <4>1 DEF Backfills
      <4>3. \A s \in bf.sources : Passed(s)' = bf.pass + 1 /\ (s # h => Passed(s) = bf.pass + 1)
        BY <1>1, <1>11, <3>3, <4>2 DEF Passed
      <4> QED
        BY <1>3, <1>11, <4>2, <4>3
    <3>5. CASE ~(bf.pass + 1 < Cardinality(bf.sources))
      <4>1. bf' = [bf EXCEPT !.pc = "done", !.todo = <<>>]
        BY <1>1, <2>2, <3>5
      <4>2. /\ bf'.pc = "done" /\ bf'.seen = bf.seen /\ bf'.sources = bf.sources
            /\ bf'.dests = bf.dests /\ bf'.queue = bf.queue /\ bf'.had = bf.had
        BY <1>3, <4>1 DEF Backfills
      <4>3. \A s \in bf.sources : Passed(s)' = Cardinality(bf.sources) /\ (s # h => Passed(s) = bf.pass + 1)
        BY <1>1, <3>3, <4>2 DEF Passed
      <4> QED
        BY <1>3, <1>11, <3>5, <4>2, <4>3
    <3> QED
      BY <3>4, <3>5
  <2> QED
    BY <2>1, <2>2
<1>13. /\ SourcesOK'
       /\ \A s \in bf.sources : /\ \A row : Owed(s, row)' = Owed(s, row)
                                /\ \A d : Feeds(s, d)' <=> Feeds(s, d)
  BY <1>1, <1>2, <1>5, <1>12, SourcesStay
<1>14. TodoOK' /\ HadOK'
  <2>1. HadOK'
    BY <1>2, <1>8, <1>12, HadStays
  <2> QED
    BY <1>12, <2>1 DEF TodoOK
<1>15. Cleared' = bf.sources
  BY <1>12 DEF Cleared
<1>16. LeftOK'
  BY <1>1, <1>2, <1>9, <1>15 DEF LeftOK
<1>17. CheckOK'
  <2> SUFFICES ASSUME NEW s \in Cleared, NEW p \in done'[s], NEW job \in Owed(s, p[2])', job.id = p[1]
               PROVE  Derived(p[2], job.dst) \in rows'[job.dst]
    BY <1>9, <1>15 DEF CheckOK, Derived
  <2>1. job \in Owed(s, p[2]) /\ s \in Database
    BY <1>3, <1>9, <1>13
  <2>2. CASE s = h
    BY <1>10, <2>1, <2>2
  <2>3. CASE s # h
    <3>1. p \in done[s]
      BY <1>8, <2>1, <2>3
    <3> QED
      BY <1>2, <1>8, <2>1, <3>1, ChecksStay
  <2> QED
    BY <2>2, <2>3
<1>18. RebuiltOK'
  <2>1. \A s : Passed(s) \in Nat /\ Passed(s)' \in Nat
    BY <1>2, <1>12, Counted
  <2>2. \A s : Passed(s) >= bf.pass
    BY <1>1, <1>3 DEF Passed
  <2>3. \A s, d \in bf.sources : Passed(d)' <= Passed(s) + 1
    BY <1>3, <1>12, <2>1, <2>2
  <2>4. \A s \in bf.sources : Passed(s)' <= Passed(s) \/ \A row \in rows[s] : Whole(s, row)'
    <3> SUFFICES ASSUME NEW s \in bf.sources
                 PROVE  Passed(s)' <= Passed(s) \/ \A row \in rows[s] : Whole(s, row)'
      OBVIOUS
    <3>1. CASE s = h
      BY <1>10, <3>1
    <3>2. CASE s # h
      BY <1>12, <3>2
    <3> QED
      BY <3>1, <3>2
  <2> QED
    BY <1>1, <1>2, <1>7, <1>8, <1>12, <1>13, <2>1, <2>3, <2>4, RebuiltStep
<1> QED
  BY <1>5, <1>6, <1>13, <1>14, <1>16, <1>17, <1>18 DEF BackOK

LEMMA CNextOK ==
    ASSUME CInv, [Next]_vars
    PROVE  CInv'
<1>1. /\ BInv /\ IInv /\ FilesOK /\ LoadedOK /\ RowsOK /\ BfOK /\ UpOK /\ ReadsOK /\ DoneOK
      /\ RowsThere /\ BackOK /\ HadOK /\ left \subseteq Database
  BY DEF CInv, BInv, IInv, BackOK, LeftOK
<1>2. BInv' /\ IInv' /\ FilesOK' /\ LoadedOK' /\ RowsOK' /\ BfOK'
  <2>1. BInv'
    BY <1>1, BNextOK
  <2> QED
    BY <2>1 DEF BInv, IInv
<1> SUFFICES UpOK' /\ ReadsOK' /\ DoneOK' /\ RowsThere' /\ BackOK'
  BY <1>2 DEF CInv
<1>3. ASSUME up' = up, up, defaults' = defaults PROVE UpOK'
  BY <1>1, <1>3 DEF UpOK, Normal, Valid, JobsValid
\* Steps that leave rows and checkpoints alone.
<1>4. ASSUME UNCHANGED <<rows, done, left>> PROVE DoneOK' /\ RowsThere'
  BY <1>1, <1>4 DEF DoneOK, RowsThere, Derived
<1>5. ASSUME UNCHANGED <<rows, done, left, bf>>, InfosStay PROVE BackOK'
  <2>1. NewRowsFollow /\ \A d \in Database : rows[d] \subseteq rows'[d]
    BY <1>5 DEF NewRowsFollow
  <2>2. \A s \in Cleared : done'[s] = done[s]
    BY <1>5
  <2> QED
    BY <1>1, <1>2, <1>5, <2>1, <2>2, QuietKeeps
\* Steps while no engine is open.
<1>6. ASSUME ~up, UNCHANGED <<loaded, rows, done, bf, left>>
      PROVE  ReadsOK' /\ DoneOK' /\ RowsThere' /\ BackOK' /\ \A d \in Database : loaded'[d] = Nothing
  <2>1. \A d \in Database : loaded'[d] = Nothing
    BY <1>1, <1>6 DEF UpOK
  <2>2. ReadsOK'
    BY <2>1 DEF ReadsOK
  <2>3. bf' = NoBackfill
    BY <1>1, <1>6 DEF BfOK
  <2>4. BackOK'
    BY <1>1, <1>6, <2>3, NoneBack
  <2> QED
    BY <1>4, <1>6, <2>1, <2>2, <2>4
<1>7. CASE Start
  <2>1. /\ ~up /\ up' /\ UNCHANGED <<loaded, rows, done, bf, left>>
        /\ defaults' = Defaults(EngineToml) /\ Accepted(EngineToml)
    BY <1>7 DEF Start, OpenEngine
  <2>2. EngineToml \in Manifest
    BY <1>1, BuiltInOK DEF FilesOK, EngineToml, DefaultConfig
  <2>3. Normal(Defaults(EngineToml))
    BY <2>1, <2>2, BuiltInOK, NormalizeOK DEF Accepted, Defaults
  <2>4. UpOK'
    BY <2>1, <2>3 DEF UpOK, Normal, Valid, JobsValid
  <2> QED
    BY <1>6, <2>1, <2>4
<1>8. CASE Stop
  <2>1. /\ up' = FALSE /\ loaded' = [d \in Database |-> Nothing]
        /\ bf' = NoBackfill /\ UNCHANGED <<rows, done, left>>
    BY <1>8 DEF Stop, StopEngine
  <2>2. UpOK' /\ ReadsOK'
    BY <2>1 DEF UpOK, ReadsOK
  <2>3. BackOK'
    BY <1>1, <2>1, NoneBack
  <2> QED
    BY <1>4, <2>1, <2>2, <2>3
<1>9. CASE Edit
  <2>1. ~up /\ up' = up /\ UNCHANGED <<loaded, rows, done, bf, left>>
    BY <1>9 DEF Edit, EditConfig, EditManifest
  <2>2. UpOK'
    BY <1>6, <2>1 DEF UpOK
  <2> QED
    BY <1>6, <2>1, <2>2
<1>10. ASSUME NEW d \in Database, Access(d) PROVE UpOK' /\ ReadsOK' /\ DoneOK' /\ RowsThere' /\ BackOK'
  <2> DEFINE def == [x \in Database |-> defaults]
  <2>1. /\ OpenAll({d}, {}, def) /\ defaults' = defaults /\ up /\ up' = up
        /\ UNCHANGED <<rows, done, bf, left>>
    BY <1>10 DEF Access, Open
  <2>2. \A x \in Database : Alike(def[x]) /\ def[x] = defaults
    BY <1>1, DefaultsAlike
  <2> HIDE DEF def
  <2>3. ReadsOK' /\ InfosStay
    BY <1>1, <1>2, <2>1, <2>2, OpensStay
  <2> QED
    BY <1>3, <1>4, <1>5, <2>1, <2>3
<1>11. ASSUME NEW d \in Database, Ingest(d) PROVE UpOK' /\ ReadsOK' /\ DoneOK' /\ RowsThere' /\ BackOK'
  <2>1. PICK base \in setting.ingested[d] :
            rows' = [rows EXCEPT ![d] = @ \cup {[base |-> base, path |-> <<d>>]}]
    BY <1>11 DEF Ingest
  <2>2. /\ up /\ UNCHANGED <<up, manifest, defaults, loaded, done, bf, left>>
    BY <1>11 DEF Ingest, settingVars
  <2>3. base \in Base
    <3>1. setting \in Settings
      BY <1>1 DEF FilesOK
    <3>2. setting.ingested \in [Database -> SUBSET Base]
      BY <3>1, SettingsAreFiles
    <3> QED
      BY <3>2
  <2>4. rows \in [Database -> SUBSET Row]
    BY <1>1 DEF RowsOK
  <2>5. NewRowsFollow
    BY <1>1, <2>1, <2>3, <2>4, IngestFollows
  <2>6. \A x \in Database : rows[x] \subseteq rows'[x]
    BY <2>1, <2>4
  <2>7. ReadsOK' /\ InfosStay
    BY <1>1, <2>2, SameStay
  <2>8. \A s \in Cleared : done'[s] = done[s]
    BY <2>2
  <2>9. BackOK'
    BY <1>1, <1>2, <2>2, <2>5, <2>6, <2>7, <2>8, QuietKeeps
  <2>10. DoneOK' /\ RowsThere'
    BY <1>1, <2>2, <2>6 DEF DoneOK, RowsThere, Derived
  <2> QED
    BY <1>3, <2>2, <2>7, <2>9, <2>10
<1>12. ASSUME NEW d \in Database, Trigger(d) PROVE UpOK' /\ ReadsOK' /\ DoneOK' /\ RowsThere' /\ BackOK'
  <2>1. TriggerRollups(d) /\ up /\ UNCHANGED <<up, defaults, bf, left>>
    BY <1>12 DEF Trigger
  <2> QED
    BY <1>2, <1>3, <2>1, TriggerBack
\* Steps of a backfill that leave settings, rows and checkpoints alone.
<1>13. ASSUME BackfillRollups \/ PlanNext \/ Planned PROVE UpOK' /\ ReadsOK' /\ DoneOK' /\ RowsThere' /\ BackOK'
  <2>1. UNCHANGED <<up, manifest, defaults, loaded, rows, done, left>>
    BY <1>13 DEF BackfillRollups, PlanNext, Planned, settingVars
  <2>2. up
    <3>1. BackfillRollups => up
      BY DEF BackfillRollups
    <3>2. PlanNext \/ Planned => bf.pc = "plan"
      BY DEF PlanNext, Planned
    <3>3. NoBackfill.pc = "none"
      BY DEF NoBackfill
    <3>4. ~up => bf = NoBackfill
      BY <1>1 DEF BfOK
    <3> QED
      BY <1>13, <3>1, <3>2, <3>3, <3>4
  <2>3. BackOK'
    BY <1>1, <1>2, <1>13, BackfillBack, PlanNextBack, PlannedBack
  <2>4. ReadsOK'
    BY <1>1, <2>1, SameStay
  <2> QED
    BY <1>3, <1>4, <2>1, <2>2, <2>3, <2>4
<1>14. CASE ResetDestination
  <2>1. up /\ UNCHANGED <<up, defaults, done>>
    BY <1>1, <1>14 DEF ResetDestination, BfOK, NoBackfill
  <2>2. DoneOK'
    BY <1>1, <2>1 DEF DoneOK
  <2> QED
    BY <1>1, <1>2, <1>3, <1>14, <2>1, <2>2, ResetBack
<1>15. CASE ClearCheckpoint
  <2>1. up /\ UNCHANGED <<up, defaults>>
    BY <1>1, <1>15 DEF ClearCheckpoint, settingVars, BfOK, NoBackfill
  <2> QED
    BY <1>1, <1>2, <1>3, <1>15, <2>1, ClearBack
<1>16. CASE Rebuild
  <2>1. up /\ UNCHANGED <<up, defaults>>
    BY <1>1, <1>16 DEF Rebuild, BfOK, NoBackfill
  <2> QED
    BY <1>2, <1>3, <1>16, <2>1, RebuildBack
<1>17. CASE UNCHANGED vars
  <2>1. UNCHANGED <<up, manifest, defaults, loaded, rows, done, bf, left>>
    BY <1>17 DEF vars, settingVars
  <2>2. ReadsOK' /\ InfosStay
    BY <1>1, <2>1, SameStay
  <2>3. UpOK'
    BY <1>1, <2>1 DEF UpOK, Normal, Valid, JobsValid
  <2> QED
    BY <1>4, <1>5, <2>1, <2>2, <2>3
<1> QED
  BY <1>7, <1>8, <1>9, <1>10, <1>11, <1>12, <1>13, <1>14, <1>15, <1>16, <1>17 DEF Next

LEMMA CInitOK == Init => CInv
<1> SUFFICES ASSUME Init PROVE CInv
  OBVIOUS
<1>1. /\ BInv /\ up = FALSE /\ bf = NoBackfill /\ left = {}
      /\ loaded = [d \in Database |-> Nothing] /\ done = [d \in Database |-> {}]
  BY BInitOK DEF Init
<1>2. /\ NoBackfill.pc = "none" /\ NoBackfill.queue = <<>> /\ NoBackfill.pass = 0
      /\ NoBackfill.seen = {} /\ NoBackfill.sources = {} /\ NoBackfill.dests = {} /\ NoBackfill.had = {}
  BY DEF NoBackfill
<1>3. Cleared = {}
  BY <1>1, <1>2 DEF Cleared
<1>4. BackOK
  BY <1>1, <1>2, <1>3 DEF BackOK, SourcesOK, TodoOK, HadOK, CheckOK, RebuiltOK, LeftOK
<1> QED
  BY <1>1, <1>4 DEF CInv, UpOK, ReadsOK, DoneOK, RowsThere

\* The sources of a backfill keep their jobs and every destination can be opened; a row has
\* been derived from as many times as passes are behind it.
THEOREM RebuildInvariance == Spec => []CInv
<1>1. Init => CInv
  BY CInitOK
<1>2. CInv /\ [Next]_vars => CInv'
  BY CNextOK
<1> QED
  BY <1>1, <1>2, PTL DEF Spec

\* rollup.go:105: no checkpoint says a window is done that has no row in the destination,
\* but for sources left by a backfill that was stopped, goes on, or was not for them; one
\* that ends leaves none of its own.  For any databases, manifests, edits and backfills.
THEOREM CheckpointsAreTrue == Spec => []DoneRowsExist
<1>1. CInv => DoneRowsExist
  <2> SUFFICES ASSUME CInv PROVE DoneRowsExist
    OBVIOUS
  <2>1. RowsThere /\ LeftOK
    BY DEF CInv, BackOK
  <2>2. bf.pc = "done" => Cleared = bf.sources
    BY DEF Cleared
  <2> QED
    BY <2>1, <2>2 DEF DoneRowsExist, RowsThere, LeftOK
<1> QED
  BY <1>1, RebuildInvariance, PTL

(***************************************************************************)
(* As many passes as sources are enough.                                   *)
(***************************************************************************)

\* Where no database feeds itself, what a row went through by the jobs there are differs.
LEMMA NoReturn ==
    ASSUME Acyclic, NEW path \in Seq(Database), NEW k \in 1..Len(path),
           \A i \in k..(Len(path) - 1) : Feeds(path[i], path[i + 1])
    PROVE  \A i, j \in k..Len(path) : path[i] = path[j] => i = j
<1> DEFINE n == Len(path)
<1>1. n \in Nat /\ \A i \in 1..n : path[i] \in Database
  OBVIOUS
<1> HIDE DEF n
<1>2. ASSUME NEW i \in k..n, NEW j \in k..n, i < j PROVE path[i] # path[j]
  <2> DEFINE next == {d \in Database : Feeds(path[i], d)}
             T == {m \in 0..(j - i - 1) : path[i + 1 + m] \in Reach(next)}
  <2>1. /\ i \in Nat /\ j \in Nat /\ i \in 1..n /\ j - i - 1 \in Nat /\ i + 1 + (j - i - 1) = j
        /\ \A m \in 0..(j - i - 1) : /\ i + 1 + m \in 1..n /\ i + m \in k..(n - 1) /\ (i + m) + 1 = i + 1 + m
    BY <1>1, <1>2
  <2>2. /\ next \subseteq Reach(next)
        /\ \A s \in Reach(next) : \A d \in Database : Feeds(s, d) => d \in Reach(next)
    BY ReachIs
  <2>3. \A m \in 0..(j - i - 1) : Feeds(path[i + m], path[i + 1 + m]) /\ path[i + 1 + m] \in Database
    BY <1>1, <2>1 DEF n
  <2>4. 0 \in T
    <3>1. 0 \in 0..(j - i - 1) /\ i + 0 = i /\ i + 1 + 0 = i + 1
      BY <2>1
    <3>2. Feeds(path[i], path[i + 1]) /\ path[i + 1] \in Database
      BY <2>3, <3>1
    <3> QED
      BY <2>2, <3>1, <3>2
  <2>5. ASSUME NEW m \in T, m \in 0..(j - i - 1), m < j - i - 1 PROVE m + 1 \in T
    <3>1. m + 1 \in 0..(j - i - 1) /\ i + (m + 1) = i + 1 + m
      BY <2>1, <2>5
    <3>2. Feeds(path[i + 1 + m], path[i + 1 + (m + 1)]) /\ path[i + 1 + (m + 1)] \in Database
      BY <2>3, <3>1
    <3> QED
      BY <2>2, <3>1, <3>2
  <2> HIDE DEF T
  <2>6. \A m \in 0..(j - i - 1) : m \in T
    BY <2>1, <2>4, <2>5, Induct
  <2>7. path[j] \in Reach(next)
    <3>1. j - i - 1 \in T
      BY <2>1, <2>6
    <3> QED
      BY <2>1, <3>1 DEF T
  <2>8. path[i] \notin Reach(next)
    BY <1>1, <2>1 DEF Acyclic
  <2> QED
    BY <2>7, <2>8
<1>3. ASSUME NEW i \in k..n, NEW j \in k..n, path[i] = path[j] PROVE i = j
  <2>1. i \in Nat /\ j \in Nat
    BY <1>1
  <2> QED
    BY <1>2, <1>3, <2>1
<1> QED
  BY <1>3 DEF n

LEMMA PassesSuffice ==
    ASSUME BfOK, Acyclic, NEW row \in Row, NEW k \in 1..Len(row.path), FollowsFrom(row, k)
    PROVE  Len(row.path) - k < Cardinality(bf.sources)
<1> DEFINE path == row.path
           n == Len(path)
           m == n - k + 1
           f == [i \in 1..m |-> path[k + i - 1]]
<1>1. path \in Seq(Database) /\ n \in Nat /\ k \in 1..n /\ m \in Nat /\ bf.sources \subseteq Database
  BY DEF Row, BfOK, Backfills
<1>2. \A i, j \in k..n : path[i] = path[j] => i = j
  BY <1>1, NoReturn DEF FollowsFrom
<1>3. \A i \in k..n : path[i] \in bf.sources
  BY DEF FollowsFrom
<1> HIDE DEF path
<1>4. \A i \in 1..m : k + i - 1 \in k..n
  BY <1>1
<1>5. f \in [1..m -> bf.sources] /\ \A i \in 1..m : f[i] = path[k + i - 1]
  BY <1>3, <1>4
<1>6. ASSUME NEW i \in 1..m, NEW j \in 1..m, f[i] = f[j] PROVE i = j
  <2>1. k + i - 1 = k + j - 1
    BY <1>2, <1>4, <1>5, <1>6
  <2> QED
    BY <1>1, <2>1
<1> HIDE DEF f
<1>7. f \in Injection(1..m, bf.sources)
  BY <1>5, <1>6 DEF Injection, IsInjective
<1>8. IsFiniteSet(bf.sources) /\ Cardinality(bf.sources) \in Nat
  BY <1>1, FS_Subset, FS_CardinalityType
<1>9. IsFiniteSet(1..m) /\ Cardinality(1..m) = m
  BY <1>1, FS_Interval
<1>10. m <= Cardinality(bf.sources)
  BY <1>7, <1>8, <1>9, FS_Injection
<1> QED
  BY <1>1, <1>8, <1>10 DEF path

\* BackfillRollups derives again everything that follows, through its sources and by the
\* jobs there are, from what there was when it began in databases it does not reset: for
\* any databases, names and jobs of which none feeds itself, whatever else is triggered,
\* opened or written meanwhile.
THEOREM RebuildsWhole == Spec => []RebuiltWhole
<1>1. CInv => RebuiltWhole
  <2> SUFFICES ASSUME CInv, bf.pc = "done", Acyclic, NEW s \in bf.sources, NEW job \in JobsToRun(s),
                      NEW row \in rows[s], NameOf(row) = job.src, Follows(row)
               PROVE  Len(row.path) > MaxHops \/ Derived(row, job.dst) \in rows[job.dst]
    BY DEF RebuiltWhole
  <2>1. IInv /\ LoadedOK /\ RowsOK /\ BfOK /\ SourcesOK /\ RebuiltOK
    BY DEF CInv, BInv, BackOK
  <2>2. s \in Database /\ row \in Row
    BY <2>1 DEF BfOK, Backfills, RowsOK
  <2>3. PICK k \in 1..Len(row.path) : FollowsFrom(row, k)
    BY DEF Follows
  <2>4. Len(row.path) - k < Passed(s)
    BY <2>1, <2>2, <2>3, PassesSuffice DEF Passed
  <2>5. Whole(s, row)
    BY <2>1, <2>3, <2>4 DEF RebuiltOK
  <2>6. job \in Owed(s, row)
    BY <2>1, <2>2, OwedIs DEF SourcesOK
  <2> QED
    BY <2>5, <2>6 DEF Whole
<1> QED
  BY <1>1, RebuildInvariance, PTL
=============================================================================
