------------------------------ MODULE WALFile ------------------------------
(***************************************************************************)
(* The write-ahead log file of one database, below the records MetricStore *)
(* takes it to hold: length-prefixed records whose timestamps are deltas   *)
(* to a baseline, each written in two calls, with process crashes, power   *)
(* losses and failed writes between them.  Source: internal/engine/wal.go. *)
(*                                                                         *)
(* A chunk is what one append left in the file: the whole record, or a     *)
(* torn part of it.  Its content is the number of the append.  A reader    *)
(* that comes to a torn chunk stops if the file ends there, and otherwise  *)
(* takes the bytes of later records for the missing ones: from there on no *)
(* record is found where it begins (IsRead), although appends go on.  What *)
(* the reader makes of those bytes, an end, an error or a record that no   *)
(* one wrote, is left out.                                                 *)
(***************************************************************************)
EXTENDS Integers, FiniteSets, SequencesExt

CONSTANTS
    Timestamp,      \* sample timestamps
    MaxDelta,       \* the largest delta a record can hold, 2^24 - 1
    MaxSegment,     \* wal.max_segment_size, in records; 0 is no limit
    Policies,       \* the values of wal.fsync_policy to check
    MaxAppends, MaxStops, MaxFaults  \* bounds of the model

ASSUME WALAssumption ==
    /\ Timestamp \subseteq Nat
    /\ {MaxDelta, MaxSegment, MaxAppends, MaxStops, MaxFaults} \subseteq Nat
    /\ Policies \subseteq {"segment", "always"}

VARIABLES
    policy,       \* WAL.fsyncPolicy
    file,         \* the file as the running system sees it
    stable,       \* what was last known to be on the medium
    \* the WAL struct and the append or reset in progress
    pc,           \* its next step, "closed" while no process has the file open
    pending,      \* the record an append is writing
    baselineTS, hasBaseline,
    bufferSize,   \* in records; a torn one the file was opened with counts
    \* history
    sent,         \* the timestamp of every append so far
    acked,        \* the appends that returned no error since the last reset
    behind,       \* the appends begun while a torn chunk was in the file
    astray,       \* the appends that count from a baseline whose append failed
    baseLost,     \* the current baseline is such a one
    losses,       \* power losses so far
    stops, faults \* crashes and power losses; failed writes

memory == <<pending, baselineTS, hasBaseline, bufferSize>>
damage == <<behind, astray, baseLost>>
vars   == <<policy, file, stable, pc, memory, sent, acked, damage, losses, stops, faults>>

\* new: the record carries its own baseline (walCompactNewBaseline).
Chunk == [n : Nat \ {0}, new : BOOLEAN, base : Timestamp, delta : 0..MaxDelta,
          whole : BOOLEAN]

Torn(c)   == [c EXCEPT !.whole = FALSE]
NoPending == <<>>

-----------------------------------------------------------------------------
(* Reading a file: Records and scanWALAppendStats.                         *)

\* The decoder comes to chunk i, and finds all of it: of a torn chunk before it
\* the length would make it take the bytes of later records for the payload.
IsRead(f, i) == \A j \in 1..i : f[j].whole

\* Chunk i decodes to timestamp t: the delta to the last baseline up to it.
\* A record without one is skipped (ErrWALMissingBaseline).
DecodesTo(f, i, t) ==
    /\ IsRead(f, i)
    /\ \E j \in 1..i : /\ f[j].new
                       /\ \A k \in (j + 1)..i : ~f[k].new
                       /\ t = f[j].base + f[i].delta

-----------------------------------------------------------------------------
TypeOK ==
    /\ policy \in Policies
    /\ file \in Seq(Chunk) /\ stable \in Seq(Chunk)
    /\ pc \in {"closed", "idle", "length", "payload", "sync", "fsync", "truncate"}
    /\ pending \in Chunk \cup {NoPending}
    /\ baselineTS \in Timestamp \cup {0} /\ hasBaseline \in BOOLEAN
    /\ hasBaseline => baselineTS \in Timestamp
    /\ bufferSize \in Nat
    /\ sent \in Seq(Timestamp) /\ acked \subseteq 1..Len(sent)
    /\ behind \subseteq 1..Len(sent) /\ astray \subseteq 1..Len(sent)
    /\ baseLost \in BOOLEAN
    /\ losses \in Nat /\ stops \in Nat /\ faults \in Nat

Init ==
    /\ policy \in Policies
    /\ file = <<>> /\ stable = <<>>
    /\ pc = "closed" /\ pending = NoPending
    /\ baselineTS = 0 /\ hasBaseline = FALSE /\ bufferSize = 0
    /\ sent = <<>> /\ acked = {}
    /\ behind = {} /\ astray = {} /\ baseLost = FALSE
    /\ losses = 0 /\ stops = 0 /\ faults = 0

\* NewWAL: the size is the file's, the baseline is not read back from it.
Open ==
    /\ pc = "closed"
    /\ pc' = "idle"
    /\ bufferSize' = Len(file)
    /\ baselineTS' = 0 /\ hasBaseline' = FALSE
    /\ UNCHANGED <<policy, file, stable, pending, sent, acked, damage, losses,
                   stops, faults>>

NeedsBaselineIfLater(t) ==  \* faulty: an earlier sample gets a negative delta
    ~hasBaseline \/ t - baselineTS > MaxDelta
NeedsBaseline(t) ==
    ~hasBaseline \/ t < baselineTS \/ t - baselineTS > MaxDelta

\* appendSampleRecord up to its first write.  The baseline is set here.
Encode(t) ==
    LET n == Len(sent) + 1  new == NeedsBaseline(t)
    IN  /\ pc = "idle" /\ Len(sent) < MaxAppends
        /\ pc' = "length"
        /\ sent' = Append(sent, t)
        /\ baselineTS' = IF new THEN t ELSE baselineTS
        /\ hasBaseline' = TRUE
        /\ pending' = [n |-> n, new |-> new, base |-> baselineTS',
                       delta |-> t - baselineTS', whole |-> TRUE]
        /\ behind' = IF IsRead(file, Len(file)) THEN behind ELSE behind \cup {n}
        /\ baseLost' = (baseLost /\ ~new)
        /\ astray' = IF baseLost' THEN astray \cup {n} ELSE astray
        /\ UNCHANGED <<policy, file, stable, bufferSize, acked, losses, stops,
                       faults>>

\* The first write: the length, or a part of it.
WriteLength ==
    /\ pc = "length"
    /\ pc' = "payload"
    /\ file' = Append(file, Torn(pending))
    /\ UNCHANGED <<policy, stable, memory, sent, acked, damage, losses, stops,
                   faults>>

Acknowledge ==
    /\ pc' = "idle"
    /\ pending' = NoPending
    /\ acked' = acked \cup {pending.n}

SegmentOverfull(size) == MaxSegment > 0 /\ size > MaxSegment  \* faulty
SegmentFull(size)     == MaxSegment > 0 /\ size >= MaxSegment

FsyncIfFull(size)              == SegmentFull(size)  \* faulty
ShouldFsyncAfterAppend(size) == policy = "always" \/ SegmentFull(size)

\* faulty: accounts the record only once it is synced.
WritePayloadUncounted ==
    /\ pc = "payload"
    /\ file' = [file EXCEPT ![Len(file)] = pending]
    /\ IF ShouldFsyncAfterAppend(bufferSize + 1)
       THEN pc' = "sync" /\ UNCHANGED <<pending, acked, bufferSize>>
       ELSE Acknowledge /\ bufferSize' = bufferSize + 1
    /\ UNCHANGED <<policy, stable, baselineTS, hasBaseline, sent, damage,
                   losses, stops, faults>>

\* The second write.
WritePayload ==
    /\ pc = "payload"
    /\ file' = [file EXCEPT ![Len(file)] = pending]
    /\ bufferSize' = bufferSize + 1
    /\ IF ShouldFsyncAfterAppend(bufferSize')
       THEN pc' = "sync" /\ UNCHANGED <<pending, acked>>
       ELSE Acknowledge
    /\ UNCHANGED <<policy, stable, baselineTS, hasBaseline, sent, damage,
                   losses, stops, faults>>

\* Fsync after the append.
SyncAppend ==
    /\ pc = "sync"
    /\ stable' = file
    /\ Acknowledge
    /\ UNCHANGED <<policy, file, baselineTS, hasBaseline, bufferSize, sent,
                   damage, losses,
                   stops, faults>>

\* A write or the fsync fails and the append returns the error: of a first
\* write nothing or a part may have gone to the file.  The baseline it set stays.
AppendFails ==
    /\ pc \in {"length", "payload", "sync"} /\ faults < MaxFaults
    /\ faults' = faults + 1
    /\ \/ UNCHANGED file
       \/ pc = "length" /\ file' = Append(file, Torn(pending))
    /\ pc' = "idle"
    /\ pending' = NoPending
    /\ baseLost' = (baseLost \/ (pc # "sync" /\ pending.new))
    /\ UNCHANGED <<policy, stable, baselineTS, hasBaseline, bufferSize, sent, acked,
                   behind, astray, losses, stops>>

\* Reset, when bufferSize is not zero: with nothing accounted it returns at once.
Reset ==
    /\ pc = "idle" /\ bufferSize > 0
    /\ pc' = "fsync"
    /\ UNCHANGED <<policy, file, stable, memory, sent, acked, damage, losses,
                   stops, faults>>

SyncReset ==
    /\ pc = "fsync"
    /\ pc' = "truncate"
    /\ stable' = file
    /\ UNCHANGED <<policy, file, memory, sent, acked, damage, losses, stops,
                   faults>>

\* faulty: keeps the baseline of the records it removes.
TruncateAlone ==
    /\ pc = "truncate"
    /\ pc' = "idle"
    /\ file' = <<>>
    /\ bufferSize' = 0
    /\ acked' = {}
    /\ UNCHANGED <<policy, stable, pending, baselineTS, hasBaseline, sent,
                   damage, losses, stops,
                   faults>>

\* The truncation itself is not synced.
Truncate ==
    /\ pc = "truncate"
    /\ pc' = "idle"
    /\ file' = <<>>
    /\ baselineTS' = 0 /\ hasBaseline' = FALSE /\ bufferSize' = 0
    /\ acked' = {}
    /\ UNCHANGED <<policy, stable, pending, sent, damage, losses, stops, faults>>

ResetFails ==
    /\ pc \in {"fsync", "truncate"} /\ faults < MaxFaults
    /\ faults' = faults + 1
    /\ pc' = "idle"
    /\ UNCHANGED <<policy, file, stable, memory, sent, acked, damage, losses,
                   stops>>

\* Nothing is synced or truncated.
Close ==
    /\ pc = "idle"
    /\ pc' = "closed"
    /\ UNCHANGED <<policy, file, stable, memory, sent, acked, damage, losses,
                   stops, faults>>

\* The process ends at any point; the file is left as it is.
Crash ==
    /\ pc # "closed" /\ stops < MaxStops
    /\ stops' = stops + 1
    /\ pc' = "closed"
    /\ pending' = NoPending
    /\ UNCHANGED <<policy, file, stable, baselineTS, hasBaseline, bufferSize, sent,
                   acked, damage, losses, faults>>

\* What the medium may hold of an unsynced file: the synced part and any more
\* of it, the last chunk torn or not; after a truncation, still the old file.
Cut(f, k)     == SubSeq(f, 1, k)
CutIn(f, k)   == [Cut(f, k) EXCEPT ![k] = Torn(f[k])]
Extends(f, g) == Len(g) <= Len(f) /\ Cut(f, Len(g)) = g
Remains ==
    LET synced == IF Extends(file, stable) THEN Len(stable) ELSE 0
    IN  {stable} \cup {Cut(file, k) : k \in synced..Len(file)}
                 \cup {CutIn(file, k) : k \in (synced + 1)..Len(file)}

PowerLoss ==
    /\ pc # "closed" /\ stops < MaxStops
    /\ stops' = stops + 1 /\ losses' = losses + 1
    /\ file' \in Remains
    /\ stable' = file'
    /\ pc' = "closed"
    /\ pending' = NoPending
    /\ UNCHANGED <<policy, baselineTS, hasBaseline, bufferSize, sent, acked,
                   damage, faults>>

Next ==
    \/ Open
    \/ \E t \in Timestamp : Encode(t)
    \/ WriteLength \/ WritePayload \/ SyncAppend \/ AppendFails
    \/ Reset \/ SyncReset \/ Truncate \/ ResetFails
    \/ Close \/ Crash \/ PowerLoss

Spec == Init /\ [][Next]_vars

-----------------------------------------------------------------------------
(* Properties.                                                             *)

\* Every whole record the decoder comes to gives the timestamp it was appended
\* with, whatever baselines, crashes, cuts and resets came before it, even the
\* ones in an old file a power loss brings back.  The one exception is a record
\* that counts from a baseline whose own append failed: the writer goes on with
\* that baseline, no reader knows it.  Nothing is said of what a decoder makes
\* of the bytes behind a torn chunk.
AllDecode(f) ==
    \A i \in 1..Len(f) :
        IsRead(f, i) /\ f[i].n \notin astray => DecodesTo(f, i, sent[f[i].n])

ReadBackAsWritten == AllDecode(file)

InFile(f, n) == \E i \in 1..Len(f) : f[i].n = n /\ f[i].whole
ReadIn(f, n) == \E i \in 1..Len(f) : f[i].n = n /\ IsRead(f, i)

\* An acknowledged record is whole in the file until the next reset, and a reader
\* comes to it unless a torn chunk was in the file when its append began: always
\* after a crash of the process, and under the policy "always" after a power
\* loss, too; a failed write or fsync of a later record changes nothing.
AckedInFile ==
    policy = "always" \/ losses = 0 =>
        \A n \in acked : InFile(file, n) /\ (n \notin behind => ReadIn(file, n))

Unsynced == {n \in acked : InFile(file, n) /\ ~InFile(stable, n)}

\* Under the policy "segment" a power loss takes fewer records than a segment
\* holds: from there on every append is synced.
LossIsBounded == MaxSegment > 0 => Cardinality(Unsynced) < MaxSegment

\* A reset that finds nothing accounted may leave the file alone: no whole
\* record is in it, although a failed append may have left a torn one.
NothingUnaccounted ==
    pc = "idle" /\ bufferSize = 0 => \A i \in 1..Len(file) : ~file[i].whole
=============================================================================
