--------------------------- MODULE InternalEvents ---------------------------
(***************************************************************************)
(* The internal-events emitter of an engine and the part of Engine.Close   *)
(* that shuts it down.  Source: internal/engine/internal_events.go, and    *)
(* Engine.Close in engine.go.                                              *)
(*                                                                         *)
(* Every goroutine that calls into the engine is a task: the clients', the *)
(* drain, the batch loop and the one in Close.  A task emits in two steps, *)
(* a check of the emitter's flags and a send that does not block, and may  *)
(* hold Engine.writeMu meanwhile.  A record is the set of the calls it     *)
(* reports: one call, or those a batch counted.                            *)
(***************************************************************************)
EXTENDS Naturals, Sequences, FiniteSets

CONSTANTS
    Clients,         \* goroutines of the engine's users
    Drain, BatchLoop, Closer,
    Nobody,          \* no owner
    Dest, Source,    \* the internal database, another one
    NoDB,            \* an event of the engine as a whole
    Group,           \* event groups
    LifecycleGroup,  \* the group of the shutdown event
    BatchGroup,      \* the group of each batched event
    QueueDepth,
    Limits           \* bounds of the model: how many emissions, toggles and calls that
                     \* lock together, and whether mqtt.enabled

Tasks   == Clients \cup {Drain, BatchLoop, Closer}
Batches == DOMAIN BatchGroup

ASSUME EmitterAssumption ==
    /\ {Drain, BatchLoop, Closer, Nobody} \cap Clients = {}
    /\ Drain # BatchLoop /\ Closer \notin {Drain, BatchLoop}
    /\ Nobody \notin {Drain, BatchLoop, Closer}
    /\ Dest # NoDB /\ Source \notin {Dest, NoDB}
    /\ LifecycleGroup \in Group
    /\ BatchGroup \in [Batches -> Group] /\ IsFiniteSet(Batches)
    /\ QueueDepth \in Nat \ {0}
    /\ Limits \subseteq [emits : Nat, toggles : Nat, locks : Nat, mqtt : BOOLEAN]

VARIABLES
    groups,     \* activeGroups: the groups that are on
    stopped, ch, chClosed, done,
    counts,     \* batches: the calls counted since the last flush of each
    batchStop, batchDone,
    ready,      \* flushBatches: the counts taken and not yet emitted
    forced,     \* flushBatches: force
    writeMu,    \* the task that holds Engine.writeMu
    doing,      \* what each task is about to do
    closing,    \* how far Engine.Close has come
    panicked,   \* the task that sent on the closed channel
    \* history
    limit,      \* the bounds of this behavior, never changed
    emits, toggles, locks,
    added,    \* the records AddEvent was called for, in order
    dropped,    \* the calls dropCounter stands for
    refused,    \* the calls lost with a group that was off when their batch was emitted
    queued      \* the calls sent or counted before Close stops the batch loop

flags    == <<groups, stopped>>
channel  == <<ch, chClosed, done>>
batching == <<counts, batchStop, batchDone, ready, forced>>
emitter  == <<flags, channel, batching>>
closer   == <<closing, panicked>>
used     == <<limit, emits, toggles, locks>>
fates    == <<added, dropped, refused, queued>>
history  == <<used, fates>>
emitVars == <<emitter, writeMu, doing, closer, history>>

Idle == [at |-> "idle"]
Sends(r) == [at |-> "send", record |-> r]

EmitInit ==
    /\ groups = Group
    /\ stopped = FALSE /\ ch = <<>> /\ chClosed = FALSE /\ done = FALSE
    /\ counts = [b \in Batches |-> {}]
    /\ batchStop = FALSE /\ batchDone = FALSE
    /\ ready = <<>> /\ forced = FALSE
    /\ writeMu = Nobody
    /\ doing = [t \in Tasks |-> Idle]
    /\ closing = "open"
    /\ panicked = Nobody
    /\ limit \in Limits
    /\ emits = 0 /\ toggles = 0 /\ locks = 0
    /\ added = <<>> /\ dropped = {} /\ refused = {} /\ queued = {}

ShutdownEvent == 0

Accepting == closing \in {"open", "announced"}
Free(t)  == panicked = Nobody /\ doing[t] = Idle
Holds(t) == writeMu = t

-----------------------------------------------------------------------------
(* The emit side.                                                          *)

\* What emitInternalEvent and emitInternalEventBatched refuse before anything else.
Admitted(g, db) == ~stopped /\ db # Dest /\ g \in groups

\* What tasks emit about: one that holds the mutex, the database it works on; the
\* drain and Close, nothing else.
About(t, db) == /\ Holds(t) => db # NoDB
                /\ t \notin Clients => Holds(t)
                /\ t = Drain => db = Dest
                /\ t # BatchLoop

\* emitInternalEvent up to the send: the flags are read here and not again.
Emit(t, g, db) ==
    /\ Free(t) /\ emits < limit.emits
    /\ About(t, db) /\ Admitted(g, db)
    /\ doing' = [doing EXCEPT ![t] = Sends({emits + 1})]
    /\ emits' = emits + 1
    /\ UNCHANGED <<emitter, writeMu, closer, limit, toggles, locks, fates>>

\* Whether the channel takes a record, which select tries without waiting.
HasRoom == Len(ch) < QueueDepth

\* The fallback the docs rule out: a send that waits for room.
SendWaits(t) ==
    /\ panicked = Nobody /\ doing[t].at = "send" /\ HasRoom
    /\ doing' = [doing EXCEPT ![t] = Idle]
    /\ ch' = Append(ch, doing[t].record)
    /\ queued' = IF Accepting THEN queued \cup doing[t].record ELSE queued
    /\ UNCHANGED <<flags, chClosed, done, batching, writeMu, closer, used, added, dropped,
                   refused>>

\* The select of emitInternalEvent: sent, counted as dropped, or a panic because
\* the channel was closed after the check.
Send(t) ==
    /\ panicked = Nobody /\ doing[t].at = "send"
    /\ LET r == doing[t].record IN
       IF chClosed THEN /\ panicked' = t
                        /\ UNCHANGED <<ch, dropped, queued, doing>>
       ELSE /\ doing' = [doing EXCEPT ![t] = Idle]
            /\ queued' = IF Accepting THEN queued \cup r ELSE queued
            /\ IF HasRoom
                 THEN ch' = Append(ch, r) /\ UNCHANGED dropped
                 ELSE dropped' = dropped \cup r /\ UNCHANGED ch
            /\ UNCHANGED panicked
    /\ UNCHANGED <<flags, chClosed, done, batching, writeMu, closing, used, added,
                   refused>>

\* emitInternalEventBatched up to batchMu.
EmitBatched(t, b, db) ==
    /\ Free(t) /\ emits < limit.emits
    /\ About(t, db) /\ Admitted(BatchGroup[b], db)
    /\ doing' = [doing EXCEPT ![t] = [at |-> "count", batch |-> b, call |-> emits + 1]]
    /\ emits' = emits + 1
    /\ UNCHANGED <<emitter, writeMu, closer, limit, toggles, locks, fates>>

\* The increment, under batchMu.
Count(t) ==
    /\ panicked = Nobody /\ doing[t].at = "count"
    /\ counts' = [counts EXCEPT ![doing[t].batch] = @ \cup {doing[t].call}]
    /\ queued' = IF Accepting THEN queued \cup {doing[t].call} ELSE queued
    /\ doing' = [doing EXCEPT ![t] = Idle]
    /\ UNCHANGED <<flags, channel, batchStop, batchDone, ready, forced, writeMu, closer,
                   used, added, dropped, refused>>

\* SetInternalEventsGroup: the map is copied, changed and stored without a lock.
ToggleLoad(t, g) ==
    /\ Free(t) /\ ~Holds(t) /\ toggles < limit.toggles
    /\ toggles' = toggles + 1
    /\ \E on \in BOOLEAN :
         doing' = [doing EXCEPT ![t] = [at |-> "toggle",
                     groups |-> IF on THEN groups \cup {g} ELSE groups \ {g}]]
    /\ UNCHANGED <<emitter, writeMu, closer, limit, emits, locks, fates>>

\* Its end, with the audit event, which reads the flags again.
ToggleStore(t) ==
    /\ panicked = Nobody /\ doing[t].at = "toggle"
    /\ groups' = doing[t].groups
    /\ LET audited == ~stopped /\ LifecycleGroup \in groups' /\ emits < limit.emits IN
       /\ doing' = [doing EXCEPT ![t] = IF audited THEN Sends({emits + 1}) ELSE Idle]
       /\ emits' = IF audited THEN emits + 1 ELSE emits
    /\ UNCHANGED <<stopped, channel, batching, writeMu, closer, limit, toggles, locks, fates>>

\* A client inside AddSample, AddEvent or a flush.
Lock(t) ==
    /\ Free(t) /\ writeMu = Nobody /\ locks < limit.locks
    /\ writeMu' = t /\ locks' = locks + 1
    /\ UNCHANGED <<emitter, doing, closer, limit, emits, toggles, fates>>

Unlock(t) ==
    /\ Free(t) /\ Holds(t)
    /\ writeMu' = Nobody
    /\ UNCHANGED <<emitter, doing, closer, history>>

-----------------------------------------------------------------------------
(* The drain and the batch loop.                                           *)

\* internalEventsDrainLoop takes the next record and calls AddEvent, which waits for
\* the mutex.
Receive ==
    /\ Free(Drain) /\ ~Holds(Drain) /\ ch # <<>>
    /\ doing' = [doing EXCEPT ![Drain] = [at |-> "lock", record |-> Head(ch)]]
    /\ ch' = Tail(ch)
    /\ UNCHANGED <<flags, chClosed, done, batching, writeMu, closer, history>>

\* AddEvent has the mutex.  A failure of it is logged and the record counts as
\* added: nothing is tried again.
DrainLock ==
    /\ panicked = Nobody /\ doing[Drain].at = "lock" /\ writeMu = Nobody
    /\ writeMu' = Drain
    /\ added' = Append(added, doing[Drain].record)
    /\ doing' = [doing EXCEPT ![Drain] = Idle]
    /\ UNCHANGED <<emitter, closer, used, dropped, refused, queued>>

\* The range over a closed and empty channel ends.
DrainExit ==
    /\ Free(Drain) /\ ~Holds(Drain) /\ chClosed /\ ch = <<>> /\ ~done
    /\ done' = TRUE
    /\ UNCHANGED <<flags, ch, chClosed, batching, writeMu, doing, closer, history>>

AfterFlushKept(b) == counts[b]

\* flushBatches takes counts under batchMu: after the windows that have elapsed, or
\* all of them when the loop has been stopped.
AfterFlush(b) == {}

TakeCounts(bs, force) ==
    /\ Free(BatchLoop) /\ ready = <<>> /\ ~forced
    /\ \E order \in [1..Cardinality(bs) -> bs] :
         /\ \A b \in bs : \E i \in DOMAIN order : order[i] = b
         /\ ready' = [i \in DOMAIN order |-> [group |-> BatchGroup[order[i]],
                                            record |-> counts[order[i]]]]
    /\ counts' = [b \in Batches |-> IF b \in bs THEN AfterFlush(b) ELSE counts[b]]
    /\ forced' = force
    /\ UNCHANGED <<flags, channel, batchStop, batchDone, writeMu, doing, closer, history>>

Counted == {b \in Batches : counts[b] # {}}

Tick == \E bs \in SUBSET Counted : bs # {} /\ TakeCounts(bs, FALSE)

NoFinalFlush == batchStop /\ ~batchDone /\ TakeCounts({}, TRUE)

\* The last flush, once batchStop is closed.
FinalFlush == batchStop /\ ~batchDone /\ TakeCounts(Counted, TRUE)

\* flushBatches emits what it took, as events of the engine as a whole: a group that
\* has been switched off meanwhile loses the count.
EmitReady ==
    /\ Free(BatchLoop) /\ ready # <<>>
    /\ ready' = Tail(ready)
    /\ LET r == Head(ready) IN
       IF Admitted(r.group, NoDB)
         THEN doing' = [doing EXCEPT ![BatchLoop] = Sends(r.record)] /\ UNCHANGED refused
         ELSE refused' = refused \cup r.record /\ UNCHANGED doing
    /\ UNCHANGED <<flags, channel, counts, batchStop, batchDone, forced, writeMu, closer,
                   used, added, dropped, queued>>

BatchExit ==
    /\ Free(BatchLoop) /\ ready = <<>> /\ forced /\ ~batchDone
    /\ batchDone' = TRUE
    /\ UNCHANGED <<flags, channel, counts, batchStop, ready, forced, writeMu, doing,
                   closer, history>>

-----------------------------------------------------------------------------
(* Engine.Close.                                                           *)

\* The shutdown event is emitted before anything is stopped.
CloseBegins ==
    /\ Free(Closer) /\ closing = "open"
    /\ closing' = "announced"
    /\ doing' = IF Admitted(LifecycleGroup, NoDB)
                  THEN [doing EXCEPT ![Closer] = Sends({ShutdownEvent})] ELSE doing
    /\ UNCHANGED <<emitter, writeMu, panicked, history>>

\* stopInternalEventsDrain: stop the batch loop, wait for it, refuse new records,
\* close the channel, wait for the drain.
StopBatches ==
    /\ Free(Closer) /\ closing = "announced"
    /\ batchStop' = TRUE /\ closing' = "stopping"
    /\ UNCHANGED <<flags, channel, counts, batchDone, ready, forced, writeMu, doing,
                   panicked, history>>

\* A plausible slip: the batch loop is told to stop and not waited for.
MarkStoppedAtOnce ==
    /\ Free(Closer) /\ closing = "stopping"
    /\ stopped' = TRUE /\ closing' = "stopped"
    /\ UNCHANGED <<groups, channel, batching, writeMu, doing, panicked, history>>

MarkStopped ==
    /\ Free(Closer) /\ closing = "stopping" /\ batchDone
    /\ stopped' = TRUE /\ closing' = "stopped"
    /\ UNCHANGED <<groups, channel, batching, writeMu, doing, panicked, history>>

CloseChannel ==
    /\ Free(Closer) /\ closing = "stopped"
    /\ chClosed' = TRUE /\ closing' = "draining"
    /\ UNCHANGED <<flags, ch, done, batching, writeMu, doing, panicked, history>>

\* Close takes writeMu for the rest.
CloseLocks ==
    /\ Free(Closer) /\ closing = "draining" /\ done /\ writeMu = Nobody
    /\ writeMu' = Closer /\ closing' = "locked"
    /\ UNCHANGED <<emitter, doing, panicked, history>>

\* The databases are closed and Close returns.
CloseDone ==
    /\ Free(Closer) /\ closing = "locked"
    /\ writeMu' = Nobody /\ closing' = "closed"
    /\ UNCHANGED <<emitter, doing, panicked, history>>
=============================================================================
