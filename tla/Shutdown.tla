------------------------------ MODULE Shutdown ------------------------------
(***************************************************************************)
(* An engine with its MQTT worker, from running to closed: the worker is   *)
(* one of the clients of the emitter and of writeMu, and Engine.Close      *)
(* stops it while it holds writeMu.  Source: internal/engine               *)
(* (internal_events.go, mqtt.go, and Engine.Close in engine.go).           *)
(***************************************************************************)
EXTENDS InternalEvents, MQTTWorker

CONSTANT
    Worker,     \* the client that is the MQTT worker's goroutine
    MQTTGroup   \* the group of its events

ASSUME ShutdownAssumption == Worker \in Clients /\ MQTTGroup \in Group

vars == <<emitVars, mqttVars>>

\* Without mqtt.enabled there is no worker.
Init == EmitInit /\ MQTTInit(limit.mqtt)

Dead == panicked # Nobody \/ crashed

-----------------------------------------------------------------------------
\* The worker's own events, as events of the engine as a whole.
Tell == IF Admitted(MQTTGroup, NoDB) /\ emits < limit.emits
          THEN Emit(Worker, MQTTGroup, NoDB)
          ELSE UNCHANGED emitVars

\* run goes on when its call into the engine has returned.
WorkerFree == Free(Worker) /\ ~Holds(Worker)

WorkerRetries == WorkerFree /\ (Dial \/ RetryTimer \/ RetryStopped) /\ UNCHANGED emitVars
WorkerSession == WorkerFree /\ (Subscribe \/ SessionEnds \/ Panics) /\ Tell
WorkerRefused == /\ WorkerFree /\ (Handshake \/ SubscribeFails)
                 /\ IF refusals' > refusals THEN Tell ELSE UNCHANGED emitVars
WorkerWrites  == WorkerFree /\ Publish /\ Lock(Worker)

Pinger == panicked = Nobody /\ (Ping \/ PingerExits) /\ UNCHANGED emitVars

\* Close stops the worker first once it has the mutex.
StopMQTT == /\ panicked = Nobody /\ closing = "locked" /\ limit.mqtt
            /\ Stop \/ StopCloses
            /\ UNCHANGED emitVars
Closed   == (limit.mqtt => stopCh /\ ~stopping) /\ CloseDone

\* A step of the engine alone.  What a task emits: a client whatever its call is about, but
\* the worker only from inside its writes.
Alone == ~crashed /\ UNCHANGED mqttVars
MayEmit(t) == t = Worker => Holds(t)
Subject == {NoDB, Source, Dest}

EngineNext ==
    \/ \E t \in Tasks, g \in Group, db \in Subject : Alone /\ MayEmit(t) /\ Emit(t, g, db)
    \/ \E t \in Tasks, b \in Batches, db \in Subject : Alone /\ MayEmit(t) /\ EmitBatched(t, b, db)
    \/ \E t \in Tasks : Alone /\ Send(t)
    \/ \E t \in Tasks : Alone /\ Count(t)
    \/ \E t \in Clients \ {Worker}, g \in Group : Alone /\ ToggleLoad(t, g)
    \/ \E t \in Clients \ {Worker} : Alone /\ ToggleStore(t)
    \/ \E t \in Clients \ {Worker} : Alone /\ Lock(t)
    \/ \E t \in Tasks \ {Closer} : Alone /\ Unlock(t)
    \/ Alone /\ Receive
    \/ Alone /\ DrainLock
    \/ Alone /\ DrainExit
    \/ Alone /\ Tick
    \/ Alone /\ FinalFlush
    \/ Alone /\ EmitReady
    \/ Alone /\ BatchExit
    \/ Alone /\ CloseBegins
    \/ Alone /\ StopBatches
    \/ Alone /\ MarkStopped
    \/ Alone /\ CloseChannel
    \/ Alone /\ CloseLocks
    \/ Alone /\ Closed

Next == EngineNext \/ WorkerRetries \/ WorkerSession \/ WorkerRefused \/ WorkerWrites \/ Pinger
                   \/ StopMQTT

\* Every goroutine runs, and a mutex of Go does not starve a waiter.  The broker may
\* keep a session forever, so nothing is assumed of one that still has its connection.
Spec == /\ Init /\ [][Next]_vars
        /\ \A t \in Tasks : WF_vars(Alone /\ (Send(t) \/ Count(t) \/ ToggleStore(t)))
        /\ \A t \in Tasks \ {Closer} : WF_vars(Alone /\ Unlock(t))
        /\ WF_vars(Alone /\ (Receive \/ DrainExit)) /\ SF_vars(Alone /\ DrainLock)
        /\ WF_vars(Alone /\ (FinalFlush \/ EmitReady \/ BatchExit))
        /\ WF_vars(Alone /\ (StopBatches \/ MarkStopped \/ CloseChannel \/ Closed))
        /\ SF_vars(Alone /\ CloseLocks)
        /\ WF_vars(StopMQTT)
        /\ WF_vars(WorkerRetries)
        /\ WF_vars(~conn /\ (WorkerSession \/ WorkerRefused))

-----------------------------------------------------------------------------
CallNumbers == 0..limit.emits

TypeOK ==
    /\ groups \subseteq Group
    /\ {stopped, chClosed, done, batchStop, batchDone, forced} \subseteq BOOLEAN
    /\ ch \in Seq(SUBSET CallNumbers) /\ Len(ch) <= QueueDepth
    /\ counts \in [Batches -> SUBSET CallNumbers]
    /\ ready \in Seq([group : Group, record : SUBSET CallNumbers])
    /\ writeMu \in Tasks \cup {Nobody}
    /\ \A t \in Tasks : doing[t].at \in {"idle", "send", "count", "toggle", "lock"}
    /\ closing \in {"open", "announced", "stopping", "stopped", "draining", "locked", "closed"}
    /\ panicked \in Tasks \cup {Nobody}
    /\ added \in Seq(SUBSET CallNumbers)
    /\ UNION {dropped, refused, queued} \subseteq CallNumbers
    /\ phase \in {"dial", "handshake", "subscribe", "session", "wait", "exit"}
    /\ pinger \subseteq {"now", "past"}
    /\ {conn, stopCh, stopping, crashed} \subseteq BOOLEAN
    /\ {attempts, sessions, refusals} \subseteq Nat

Added == UNION {added[i] : i \in DOMAIN added}

\* docs/INTERNAL_EVENTS.md: pending records are flushed before Close returns.  Every
\* call that was sent, or counted in a batch, before Close stopped the batch loop has
\* been given to AddEvent when Close takes writeMu to flush, was counted as dropped, or
\* was in a batch whose group had been switched off.
PendingFlushed ==
    closing \in {"locked", "closed"} => queued \subseteq Added \cup dropped \cup refused

\* flushBatches takes counts while tasks go on counting and the drain writes: no call is
\* reported by two records, nor by one and as dropped.
ReportedOnce ==
    /\ \A i, j \in DOMAIN added : i # j => added[i] \cap added[j] = {}
    /\ Added \cap (dropped \cup refused) = {}

\* stopInternalEventsDrain stops the batch loop, the emitters and the channel in an order
\* that keeps Close, the batch loop and the drain from sending on the closed channel; only
\* a client whose call overlaps Close can.
CloseDoesNotPanic == panicked \in Clients \cup {Nobody}

\* Close waits for the batch loop, the drain and writeMu, which they and the clients need:
\* whatever the clients do, it returns, unless a panic ends the process.
CloseReturns == closing # "open" ~> closing = "closed" \/ Dead

\* A worker that has a connection when Close stops it ends: it does not come back with a
\* new session after the engine has been closed.
StopEndsSession ==
    (stopCh /\ ~conn /\ phase \in {"handshake", "subscribe", "session"}) ~> phase = "exit" \/ Dead
=============================================================================
