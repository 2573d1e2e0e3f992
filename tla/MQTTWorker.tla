----------------------------- MODULE MQTTWorker -----------------------------
(***************************************************************************)
(* The MQTT ingest worker of an engine: the goroutine that connects,       *)
(* subscribes, reads and reconnects, the goroutine of each session that    *)
(* sends pings, and stop, which Engine.Close calls.  Source:               *)
(* internal/engine/mqtt.go.                                                *)
(*                                                                         *)
(* The broker and the network choose how every exchange ends.  The field   *)
(* conn is read and written by all three without a lock: a step that uses  *)
(* it after another one set it to nil panics, in run's own frame, where it *)
(* is recovered, or in another goroutine, where the process dies.          *)
(***************************************************************************)
EXTENDS Naturals

CONSTANTS
    RetryEnabled,       \* mqtt.retry_enabled
    RetryMaxAttempts,   \* mqtt.retry_max_attempts, 0 for no limit
    MaxSessions         \* bound of the model

ASSUME MQTTAssumption == RetryEnabled \in BOOLEAN /\ {RetryMaxAttempts, MaxSessions} \subseteq Nat

VARIABLES
    phase,      \* where run is
    conn,       \* mqttWorker.conn is not nil
    pinger,     \* the goroutines of this session and of earlier ones that still run
    attempts,
    stopCh,     \* closed
    stopping,   \* stop found a connection and is about to close it
    crashed,    \* a panic nothing recovers
    \* history
    sessions,
    refusals    \* connections tried after a permanent error

mqttVars == <<phase, conn, pinger, attempts, stopCh, stopping, crashed, sessions, refusals>>

\* startMQTT, if the configuration enables it.
MQTTInit(enabled) ==
    /\ phase = (IF enabled THEN "dial" ELSE "exit") /\ conn = FALSE /\ pinger = {} /\ attempts = 0
    /\ stopCh = FALSE /\ stopping = FALSE /\ crashed = FALSE
    /\ sessions = 0 /\ refusals = 0

Alive == ~crashed

\* waitRetry: a timer against stopCh, which wins when it was closed before.
WaitRetryForTimer == IF ~RetryEnabled THEN "exit" ELSE "wait"

WaitRetry == IF ~RetryEnabled \/ stopCh THEN "exit" ELSE "wait"

\* closeConn as run calls it.
CloseConn == conn' = FALSE

\* A failed connect or subscribe: a permanent error ends the worker, any other is
\* tried again.
HandlePermanent(permanent) == IF permanent THEN "exit" ELSE WaitRetry

Failed(permanent) ==
    /\ CloseConn
    /\ phase' = HandlePermanent(permanent)
    /\ refusals' = IF permanent THEN refusals + 1 ELSE refusals
    /\ UNCHANGED <<pinger, attempts, stopCh, stopping, crashed, sessions>>

\* connect: net.DialTimeout, which stop cannot interrupt.
Dial ==
    /\ Alive /\ phase = "dial"
    /\ \/ /\ conn' = TRUE /\ phase' = "handshake"
       \/ /\ CloseConn /\ phase' = WaitRetry
    /\ UNCHANGED <<pinger, attempts, stopCh, stopping, crashed, sessions, refusals>>

\* The rest of connect, CONNECT and CONNACK: without the connection it only fails.
Handshake ==
    /\ Alive /\ phase = "handshake"
    /\ \/ /\ conn /\ phase' = "subscribe"
          /\ UNCHANGED <<conn, pinger, attempts, stopCh, stopping, crashed, sessions,
                         refusals>>
       \/ Failed(FALSE)
       \/ conn /\ Failed(TRUE)

\* subscribe, and the start of a session with its pinger.
Subscribe ==
    /\ Alive /\ phase = "subscribe" /\ conn /\ sessions < MaxSessions
    /\ phase' = "session"
    /\ attempts' = 0
    /\ sessions' = sessions + 1
    /\ pinger' = pinger \cup {"now"}
    /\ UNCHANGED <<conn, stopCh, stopping, crashed, refusals>>

SubscribeFails ==
    /\ Alive /\ phase = "subscribe"
    /\ \E permanent \in BOOLEAN : (permanent => conn) /\ Failed(permanent)

\* A use of conn by run itself after stop set it to nil: recovered, and the worker ends.
Panics ==
    /\ Alive /\ phase \in {"handshake", "subscribe", "session"} /\ ~conn
    /\ phase' = "exit"
    /\ CloseConn
    /\ UNCHANGED <<pinger, attempts, stopCh, stopping, crashed, sessions, refusals>>

\* readPacket returned a publish: handlePublish calls AddSample or AddEvent.
Publish == Alive /\ phase = "session" /\ conn /\ UNCHANGED mqttVars

\* readPacket failed or the broker disconnects: close(sessionDone), closeConn.
SessionEnds ==
    /\ Alive /\ phase = "session"
    /\ CloseConn
    /\ phase' = WaitRetry
    /\ pinger' = IF "now" \in pinger THEN {"past"} ELSE pinger
    /\ UNCHANGED <<attempts, stopCh, stopping, crashed, sessions, refusals>>

\* The pinger sends on conn at every tick; it may choose the tick over sessionDone.
Ping ==
    /\ Alive /\ pinger # {} /\ ~conn
    /\ crashed' = TRUE
    /\ UNCHANGED <<phase, conn, pinger, attempts, stopCh, stopping, sessions, refusals>>

PingerExits ==
    /\ Alive /\ "past" \in pinger
    /\ pinger' = pinger \ {"past"}
    /\ UNCHANGED <<phase, conn, attempts, stopCh, stopping, crashed, sessions, refusals>>

\* The retry limit, counted in failures since the last session.
LimitReached(n) == RetryMaxAttempts > 0 /\ n >= RetryMaxAttempts

\* The timer of waitRetry fires; it may beat a stopCh closed at the same time.
RetryTimer ==
    /\ Alive /\ phase = "wait"
    /\ attempts' = attempts + 1
    /\ phase' = IF LimitReached(attempts') THEN "exit" ELSE "dial"
    /\ UNCHANGED <<conn, pinger, stopCh, stopping, crashed, sessions, refusals>>

RetryStopped ==
    /\ Alive /\ phase = "wait" /\ stopCh
    /\ phase' = "exit"
    /\ UNCHANGED <<conn, pinger, attempts, stopCh, stopping, crashed, sessions, refusals>>

\* stop: close(stopCh), then closeConn, whose check and use of conn are two reads.
Stop ==
    /\ Alive /\ ~stopCh
    /\ stopCh' = TRUE
    /\ stopping' = conn
    /\ UNCHANGED <<phase, conn, pinger, attempts, crashed, sessions, refusals>>

StopCloses ==
    /\ Alive /\ stopping
    /\ stopping' = FALSE
    /\ IF conn THEN CloseConn /\ UNCHANGED crashed ELSE crashed' = TRUE /\ UNCHANGED conn
    /\ UNCHANGED <<phase, pinger, attempts, stopCh, sessions, refusals>>
=============================================================================
