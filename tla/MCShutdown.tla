----------------------------- MODULE MCShutdown -----------------------------
(* A small instance of Shutdown for TLC. *)
EXTENDS Shutdown

CONSTANTS writer, worker, audit, reject, rejected

MCClients    == {writer, worker}
MCGroup      == {audit, reject}
MCBatchGroup == [b \in {rejected} |-> reject]
Bound(e, t, k, m) == [emits |-> e, toggles |-> t, locks |-> k, mqtt |-> m]
MCLimits == {Bound(2, 1, 1, FALSE), Bound(3, 0, 1, FALSE), Bound(1, 0, 1, TRUE)}
=============================================================================
