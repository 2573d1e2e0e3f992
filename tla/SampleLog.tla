----------------------------- MODULE SampleLog -----------------------------
(***************************************************************************)
(* What a WAL-protected database promises about its samples (docs/LAWS.md, *)
(* LAW 10 and 11), whatever files and pages it keeps them in: a sample is  *)
(* acknowledged only once it is written, and from then on it stays written *)
(* through every crash and restart.  One whose call failed may go again.   *)
(***************************************************************************)
EXTENDS Naturals

CONSTANT Sample

VARIABLES stored, acked

Init == stored = {} /\ acked = {}

Store(s) ==
    /\ s \notin stored
    /\ stored' = stored \cup {s}
    /\ UNCHANGED acked

Acknowledge(s) ==
    /\ s \in stored
    /\ acked' = acked \cup {s}
    /\ UNCHANGED stored

\* The call that stored s failed all the same.
Drop(s) ==
    /\ s \notin acked
    /\ stored' = stored \ {s}
    /\ UNCHANGED acked

Next == \E s \in Sample : Store(s) \/ Acknowledge(s) \/ Drop(s)

Spec == Init /\ [][Next]_<<stored, acked>>

\* Nothing acknowledged is ever missing: the point of the actions above.
AckedStored == acked \subseteq stored
=============================================================================
