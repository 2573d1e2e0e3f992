----------------------------- MODULE MCWALFile -----------------------------
(* Small instances of WALFile for TLC. *)
EXTENDS WALFile

\* Neighbours, one at the largest delta, one beyond it.
MCTimestamp == {1, 2, 4}
BothPolicies == {"segment", "always"}
=============================================================================
