-------------------------- MODULE MCPartitionFiles --------------------------
(* Small instances of PartitionFiles for TLC. *)
EXTENDS PartitionFiles

Set(b, r, k, c, s, q, p) ==
    [build |-> b, raw |-> r, retention |-> k,
     calls |-> c, crashes |-> s, queries |-> q, repacks |-> p]

MCSettings ==
    \* builds, with a crash, with queries, with maintenance
    {Set(TRUE, r, "keep", 4, 1, 0, 0) : r \in {"keep", "delete"}} \cup
    {Set(TRUE, "rename", "keep", 4, 1, 0, 1)} \cup
    {Set(TRUE, r, "keep", 3, 0, 1, 0) : r \in {"keep", "rename", "delete"}} \cup
    {Set(FALSE, r, "keep", 3, 0, 1, 1) : r \in {"keep", "rename", "delete"}} \cup
    \* retention, with a crash and with queries
    {Set(b, "rename", k, 3, 1, 0, 0) : b \in BOOLEAN, k \in {"delete", "archive"}} \cup
    {Set(FALSE, "keep", k, 4, 0, 0, 0) : k \in {"delete", "archive"}} \cup
    {Set(TRUE, "keep", k, 3, 0, 1, 0) : k \in {"delete", "archive"}}

\* One crash, sources renamed: the loss of a day after its build.
MCRename == {Set(TRUE, "rename", "keep", 4, 1, 0, 0)}
=============================================================================
