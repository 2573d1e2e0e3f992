----------------------------- MODULE MCBackfill -----------------------------
(* Small instances of Backfill for TLC. *)
EXTENDS Backfill, TLC

Feed(id, src, dst) == [id |-> <<id>>, src |-> src, except |-> {}, dst |-> dst, long |-> FALSE]
Own(jobs) == [BuiltIn EXCEPT !.enabled = TRUE, !.jobs = jobs]
With(manifests) == [d \in Database |-> IF d \in DOMAIN manifests THEN manifests[d] ELSE Nothing]
Raw(d, bases) == [x \in Database |-> IF x = d THEN bases ELSE {}]

Quiet == [config |-> Nothing, configs |-> {}, edits |-> {}, requests |-> {{}}, starts |-> 1,
          maxEdits |-> 0, backfills |-> 1, cut |-> FALSE]

\* 3 feeds 2 and 2 feeds 1: the order of the names is against the rollups.
Chain == Quiet @@
    [manifest |-> With((3 :> Own({Feed(1, <<"m", 0>>, 2)}))
                    @@ (2 :> [Own({[Feed(2, AnyName, None) EXCEPT !.long = TRUE]}) EXCEPT !.dest = 1])),
     ingested |-> Raw(3, {"m"})]
Chains == {[Chain EXCEPT !.requests = {{3}, {}}, !.backfills = 2], [Chain EXCEPT !.starts = 2]}

\* 1 feeds 2 and 3, and both feed 4; a metric is excluded on one way.
Diamond == Quiet @@
    [manifest |-> With((1 :> Own({Feed(1, AnyName, 2), Feed(2, <<"m", 0>>, 3)}))
                    @@ (2 :> [Own({Feed(1, AnyName, 4)}) EXCEPT !.exclude = {<<"n", 1>>}])
                    @@ (3 :> Own({Feed(1, <<"m", 1>>, 4)}))),
     ingested |-> Raw(1, {"m", "n"})]

\* 1 and 2 feed each other.
Circle == Quiet @@
    [manifest |-> With((1 :> Own({Feed(1, AnyName, 2)})) @@ (2 :> Own({Feed(1, AnyName, 1)}))),
     ingested |-> Raw(1, {"m"})]

\* 1 and 3 feed 2; a backfill of 1, or of all, may be cut short.
Shared == Quiet @@
    [manifest |-> With((1 :> Own({Feed(1, <<"m", 0>>, 2)})) @@ (3 :> Own({Feed(1, <<"n", 0>>, 2)}))),
     ingested |-> [Raw(1, {"m"}) EXCEPT ![3] = {"n"}]]
Cut == [Shared EXCEPT !.requests = {{1}, {}}, !.backfills = 2, !.starts = 2, !.cut = TRUE]

\* An operator changes engine.toml and the manifests of 1, that feeds 2, and of 2; not all
\* that is written can be read again.
Edited == Quiet @@
    [manifest |-> With(1 :> Own({Feed(1, <<"m", 0>>, None)})),
     ingested |-> Raw(1, {"m"})]
Month   == [BuiltIn EXCEPT !.partition = "month", !.wal = FALSE, !.dest = 2, !.exclude = {<<"m", 0>>}]
Edits == {[Edited EXCEPT !.config = Month, !.starts = 3, !.maxEdits = 2, !.backfills = 1,
                         !.requests = {{1}},
                         !.configs = {BuiltIn, Month, [Month EXCEPT !.partition = Unknown]},
                         !.edits = {[db |-> 1, manifest |-> Own({Feed(1, AnyName, 2)})],
                                    [db |-> 2, manifest |-> [BuiltIn EXCEPT !.partition = Blank]],
                                    [db |-> 2, manifest |-> [BuiltIn EXCEPT !.action = Blank]]}]}

MCSettings == Chains \cup {Diamond, Circle, Cut} \cup Edits

=============================================================================
