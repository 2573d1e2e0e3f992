-------------------------- MODULE EventStoreProofs --------------------------
(***************************************************************************)
(* Proofs about the events layer, for every value of its constants: a log  *)
(* that a crash leaves replays unless one of two exceptions was met, an    *)
(* event keeps its name and its value type, what was acknowledged is       *)
(* stored, and stored once, through crashes, failed writes and restarts,   *)
(* and a query gives all it owed and nothing twice while it is written;    *)
(* the layer implements SampleLog.                                         *)
(***************************************************************************)
EXTENDS EventStore, FiniteSetTheorems, WellFoundedInduction, TLAPS

(***************************************************************************)
(* Where events are.                                                       *)
(***************************************************************************)
Logged    == {wal[k].event : k \in DOMAIN wal}
Filed(p)  == UNION {{file[p][f][k] : k \in DOMAIN file[p][f]} : f \in DOMAIN file[p]}
Paged(p)  == {page[p][k] : k \in DOMAIN page[p]}
InParts   == UNION {Filed(p) \cup Paged(p) : p \in Partition}
Events    == Logged \cup InParts

PartAt(e) == PartOf[e.ts]
Failed    == {a.val : a \in answered \ Acked}
Adding    == call.op = "add"
Frames == \A p \in Partition : \A f \in DOMAIN file[p] : file[p][f] # <<>>

(***************************************************************************)
(* The invariant, part by part.                                            *)
(***************************************************************************)

\* Where the writer is.
HandlerOK ==
    /\ pc = "down" => page = NoPages /\ call = NoCall
    /\ pc \in {"down", "idle"} => ~Adding
    /\ pc \in {"append", "payload", "page"} => Adding
    /\ pc = "payload" => torn > 0
    /\ pc = "drain" => call.op \in {"flush", "close"}
    /\ pc = "flush" => /\ flushing \in Partition /\ page[flushing] # <<>>
                       /\ call.op # "none"
                       /\ Adding => flushing = PartOf[call.ts]
    /\ pc = "reset" => call.op # "none" /\ (~Adding => page = NoPages)
    /\ pc = "persist" => call.op = "close" /\ (faults = 0 => page = NoPages)
    /\ Adding => /\ call.name \in EventName /\ call.ts \in Timestamp /\ Known(call.name)
                 /\ call.val = calls
    /\ Frames

\* Where torn records are: a call that begins behind one, or goes on behind one, is
\* in behind, and bytes come to be behind one no other way.
LogOK ==
    /\ pc = "append" /\ torn > 0 => call.val \in behind
    /\ pc = "payload" /\ torn > 1 => call.val \in behind
    /\ torn > 1 \/ buried => behind # {}
    /\ behind \subseteq 1..calls /\ newest \cap behind = {}

\* A call is one event; one that was the newest of its partition exceeds all before it.
EventsOK ==
    /\ calls <= limit.calls /\ newest \subseteq 1..calls
    /\ \A e \in Events : e.val \in 1..calls /\ e.ts <= latest[PartAt(e)]
    /\ \A e, g \in Events : e.val = g.val => e = g
    /\ \A e, g \in Events :
          PartAt(e) = PartAt(g) /\ g.val < e.val /\ e.val \in newest => g.ts < e.ts
    /\ \A p \in Partition : \A e \in Filed(p) \cup Paged(p) : PartAt(e) = p

\* Where the event of the call in progress is.
CallOK ==
    /\ Adding => calls > 0 /\ call.ts <= latest[PartOf[call.ts]]
    /\ pc \in {"append", "payload"} => \A e \in Events : e.val # call.val
    /\ pc \in {"append", "payload"} /\ call.val \in newest =>
          \A e \in Events : PartAt(e) = PartOf[call.ts] => e.ts < call.ts
    /\ pc = "page" => /\ CallEvent \in Logged \/ call.val \in behind
                      /\ CallEvent \in Logged \/ \A e \in Events : e.val # call.val
                      /\ \A e \in InParts : e.val # call.val
    /\ Adding /\ pc \in {"flush", "reset"} =>
          \E e \in Filed(PartOf[call.ts]) \cup Paged(PartOf[call.ts]) : e.val = call.val

AnswersOK ==
    /\ \A a \in answered : a.val \in 1..calls /\ (Adding => a.val # call.val)
    /\ \A a, b \in answered : a.val = b.val => a = b
    /\ \A a \in answered, e \in Events : a.val = e.val => a.ts = e.ts
    /\ \A e \in Events : Adding /\ e.val = call.val => e.ts = call.ts

BookOK == HandlerOK /\ LogOK /\ EventsOK /\ CallOK /\ AnswersOK

\* The catalog has what events.json and the log tell.  While no record is torn but
\* the one being written, it has nothing else but the name being added.
Graph(c) == {<<n, c[n]>> : n \in Entries(c)}
New      == IF pc \in {"append", "payload"} /\ call.fresh
            THEN {<<call.name, catalog[call.name]>>} ELSE {}
Whole    == torn = 0 \/ (pc = "payload" /\ torn = 1)

\* The entries D have one id each, and count them.
Numbered(D) ==
    /\ \A d, e \in D : d[2].id = e[2].id => d = e
    /\ \A d \in D : d[2].id \in 1..Cardinality(D)

CatalogOK ==
    ~unnamed =>
      /\ Consistent(wal) /\ Resolved(wal)
      /\ Numbered(Declared(wal))
      /\ pc # "down" =>
           /\ ~dirty => catalogFile = catalog
           /\ Declared(wal) \subseteq Graph(catalog) /\ Numbered(Graph(catalog))
           /\ Whole =>
                /\ Graph(catalog) = Declared(wal) \cup New
                /\ \A d \in Declared(wal), e \in New : d[1] # e[1] /\ d[2].id # e[2].id
                /\ \A e \in New : e[2].id = Cardinality(Declared(wal)) + 1
           /\ Adding => catalog[call.name].type = call.type

NamesOK ==
    ~unnamed => \A e \in Events :
        /\ \A a \in answered :
              a.val = e.val /\ e.val \notin behind =>
                  <<a.name, [id |-> e.id, type |-> a.type]>> \in Declared(wal)
        /\ Adding /\ call.val = e.val /\ e.val \notin behind =>
              <<call.name, [id |-> e.id, type |-> call.type]>> \in Declared(wal)

\* Of the events in the log, those that were the newest of their partition, and whose call
\* did not fail, are in a file or above all in it; and they are in a page until then.
Owed == {e \in Logged : e.val \in newest \ Failed}

PagesLogged == \A p \in Partition : \A e \in Paged(p) : e \in Logged \/ e.val \in behind

DurableOK ==
    /\ PagesLogged
    /\ \A e \in Owed : e \in Filed(PartAt(e)) \/ \A g \in Filed(PartAt(e)) : g.val < e.val
    /\ pc # "down" =>
         \A e \in Owed : \/ e \in Filed(PartAt(e)) \cup Paged(PartAt(e))
                         \/ pc = "page" /\ e.val = call.val
    /\ \A a \in Acked : a.val \in newest =>
          \E e \in Logged \cup UNION {Filed(p) : p \in Partition} : e.val = a.val
    /\ Calm => \A a \in Acked : \E e \in InParts : e.val = a.val

\* While no write fails, an event of the log that is in no page is at or below the
\* watermark of its file, and nothing is stored twice.
Distinct(s)      == \A i, j \in DOMAIN s : s[i].val = s[j].val => i = j
Disjoint(frames) ==
    /\ \A f \in DOMAIN frames : Distinct(frames[f])
    /\ \A f, h \in DOMAIN frames : \A i \in DOMAIN frames[f], j \in DOMAIN frames[h] :
          frames[f][i].val = frames[h][j].val => f = h

OnceOK ==
    faults = 0 =>
      /\ pc # "down" =>
           \A e \in Logged : \/ e \in Paged(PartAt(e)) \/ Durable(e)
                             \/ pc = "page" /\ e.val = call.val
      /\ \A e \in Logged : Durable(e) \/ \A g \in Filed(PartAt(e)) : g.val < e.val
      /\ Distinct(LogEvents(wal))
      /\ \A p \in Partition :
           /\ Distinct(page[p]) /\ Disjoint(file[p])
           /\ \A e \in Filed(p), g \in Paged(p) : e.val # g.val

IInv == TypeOK /\ BookOK /\ CatalogOK /\ NamesOK /\ DurableOK /\ OnceOK

(***************************************************************************)
(* Data: minima and maxima of sets of numbers, and what Kept returns.      *)
(***************************************************************************)
LEMMA Smallest ==
    ASSUME NEW T, T \subseteq Nat, T # {}
    PROVE  \E m \in T : \A k \in T : m <= k
<1>1. PICK m \in T : \A k \in T : <<k, m>> \notin OpToRel(<, Nat)
  BY WFMin, NatLessThanWellFounded, Zenon
<1>2. \A k \in T : ~(k < m)
  BY <1>1, Zenon DEF OpToRel
<1> QED
  BY <1>2

\* A function defined by recursion on 0..n exists when its steps stay in S.
Recursive(t, n, S, init, step) ==
    /\ t \in [0..n -> S]
    /\ \A k \in 0..n : t[k] = IF k = 0 THEN init ELSE step[k][t[k - 1]]

LEMMA Recursion ==
    ASSUME NEW n \in Nat, NEW S, NEW init \in S, NEW step \in [1..n -> [S -> S]]
    PROVE  \E t : Recursive(t, n, S, init, step)
<1> DEFINE Ok(t, m) == \A k \in 0..m : t[k] = IF k = 0 THEN init ELSE step[k][t[k - 1]]
           bad == {m \in 0..n : ~\E t \in [0..m -> S] : Ok(t, m)}
<1>1. SUFFICES ASSUME bad # {} PROVE FALSE
  BY DEF Recursive
<1>2. bad \subseteq Nat
  OBVIOUS
<1> HIDE DEF bad
<1>3. PICK m \in bad : \A k \in bad : m <= k
  BY <1>1, <1>2, Smallest
<1> USE DEF bad
<1>4. m # 0
  <2>1. [k \in 0..0 |-> init] \in [0..0 -> S] /\ Ok([k \in 0..0 |-> init], 0)
    OBVIOUS
  <2>2. 0 \notin bad
    BY <2>1
  <2> QED
    BY <1>3, <2>2
<1>5. m \in 1..n /\ m - 1 \in 0..n /\ m - 1 \notin bad
  <2>1. m \in 0..n
    BY <1>3
  <2> HIDE DEF bad
  <2> QED
    BY <1>3, <1>4, <2>1
<1>6. PICK t \in [0..(m - 1) -> S] : Ok(t, m - 1)
  BY <1>5
<1> DEFINE u == [k \in 0..m |-> IF k < m THEN t[k] ELSE step[m][t[m - 1]]]
<1>7. t[m - 1] \in S /\ step[m] \in [S -> S]
  BY <1>5
<1>8. step[m][t[m - 1]] \in S
  BY <1>7
<1>9. u \in [0..m -> S]
  <2>1. \A k \in 0..m : k < m => k \in 0..(m - 1)
    BY <1>5
  <2> QED
    BY <1>8, <2>1
<1>10. u[m] = step[m][t[m - 1]] /\ \A k \in 0..(m - 1) : u[k] = t[k]
  BY <1>5
<1> HIDE DEF u
<1>11. Ok(u, m)
  <2> SUFFICES ASSUME NEW k \in 0..m
               PROVE  u[k] = IF k = 0 THEN init ELSE step[k][u[k - 1]]
    OBVIOUS
  <2>1. CASE k = m
    <3>1. u[m - 1] = t[m - 1]
      BY <1>5, <1>10
    <3> QED
      BY <1>4, <1>10, <2>1, <3>1
  <2>2. CASE k # m
    <3>1. k \in 0..(m - 1) /\ (k # 0 => k - 1 \in 0..(m - 1))
      BY <1>5, <2>2
    <3>2. t[k] = IF k = 0 THEN init ELSE step[k][t[k - 1]]
      BY <1>6, <3>1
    <3> QED
      BY <1>10, <3>1, <3>2
  <2> QED
    BY <2>1, <2>2
<1> QED
  BY <1>3, <1>9, <1>11

Keeping(l, K, t, n) ==
    \A k \in 0..n : t[k] = IF k = 0 THEN <<>>
                           ELSE IF k \in K THEN Append(t[k - 1], l[k]) ELSE t[k - 1]

LEMMA KeptExists ==
    ASSUME NEW E, NEW l, NEW n \in Nat, \A k \in 1..n : l[k] \in E, NEW K
    PROVE  \E t \in [0..n -> Seq(E)] : Keeping(l, K, t, n)
<1> DEFINE step == [k \in 1..n |-> [t \in Seq(E) |-> IF k \in K THEN Append(t, l[k]) ELSE t]]
<1>1. step \in [1..n -> [Seq(E) -> Seq(E)]]
  OBVIOUS
<1>2. \A k \in 1..n : \A t \in Seq(E) :
          step[k][t] = IF k \in K THEN Append(t, l[k]) ELSE t
  OBVIOUS
<1> HIDE DEF step
<1> DEFINE S == Seq(E)
           init == <<>>
<1>3. init \in S /\ step \in [1..n -> [S -> S]]
  BY <1>1
<1> HIDE DEF init, S
<1>4. PICK t : Recursive(t, n, S, init, step)
  BY <1>3, Recursion
<1>5. \A k \in 0..n : k = 0 \/ (k \in 1..n /\ t[k - 1] \in S)
  BY <1>4 DEF Recursive
<1>6. /\ t \in [0..n -> Seq(E)]
      /\ \A k \in 0..n : t[k] = IF k = 0 THEN <<>> ELSE step[k][t[k - 1]]
  BY <1>4 DEF Recursive, init, S
<1>7. \A k \in 1..n : step[k][t[k - 1]] = IF k \in K THEN Append(t[k - 1], l[k])
                                          ELSE t[k - 1]
  BY <1>2, <1>5 DEF S
<1>8. Keeping(l, K, t, n)
  BY <1>5, <1>6, <1>7 DEF Keeping
<1> QED
  BY <1>6, <1>8

LEMMA KeptIs ==
    ASSUME NEW E, NEW l, Len(l) \in Nat, \A k \in 1..Len(l) : l[k] \in E, NEW K
    PROVE  \E t \in [0..Len(l) -> Seq(E)] : Keeping(l, K, t, Len(l)) /\ Kept(l, K) = t[Len(l)]
<1> DEFINE Def(t) == [k \in 0..Len(l) |-> IF k = 0 THEN <<>>
                                  ELSE IF k \in K THEN Append(t[k - 1], l[k])
                                       ELSE t[k - 1]]
<1> DEFINE s == CHOOSE t : t = Def(t)
<1>1. PICK t \in [0..Len(l) -> Seq(E)] : Keeping(l, K, t, Len(l))
  BY KeptExists
<1>2. t = Def(t)
  BY <1>1 DEF Keeping
<1>3. s = Def(s)
  BY <1>2
<1>4. Kept(l, K) = s[Len(l)]
  BY DEF Kept
<1>5. \A k \in 0..Len(l) : s[k] = IF k = 0 THEN <<>>
                                  ELSE IF k \in K THEN Append(s[k - 1], l[k])
                                       ELSE s[k - 1]
  BY <1>3
<1> HIDE DEF s
<1> DEFINE bad == {k \in 0..Len(l) : s[k] # t[k]}
<1>6. bad = {}
  <2> SUFFICES ASSUME bad # {} PROVE FALSE
    OBVIOUS
  <2>1. bad \subseteq Nat
    OBVIOUS
  <2> HIDE DEF bad
  <2>2. PICK m \in bad : \A k \in bad : m <= k
    BY <2>1, Smallest
  <2> USE DEF bad
  <2>3. m \in 0..Len(l) /\ (m # 0 => m - 1 \in 0..Len(l) /\ m - 1 \notin bad)
    BY <2>2
  <2>4. s[m] = t[m]
    BY <1>1, <1>5, <2>3 DEF Keeping
  <2> QED
    BY <2>2, <2>4
<1>7. s[Len(l)] = t[Len(l)]
  BY <1>6
<1> QED
  BY <1>1, <1>4, <1>7

Picks(l, K, n, s, g) ==
    /\ g \in [1..Len(s) -> {k \in 1..n : k \in K}]
    /\ \A i \in 1..Len(s) : s[i] = l[g[i]]
    /\ \A i, j \in 1..Len(s) : g[i] = g[j] => i = j
    /\ \A k \in 1..n : k \in K => \E i \in 1..Len(s) : g[i] = k

LEMMA PicksMore ==
    ASSUME NEW E, NEW l, NEW n \in Nat \ {0}, l[n] \in E, NEW K,
           NEW s \in Seq(E), NEW g, Picks(l, K, n - 1, s, g)
    PROVE  IF n \in K THEN \E h : Picks(l, K, n, Append(s, l[n]), h)
                      ELSE Picks(l, K, n, s, g)
<1>1. CASE n \notin K
  <2>1. \A k \in 1..n : k \in K <=> k \in 1..(n - 1) /\ k \in K
    BY <1>1
  <2>2. {k \in 1..n : k \in K} = {k \in 1..(n - 1) : k \in K}
    BY <2>1
  <2> QED
    BY <1>1, <2>1, <2>2 DEF Picks
<1>2. CASE n \in K
  <2> DEFINE r == Append(s, l[n])
             h == [i \in 1..Len(r) |-> IF i <= Len(s) THEN g[i] ELSE n]
  <2>1. /\ r \in Seq(E) /\ Len(r) = Len(s) + 1 /\ Len(s) \in Nat
        /\ r[Len(s) + 1] = l[n] /\ \A i \in 1..Len(s) : r[i] = s[i]
    OBVIOUS
  <2> HIDE DEF r
  <2>2. \A i \in 1..Len(r) : i \in 1..Len(s) \/ i = Len(s) + 1
    BY <2>1
  <2>3. /\ \A i \in 1..Len(s) : i \in 1..Len(r) /\ h[i] = g[i]
        /\ Len(s) + 1 \in 1..Len(r) /\ h[Len(s) + 1] = n
    BY <2>1
  <2>4. \A i \in 1..Len(s) : g[i] \in 1..(n - 1) /\ g[i] \in K
    BY DEF Picks
  <2>5. \A i \in 1..Len(r) : h[i] \in {k \in 1..n : k \in K}
    BY <1>2, <2>2, <2>3, <2>4
  <2>6. h \in [1..Len(r) -> {k \in 1..n : k \in K}]
    BY <2>5
  <2> HIDE DEF h
  <2>7. \A i \in 1..Len(r) : r[i] = l[h[i]]
    BY <2>1, <2>2, <2>3 DEF Picks
  <2>8. \A i \in 1..Len(s) : g[i] # n
    BY <2>4
  <2>9. \A i, j \in 1..Len(r) : h[i] = h[j] => i = j
    <3> SUFFICES ASSUME NEW i \in 1..Len(r), NEW j \in 1..Len(r), h[i] = h[j]
                 PROVE  i = j
      OBVIOUS
    <3>1. CASE i \in 1..Len(s) /\ j \in 1..Len(s)
      BY <2>3, <3>1 DEF Picks
    <3>2. CASE i = Len(s) + 1 \/ j = Len(s) + 1
      BY <2>2, <2>3, <2>8, <3>2
    <3> QED
      BY <2>2, <3>1, <3>2
  <2>10. \A k \in 1..n : k \in K => \E i \in 1..Len(r) : h[i] = k
    <3> SUFFICES ASSUME NEW k \in 1..n, k \in K PROVE \E i \in 1..Len(r) : h[i] = k
      OBVIOUS
    <3>1. CASE k = n
      BY <2>3, <3>1
    <3>2. CASE k # n
      <4>1. k \in 1..(n - 1)
        BY <3>2
      <4>2. PICK i \in 1..Len(s) : g[i] = k
        BY <4>1 DEF Picks
      <4> QED
        BY <2>3, <4>2
    <3> QED
      BY <3>1, <3>2
  <2>11. Picks(l, K, n, r, h)
    BY <2>6, <2>7, <2>9, <2>10 DEF Picks
  <2> QED
    BY <1>2, <2>11 DEF r
<1> QED
  BY <1>1, <1>2

LEMMA PicksExist ==
    ASSUME NEW E, NEW l, NEW n \in Nat, \A k \in 1..n : l[k] \in E, NEW K,
           NEW t \in [0..n -> Seq(E)], Keeping(l, K, t, n)
    PROVE  \E g : Picks(l, K, n, t[n], g)
<1> DEFINE bad == {m \in 0..n : ~\E g : Picks(l, K, m, t[m], g)}
<1> SUFFICES ASSUME bad # {} PROVE FALSE
  OBVIOUS
<1>1. bad \subseteq Nat
  OBVIOUS
<1> HIDE DEF bad
<1>2. PICK m \in bad : \A k \in bad : m <= k
  BY <1>1, Smallest
<1> USE DEF bad
<1>3. m # 0
  <2>1. t[0] = <<>>
    BY DEF Keeping
  <2>2. Picks(l, K, 0, <<>>, <<>>)
    BY DEF Picks
  <2> QED
    BY <1>2, <2>1, <2>2
<1>4. m \in 1..n /\ m - 1 \in 0..n /\ m \in Nat \ {0} /\ m \in 0..n
  BY <1>2, <1>3
<1>5. m - 1 \notin bad
  <2> HIDE DEF bad
  <2> QED
    BY <1>2, <1>4
<1>6. PICK g : Picks(l, K, m - 1, t[m - 1], g)
  BY <1>4, <1>5
<1>7. t[m - 1] \in Seq(E) /\ l[m] \in E
  BY <1>4
<1>8. t[m] = IF m \in K THEN Append(t[m - 1], l[m]) ELSE t[m - 1]
  BY <1>4 DEF Keeping
<1>9. IF m \in K THEN \E h : Picks(l, K, m, Append(t[m - 1], l[m]), h)
                 ELSE Picks(l, K, m, t[m - 1], g)
  BY <1>4, <1>6, <1>7, PicksMore
<1>10. \E h : Picks(l, K, m, t[m], h)
  BY <1>8, <1>9
<1> QED
  BY <1>2, <1>10

LEMMA KeptPicks ==
    ASSUME NEW E, NEW l, Len(l) \in Nat, \A k \in 1..Len(l) : l[k] \in E, NEW K
    PROVE  /\ Kept(l, K) \in Seq(E)
           /\ \E g : Picks(l, K, Len(l), Kept(l, K), g)
<1>1. PICK t \in [0..Len(l) -> Seq(E)] : Keeping(l, K, t, Len(l)) /\ Kept(l, K) = t[Len(l)]
  BY KeptIs
<1>2. \E g : Picks(l, K, Len(l), t[Len(l)], g)
  BY <1>1, PicksExist
<1> QED
  BY <1>1, <1>2

LEMMA Largest ==
    ASSUME NEW T, T \subseteq Nat, T # {}, NEW b \in Nat, \A k \in T : k <= b
    PROVE  \E m \in T : \A k \in T : k <= m
<1> DEFINE gaps == {b - k : k \in T}
<1>1. gaps \subseteq Nat /\ gaps # {}
  <2>1. \A k \in T : b - k \in Nat
    OBVIOUS
  <2>2. PICK k \in T : TRUE
    OBVIOUS
  <2>3. b - k \in gaps
    OBVIOUS
  <2> QED
    BY <2>1, <2>3
<1> HIDE DEF gaps
<1>2. PICK d \in gaps : \A g \in gaps : d <= g
  BY <1>1, Smallest
<1>3. PICK m \in T : d = b - m
  BY <1>2 DEF gaps
<1>4. \A k \in T : b - m <= b - k
  BY <1>2, <1>3 DEF gaps
<1>5. \A k \in T : k <= m
  BY <1>3, <1>4
<1> QED
  BY <1>5

LEMMA SeqBounded ==
    ASSUME NEW n \in Nat, NEW t, \A i \in 1..n : t[i] \in Nat
    PROVE  \E b \in Nat : \A i \in 1..n : t[i] <= b
<1> DEFINE bad == {m \in 0..n : ~\E b \in Nat : \A i \in 1..m : t[i] <= b}
<1> SUFFICES ASSUME bad # {} PROVE FALSE
  <2>1. n \in 0..n
    OBVIOUS
  <2> QED
    BY <2>1
<1>1. bad \subseteq Nat
  OBVIOUS
<1> HIDE DEF bad
<1>2. PICK m \in bad : \A k \in bad : m <= k
  BY <1>1, Smallest
<1>3. m \in 0..n
  BY <1>2 DEF bad
<1>4. m # 0
  <2>1. \A i \in 1..0 : t[i] <= 0
    OBVIOUS
  <2> QED
    BY <1>2, <2>1 DEF bad
<1>5. m \in 1..n /\ m - 1 \in 0..n
  BY <1>3, <1>4
<1>6. m - 1 \notin bad
  BY <1>2, <1>5
<1>7. PICK b \in Nat : \A i \in 1..(m - 1) : t[i] <= b
  BY <1>5, <1>6 DEF bad
<1> DEFINE c == IF t[m] <= b THEN b ELSE t[m]
<1>8. c \in Nat /\ t[m] \in Nat /\ b <= c /\ t[m] <= c
  BY <1>5, <1>7
<1> HIDE DEF c
<1>9. \A i \in 1..m : t[i] <= c
  <2> SUFFICES ASSUME NEW i \in 1..m PROVE t[i] <= c
    OBVIOUS
  <2>1. CASE i = m
    BY <1>8, <2>1
  <2>2. CASE i # m
    <3>1. i \in 1..(m - 1) /\ t[i] \in Nat
      BY <1>5, <2>2
    <3> QED
      BY <1>7, <1>8, <3>1
  <2> QED
    BY <2>1, <2>2
<1> QED
  BY <1>2, <1>8, <1>9 DEF bad


LEMMA KeptElements ==
    ASSUME NEW E, NEW s \in Seq(E), NEW K, K \subseteq DOMAIN s
    PROVE  /\ Kept(s, K) \in Seq(E)
           /\ \A i \in DOMAIN Kept(s, K) : \E k \in K : Kept(s, K)[i] = s[k]
           /\ \A k \in K : \E i \in DOMAIN Kept(s, K) : Kept(s, K)[i] = s[k]
           /\ Distinct(s) => Distinct(Kept(s, K))
<1> DEFINE r == Kept(s, K)
<1>1. Len(s) \in Nat /\ DOMAIN s = 1..Len(s) /\ \A k \in 1..Len(s) : s[k] \in E
  OBVIOUS
<1>2. r \in Seq(E) /\ \E g : Picks(s, K, Len(s), r, g)
  BY <1>1, KeptPicks
<1> HIDE DEF r
<1>3. PICK g : Picks(s, K, Len(s), r, g)
  BY <1>2
<1>4. DOMAIN r = 1..Len(r)
  BY <1>2
<1>5. \A i \in DOMAIN r : g[i] \in K /\ g[i] \in 1..Len(s) /\ r[i] = s[g[i]]
  BY <1>3, <1>4 DEF Picks
<1>6. \A k \in K : \E i \in DOMAIN r : g[i] = k
  BY <1>1, <1>3, <1>4 DEF Picks
<1>7. \A i, j \in DOMAIN r : g[i] = g[j] => i = j
  BY <1>3, <1>4 DEF Picks
<1>8. ASSUME Distinct(s) PROVE Distinct(r)
  BY <1>1, <1>5, <1>7, <1>8 DEF Distinct
<1>9. \A k \in K : \E i \in DOMAIN r : r[i] = s[k]
  BY <1>5, <1>6
<1> QED
  BY <1>2, <1>5, <1>8, <1>9 DEF r

LEMMA AppendElements ==
    ASSUME NEW E, NEW s \in Seq(E), NEW x \in E
    PROVE  /\ Append(s, x) \in Seq(E) /\ Append(s, x) # <<>>
           /\ DOMAIN Append(s, x) = DOMAIN s \cup {Len(s) + 1}
           /\ Len(s) + 1 \notin DOMAIN s
           /\ Append(s, x)[Len(s) + 1] = x
           /\ \A k \in DOMAIN s : Append(s, x)[k] = s[k]
  OBVIOUS

LEMMA NonEmpty ==
    ASSUME NEW E, NEW s \in Seq(E), s # <<>>
    PROVE  1 \in DOMAIN s
  OBVIOUS

(***************************************************************************)
(* Frames: the largest timestamp of one, and what a file covers.           *)
(***************************************************************************)
LEMMA EventParts ==
    ASSUME NEW e \in Event
    PROVE  e.ts \in Timestamp /\ e.ts \in Nat /\ PartAt(e) \in Partition /\ e.val \in Nat
           /\ e.id \in EventID
  BY EventAssumption DEF Event, PartAt, Partition, Range

LEMMA FrameEndIs ==
    ASSUME NEW f \in Seq(Event), f # <<>>
    PROVE  /\ \E k \in DOMAIN f : FrameEnd(f) = f[k].ts
           /\ \A k \in DOMAIN f : f[k].ts <= FrameEnd(f)
<1> DEFINE times == {e.ts : e \in Range(f)}
           t     == [k \in 1..Len(f) |-> f[k].ts]
<1>1. Len(f) \in Nat /\ DOMAIN f = 1..Len(f) /\ 1 \in DOMAIN f
  BY NonEmpty
<1>2. \A k \in DOMAIN f : f[k] \in Event /\ f[k].ts \in Nat
  <2>1. \A k \in DOMAIN f : f[k] \in Event
    OBVIOUS
  <2> QED
    BY <2>1, EventParts
<1>3. \A k \in DOMAIN f : f[k] \in Range(f) /\ f[k].ts \in times
  BY DEF Range
<1>4. \A u \in times : \E k \in DOMAIN f : u = f[k].ts
  BY DEF Range
<1>5. \A k \in 1..Len(f) : t[k] \in Nat
  BY <1>1, <1>2
<1>6. PICK b \in Nat : \A k \in 1..Len(f) : t[k] <= b
  <2> HIDE DEF t
  <2> QED
    BY <1>1, <1>5, SeqBounded
<1>7. \A k \in DOMAIN f : f[k].ts <= b
  BY <1>1, <1>6
<1>8. times \subseteq Nat /\ times # {} /\ \A u \in times : u <= b
  BY <1>1, <1>2, <1>3, <1>4, <1>7
<1> HIDE DEF times
<1>9. PICK m \in times : \A u \in times : u <= m
  BY <1>8, Largest
<1>10. \A e \in Range(f) : m >= e.ts
  BY <1>3, <1>9, <1>8 DEF Range
<1>11. FrameEnd(f) \in times /\ \A e \in Range(f) : FrameEnd(f) >= e.ts
  BY <1>10 DEF FrameEnd, times
<1>12. FrameEnd(f) \in Nat
  BY <1>8, <1>11
<1>13. \A k \in DOMAIN f : f[k].ts <= FrameEnd(f)
  BY <1>2, <1>3, <1>11, <1>12
<1> QED
  BY <1>4, <1>11, <1>13

LEMMA DurableIs ==
    ASSUME file \in [Partition -> Seq(Seq(Event))], Frames, NEW e \in Event
    PROVE  Durable(e) <=> \E g \in Filed(PartAt(e)) : e.ts <= g.ts
<1> DEFINE p == PartOf[e.ts]
<1>1. p \in Partition /\ e.ts \in Nat
  BY EventAssumption DEF Event, Partition, Range
<1>2. \A f \in DOMAIN file[p] : file[p][f] \in Seq(Event) /\ file[p][f] # <<>>
  BY <1>1 DEF Frames
<1>3. \A f \in DOMAIN file[p] : \A k \in DOMAIN file[p][f] :
          file[p][f][k] \in Filed(p) /\ file[p][f][k].ts \in Nat
  <2> SUFFICES ASSUME NEW f \in DOMAIN file[p], NEW k \in DOMAIN file[p][f]
               PROVE  file[p][f][k] \in Filed(p) /\ file[p][f][k].ts \in Nat
    OBVIOUS
  <2>1. file[p][f][k] \in Event
    BY <1>2
  <2>2. file[p][f][k] \in {file[p][f][i] : i \in DOMAIN file[p][f]}
    OBVIOUS
  <2> QED
    BY <2>1, <2>2, EventParts DEF Filed
<1>4. ASSUME Durable(e) PROVE \E g \in Filed(p) : e.ts <= g.ts
  <2>1. PICK f \in DOMAIN file[p] : e.ts <= FrameEnd(file[p][f])
    BY <1>4 DEF Durable, Range
  <2>2. PICK k \in DOMAIN file[p][f] : FrameEnd(file[p][f]) = file[p][f][k].ts
    BY <1>2, FrameEndIs
  <2> QED
    BY <1>3, <2>1, <2>2
<1>5. ASSUME NEW g \in Filed(p), e.ts <= g.ts PROVE Durable(e)
  <2>1. PICK f \in DOMAIN file[p] : g \in {file[p][f][k] : k \in DOMAIN file[p][f]}
    BY <1>5 DEF Filed
  <2>2. PICK k \in DOMAIN file[p][f] : g = file[p][f][k]
    BY <2>1
  <2>3. g.ts <= FrameEnd(file[p][f]) /\ g.ts \in Nat
    BY <1>2, <1>3, <2>2, FrameEndIs
  <2>4. FrameEnd(file[p][f]) \in Nat
    BY <1>2, <1>3, FrameEndIs
  <2>5. e.ts <= FrameEnd(file[p][f])
    BY <1>1, <1>5, <2>3, <2>4
  <2>6. file[p][f] \in Range(file[p])
    BY DEF Range
  <2> QED
    BY <2>5, <2>6 DEF Durable
<1> QED
  BY <1>4, <1>5 DEF PartAt


(***************************************************************************)
(* Types, and where the writer is.                                         *)
(***************************************************************************)
USE DEF log, disk, known, memory, given, history, vars

LEMMA LogTypes ==
    ASSUME wal \in Seq(Record)
    PROVE  /\ LogEvents(wal) \in Seq(Event) /\ DOMAIN LogEvents(wal) = DOMAIN wal
           /\ \A k \in DOMAIN wal : LogEvents(wal)[k] = wal[k].event
           /\ \A k \in DOMAIN wal : wal[k] \in Record /\ wal[k].event \in Event
<1>1. \A k \in DOMAIN wal : wal[k] \in Record
  OBVIOUS
<1>2. \A k \in DOMAIN wal : wal[k].event \in Event
  BY <1>1 DEF Record
<1>3. DOMAIN wal = 1..Len(wal) /\ Len(wal) \in Nat
  OBVIOUS
<1>4. LogEvents(wal) \in [1..Len(wal) -> Event]
  BY <1>2, <1>3 DEF LogEvents
<1>5. LogEvents(wal) \in Seq(Event)
  BY <1>3, <1>4
<1> QED
  BY <1>1, <1>2, <1>5 DEF LogEvents

\* A replayed page holds the events of its partition in the log that are above
\* everything in the file, in the order of the log.
LEMMA Replayed ==
    ASSUME wal \in Seq(Record), NEW p \in Partition
    PROVE  /\ ReplayedOf(p) \in Seq(Event)
           /\ \A i \in DOMAIN ReplayedOf(p) : \E k \in DOMAIN wal :
                 /\ ReplayedOf(p)[i] = wal[k].event
                 /\ PartAt(wal[k].event) = p /\ ~Durable(wal[k].event)
           /\ \A k \in DOMAIN wal :
                 PartAt(wal[k].event) = p /\ ~Durable(wal[k].event) =>
                    \E i \in DOMAIN ReplayedOf(p) : ReplayedOf(p)[i] = wal[k].event
           /\ Distinct(LogEvents(wal)) => Distinct(ReplayedOf(p))
<1> DEFINE K == {k \in DOMAIN wal : PartOf[wal[k].event.ts] = p /\ ~Durable(wal[k].event)}
<1>1. ReplayedOf(p) = Kept(LogEvents(wal), K)
  BY DEF ReplayedOf
<1>2. \A k \in DOMAIN wal :
          k \in K <=> PartAt(wal[k].event) = p /\ ~Durable(wal[k].event)
  BY DEF PartAt
<1>3. K \subseteq DOMAIN LogEvents(wal) /\ LogEvents(wal) \in Seq(Event)
  BY LogTypes
<1> HIDE DEF K
<1>4. /\ Kept(LogEvents(wal), K) \in Seq(Event)
      /\ \A i \in DOMAIN Kept(LogEvents(wal), K) :
            \E k \in K : Kept(LogEvents(wal), K)[i] = LogEvents(wal)[k]
      /\ \A k \in K : \E i \in DOMAIN Kept(LogEvents(wal), K) :
            Kept(LogEvents(wal), K)[i] = LogEvents(wal)[k]
      /\ Distinct(LogEvents(wal)) => Distinct(Kept(LogEvents(wal), K))
  BY <1>3, KeptElements
<1>5. \A k \in K : k \in DOMAIN wal /\ LogEvents(wal)[k] = wal[k].event
  BY <1>3, LogTypes
<1> DEFINE r == Kept(LogEvents(wal), K)
<1>6. \A i \in DOMAIN r : \E k \in DOMAIN wal :
          r[i] = wal[k].event /\ PartAt(wal[k].event) = p /\ ~Durable(wal[k].event)
  BY <1>2, <1>4, <1>5
<1>7. \A k \in DOMAIN wal : PartAt(wal[k].event) = p /\ ~Durable(wal[k].event) =>
          \E i \in DOMAIN r : r[i] = wal[k].event
  BY <1>2, <1>4, <1>5
<1> HIDE DEF r
<1>8. ReplayedOf(p) = r
  BY <1>1 DEF r
<1> QED
  BY <1>4, <1>6, <1>7, <1>8 DEF r

LEMMA NewestTypes ==
    ASSUME wal \in Seq(Record), NEW n, NEW c
    PROVE  NewestOf(n, c) \in Timestamp \cup {0}
<1> DEFINE replayed == UNION {Range(ReplayedOf(p)) : p \in Partition}
           times == {e.ts : e \in {e \in replayed : e.id = c[n].id}}
           t == [k \in 1..Len(wal) |-> wal[k].event.ts]
<1>1. Len(wal) \in Nat /\ DOMAIN wal = 1..Len(wal)
  OBVIOUS
<1>2. \A k \in DOMAIN wal : wal[k].event.ts \in Timestamp /\ wal[k].event.ts \in Nat
  BY LogTypes, EventParts
<1>3. \A k \in 1..Len(wal) : t[k] \in Nat
  BY <1>1, <1>2
<1>4. PICK b \in Nat : \A k \in 1..Len(wal) : t[k] <= b
  <2> HIDE DEF t
  <2> QED
    BY <1>1, <1>3, SeqBounded
<1>5. \A e \in replayed : \E k \in DOMAIN wal : e = wal[k].event
  <2> SUFFICES ASSUME NEW p \in Partition, NEW e \in Range(ReplayedOf(p))
               PROVE  \E k \in DOMAIN wal : e = wal[k].event
    OBVIOUS
  <2>1. PICK i \in DOMAIN ReplayedOf(p) : e = ReplayedOf(p)[i]
    BY DEF Range
  <2> QED
    BY <2>1, Replayed
<1> HIDE DEF replayed
<1>6. \A u \in times : \E k \in DOMAIN wal : u = wal[k].event.ts
  BY <1>5
<1>7. \A u \in times : u \in Timestamp /\ u \in Nat /\ u <= b
  BY <1>1, <1>2, <1>4, <1>6
<1>8. NewestOf(n, c) = IF times = {} THEN 0
                       ELSE CHOOSE m \in times : \A u \in times : u <= m
  BY DEF NewestOf, replayed
<1> HIDE DEF times
<1>9. times # {} => \E m \in times : \A u \in times : u <= m
  <2>1. times \subseteq Nat
    BY <1>7
  <2> QED
    BY <1>7, <2>1, Largest
<1> QED
  BY <1>7, <1>8, <1>9

LEMMA DeclaredTypes ==
    ASSUME TypeOK
    PROVE  \A d \in Declared(wal) :
              d = <<d[1], d[2]>> /\ d[1] \in EventName /\ d[2] \in Entry /\ d[2].id # 0
<1>1. \A n \in Entries(catalogFile) :
          n \in EventName /\ catalogFile[n] \in Entry /\ catalogFile[n].id # 0
  BY DEF TypeOK, Entries
<1>2. \A r \in Named(wal) : r \in Record /\ r.name # NoName
  BY LogTypes DEF TypeOK, Named, Range
<1>3. \A r \in Named(wal) :
          /\ r.name \in EventName /\ r.event.id \in EventID
          /\ [id |-> r.event.id, type |-> r.type] \in Entry
  BY <1>2 DEF Record, Event, Entry
<1>4. \A i \in EventID : i # 0
  BY EventAssumption DEF EventID
<1> QED
  BY <1>1, <1>3, <1>4 DEF Declared

LEMMA CatalogTypes ==
    ASSUME TypeOK
    PROVE  CatalogAfter(wal) \in [EventName -> Entry]
<1>1. NoEntries \in [EventName -> Entry]
  BY EventAssumption DEF NoEntries, Entry, AnyType
<1> SUFFICES ASSUME NEW n \in EventName
             PROVE  (IF \E d \in Declared(wal) : d[1] = n
                     THEN (CHOOSE d \in Declared(wal) : d[1] = n)[2]
                     ELSE NoEntries[n]) \in Entry
  BY DEF CatalogAfter
<1> QED
  BY <1>1, DeclaredTypes

LEMMA OpenTypes ==
    ASSUME TypeOK, Open
    PROVE  TypeOK'
<1>1. catalog' \in [EventName -> Entry]
  BY CatalogTypes DEF Open
<1>2. idToName' \in [EventID -> EventName \cup {NoName}]
  BY DEF Open, NamesById
<1>3. page' \in [Partition -> Seq(Event)]
  BY Replayed DEF Open, TypeOK
<1>4. lastTS' \in [EventName -> Timestamp \cup {0}]
  BY NewestTypes DEF Open, TypeOK
<1>5. sized' \in BOOLEAN
  BY DEF Open
<1> QED
  BY <1>1, <1>2, <1>3, <1>4, <1>5 DEF Open, TypeOK


(***************************************************************************)
(* What a query reads from the frames of a file.                           *)
(***************************************************************************)
IsJoin(E, s, t, r) ==
    /\ r \in Seq(E)
    /\ \A i \in DOMAIN s : i \in DOMAIN r /\ r[i] = s[i]
    /\ \A j \in DOMAIN t : Len(s) + j \in DOMAIN r /\ r[Len(s) + j] = t[j]
    /\ \A i \in DOMAIN r : i \in DOMAIN s \/ \E j \in DOMAIN t : i = Len(s) + j

LEMMA Joined ==
    ASSUME NEW E, NEW s \in Seq(E), NEW t \in Seq(E)
    PROVE  IsJoin(E, s, t, s \o t)
<1> DEFINE r == s \o t
<1>1. /\ r \in Seq(E) /\ Len(r) = Len(s) + Len(t)
      /\ Len(s) \in Nat /\ Len(t) \in Nat
      /\ DOMAIN r = 1..Len(r) /\ DOMAIN s = 1..Len(s) /\ DOMAIN t = 1..Len(t)
  OBVIOUS
<1>2. \A i \in DOMAIN r : i \in DOMAIN s \/ \E j \in DOMAIN t : i = Len(s) + j
  <2> SUFFICES ASSUME NEW i \in DOMAIN r, i \notin DOMAIN s
               PROVE  \E j \in DOMAIN t : i = Len(s) + j
    OBVIOUS
  <2>1. i - Len(s) \in DOMAIN t /\ i = Len(s) + (i - Len(s))
    BY <1>1
  <2> QED
    BY <2>1
<1>3. \A i \in DOMAIN s : i \in DOMAIN r /\ r[i] = s[i]
  BY <1>1
<1>4. \A j \in DOMAIN t :
          Len(s) + j \in DOMAIN r /\ r[Len(s) + j] = t[j]
  BY <1>1
<1> QED
  BY <1>1, <1>2, <1>3, <1>4 DEF IsJoin

LEMMA JoinedDistinct ==
    ASSUME NEW E, NEW s \in Seq(E), NEW t \in Seq(E), Distinct(s), Distinct(t),
           \A i \in DOMAIN s : \A j \in DOMAIN t : s[i].val # t[j].val,
           NEW r, r = s \o t
    PROVE  Distinct(r)
<1>1. /\ \A i \in DOMAIN s : r[i] = s[i]
      /\ \A j \in DOMAIN t : r[Len(s) + j] = t[j]
      /\ \A i \in DOMAIN r : i \in DOMAIN s \/ \E j \in DOMAIN t : i = Len(s) + j
  <2>1. IsJoin(E, s, t, r)
    BY Joined
  <2> QED
    BY <2>1 DEF IsJoin
<1>2. SUFFICES ASSUME NEW i \in DOMAIN r, NEW j \in DOMAIN r, r[i].val = r[j].val
               PROVE  i = j
  BY DEF Distinct
<1>3. CASE i \in DOMAIN s /\ j \in DOMAIN s
  BY <1>1, <1>2, <1>3 DEF Distinct
<1>4. CASE i \in DOMAIN s /\ j \notin DOMAIN s
  BY <1>1, <1>2, <1>4
<1>5. CASE i \notin DOMAIN s /\ j \in DOMAIN s
  BY <1>1, <1>2, <1>5
<1>6. CASE i \notin DOMAIN s /\ j \notin DOMAIN s
  <2>1. PICK a \in DOMAIN t : i = Len(s) + a
    BY <1>1, <1>6
  <2>2. PICK b \in DOMAIN t : j = Len(s) + b
    BY <1>1, <1>6
  <2>3. t[a].val = t[b].val
    BY <1>1, <1>2, <2>1, <2>2
  <2> QED
    BY <2>1, <2>2, <2>3 DEF Distinct
<1> QED
  BY <1>3, <1>4, <1>5, <1>6

LEMMA MatchingIs ==
    ASSUME NEW s \in Seq(Event)
    PROVE  /\ Matching(s) \in Seq(Event)
           /\ \A i \in DOMAIN Matching(s) :
                 \E k \in DOMAIN s : Matching(s)[i] = s[k] /\ Matches(s[k])
           /\ \A k \in DOMAIN s :
                 Matches(s[k]) => \E i \in DOMAIN Matching(s) : Matching(s)[i] = s[k]
           /\ Distinct(s) => Distinct(Matching(s))
<1> DEFINE K == {k \in DOMAIN s : Matches(s[k])}
<1>1. K \subseteq DOMAIN s /\ Matching(s) = Kept(s, K)
  BY DEF Matching
<1>2. \A k \in DOMAIN s : k \in K <=> Matches(s[k])
  OBVIOUS
<1> HIDE DEF K
<1>3. /\ Kept(s, K) \in Seq(Event)
      /\ \A i \in DOMAIN Kept(s, K) : \E k \in K : Kept(s, K)[i] = s[k]
      /\ \A k \in K : \E i \in DOMAIN Kept(s, K) : Kept(s, K)[i] = s[k]
      /\ Distinct(s) => Distinct(Kept(s, K))
  BY <1>1, KeptElements
<1> QED
  BY <1>1, <1>2, <1>3

\* r holds the matching events of the first n frames.
FoundUpTo(frames, n, r) ==
    /\ r \in Seq(Event)
    /\ \A i \in DOMAIN r : \E f \in 1..n : \E k \in DOMAIN frames[f] :
          r[i] = frames[f][k] /\ Matches(frames[f][k])
    /\ \A f \in 1..n : \A k \in DOMAIN frames[f] :
          Selected(frames[f]) /\ Matches(frames[f][k]) =>
             \E i \in DOMAIN r : r[i] = frames[f][k]

LEMMA FoundMore ==
    ASSUME NEW frames \in Seq(Seq(Event)), NEW n \in 1..Len(frames), NEW r,
           FoundUpTo(frames, n - 1, r),
           Disjoint(frames) => Distinct(r),
           NEW s, s = IF Selected(frames[n]) THEN r \o Matching(frames[n]) ELSE r
    PROVE  FoundUpTo(frames, n, s) /\ (Disjoint(frames) => Distinct(s))
<1> DEFINE t == Matching(frames[n])
<1>1. /\ n \in DOMAIN frames /\ frames[n] \in Seq(Event) /\ n \in Nat
      /\ \A f \in 1..n : f \in 1..(n - 1) \/ f = n
      /\ \A f \in 1..(n - 1) : f \in 1..n /\ f \in DOMAIN frames /\ f # n
  OBVIOUS
<1>2. /\ t \in Seq(Event)
      /\ \A i \in DOMAIN t : \E k \in DOMAIN frames[n] :
            t[i] = frames[n][k] /\ Matches(frames[n][k])
      /\ \A k \in DOMAIN frames[n] :
            Matches(frames[n][k]) => \E i \in DOMAIN t : t[i] = frames[n][k]
      /\ Distinct(frames[n]) => Distinct(t)
  BY <1>1, MatchingIs
<1> HIDE DEF t
<1>3. CASE ~Selected(frames[n])
  <2>1. s = r
    BY <1>3
  <2>2. \A f \in 1..n : Selected(frames[f]) => f \in 1..(n - 1)
    BY <1>1, <1>3
  <2>3. FoundUpTo(frames, n, r)
    BY <1>1, <2>2 DEF FoundUpTo
  <2> QED
    BY <2>1, <2>3
<1>4. CASE Selected(frames[n])
  <2>1. s = r \o t /\ r \in Seq(Event)
    BY <1>4 DEF t, FoundUpTo
  <2>2. /\ s \in Seq(Event)
        /\ \A i \in DOMAIN r : i \in DOMAIN s /\ s[i] = r[i]
        /\ \A j \in DOMAIN t : Len(r) + j \in DOMAIN s /\ s[Len(r) + j] = t[j]
        /\ \A i \in DOMAIN s : i \in DOMAIN r \/ \E j \in DOMAIN t : i = Len(r) + j
    <3>1. IsJoin(Event, r, t, s)
      BY <1>2, <2>1, Joined
    <3> QED
      BY <3>1 DEF IsJoin
  <2>3. \A i \in DOMAIN s : \E f \in 1..n : \E k \in DOMAIN frames[f] :
            s[i] = frames[f][k] /\ Matches(frames[f][k])
    <3> SUFFICES ASSUME NEW i \in DOMAIN s
                 PROVE  \E f \in 1..n : \E k \in DOMAIN frames[f] :
                           s[i] = frames[f][k] /\ Matches(frames[f][k])
      OBVIOUS
    <3>1. CASE i \in DOMAIN r
      BY <1>1, <2>2, <3>1 DEF FoundUpTo
    <3>2. CASE i \notin DOMAIN r
      <4>1. PICK j \in DOMAIN t : i = Len(r) + j
        BY <2>2, <3>2
      <4>2. n \in 1..n /\ s[i] = t[j]
        BY <1>1, <2>2, <4>1
      <4> QED
        BY <1>2, <4>2
    <3> QED
      BY <3>1, <3>2
  <2>4. \A f \in 1..n : \A k \in DOMAIN frames[f] :
            Selected(frames[f]) /\ Matches(frames[f][k]) =>
               \E i \in DOMAIN s : s[i] = frames[f][k]
    <3> SUFFICES ASSUME NEW f \in 1..n, NEW k \in DOMAIN frames[f],
                        Selected(frames[f]), Matches(frames[f][k])
                 PROVE  \E i \in DOMAIN s : s[i] = frames[f][k]
      OBVIOUS
    <3>1. CASE f = n
      <4>1. PICK j \in DOMAIN t : t[j] = frames[n][k]
        BY <1>2, <3>1
      <4>2. Len(r) + j \in DOMAIN s /\ s[Len(r) + j] = frames[f][k]
        BY <2>2, <3>1, <4>1
      <4> QED
        BY <4>2
    <3>2. CASE f # n
      <4>1. f \in 1..(n - 1)
        BY <1>1, <3>2
      <4>2. PICK i \in DOMAIN r : r[i] = frames[f][k]
        BY <4>1 DEF FoundUpTo
      <4> QED
        BY <2>2, <4>2
    <3> QED
      BY <3>1, <3>2
  <2>5. ASSUME Disjoint(frames) PROVE Distinct(s)
    <3>1. Distinct(r) /\ Distinct(t)
      BY <1>1, <1>2, <2>5 DEF Disjoint
    <3>2. \A i \in DOMAIN r : \A j \in DOMAIN t : r[i].val # t[j].val
      <4> SUFFICES ASSUME NEW i \in DOMAIN r, NEW j \in DOMAIN t PROVE r[i].val # t[j].val
        OBVIOUS
      <4>1. PICK f \in 1..(n - 1) : \E k \in DOMAIN frames[f] : r[i] = frames[f][k]
        BY DEF FoundUpTo
      <4>2. PICK k \in DOMAIN frames[f] : r[i] = frames[f][k]
        BY <4>1
      <4>3. PICK h \in DOMAIN frames[n] : t[j] = frames[n][h]
        BY <1>2
      <4> QED
        BY <1>1, <2>5, <4>2, <4>3 DEF Disjoint
    <3> QED
      BY <1>2, <2>1, <3>1, <3>2, JoinedDistinct
  <2> QED
    BY <2>2, <2>3, <2>4, <2>5 DEF FoundUpTo
<1> QED
  BY <1>3, <1>4


LEMMA FoundIs ==
    ASSUME NEW frames \in Seq(Seq(Event))
    PROVE  /\ FoundUpTo(frames, Len(frames), FoundIn(frames))
           /\ Disjoint(frames) => Distinct(FoundIn(frames))
<1> DEFINE n    == Len(frames)
           S    == Seq(Event)
           init == <<>>
           step == [k \in 1..n |-> [t \in S |-> IF Selected(frames[k])
                                                THEN t \o Matching(frames[k]) ELSE t]]
           Def(t) == [f \in 0..n |-> IF f = 0 THEN <<>>
                                     ELSE IF Selected(frames[f])
                                          THEN t[f - 1] \o Matching(frames[f])
                                          ELSE t[f - 1]]
           s    == CHOOSE t : t = Def(t)
<1>1. n \in Nat /\ \A k \in 1..n : frames[k] \in Seq(Event)
  OBVIOUS
<1>2. \A k \in 1..n : Matching(frames[k]) \in S
  BY <1>1, MatchingIs
<1>3. \A k \in 1..n : \A t \in S : t \o Matching(frames[k]) \in S
  BY <1>2
<1>4. /\ init \in S /\ step \in [1..n -> [S -> S]]
      /\ \A k \in 1..n : \A t \in S :
            step[k][t] = IF Selected(frames[k]) THEN t \o Matching(frames[k]) ELSE t
  BY <1>3
<1> HIDE DEF step, n, S
<1>5. PICK t : Recursive(t, n, S, init, step)
  <2> HIDE DEF init
  <2> QED
    BY <1>1, <1>4, Recursion
<1>6. t \in [0..n -> S] /\ \A k \in 0..n : t[k] = IF k = 0 THEN <<>> ELSE step[k][t[k - 1]]
  BY <1>5 DEF Recursive
<1>7. \A k \in 0..n : k = 0 \/ (k \in 1..n /\ t[k - 1] \in S)
  BY <1>1, <1>6
<1>8. t = Def(t)
  BY <1>4, <1>6, <1>7
<1>9. s = Def(s)
  BY <1>8
<1>10. FoundIn(frames) = s[n]
  BY DEF FoundIn, n
<1>11. /\ s[0] = <<>>
       /\ \A k \in 1..n : s[k] = IF Selected(frames[k]) THEN s[k - 1] \o Matching(frames[k])
                                 ELSE s[k - 1]
  <2> HIDE DEF s
  <2>1. \A k \in 0..n : s[k] = Def(s)[k]
    BY <1>9
  <2>2. \A k \in 1..n : k \in 0..n /\ k # 0
    BY <1>1
  <2>3. 0 \in 0..n
    BY <1>1
  <2> QED
    BY <2>1, <2>2, <2>3
<1> HIDE DEF s
<1> DEFINE Ok(m) == FoundUpTo(frames, m, s[m]) /\ (Disjoint(frames) => Distinct(s[m]))
           bad   == {m \in 0..n : ~Ok(m)}
<1>12. bad = {}
  <2> SUFFICES ASSUME bad # {} PROVE FALSE
    OBVIOUS
  <2>1. bad \subseteq Nat
    OBVIOUS
  <2> HIDE DEF bad
  <2>2. PICK m \in bad : \A k \in bad : m <= k
    BY <2>1, Smallest
  <2>3. m \in 0..n
    BY <2>2 DEF bad
  <2>4. Ok(0)
    BY <1>11 DEF FoundUpTo, Distinct
  <2>5. m \in 1..n /\ m - 1 \in 0..n /\ m - 1 \notin bad
    BY <1>1, <2>2, <2>3, <2>4 DEF bad
  <2>6. Ok(m - 1)
    BY <2>5 DEF bad
  <2>7. m \in 1..Len(frames)
    BY <2>5 DEF n
  <2>8. s[m] = IF Selected(frames[m]) THEN s[m - 1] \o Matching(frames[m]) ELSE s[m - 1]
    BY <1>11, <2>5
  <2>9. Ok(m)
    BY <2>6, <2>7, <2>8, FoundMore
  <2> QED
    BY <2>2, <2>9 DEF bad
<1>13. n \in 0..n
  BY <1>1
<1>14. Ok(n)
  BY <1>12, <1>13
<1> QED
  BY <1>10, <1>14 DEF n


LEMMA NextPartIs ==
    ASSUME TypeOK, query.parts # {}
    PROVE  NextPart(query.parts) \in query.parts /\ NextPart(query.parts) \in Partition
<1>1. query.parts \subseteq Partition /\ Partition \subseteq Nat
  BY EventAssumption DEF TypeOK, Partition, Range
<1>2. \E p \in query.parts : \A r \in query.parts : p <= r
  BY <1>1, Smallest
<1> QED
  BY <1>1, <1>2 DEF NextPart

LEMMA CallEventTypes ==
    ASSUME TypeOK, HandlerOK, Adding
    PROVE  /\ CallEvent \in Event /\ PartOf[call.ts] \in Partition
           /\ call.ts \in Timestamp /\ call.ts \in Nat
           /\ CallEvent.ts = call.ts /\ CallEvent.val = call.val
           /\ CallEvent.id = catalog[call.name].id
<1>1. call.name \in EventName /\ call.ts \in Timestamp /\ call.val \in Nat
  BY DEF TypeOK, HandlerOK
<1>2. catalog[call.name] \in Entry /\ catalog[call.name].id # 0
  BY <1>1 DEF TypeOK, HandlerOK, Known
<1>3. catalog[call.name].id \in EventID
  BY <1>2 DEF Entry
<1> QED
  BY <1>1, <1>3, EventAssumption DEF CallEvent, Event, Partition, Range

LEMMA CallRecordTypes ==
    ASSUME TypeOK, HandlerOK, Adding
    PROVE  CallRecord \in Record /\ CallRecord.event = CallEvent
<1>1. CallEvent \in Event
  BY CallEventTypes
<1>2. call.name \in EventName \cup {NoName} /\ call.type \in ValueType
  BY DEF TypeOK
<1> QED
  BY <1>1, <1>2 DEF CallRecord, Record

LEMMA EntriesFinite ==
    ASSUME NEW c, c \in [EventName -> Entry]
    PROVE  IsFiniteSet(Entries(c)) /\ Cardinality(Entries(c)) \in Nat
<1>1. Entries(c) \subseteq EventName
  BY DEF Entries
<1>2. IsFiniteSet(Entries(c))
  BY <1>1, EventAssumption, FS_Subset
<1> QED
  BY <1>2, FS_CardinalityType

LEMMA NextIDTypes ==
    ASSUME TypeOK, NEW n \in EventName, NEW t, ~Refused(n, t), ~Known(n)
    PROVE  NextEventID \in EventID /\ NextEventID \in Nat /\ NextEventID # 0
<1>1. catalog \in [EventName -> Entry]
  BY DEF TypeOK
<1>2. Cardinality(Entries(catalog)) \in Nat
  BY <1>1, EntriesFinite
<1>3. ~(Cardinality(Entries(catalog)) >= MaxEvents)
  BY DEF Refused
<1> QED
  BY <1>2, <1>3, EventAssumption DEF NextEventID, EventID

LEMMA BeginAddTypes ==
    ASSUME TypeOK, NEW n \in EventName, NEW t \in ValueType, NEW ts \in Timestamp,
           BeginAdd(n, t, ts)
    PROVE  TypeOK' /\ catalog'[n].id # 0
<1>a. calls \in Nat /\ calls' = calls + 1 /\ calls' \in Nat
  BY DEF TypeOK, BeginAdd
<1>b. call' \in [op : {"none", "add", "flush", "close"}, name : EventName \cup {NoName},
                 type : ValueType, ts : Timestamp \cup {0}, val : Nat, fresh : BOOLEAN]
  BY <1>a DEF BeginAdd, Known
<1>c. /\ latest' \in [Partition -> Timestamp \cup {0}] /\ newest' \subseteq Nat
      /\ behind' \subseteq Nat
  <2>0. behind' = behind \/ behind' = behind \cup {calls + 1}
    BY DEF BeginAdd
  <2>1. \/ /\ latest' = [latest EXCEPT ![PartOf[ts]] = ts]
           /\ newest' = newest \/ newest' = newest \cup {calls + 1}
        \/ UNCHANGED <<latest, newest>>
    BY DEF BeginAdd
  <2>2. /\ latest \in [Partition -> Timestamp \cup {0}] /\ newest \subseteq Nat
        /\ behind \subseteq Nat
    BY DEF TypeOK
  <2>3. latest' \in [Partition -> Timestamp \cup {0}]
    BY <2>1, <2>2
  <2>4. newest' \subseteq Nat /\ behind' \subseteq Nat
    BY <1>a, <2>0, <2>1, <2>2
  <2> QED
    BY <2>3, <2>4
<1>d. /\ pc' = "append"
      /\ UNCHANGED <<disk, lastTS, page, sized, flushing, query, limit, answered, unnamed,
                     crashes, faults, queries>>
  BY DEF BeginAdd
<1>1. CASE Known(n)
  <2>1. UNCHANGED known
    BY <1>1 DEF BeginAdd, Register
  <2>2. catalog'[n].id # 0
    BY <1>1, <2>1 DEF Known
  <2> QED
    BY <1>a, <1>b, <1>c, <1>d, <2>1, <2>2 DEF TypeOK
<1>2. CASE ~Known(n)
  <2>1. NextEventID \in EventID /\ NextEventID # 0
    BY <1>2, NextIDTypes DEF BeginAdd
  <2>2. /\ catalog' = [catalog EXCEPT ![n] = [id |-> NextEventID, type |-> t]]
        /\ idToName' = [idToName EXCEPT ![NextEventID] = n] /\ dirty' = TRUE
    BY <1>2 DEF BeginAdd, Register
  <2>3. [id |-> NextEventID, type |-> t] \in Entry
    BY <2>1 DEF Entry
  <2>4. catalog' \in [EventName -> Entry] /\ catalog'[n].id # 0
    BY <2>1, <2>2, <2>3 DEF TypeOK
  <2>5. idToName' \in [EventID -> EventName \cup {NoName}]
    BY <2>1, <2>2 DEF TypeOK
  <2> QED
    BY <1>a, <1>b, <1>c, <1>d, <2>2, <2>4, <2>5 DEF TypeOK
<1> QED
  BY <1>1, <1>2

LEMMA ReturnTypes ==
    ASSUME TypeOK, HandlerOK, NEW ok \in BOOLEAN, Return(ok), call.op # "none",
           UNCHANGED query
    PROVE  /\ pc' = "idle" /\ call' = NoCall /\ flushing' = 0
           /\ answered' \subseteq [name : EventName, type : ValueType, ts : Timestamp,
                                   val : Nat, ok : BOOLEAN]
<1>1. Adding => call.name \in EventName /\ call.ts \in Timestamp
  BY DEF HandlerOK
<1>2. call.type \in ValueType /\ call.val \in Nat
  BY DEF TypeOK
<1> QED
  BY <1>1, <1>2 DEF Return, Adding, TypeOK

LEMMA NoCallTypes ==
    /\ NoCall \in [op : {"none", "add", "flush", "close"}, name : EventName \cup {NoName},
                   type : ValueType, ts : Timestamp \cup {0}, val : Nat, fresh : BOOLEAN]
    /\ NoQuery \in [phase : {"none", "files", "pages"}, name : EventName \cup {NoName},
                    from : Timestamp \cup {0}, parts : SUBSET Partition,
                    got : Seq(Event), due : SUBSET Nat]
    /\ NoEntries \in [EventName -> Entry]
    /\ NoPages \in [Partition -> Seq(Event)]
    /\ NoPages \in [Partition -> Seq(Seq(Event))]
    /\ NoIds \in [EventID -> EventName \cup {NoName}]
<1>1. AnyType \in ValueType
  BY EventAssumption DEF AnyType
<1> QED
  BY <1>1 DEF NoCall, NoQuery, NoEntries, NoPages, NoIds, Entry

LEMMA LoseMemoryTypes ==
    ASSUME TypeOK, LoseMemory, catalogFile' \in [EventName -> Entry],
           UNCHANGED log, file' \in [Partition -> Seq(Seq(Event))],
           crashes' \in Nat, faults' \in Nat, UNCHANGED <<given, answered, unnamed, queries>>
    PROVE  TypeOK'
<1>1. /\ wal' \in Seq(Record) /\ torn' \in Nat /\ buried' \in BOOLEAN
      /\ behind' \subseteq Nat /\ unnamed' \in BOOLEAN /\ sized' \in BOOLEAN
  BY DEF TypeOK, LoseMemory
<1>2. /\ limit' \in Limits /\ {calls', queries'} \subseteq Nat /\ newest' \subseteq Nat
      /\ latest' \in [Partition -> Timestamp \cup {0}]
      /\ answered' \subseteq [name : EventName, type : ValueType, ts : Timestamp, val : Nat,
                              ok : BOOLEAN]
  BY DEF TypeOK
<1>3. /\ catalog' = NoEntries /\ idToName' = NoIds /\ dirty' = FALSE
      /\ lastTS' = [n \in EventName |-> 0] /\ page' = NoPages
      /\ pc' = "down" /\ call' = NoCall /\ flushing' = 0 /\ query' = NoQuery
  BY DEF LoseMemory
<1> QED
  BY <1>1, <1>2, <1>3, NoCallTypes DEF TypeOK


LEMMA AskTypes ==
    ASSUME TypeOK, Query
    PROVE  /\ query' \in [phase : {"none", "files", "pages"}, name : EventName \cup {NoName},
                          from : Timestamp \cup {0}, parts : SUBSET Partition,
                          got : Seq(Event), due : SUBSET Nat]
           /\ queries' \in Nat
<1> DEFINE Q == [phase : {"none", "files", "pages"}, name : EventName \cup {NoName},
                 from : Timestamp \cup {0}, parts : SUBSET Partition,
                 got : Seq(Event), due : SUBSET Nat]
<1>1. query \in Q /\ queries \in Nat
  BY DEF TypeOK
<1>2. ASSUME NEW n \in EventName \cup {NoName}, NEW from \in QueryFrom, QueryStart(n, from)
      PROVE  query' \in Q /\ queries' \in Nat
  <2>1. AllStored \subseteq Event
    <3>1. \A p \in Partition : page[p] \in Seq(Event) /\ file[p] \in Seq(Seq(Event))
      BY DEF TypeOK
    <3>2. \A p \in Partition : Range(page[p]) \subseteq Event
      BY <3>1 DEF Range
    <3>3. \A p \in Partition : \A f \in Range(file[p]) : Range(f) \subseteq Event
      <4>1. \A p \in Partition : \A f \in Range(file[p]) : f \in Seq(Event)
        BY <3>1 DEF Range
      <4> QED
        BY <4>1 DEF Range
    <3> QED
      BY <3>2, <3>3 DEF AllStored
  <2>2. \A e \in AllStored : e.val \in Nat
    BY <2>1 DEF Event
  <2> DEFINE asked(e) == e.ts >= from /\ (n = NoName \/ e.id = catalog[n].id)
             parts    == {p \in Partition : file[p] # <<>>}
             due      == {e.val : e \in {e \in AllStored : asked(e)}}
  <2>3. parts \subseteq Partition /\ due \subseteq Nat
    BY <2>2
  <2>4. /\ query' = [phase |-> "files", name |-> n, from |-> from,
                     parts |-> parts, got |-> <<>>, due |-> due]
        /\ queries' = queries + 1
    BY <1>2 DEF QueryStart
  <2> HIDE DEF parts, due
  <2>5. from \in Timestamp
    BY EventAssumption
  <2> QED
    BY <1>1, <2>3, <2>4, <2>5
<1>3. ASSUME ReadFile PROVE query' \in Q
  <2> DEFINE p == NextPart(query.parts)
             found == FoundIn(file[p])
  <2>1. p \in Partition
    BY <1>3, NextPartIs DEF ReadFile
  <2> HIDE DEF p
  <2>2. file[p] \in Seq(Seq(Event))
    BY <2>1 DEF TypeOK
  <2>3. found \in Seq(Event)
    BY <2>2, FoundIs DEF FoundUpTo
  <2>4. query' = [query EXCEPT !.parts = @ \ {p}, !.got = @ \o found]
    BY <1>3 DEF ReadFile, p
  <2> HIDE DEF found
  <2>5. query.got \o found \in Seq(Event)
    BY <1>1, <2>3
  <2> QED
    BY <1>1, <2>4, <2>5
<1>4. ASSUME ReadPage PROVE query' \in Q
  <2> DEFINE p == NextPart(query.parts)
             found == Matching(page[p])
  <2>1. p \in Partition
    BY <1>4, NextPartIs DEF ReadPage
  <2> HIDE DEF p
  <2>2. page[p] \in Seq(Event)
    BY <2>1 DEF TypeOK
  <2>3. found \in Seq(Event)
    BY <2>2, MatchingIs
  <2>4. query' = [query EXCEPT !.parts = @ \ {p}, !.got = @ \o found]
    BY <1>4 DEF ReadPage, p
  <2> HIDE DEF found
  <2>5. query.got \o found \in Seq(Event)
    BY <1>1, <2>3
  <2> QED
    BY <1>1, <2>4, <2>5
<1>5. ASSUME FilesRead PROVE query' \in Q
  <2>1. {p \in Partition : page[p] # <<>>} \subseteq Partition
    OBVIOUS
  <2> QED
    BY <1>1, <1>5, <2>1 DEF FilesRead
<1>6. ASSUME QueryReturn PROVE query' \in Q
  BY <1>6, NoCallTypes DEF QueryReturn
<1>7. ReadFile \/ FilesRead \/ ReadPage \/ QueryReturn => queries' = queries
  BY DEF ReadFile, FilesRead, ReadPage, QueryReturn
<1> QED
  BY <1>1, <1>2, <1>3, <1>4, <1>5, <1>6, <1>7 DEF Query

LEMMA QueryFrame ==
    ASSUME Query
    PROVE  UNCHANGED <<disk, memory, pc, call, flushing, given, answered, unnamed, crashes, faults>>
  BY DEF Query, QueryStart, ReadFile, FilesRead, ReadPage, QueryReturn


LEMMA QueryTypes ==
    ASSUME TypeOK, HandlerOK, Query
    PROVE  TypeOK' /\ HandlerOK'
<1>1. UNCHANGED <<disk, memory, pc, call, flushing, given, answered, unnamed, crashes, faults>>
  BY QueryFrame
<1>2. TypeOK'
  <2>1. /\ query' \in [phase : {"none", "files", "pages"}, name : EventName \cup {NoName},
                       from : Timestamp \cup {0}, parts : SUBSET Partition,
                       got : Seq(Event), due : SUBSET Nat]
        /\ queries' \in Nat
    BY AskTypes
  <2> QED
    BY <1>1, <2>1 DEF TypeOK
<1>3. HandlerOK'
  BY <1>1 DEF HandlerOK, Adding, Known, Frames
<1> QED
  BY <1>2, <1>3

\* Appending to page p, or to the file of p.
LEMMA PageGrows ==
    ASSUME TypeOK, NEW p \in Partition, NEW e \in Event,
           page' = [page EXCEPT ![p] = Append(@, e)]
    PROVE  /\ page' \in [Partition -> Seq(Event)] /\ page'[p] # <<>>
           /\ \A q \in Partition : Paged(q)' = IF q = p THEN Paged(q) \cup {e} ELSE Paged(q)
<1>1. page[p] \in Seq(Event) /\ page'[p] = Append(page[p], e)
  BY DEF TypeOK
<1>2. /\ Append(page[p], e) \in Seq(Event) /\ Append(page[p], e) # <<>>
      /\ DOMAIN Append(page[p], e) = DOMAIN page[p] \cup {Len(page[p]) + 1}
      /\ Append(page[p], e)[Len(page[p]) + 1] = e
      /\ \A k \in DOMAIN page[p] : Append(page[p], e)[k] = page[p][k]
  BY <1>1, AppendElements
<1>3. page' \in [Partition -> Seq(Event)]
  BY <1>1, <1>2 DEF TypeOK
<1>4. Paged(p)' = {page'[p][k] : k \in DOMAIN page'[p]}
  BY DEF Paged
<1>5. Paged(p)' = Paged(p) \cup {e}
  <2>1. \A x \in Paged(p)' : x \in Paged(p) \cup {e}
    BY <1>1, <1>2, <1>4 DEF Paged
  <2>2. \A x \in Paged(p) : x \in Paged(p)'
    BY <1>1, <1>2, <1>4 DEF Paged
  <2>3. e \in Paged(p)'
    BY <1>1, <1>2, <1>4
  <2> QED
    BY <2>1, <2>2, <2>3
<1>6. \A q \in Partition : q # p => Paged(q)' = Paged(q)
  BY DEF Paged, TypeOK
<1> QED
  BY <1>1, <1>2, <1>3, <1>5, <1>6

LEMMA FileGrows ==
    ASSUME TypeOK, NEW p \in Partition, page[p] # <<>>, Frames,
           file' = [file EXCEPT ![p] = Append(@, page[p])]
    PROVE  /\ file' \in [Partition -> Seq(Seq(Event))] /\ Frames'
           /\ \A q \in Partition :
                 Filed(q)' = IF q = p THEN Filed(q) \cup Paged(q) ELSE Filed(q)
<1> DEFINE fs == file[p]
           gs == file'[p]
<1>1. fs \in Seq(Seq(Event)) /\ page[p] \in Seq(Event) /\ gs = Append(fs, page[p])
  BY DEF TypeOK
<1>2. /\ gs \in Seq(Seq(Event))
      /\ DOMAIN gs = DOMAIN fs \cup {Len(fs) + 1}
      /\ gs[Len(fs) + 1] = page[p]
      /\ \A k \in DOMAIN fs : gs[k] = fs[k]
  BY <1>1, AppendElements
<1>3. file' \in [Partition -> Seq(Seq(Event))]
  BY <1>1, <1>2 DEF TypeOK
<1>4. Frames'
  <2> SUFFICES ASSUME NEW q \in Partition, NEW f \in DOMAIN file'[q]
               PROVE  file'[q][f] # <<>>
    BY DEF Frames
  <2>1. CASE q = p
    BY <1>1, <1>2, <2>1 DEF Frames
  <2>2. CASE q # p
    BY <2>2 DEF Frames, TypeOK
  <2> QED
    BY <2>1, <2>2
<1>5. /\ Filed(p)' = UNION {{gs[f][k] : k \in DOMAIN gs[f]} : f \in DOMAIN gs}
      /\ Filed(p) = UNION {{fs[f][k] : k \in DOMAIN fs[f]} : f \in DOMAIN fs}
  BY DEF Filed
<1> HIDE DEF gs, fs
<1>6. Filed(p)' = Filed(p) \cup Paged(p)
  <2>1. ASSUME NEW x \in Filed(p)' PROVE x \in Filed(p) \cup Paged(p)
    <3>1. PICK f \in DOMAIN gs : x \in {gs[f][k] : k \in DOMAIN gs[f]}
      BY <1>5
    <3> QED
      BY <1>2, <1>5, <3>1 DEF Paged
  <2>2. ASSUME NEW x \in Filed(p) PROVE x \in Filed(p)'
    <3>1. PICK f \in DOMAIN fs : x \in {fs[f][k] : k \in DOMAIN fs[f]}
      BY <1>5
    <3>2. f \in DOMAIN gs /\ x \in {gs[f][k] : k \in DOMAIN gs[f]}
      BY <1>2, <3>1
    <3> QED
      BY <1>5, <3>2
  <2>3. ASSUME NEW x \in Paged(p) PROVE x \in Filed(p)'
    <3>1. Len(fs) + 1 \in DOMAIN gs
          /\ x \in {gs[Len(fs) + 1][k] : k \in DOMAIN gs[Len(fs) + 1]}
      BY <1>2, <2>3 DEF Paged
    <3> QED
      BY <1>5, <3>1
  <2> QED
    BY <2>1, <2>2, <2>3
<1>7. \A q \in Partition : q # p => Filed(q)' = Filed(q)
  BY DEF Filed, TypeOK
<1> QED
  BY <1>3, <1>4, <1>6, <1>7

LEMMA LogGrows ==
    ASSUME TypeOK, NEW r \in Record, wal' = Append(wal, r)
    PROVE  wal' \in Seq(Record) /\ Logged' = Logged \cup {r.event}
<1>1. wal \in Seq(Record)
  BY DEF TypeOK
<1>2. /\ wal' \in Seq(Record)
      /\ DOMAIN wal' = DOMAIN wal \cup {Len(wal) + 1}
      /\ wal'[Len(wal) + 1] = r
      /\ \A k \in DOMAIN wal : wal'[k] = wal[k]
  BY <1>1, AppendElements
<1>3. Logged' = {wal'[k].event : k \in DOMAIN wal'}
  BY DEF Logged
<1>4. \A x \in Logged' : x \in Logged \cup {r.event}
  BY <1>2, <1>3 DEF Logged
<1>5. \A x \in Logged : x \in Logged'
  BY <1>2, <1>3 DEF Logged
<1>6. r.event \in Logged'
  BY <1>2, <1>3
<1> QED
  BY <1>2, <1>4, <1>5, <1>6


\* The record completed is the call's; with another torn one before it, it is not read.
LEMMA CompleteTypes ==
    ASSUME TypeOK, HandlerOK, Adding, pc = "payload", Complete
    PROVE  /\ wal' \in Seq(Record) /\ torn' \in Nat /\ buried' \in BOOLEAN
           /\ sized' \in BOOLEAN
<1>1. torn \in Nat /\ torn > 0 /\ buried \in BOOLEAN /\ wal \in Seq(Record)
  BY DEF TypeOK, HandlerOK
<1>2. torn' \in Nat /\ sized' \in BOOLEAN
  BY <1>1 DEF Complete
<1>3. wal' = Append(wal, CallRecord) \/ wal' = wal
  BY DEF Complete
<1>4. wal' \in Seq(Record)
  BY <1>1, <1>3, CallRecordTypes, LogGrows
<1>5. buried' \in BOOLEAN
  BY <1>1 DEF Complete
<1> QED
  BY <1>2, <1>4, <1>5

LEMMA WriteTypes ==
    ASSUME TypeOK, HandlerOK, Write
    PROVE  TypeOK' /\ HandlerOK'
<1> USE DEF Adding
<1>1. CASE Open
  <2>1. TypeOK'
    BY <1>1, OpenTypes
  <2>2. HandlerOK'
    BY <1>1 DEF Open, HandlerOK, Frames, NoCall
  <2> QED
    BY <2>1, <2>2
<1>2. CASE OpenFails
  BY <1>2, QueryFrame DEF OpenFails, TypeOK, HandlerOK, Known, Frames
<1>3. ASSUME NEW n \in EventName, NEW t \in ValueType, NEW ts \in Timestamp, BeginAdd(n, t, ts)
      PROVE  TypeOK' /\ HandlerOK'
  <2>1. TypeOK' /\ catalog'[n].id # 0
    BY <1>3, BeginAddTypes
  <2>2. HandlerOK'
    BY <1>3, <2>1 DEF BeginAdd, HandlerOK, Known, Frames
  <2> QED
    BY <2>1, <2>2
<1>4. CASE WriteLength
  <2>1. torn' \in Nat /\ torn' > 0
    BY <1>4 DEF WriteLength, TypeOK
  <2> QED
    BY <1>4, <2>1 DEF WriteLength, TypeOK, HandlerOK, Known, Frames
<1>a. CASE WritePayload
  <2>1. Adding /\ pc = "payload" /\ Complete
    BY <1>a DEF WritePayload, HandlerOK
  <2>2. wal' \in Seq(Record) /\ torn' \in Nat /\ buried' \in BOOLEAN /\ sized' \in BOOLEAN
    BY <2>1, CompleteTypes
  <2> QED
    BY <1>a, <2>1, <2>2 DEF WritePayload, TypeOK, HandlerOK, Known, Frames
<1>5. CASE AppendFails
  <2>1. wal' \in Seq(Record) /\ torn' \in Nat /\ buried' \in BOOLEAN /\ sized' \in BOOLEAN
        /\ unnamed' \in BOOLEAN
    <3>1. CASE UNCHANGED <<log, sized>>
      BY <1>5, <3>1 DEF AppendFails, TypeOK
    <3>2. CASE torn' = torn + 1 /\ UNCHANGED <<wal, buried, sized>>
      BY <1>5, <3>2 DEF AppendFails, TypeOK
    <3>3. CASE pc = "payload" /\ Complete
      BY <1>5, <3>3, CompleteTypes DEF AppendFails, TypeOK, HandlerOK
    <3> QED
      BY <1>5, <3>1, <3>2, <3>3 DEF AppendFails
  <2>2. /\ pc' = "idle" /\ call' = NoCall /\ flushing' = 0
        /\ answered' \subseteq [name : EventName, type : ValueType, ts : Timestamp,
                                val : Nat, ok : BOOLEAN]
    BY <1>5, ReturnTypes DEF AppendFails, HandlerOK
  <2>3. faults' \in Nat
    BY <1>5 DEF AppendFails, TypeOK
  <2>4. TypeOK'
    BY <1>5, <2>1, <2>2, <2>3, NoCallTypes DEF AppendFails, TypeOK
  <2>5. HandlerOK'
    BY <1>5, <2>2 DEF AppendFails, HandlerOK, NoCall, Frames
  <2> QED
    BY <2>4, <2>5
<1>6. CASE AddToPage
  <2> DEFINE p == PartOf[call.ts]
  <2>1. Adding /\ CallEvent \in Event /\ p \in Partition /\ call.ts \in Timestamp
    BY <1>6, CallEventTypes DEF AddToPage, HandlerOK
  <2>2. page' = [page EXCEPT ![p] = Append(@, CallEvent)]
    BY <1>6 DEF AddToPage
  <2>3. page' \in [Partition -> Seq(Event)] /\ page'[p] # <<>>
    BY <2>1, <2>2, PageGrows
  <2>4. lastTS' \in [EventName -> Timestamp \cup {0}]
    <3> DEFINE who == idToName[CallEvent.id]
    <3>1. lastTS' = [lastTS EXCEPT ![who] = IF call.ts >= lastTS[who] THEN call.ts
                                            ELSE lastTS[who]]
      BY <1>6 DEF AddToPage
    <3> HIDE DEF who
    <3> QED
      BY <2>1, <3>1 DEF TypeOK
  <2>5. UNCHANGED <<disk, known, sized, query, given, unnamed, crashes, faults, queries>>
    BY <1>6 DEF AddToPage
  <2>6. CASE Return(TRUE)
    <3>1. /\ pc' = "idle" /\ call' = NoCall /\ flushing' = 0
          /\ answered' \subseteq [name : EventName, type : ValueType, ts : Timestamp,
                                  val : Nat, ok : BOOLEAN]
      BY <2>1, <2>5, <2>6, ReturnTypes
    <3>2. TypeOK'
      BY <2>3, <2>4, <2>5, <3>1, NoCallTypes DEF TypeOK
    <3>3. HandlerOK'
      BY <2>5, <3>1 DEF HandlerOK, NoCall, Frames
    <3> QED
      BY <3>2, <3>3
  <2>7. CASE pc' = "flush" /\ flushing' = p /\ UNCHANGED <<call, answered>>
    <3>1. TypeOK'
      BY <2>1, <2>3, <2>4, <2>5, <2>7 DEF TypeOK
    <3>2. HandlerOK'
      BY <2>1, <2>3, <2>5, <2>7 DEF HandlerOK, Known, Frames
    <3> QED
      BY <3>1, <3>2
  <2> QED
    BY <1>6, <2>6, <2>7 DEF AddToPage
<1>7. ASSUME NEW op \in {"flush", "close"}, BeginDrain(op) PROVE TypeOK' /\ HandlerOK'
  <2>1. call' = [NoCall EXCEPT !.op = op] /\ call'.op = op
    BY <1>7 DEF BeginDrain, NoCall
  <2>2. call' \in [op : {"none", "add", "flush", "close"}, name : EventName \cup {NoName},
                   type : ValueType, ts : Timestamp \cup {0}, val : Nat, fresh : BOOLEAN]
    BY <2>1, NoCallTypes
  <2> QED
    BY <1>7, <2>1, <2>2 DEF BeginDrain, TypeOK, HandlerOK, Known, Frames
<1>8. ASSUME NEW p \in Partition, DrainPage(p) PROVE TypeOK' /\ HandlerOK'
  BY <1>8 DEF DrainPage, TypeOK, HandlerOK, Known, Frames
<1>9. CASE DrainDone
  BY <1>9 DEF DrainDone, TypeOK, HandlerOK, Known, Frames
<1>10. CASE AppendFrame
  <2>1. /\ pc = "flush" /\ flushing \in Partition /\ page[flushing] # <<>>
        /\ file' = [file EXCEPT ![flushing] = Append(@, page[flushing])]
        /\ Frames
    BY <1>10 DEF AppendFrame, HandlerOK
  <2>2. file' \in [Partition -> Seq(Seq(Event))] /\ Frames'
    BY <2>1, FileGrows
  <2>3. page' \in [Partition -> Seq(Event)]
    <3>1. page' = [page EXCEPT ![flushing] = <<>>] /\ page \in [Partition -> Seq(Event)]
      BY <1>10 DEF AppendFrame, TypeOK
    <3>2. <<>> \in Seq(Event)
      OBVIOUS
    <3> QED
      BY <3>1, <3>2
  <2>4. query' \in [phase : {"none", "files", "pages"}, name : EventName \cup {NoName},
                    from : Timestamp \cup {0}, parts : SUBSET Partition,
                    got : Seq(Event), due : SUBSET Nat]
    <3> DEFINE gone == {e.val : e \in Range(page[flushing])}
    <3>1. query' = [query EXCEPT !.due = @ \ gone]
      BY <1>10 DEF AppendFrame
    <3> HIDE DEF gone
    <3> QED
      BY <3>1 DEF TypeOK
  <2>5. TypeOK'
    BY <1>10, <2>2, <2>3, <2>4 DEF AppendFrame, TypeOK
  <2>6. HandlerOK'
    BY <1>10, <2>1, <2>2 DEF AppendFrame, HandlerOK, Known, TypeOK
  <2> QED
    BY <2>5, <2>6
<1>11. CASE KeepWAL \/ ResetWAL
  <2>1. /\ pc = "reset" /\ call.op # "none" /\ wal' \in Seq(Record) /\ torn' \in Nat
        /\ buried' \in BOOLEAN /\ sized' \in BOOLEAN
        /\ ~Adding => page = NoPages
        /\ UNCHANGED <<file, catalogFile, known, lastTS, page, query, given, unnamed, crashes,
                       faults, queries>>
    <3>1. \/ wal' = wal /\ torn' = torn /\ buried' = buried /\ sized' = sized
          \/ wal' = <<>> /\ torn' = 0 /\ buried' = FALSE /\ sized' = FALSE
      BY <1>11 DEF KeepWAL, ResetWAL
    <3>2. wal' \in Seq(Record) /\ torn' \in Nat /\ buried' \in BOOLEAN /\ sized' \in BOOLEAN
      <4>1. wal \in Seq(Record) /\ torn \in Nat /\ buried \in BOOLEAN /\ sized \in BOOLEAN
        BY DEF TypeOK
      <4>2. CASE wal' = wal /\ torn' = torn /\ buried' = buried /\ sized' = sized
        BY <4>1, <4>2
      <4>3. CASE wal' = <<>> /\ torn' = 0 /\ buried' = FALSE /\ sized' = FALSE
        <5>1. <<>> \in Seq(Record)
          OBVIOUS
        <5>2. 0 \in Nat /\ FALSE \in BOOLEAN
          OBVIOUS
        <5> QED
          BY <4>3, <5>1, <5>2, Zenon
      <4> QED
        BY <3>1, <4>2, <4>3
    <3> QED
      BY <1>11, <3>2 DEF KeepWAL, ResetWAL, HandlerOK
  <2>2. CASE call.op = "close"
    <3>1. pc' = "persist" /\ UNCHANGED <<call, flushing, answered>>
      BY <1>11, <2>2 DEF KeepWAL, ResetWAL, AfterReset
    <3>2. TypeOK'
      BY <2>1, <3>1 DEF TypeOK
    <3>3. HandlerOK'
      BY <2>1, <2>2, <3>1 DEF HandlerOK, Known, Frames
    <3> QED
      BY <3>2, <3>3
  <2>3. CASE call.op # "close"
    <3>1. Return(TRUE)
      BY <1>11, <2>3 DEF KeepWAL, ResetWAL, AfterReset
    <3>2. /\ pc' = "idle" /\ call' = NoCall /\ flushing' = 0
          /\ answered' \subseteq [name : EventName, type : ValueType, ts : Timestamp,
                                  val : Nat, ok : BOOLEAN]
      BY <2>1, <3>1, ReturnTypes
    <3>3. TypeOK'
      <4>1. /\ UNCHANGED <<catalogFile, known, lastTS, page, query, given, crashes, faults,
                           queries, file, unnamed>>
            /\ wal' \in Seq(Record) /\ torn' \in Nat /\ buried' \in BOOLEAN
            /\ sized' \in BOOLEAN
        BY <2>1
      <4>2. call' = NoCall /\ NoCall \in [op : {"none", "add", "flush", "close"},
                 name : EventName \cup {NoName}, type : ValueType,
                 ts : Timestamp \cup {0}, val : Nat, fresh : BOOLEAN]
        BY <3>2, NoCallTypes
      <4> QED
        BY <3>2, <4>1, <4>2 DEF TypeOK
    <3>4. HandlerOK'
      BY <2>1, <3>2 DEF HandlerOK, NoCall, Frames
    <3> QED
      BY <3>3, <3>4
  <2> QED
    BY <2>2, <2>3
<1>12. CASE CatalogBeforeReset
  <2>1. /\ catalogFile' = catalog /\ dirty' = FALSE
        /\ UNCHANGED <<log, file, catalog, idToName, lastTS, page, sized, pc, call, flushing,
                       query, history>>
    BY <1>12 DEF CatalogBeforeReset
  <2>2. TypeOK'
    <3>1. /\ {catalog', catalogFile'} \subseteq [EventName -> Entry] /\ dirty' \in BOOLEAN
          /\ idToName' \in [EventID -> EventName \cup {NoName}]
      BY <2>1 DEF TypeOK
    <3>2. /\ wal' = wal /\ torn' = torn /\ buried' = buried /\ sized' = sized
          /\ UNCHANGED <<file, lastTS, page, pc, call, flushing, query>>
          /\ UNCHANGED <<limit, calls, latest, newest, behind>>
          /\ UNCHANGED <<answered, unnamed, crashes, faults, queries>>
      BY <2>1
    <3> QED
      BY <3>1, <3>2 DEF TypeOK
  <2>3. HandlerOK'
    BY <2>1 DEF HandlerOK, Known, Frames
  <2> QED
    BY <2>2, <2>3
<1>13. CASE PersistCatalog
  <2>1. catalogFile' \in [EventName -> Entry]
    BY <1>13 DEF PersistCatalog, TypeOK
  <2>2. TypeOK'
    BY <1>13, <2>1, LoseMemoryTypes DEF PersistCatalog, TypeOK
  <2>3. HandlerOK'
    BY <1>13 DEF PersistCatalog, LoseMemory, HandlerOK, NoCall, Frames
  <2> QED
    BY <2>2, <2>3
<1>14. CASE WriteFails
  <2>1. faults' \in Nat /\ faults' = faults + 1 /\ faults \in Nat
    BY <1>14 DEF WriteFails, TypeOK
  <2>2. file' \in [Partition -> Seq(Seq(Event))] /\ Frames'
    <3>1. CASE file' = file
      BY <3>1 DEF TypeOK, HandlerOK, Frames
    <3>2. CASE pc = "flush" /\ file' = [file EXCEPT ![flushing] = Append(@, page[flushing])]
      BY <3>2, FileGrows DEF HandlerOK
    <3> QED
      BY <1>14, <3>1, <3>2 DEF WriteFails
  <2>3. UNCHANGED <<log, catalogFile, given, unnamed, crashes, queries>>
    BY <1>14 DEF WriteFails
  <2>4. CASE pc = "persist"
    <3>1. LoseMemory /\ UNCHANGED answered
      BY <1>14, <2>4 DEF WriteFails
    <3>2. TypeOK'
      BY <2>1, <2>2, <2>3, <3>1, LoseMemoryTypes DEF TypeOK
    <3>3. HandlerOK'
      BY <2>2, <3>1 DEF LoseMemory, HandlerOK, NoCall
    <3> QED
      BY <3>2, <3>3
  <2>5. CASE pc # "persist" /\ call.op = "close"
    <3>1. pc' = "persist" /\ UNCHANGED <<call, flushing, answered, memory, query>>
      BY <1>14, <2>5 DEF WriteFails
    <3>2. TypeOK'
      BY <2>1, <2>2, <2>3, <3>1 DEF TypeOK
    <3>3. HandlerOK'
      BY <2>1, <2>2, <2>3, <2>5, <3>1 DEF HandlerOK, Known
    <3> QED
      BY <3>2, <3>3
  <2>6. CASE pc # "persist" /\ call.op # "close"
    <3>1. Return(FALSE) /\ UNCHANGED <<memory, query>>
      BY <1>14, <2>6 DEF WriteFails
    <3>2. pc \in {"flush", "reset"} /\ call.op # "none"
      BY <1>14, <2>6 DEF WriteFails, HandlerOK
    <3>3. /\ pc' = "idle" /\ call' = NoCall /\ flushing' = 0
          /\ answered' \subseteq [name : EventName, type : ValueType, ts : Timestamp,
                                  val : Nat, ok : BOOLEAN]
      BY <3>1, <3>2, ReturnTypes
    <3>4. TypeOK'
      <4>1. call' = NoCall /\ NoCall \in [op : {"none", "add", "flush", "close"},
                 name : EventName \cup {NoName}, type : ValueType,
                 ts : Timestamp \cup {0}, val : Nat, fresh : BOOLEAN]
        BY <3>3, NoCallTypes
      <4> QED
        BY <2>1, <2>2, <2>3, <3>1, <3>3, <4>1 DEF TypeOK
    <3>5. HandlerOK'
      BY <2>2, <3>3 DEF HandlerOK, NoCall
    <3> QED
      BY <3>4, <3>5
  <2> QED
    BY <2>4, <2>5, <2>6
<1>15. CASE Crash
  <2>1. TypeOK'
    <3>1. /\ LoseMemory /\ UNCHANGED <<disk, given, answered, unnamed, faults, queries>>
          /\ crashes' = crashes + 1
      BY <1>15 DEF Crash
    <3>2. /\ catalogFile' \in [EventName -> Entry] /\ file' \in [Partition -> Seq(Seq(Event))]
          /\ crashes' \in Nat /\ faults' \in Nat /\ UNCHANGED log
      BY <3>1 DEF TypeOK
    <3> QED
      BY <3>1, <3>2, LoseMemoryTypes
  <2>2. HandlerOK'
    BY <1>15 DEF Crash, LoseMemory, HandlerOK, NoCall, Frames
  <2> QED
    BY <2>1, <2>2
<1> QED
  BY <1>1, <1>2, <1>3, <1>4, <1>a, <1>5, <1>6, <1>7, <1>8, <1>9, <1>10, <1>11, <1>12, <1>13,
     <1>14, <1>15 DEF Write


LEMMA TypeInit == Init => TypeOK /\ HandlerOK
<1> SUFFICES ASSUME Init PROVE TypeOK /\ HandlerOK
  OBVIOUS
<1>1. TypeOK
  <2>0. /\ torn \in Nat /\ buried \in BOOLEAN /\ sized \in BOOLEAN
        /\ behind \subseteq Nat /\ unnamed \in BOOLEAN
    BY DEF Init
  <2>1. wal \in Seq(Record) /\ wal = <<>>
    BY DEF Init
  <2>2. latest \in [Partition -> Timestamp \cup {0}] /\ newest \subseteq Nat /\ newest = {}
    BY DEF Init
  <2>3. lastTS \in [EventName -> Timestamp \cup {0}] /\ flushing \in Partition \cup {0}
    BY DEF Init
  <2>4. /\ file \in [Partition -> Seq(Seq(Event))] /\ page \in [Partition -> Seq(Event)]
        /\ {catalog, catalogFile} \subseteq [EventName -> Entry]
        /\ idToName \in [EventID -> EventName \cup {NoName}]
        /\ call \in [op : {"none", "add", "flush", "close"}, name : EventName \cup {NoName},
                     type : ValueType, ts : Timestamp \cup {0}, val : Nat, fresh : BOOLEAN]
        /\ query \in [phase : {"none", "files", "pages"}, name : EventName \cup {NoName},
                      from : Timestamp \cup {0}, parts : SUBSET Partition,
                      got : Seq(Event), due : SUBSET Nat]
    BY NoCallTypes DEF Init
  <2>5. /\ limit \in Limits /\ dirty \in BOOLEAN /\ answered = {} /\ pc = "down"
        /\ calls \in Nat /\ crashes \in Nat /\ faults \in Nat /\ queries \in Nat
    BY DEF Init
  <2> QED
    BY <2>0, <2>1, <2>2, <2>3, <2>4, <2>5 DEF TypeOK
<1>2. HandlerOK
  BY DEF Init, HandlerOK, Adding, NoCall, Frames, NoPages
<1> QED
  BY <1>1, <1>2

LEMMA TypeNext == TypeOK /\ HandlerOK /\ [Next]_vars => TypeOK' /\ HandlerOK'
<1> SUFFICES ASSUME TypeOK, HandlerOK, [Next]_vars PROVE TypeOK' /\ HandlerOK'
  OBVIOUS
<1>1. CASE Write
  BY <1>1, WriteTypes
<1>2. CASE Query
  BY <1>2, QueryTypes
<1>3. CASE UNCHANGED vars
  BY <1>3 DEF TypeOK, HandlerOK, Adding, Known, Frames
<1> QED
  BY <1>1, <1>2, <1>3 DEF Next

\* Every variable has its type in every reachable state.
THEOREM TypeCorrect == Spec => []TypeOK
<1> HIDE DEF Next, Init, vars
<1> QED
  BY TypeInit, TypeNext, PTL DEF Spec


(***************************************************************************)
(* The book of events and calls.                                           *)
(***************************************************************************)
LEMMA EventsTypes ==
    ASSUME TypeOK
    PROVE  /\ Logged \subseteq Event
           /\ \A p \in Partition : Filed(p) \subseteq Event /\ Paged(p) \subseteq Event
           /\ InParts \subseteq Event /\ Events \subseteq Event
           /\ \A e \in Events : /\ e.ts \in Timestamp /\ e.ts \in Nat /\ e.val \in Nat
                                /\ PartAt(e) \in Partition /\ e.id \in EventID
<1>1. Logged \subseteq Event
  BY LogTypes DEF Logged, TypeOK
<1>2. ASSUME NEW p \in Partition PROVE Filed(p) \subseteq Event
  <2>1. \A f \in DOMAIN file[p] : file[p][f] \in Seq(Event)
    BY DEF TypeOK
  <2>2. \A f \in DOMAIN file[p] : \A k \in DOMAIN file[p][f] : file[p][f][k] \in Event
    BY <2>1
  <2> QED
    BY <2>2 DEF Filed
<1>3. ASSUME NEW p \in Partition PROVE Paged(p) \subseteq Event
  <2>1. page[p] \in Seq(Event)
    BY DEF TypeOK
  <2> QED
    BY <2>1 DEF Paged
<1>4. InParts \subseteq Event
  BY <1>2, <1>3 DEF InParts
<1>5. Events \subseteq Event
  BY <1>1, <1>4 DEF Events
<1> QED
  BY <1>1, <1>2, <1>3, <1>4, <1>5, EventParts

LEMMA InPartsIs ==
    /\ \A p \in Partition : \A e \in Filed(p) \cup Paged(p) : e \in InParts
    /\ \A e \in InParts : \E p \in Partition : e \in Filed(p) \cup Paged(p)
  BY DEF InParts

LEMMA SameMoves ==
    /\ wal' = wal => Logged' = Logged
    /\ file' = file => \A p \in Partition : Filed(p)' = Filed(p)
    /\ page' = page => \A p \in Partition : Paged(p)' = Paged(p)
  BY DEF Logged, Filed, Paged

\* The completed record is at the end of the log, or it is behind a torn one.
LEMMA Completed ==
    ASSUME TypeOK, BookOK, pc = "payload", Complete
    PROVE  /\ torn = 1 => /\ torn' = 0 /\ wal' = Append(wal, CallRecord) /\ buried' = buried
                          /\ Logged' = Logged \cup {CallEvent}
           /\ torn # 1 => /\ torn > 1 /\ torn' > 0 /\ wal' = wal /\ Logged' = Logged
                          /\ call.val \in behind
<1>1. torn \in Nat /\ torn > 0 /\ Adding
  BY DEF TypeOK, BookOK, HandlerOK
<1>2. torn' = torn - 1
  BY DEF Complete
<1>3. ASSUME torn = 1
      PROVE  /\ torn' = 0 /\ wal' = Append(wal, CallRecord) /\ buried' = buried
             /\ Logged' = Logged \cup {CallEvent}
  <2>1. wal' = Append(wal, CallRecord) /\ buried' = buried
    BY <1>3 DEF Complete
  <2>2. CallRecord \in Record /\ CallRecord.event = CallEvent
    BY <1>1, CallRecordTypes DEF BookOK
  <2>3. Logged' = Logged \cup {CallRecord.event}
    BY <2>1, <2>2, LogGrows
  <2> QED
    BY <1>1, <1>2, <1>3, <2>1, <2>2, <2>3
<1>4. ASSUME torn # 1
      PROVE  torn > 1 /\ torn' > 0 /\ wal' = wal /\ Logged' = Logged /\ call.val \in behind
  <2>1. wal' = wal
    BY <1>4 DEF Complete
  <2>2. torn > 1 /\ torn' > 0
    BY <1>1, <1>2, <1>4
  <2>3. call.val \in behind
    BY <2>2 DEF BookOK, LogOK
  <2> QED
    BY <2>1, <2>2, <2>3, SameMoves
<1> QED
  BY <1>3, <1>4

\* The event a step adds is the one of the call in progress, stored nowhere before.
Fresh(e) == pc \in {"payload", "page"} /\ e = CallEvent /\ \A g \in Events : g.val # call.val

\* EventsOK and AnswersOK stay when no call begins: an event is stored that was, or
\* it is the call's own.
LEMMA BookKept ==
    ASSUME TypeOK, BookOK, UNCHANGED given,
           \A e \in Events' : e \in Events \/ Fresh(e),
           \A p \in Partition : \A e \in Filed(p)' \cup Paged(p)' : PartAt(e) = p,
           \/ UNCHANGED <<call, answered>>
           \/ ~Adding' /\ answered' = answered
           \/ ~Adding' /\ \E ok \in BOOLEAN : Return(ok)
    PROVE  EventsOK' /\ AnswersOK'
<1> USE DEF BookOK
<1>1. \A e \in Events : e.val \in 1..calls /\ e.ts <= latest[PartAt(e)]
  BY DEF EventsOK
<1>2. /\ calls \in Nat /\ \A e \in Events : e.ts \in Nat /\ e.val \in Nat
      /\ \A a \in answered : a.val \in Nat
  BY EventsTypes DEF TypeOK
<1>3. \A e : Fresh(e) => /\ Adding /\ e = CallEvent /\ e.ts = call.ts /\ e.val = call.val
                          /\ PartAt(e) = PartOf[call.ts]
                          /\ call.val = calls /\ call.val \in 1..calls
                          /\ call.ts <= latest[PartOf[call.ts]]
                          /\ \A g \in Events : g.val # call.val
                          /\ call.ts \in Nat
  BY <1>2, CallEventTypes DEF HandlerOK, CallOK, PartAt, Fresh
<1>a. \A e : Fresh(e) /\ e.val \in newest =>
               pc = "payload" /\ \A g \in Events : PartAt(g) = PartOf[call.ts] => g.ts < call.ts
  <2>1. \A e : Fresh(e) => CallEvent \notin Logged
    BY <1>3 DEF Events
  <2>2. \A e : Fresh(e) /\ pc = "page" => call.val \in behind
    BY <2>1 DEF CallOK
  <2>3. newest \cap behind = {}
    BY DEF LogOK
  <2> QED
    BY <1>3, <2>2, <2>3 DEF CallOK, Fresh
<1> HIDE DEF Fresh
<1>4. EventsOK'
  <2>1. calls' <= limit'.calls /\ newest' \subseteq 1..calls'
    BY DEF EventsOK
  <2>2. \A e \in Events' : e.val \in 1..calls' /\ e.ts <= latest'[PartAt(e)]
    BY <1>1, <1>3
  <2>3. \A e, g \in Events' : e.val = g.val => e = g
    BY <1>3 DEF EventsOK
  <2>4. \A e, g \in Events' :
            PartAt(e) = PartAt(g) /\ g.val < e.val /\ e.val \in newest' => g.ts < e.ts
    <3> SUFFICES ASSUME NEW e \in Events', NEW g \in Events',
                        PartAt(e) = PartAt(g), g.val < e.val, e.val \in newest
                 PROVE  g.ts < e.ts
      OBVIOUS
    <3>1. CASE e \in Events /\ g \in Events
      BY <3>1 DEF EventsOK
    <3>2. CASE Fresh(e) /\ g \in Events
      BY <1>3, <1>a, <3>2
    <3>3. CASE Fresh(g)
      BY <1>1, <1>2, <1>3, <3>3
    <3> QED
      BY <3>1, <3>2, <3>3
  <2> QED
    BY <2>1, <2>2, <2>3, <2>4 DEF EventsOK
<1> DEFINE new(ok) == [name |-> call.name, type |-> call.type, ts |-> call.ts,
                       val |-> call.val, ok |-> ok]
<1>5. \/ answered' = answered
      \/ /\ Adding /\ ~Adding'
         /\ \E ok \in BOOLEAN : answered' = answered \cup {new(ok)}
  BY DEF Return, Adding
<1>6. \A a \in answered' : a \in answered \/ (Adding /\ ~Adding' /\ a.val = call.val
                                              /\ a.ts = call.ts)
  BY <1>5
<1>7. Adding => call.val \in 1..calls
  BY <1>2 DEF CallOK, HandlerOK
<1>8. Adding' => Adding /\ call' = call
  BY DEF Adding
<1>9. AnswersOK'
  <2>1. \A a \in answered' : a.val \in 1..calls' /\ (Adding' => a.val # call'.val)
    BY <1>6, <1>7, <1>8 DEF AnswersOK
  <2>2. \A a, b \in answered' : a.val = b.val => a = b
    <3>1. \A a \in answered : Adding => a.val # call.val
      BY DEF AnswersOK
    <3>2. CASE answered' = answered
      BY <3>2 DEF AnswersOK
    <3>3. ASSUME Adding, NEW ok \in BOOLEAN, answered' = answered \cup {new(ok)}
          PROVE  \A a, b \in answered' : a.val = b.val => a = b
      <4>1. new(ok).val = call.val
        OBVIOUS
      <4> HIDE DEF new
      <4> QED
        BY <3>1, <3>3, <4>1 DEF AnswersOK
    <3> QED
      BY <1>5, <3>2, <3>3
  <2>3. \A a \in answered', e \in Events' : a.val = e.val => a.ts = e.ts
    <3> SUFFICES ASSUME NEW a \in answered', NEW e \in Events', a.val = e.val
                 PROVE  a.ts = e.ts
      OBVIOUS
    <3>1. CASE a \in answered /\ e \in Events
      BY <3>1 DEF AnswersOK
    <3>2. CASE a \in answered /\ e \notin Events
      BY <1>3, <3>2 DEF AnswersOK
    <3>3. CASE a \notin answered /\ e \in Events
      BY <1>6, <3>3 DEF AnswersOK
    <3>4. CASE a \notin answered /\ e \notin Events
      BY <1>3, <1>6, <3>4
    <3> QED
      BY <3>1, <3>2, <3>3, <3>4
  <2>4. \A e \in Events' : Adding' /\ e.val = call'.val => e.ts = call'.ts
    BY <1>3, <1>8 DEF AnswersOK
  <2> QED
    BY <2>1, <2>2, <2>3, <2>4 DEF AnswersOK
<1> QED
  BY <1>4, <1>9


\* What the steps do to the log, the files and the pages.
LEMMA OpenMoves ==
    ASSUME TypeOK, HandlerOK, Open
    PROVE  /\ Logged' = Logged
           /\ \A p \in Partition :
                 /\ Filed(p)' = Filed(p)
                 /\ Paged(p)' = {e \in Logged : PartAt(e) = p /\ ~Durable(e)}
<1>1. Logged' = Logged /\ \A p \in Partition : Filed(p)' = Filed(p)
  BY DEF Open, Logged, Filed
<1>2. ASSUME NEW p \in Partition
      PROVE  Paged(p)' = {e \in Logged : PartAt(e) = p /\ ~Durable(e)}
  <2>1. page'[p] = ReplayedOf(p)
    BY DEF Open
  <2>2. Paged(p)' = {page'[p][k] : k \in DOMAIN page'[p]}
    BY DEF Paged
  <2>3. wal \in Seq(Record)
    BY DEF TypeOK
  <2>4. \A x \in Paged(p)' : x \in Logged /\ PartAt(x) = p /\ ~Durable(x)
    BY <2>1, <2>2, <2>3, Replayed DEF Logged
  <2>5. \A x \in Logged : PartAt(x) = p /\ ~Durable(x) => x \in Paged(p)'
    <3> SUFFICES ASSUME NEW k \in DOMAIN wal, PartAt(wal[k].event) = p,
                        ~Durable(wal[k].event)
                 PROVE  wal[k].event \in Paged(p)'
      BY DEF Logged
    <3>1. PICK i \in DOMAIN ReplayedOf(p) : ReplayedOf(p)[i] = wal[k].event
      BY <2>3, Replayed
    <3> QED
      BY <2>1, <2>2, <3>1
  <2> QED
    BY <2>4, <2>5
<1> QED
  BY <1>1, <1>2

LEMMA NoPagesMoves ==
    /\ page = NoPages => \A p \in Partition : Paged(p) = {}
    /\ page' = NoPages => \A p \in Partition : Paged(p)' = {}
    /\ wal' = <<>> => Logged' = {}
<1>1. \A p \in Partition : NoPages[p] = <<>>
  BY DEF NoPages
<1> QED
  BY <1>1 DEF Paged, Logged

LEMMA FrameMoves ==
    ASSUME TypeOK, HandlerOK, AppendFrame
    PROVE  /\ flushing \in Partition /\ Logged' = Logged
           /\ \A p \in Partition :
                 /\ p = flushing => Filed(p)' = Filed(p) \cup Paged(p) /\ Paged(p)' = {}
                 /\ p # flushing => Filed(p)' = Filed(p) /\ Paged(p)' = Paged(p)
<1>1. /\ flushing \in Partition /\ page[flushing] # <<>> /\ Frames
      /\ file' = [file EXCEPT ![flushing] = Append(@, page[flushing])]
      /\ page' = [page EXCEPT ![flushing] = <<>>] /\ wal' = wal
  BY DEF AppendFrame, HandlerOK
<1>2. \A p \in Partition :
          Filed(p)' = IF p = flushing THEN Filed(p) \cup Paged(p) ELSE Filed(p)
  BY <1>1, FileGrows
<1>3. \A p \in Partition : page'[p] = IF p = flushing THEN <<>> ELSE page[p]
  BY <1>1 DEF TypeOK
<1>4. \A p \in Partition : Paged(p)' = IF p = flushing THEN {} ELSE Paged(p)
  BY <1>3 DEF Paged
<1> QED
  BY <1>1, <1>2, <1>4, SameMoves

\* A failed write leaves the page as it is, and may put it in the file.
LEMMA FailMoves ==
    ASSUME TypeOK, HandlerOK, WriteFails
    PROVE  /\ Logged' = Logged
           /\ \A p \in Partition :
                 /\ Filed(p)' = Filed(p) \/ Filed(p)' = Filed(p) \cup Paged(p)
                 /\ Paged(p)' = IF pc = "persist" THEN {} ELSE Paged(p)
<1>1. wal' = wal /\ page' = IF pc = "persist" THEN NoPages ELSE page
  BY DEF WriteFails, LoseMemory
<1>2. ASSUME NEW p \in Partition
      PROVE  Filed(p)' = Filed(p) \/ Filed(p)' = Filed(p) \cup Paged(p)
  <2>1. CASE file' = file
    BY <2>1, SameMoves
  <2>2. CASE pc = "flush" /\ file' = [file EXCEPT ![flushing] = Append(@, page[flushing])]
    <3>1. Filed(p)' = IF p = flushing THEN Filed(p) \cup Paged(p) ELSE Filed(p)
      BY <2>2, FileGrows DEF HandlerOK
    <3> QED
      BY <3>1
  <2> QED
    BY <2>1, <2>2 DEF WriteFails
<1> QED
  BY <1>1, <1>2, SameMoves, NoPagesMoves

\* Being in a part and being an event, when the parts only hold events that were.
LEMMA Moved ==
    ASSUME \A e \in Logged' : e \in Logged \/ Fresh(e),
           \A p \in Partition : \A e \in Filed(p)' \cup Paged(p)' : e \in Events \/ Fresh(e)
    PROVE  \A e \in Events' : e \in Events \/ Fresh(e)
<1>1. Events' = Logged' \cup UNION {Filed(p)' \cup Paged(p)' : p \in Partition}
  BY DEF Events, InParts
<1>2. Logged \subseteq Events
  BY DEF Events
<1> QED
  BY <1>1, <1>2

LEMMA Returned == \A ok : Return(ok) => ~Adding' /\ pc' = "idle"
  BY DEF Return, Adding, NoCall


LEMMA NotAdding ==
    ASSUME HandlerOK', ~Adding'
    PROVE  CallOK'
  BY DEF HandlerOK, CallOK

LEMMA LatestTypes ==
    ASSUME TypeOK
    PROVE  \A q \in Partition : latest[q] \in Nat
<1> SUFFICES ASSUME NEW q \in Partition PROVE latest[q] \in Nat
  OBVIOUS
<1>1. latest[q] \in Timestamp \/ latest[q] = 0
  BY DEF TypeOK
<1>2. \A t \in Timestamp : t \in Nat
  BY EventAssumption
<1>3. CASE latest[q] = 0
  BY <1>3
<1>4. CASE latest[q] \in Timestamp
  BY <1>2, <1>4
<1> QED
  BY <1>1, <1>3, <1>4

LEMMA BeginAddBook ==
    ASSUME TypeOK, BookOK, NEW n \in EventName, NEW t \in ValueType, NEW ts \in Timestamp,
           BeginAdd(n, t, ts), HandlerOK'
    PROVE  EventsOK' /\ CallOK' /\ AnswersOK'
<1> USE DEF BookOK
<1>1. /\ Logged' = Logged /\ Events' = Events /\ InParts' = InParts
      /\ \A p \in Partition : Filed(p)' = Filed(p) /\ Paged(p)' = Paged(p)
  BY DEF BeginAdd, Events, InParts, Logged, Filed, Paged
<1>2. /\ calls \in Nat /\ calls' = calls + 1 /\ calls < limit.calls /\ limit' = limit
      /\ answered' = answered /\ pc = "idle" /\ pc' = "append"
      /\ call'.op = "add" /\ call'.ts = ts /\ call'.val = calls + 1
      /\ limit.calls \in Nat
  BY EventAssumption DEF BeginAdd, TypeOK
<1>3. /\ \A e \in Events : e.ts \in Nat /\ e.val \in Nat /\ PartAt(e) \in Partition
      /\ \A e \in Events : e.val \in 1..calls /\ e.ts <= latest[PartAt(e)]
      /\ newest \subseteq 1..calls
      /\ \A a \in answered : a.val \in 1..calls
  BY EventsTypes DEF EventsOK, AnswersOK
<1>4. /\ ts \in Nat /\ PartOf[ts] \in Partition
      /\ \A q \in Partition : latest[q] \in Nat
  <2>1. ts \in Nat
    BY EventAssumption
  <2>2. PartOf[ts] \in Partition
    BY EventAssumption DEF Partition, Range
  <2> QED
    BY <2>1, <2>2, LatestTypes
<1>5. CASE ts > latest[PartOf[ts]]
  <2>1. /\ latest' = [latest EXCEPT ![PartOf[ts]] = ts]
        /\ newest' = newest \cup {calls + 1} \/ newest' = newest
    BY <1>5 DEF BeginAdd
  <2>2. /\ latest'[PartOf[ts]] = ts
        /\ \A q \in Partition : q # PartOf[ts] => latest'[q] = latest[q]
    BY <1>4, <2>1 DEF TypeOK
  <2>3. \A q \in Partition : latest[q] <= latest'[q] /\ latest'[q] \in Nat
    BY <1>4, <1>5, <2>2
  <2>4. \A e \in Events : e.ts <= latest'[PartAt(e)]
    <3> SUFFICES ASSUME NEW e \in Events PROVE e.ts <= latest'[PartAt(e)]
      OBVIOUS
    <3>1. e.ts <= latest[PartAt(e)] /\ latest[PartAt(e)] <= latest'[PartAt(e)]
          /\ e.ts \in Nat /\ latest[PartAt(e)] \in Nat /\ latest'[PartAt(e)] \in Nat
      BY <1>3, <1>4, <2>3
    <3> HIDE DEF PartAt
    <3> QED
      BY <3>1
  <2>5. \A e \in Events : PartAt(e) = PartOf[ts] => e.ts < ts
    BY <1>3, <1>4, <1>5
  <2>6. ts <= latest'[PartOf[ts]]
    BY <1>4, <2>2
  <2>7. EventsOK'
    <3>0. calls' <= limit'.calls
      BY <1>2
    <3>1. newest' \subseteq 1..calls'
      <4>1. \A v \in newest : v \in 1..(calls + 1)
        BY <1>2, <1>3
      <4>2. calls + 1 \in 1..(calls + 1)
        BY <1>2
      <4> QED
        BY <1>2, <2>1, <4>1, <4>2
    <3>2. \A e \in Events' : e.val \in 1..calls' /\ e.ts <= latest'[PartAt(e)]
      BY <1>1, <1>2, <1>3, <2>4
    <3>3. \A e \in Events : e.val \in newest' => e.val \in newest
      BY <1>2, <1>3, <2>1
    <3> QED
      BY <1>1, <3>0, <3>1, <3>2, <3>3 DEF EventsOK
  <2>8. CallOK'
    BY <1>1, <1>2, <1>3, <2>5, <2>6 DEF CallOK, Adding
  <2>9. AnswersOK'
    BY <1>1, <1>2, <1>3 DEF AnswersOK, Adding
  <2> QED
    BY <2>7, <2>8, <2>9
<1>6. CASE ~(ts > latest[PartOf[ts]])
  <2>1. UNCHANGED <<latest, newest>>
    BY <1>6 DEF BeginAdd
  <2>2. ts <= latest'[PartOf[ts]] /\ calls + 1 \notin newest'
    BY <1>2, <1>3, <1>4, <1>6, <2>1
  <2> QED
    BY <2>1, <2>2, <1>1, <1>2, <1>3 DEF EventsOK, CallOK, AnswersOK, Adding
<1> QED
  BY <1>5, <1>6


\* What any step of the writer does to the log, the parts, the calls and the answers.
Calling == \E n \in EventName, t \in ValueType, ts \in Timestamp : BeginAdd(n, t, ts)

LEMMA WriteMoves ==
    ASSUME TypeOK, BookOK, Write
    PROVE  /\ \A e \in Logged' : e \in Logged \/ Fresh(e)
           /\ \A p \in Partition : \A e \in Filed(p)' \cup Paged(p)' :
                 PartAt(e) = p /\ (e \in Events \/ Fresh(e))
           /\ Calling \/ (/\ UNCHANGED given
                          /\ \/ UNCHANGED <<call, answered>>
                             \/ ~Adding' /\ answered' = answered
                             \/ ~Adding' /\ \E ok \in BOOLEAN : Return(ok))
<1> USE DEF BookOK
<1>1. /\ \A p \in Partition : \A e \in Filed(p) \cup Paged(p) : PartAt(e) = p /\ e \in Events
      /\ \A e \in Logged : e \in Events
  BY InPartsIs DEF EventsOK, Events
<1> DEFINE LogMoves == \A e \in Logged' : e \in Logged \/ Fresh(e)
           PartMoves == \A p \in Partition : \A e \in Filed(p)' \cup Paged(p)' :
                           PartAt(e) = p /\ (e \in Events \/ Fresh(e))
           CallMoves == /\ UNCHANGED given
                        /\ \/ UNCHANGED <<call, answered>>
                           \/ ~Adding' /\ answered' = answered
                           \/ ~Adding' /\ \E ok \in BOOLEAN : Return(ok)
<1>2. UNCHANGED <<file, page>> => PartMoves
  BY <1>1, SameMoves
<1>3. wal' = wal => LogMoves
  BY SameMoves
<1> SUFFICES LogMoves /\ PartMoves /\ (Calling \/ CallMoves)
  OBVIOUS
<1>4. CASE Open
  <2>1. LogMoves /\ PartMoves
    BY <1>1, <1>4, OpenMoves
  <2> QED
    BY <1>4, <2>1 DEF Open
<1>5. CASE OpenFails
  BY <1>2, <1>3, <1>5 DEF OpenFails
<1>6. CASE Calling
  BY <1>2, <1>3, <1>6 DEF Calling, BeginAdd
<1>b. pc = "payload" /\ Complete => LogMoves
  BY Completed DEF CallOK, Fresh
<1>c. CASE WriteLength
  BY <1>2, <1>3, <1>c DEF WriteLength
<1>7. CASE WritePayload
  BY <1>2, <1>7, <1>b DEF WritePayload
<1>8. CASE AppendFails
  <2>1. /\ UNCHANGED <<given, file, page, answered>> \/ UNCHANGED <<given, file, page>>
        /\ Return(FALSE) /\ ~Adding'
    BY <1>8, Returned DEF AppendFails
  <2>2. wal' = wal \/ (pc = "payload" /\ Complete)
    BY <1>8 DEF AppendFails
  <2> QED
    BY <1>2, <1>3, <1>b, <2>1, <2>2
<1>9. CASE AddToPage
  <2> DEFINE q == PartOf[call.ts]
  <2>1. /\ UNCHANGED <<given, wal, file, known>> /\ pc = "page" /\ Adding
        /\ page' = [page EXCEPT ![q] = Append(@, CallEvent)]
        /\ \/ Return(TRUE)
           \/ pc' = "flush" /\ flushing' = q /\ UNCHANGED <<call, answered>>
    BY <1>9 DEF AddToPage, HandlerOK
  <2>2. /\ CallEvent \in Event /\ q \in Partition /\ PartAt(CallEvent) = q
    BY <2>1, CallEventTypes DEF PartAt
  <2>3. \A p \in Partition : Paged(p)' = IF p = q THEN Paged(p) \cup {CallEvent} ELSE Paged(p)
    BY <2>1, <2>2, PageGrows
  <2>4. /\ \A p \in Partition : Filed(p)' = Filed(p)
        /\ Logged' = Logged /\ (CallEvent \in Events \/ Fresh(CallEvent))
    BY <2>1, SameMoves DEF CallOK, Fresh, Events
  <2>5. PartMoves
    BY <1>1, <2>2, <2>3, <2>4
  <2>6. UNCHANGED <<call, answered>> \/ (~Adding' /\ \E ok \in BOOLEAN : Return(ok))
    BY <2>1, Returned
  <2> QED
    BY <1>3, <2>1, <2>5, <2>6
<1>10. CASE \E op \in {"flush", "close"} : BeginDrain(op)
  <2>1. UNCHANGED <<disk, given, page, answered>> /\ ~Adding'
    BY <1>10 DEF BeginDrain, Adding, NoCall
  <2> QED
    BY <1>2, <1>3, <2>1
<1>11. CASE (\E p \in Partition : DrainPage(p)) \/ DrainDone \/ CatalogBeforeReset
  <2>1. UNCHANGED <<wal, file, given, page, call, answered>>
    BY <1>11 DEF DrainPage, DrainDone, CatalogBeforeReset
  <2> QED
    BY <1>2, <1>3, <2>1
<1>12. CASE AppendFrame
  <2>1. UNCHANGED <<given, call, answered>> /\ Logged' = Logged
    BY <1>12, FrameMoves DEF AppendFrame
  <2>2. \A p \in Partition : Filed(p)' \cup Paged(p)' = Filed(p) \cup Paged(p)
    BY <1>12, FrameMoves
  <2> QED
    BY <1>1, <2>1, <2>2
<1>13. CASE KeepWAL \/ ResetWAL
  <2>1. /\ UNCHANGED <<given, file, page>> /\ AfterReset
        /\ \A e \in Logged' : e \in Logged
    BY <1>13, SameMoves, NoPagesMoves DEF KeepWAL, ResetWAL
  <2>2. /\ ~Adding' /\ (answered' = answered \/ \E ok \in BOOLEAN : Return(ok))
    BY <2>1, Returned DEF AfterReset, Adding
  <2> QED
    BY <1>2, <2>1, <2>2
<1>14. CASE PersistCatalog \/ Crash
  <2>1. UNCHANGED <<wal, file, given, answered>> /\ page' = NoPages /\ ~Adding'
    BY <1>14 DEF PersistCatalog, Crash, LoseMemory, Adding, NoCall
  <2>2. PartMoves
    BY <1>1, <2>1, SameMoves, NoPagesMoves
  <2> QED
    BY <1>3, <2>1, <2>2
<1>15. CASE WriteFails
  <2>1. UNCHANGED given
    BY <1>15 DEF WriteFails
  <2>2. /\ Logged' = Logged
        /\ \A p \in Partition : Filed(p)' \cup Paged(p)' \subseteq Filed(p) \cup Paged(p)
    BY <1>15, FailMoves
  <2>3. PartMoves
    BY <1>1, <2>2
  <2>4. /\ ~Adding' /\ (answered' = answered \/ \E ok \in BOOLEAN : Return(ok))
    <3>1. CASE pc = "persist"
      BY <1>15, <3>1 DEF WriteFails, LoseMemory, Adding, NoCall
    <3>2. CASE pc # "persist" /\ call.op = "close"
      BY <1>15, <3>2 DEF WriteFails, Adding
    <3>3. CASE pc # "persist" /\ call.op # "close"
      BY <1>15, <3>3, Returned DEF WriteFails
    <3> QED
      BY <3>1, <3>2, <3>3
  <2> QED
    BY <2>1, <2>2, <2>3, <2>4
<1> QED
  BY <1>4, <1>5, <1>6, <1>c, <1>7, <1>8, <1>9, <1>10, <1>11, <1>12, <1>13, <1>14, <1>15
     DEF Write, Calling

\* How a step of the writer comes by torn records.
LEMMA LogWrite ==
    ASSUME TypeOK, BookOK, Write
    PROVE  LogOK'
<1> USE DEF BookOK
<1>1. /\ torn \in Nat /\ calls \in Nat /\ HandlerOK /\ buried \in BOOLEAN
      /\ behind \subseteq 1..calls /\ newest \subseteq 1..calls
      /\ newest \cap behind = {}
      /\ torn > 1 \/ buried => behind # {}
  BY DEF TypeOK, LogOK, EventsOK
<1>2. CASE Calling
  <2>1. PICK n \in EventName, t \in ValueType, ts \in Timestamp : BeginAdd(n, t, ts)
    BY <1>2 DEF Calling
  <2>2. /\ torn' = torn /\ buried' = buried /\ calls' = calls + 1 /\ pc' = "append"
        /\ call'.val = calls + 1
        /\ behind' = IF torn = 0 THEN behind ELSE behind \cup {calls + 1}
        /\ newest' = newest \/ (torn = 0 /\ newest' = newest \cup {calls + 1})
    BY <2>1 DEF BeginAdd
  <2>3. behind' \subseteq 1..calls' /\ newest' \cap behind' = {}
    <3>1. calls + 1 \notin newest /\ calls + 1 \notin behind /\ calls + 1 \in 1..(calls + 1)
      BY <1>1
    <3>2. behind \subseteq 1..(calls + 1)
      BY <1>1
    <3>3. behind' \subseteq behind \cup {calls + 1}
      BY <2>2
    <3>4. behind' \subseteq 1..calls'
      BY <2>2, <3>1, <3>2, <3>3
    <3>5. newest' \cap behind' = {}
      <4>1. CASE torn = 0
        <5>1. behind' = behind /\ newest' \subseteq newest \cup {calls + 1}
          BY <2>2, <4>1
        <5> QED
          BY <1>1, <3>1, <5>1
      <4>2. CASE torn # 0
        <5>1. behind' = behind \cup {calls + 1} /\ newest' = newest
          BY <2>2, <4>2
        <5> QED
          BY <1>1, <3>1, <5>1
      <4> QED
        BY <4>1, <4>2
    <3> QED
      BY <3>4, <3>5
  <2>4. /\ torn > 0 => call'.val \in behind'
        /\ torn > 1 \/ buried => behind' # {}
    BY <1>1, <2>2
  <2> QED
    BY <2>2, <2>3, <2>4 DEF LogOK
<1>3. CASE WriteLength
  <2>1. /\ torn' = torn + 1 /\ UNCHANGED <<buried, behind, newest, calls, call>>
        /\ pc = "append" /\ pc' = "payload"
    BY <1>3 DEF WriteLength
  <2> QED
    BY <1>1, <2>1 DEF LogOK
<1>4. CASE WritePayload
  <2>1. UNCHANGED <<behind, newest, calls>> /\ pc' = "page" /\ pc = "payload" /\ Complete
    BY <1>4 DEF WritePayload
  <2>2. torn' = torn - 1 /\ torn > 0 /\ (buried' = buried \/ torn > 1)
    BY <1>1, <2>1 DEF Complete, HandlerOK
  <2> QED
    BY <1>1, <2>1, <2>2 DEF LogOK
<1>5. CASE AppendFails
  <2>1. UNCHANGED <<behind, newest, calls>> /\ pc' = "idle"
    BY <1>5, Returned DEF AppendFails
  <2>2. \/ UNCHANGED <<torn, buried>>
        \/ pc = "append" /\ torn' = torn + 1 /\ buried' = buried
        \/ pc = "payload" /\ Complete
    BY <1>5 DEF AppendFails
  <2>3. CASE pc = "payload" /\ Complete
    <3>1. torn' = torn - 1 /\ torn > 0 /\ (buried' = buried \/ torn > 1)
      BY <1>1, <2>3 DEF Complete, HandlerOK
    <3> QED
      BY <1>1, <2>1, <3>1 DEF LogOK
  <2> QED
    BY <1>1, <2>1, <2>2, <2>3 DEF LogOK
<1>6. CASE ~(Calling \/ WriteLength \/ WritePayload \/ AppendFails)
  <2>1. UNCHANGED <<behind, newest, calls>>
    BY <1>6, WriteMoves
  <2>2. \/ UNCHANGED <<torn, buried>>
        \/ torn' = 0 /\ buried' = FALSE
    BY <1>6 DEF Write, Calling, Open, OpenFails, AddToPage, BeginDrain, DrainPage, DrainDone,
                AppendFrame, KeepWAL, CatalogBeforeReset, ResetWAL, PersistCatalog,
                WriteFails, Crash
  <2>3. CASE OpenFails
    BY <2>3 DEF OpenFails, LogOK
  <2>4. CASE ~OpenFails
    <3>1. pc' \notin {"append", "payload"}
      BY <1>6, <2>4, Returned
         DEF Write, Calling, Open, AddToPage, BeginDrain, DrainPage, DrainDone, AppendFrame,
             KeepWAL, CatalogBeforeReset, ResetWAL, PersistCatalog, WriteFails, Crash,
             LoseMemory, AfterReset
    <3> QED
      BY <1>1, <2>1, <2>2, <3>1 DEF LogOK
  <2> QED
    BY <2>3, <2>4
<1> QED
  BY <1>2, <1>3, <1>4, <1>5, <1>6

LEMMA BookWrite ==
    ASSUME TypeOK, BookOK, Write
    PROVE  BookOK'
<1> USE DEF BookOK
<1>1. TypeOK' /\ HandlerOK' /\ LogOK'
  BY WriteTypes, LogWrite
<1> SUFFICES EventsOK' /\ CallOK' /\ AnswersOK'
  BY <1>1
<1>2. CASE Calling
  BY <1>1, <1>2, BeginAddBook DEF Calling
<1>3. CASE ~Calling
  <2>1. EventsOK' /\ AnswersOK'
    BY <1>3, WriteMoves, Moved, BookKept
  <2>2. CASE ~Adding'
    BY <1>1, <2>1, <2>2, NotAdding
  <2>a. CASE WriteLength
    <3>1. UNCHANGED <<wal, file, page, given, call, catalog>> /\ pc = "append" /\ pc' = "payload"
      BY <2>a DEF WriteLength
    <3>2. Events' = Events
      BY <3>1 DEF Events, InParts, Logged, Filed, Paged
    <3>3. CallOK'
      BY <3>1, <3>2 DEF CallOK, Adding, PartAt
    <3> QED
      BY <2>1, <3>3
  <2>3. CASE Adding' /\ WritePayload
    <3>1. /\ UNCHANGED <<given, call, file, page, catalog>> /\ pc = "payload" /\ pc' = "page"
          /\ Complete
      BY <2>3 DEF WritePayload
    <3>2. Logged' = Logged \cup {CallEvent} \/ (Logged' = Logged /\ call.val \in behind)
      BY <3>1, Completed
    <3>3. CallEvent' = CallEvent /\ InParts' = InParts /\ Events' = Logged' \cup InParts'
      BY <3>1 DEF CallEvent, InParts, Filed, Paged, Events
    <3>4. \A e \in Events : e.val # call.val
      BY <3>1 DEF CallOK
    <3>5. (CallEvent \in Logged')
          \/ (call.val \in behind /\ \A e \in Events' : e.val # call.val)
      BY <3>2, <3>3, <3>4 DEF Events
    <3>6. \A e \in InParts : e.val # call.val
      BY <3>4 DEF Events
    <3>7. CallOK'
      BY <3>1, <3>3, <3>5, <3>6 DEF CallOK, Adding
    <3> QED
      BY <2>1, <3>7
  <2>4. CASE Adding' /\ AddToPage
    <3> DEFINE q == PartOf[call.ts]
    <3>1. /\ UNCHANGED <<given, call>> /\ pc' = "flush" /\ pc = "page" /\ Adding
          /\ page' = [page EXCEPT ![q] = Append(@, CallEvent)]
      BY <2>4, Returned DEF AddToPage, HandlerOK
    <3>2. CallEvent \in Event /\ q \in Partition /\ CallEvent.val = call.val
      BY <3>1, CallEventTypes
    <3>3. \A p \in Partition :
              Paged(p)' = IF p = q THEN Paged(p) \cup {CallEvent} ELSE Paged(p)
      BY <3>1, <3>2, PageGrows
    <3>4. \A p \in Partition : p = q => CallEvent \in Paged(p)'
      BY <3>3
    <3>5. /\ PartOf[call.ts]' = q
          /\ Paged(PartOf[call.ts])' = {page'[q][k] : k \in DOMAIN page'[q]}
      BY <3>1 DEF Paged
    <3>6. CallEvent \in Paged(PartOf[call.ts])'
      BY <3>2, <3>4, <3>5 DEF Paged
    <3>7. CallOK'
      BY <3>1, <3>2, <3>6 DEF CallOK, Adding
    <3> QED
      BY <2>1, <3>7
  <2>5. CASE Adding' /\ AppendFrame
    <3>1. /\ UNCHANGED <<given, call, catalog>> /\ pc = "flush" /\ pc' \in {"reset", "drain"}
      BY <2>5 DEF AppendFrame
    <3>2. \A p \in Partition : Filed(p)' \cup Paged(p)' = Filed(p) \cup Paged(p)
      BY <2>5, FrameMoves
    <3>3. Adding => PartOf[call.ts] \in Partition
      BY CallEventTypes
    <3>4. CallOK'
      BY <3>1, <3>2, <3>3 DEF CallOK, Adding
    <3> QED
      BY <2>1, <3>4
  <2>6. CASE OpenFails \/ CatalogBeforeReset
    <3>1. UNCHANGED <<wal, file, page, given, call, answered, pc, catalog>>
      BY <2>6 DEF OpenFails, CatalogBeforeReset
    <3>2. CallOK'
      BY <3>1 DEF CallOK, Events, InParts, Logged, Filed, Paged, Adding, CallEvent
    <3> QED
      BY <2>1, <3>2
  <2>7. ~WriteLength /\ ~WritePayload /\ ~AddToPage /\ ~AppendFrame /\ ~OpenFails
        /\ ~CatalogBeforeReset => ~Adding'
    <3>1. Open => ~Adding'
      BY DEF Open, HandlerOK, Adding, NoCall
    <3>2. (\E p \in Partition : DrainPage(p)) \/ DrainDone => ~Adding'
      BY DEF DrainPage, DrainDone, HandlerOK, Adding
    <3>3. (\E op \in {"flush", "close"} : BeginDrain(op)) => ~Adding'
      BY DEF BeginDrain, Adding, NoCall
    <3>4. KeepWAL \/ ResetWAL => ~Adding'
      BY Returned DEF KeepWAL, ResetWAL, AfterReset, Adding
    <3>5. PersistCatalog \/ Crash => ~Adding'
      BY DEF PersistCatalog, Crash, LoseMemory, Adding, NoCall
    <3>6. AppendFails => ~Adding'
      BY Returned DEF AppendFails
    <3>7. WriteFails => ~Adding'
      <4>1. WriteFails /\ pc = "persist" => ~Adding'
        BY DEF WriteFails, LoseMemory, Adding, NoCall
      <4>2. WriteFails /\ pc # "persist" /\ call.op = "close" => ~Adding'
        BY DEF WriteFails, Adding
      <4>3. WriteFails /\ pc # "persist" /\ call.op # "close" => ~Adding'
        BY Returned DEF WriteFails
      <4> QED
        BY <4>1, <4>2, <4>3
    <3> QED
      BY <1>3, <3>1, <3>2, <3>3, <3>4, <3>5, <3>6, <3>7 DEF Write, Calling
  <2> QED
    BY <2>2, <2>a, <2>3, <2>4, <2>5, <2>6, <2>7
<1> QED
  BY <1>2, <1>3

LEMMA QueryKeeps ==
    ASSUME UNCHANGED <<disk, memory, pc, call, flushing, given, answered, unnamed, crashes, faults>>
    PROVE  /\ BookOK => LogOK' /\ EventsOK' /\ CallOK' /\ AnswersOK'
           /\ CatalogOK => CatalogOK'
           /\ NamesOK => NamesOK'
           /\ DurableOK => DurableOK'
           /\ OnceOK => OnceOK'
<1> USE DEF Events, InParts, Logged, Filed, Paged, Adding, CallEvent, Acked, Failed
<1>1. BookOK => LogOK' /\ EventsOK' /\ CallOK' /\ AnswersOK'
  BY DEF BookOK, LogOK, EventsOK, CallOK, AnswersOK
<1>2. CatalogOK => CatalogOK'
  BY DEF CatalogOK, Consistent, Resolved, Declared, Entries, Graph, New, Whole, Numbered
<1>3. NamesOK => NamesOK'
  <2>1. Events' = Events /\ Declared(wal)' = Declared(wal)
    BY DEF Declared, Entries
  <2>2. UNCHANGED <<unnamed, behind, answered, call>> /\ Adding' = Adding
    OBVIOUS
  <2> HIDE DEF Events, Adding
  <2> QED
    BY <2>1, <2>2 DEF NamesOK
<1>4. DurableOK => DurableOK'
  BY DEF DurableOK, PagesLogged, Owed, Calm
<1>5. OnceOK => OnceOK'
  BY DEF OnceOK, Durable, Distinct, Disjoint, LogEvents
<1> QED
  BY <1>1, <1>2, <1>3, <1>4, <1>5


(***************************************************************************)
(* The catalog.                                                            *)
(***************************************************************************)
LEMMA GraphCard ==
    ASSUME NEW c \in [EventName -> Entry]
    PROVE  /\ IsFiniteSet(Graph(c)) /\ Cardinality(Graph(c)) = Cardinality(Entries(c))
           /\ Cardinality(Entries(c)) \in Nat
<1> DEFINE f == [n \in Entries(c) |-> <<n, c[n]>>]
<1>1. IsFiniteSet(Entries(c)) /\ Cardinality(Entries(c)) \in Nat
  BY EntriesFinite
<1>2. f \in Surjection(Entries(c), Graph(c)) /\ f \in Injection(Entries(c), Graph(c))
  BY DEF Surjection, Injection, IsInjective, Graph
<1> HIDE DEF f
<1> QED
  BY <1>1, <1>2, FS_Surjection

\* Entries with ids of their own are no more than there are ids; one with the next id
\* can be added.
LEMMA NumberedBounded ==
    ASSUME NEW D, IsFiniteSet(D), Numbered(D), \A d \in D : d[2].id \in EventID
    PROVE  Cardinality(D) <= MaxEvents
<1> DEFINE f == [d \in D |-> d[2].id]
<1>1. IsFiniteSet(EventID) /\ Cardinality(EventID) = MaxEvents
  BY EventAssumption, FS_Interval DEF EventID
<1>2. f \in Injection(D, EventID)
  BY DEF Injection, IsInjective, Numbered
<1> HIDE DEF f
<1>3. Cardinality(D) <= Cardinality(EventID)
  BY <1>1, <1>2, FS_Injection
<1> QED
  BY <1>1, <1>3

LEMMA NumberedMore ==
    ASSUME NEW D, IsFiniteSet(D), Numbered(D), NEW x, x[2].id = Cardinality(D) + 1
    PROVE  /\ Numbered(D \cup {x}) /\ x \notin D
           /\ Cardinality(D \cup {x}) = Cardinality(D) + 1
<1>1. Cardinality(D) \in Nat
  BY FS_CardinalityType
<1>2. \A d \in D : d[2].id \in 1..Cardinality(D) /\ d[2].id # x[2].id
  BY <1>1 DEF Numbered
<1>3. x \notin D
  BY <1>2
<1>4. Cardinality(D \cup {x}) = Cardinality(D) + 1
  BY <1>3, FS_AddElement
<1>5. \A d \in D \cup {x} : d[2].id \in 1..(Cardinality(D) + 1)
  BY <1>1, <1>2
<1>6. \A d, e \in D \cup {x} : d[2].id = e[2].id => d = e
  BY <1>2 DEF Numbered
<1> QED
  BY <1>3, <1>4, <1>5, <1>6 DEF Numbered

\* Open's catalog is what the log and events.json declare.
LEMMA CatalogAfterIs ==
    ASSUME TypeOK, Consistent(wal)
    PROVE  Graph(CatalogAfter(wal)) = Declared(wal)
<1> DEFINE c == CatalogAfter(wal)
           D == Declared(wal)
<1>1. \A d \in D : d = <<d[1], d[2]>> /\ d[1] \in EventName /\ d[2].id # 0
  BY DeclaredTypes
<1>2. \A n \in EventName : NoEntries[n].id = 0
  BY DEF NoEntries
<1>3. \A d, e \in D : d[1] = e[1] => d = e
  BY DEF Consistent
<1>4. \A n \in EventName : c[n] = IF \E d \in D : d[1] = n
                                  THEN (CHOOSE d \in D : d[1] = n)[2] ELSE NoEntries[n]
  BY DEF CatalogAfter
<1> HIDE DEF c, D
<1>5. ASSUME NEW d \in D PROVE d \in Graph(c)
  <2>1. c[d[1]] = d[2]
    BY <1>1, <1>3, <1>4
  <2> QED
    BY <1>1, <2>1 DEF Graph, Entries
<1>6. ASSUME NEW n \in Entries(c) PROVE <<n, c[n]>> \in D
  <2>1. n \in EventName /\ c[n].id # 0
    BY DEF Entries
  <2>2. PICK d \in D : d[1] = n
    BY <1>2, <1>4, <2>1
  <2>3. c[n] = d[2]
    BY <1>3, <1>4, <2>1, <2>2
  <2> QED
    BY <1>1, <2>2, <2>3
<1> QED
  BY <1>5, <1>6 DEF Graph, c, D


LEMMA DeclaredIs ==
    Declared(wal) = Graph(catalogFile) \cup
                       {<<r.name, [id |-> r.event.id, type |-> r.type]>> : r \in Named(wal)}
  BY DEF Declared, Graph

\* A step that leaves the catalog, events.json and the log as they are.
LEMMA CatalogSame ==
    ASSUME CatalogOK, UNCHANGED <<wal, catalogFile>>, unnamed => unnamed',
           \/ pc' = "down"
           \/ /\ pc # "down" /\ UNCHANGED <<catalog, dirty>>
              /\ Whole' => Whole /\ New' = New
              /\ Adding' => call' = call
    PROVE  CatalogOK'
<1> SUFFICES ASSUME ~unnamed' PROVE CatalogOK'
  BY DEF CatalogOK
<1>1. Declared(wal)' = Declared(wal)
  BY DEF Declared, Entries
<1>2. Consistent(wal)' <=> Consistent(wal)
  BY <1>1 DEF Consistent
<1>3. Resolved(wal)' <=> Resolved(wal)
  BY DEF Resolved, Entries
<1>4. CASE pc' = "down"
  BY <1>1, <1>2, <1>3, <1>4 DEF CatalogOK, Numbered
<1>5. CASE /\ pc # "down" /\ UNCHANGED <<catalog, dirty>>
           /\ Whole' => Whole /\ New' = New
           /\ Adding' => call' = call
  <2>1. Graph(catalog)' = Graph(catalog)
    BY <1>5 DEF Graph, Entries
  <2>2. Adding' => Adding /\ call' = call
    BY <1>5 DEF Adding
  <2>3. Numbered(Declared(wal))' /\ Numbered(Graph(catalog)')
    BY <1>1, <1>5, <2>1 DEF CatalogOK, Numbered
  <2> QED
    BY <1>1, <1>2, <1>3, <1>5, <2>1, <2>2, <2>3 DEF CatalogOK
<1> QED
  BY <1>4, <1>5

\* Nothing is being named outside of AddEvent's two writes.
LEMMA NoneNew ==
    /\ pc \notin {"append", "payload"} => New = {}
    /\ pc' \notin {"append", "payload"} => New' = {}
    /\ pc # "payload" => (Whole <=> torn = 0)
    /\ pc' # "payload" => (Whole' <=> torn' = 0)
  BY DEF New, Whole

\* events.json is given the catalog: it and the log declare what the catalog has.
LEMMA CatalogSaved ==
    ASSUME TypeOK, CatalogOK, ~unnamed, pc # "down", wal' = wal,
           catalogFile' = catalog \/ catalogFile' = catalogFile
    PROVE  /\ Declared(wal)' = Declared(wal) \/ Declared(wal)' = Graph(catalog)
           /\ Declared(wal) \subseteq Declared(wal)'
           /\ Resolved(wal)' /\ Consistent(wal)' /\ Numbered(Declared(wal)')
<1>1. /\ Declared(wal) \subseteq Graph(catalog) /\ Numbered(Graph(catalog))
      /\ Resolved(wal) /\ Consistent(wal) /\ Numbered(Declared(wal))
  BY DEF CatalogOK
<1> DEFINE told == {<<r.name, [id |-> r.event.id, type |-> r.type]>> : r \in Named(wal)}
<1>2. Declared(wal) = Graph(catalogFile) \cup told
  BY DeclaredIs
<1>3. Declared(wal)' = Graph(catalogFile)' \cup told
  BY DEF Declared, Graph, Named
<1>4. Graph(catalogFile)' = Graph(catalog) \/ Graph(catalogFile)' = Graph(catalogFile)
  BY DEF Graph, Entries
<1> HIDE DEF told
<1>5. Declared(wal)' = Declared(wal) \/ Declared(wal)' = Graph(catalog)
  BY <1>1, <1>2, <1>3, <1>4
<1>6. Declared(wal) \subseteq Declared(wal)' /\ Numbered(Declared(wal)')
  BY <1>1, <1>5
<1>7. Consistent(wal)'
  <2>1. CASE Declared(wal)' = Declared(wal)
    BY <1>1, <2>1 DEF Consistent
  <2>2. CASE Declared(wal)' = Graph(catalog)
    <3>1. catalog \in [EventName -> Entry]
      BY DEF TypeOK
    <3>2. \A d \in Graph(catalog) : d[2].id \in EventID
      BY <3>1 DEF Graph, Entries, Entry
    <3>3. Cardinality(Graph(catalog)) <= MaxEvents
      BY <1>1, <3>1, <3>2, GraphCard, NumberedBounded
    <3>4. \A d, e \in Graph(catalog) : d[1] = e[1] => d = e
      BY DEF Graph
    <3>5. \A d, e \in Graph(catalog) : d[2].id = e[2].id => d = e
      BY <1>1 DEF Numbered
    <3> QED
      BY <2>2, <3>3, <3>4, <3>5 DEF Consistent
  <2> QED
    BY <1>5, <2>1, <2>2
<1>8. Resolved(wal)'
  <2> SUFFICES ASSUME NEW k \in DOMAIN wal, wal[k].name = NoName
               PROVE  \/ \E n \in Entries(catalogFile)' : catalogFile'[n].id = wal[k].event.id
                      \/ \E j \in 1..(k - 1) :
                            wal[j].name # NoName /\ wal[j].event.id = wal[k].event.id
    BY DEF Resolved
  <2>1. CASE \E j \in 1..(k - 1) :
                wal[j].name # NoName /\ wal[j].event.id = wal[k].event.id
    BY <2>1
  <2>2. CASE \E n \in Entries(catalogFile) : catalogFile[n].id = wal[k].event.id
    <3>1. PICK n \in Entries(catalogFile) : catalogFile[n].id = wal[k].event.id
      BY <2>2
    <3>2. <<n, catalogFile[n]>> \in Graph(catalog)
      BY <1>1, <1>2 DEF Graph
    <3>3. n \in Entries(catalog) /\ catalog[n] = catalogFile[n]
      BY <3>2 DEF Graph
    <3>4. n \in Entries(catalogFile)' /\ catalogFile'[n].id = wal[k].event.id
      BY <3>1, <3>3 DEF Entries
    <3> QED
      BY <3>4
  <2> QED
    BY <1>1, <2>1, <2>2 DEF Resolved
<1> QED
  BY <1>5, <1>6, <1>7, <1>8

LEMMA OpenCatalog ==
    ASSUME TypeOK, CatalogOK, HandlerOK, Open
    PROVE  CatalogOK'
<1> SUFFICES ASSUME ~unnamed PROVE CatalogOK'
  BY DEF CatalogOK, Open
<1>1. /\ UNCHANGED <<wal, catalogFile, unnamed, call>> /\ pc' = "idle"
      /\ catalog' = CatalogAfter(wal) /\ dirty' = (catalog' # catalogFile) /\ ~Adding'
  BY DEF Open, HandlerOK, Adding, NoCall
<1>2. /\ Declared(wal)' = Declared(wal)
      /\ Consistent(wal)' <=> Consistent(wal)
      /\ Resolved(wal)' <=> Resolved(wal)
  BY <1>1 DEF Consistent, Resolved, Declared, Entries
<1>3. Consistent(wal) /\ Resolved(wal) /\ Numbered(Declared(wal))
  BY DEF CatalogOK
<1>4. Graph(catalog)' = Graph(CatalogAfter(wal))
  BY <1>1 DEF Graph, Entries
<1>5. Graph(catalog)' = Declared(wal)
  BY <1>3, <1>4, CatalogAfterIs
<1>6. New' = {}
  BY <1>1 DEF New
<1>7. ~dirty' => catalogFile' = catalog'
  BY <1>1
<1>8. Numbered(Declared(wal)') /\ Numbered(Graph(catalog)')
  BY <1>2, <1>3, <1>5
<1> QED
  BY <1>1, <1>2, <1>3, <1>5, <1>6, <1>7, <1>8 DEF CatalogOK


LEMMA BeginAddCatalog ==
    ASSUME TypeOK, CatalogOK, NEW n \in EventName, NEW t \in ValueType, NEW ts \in Timestamp,
           BeginAdd(n, t, ts)
    PROVE  CatalogOK'
<1> SUFFICES ASSUME ~unnamed PROVE CatalogOK'
  BY DEF CatalogOK, BeginAdd
<1> DEFINE D == Declared(wal)
           G == Graph(catalog)
<1>1. /\ UNCHANGED <<wal, torn, catalogFile, unnamed>> /\ pc = "idle" /\ pc' = "append"
      /\ call'.name = n /\ call'.type = t /\ call'.fresh = ~Known(n)
      /\ ~Refused(n, t) /\ Register(n, t)
  BY DEF BeginAdd
<1>2. /\ Declared(wal)' = Declared(wal)
      /\ Consistent(wal)' <=> Consistent(wal)
      /\ Resolved(wal)' <=> Resolved(wal)
  BY <1>1 DEF Consistent, Resolved, Declared, Entries
<1>3. New = {} /\ (Whole <=> torn = 0) /\ (Whole' <=> torn = 0)
  BY <1>1, NoneNew
<1>4. /\ Consistent(wal) /\ Resolved(wal) /\ Numbered(D)
      /\ D \subseteq G /\ Numbered(G) /\ (torn = 0 => G = D)
      /\ ~dirty => catalogFile = catalog
  BY <1>1, <1>3 DEF CatalogOK
<1>5. CASE Known(n)
  <2>1. UNCHANGED known /\ catalog[n].type = t /\ New' = {}
    BY <1>1, <1>5 DEF Register, Refused, New
  <2>2. Graph(catalog)' = Graph(catalog)
    BY <2>1 DEF Graph, Entries
  <2>3. Numbered(Declared(wal)') /\ Numbered(Graph(catalog)')
    BY <1>2, <1>4, <2>2
  <2> QED
    BY <1>1, <1>2, <1>3, <1>4, <2>1, <2>2, <2>3 DEF CatalogOK
<1>6. CASE ~Known(n)
  <2> DEFINE entry == [id |-> NextEventID, type |-> t]
             x     == <<n, entry>>
  <2>1. catalog' = [catalog EXCEPT ![n] = entry] /\ dirty' = TRUE
    BY <1>1, <1>6 DEF Register
  <2>2. NextEventID \in Nat /\ NextEventID # 0
    BY <1>1, <1>6, NextIDTypes
  <2>3. /\ catalog \in [EventName -> Entry] /\ catalog'[n] = entry
        /\ \A m \in EventName : m # n => catalog'[m] = catalog[m]
    BY <2>1 DEF TypeOK
  <2>4. New' = {x}
    BY <1>1, <1>6, <2>3 DEF New
  <2>5. Graph(catalog)' = G \cup {x}
    <3>1. Entries(catalog)' = Entries(catalog) \cup {n} /\ n \notin Entries(catalog)
      BY <1>6, <2>2, <2>3 DEF Entries, Known
    <3>2. Graph(catalog)' = {<<m, catalog'[m]>> : m \in Entries(catalog)'}
      BY DEF Graph
    <3>3. \A m \in Entries(catalog) : catalog'[m] = catalog[m] /\ m \in EventName
      BY <2>3, <3>1 DEF Entries
    <3> QED
      BY <2>3, <3>1, <3>2, <3>3 DEF Graph
  <2>6. IsFiniteSet(G) /\ Cardinality(G) \in Nat /\ x[2].id = Cardinality(G) + 1
    BY <2>3, GraphCard DEF NextEventID
  <2>7. x[1] = n /\ x[2].type = t /\ \A d \in G : d[1] # n
    BY <1>6 DEF Graph, Entries, Known
  <2> HIDE DEF x, D, G
  <2>8. Numbered(G \cup {x})
    BY <1>4, <2>6, NumberedMore
  <2>9. \A d \in G : d[2].id # x[2].id
    <3>1. \A d \in G : d[2].id \in 1..Cardinality(G)
      BY <1>4 DEF Numbered
    <3> QED
      BY <2>6, <3>1
  <2>10. call'.name = n /\ catalog'[n].type = t
    BY <1>1, <2>3
  <2>11. torn = 0 =>
         /\ Graph(catalog)' = D \cup New'
         /\ \A d \in D, e \in New' : d[1] # e[1] /\ d[2].id # e[2].id
         /\ \A e \in New' : e[2].id = Cardinality(D) + 1
    BY <1>4, <2>4, <2>5, <2>6, <2>7, <2>9
  <2>12. D \subseteq Graph(catalog)' /\ Numbered(Graph(catalog)')
    BY <1>4, <2>5, <2>8
  <2>13. Declared(wal)' = D /\ Numbered(D) /\ Consistent(wal)' /\ Resolved(wal)'
    BY <1>2, <1>4 DEF D
  <2> QED
    BY <1>1, <1>3, <2>1, <2>10, <2>11, <2>12, <2>13 DEF CatalogOK
<1> QED
  BY <1>5, <1>6

\* A record completed at the end of the log declares the name its call is adding.
LEMMA CompletedCatalog ==
    ASSUME TypeOK, BookOK, CatalogOK, pc = "payload", torn = 1, Complete, ~unnamed,
           UNCHANGED <<catalogFile, catalog, dirty>>, pc' \in {"page", "idle"},
           Adding' => call' = call
    PROVE  CatalogOK' /\ Declared(wal)' = Declared(wal) \cup New
<1> DEFINE D == Declared(wal)
           r == CallRecord
           entry == catalog[call.name]
<1>1. wal' = Append(wal, r) /\ torn' = 0 /\ Adding
  BY Completed DEF BookOK, HandlerOK
<1>2. /\ r \in Record /\ r.event = CallEvent /\ r.event.id = entry.id
      /\ r.name = (IF call.fresh THEN call.name ELSE NoName) /\ r.type = call.type
      /\ call.name \in EventName /\ call.name # NoName
      /\ entry.id # 0 /\ entry.id \in EventID
  <2>1. call.name \in EventName /\ Known(call.name) /\ catalog \in [EventName -> Entry]
    BY <1>1 DEF BookOK, HandlerOK, TypeOK
  <2>2. entry.id # 0 /\ entry.id \in EventID
    BY <2>1 DEF Known, Entry
  <2>3. r \in Record /\ r.event = CallEvent /\ CallEvent.id = entry.id
    BY <1>1, CallRecordTypes, CallEventTypes DEF BookOK
  <2>4. r.name = (IF call.fresh THEN call.name ELSE NoName) /\ r.type = call.type
    BY DEF CallRecord
  <2> QED
    BY <2>1, <2>2, <2>3, <2>4, EventAssumption
<1>3. entry = [id |-> entry.id, type |-> entry.type] /\ entry.type = call.type
  BY <1>1, <1>2 DEF CatalogOK, TypeOK, Entry
<1>4. /\ Consistent(wal) /\ Resolved(wal)
      /\ ~dirty => catalogFile = catalog
      /\ Graph(catalog) = D \cup New /\ Numbered(Graph(catalog))
      /\ \A d \in D, e \in New : d[1] # e[1] /\ d[2].id # e[2].id
  BY DEF CatalogOK, Whole
<1>5. New = IF call.fresh THEN {<<call.name, entry>>} ELSE {}
  BY DEF New
<1>6. /\ wal \in Seq(Record) /\ wal' \in Seq(Record)
      /\ DOMAIN wal' = DOMAIN wal \cup {Len(wal) + 1} /\ Len(wal) + 1 \notin DOMAIN wal
      /\ wal'[Len(wal) + 1] = r
      /\ \A k \in DOMAIN wal : wal'[k] = wal[k]
      /\ DOMAIN wal = 1..Len(wal) /\ Len(wal) \in Nat
  <2>1. wal \in Seq(Record)
    BY DEF TypeOK
  <2>2. /\ Append(wal, r) \in Seq(Record)
        /\ DOMAIN Append(wal, r) = DOMAIN wal \cup {Len(wal) + 1}
        /\ Len(wal) + 1 \notin DOMAIN wal
        /\ Append(wal, r)[Len(wal) + 1] = r
        /\ \A k \in DOMAIN wal : Append(wal, r)[k] = wal[k]
    BY <1>2, <2>1, AppendElements
  <2> QED
    BY <1>1, <2>1, <2>2
<1> HIDE DEF r, entry
<1>7. Named(wal)' = Named(wal) \cup (IF call.fresh THEN {r} ELSE {})
  <2>1. Range(wal') = Range(wal) \cup {r}
    BY <1>6 DEF Range
  <2>2. Named(wal)' = {x \in Range(wal') : x.name # NoName}
    BY DEF Named
  <2> QED
    BY <1>2, <2>1, <2>2 DEF Named
<1>8. Declared(wal)' = D \cup New
  <2> DEFINE told(S) == {<<x.name, [id |-> x.event.id, type |-> x.type]>> : x \in S}
  <2>1. Declared(wal)' = Graph(catalogFile)' \cup told(Named(wal)')
    BY DEF Declared, Graph
  <2>2. Graph(catalogFile)' = Graph(catalogFile)
    BY DEF Graph, Entries
  <2>3. call.fresh => told({r}) = New
    BY <1>2, <1>3, <1>5
  <2>4. told(Named(wal)') = told(Named(wal)) \cup New
    BY <1>5, <1>7, <2>3
  <2>5. D = Graph(catalogFile) \cup told(Named(wal))
    BY DeclaredIs
  <2> QED
    BY <2>1, <2>2, <2>4, <2>5
<1> DEFINE E == D \cup New
<1>10. Cardinality(E) <= MaxEvents
  <2>1. catalog \in [EventName -> Entry]
    BY DEF TypeOK
  <2>2. \A d \in Graph(catalog) : d[2].id \in EventID
    BY <2>1 DEF Graph, Entries, Entry
  <2>3. Cardinality(Graph(catalog)) <= MaxEvents
    BY <1>4, <2>1, <2>2, GraphCard, NumberedBounded
  <2> QED
    BY <1>4, <2>3
<1>11. \A d, e \in E : d[1] = e[1] \/ d[2].id = e[2].id => d = e
  <2>1. \A d, e \in New : d = e
    BY <1>5
  <2>2. \A d, e \in D : d[1] = e[1] \/ d[2].id = e[2].id => d = e
    BY <1>4 DEF Consistent
  <2> QED
    BY <1>4, <2>1, <2>2
<1>12. Consistent(wal)'
  BY <1>8, <1>10, <1>11 DEF Consistent
<1>13. Resolved(wal)'
  <2> SUFFICES ASSUME NEW k \in DOMAIN wal', wal'[k].name = NoName
               PROVE  \/ \E n \in Entries(catalogFile) : catalogFile[n].id = wal'[k].event.id
                      \/ \E j \in 1..(k - 1) :
                            wal'[j].name # NoName /\ wal'[j].event.id = wal'[k].event.id
    BY DEF Resolved, Entries
  <2>1. CASE k \in DOMAIN wal
    <3>1. wal'[k] = wal[k] /\ \A j \in 1..(k - 1) : wal'[j] = wal[j]
      BY <1>6, <2>1
    <3> QED
      BY <1>4, <2>1, <3>1 DEF Resolved
  <2>2. CASE k = Len(wal) + 1
    <3>1. wal'[k] = r /\ ~call.fresh /\ New = {}
      BY <1>2, <1>5, <1>6, <2>2
    <3>2. <<call.name, entry>> \in D
      BY <1>2, <1>4, <3>1 DEF Graph, Entries, entry
    <3>3. CASE <<call.name, entry>> \in Graph(catalogFile)
      <4>1. call.name \in Entries(catalogFile) /\ catalogFile[call.name] = entry
        BY <3>3 DEF Graph
      <4> QED
        BY <1>2, <3>1, <4>1
    <3>4. CASE <<call.name, entry>> \notin Graph(catalogFile)
      <4>1. PICK x \in Named(wal) :
               <<call.name, entry>> = <<x.name, [id |-> x.event.id, type |-> x.type]>>
        BY <3>2, <3>4, DeclaredIs
      <4>2. x.name # NoName /\ x.event.id = entry.id /\ x \in Range(wal)
        BY <4>1 DEF Named
      <4>3. PICK j \in DOMAIN wal : x = wal[j]
        BY <4>2 DEF Range
      <4>4. j \in 1..(k - 1) /\ wal'[j] = x
        BY <1>6, <2>2, <4>3
      <4> QED
        BY <1>2, <3>1, <4>2, <4>4
    <3> QED
      BY <3>3, <3>4
  <2> QED
    BY <1>6, <2>1, <2>2
<1>14. New' = {} /\ Graph(catalog)' = Graph(catalog)
  BY DEF New, Graph, Entries
<1>15. CatalogOK'
  <2>1. Adding' => catalog'[call'.name].type = call'.type
    BY <1>3 DEF entry
  <2>2. Numbered(Declared(wal)') /\ Numbered(Graph(catalog)')
    BY <1>4, <1>8, <1>14
  <2>3. Graph(catalog)' = Declared(wal)' \cup New'
    BY <1>4, <1>8, <1>14
  <2>4. ~dirty' => catalogFile' = catalog'
    BY <1>4
  <2> QED
    BY <1>12, <1>13, <1>14, <2>1, <2>2, <2>3, <2>4 DEF CatalogOK
<1> QED
  BY <1>8, <1>15


\* The end of AddEvent's writes, when the log has no record of it to read.
LEMMA CatalogAppended ==
    ASSUME TypeOK, BookOK, CatalogOK, pc \in {"append", "payload"}, ~unnamed', unnamed => unnamed',
           UNCHANGED <<wal, catalogFile, catalog, dirty>>, pc' \in {"page", "idle"},
           torn' = 0 => torn = 0 /\ New = {}, Adding' => call' = call
    PROVE  CatalogOK' /\ Declared(wal)' = Declared(wal)
<1>1. Declared(wal)' = Declared(wal)
  BY DEF Declared, Entries
<1>2. /\ Consistent(wal)' <=> Consistent(wal)
      /\ Resolved(wal)' <=> Resolved(wal)
  BY <1>1 DEF Consistent, Resolved, Entries
<1>3. Graph(catalog)' = Graph(catalog) /\ New' = {} /\ (Whole' <=> torn' = 0)
  BY DEF Graph, Entries, New, Whole
<1>4. /\ Consistent(wal) /\ Resolved(wal) /\ Numbered(Declared(wal))
      /\ ~dirty => catalogFile = catalog
      /\ Declared(wal) \subseteq Graph(catalog) /\ Numbered(Graph(catalog))
      /\ torn = 0 => Graph(catalog) = Declared(wal) \cup New
      /\ Adding => catalog[call.name].type = call.type
  BY DEF CatalogOK, Whole
<1>5. Adding' => Adding /\ call' = call
  BY DEF Adding
<1>6. Numbered(Declared(wal)') /\ Numbered(Graph(catalog)')
  BY <1>1, <1>3, <1>4
<1> QED
  BY <1>1, <1>2, <1>3, <1>4, <1>5, <1>6 DEF CatalogOK

\* The catalog and the names of events and calls.
LEMMA CatalogWrite ==
    ASSUME TypeOK, BookOK, CatalogOK, Write, ~unnamed'
    PROVE  /\ CatalogOK'
           /\ ~unnamed /\ Declared(wal) \subseteq Declared(wal)'
<1> USE DEF BookOK
<1>1. ~unnamed
  BY DEF Write, Open, OpenFails, BeginAdd, WriteLength, WritePayload, AppendFails, AddToPage,
     BeginDrain, DrainPage, DrainDone, AppendFrame, KeepWAL, CatalogBeforeReset, ResetWAL,
     PersistCatalog, WriteFails, Crash
<1>2. UNCHANGED <<wal, catalogFile>> => Declared(wal)' = Declared(wal)
  BY DEF Declared, Entries
<1> DEFINE Quiet == pc \notin {"append", "payload"} /\ pc' \notin {"append", "payload"}
<1>a. Quiet /\ torn' = torn => (Whole' => Whole) /\ New' = New
  BY NoneNew
<1>3. CASE Open
  BY <1>1, <1>2, <1>3, OpenCatalog DEF Open
<1>4. CASE OpenFails
  <2>1. UNCHANGED <<wal, catalogFile, catalog, dirty, pc, call>> /\ pc = "down"
    BY <1>4 DEF OpenFails
  <2> QED
    BY <1>1, <1>2, <2>1, CatalogSame
<1>5. CASE Calling
  BY <1>1, <1>2, <1>5, BeginAddCatalog DEF Calling, BeginAdd
<1>b. CASE WriteLength
  <2>1. /\ UNCHANGED <<wal, catalogFile, catalog, dirty, call>> /\ pc = "append"
        /\ pc' = "payload" /\ torn' = torn + 1
    BY <1>b DEF WriteLength
  <2>2. torn \in Nat
    BY DEF TypeOK
  <2>3. (Whole' => Whole) /\ New' = New
    BY <2>1, <2>2 DEF Whole, New
  <2> QED
    BY <1>1, <1>2, <2>1, <2>3, CatalogSame
<1>6. CASE WritePayload
  <2>1. /\ UNCHANGED <<catalogFile, catalog, dirty, call>> /\ pc = "payload" /\ pc' = "page"
        /\ Complete
    BY <1>6 DEF WritePayload
  <2>2. CASE torn = 1
    BY <1>1, <2>1, <2>2, CompletedCatalog
  <2>3. CASE torn # 1
    <3>1. wal' = wal /\ torn' > 0 /\ torn' # 0
      <4>1. wal' = wal /\ torn' > 0
        BY <2>1, <2>3, Completed
      <4> QED
        BY <4>1
    <3> QED
      BY <1>1, <2>1, <3>1, CatalogAppended
  <2> QED
    BY <1>1, <2>2, <2>3
<1>c. CASE AppendFails
  <2>1. /\ UNCHANGED <<catalogFile, catalog, dirty>> /\ pc \in {"append", "payload"}
        /\ pc' = "idle" /\ ~Adding' /\ unnamed' = (unnamed \/ (call.fresh /\ torn = 0 /\ torn' = 0))
        /\ torn \in Nat /\ (pc = "payload" => torn > 0)
    BY <1>c, Returned DEF AppendFails, TypeOK, HandlerOK
  <2>2. CASE UNCHANGED log
    <3>1. torn' = torn /\ wal' = wal
      BY <2>2
    <3>2. torn' = 0 => New = {}
      BY <2>1, <3>1 DEF New
    <3> QED
      BY <1>1, <2>1, <3>1, <3>2, CatalogAppended
  <2>3. CASE pc = "append" /\ torn' = torn + 1 /\ wal' = wal
    <3>1. torn' # 0
      BY <2>1, <2>3
    <3> QED
      BY <1>1, <2>1, <2>3, <3>1, CatalogAppended
  <2>4. CASE pc = "payload" /\ Complete /\ torn = 1
    BY <1>1, <2>1, <2>4, CompletedCatalog
  <2>5. CASE pc = "payload" /\ Complete /\ torn # 1
    <3>1. wal' = wal /\ torn' > 0
      BY <2>5, Completed
    <3>2. torn' # 0
      BY <3>1
    <3> QED
      BY <1>1, <2>1, <3>1, <3>2, CatalogAppended
  <2> QED
    BY <1>c, <1>1, <2>2, <2>3, <2>4, <2>5 DEF AppendFails
<1>7. CASE AddToPage
  <2>1. /\ UNCHANGED <<wal, torn, catalogFile, catalog, dirty>> /\ pc = "page" /\ Quiet
        /\ pc' # "down" /\ (Adding' => call' = call)
    BY <1>7, Returned DEF AddToPage, Return
  <2> QED
    BY <1>1, <1>2, <1>a, <2>1, CatalogSame
<1>8. CASE (\E op \in {"flush", "close"} : BeginDrain(op))
           \/ (\E p \in Partition : DrainPage(p)) \/ DrainDone \/ AppendFrame
  <2>1. /\ UNCHANGED <<wal, torn, catalogFile, catalog, dirty>> /\ pc # "down"
        /\ Quiet /\ (Adding' => call' = call)
    BY <1>8 DEF BeginDrain, DrainPage, DrainDone, AppendFrame, NoCall, Adding
  <2> QED
    BY <1>1, <1>2, <1>a, <2>1, CatalogSame
<1>9. CASE KeepWAL
  <2>1. /\ UNCHANGED <<wal, torn, catalogFile, catalog, dirty>> /\ pc = "reset"
        /\ Quiet /\ (Adding' => call' = call)
    BY <1>9, Returned DEF KeepWAL, AfterReset
  <2> QED
    BY <1>1, <1>2, <1>a, <2>1, CatalogSame
<1>10. CASE CatalogBeforeReset
  <2>1. /\ wal' = wal /\ torn' = torn /\ catalogFile' = catalog /\ catalog' = catalog
        /\ dirty' = FALSE /\ pc = "reset" /\ pc' = pc /\ call' = call
    BY <1>10 DEF CatalogBeforeReset
  <2>2. /\ Declared(wal)' = Declared(wal) \/ Declared(wal)' = Graph(catalog)
        /\ Declared(wal) \subseteq Declared(wal)'
        /\ Resolved(wal)' /\ Consistent(wal)' /\ Numbered(Declared(wal)')
    BY <1>1, <2>1, CatalogSaved
  <2>3. New = {} /\ New' = {} /\ Graph(catalog)' = Graph(catalog) /\ Adding' = Adding
        /\ (Whole' <=> Whole)
    BY <2>1 DEF New, Graph, Entries, Adding, Whole
  <2>4. /\ Declared(wal) \subseteq Graph(catalog) /\ Numbered(Graph(catalog))
        /\ Whole => Graph(catalog) = Declared(wal)
        /\ Adding => catalog[call.name].type = call.type
    BY <1>1, <2>1, <2>3 DEF CatalogOK
  <2>5. /\ Declared(wal)' \subseteq Graph(catalog)' /\ Numbered(Graph(catalog)')
        /\ Whole' => Graph(catalog)' = Declared(wal)'
    BY <2>2, <2>3, <2>4
  <2> QED
    BY <1>1, <2>1, <2>2, <2>3, <2>4, <2>5 DEF CatalogOK
<1>11. CASE ResetWAL /\ ~sized
  <2>1. /\ UNCHANGED <<wal, torn, catalogFile, catalog, dirty>> /\ pc = "reset"
        /\ Quiet /\ (Adding' => call' = call)
    BY <1>11, Returned DEF ResetWAL, AfterReset
  <2> QED
    BY <1>1, <1>2, <1>a, <2>1, CatalogSame
<1>12. CASE ResetWAL /\ sized
  <2>1. /\ wal' = <<>> /\ pc = "reset" /\ ~dirty /\ pc' \in {"persist", "idle"}
        /\ UNCHANGED <<catalogFile, catalog, dirty>> /\ ~Adding'
    BY <1>12, Returned DEF ResetWAL, AfterReset, Return, Adding, CatalogFirst
  <2>2. New' = {} /\ Graph(catalog)' = Graph(catalog)
    BY <2>1 DEF New, Graph, Entries
  <2>3. /\ Declared(wal) \subseteq Graph(catalog) /\ Numbered(Graph(catalog))
        /\ catalogFile = catalog /\ catalog \in [EventName -> Entry]
    BY <1>1, <2>1 DEF CatalogOK, TypeOK
  <2>4. Named(wal)' = {}
    BY <2>1 DEF Named, Range
  <2>5. Declared(wal)' = Graph(catalogFile)'
    BY <2>4 DEF Declared, Graph
  <2>6. Declared(wal)' = Graph(catalog) /\ Numbered(Declared(wal)') /\ Numbered(Graph(catalog)')
    BY <2>1, <2>2, <2>3, <2>5 DEF Graph, Entries
  <2>7. Consistent(wal)'
    <3>1. \A d \in Graph(catalog) : d[2].id \in EventID
      BY <2>3 DEF Graph, Entries, Entry
    <3>2. Cardinality(Graph(catalog)) <= MaxEvents
      BY <2>3, <3>1, GraphCard, NumberedBounded
    <3>3. \A d, e \in Graph(catalog) : d[1] = e[1] => d = e
      BY DEF Graph
    <3>4. \A d, e \in Graph(catalog) : d[2].id = e[2].id => d = e
      BY <2>3 DEF Numbered
    <3> QED
      BY <2>6, <3>2, <3>3, <3>4 DEF Consistent
  <2>8. Resolved(wal)'
    BY <2>1 DEF Resolved
  <2> QED
    BY <1>1, <2>1, <2>2, <2>3, <2>6, <2>7, <2>8 DEF CatalogOK
<1>13. CASE PersistCatalog
  <2>1. /\ wal' = wal /\ pc = "persist" /\ pc' = "down"
        /\ catalogFile' = catalog \/ catalogFile' = catalogFile
    BY <1>13 DEF PersistCatalog, LoseMemory
  <2>2. /\ Declared(wal) \subseteq Declared(wal)'
        /\ Resolved(wal)' /\ Consistent(wal)' /\ Numbered(Declared(wal)')
    BY <1>1, <2>1, CatalogSaved
  <2> QED
    BY <1>1, <2>1, <2>2 DEF CatalogOK
<1>14. CASE WriteFails
  <2>1. UNCHANGED <<wal, torn, catalogFile>> /\ pc \in {"flush", "reset", "persist"}
    BY <1>14 DEF WriteFails
  <2>2. CASE pc = "persist"
    <3>1. pc' = "down"
      BY <1>14, <2>2 DEF WriteFails, LoseMemory
    <3> QED
      BY <1>1, <1>2, <2>1, <3>1, CatalogSame
  <2>3. CASE pc # "persist"
    <3>1. UNCHANGED <<catalog, dirty>> /\ pc' \in {"persist", "idle"} /\ Quiet
      BY <1>14, <2>1, <2>3, Returned DEF WriteFails
    <3>2. Adding' => call' = call
      BY <1>14, <2>1, <2>3, Returned DEF WriteFails
    <3> QED
      BY <1>1, <1>2, <1>a, <2>1, <3>1, <3>2, CatalogSame
  <2> QED
    BY <2>2, <2>3
<1>15. CASE Crash
  <2>1. UNCHANGED <<wal, catalogFile>> /\ pc' = "down"
    BY <1>15 DEF Crash, LoseMemory
  <2> QED
    BY <1>1, <1>2, <2>1, CatalogSame
<1> QED
  BY <1>1, <1>3, <1>4, <1>5, <1>b, <1>6, <1>c, <1>7, <1>8, <1>9, <1>10, <1>11, <1>12, <1>13,
     <1>14, <1>15 DEF Write, Calling

\* An event that comes to be stored is the call's, under the name of the call or behind a
\* torn record.
LEMMA FreshNamed ==
    ASSUME TypeOK, BookOK, CatalogOK, Write, ~Calling, ~unnamed', NEW e \in Events', e \notin Events
    PROVE  /\ Adding /\ e.val = call.val
           /\ \/ e.val \in behind
              \/ <<call.name, [id |-> e.id, type |-> call.type]>> \in Declared(wal)'
<1> USE DEF BookOK
<1>1. ~unnamed
  BY CatalogWrite
<1>2. Fresh(e)
  BY WriteMoves, Moved
<1>3. Adding /\ e = CallEvent /\ e.val = call.val
  BY <1>2, CallEventTypes DEF Fresh, HandlerOK
<1>4. CASE pc = "page"
  <2>1. CallEvent \notin Logged
    BY <1>2 DEF Fresh, Events
  <2> QED
    BY <1>3, <1>4, <2>1 DEF CallOK
<1>5. CASE pc = "payload"
  <2>1. ~Crash
    <3>1. Crash => UNCHANGED <<wal, file>> /\ page' = NoPages
      BY DEF Crash, LoseMemory
    <3>2. Crash => Logged' = Logged /\ \A p \in Partition : Filed(p)' \cup Paged(p)' \subseteq Filed(p)
      BY <3>1, SameMoves, NoPagesMoves
    <3>3. Crash => \A g \in Events' : g \in Events
      BY <3>2 DEF Events, InParts
    <3> QED
      BY <3>3
  <2>2. WritePayload \/ AppendFails
    BY <1>5, <2>1 DEF Write, Calling, Open, OpenFails, WriteLength, AddToPage, BeginDrain,
       DrainPage, DrainDone, AppendFrame, KeepWAL, CatalogBeforeReset, ResetWAL,
       PersistCatalog, WriteFails
  <2>3. /\ UNCHANGED <<file, page, catalogFile, catalog, dirty>> /\ pc' \in {"page", "idle"}
        /\ Adding' => call' = call
        /\ Complete \/ wal' = wal
    BY <1>5, <2>2, Returned DEF WritePayload, AppendFails
  <2>4. wal' # wal
    <3>1. wal' = wal => Events' = Events
      BY <2>3 DEF Events, InParts, Logged, Filed, Paged
    <3> QED
      BY <3>1
  <2>5. CASE torn # 1
    BY <1>5, <2>3, <2>4, <2>5, Completed
  <2>6. CASE torn = 1
    <3>1. Declared(wal)' = Declared(wal) \cup New
      BY <1>1, <1>5, <2>3, <2>4, <2>6, CompletedCatalog
    <3>2. /\ call.name \in EventName /\ Known(call.name) /\ catalog[call.name] \in Entry
          /\ catalog[call.name].type = call.type
      BY <1>1, <1>3, <1>5 DEF HandlerOK, TypeOK, CatalogOK
    <3>3. <<call.name, catalog[call.name]>> \in Graph(catalog)
      BY <3>2 DEF Graph, Entries, Known
    <3>4. Graph(catalog) = Declared(wal) \cup New
      BY <1>1, <1>5, <2>6 DEF CatalogOK, Whole
    <3>5. catalog[call.name] = [id |-> e.id, type |-> call.type]
      BY <1>3, <3>2, CallEventTypes DEF Entry
    <3> QED
      BY <1>3, <3>1, <3>3, <3>4, <3>5
  <2> QED
    BY <2>5, <2>6
<1> QED
  BY <1>2, <1>4, <1>5 DEF Fresh

LEMMA NamesWrite ==
    ASSUME TypeOK, BookOK, CatalogOK, NamesOK, Write
    PROVE  NamesOK'
<1> USE DEF BookOK
<1> SUFFICES ASSUME ~unnamed' PROVE NamesOK'
  BY DEF NamesOK
<1>1. /\ CatalogOK' /\ ~unnamed /\ Declared(wal) \subseteq Declared(wal)'
  BY CatalogWrite
<1>2. /\ \A e \in Events' : e \in Events \/ Fresh(e)
      /\ Calling \/ (/\ UNCHANGED given
                     /\ \/ UNCHANGED <<call, answered>>
                        \/ ~Adding' /\ answered' = answered
                        \/ ~Adding' /\ \E ok \in BOOLEAN : Return(ok))
  BY WriteMoves, Moved
<1> DEFINE entry(e, type) == [id |-> e.id, type |-> type]
<1>3. \A e \in Events :
          /\ \A a \in answered : a.val = e.val /\ e.val \notin behind =>
                <<a.name, entry(e, a.type)>> \in Declared(wal)
          /\ Adding /\ call.val = e.val /\ e.val \notin behind =>
                <<call.name, entry(e, call.type)>> \in Declared(wal)
  BY <1>1 DEF NamesOK
<1> HIDE DEF entry
<1>4. CASE Calling
  <2>1. answered' = answered /\ calls' = calls + 1 /\ call'.val = calls + 1
        /\ pc \notin {"payload", "page"} /\ calls \in Nat
        /\ \A v : v \notin behind' => v \notin behind
    BY <1>4 DEF Calling, BeginAdd, TypeOK
  <2>2. \A e \in Events' : e \in Events /\ e.val \in 1..calls
    BY <1>2, <2>1 DEF EventsOK, Fresh
  <2>3. \A e \in Events' : e.val # call'.val
    BY <2>1, <2>2
  <2> QED
    BY <1>1, <1>3, <2>1, <2>2, <2>3 DEF NamesOK, entry
<1>5. CASE ~Calling
  <2>0. behind' = behind
    BY <1>2, <1>5
  <2>a. \A e \in Events' : e \notin Events =>
            /\ Adding /\ e.val = call.val
            /\ e.val \in behind \/ <<call.name, entry(e, call.type)>> \in Declared(wal)'
    BY <1>5, FreshNamed DEF entry
  <2>1. ASSUME NEW e \in Events', NEW a \in answered', a.val = e.val, e.val \notin behind
        PROVE  <<a.name, entry(e, a.type)>> \in Declared(wal)'
    <3>1. CASE e \in Events /\ a \in answered
      BY <1>1, <1>3, <2>1, <3>1
    <3>2. CASE e \in Events /\ a \notin answered
      <4>1. Adding /\ a.val = call.val /\ a.name = call.name /\ a.type = call.type
        BY <1>2, <1>5, <2>1, <3>2 DEF Return, Adding
      <4> QED
        BY <1>1, <1>3, <2>1, <3>2, <4>1
    <3>3. CASE e \notin Events
      <4>1. /\ Adding /\ e.val = call.val
            /\ <<call.name, entry(e, call.type)>> \in Declared(wal)'
        BY <2>a, <2>1, <3>3
      <4>2. a \notin answered
        BY <2>1, <4>1 DEF AnswersOK
      <4>3. a.name = call.name /\ a.type = call.type
        BY <1>2, <1>5, <2>1, <4>2 DEF Return, Adding
      <4> QED
        BY <4>1, <4>3
    <3> QED
      BY <3>1, <3>2, <3>3
  <2>2. ASSUME NEW e \in Events', Adding', call'.val = e.val, e.val \notin behind
        PROVE  <<call'.name, entry(e, call'.type)>> \in Declared(wal)'
    <3>1. call' = call /\ Adding
      BY <1>2, <1>5, <2>2 DEF Adding
    <3>2. CASE e \in Events
      BY <1>1, <1>3, <2>2, <3>1, <3>2
    <3>3. CASE e \notin Events
      BY <2>a, <2>2, <3>1, <3>3
    <3> QED
      BY <3>2, <3>3
  <2> QED
    BY <2>0, <2>1, <2>2 DEF NamesOK, entry
<1> QED
  BY <1>4, <1>5


(***************************************************************************)
(* What was acknowledged is stored.                                        *)
(***************************************************************************)
LEMMA Answering ==
    /\ answered' = answered => Acked' = Acked /\ Failed' = Failed
    /\ Return(TRUE) => /\ Failed' = Failed /\ Acked \subseteq Acked'
                       /\ \A a \in Acked' : a \in Acked \/ (Adding /\ a.val = call.val)
    /\ Return(FALSE) => /\ Acked' = Acked /\ Failed \subseteq Failed'
                        /\ Adding => call.val \in Failed'
<1> DEFINE new(ok) == [name |-> call.name, type |-> call.type, ts |-> call.ts,
                       val |-> call.val, ok |-> ok]
<1>1. answered' = answered => Acked' = Acked /\ Failed' = Failed
  BY DEF Acked, Failed
<1>2. ASSUME Return(TRUE)
      PROVE  /\ Failed' = Failed /\ Acked \subseteq Acked'
             /\ \A a \in Acked' : a \in Acked \/ (Adding /\ a.val = call.val)
  <2>1. answered' = IF Adding THEN answered \cup {new(TRUE)} ELSE answered
    BY <1>2 DEF Return, Adding
  <2>2. new(TRUE).ok = TRUE /\ new(TRUE).val = call.val
    OBVIOUS
  <2> HIDE DEF new
  <2>3. Acked' = IF Adding THEN Acked \cup {new(TRUE)} ELSE Acked
    BY <2>1, <2>2 DEF Acked
  <2>4. \A a \in answered' : a \in answered' \ Acked' <=> a \in answered \ Acked
    BY <2>1, <2>2, <2>3 DEF Acked
  <2>5. answered' \ Acked' = answered \ Acked
    BY <2>1, <2>4
  <2> QED
    BY <2>2, <2>3, <2>5 DEF Failed
<1>3. ASSUME Return(FALSE)
      PROVE  /\ Acked' = Acked /\ Failed \subseteq Failed'
             /\ Adding => call.val \in Failed'
  <2>1. answered' = IF Adding THEN answered \cup {new(FALSE)} ELSE answered
    BY <1>3 DEF Return, Adding
  <2>2. new(FALSE).ok = FALSE /\ new(FALSE).val = call.val
    OBVIOUS
  <2> HIDE DEF new
  <2>3. Acked' = Acked
    BY <2>1, <2>2 DEF Acked
  <2>4. answered \ Acked \subseteq answered' \ Acked'
    BY <2>1, <2>3
  <2>5. Adding => new(FALSE) \in answered' \ Acked'
    BY <2>1, <2>2 DEF Acked
  <2> QED
    BY <2>2, <2>3, <2>4, <2>5 DEF Failed
<1> QED
  BY <1>1, <1>2, <1>3

\* An acknowledged call did not fail.
LEMMA AckedNotFailed ==
    ASSUME BookOK
    PROVE  \A a \in Acked : a.val \notin Failed
  BY DEF BookOK, AnswersOK, Acked, Failed

LEMMA NewEventDurable ==
    ASSUME TypeOK, BookOK, NEW e \in Logged, e.val \in newest,
           \A g \in Filed(PartAt(e)) : g.val < e.val
    PROVE  ~Durable(e)
<1>1. e \in Events /\ PartAt(e) \in Partition /\ e \in Event
  BY EventsTypes DEF Events
<1>2. \A g \in Filed(PartAt(e)) : g \in Events /\ PartAt(g) = PartAt(e)
  BY <1>1, InPartsIs DEF BookOK, EventsOK, Events
<1>3. \A g \in Filed(PartAt(e)) : g.ts < e.ts /\ g.ts \in Nat /\ e.ts \in Nat
  BY <1>1, <1>2, EventsTypes DEF BookOK, EventsOK
<1>4. \A g \in Filed(PartAt(e)) : ~(e.ts <= g.ts)
  BY <1>3
<1> QED
  BY <1>1, <1>4, DurableIs DEF BookOK, HandlerOK, TypeOK

\* Steps that leave the log, the files and the pages alone.
LEMMA DurableSame ==
    ASSUME TypeOK, BookOK, DurableOK, UNCHANGED <<wal, file, page, newest, behind>>,
           pc = "down" => pc' = "down",
           pc # "page" \/ UNCHANGED <<pc, call>>,
           Calm' => Calm,
           \/ answered' = answered
           \/ Return(TRUE) /\ (Adding => \E e \in InParts : e.val = call.val)
    PROVE  DurableOK'
<1>1. /\ Logged' = Logged /\ InParts' = InParts
      /\ \A p \in Partition : Filed(p)' = Filed(p) /\ Paged(p)' = Paged(p)
  BY SameMoves DEF InParts
<1>2. UNION {Filed(p) : p \in Partition}' = UNION {Filed(p) : p \in Partition}
  BY <1>1
<1>3. Failed' = Failed /\ \A a \in Acked' : \/ a \in Acked
                                            \/ Return(TRUE) /\ Adding /\ a.val = call.val
  BY Answering
<1>4. Owed' = Owed
  BY <1>1, <1>3 DEF Owed
<1>5. \A e \in InParts : e \in Logged \cup UNION {Filed(p) : p \in Partition}
                          \/ e.val \notin newest
  <2>1. \A e \in InParts : e \in UNION {Filed(p) : p \in Partition}
                           \/ \E p \in Partition : e \in Paged(p)
    BY DEF InParts
  <2> QED
    BY <2>1 DEF DurableOK, PagesLogged, BookOK, LogOK
<1>6. \A a \in Acked' : \/ a \in Acked
                        \/ \E e \in InParts : e.val = a.val
  BY <1>3, Returned, Answering
<1>7. \A a \in Acked' : a.val \in newest' =>
          \E e \in Logged' \cup UNION {Filed(p) : p \in Partition}' : e.val = a.val
  BY <1>1, <1>2, <1>5, <1>6 DEF DurableOK
<1>8. Calm' => \A a \in Acked' : \E e \in InParts' : e.val = a.val
  BY <1>1, <1>6 DEF DurableOK
<1>9. PagesLogged'
  BY <1>1 DEF DurableOK, PagesLogged
<1>10. \A e \in Owed : PartAt(e) \in Partition
  BY EventsTypes DEF Owed, Events
<1> QED
  BY <1>1, <1>4, <1>7, <1>8, <1>9, <1>10 DEF DurableOK


LEMMA OwedIs ==
    ASSUME TypeOK
    PROVE  \A e \in Owed : e \in Logged /\ e \in Events /\ PartAt(e) \in Partition
  BY EventsTypes DEF Owed, Events

LEMMA CallReached ==
    ASSUME BookOK, DurableOK, Adding, pc \in {"flush", "reset"}, TypeOK
    PROVE  /\ PartOf[call.ts] \in Partition
           /\ \E e \in InParts : e.val = call.val
           /\ \E e \in Filed(PartOf[call.ts]) \cup Paged(PartOf[call.ts]) : e.val = call.val
<1>1. PartOf[call.ts] \in Partition
  BY CallEventTypes DEF BookOK
<1>2. \E e \in Filed(PartOf[call.ts]) \cup Paged(PartOf[call.ts]) : e.val = call.val
  BY DEF BookOK, CallOK
<1> QED
  BY <1>1, <1>2, InPartsIs

LEMMA OpenDurable ==
    ASSUME TypeOK, BookOK, DurableOK, Open
    PROVE  DurableOK'
<1>1. HandlerOK /\ pc = "down" /\ page = NoPages
  BY DEF BookOK, HandlerOK, Open
<1>2. /\ Logged' = Logged
      /\ \A p \in Partition : /\ Filed(p)' = Filed(p) /\ Paged(p) = {}
                              /\ Paged(p)' = {e \in Logged : PartAt(e) = p /\ ~Durable(e)}
  BY <1>1, OpenMoves, NoPagesMoves
<1>3. UNCHANGED <<answered, newest, crashes, faults>>
  BY DEF Open
<1>4. /\ Owed' = Owed /\ Acked' = Acked
      /\ UNION {Filed(p) : p \in Partition}' = UNION {Filed(p) : p \in Partition}
  BY <1>2, <1>3, Answering DEF Owed
<1>5. ASSUME NEW e \in Owed PROVE e \in Filed(PartAt(e))' \cup Paged(PartAt(e))'
  <2>1. e \in Logged /\ PartAt(e) \in Partition /\ e.val \in newest
    BY OwedIs DEF Owed
  <2>2. CASE e \in Filed(PartAt(e))
    BY <1>2, <2>1, <2>2
  <2>3. CASE \A g \in Filed(PartAt(e)) : g.val < e.val
    BY <1>2, <2>1, <2>3, NewEventDurable
  <2> QED
    BY <2>2, <2>3 DEF DurableOK
<1>6. ASSUME Calm', NEW a \in Acked' PROVE \E e \in InParts' : e.val = a.val
  <2>1. PICK e \in InParts : e.val = a.val
    BY <1>3, <1>4, <1>6 DEF Calm, DurableOK
  <2>2. PICK p \in Partition : e \in Filed(p)
    BY <1>2, InPartsIs
  <2>3. e \in InParts'
    BY <1>2, <2>2 DEF InParts
  <2> QED
    BY <2>1, <2>3
<1>7. \A e \in Owed : PartAt(e) \in Partition
  BY OwedIs
<1>8. PagesLogged'
  BY <1>2 DEF PagesLogged
<1>9. \A e \in Owed' : e \in Filed(PartAt(e))' \/ \A g \in Filed(PartAt(e))' : g.val < e.val
  BY <1>2, <1>4, <1>7 DEF DurableOK
<1> QED
  BY <1>2, <1>3, <1>4, <1>5, <1>6, <1>8, <1>9 DEF DurableOK

LEMMA BeginAddDurable ==
    ASSUME TypeOK, BookOK, DurableOK, Calling
    PROVE  DurableOK'
<1>1. /\ UNCHANGED <<wal, file, page, answered, crashes, faults>> /\ pc = "idle"
      /\ pc' = "append" /\ newest' \subseteq newest \cup {calls + 1} /\ calls \in Nat
      /\ behind \subseteq behind'
  BY DEF Calling, BeginAdd, TypeOK
<1>2. /\ Logged' = Logged /\ InParts' = InParts
      /\ \A p \in Partition : Filed(p)' = Filed(p) /\ Paged(p)' = Paged(p)
  BY <1>1, SameMoves DEF InParts
<1>3. /\ Acked' = Acked /\ Failed' = Failed
      /\ UNION {Filed(p) : p \in Partition}' = UNION {Filed(p) : p \in Partition}
  BY <1>1, <1>2, Answering
<1>4. /\ \A e \in Events : e.val # calls + 1
      /\ \A a \in Acked : a.val # calls + 1
  <2>1. /\ \A e \in Events : e.val \in 1..calls
        /\ \A a \in Acked : a.val \in 1..calls
    BY DEF BookOK, EventsOK, AnswersOK, Acked
  <2> QED
    BY <1>1, <2>1
<1>5. Owed' \subseteq Owed
  BY <1>1, <1>2, <1>3, <1>4 DEF Owed, Events
<1>6. \A e \in Owed : PartAt(e) \in Partition
  BY OwedIs
<1>7. PagesLogged'
  BY <1>1, <1>2 DEF DurableOK, PagesLogged
<1>8. \A a \in Acked' : a.val \in newest' =>
          \E e \in Logged' \cup UNION {Filed(p) : p \in Partition}' : e.val = a.val
  BY <1>1, <1>2, <1>3, <1>4 DEF DurableOK
<1>9. Calm' => \A a \in Acked' : \E e \in InParts' : e.val = a.val
  BY <1>1, <1>2, <1>3 DEF DurableOK, Calm
<1> QED
  BY <1>1, <1>2, <1>5, <1>6, <1>7, <1>8, <1>9 DEF DurableOK

\* A record is written whole, or the append fails.
LEMMA LogDurable ==
    ASSUME TypeOK, BookOK, DurableOK, WritePayload \/ AppendFails
    PROVE  DurableOK'
<1> USE DEF BookOK
<1>1. /\ UNCHANGED <<file, page, newest, behind, crashes>> /\ pc \in {"append", "payload"}
      /\ Adding /\ (wal' = wal \/ wal' = Append(wal, CallRecord))
      /\ call.val = calls /\ calls \in Nat
  BY DEF WritePayload, AppendFails, Complete, HandlerOK, TypeOK
<1>2. /\ \A p \in Partition : Filed(p)' = Filed(p) /\ Paged(p)' = Paged(p)
      /\ InParts' = InParts
      /\ UNION {Filed(p) : p \in Partition}' = UNION {Filed(p) : p \in Partition}
  BY <1>1, SameMoves DEF InParts
<1>3. /\ CallEvent \in Event /\ CallEvent.val = call.val /\ CallEvent.ts = call.ts
      /\ PartAt(CallEvent) \in Partition
      /\ CallRecord \in Record /\ CallRecord.event = CallEvent
  BY <1>1, CallEventTypes, CallRecordTypes DEF PartAt
<1>4. Logged \subseteq Logged' /\ Logged' \subseteq Logged \cup {CallEvent}
  BY <1>1, <1>3, LogGrows, SameMoves
<1>5. \A g \in Filed(PartAt(CallEvent)) : g.val < call.val
  <2>1. \A g \in Filed(PartAt(CallEvent)) : g \in Events
    BY <1>3, InPartsIs DEF Events
  <2>2. \A g \in Filed(PartAt(CallEvent)) : g.val \in 1..calls /\ g.val # call.val
    BY <1>1, <2>1 DEF EventsOK, CallOK
  <2> QED
    BY <1>1, <2>2
<1>6. /\ Failed \subseteq Failed' /\ Acked' = Acked
      /\ AppendFails => call.val \in Failed' /\ faults' # 0 /\ pc' = "idle"
      /\ WritePayload => faults' = faults /\ pc' = "page" /\ call' = call
  <2>1. WritePayload => /\ answered' = answered /\ faults' = faults
                        /\ pc' = "page" /\ call' = call
    BY DEF WritePayload
  <2>2. AppendFails => Return(FALSE) /\ faults' = faults + 1 /\ faults \in Nat
    BY DEF AppendFails, TypeOK
  <2>3. AppendFails => faults' # 0
    BY <2>2
  <2> QED
    BY <1>1, <2>1, <2>2, <2>3, Answering, Returned
<1>7. \A e \in Owed' : e \in Owed \/ (WritePayload /\ e = CallEvent)
  BY <1>1, <1>3, <1>4, <1>6 DEF Owed
<1>8. \A e \in Owed : PartAt(e) \in Partition
  BY OwedIs
<1>9. \A e \in Owed' : e \in Filed(PartAt(e))' \/ \A g \in Filed(PartAt(e))' : g.val < e.val
  BY <1>2, <1>3, <1>5, <1>7, <1>8 DEF DurableOK
<1>10. \A e \in Owed' : \/ e \in Filed(PartAt(e))' \cup Paged(PartAt(e))'
                        \/ pc' = "page" /\ e.val = call'.val
  BY <1>1, <1>2, <1>3, <1>6, <1>7, <1>8 DEF DurableOK
<1>11. PagesLogged'
  BY <1>1, <1>2, <1>4 DEF DurableOK, PagesLogged
<1>12. \A a \in Acked' : a.val \in newest' =>
          \E e \in Logged' \cup UNION {Filed(p) : p \in Partition}' : e.val = a.val
  BY <1>1, <1>2, <1>4, <1>6 DEF DurableOK
<1>13. Calm' => \A a \in Acked' : \E e \in InParts' : e.val = a.val
  <2>1. Calm' => Calm
    BY <1>1, <1>6 DEF Calm
  <2> QED
    BY <1>2, <1>6, <2>1 DEF DurableOK
<1> QED
  BY <1>9, <1>10, <1>11, <1>12, <1>13 DEF DurableOK

LEMMA PageDurable ==
    ASSUME TypeOK, BookOK, DurableOK, AddToPage
    PROVE  DurableOK'
<1> USE DEF BookOK
<1> DEFINE q == PartOf[call.ts]
<1>1. /\ UNCHANGED <<wal, file, newest, behind, crashes, faults>> /\ pc = "page" /\ Adding
      /\ page' = [page EXCEPT ![q] = Append(@, CallEvent)] /\ pc' # "page"
      /\ Return(TRUE) \/ answered' = answered
  BY DEF AddToPage, HandlerOK, Return
<1>2. /\ CallEvent \in Event /\ CallEvent.val = call.val /\ q \in Partition
      /\ PartAt(CallEvent) = q /\ (CallEvent \in Logged \/ call.val \in behind)
      /\ call.val \in newest => CallEvent \in Logged
  BY <1>1, CallEventTypes DEF PartAt, CallOK, LogOK
<1>3. /\ Logged' = Logged
      /\ \A p \in Partition : /\ Filed(p)' = Filed(p)
                              /\ Paged(p)' = IF p = q THEN Paged(p) \cup {CallEvent} ELSE Paged(p)
  BY <1>1, <1>2, SameMoves, PageGrows
<1>4. UNION {Filed(p) : p \in Partition}' = UNION {Filed(p) : p \in Partition}
  BY <1>3
<1>5. InParts \subseteq InParts' /\ CallEvent \in InParts'
  <2>1. \A p \in Partition : Filed(p) \cup Paged(p) \subseteq Filed(p)' \cup Paged(p)'
    BY <1>3
  <2>2. \A e \in InParts : e \in InParts'
    BY <2>1 DEF InParts
  <2>3. CallEvent \in Paged(q)' => CallEvent \in InParts'
    BY <1>2, <1>3 DEF InParts
  <2>4. \A p \in Partition : p = q => CallEvent \in Paged(p)'
    BY <1>3
  <2>5. CallEvent \in InParts'
    BY <1>2, <2>4 DEF InParts
  <2> QED
    BY <2>2, <2>5
<1>6. /\ Failed' = Failed
      /\ \A a \in Acked' : a \in Acked \/ a.val = CallEvent.val
  BY <1>1, <1>2, Answering
<1>7. Owed' = Owed
  BY <1>1, <1>3, <1>6 DEF Owed
<1>8. \A e \in Owed : PartAt(e) \in Partition /\ e \in Events /\ e \in Logged
  BY OwedIs
<1>9. \A e \in Owed : e.val = call.val => e = CallEvent
  BY <1>2, <1>8 DEF EventsOK, Events, Owed
<1>10. ASSUME NEW e \in Owed' PROVE e \in Filed(PartAt(e))' \cup Paged(PartAt(e))'
  <2>1. e \in Filed(PartAt(e)) \cup Paged(PartAt(e)) \/ e = CallEvent
    BY <1>1, <1>7, <1>9 DEF DurableOK
  <2> QED
    BY <1>2, <1>3, <1>7, <1>8, <2>1
<1>11. \A e \in Owed' : e \in Filed(PartAt(e))' \/ \A g \in Filed(PartAt(e))' : g.val < e.val
  BY <1>3, <1>7, <1>8 DEF DurableOK
<1>12. PagesLogged'
  BY <1>1, <1>2, <1>3 DEF DurableOK, PagesLogged
<1>13. \A a \in Acked' : a.val \in newest' =>
          \E e \in Logged' \cup UNION {Filed(p) : p \in Partition}' : e.val = a.val
  BY <1>1, <1>2, <1>3, <1>4, <1>6 DEF DurableOK
<1>14. Calm' => \A a \in Acked' : \E e \in InParts' : e.val = a.val
  BY <1>1, <1>5, <1>6 DEF DurableOK, Calm
<1> QED
  BY <1>10, <1>11, <1>12, <1>13, <1>14 DEF DurableOK


LEMMA FrameDurable ==
    ASSUME TypeOK, BookOK, DurableOK, AppendFrame
    PROVE  DurableOK'
<1> USE DEF BookOK
<1>1. /\ UNCHANGED <<wal, newest, behind, answered, crashes, faults, call>> /\ pc = "flush"
      /\ pc' \in {"reset", "drain"}
  BY DEF AppendFrame
<1>2. /\ flushing \in Partition /\ Logged' = Logged
      /\ \A p \in Partition :
            /\ p = flushing => Filed(p)' = Filed(p) \cup Paged(p) /\ Paged(p)' = {}
            /\ p # flushing => Filed(p)' = Filed(p) /\ Paged(p)' = Paged(p)
  BY FrameMoves
<1>3. Acked' = Acked /\ Owed' = Owed
  BY <1>1, <1>2, Answering DEF Owed
<1>4. \A e \in Owed : PartAt(e) \in Partition /\ e \in Filed(PartAt(e)) \cup Paged(PartAt(e))
  BY <1>1, OwedIs DEF DurableOK
<1>5. \A e \in Owed' : e \in Filed(PartAt(e))' \/ \A g \in Filed(PartAt(e))' : g.val < e.val
  <2> SUFFICES ASSUME NEW e \in Owed
               PROVE  e \in Filed(PartAt(e))' \/ \A g \in Filed(PartAt(e))' : g.val < e.val
    BY <1>3
  <2>1. CASE PartAt(e) = flushing
    BY <1>2, <1>4, <2>1
  <2>2. CASE PartAt(e) # flushing
    BY <1>2, <1>4, <2>2 DEF DurableOK
  <2> QED
    BY <2>1, <2>2
<1>6. \A e \in Owed' : e \in Filed(PartAt(e))' \cup Paged(PartAt(e))'
  BY <1>2, <1>3, <1>4
<1>7. PagesLogged'
  BY <1>1, <1>2 DEF DurableOK, PagesLogged
<1>8. \A e \in Logged \cup UNION {Filed(p) : p \in Partition} :
          e \in Logged' \cup UNION {Filed(p) : p \in Partition}'
  <2>1. \A p \in Partition : Filed(p) \subseteq Filed(p)'
    BY <1>2
  <2> QED
    BY <1>2, <2>1
<1>9. InParts' = InParts
  <2>1. \A p \in Partition : Filed(p)' \cup Paged(p)' = Filed(p) \cup Paged(p)
    BY <1>2
  <2> QED
    BY <2>1 DEF InParts
<1>10. \A a \in Acked' : a.val \in newest' =>
          \E e \in Logged' \cup UNION {Filed(p) : p \in Partition}' : e.val = a.val
  BY <1>1, <1>3, <1>8 DEF DurableOK
<1>11. Calm' => \A a \in Acked' : \E e \in InParts' : e.val = a.val
  BY <1>1, <1>3, <1>9 DEF DurableOK, Calm
<1> QED
  BY <1>5, <1>6, <1>7, <1>10, <1>11 DEF DurableOK

LEMMA ResetDurable ==
    ASSUME TypeOK, BookOK, DurableOK, ResetWAL, sized
    PROVE  DurableOK'
<1> USE DEF BookOK
<1>1. /\ UNCHANGED <<file, page, newest, crashes, faults>> /\ pc = "reset" /\ page = NoPages
      /\ wal' = <<>> /\ (answered' = answered \/ Return(TRUE))
  BY DEF ResetWAL, AfterReset, MayReset
<1>2. /\ Logged' = {} /\ InParts' = InParts
      /\ \A p \in Partition : Filed(p)' = Filed(p) /\ Paged(p)' = {} /\ Paged(p) = {}
  <2>1. InParts' = InParts
    BY <1>1 DEF InParts, Filed, Paged
  <2> QED
    BY <1>1, <2>1, SameMoves, NoPagesMoves
<1>3. Owed' = {}
  BY <1>2 DEF Owed
<1>4. UNION {Filed(p) : p \in Partition}' = UNION {Filed(p) : p \in Partition}
  BY <1>2
<1>5. \A e \in InParts : e \in UNION {Filed(p) : p \in Partition}
  BY <1>2 DEF InParts
<1>6. ASSUME NEW a \in Acked', a.val \in newest
      PROVE  \E e \in UNION {Filed(p) : p \in Partition} : e.val = a.val
  <2>1. CASE a \in Acked
    <3>1. PICK e \in Logged \cup UNION {Filed(p) : p \in Partition} : e.val = a.val
      BY <1>6, <2>1 DEF DurableOK
    <3>2. CASE e \in Logged
      <4>1. e \in Owed
        BY <1>6, <2>1, <3>1, <3>2, AckedNotFailed DEF Owed
      <4>2. PartAt(e) \in Partition /\ e \in Filed(PartAt(e))
        BY <1>1, <1>2, <4>1, OwedIs DEF DurableOK
      <4> QED
        BY <3>1, <4>2
    <3> QED
      BY <3>1, <3>2
  <2>2. CASE a \notin Acked
    <3>1. Adding /\ a.val = call.val
      BY <1>1, <2>2, Answering
    <3> QED
      BY <1>1, <1>5, <3>1, CallReached
  <2> QED
    BY <2>1, <2>2
<1>7. ASSUME Calm', NEW a \in Acked' PROVE \E e \in InParts' : e.val = a.val
  <2>1. a \in Acked \/ (Adding /\ a.val = call.val)
    BY <1>1, Answering
  <2>2. Calm
    BY <1>1, <1>7 DEF Calm
  <2> QED
    BY <1>1, <1>2, <2>1, <2>2, CallReached DEF DurableOK
<1>8. PagesLogged'
  BY <1>2 DEF PagesLogged
<1> QED
  BY <1>1, <1>3, <1>4, <1>6, <1>7, <1>8 DEF DurableOK

LEMMA FailDurable ==
    ASSUME TypeOK, BookOK, DurableOK, WriteFails
    PROVE  DurableOK'
<1> USE DEF BookOK
<1>1. /\ newest' = newest /\ behind' = behind /\ faults' # 0 /\ pc # "down" /\ pc # "page" /\ pc' # "page"
      /\ pc = "persist" => pc' = "down"
      /\ answered' = answered \/ Return(FALSE)
  <2>1. faults' = faults + 1 /\ faults \in Nat
    BY DEF WriteFails, TypeOK
  <2>2. faults' # 0
    BY <2>1
  <2> QED
    BY <2>2 DEF WriteFails, LoseMemory, Return
<1>2. /\ Logged' = Logged
      /\ \A p \in Partition :
            /\ Filed(p)' = Filed(p) \/ Filed(p)' = Filed(p) \cup Paged(p)
            /\ Paged(p)' = IF pc = "persist" THEN {} ELSE Paged(p)
  BY FailMoves
<1>3. Acked' = Acked /\ Owed' \subseteq Owed
  BY <1>1, <1>2, Answering DEF Owed
<1>4. \A e \in Owed : PartAt(e) \in Partition /\ e \in Filed(PartAt(e)) \cup Paged(PartAt(e))
  BY <1>1, OwedIs DEF DurableOK
<1>5. ASSUME NEW e \in Owed
      PROVE  e \in Filed(PartAt(e))' \/ \A g \in Filed(PartAt(e))' : g.val < e.val
  <2>1. CASE Filed(PartAt(e))' = Filed(PartAt(e))
    BY <2>1 DEF DurableOK
  <2>2. CASE Filed(PartAt(e))' = Filed(PartAt(e)) \cup Paged(PartAt(e))
    BY <1>4, <2>2
  <2> QED
    BY <1>2, <1>4, <2>1, <2>2
<1>6. pc' # "down" => \A e \in Owed : e \in Filed(PartAt(e))' \cup Paged(PartAt(e))'
  BY <1>1, <1>2, <1>4
<1>7. PagesLogged'
  BY <1>1, <1>2 DEF DurableOK, PagesLogged
<1>8. \A e \in Logged \cup UNION {Filed(p) : p \in Partition} :
          e \in Logged' \cup UNION {Filed(p) : p \in Partition}'
  <2>1. \A p \in Partition : Filed(p) \subseteq Filed(p)'
    BY <1>2
  <2> QED
    BY <1>2, <2>1
<1>9. \A a \in Acked' : a.val \in newest' =>
          \E e \in Logged' \cup UNION {Filed(p) : p \in Partition}' : e.val = a.val
  BY <1>1, <1>3, <1>8 DEF DurableOK
<1>10. ~Calm'
  BY <1>1 DEF Calm
<1> QED
  BY <1>3, <1>5, <1>6, <1>7, <1>9, <1>10 DEF DurableOK

\* Memory is lost, by a crash or at the end of Close.
LEMMA LossDurable ==
    ASSUME TypeOK, BookOK, DurableOK, Crash \/ PersistCatalog
    PROVE  DurableOK'
<1> USE DEF BookOK
<1>1. /\ UNCHANGED <<wal, file, newest, answered, faults>> /\ pc' = "down" /\ page' = NoPages
  BY DEF Crash, PersistCatalog, LoseMemory
<1>2. /\ Logged' = Logged
      /\ \A p \in Partition : Filed(p)' = Filed(p) /\ Paged(p)' = {}
  BY <1>1, SameMoves, NoPagesMoves
<1>3. /\ Acked' = Acked /\ Owed' = Owed
      /\ UNION {Filed(p) : p \in Partition}' = UNION {Filed(p) : p \in Partition}
  BY <1>1, <1>2, Answering DEF Owed
<1>4. \A e \in Owed : PartAt(e) \in Partition
  BY OwedIs
<1>5. ASSUME Calm', NEW a \in Acked' PROVE \E e \in InParts' : e.val = a.val
  <2>1. PersistCatalog /\ crashes' = crashes
    <3>1. Crash => crashes' = crashes + 1 /\ crashes \in Nat
      BY DEF Crash, TypeOK
    <3>2. Crash => crashes' # 0
      BY <3>1
    <3> QED
      BY <1>5, <3>2 DEF Calm, PersistCatalog
  <2>2. Calm /\ page = NoPages
    BY <1>1, <1>5, <2>1 DEF Calm, PersistCatalog, HandlerOK
  <2>3. PICK e \in InParts : e.val = a.val
    BY <1>3, <1>5, <2>2 DEF DurableOK
  <2>4. PICK p \in Partition : e \in Filed(p)
    BY <2>2, InPartsIs, NoPagesMoves
  <2>5. e \in InParts'
    BY <1>2, <2>4 DEF InParts
  <2> QED
    BY <2>3, <2>5
<1>6. \A e \in Owed' : e \in Filed(PartAt(e))' \/ \A g \in Filed(PartAt(e))' : g.val < e.val
  BY <1>2, <1>3, <1>4 DEF DurableOK
<1>7. \A a \in Acked' : a.val \in newest' =>
          \E e \in Logged' \cup UNION {Filed(p) : p \in Partition}' : e.val = a.val
  BY <1>1, <1>2, <1>3 DEF DurableOK
<1>8. PagesLogged'
  BY <1>2 DEF PagesLogged
<1> QED
  BY <1>1, <1>5, <1>6, <1>7, <1>8 DEF DurableOK

LEMMA DurableWrite ==
    ASSUME TypeOK, BookOK, DurableOK, Write
    PROVE  DurableOK'
<1>1. CASE Open
  BY <1>1, OpenDurable
<1>2. CASE OpenFails \/ CatalogBeforeReset
  <2>1. UNCHANGED <<wal, file, page, newest, behind, answered, pc, call, crashes, faults>>
    BY <1>2 DEF OpenFails, CatalogBeforeReset
  <2> QED
    BY <2>1, DurableSame DEF Calm
<1>3. CASE Calling
  BY <1>3, BeginAddDurable
<1>a. CASE WriteLength
  <2>1. UNCHANGED <<wal, file, page, newest, behind, answered, crashes, faults>>
        /\ pc = "append"
    BY <1>a DEF WriteLength
  <2> QED
    BY <2>1, DurableSame DEF Calm
<1>4. CASE WritePayload \/ AppendFails
  BY <1>4, LogDurable
<1>5. CASE AddToPage
  BY <1>5, PageDurable
<1>6. CASE (\E op \in {"flush", "close"} : BeginDrain(op))
           \/ (\E p \in Partition : DrainPage(p)) \/ DrainDone
  <2>1. UNCHANGED <<wal, file, page, newest, behind, answered, crashes, faults>>
        /\ pc # "down" /\ pc # "page"
    BY <1>6 DEF BeginDrain, DrainPage, DrainDone
  <2> QED
    BY <2>1, DurableSame DEF Calm
<1>7. CASE AppendFrame
  BY <1>7, FrameDurable
<1>8. CASE KeepWAL \/ (ResetWAL /\ ~sized)
  <2>1. /\ UNCHANGED <<wal, file, page, newest, behind, crashes, faults>> /\ pc = "reset"
        /\ answered' = answered \/ Return(TRUE)
    BY <1>8 DEF KeepWAL, ResetWAL, AfterReset
  <2>2. Adding => \E e \in InParts : e.val = call.val
    BY <2>1, CallReached
  <2> QED
    BY <2>1, <2>2, DurableSame DEF Calm
<1>9. CASE ResetWAL /\ sized
  BY <1>9, ResetDurable
<1>10. CASE WriteFails
  BY <1>10, FailDurable
<1>11. CASE Crash \/ PersistCatalog
  BY <1>11, LossDurable
<1> QED
  BY <1>1, <1>2, <1>3, <1>a, <1>4, <1>5, <1>6, <1>7, <1>8, <1>9, <1>10, <1>11
     DEF Write, Calling


(***************************************************************************)
(* Nothing is stored twice while no write fails.                           *)
(***************************************************************************)
LEMMA NoFault ==
    ASSUME TypeOK, Write, faults' = 0
    PROVE  faults = 0 /\ ~AppendFails /\ ~WriteFails
<1>1. AppendFails \/ WriteFails => faults' = faults + 1 /\ faults \in Nat
  BY DEF AppendFails, WriteFails, TypeOK
<1>2. AppendFails \/ WriteFails => faults' # 0
  BY <1>1
<1>3. faults' = faults \/ AppendFails \/ WriteFails
  BY DEF Write, Open, OpenFails, BeginAdd, WriteLength, WritePayload, AddToPage, BeginDrain,
     DrainPage, DrainDone, AppendFrame, KeepWAL, CatalogBeforeReset, ResetWAL,
     PersistCatalog, Crash
<1> QED
  BY <1>2, <1>3

LEMMA DurableKept ==
    ASSUME file' = file
    PROVE  \A e : Durable(e)' <=> Durable(e)
  BY DEF Durable

LEMMA OnceSame ==
    ASSUME OnceOK, faults' = faults,
           \/ /\ UNCHANGED <<wal, file, page>>
              /\ pc' = "down" \/ pc # "down"
              /\ pc # "page" \/ UNCHANGED <<pc, call>>
           \/ UNCHANGED <<wal, file>> /\ pc' = "down" /\ page' = NoPages
    PROVE  OnceOK'
<1> SUFFICES ASSUME faults = 0 PROVE OnceOK'
  BY DEF OnceOK
<1>1. Logged' = Logged /\ \A p \in Partition : Filed(p)' = Filed(p)
  BY SameMoves
<1>2. \A e : Durable(e)' <=> Durable(e)
  BY DurableKept
<1>3. \A e \in Logged : Durable(e) \/ \A g \in Filed(PartAt(e)) : g.val < e.val
  BY DEF OnceOK
<1>4. \A e \in Logged' : Durable(e)' \/ \A g \in Filed(PartAt(e))' : g.val < e.val
  BY <1>1, <1>2, <1>3 DEF Filed
<1>5. Distinct(LogEvents(wal)) /\ LogEvents(wal)' = LogEvents(wal)
  BY DEF OnceOK, LogEvents
<1>6. \A p \in Partition : Disjoint(file[p]) /\ file'[p] = file[p]
  BY DEF OnceOK
<1>7. CASE /\ UNCHANGED <<wal, file, page>>
           /\ pc' = "down" \/ pc # "down"
           /\ pc # "page" \/ UNCHANGED <<pc, call>>
  <2>1. pc' # "down" =>
           \A e \in Logged' : \/ e \in Paged(PartAt(e))' \/ Durable(e)'
                              \/ pc' = "page" /\ e.val = call'.val
    BY <1>1, <1>2, <1>7 DEF OnceOK, Paged
  <2>2. \A p \in Partition :
           /\ Distinct(page'[p]) /\ Disjoint(file'[p])
           /\ \A e \in Filed(p)', g \in Paged(p)' : e.val # g.val
    BY <1>1, <1>6, <1>7, SameMoves DEF OnceOK
  <2> QED
    BY <1>4, <1>5, <2>1, <2>2 DEF OnceOK
<1>8. CASE UNCHANGED <<wal, file>> /\ pc' = "down" /\ page' = NoPages
  <2>1. \A p \in Partition : Distinct(page'[p]) /\ Paged(p)' = {}
    BY <1>8, NoPagesMoves DEF NoPages, Distinct
  <2> QED
    BY <1>4, <1>5, <1>6, <1>8, <2>1 DEF OnceOK
<1> QED
  BY <1>7, <1>8

LEMMA OpenOnce ==
    ASSUME TypeOK, BookOK, OnceOK, Open
    PROVE  OnceOK'
<1> SUFFICES ASSUME faults = 0 PROVE OnceOK'
  BY DEF OnceOK, Open
<1>1. HandlerOK /\ pc' = "idle" /\ UNCHANGED <<wal, file>>
  BY DEF BookOK, Open
<1>2. /\ Logged' = Logged
      /\ \A p \in Partition :
            /\ Filed(p)' = Filed(p)
            /\ Paged(p)' = {e \in Logged : PartAt(e) = p /\ ~Durable(e)}
  BY <1>1, OpenMoves
<1>3. \A e : Durable(e)' <=> Durable(e)
  BY <1>1, DurableKept
<1>4. \A e \in Logged : Durable(e) \/ \A g \in Filed(PartAt(e)) : g.val < e.val
  BY DEF OnceOK
<1>5. \A e \in Logged : PartAt(e) \in Partition
  BY EventsTypes DEF Events
<1>6. \A e \in Logged' : e \in Paged(PartAt(e))' \/ Durable(e)'
  BY <1>2, <1>3, <1>5
<1>7. \A e \in Logged' : Durable(e)' \/ \A g \in Filed(PartAt(e))' : g.val < e.val
  BY <1>2, <1>3, <1>4, <1>5
<1>8. Distinct(LogEvents(wal)) /\ LogEvents(wal)' = LogEvents(wal)
  BY <1>1 DEF OnceOK, LogEvents
<1>9. ASSUME NEW p \in Partition
      PROVE  /\ Distinct(page'[p]) /\ Disjoint(file'[p])
             /\ \A e \in Filed(p)', g \in Paged(p)' : e.val # g.val
  <2>1. page'[p] = ReplayedOf(p)
    BY DEF Open
  <2>2. wal \in Seq(Record)
    BY DEF TypeOK
  <2>3. Distinct(page'[p])
    BY <1>8, <2>1, <2>2, Replayed
  <2>4. Disjoint(file'[p])
    BY <1>1 DEF OnceOK
  <2>5. \A e \in Filed(p) : e.val \in Nat
    BY EventsTypes, EventParts
  <2>6. ASSUME NEW e \in Filed(p), NEW g \in Logged, PartAt(g) = p, ~Durable(g)
        PROVE  e.val # g.val
    <3>1. e.val < g.val
      BY <1>4, <2>6
    <3>2. g.val \in Nat
      BY EventsTypes DEF Events
    <3> QED
      BY <2>5, <3>1, <3>2
  <2> QED
    BY <1>2, <2>3, <2>4, <2>6
<1> QED
  BY <1>6, <1>7, <1>8, <1>9 DEF OnceOK

LEMMA LogOnce ==
    ASSUME TypeOK, BookOK, OnceOK, WritePayload, torn = 1
    PROVE  OnceOK'
<1> USE DEF BookOK
<1> SUFFICES ASSUME faults = 0 PROVE OnceOK'
  BY DEF OnceOK, WritePayload
<1>1. /\ UNCHANGED <<file, page, call>> /\ pc = "payload" /\ pc' = "page" /\ Adding
      /\ wal' = Append(wal, CallRecord) /\ call.val = calls /\ calls \in Nat
  BY DEF WritePayload, Complete, HandlerOK, TypeOK
<1>2. /\ CallEvent \in Event /\ CallEvent.val = call.val
      /\ PartAt(CallEvent) \in Partition
      /\ CallRecord \in Record /\ CallRecord.event = CallEvent
  BY <1>1, CallEventTypes, CallRecordTypes DEF PartAt
<1>3. /\ Logged' = Logged \cup {CallEvent} /\ wal' \in Seq(Record) /\ wal \in Seq(Record)
      /\ \A p \in Partition : Filed(p)' = Filed(p) /\ Paged(p)' = Paged(p)
  BY <1>1, <1>2, LogGrows, SameMoves DEF TypeOK
<1>4. \A e : Durable(e)' <=> Durable(e)
  BY <1>1, DurableKept
<1>5. \A g \in Filed(PartAt(CallEvent)) : g.val < call.val
  <2>1. \A g \in Filed(PartAt(CallEvent)) : g \in Events
    BY <1>2, InPartsIs DEF Events
  <2>2. \A g \in Filed(PartAt(CallEvent)) : g.val \in 1..calls /\ g.val # call.val
    BY <1>1, <2>1 DEF EventsOK, CallOK
  <2> QED
    BY <1>1, <2>2
<1>6. \A e \in Logged : PartAt(e) \in Partition
  BY EventsTypes DEF Events
<1>7. \A e \in Logged' : \/ e \in Paged(PartAt(e))' \/ Durable(e)'
                         \/ pc' = "page" /\ e.val = call'.val
  BY <1>1, <1>2, <1>3, <1>4, <1>6 DEF OnceOK
<1>8. \A e \in Logged' : Durable(e)' \/ \A g \in Filed(PartAt(e))' : g.val < e.val
  BY <1>2, <1>3, <1>4, <1>5, <1>6 DEF OnceOK
<1>9. Distinct(LogEvents(wal)')
  <2> DEFINE n == Len(wal) + 1
  <2>1. /\ DOMAIN wal' = DOMAIN wal \cup {n} /\ n \notin DOMAIN wal
        /\ wal'[n] = CallRecord /\ \A k \in DOMAIN wal : wal'[k] = wal[k]
    BY <1>1, <1>2, <1>3, AppendElements
  <2> DEFINE L == LogEvents(wal)'
  <2>2. L = [k \in DOMAIN wal' |-> wal'[k].event]
    BY DEF LogEvents
  <2>3. /\ DOMAIN L = DOMAIN wal \cup {n} /\ L[n] = CallEvent
        /\ \A k \in DOMAIN wal : L[k] = wal[k].event
    BY <1>2, <2>1, <2>2
  <2>4. \A k \in DOMAIN wal : wal[k].event.val # call.val
    <3>1. \A k \in DOMAIN wal : wal[k].event \in Events
      BY DEF Events, Logged
    <3> QED
      BY <1>1, <3>1 DEF CallOK
  <2>5. \A i, j \in DOMAIN wal : wal[i].event.val = wal[j].event.val => i = j
    BY DEF OnceOK, Distinct, LogEvents
  <2> HIDE DEF L, n
  <2> QED
    BY <1>2, <2>3, <2>4, <2>5 DEF Distinct, L
<1>10. \A p \in Partition :
          /\ Distinct(page'[p]) /\ Disjoint(file'[p])
          /\ \A e \in Filed(p)', g \in Paged(p)' : e.val # g.val
  BY <1>1, <1>3 DEF OnceOK
<1> QED
  BY <1>7, <1>8, <1>9, <1>10 DEF OnceOK

LEMMA PageOnce ==
    ASSUME TypeOK, BookOK, OnceOK, AddToPage
    PROVE  OnceOK'
<1> USE DEF BookOK
<1> SUFFICES ASSUME faults = 0 PROVE OnceOK'
  BY DEF OnceOK, AddToPage
<1> DEFINE q == PartOf[call.ts]
<1>1. /\ UNCHANGED <<wal, file>> /\ pc = "page" /\ Adding
      /\ page' = [page EXCEPT ![q] = Append(@, CallEvent)]
  BY DEF AddToPage, HandlerOK
<1>2. /\ CallEvent \in Event /\ CallEvent.val = call.val /\ q \in Partition
      /\ PartAt(CallEvent) = q
      /\ CallEvent \in Logged \/ \A e \in Events : e.val # call.val
  BY <1>1, CallEventTypes DEF PartAt, CallOK
<1>3. /\ Logged' = Logged
      /\ \A p \in Partition : /\ Filed(p)' = Filed(p)
                              /\ Paged(p)' = IF p = q THEN Paged(p) \cup {CallEvent} ELSE Paged(p)
  BY <1>1, <1>2, SameMoves, PageGrows
<1>4. \A e : Durable(e)' <=> Durable(e)
  BY <1>1, DurableKept
<1>5. \A e \in Logged : PartAt(e) \in Partition /\ (e.val = call.val => e = CallEvent)
  <2>1. \A e \in Logged : e \in Events
    BY DEF Events
  <2> QED
    BY <1>2, <2>1, EventsTypes DEF EventsOK
<1>6. ASSUME NEW e \in Logged PROVE e \in Paged(PartAt(e))' \/ Durable(e)'
  <2>1. e \in Paged(PartAt(e)) \/ Durable(e) \/ e = CallEvent
    BY <1>1, <1>5 DEF OnceOK
  <2> QED
    BY <1>2, <1>3, <1>4, <1>5, <2>1
<1>7. \A e \in Logged' : Durable(e)' \/ \A g \in Filed(PartAt(e))' : g.val < e.val
  BY <1>3, <1>4, <1>5 DEF OnceOK
<1>8. Distinct(LogEvents(wal)) /\ LogEvents(wal)' = LogEvents(wal)
  BY <1>1 DEF OnceOK, LogEvents
<1>9. \A p \in Partition : \A e \in Filed(p) \cup Paged(p) : e.val # call.val
  BY <1>1, InPartsIs DEF CallOK
<1>10. ASSUME NEW p \in Partition
       PROVE  /\ Distinct(page'[p]) /\ Disjoint(file'[p])
              /\ \A e \in Filed(p)', g \in Paged(p)' : e.val # g.val
  <2>1. Disjoint(file'[p]) /\ Distinct(page[p])
        /\ \A e \in Filed(p), g \in Paged(p) : e.val # g.val
    BY <1>1 DEF OnceOK
  <2>2. \A e \in Filed(p)', g \in Paged(p)' : e.val # g.val
    BY <1>2, <1>3, <1>9, <2>1
  <2>3. CASE p = q
    <3> DEFINE n == Len(page[p]) + 1
    <3>1. page[p] \in Seq(Event) /\ page'[p] = Append(page[p], CallEvent)
      BY <1>1, <2>3 DEF TypeOK
    <3>2. /\ DOMAIN page'[p] = DOMAIN page[p] \cup {n} /\ page'[p][n] = CallEvent
          /\ \A k \in DOMAIN page[p] : page'[p][k] = page[p][k]
      BY <1>2, <3>1, AppendElements
    <3>3. \A k \in DOMAIN page[p] : page[p][k].val # call.val
      BY <1>9 DEF Paged
    <3> HIDE DEF n
    <3>4. Distinct(page'[p])
      BY <1>2, <2>1, <3>2, <3>3 DEF Distinct
    <3> QED
      BY <2>1, <2>2, <3>4
  <2>4. CASE p # q
    <3>1. page'[p] = page[p]
      BY <1>1, <2>4 DEF TypeOK
    <3> QED
      BY <2>1, <2>2, <3>1
  <2> QED
    BY <2>3, <2>4
<1>11. \A e \in Logged' : e \in Paged(PartAt(e))' \/ Durable(e)'
  BY <1>3, <1>6
<1> QED
  BY <1>7, <1>8, <1>10, <1>11 DEF OnceOK

\* A frame whose events are in no other one joins the file.
LEMMA DisjointAppend ==
    ASSUME NEW E, NEW fs \in Seq(Seq(E)), NEW s \in Seq(E), Disjoint(fs), Distinct(s),
           \A f \in DOMAIN fs : \A i \in DOMAIN fs[f] : \A j \in DOMAIN s : fs[f][i].val # s[j].val,
           NEW gs, gs = Append(fs, s)
    PROVE  Disjoint(gs)
<1> DEFINE n == Len(fs) + 1
<1>1. /\ DOMAIN gs = DOMAIN fs \cup {n} /\ n \notin DOMAIN fs /\ gs[n] = s
      /\ \A f \in DOMAIN fs : gs[f] = fs[f]
  BY AppendElements
<1> HIDE DEF n
<1>2. \A f \in DOMAIN gs : Distinct(gs[f])
  BY <1>1 DEF Disjoint
<1>3. SUFFICES ASSUME NEW f \in DOMAIN gs, NEW h \in DOMAIN gs,
                      NEW i \in DOMAIN gs[f], NEW j \in DOMAIN gs[h],
                      gs[f][i].val = gs[h][j].val
               PROVE  f = h
  BY <1>2 DEF Disjoint
<1>4. CASE f \in DOMAIN fs /\ h \in DOMAIN fs
  BY <1>1, <1>3, <1>4 DEF Disjoint
<1>5. CASE f \in DOMAIN fs /\ h = n
  BY <1>1, <1>3, <1>5
<1>6. CASE f = n /\ h \in DOMAIN fs
  BY <1>1, <1>3, <1>6
<1> QED
  BY <1>1, <1>4, <1>5, <1>6

Watermarks == file \in [Partition -> Seq(Seq(Event))] /\ Frames =>
                 \A e \in Event : Durable(e) <=> \E g \in Filed(PartAt(e)) : e.ts <= g.ts

LEMMA DurableAll == Watermarks
  BY DurableIs DEF Watermarks

LEMMA FrameOnce ==
    ASSUME TypeOK, BookOK, OnceOK, AppendFrame, TypeOK', HandlerOK'
    PROVE  OnceOK'
<1> USE DEF BookOK
<1> SUFFICES ASSUME faults = 0 PROVE OnceOK'
  BY DEF OnceOK, AppendFrame
<1>1. /\ wal' = wal /\ pc = "flush"
      /\ file' = [file EXCEPT ![flushing] = Append(@, page[flushing])]
      /\ page' = [page EXCEPT ![flushing] = <<>>]
  BY DEF AppendFrame
<1>2. /\ flushing \in Partition /\ Logged' = Logged
      /\ \A p \in Partition :
            /\ p = flushing => Filed(p)' = Filed(p) \cup Paged(p) /\ Paged(p)' = {}
            /\ p # flushing => Filed(p)' = Filed(p) /\ Paged(p)' = Paged(p)
  BY FrameMoves
<1>3. \A e \in Logged : e \in Event /\ PartAt(e) \in Partition /\ e.ts \in Nat
  BY EventsTypes DEF Events
<1>4. ASSUME NEW e \in Event PROVE Durable(e) <=> \E g \in Filed(PartAt(e)) : e.ts <= g.ts
  BY <1>4, DurableIs DEF TypeOK, HandlerOK
<1>5. ASSUME NEW e \in Event PROVE Durable(e)' <=> \E g \in Filed(PartAt(e))' : e.ts <= g.ts
  <2>1. Watermarks'
    BY DurableAll, PTL
  <2>2. file' \in [Partition -> Seq(Seq(Event))] /\ Frames'
    BY DEF TypeOK, HandlerOK
  <2> QED
    BY <1>5, <2>1, <2>2 DEF Watermarks
<1>6. \A p \in Partition : Filed(p) \subseteq Filed(p)'
  BY <1>2
<1>7. ASSUME NEW e \in Logged PROVE e \in Paged(PartAt(e))' \/ Durable(e)'
  <2>1. e \in Paged(PartAt(e)) \/ Durable(e)
    BY <1>1, <1>7 DEF OnceOK
  <2>2. CASE Durable(e)
    BY <1>3, <1>4, <1>5, <1>6, <1>7, <2>2
  <2>3. CASE e \in Paged(PartAt(e)) /\ PartAt(e) # flushing
    BY <1>2, <1>3, <1>7, <2>3
  <2>4. CASE e \in Paged(PartAt(e)) /\ PartAt(e) = flushing
    <3>1. e \in Filed(PartAt(e))' /\ e.ts <= e.ts
      BY <1>2, <1>3, <1>7, <2>4
    <3> QED
      BY <1>3, <1>5, <1>7, <3>1
  <2> QED
    BY <2>1, <2>2, <2>3, <2>4
<1>8. ASSUME NEW e \in Logged PROVE Durable(e)' \/ \A g \in Filed(PartAt(e))' : g.val < e.val
  <2>1. CASE PartAt(e) = flushing
    BY <1>2, <1>7, <1>8, <2>1
  <2>2. CASE PartAt(e) # flushing
    <3>1. Filed(PartAt(e))' = Filed(PartAt(e))
      BY <1>2, <1>3, <1>8, <2>2
    <3>2. Durable(e) => Durable(e)'
      BY <1>3, <1>4, <1>5, <1>8, <3>1
    <3> QED
      BY <1>8, <3>1, <3>2 DEF OnceOK
  <2> QED
    BY <2>1, <2>2
<1>9. Distinct(LogEvents(wal)) /\ LogEvents(wal)' = LogEvents(wal)
  BY <1>1 DEF OnceOK, LogEvents
<1>10. ASSUME NEW p \in Partition
       PROVE  /\ Distinct(page'[p]) /\ Disjoint(file'[p])
              /\ \A e \in Filed(p)', g \in Paged(p)' : e.val # g.val
  <2>1. /\ Distinct(page[p]) /\ Disjoint(file[p])
        /\ \A e \in Filed(p), g \in Paged(p) : e.val # g.val
    BY DEF OnceOK
  <2>2. CASE p = flushing
    <3>1. /\ file[p] \in Seq(Seq(Event)) /\ page[p] \in Seq(Event)
          /\ file'[p] = Append(file[p], page[p]) /\ page'[p] = <<>>
      BY <1>1, <2>2 DEF TypeOK
    <3>2. \A f \in DOMAIN file[p] : \A i \in DOMAIN file[p][f] : file[p][f][i] \in Filed(p)
      <4> SUFFICES ASSUME NEW f \in DOMAIN file[p], NEW i \in DOMAIN file[p][f]
                   PROVE  file[p][f][i] \in Filed(p)
        OBVIOUS
      <4>1. file[p][f][i] \in {file[p][f][k] : k \in DOMAIN file[p][f]}
        OBVIOUS
      <4> QED
        BY <4>1 DEF Filed
    <3>3. \A j \in DOMAIN page[p] : page[p][j] \in Paged(p)
      BY DEF Paged
    <3>4. Disjoint(file'[p])
      BY <2>1, <3>1, <3>2, <3>3, DisjointAppend
    <3>5. Distinct(page'[p]) /\ Paged(p)' = {}
      BY <1>2, <2>2, <3>1 DEF Distinct
    <3> QED
      BY <3>4, <3>5
  <2>3. CASE p # flushing
    <3>1. page'[p] = page[p] /\ file'[p] = file[p]
      BY <1>1, <2>3 DEF TypeOK
    <3> QED
      BY <1>2, <2>1, <2>3, <3>1
  <2> QED
    BY <2>2, <2>3
<1>11. \A e \in Logged' : /\ e \in Paged(PartAt(e))' \/ Durable(e)'
                          /\ Durable(e)' \/ \A g \in Filed(PartAt(e))' : g.val < e.val
  BY <1>2, <1>7, <1>8
<1> QED
  BY <1>9, <1>10, <1>11 DEF OnceOK

LEMMA OnceWrite ==
    ASSUME TypeOK, BookOK, OnceOK, Write
    PROVE  OnceOK'
<1> SUFFICES ASSUME faults' = 0 PROVE OnceOK'
  BY DEF OnceOK
<1>1. faults = 0 /\ faults' = faults /\ ~AppendFails /\ ~WriteFails
  BY NoFault
<1>2. TypeOK' /\ HandlerOK'
  BY WriteTypes DEF BookOK
<1>3. CASE Open
  BY <1>3, OpenOnce
<1>4. CASE OpenFails \/ Calling \/ CatalogBeforeReset \/ KeepWAL
           \/ (\E op \in {"flush", "close"} : BeginDrain(op))
           \/ (\E p \in Partition : DrainPage(p)) \/ DrainDone
  <2>1. /\ UNCHANGED <<wal, file, page>>
        /\ pc' = "down" \/ pc # "down"
        /\ pc # "page" \/ UNCHANGED <<pc, call>>
    BY <1>4 DEF OpenFails, Calling, BeginAdd, CatalogBeforeReset, KeepWAL, BeginDrain, DrainPage,
       DrainDone
  <2> QED
    BY <1>1, <2>1, OnceSame
<1>5. CASE WriteLength \/ (WritePayload /\ torn # 1)
  <2>1. UNCHANGED <<wal, file, page>> /\ pc \in {"append", "payload"}
    BY <1>5 DEF WriteLength, WritePayload, Complete
  <2> QED
    BY <1>1, <2>1, OnceSame
<1>a. CASE WritePayload /\ torn = 1
  BY <1>a, LogOnce
<1>6. CASE AddToPage
  BY <1>6, PageOnce
<1>7. CASE AppendFrame
  BY <1>2, <1>7, FrameOnce
<1>b. CASE ResetWAL /\ ~sized
  <2>1. UNCHANGED <<wal, file, page>> /\ pc = "reset"
    BY <1>b DEF ResetWAL
  <2> QED
    BY <1>1, <2>1, OnceSame
<1>8. CASE ResetWAL /\ sized
  <2>1. /\ wal' = <<>> /\ UNCHANGED <<file, page>>
    BY <1>8 DEF ResetWAL
  <2>2. Logged' = {}
    BY <2>1, NoPagesMoves
  <2>3. \A p \in Partition : /\ Distinct(page'[p]) /\ Disjoint(file'[p])
                             /\ \A e \in Filed(p)', g \in Paged(p)' : e.val # g.val
    BY <1>1, <2>1, SameMoves DEF OnceOK
  <2>4. Distinct(LogEvents(wal)')
    BY <2>1 DEF LogEvents, Distinct
  <2> QED
    BY <2>2, <2>3, <2>4 DEF OnceOK
<1>9. CASE PersistCatalog \/ Crash
  <2>1. UNCHANGED <<wal, file>> /\ pc' = "down" /\ page' = NoPages
    BY <1>9 DEF PersistCatalog, Crash, LoseMemory
  <2> QED
    BY <1>1, <2>1, OnceSame
<1> QED
  BY <1>1, <1>3, <1>4, <1>5, <1>a, <1>6, <1>7, <1>b, <1>8, <1>9 DEF Write, Calling


(***************************************************************************)
(* The invariant.                                                          *)
(***************************************************************************)
LEMMA InvInit == Init => IInv
<1> SUFFICES ASSUME Init PROVE IInv
  OBVIOUS
<1>1. TypeOK /\ HandlerOK
  BY TypeInit
<1>2. /\ wal = <<>> /\ answered = {} /\ pc = "down" /\ newest = {} /\ calls = 0
      /\ faults = 0 /\ ~Adding /\ catalogFile = NoEntries /\ limit \in Limits
      /\ torn = 0 /\ ~buried /\ behind = {}
  BY DEF Init, Adding, NoCall
<1>3. Logged = {} /\ \A p \in Partition : Filed(p) = {} /\ Paged(p) = {}
  BY DEF Init, Logged, Filed, Paged, NoPages
<1>4. InParts = {} /\ Events = {}
  BY <1>3 DEF InParts, Events
<1>5. BookOK
  <2>1. calls <= limit.calls /\ newest \subseteq 1..calls
    BY <1>2, EventAssumption
  <2>2. EventsOK
    BY <1>3, <1>4, <2>1 DEF EventsOK
  <2>3. CallOK /\ AnswersOK
    BY <1>2, <1>4 DEF CallOK, AnswersOK
  <2>4. LogOK
    BY <1>2 DEF LogOK
  <2> QED
    BY <1>1, <2>2, <2>3, <2>4 DEF BookOK
<1>6. CatalogOK
  <2>1. Named(wal) = {}
    BY <1>2 DEF Named, Range
  <2>2. Entries(catalogFile) = {}
    BY <1>2 DEF Entries, NoEntries
  <2>3. Declared(wal) = {}
    BY <2>1, <2>2 DEF Declared
  <2>4. Cardinality(Declared(wal)) = 0 /\ MaxEvents \in Nat
    BY <2>3, FS_EmptySet, EventAssumption
  <2>5. Consistent(wal)
    BY <2>3, <2>4 DEF Consistent
  <2>6. Resolved(wal)
    BY <1>2 DEF Resolved
  <2>7. Numbered(Declared(wal))
    BY <2>3 DEF Numbered
  <2> QED
    BY <1>2, <2>5, <2>6, <2>7 DEF CatalogOK
<1>7. NamesOK
  BY <1>4 DEF NamesOK
<1>8. DurableOK
  BY <1>2, <1>3 DEF DurableOK, PagesLogged, Owed, Acked
<1>9. OnceOK
  <2>1. Distinct(LogEvents(wal))
    BY <1>2 DEF Distinct, LogEvents
  <2>2. \A p \in Partition : page[p] = <<>> /\ file[p] = <<>>
    BY DEF Init, NoPages
  <2>3. \A p \in Partition : Distinct(page[p]) /\ Disjoint(file[p])
    BY <2>2 DEF Distinct, Disjoint
  <2> QED
    BY <1>2, <1>3, <2>1, <2>3 DEF OnceOK
<1> QED
  BY <1>1, <1>5, <1>6, <1>7, <1>8, <1>9 DEF IInv

LEMMA InvNext == IInv /\ [Next]_vars => IInv'
<1> SUFFICES ASSUME IInv, [Next]_vars PROVE IInv'
  OBVIOUS
<1>1. TypeOK /\ BookOK /\ HandlerOK /\ CatalogOK /\ NamesOK /\ DurableOK /\ OnceOK
  BY DEF IInv, BookOK
<1>2. TypeOK' /\ HandlerOK'
  BY <1>1, TypeNext
<1>3. CASE Write
  <2>1. BookOK'
    BY <1>1, <1>3, BookWrite
  <2>2. CatalogOK'
    <3>1. CASE unnamed'
      BY <3>1 DEF CatalogOK
    <3>2. CASE ~unnamed'
      BY <1>1, <1>3, <3>2, CatalogWrite
    <3> QED
      BY <3>1, <3>2
  <2>3. NamesOK'
    BY <1>1, <1>3, NamesWrite
  <2>4. DurableOK'
    BY <1>1, <1>3, DurableWrite
  <2>5. OnceOK'
    BY <1>1, <1>3, OnceWrite
  <2> QED
    BY <1>2, <2>1, <2>2, <2>3, <2>4, <2>5 DEF IInv
<1>4. CASE Query \/ UNCHANGED vars
  <2>1. UNCHANGED <<disk, memory, pc, call, flushing, given, answered, unnamed, crashes, faults>>
    BY <1>4, QueryFrame
  <2> QED
    BY <1>1, <1>2, <2>1, QueryKeeps DEF IInv, BookOK
<1> QED
  BY <1>3, <1>4 DEF Next

\* The log, the files, the pages, the catalogs and the call in progress are what the
\* proofs say they are, in every state.
THEOREM Invariant == Spec => []IInv
<1> HIDE DEF Init, Next, IInv, vars
<1> QED
  BY InvInit, InvNext, PTL DEF Spec

(***************************************************************************)
(* What the events layer promises.                                         *)
(***************************************************************************)

\* Whatever a crash or a failed write leaves of the log and of events.json, they agree on
\* every name, its id and its value type, and name every id the log uses, unless an append
\* that was to name one has failed without a trace; and unless a call began behind a torn
\* record, no bytes are behind one for the decoder to misread.
THEOREM LogsReplay == Spec => []AlwaysReplays
<1>1. IInv => AlwaysReplays
  <2> SUFFICES ASSUME IInv
               PROVE  /\ ~unnamed => Replayable
                      /\ behind = {} => ~Misaligned
    BY DEF AlwaysReplays
  <2>1. ~unnamed => Replayable
    BY DEF IInv, CatalogOK, Replayable
  <2>2. behind = {} => ~Misaligned
    BY DEF IInv, BookOK, LogOK, Misaligned
  <2> QED
    BY <2>1, <2>2
<1> QED
  BY <1>1, Invariant, PTL

LEMMA StoredIs ==
    ASSUME TypeOK
    PROVE  \A e \in AllStored : e \in InParts
<1> SUFFICES ASSUME NEW p \in Partition,
                    NEW e \in Range(page[p]) \cup UNION {Range(f) : f \in Range(file[p])}
             PROVE  e \in InParts
  BY DEF AllStored
<1>1. CASE e \in Range(page[p])
  <2>1. e \in Paged(p)
    BY <1>1 DEF Range, Paged
  <2> QED
    BY <2>1, InPartsIs
<1>2. CASE e \in UNION {Range(f) : f \in Range(file[p])}
  <2>1. PICK f \in DOMAIN file[p] : e \in Range(file[p][f])
    BY <1>2 DEF Range
  <2>2. e \in {file[p][f][k] : k \in DOMAIN file[p][f]}
    BY <2>1 DEF Range
  <2>3. e \in Filed(p)
    BY <2>2 DEF Filed
  <2> QED
    BY <2>3, InPartsIs
<1> QED
  BY <1>1, <1>2

\* An event is found under the name, and read with the value type, it was written with:
\* the id in its frame is that of its name's entry and of no other.  Not so if its record was
\* logged behind a torn one, or an append that was to name an event has failed.
THEOREM NamesKept == Spec => []EventsKeepTheirName
<1>1. IInv => EventsKeepTheirName
  <2> SUFFICES ASSUME IInv, pc = "idle", ~unnamed, NEW a \in answered,
                      NEW e \in AllStored, e.val = a.val, a.val \notin behind,
                      NEW n \in EventName
               PROVE  IF n = a.name THEN catalog[n] = [id |-> e.id, type |-> a.type]
                                    ELSE catalog[n].id # e.id
    BY DEF EventsKeepTheirName
  <2> DEFINE entry == [id |-> e.id, type |-> a.type]
  <2>1. e \in Events
    BY StoredIs DEF Events, IInv
  <2>2. <<a.name, entry>> \in Declared(wal)
    BY <2>1 DEF IInv, NamesOK
  <2>3. Declared(wal) \subseteq Graph(catalog) /\ Numbered(Graph(catalog))
    BY DEF IInv, CatalogOK
  <2>4. a.name \in Entries(catalog) /\ catalog[a.name] = entry
    BY <2>2, <2>3 DEF Graph
  <2>5. ASSUME n # a.name, catalog[n].id = e.id PROVE FALSE
    <3>1. catalog[n].id # 0
      BY <2>4, <2>5 DEF Entries
    <3>2. /\ <<n, catalog[n]>> \in Graph(catalog)
          /\ <<a.name, entry>> \in Graph(catalog)
      BY <2>2, <2>3, <3>1 DEF Graph, Entries
    <3>3. <<n, catalog[n]>>[2].id = <<a.name, entry>>[2].id
      BY <2>5
    <3>4. <<n, catalog[n]>> = <<a.name, entry>>
      BY <2>3, <3>2, <3>3 DEF Numbered
    <3> QED
      BY <2>5, <3>4
  <2> QED
    BY <2>4, <2>5
<1> QED
  BY <1>1, Invariant, PTL

\* The places of an event: the frames of its partition's file, then its open page.
FrameAt(p, f) == IF f = Len(file[p]) + 1 THEN page[p] ELSE file[p][f]

LEMMA PlacesAre ==
    ASSUME TypeOK, NEW v
    PROVE  \A x : x \in Places(v) <=>
              \E p \in Partition : \E f \in DOMAIN file[p] \cup {Len(file[p]) + 1} :
                 \E k \in DOMAIN FrameAt(p, f) :
                    x = <<p, f, k>> /\ FrameAt(p, f)[k].val = v
<1> DEFINE frames == [p \in Partition |-> Append(file[p], page[p])]
<1>1. \A p \in Partition :
         /\ DOMAIN frames[p] = DOMAIN file[p] \cup {Len(file[p]) + 1}
         /\ \A f \in DOMAIN frames[p] : frames[p][f] = FrameAt(p, f)
  <2> SUFFICES ASSUME NEW p \in Partition
               PROVE  /\ DOMAIN frames[p] = DOMAIN file[p] \cup {Len(file[p]) + 1}
                      /\ \A f \in DOMAIN frames[p] : frames[p][f] = FrameAt(p, f)
    OBVIOUS
  <2>1. file[p] \in Seq(Seq(Event)) /\ page[p] \in Seq(Event)
    BY DEF TypeOK
  <2>2. frames[p] = Append(file[p], page[p])
    OBVIOUS
  <2>3. /\ DOMAIN Append(file[p], page[p]) = DOMAIN file[p] \cup {Len(file[p]) + 1}
        /\ Len(file[p]) + 1 \notin DOMAIN file[p]
        /\ Append(file[p], page[p])[Len(file[p]) + 1] = page[p]
        /\ \A f \in DOMAIN file[p] : Append(file[p], page[p])[f] = file[p][f]
    BY <2>1, AppendElements
  <2> HIDE DEF frames
  <2> QED
    BY <2>2, <2>3 DEF FrameAt
<1> DEFINE at(p, f) == {<<p, f, k>> : k \in {k \in DOMAIN frames[p][f] : frames[p][f][k].val = v}}
<1>2. Places(v) = UNION {UNION {at(p, f) : f \in DOMAIN frames[p]} : p \in Partition}
  BY DEF Places
<1> HIDE DEF frames
<1>3. \A x : x \in Places(v) <=> \E p \in Partition : \E f \in DOMAIN frames[p] : x \in at(p, f)
  <2> HIDE DEF at
  <2> QED
    BY <1>2
<1>4. \A p \in Partition : \A f \in DOMAIN frames[p] : \A x :
         x \in at(p, f) <=> \E k \in DOMAIN FrameAt(p, f) :
                               x = <<p, f, k>> /\ FrameAt(p, f)[k].val = v
  BY <1>1
<1> HIDE DEF at
<1> QED
  BY <1>1, <1>3, <1>4

\* An event is in one place at most.
LEMMA OnePlace ==
    ASSUME IInv, faults = 0, NEW v, NEW x \in Places(v), NEW y \in Places(v)
    PROVE  x = y
<1>1. TypeOK /\ OnceOK /\ BookOK
  BY DEF IInv
<1>2. PICK p \in Partition : \E f \in DOMAIN file[p] \cup {Len(file[p]) + 1} :
         \E k \in DOMAIN FrameAt(p, f) : x = <<p, f, k>> /\ FrameAt(p, f)[k].val = v
  BY <1>1, PlacesAre
<1>3. PICK f \in DOMAIN file[p] \cup {Len(file[p]) + 1} :
         \E k \in DOMAIN FrameAt(p, f) : x = <<p, f, k>> /\ FrameAt(p, f)[k].val = v
  BY <1>2
<1>4. PICK k \in DOMAIN FrameAt(p, f) : x = <<p, f, k>> /\ FrameAt(p, f)[k].val = v
  BY <1>3
<1>5. PICK q \in Partition : \E h \in DOMAIN file[q] \cup {Len(file[q]) + 1} :
         \E j \in DOMAIN FrameAt(q, h) : y = <<q, h, j>> /\ FrameAt(q, h)[j].val = v
  BY <1>1, PlacesAre
<1>6. PICK h \in DOMAIN file[q] \cup {Len(file[q]) + 1} :
         \E j \in DOMAIN FrameAt(q, h) : y = <<q, h, j>> /\ FrameAt(q, h)[j].val = v
  BY <1>5
<1>7. PICK j \in DOMAIN FrameAt(q, h) : y = <<q, h, j>> /\ FrameAt(q, h)[j].val = v
  BY <1>6
<1>8. \A r \in Partition : \A g \in DOMAIN file[r] :
         /\ g # Len(file[r]) + 1
         /\ \A i \in DOMAIN file[r][g] : file[r][g][i] \in Filed(r)
  <2> SUFFICES ASSUME NEW r \in Partition, NEW g \in DOMAIN file[r]
               PROVE  /\ g # Len(file[r]) + 1
                      /\ \A i \in DOMAIN file[r][g] : file[r][g][i] \in Filed(r)
    OBVIOUS
  <2>1. file[r] \in Seq(Seq(Event))
    BY <1>1 DEF TypeOK
  <2>2. g # Len(file[r]) + 1
    BY <2>1
  <2>3. \A i \in DOMAIN file[r][g] : file[r][g][i] \in {file[r][g][m] : m \in DOMAIN file[r][g]}
    OBVIOUS
  <2>4. \A i \in DOMAIN file[r][g] : file[r][g][i] \in Filed(r)
    BY <2>3 DEF Filed
  <2> QED
    BY <2>2, <2>4
<1>9. \A r \in Partition : \A i \in DOMAIN page[r] : page[r][i] \in Paged(r)
  BY DEF Paged
<1>10. \A r \in Partition : \A g \in DOMAIN file[r] \cup {Len(file[r]) + 1} :
          \A i \in DOMAIN FrameAt(r, g) : FrameAt(r, g)[i] \in Filed(r) \cup Paged(r)
  BY <1>8, <1>9 DEF FrameAt
<1>11. p = q
  <2>1. /\ FrameAt(p, f)[k] \in Filed(p) \cup Paged(p)
        /\ FrameAt(q, h)[j] \in Filed(q) \cup Paged(q)
    BY <1>10
  <2>2. FrameAt(p, f)[k] \in Events /\ FrameAt(q, h)[j] \in Events
    BY <2>1, InPartsIs DEF Events
  <2>3. FrameAt(p, f)[k] = FrameAt(q, h)[j]
    BY <1>1, <1>4, <1>7, <2>2 DEF BookOK, EventsOK
  <2>4. PartAt(FrameAt(p, f)[k]) = p /\ PartAt(FrameAt(q, h)[j]) = q
    BY <1>1, <2>1 DEF BookOK, EventsOK
  <2> QED
    BY <2>3, <2>4
<1>12. /\ Distinct(page[p]) /\ Disjoint(file[p])
       /\ \A e \in Filed(p), g \in Paged(p) : e.val # g.val
  BY <1>1 DEF OnceOK
<1>13. CASE f \in DOMAIN file[p] /\ h \in DOMAIN file[p]
  <2>1. FrameAt(p, f) = file[p][f] /\ FrameAt(p, h) = file[p][h]
    BY <1>8, <1>13 DEF FrameAt
  <2>2. f = h
    BY <1>4, <1>7, <1>11, <1>12, <1>13, <2>1 DEF Disjoint
  <2>3. k = j
    BY <1>4, <1>7, <1>11, <1>12, <1>13, <2>1, <2>2 DEF Disjoint, Distinct
  <2> QED
    BY <1>4, <1>7, <1>11, <2>2, <2>3
<1>14. CASE f = Len(file[p]) + 1 /\ h = Len(file[p]) + 1
  <2>1. FrameAt(p, f) = page[p] /\ FrameAt(p, h) = page[p]
    BY <1>14 DEF FrameAt
  <2>2. k = j
    BY <1>4, <1>7, <1>11, <1>12, <2>1 DEF Distinct
  <2> QED
    BY <1>4, <1>7, <1>11, <1>14, <2>2
<1>15. CASE f \in DOMAIN file[p] /\ h = Len(file[p]) + 1
  <2>1. FrameAt(p, f)[k] \in Filed(p) /\ FrameAt(p, h)[j] \in Paged(p)
    BY <1>8, <1>9, <1>11, <1>15 DEF FrameAt
  <2> QED
    BY <1>4, <1>7, <1>11, <1>12, <2>1
<1>16. CASE f = Len(file[p]) + 1 /\ h \in DOMAIN file[p]
  <2>1. FrameAt(p, h)[j] \in Filed(p) /\ FrameAt(p, f)[k] \in Paged(p)
    BY <1>8, <1>9, <1>11, <1>16 DEF FrameAt
  <2> QED
    BY <1>4, <1>7, <1>11, <1>12, <2>1
<1> QED
  BY <1>11, <1>13, <1>14, <1>15, <1>16

\* Between calls every acknowledged event is stored, through crashes if it was the newest
\* of its partition; and, while no write fails, it is stored once.
THEOREM AckedEventsKept == Spec => []EveryAckedEventKept
<1>1. IInv => EveryAckedEventKept
  <2> SUFFICES ASSUME IInv, pc = "idle", NEW a \in Safe
               PROVE  /\ Places(a.val) # {}
                      /\ faults = 0 => Cardinality(Places(a.val)) = 1
    BY DEF EveryAckedEventKept
  <2>1. TypeOK /\ BookOK /\ DurableOK /\ a \in Acked /\ (Calm \/ a.val \in newest)
    BY DEF IInv, Safe
  <2>2. PICK e \in InParts : e.val = a.val
    <3>1. CASE Calm
      BY <2>1, <3>1 DEF DurableOK
    <3>2. CASE a.val \in newest
      <4>1. PICK e \in Logged \cup UNION {Filed(p) : p \in Partition} : e.val = a.val
        BY <2>1, <3>2 DEF DurableOK
      <4>2. CASE e \in Logged
        <5>1. e \in Owed
          BY <2>1, <3>2, <4>1, <4>2, AckedNotFailed DEF Owed
        <5>2. PartAt(e) \in Partition /\ e \in Filed(PartAt(e)) \cup Paged(PartAt(e))
          BY <2>1, <5>1, OwedIs DEF DurableOK
        <5>3. e \in InParts
          BY <5>2, InPartsIs
        <5> QED
          BY <4>1, <5>3
      <4>3. CASE e \in UNION {Filed(p) : p \in Partition}
        <5>1. e \in InParts
          BY <4>3, InPartsIs
        <5> QED
          BY <4>1, <5>1
      <4> QED
        BY <4>1, <4>2, <4>3
    <3> QED
      BY <2>1, <3>1, <3>2
  <2>3. PICK p \in Partition : e \in Filed(p) \cup Paged(p)
    BY InPartsIs
  <2>4. Places(a.val) # {}
    <3>1. CASE e \in Paged(p)
      <4>1. PICK k \in DOMAIN page[p] : e = page[p][k]
        BY <3>1 DEF Paged
      <4>2. /\ Len(file[p]) + 1 \in DOMAIN file[p] \cup {Len(file[p]) + 1}
            /\ k \in DOMAIN FrameAt(p, Len(file[p]) + 1)
            /\ FrameAt(p, Len(file[p]) + 1)[k].val = a.val
        BY <2>2, <4>1 DEF FrameAt
      <4>3. <<p, Len(file[p]) + 1, k>> \in Places(a.val)
        BY <2>1, <4>2, PlacesAre
      <4> QED
        BY <4>3
    <3>2. CASE e \in Filed(p)
      <4>1. PICK f \in DOMAIN file[p] : e \in {file[p][f][k] : k \in DOMAIN file[p][f]}
        BY <3>2 DEF Filed
      <4>2. PICK k \in DOMAIN file[p][f] : e = file[p][f][k]
        BY <4>1
      <4>3. f # Len(file[p]) + 1
        <5>1. file[p] \in Seq(Seq(Event))
          BY <2>1 DEF TypeOK
        <5> QED
          BY <5>1
      <4>4. k \in DOMAIN FrameAt(p, f) /\ FrameAt(p, f)[k].val = a.val
        BY <2>2, <4>2, <4>3 DEF FrameAt
      <4>5. <<p, f, k>> \in Places(a.val)
        BY <2>1, <4>4, PlacesAre
      <4> QED
        BY <4>5
    <3> QED
      BY <2>3, <3>1, <3>2
  <2>5. ASSUME faults = 0 PROVE Cardinality(Places(a.val)) = 1
    <3>1. PICK x : x \in Places(a.val)
      BY <2>4
    <3>2. Places(a.val) = {x}
      BY <2>5, <3>1, OnePlace
    <3> QED
      BY <3>2, FS_Singleton
  <2> QED
    BY <2>4, <2>5
<1> QED
  BY <1>1, Invariant, PTL


(***************************************************************************)
(* The refinement of SampleLog.                                            *)
(***************************************************************************)
Held      == Logged \cup UNION {Filed(p) : p \in Partition}
HeldVals  == {e.val : e \in Held}
AckedVals == {a.val : a \in Acked}
LogStored == (newest \ Failed) \cap ({r.event.val : r \in Range(wal)} \cup
                 UNION {UNION {{e.val : e \in Range(f)} : f \in Range(file[p])} :
                            p \in Partition})
LogAcked  == newest \cap {a.val : a \in Acked}
Calls     == UNION {1..l.calls : l \in Limits}

LEMMA LogSees ==
    /\ LogStored = (newest \ Failed) \cap HeldVals
    /\ LogAcked = newest \cap AckedVals
<1> DEFINE inLog  == {r.event.val : r \in Range(wal)}
           inFile == UNION {UNION {{e.val : e \in Range(f)} : f \in Range(file[p])} :
                              p \in Partition}
<1>1. \A v : v \in inLog <=> \E e \in Logged : v = e.val
  <2>1. \A r : r \in Range(wal) <=> \E k \in DOMAIN wal : r = wal[k]
    BY DEF Range
  <2> QED
    BY <2>1 DEF Logged
<1>2. \A v : v \in inFile => \E p \in Partition : \E e \in Filed(p) : v = e.val
  <2> SUFFICES ASSUME NEW p \in Partition, NEW f \in DOMAIN file[p],
                      NEW v \in {e.val : e \in Range(file[p][f])}
               PROVE  \E e \in Filed(p) : v = e.val
    BY DEF Range
  <2>1. PICK e \in Range(file[p][f]) : v = e.val
    OBVIOUS
  <2>2. e \in {file[p][f][k] : k \in DOMAIN file[p][f]}
    BY DEF Range
  <2>3. e \in Filed(p)
    BY <2>2 DEF Filed
  <2> QED
    BY <2>1, <2>3
<1>3. ASSUME NEW p \in Partition, NEW e \in Filed(p) PROVE e.val \in inFile
  <2>1. PICK f \in DOMAIN file[p] : e \in {file[p][f][k] : k \in DOMAIN file[p][f]}
    BY <1>3 DEF Filed
  <2>2. e \in Range(file[p][f]) /\ file[p][f] \in Range(file[p])
    BY <2>1 DEF Range
  <2>3. e.val \in {x.val : x \in Range(file[p][f])}
    BY <2>2
  <2>4. e.val \in UNION {{x.val : x \in Range(f2)} : f2 \in Range(file[p])}
    BY <2>2, <2>3
  <2> QED
    BY <2>4
<1> HIDE DEF inLog, inFile
<1>4. \A v : v \in HeldVals <=> \/ \E e \in Logged : v = e.val
                                \/ \E p \in Partition : \E e \in Filed(p) : v = e.val
  BY DEF HeldVals, Held
<1>5. \A v : v \in HeldVals <=> v \in inLog \cup inFile
  BY <1>1, <1>2, <1>3, <1>4
<1> QED
  BY <1>5 DEF LogStored, LogAcked, AckedVals, inLog, inFile

LEMMA LogSeesNext ==
    (/\ LogStored = (newest \ Failed) \cap HeldVals
     /\ LogAcked = newest \cap AckedVals)'
  BY LogSees, PTL

\* What the return of a call does to the answers.
LEMMA Answers ==
    /\ answered' = answered => Failed' = Failed /\ AckedVals' = AckedVals
    /\ Return(TRUE) /\ Adding => Failed' = Failed /\ AckedVals' = AckedVals \cup {call.val}
    /\ Return(FALSE) /\ Adding => Failed' = Failed \cup {call.val} /\ AckedVals' = AckedVals
    /\ \A ok : Return(ok) /\ ~Adding => answered' = answered
<1> DEFINE new(ok) == [name |-> call.name, type |-> call.type, ts |-> call.ts,
                       val |-> call.val, ok |-> ok]
<1>1. answered' = answered => Failed' = Failed /\ AckedVals' = AckedVals
  BY DEF Acked, Failed, AckedVals
<1>2. ASSUME Return(TRUE), Adding
      PROVE  Failed' = Failed /\ AckedVals' = AckedVals \cup {call.val}
  <2>1. answered' = answered \cup {new(TRUE)}
    BY <1>2 DEF Return, Adding
  <2>2. new(TRUE).ok = TRUE /\ new(TRUE).val = call.val
    OBVIOUS
  <2> HIDE DEF new
  <2>3. Acked' = Acked \cup {new(TRUE)}
    BY <2>1, <2>2 DEF Acked
  <2>4. \A a : a \in answered' \ Acked' <=> a \in answered \ Acked
    BY <2>1, <2>2, <2>3 DEF Acked
  <2>5. answered' \ Acked' = answered \ Acked
    BY <2>4
  <2>6. AckedVals' = AckedVals \cup {call.val}
    BY <2>2, <2>3 DEF AckedVals
  <2> QED
    BY <2>5, <2>6 DEF Failed
<1>3. ASSUME Return(FALSE), Adding
      PROVE  Failed' = Failed \cup {call.val} /\ AckedVals' = AckedVals
  <2>1. answered' = answered \cup {new(FALSE)}
    BY <1>3 DEF Return, Adding
  <2>2. new(FALSE).ok = FALSE /\ new(FALSE).val = call.val
    OBVIOUS
  <2> HIDE DEF new
  <2>3. Acked' = Acked
    BY <2>1, <2>2 DEF Acked
  <2>4. new(FALSE) \notin Acked
    BY <2>2 DEF Acked
  <2>5. answered' \ Acked' = (answered \ Acked) \cup {new(FALSE)}
    BY <2>1, <2>3, <2>4
  <2>6. Failed' = Failed \cup {call.val}
    BY <2>2, <2>5 DEF Failed
  <2> QED
    BY <2>3, <2>6 DEF AckedVals
<1>4. \A ok : Return(ok) /\ ~Adding => answered' = answered
  BY DEF Return, Adding
<1> QED
  BY <1>1, <1>2, <1>3, <1>4

\* A call that has not returned has no answer, and its number is one of the calls.
LEMMA CallPending ==
    ASSUME TypeOK, BookOK, Adding
    PROVE  call.val \in Calls /\ call.val \notin Failed /\ call.val \notin AckedVals
<1>1. call.val = calls /\ calls > 0 /\ calls <= limit.calls /\ limit \in Limits /\ calls \in Nat
  BY DEF BookOK, HandlerOK, CallOK, EventsOK, TypeOK
<1>2. limit.calls \in Nat
  BY <1>1, EventAssumption
<1>3. call.val \in 1..limit.calls
  BY <1>1, <1>2
<1>4. call.val \in Calls
  BY <1>1, <1>3 DEF Calls
<1>5. \A a \in answered : a.val # call.val
  BY DEF BookOK, AnswersOK
<1> QED
  BY <1>4, <1>5 DEF Failed, AckedVals, Acked

\* What a step does to the log and the files, as far as SampleLog sees them.
LEMMA HeldSame ==
    /\ UNCHANGED <<wal, file>> => HeldVals' = HeldVals
    /\ Logged' = Logged /\ (\A p \in Partition : Filed(p)' = Filed(p)) => Held' = Held
    /\ Held' = Held => HeldVals' = HeldVals
<1>1. Held' = Held => HeldVals' = HeldVals
  BY DEF HeldVals
<1>2. Logged' = Logged /\ (\A p \in Partition : Filed(p)' = Filed(p)) => Held' = Held
  BY DEF Held
<1> QED
  BY <1>1, <1>2, SameMoves

LEMMA FramesHeld ==
    ASSUME TypeOK, BookOK, DurableOK, AppendFrame \/ WriteFails
    PROVE  (newest \ Failed) \cap HeldVals' = (newest \ Failed) \cap HeldVals
<1>1. Logged' = Logged /\ \A p \in Partition : Filed(p) \subseteq Filed(p)'
                            /\ Filed(p)' \subseteq Filed(p) \cup Paged(p)
  BY FrameMoves, FailMoves DEF BookOK
<1>2. \A p \in Partition : \A e \in Paged(p) : e \in Logged \/ e.val \notin newest
  BY DEF DurableOK, PagesLogged, BookOK, LogOK
<1>3. \A e \in Held : e \in Held'
  BY <1>1 DEF Held
<1>4. \A e \in Held' : e \in Held \/ e.val \notin newest
  BY <1>1, <1>2 DEF Held
<1> QED
  BY <1>3, <1>4 DEF HeldVals

LEMMA LogHeld ==
    ASSUME TypeOK, BookOK, WritePayload \/ AppendFails
    PROVE  /\ HeldVals' = HeldVals \/ HeldVals' = HeldVals \cup {call.val}
           /\ WritePayload => HeldVals' = HeldVals \cup {call.val} \/ call.val \notin newest
           /\ call.val \notin HeldVals
<1> USE DEF BookOK
<1>1. /\ pc \in {"append", "payload"} /\ Adding /\ file' = file
      /\ (wal' = wal \/ wal' = Append(wal, CallRecord))
  BY DEF WritePayload, AppendFails, Complete, HandlerOK
<1>2. WritePayload => wal' = Append(wal, CallRecord) \/ call.val \notin newest
  <2>1. CASE torn = 1
    BY <2>1 DEF WritePayload, Complete
  <2>2. CASE torn # 1
    <3>1. WritePayload => pc = "payload" /\ torn > 0 /\ torn \in Nat
      BY DEF WritePayload, HandlerOK, TypeOK
    <3>2. WritePayload => torn > 1
      BY <2>2, <3>1
    <3>3. WritePayload => call.val \in behind
      BY <3>1, <3>2 DEF LogOK
    <3> QED
      BY <3>3 DEF LogOK
  <2> QED
    BY <2>1, <2>2
<1>3. CallEvent.val = call.val /\ CallRecord \in Record /\ CallRecord.event = CallEvent
  BY <1>1, CallEventTypes, CallRecordTypes
<1>4. wal' = Append(wal, CallRecord) => Logged' = Logged \cup {CallEvent}
  BY <1>3, LogGrows
<1>5. \A p \in Partition : Filed(p)' = Filed(p)
  BY <1>1, SameMoves
<1>6. wal' = Append(wal, CallRecord) => Held' = Held \cup {CallEvent}
  BY <1>4, <1>5 DEF Held
<1>7. wal' = Append(wal, CallRecord) => HeldVals' = HeldVals \cup {call.val}
  BY <1>3, <1>6 DEF HeldVals
<1>8. wal' = wal => HeldVals' = HeldVals
  BY <1>1, HeldSame
<1>9. \A e \in Held : e \in Events
  BY InPartsIs DEF Held, Events
<1>10. call.val \notin HeldVals
  BY <1>1, <1>9 DEF HeldVals, CallOK
<1> QED
  BY <1>1, <1>2, <1>7, <1>8, <1>10

\* The log is reset only when the files hold all it owes.
LEMMA ResetHeld ==
    ASSUME TypeOK, BookOK, DurableOK, ResetWAL, sized
    PROVE  (newest \ Failed) \cap HeldVals' = (newest \ Failed) \cap HeldVals
<1>1. /\ file' = file /\ pc = "reset" /\ page = NoPages /\ wal' = <<>>
  BY DEF ResetWAL, MayReset
<1>2. /\ Logged' = {} /\ \A p \in Partition : Filed(p)' = Filed(p) /\ Paged(p) = {}
  BY <1>1, SameMoves, NoPagesMoves
<1>3. Held' \subseteq Held
  BY <1>2 DEF Held
<1>4. ASSUME NEW e \in Held, e.val \in newest \ Failed PROVE e \in Held'
  <2>1. CASE e \in Logged
    <3>1. e \in Owed
      BY <1>4, <2>1 DEF Owed
    <3>2. PartAt(e) \in Partition /\ e \in Filed(PartAt(e))
      BY <1>1, <1>2, <3>1, OwedIs DEF DurableOK
    <3> QED
      BY <1>2, <3>2 DEF Held
  <2>2. CASE e \notin Logged
    BY <1>2, <2>2 DEF Held
  <2> QED
    BY <2>1, <2>2
<1> QED
  BY <1>3, <1>4 DEF HeldVals

\* What a step is to SampleLog.
LogStep ==
    \/ UNCHANGED <<LogStored, LogAcked>>
    \/ \E v \in Calls :
         \/ v \notin LogStored /\ LogStored' = LogStored \cup {v} /\ UNCHANGED LogAcked
         \/ v \in LogStored /\ LogAcked' = LogAcked \cup {v} /\ UNCHANGED LogStored
         \/ v \notin LogAcked /\ LogStored' = LogStored \ {v} /\ UNCHANGED LogAcked

LEMMA AnswerStep ==
    ASSUME TypeOK, BookOK, newest' = newest,
           (newest \ Failed) \cap HeldVals' = (newest \ Failed) \cap HeldVals,
           \/ answered' = answered
           \/ Return(TRUE) /\ (Adding /\ call.val \in newest => call.val \in HeldVals')
           \/ Return(FALSE)
    PROVE  LogStep
<1>1. /\ LogStored = (newest \ Failed) \cap HeldVals /\ LogAcked = newest \cap AckedVals
      /\ LogStored' = (newest' \ Failed') \cap HeldVals' /\ LogAcked' = newest' \cap AckedVals'
  BY LogSees, LogSeesNext
<1>2. CASE answered' = answered
  <2>1. LogStored' = LogStored /\ LogAcked' = LogAcked
    BY <1>1, <1>2, Answers
  <2> QED
    BY <2>1 DEF LogStep
<1>3. CASE Return(TRUE) /\ Adding
  <2>1. Failed' = Failed /\ AckedVals' = AckedVals \cup {call.val}
    BY <1>3, Answers
  <2>2. call.val \in Calls /\ call.val \notin Failed
    BY <1>3, CallPending
  <2>3. LogStored' = LogStored
    BY <1>1, <2>1
  <2>4. CASE answered' = answered
    BY <1>2, <2>4
  <2>5. CASE answered' # answered /\ call.val \in newest
    <3>1. call.val \in HeldVals'
      <4>1. Return(FALSE) => AckedVals' = AckedVals
        BY <1>3, Answers
      <4>2. call.val \notin AckedVals
        BY <1>3, CallPending
      <4> QED
        BY <1>3, <2>1, <2>5, <4>1, <4>2
    <3>2. call.val \in LogStored' /\ LogAcked' = LogAcked \cup {call.val}
      BY <1>1, <2>1, <2>2, <2>5, <3>1
    <3> QED
      BY <2>2, <2>3, <3>2 DEF LogStep
  <2>6. CASE call.val \notin newest
    <3>1. LogAcked' = LogAcked
      BY <1>1, <2>1, <2>6
    <3> QED
      BY <2>3, <3>1 DEF LogStep
  <2> QED
    BY <2>4, <2>5, <2>6
<1>4. CASE Return(FALSE) /\ Adding
  <2>1. Failed' = Failed \cup {call.val} /\ AckedVals' = AckedVals
    BY <1>4, Answers
  <2>2. call.val \in Calls /\ call.val \notin AckedVals
    BY <1>4, CallPending
  <2>3. call.val \notin LogAcked /\ LogStored' = LogStored \ {call.val} /\ LogAcked' = LogAcked
    BY <1>1, <2>1, <2>2
  <2> QED
    BY <2>2, <2>3 DEF LogStep
<1> QED
  BY <1>2, <1>3, <1>4, Answers

LEMMA WriteStep ==
    ASSUME TypeOK, BookOK, DurableOK, Write
    PROVE  LogStep
<1> USE DEF BookOK
<1>1. CASE Calling
  <2>1. /\ UNCHANGED <<wal, file, answered>> /\ calls \in Nat
        /\ newest' = newest \/ newest' = newest \cup {calls + 1}
    BY <1>1 DEF Calling, BeginAdd, TypeOK
  <2>2. HeldVals' = HeldVals /\ Failed' = Failed /\ AckedVals' = AckedVals
    BY <2>1, HeldSame, Answers
  <2>3. \A e \in Held : e.val \in 1..calls
    BY InPartsIs DEF Held, Events, EventsOK
  <2>4. calls + 1 \notin HeldVals
    BY <2>1, <2>3 DEF HeldVals
  <2>5. \A a \in Acked : a.val \in 1..calls
    BY DEF AnswersOK, Acked
  <2>6. calls + 1 \notin AckedVals
    BY <2>1, <2>5 DEF AckedVals
  <2>7. LogStored' = LogStored /\ LogAcked' = LogAcked
    BY <2>1, <2>2, <2>4, <2>6, LogSees, LogSeesNext
  <2> QED
    BY <2>7 DEF LogStep
<1>a. CASE WriteLength
  <2>1. UNCHANGED <<wal, file, newest, answered>>
    BY <1>a DEF WriteLength
  <2>2. HeldVals' = HeldVals
    BY <2>1, HeldSame
  <2> QED
    BY <2>1, <2>2, AnswerStep
<1>2. CASE WritePayload
  <2>1. newest' = newest /\ answered' = answered /\ Adding
    BY <1>2 DEF WritePayload, HandlerOK
  <2>2. /\ HeldVals' = HeldVals \/ HeldVals' = HeldVals \cup {call.val}
        /\ HeldVals' = HeldVals \cup {call.val} \/ call.val \notin newest
        /\ call.val \notin HeldVals
    BY <1>2, LogHeld
  <2>3. call.val \in Calls /\ call.val \notin Failed
    BY <2>1, CallPending
  <2>4. Failed' = Failed /\ AckedVals' = AckedVals
    BY <2>1, Answers
  <2>5. LogAcked' = LogAcked
    BY <2>1, <2>4, LogSees, LogSeesNext
  <2>6. CASE call.val \in newest
    <3>1. call.val \notin LogStored /\ LogStored' = LogStored \cup {call.val}
      BY <2>1, <2>2, <2>3, <2>4, <2>6, LogSees, LogSeesNext
    <3> QED
      BY <2>3, <2>5, <3>1 DEF LogStep
  <2>7. CASE call.val \notin newest
    <3>1. LogStored' = LogStored
      BY <2>1, <2>2, <2>4, <2>7, LogSees, LogSeesNext
    <3> QED
      BY <2>5, <3>1 DEF LogStep
  <2> QED
    BY <2>6, <2>7
<1>3. CASE AppendFails
  <2>1. newest' = newest /\ Return(FALSE) /\ Adding
    BY <1>3 DEF AppendFails, HandlerOK
  <2>2. /\ HeldVals' = HeldVals \/ HeldVals' = HeldVals \cup {call.val}
        /\ call.val \notin HeldVals
    BY <1>3, LogHeld
  <2>3. Failed' = Failed \cup {call.val} /\ AckedVals' = AckedVals
    BY <2>1, Answers
  <2>4. LogStored' = LogStored /\ LogAcked' = LogAcked
    BY <2>1, <2>2, <2>3, LogSees, LogSeesNext
  <2> QED
    BY <2>4 DEF LogStep
<1>4. CASE AddToPage
  <2>1. UNCHANGED <<wal, file, newest>> /\ pc = "page" /\ (answered' = answered \/ Return(TRUE))
        /\ Adding
    BY <1>4 DEF AddToPage, HandlerOK
  <2>2. HeldVals' = HeldVals
    BY <2>1, HeldSame
  <2>3. CallEvent.val = call.val /\ (CallEvent \in Logged \/ call.val \notin newest)
    BY <2>1, CallEventTypes DEF CallOK, LogOK
  <2>4. call.val \in newest => call.val \in HeldVals
    BY <2>3 DEF HeldVals, Held
  <2> QED
    BY <2>1, <2>2, <2>4, AnswerStep
<1>5. CASE KeepWAL \/ ResetWAL
  <2>1. /\ newest' = newest /\ pc = "reset" /\ (answered' = answered \/ Return(TRUE))
        /\ file' = file /\ (KeepWAL \/ ~sized => wal' = wal) /\ (ResetWAL => page = NoPages)
    BY <1>5 DEF KeepWAL, ResetWAL, AfterReset, MayReset
  <2>2. KeepWAL \/ ~sized => HeldVals' = HeldVals
    BY <2>1, HeldSame
  <2>3. (newest \ Failed) \cap HeldVals' = (newest \ Failed) \cap HeldVals
    BY <1>5, <2>2, ResetHeld
  <2>4. ASSUME Adding, call.val \in newest PROVE call.val \in HeldVals'
    <3>1. PICK e \in Filed(PartOf[call.ts]) \cup Paged(PartOf[call.ts]) : e.val = call.val
      BY <2>1, <2>4, CallReached
    <3>2. PartOf[call.ts] \in Partition
      BY <2>1, <2>4, CallReached
    <3>3. CASE KeepWAL
      <4>1. e \in Held
        BY <2>4, <3>1, <3>2 DEF Held, DurableOK, PagesLogged, LogOK
      <4> QED
        BY <2>2, <3>1, <3>3, <4>1 DEF HeldVals
    <3>4. CASE ResetWAL
      <4>1. /\ \A p \in Partition : Paged(p) = {} /\ Filed(p)' = Filed(p)
        BY <2>1, <3>4, NoPagesMoves, SameMoves
      <4>2. e \in Filed(PartOf[call.ts]) /\ \A p \in Partition : e \in Filed(p) => e \in Filed(p)'
        BY <3>1, <3>2, <4>1
      <4>3. \E p \in Partition : e \in Filed(p)'
        BY <3>2, <4>2
      <4>4. e \in Held'
        BY <4>3 DEF Held
      <4> QED
        BY <3>1, <4>4 DEF HeldVals
    <3> QED
      BY <1>5, <3>3, <3>4
  <2> QED
    BY <2>1, <2>3, <2>4, AnswerStep
<1>6. CASE AppendFrame \/ WriteFails
  <2>1. (newest \ Failed) \cap HeldVals' = (newest \ Failed) \cap HeldVals
    BY <1>6, FramesHeld
  <2>2. newest' = newest /\ (answered' = answered \/ Return(FALSE))
    BY <1>6 DEF AppendFrame, WriteFails
  <2> QED
    BY <2>1, <2>2, AnswerStep
<1>7. CASE \/ Open \/ OpenFails \/ DrainDone \/ CatalogBeforeReset \/ PersistCatalog \/ Crash
           \/ \E op \in {"flush", "close"} : BeginDrain(op)
           \/ \E p \in Partition : DrainPage(p)
  <2>1. UNCHANGED <<wal, file, newest, answered>>
    BY <1>7 DEF Open, OpenFails, DrainDone, CatalogBeforeReset, PersistCatalog, Crash,
       BeginDrain, DrainPage
  <2>2. HeldVals' = HeldVals
    BY <2>1, HeldSame
  <2> QED
    BY <2>1, <2>2, AnswerStep
<1> QED
  BY <1>1, <1>a, <1>2, <1>3, <1>4, <1>5, <1>6, <1>7 DEF Write, Calling

LEMMA NextLog == IInv /\ [Next]_vars => [Log!Next]_<<LogStored, LogAcked>>
<1> SUFFICES ASSUME IInv, [Next]_vars PROVE [Log!Next]_<<LogStored, LogAcked>>
  OBVIOUS
<1>1. LogStep
  <2>1. CASE Write
    BY <2>1, WriteStep DEF IInv
  <2>2. CASE Query \/ UNCHANGED vars
    <3>1. UNCHANGED <<wal, file, newest, answered>>
      BY <2>2, QueryFrame
    <3>2. HeldVals' = HeldVals
      BY <3>1, HeldSame
    <3> QED
      BY <3>1, <3>2, AnswerStep DEF IInv
  <2> QED
    BY <2>1, <2>2 DEF Next
<1> QED
  BY <1>1 DEF LogStep, Log!Next, Log!Store, Log!Acknowledge, Log!Drop, LogStored, LogAcked,
     Failed, Calls

LEMMA InitLog == Init => Log!Init
  BY DEF Init, Log!Init, Acked

\* The events layer implements SampleLog: an event that was the newest of its partition is
\* stored before its call is acknowledged, and stays in the log or a file through every
\* reset, flush, crash and restart.
THEOREM ImplementsSampleLog == Spec => LogSpec
<1>1. IInv /\ [Next]_vars => [Log!Next]_<<LogStored, LogAcked>>
  BY NextLog
<1>2. Init => Log!Init
  BY InitLog
<1> QED
  BY <1>1, <1>2, Invariant, PTL DEF Spec, LogSpec, Log!Spec, LogStored, LogAcked, Failed


(***************************************************************************)
(* What a query has read, and what it will still find.                     *)
(***************************************************************************)
Got == {query.got[i] : i \in DOMAIN query.got}

QueryOK ==
    query.phase # "none" =>
      /\ pc # "down"
      /\ query.name # NoName => query.name \in EventName /\ Known(query.name)
      /\ \A e \in Got : /\ e.ts >= query.from
                        /\ e \in Filed(PartAt(e)) \cup Paged(PartAt(e))
                        /\ \/ PartAt(e) \notin query.parts
                           \/ query.phase = "pages" /\ e \in Filed(PartAt(e))
                        /\ query.phase = "files" => e \in Filed(PartAt(e))
      /\ \A v \in query.due : \E e \in Got \cup InParts :
            /\ e.val = v /\ Matches(e)
            /\ \/ e \in Got
               \/ e \in Paged(PartAt(e)) /\ (query.phase = "files" \/ PartAt(e) \in query.parts)
               \/ e \in Filed(PartAt(e)) /\ query.phase = "files" /\ PartAt(e) \in query.parts
      /\ faults = 0 => Distinct(query.got)

\* Steps of the writer while a query is open: pages only grow or go to their file, and
\* a name that is known keeps its entry.
LEMMA QueryMeanwhile ==
    ASSUME TypeOK, BookOK, QueryOK, pc' # "down" \/ query'.phase = "none",
           \A n \in EventName : Known(n) => catalog'[n] = catalog[n],
           \A p \in Partition : /\ Filed(p) \subseteq Filed(p)'
                                /\ Filed(p) \cup Paged(p) \subseteq Filed(p)' \cup Paged(p)',
           \/ query' = query /\ \A p \in Partition : Paged(p) \subseteq Paged(p)'
           \/ /\ AppendFrame
              /\ query' = [query EXCEPT !.due = @ \ {e.val : e \in Paged(flushing)}]
           \/ query'.phase = "none",
           faults' = 0 => faults = 0
    PROVE  QueryOK'
<1> SUFFICES ASSUME query'.phase # "none" PROVE QueryOK'
  BY DEF QueryOK
<1>1. /\ query'.phase = query.phase /\ query'.name = query.name /\ query'.from = query.from
      /\ query'.parts = query.parts /\ query'.got = query.got /\ query'.due \subseteq query.due
      /\ Got' = Got
  BY DEF TypeOK, Got
<1>2. query.phase # "none" /\ pc' # "down"
  BY <1>1
<1>3. query.name # NoName => /\ query.name \in EventName /\ Known(query.name) /\ Known(query.name)'
                             /\ catalog'[query.name] = catalog[query.name]
  BY <1>1, <1>2 DEF QueryOK, Known
<1>4. \A e : Matches(e)' <=> Matches(e)
  BY <1>1, <1>3 DEF Matches
<1>5. \A e \in InParts : PartAt(e) \in Partition
  BY EventsTypes DEF Events
<1>6. \A e \in Got : e \in InParts /\ PartAt(e) \in Partition
  <2>1. \A e \in Got : e \in Event
    BY DEF Got, TypeOK
  <2>2. \A e \in Got : PartAt(e) \in Partition
    BY <2>1, EventParts
  <2> QED
    BY <1>2, <2>2, InPartsIs DEF QueryOK
<1>7. \A e \in InParts : e \in InParts'
  <2>1. \A p \in Partition : \A e \in Filed(p) \cup Paged(p) : e \in InParts'
    BY DEF InParts
  <2> QED
    BY <2>1, InPartsIs
<1>8. \A e \in Got : /\ e.ts >= query.from
                     /\ e \in Filed(PartAt(e))' \cup Paged(PartAt(e))'
                     /\ \/ PartAt(e) \notin query.parts
                        \/ query.phase = "pages" /\ e \in Filed(PartAt(e))'
                     /\ query.phase = "files" => e \in Filed(PartAt(e))'
  BY <1>2, <1>6 DEF QueryOK
<1>9. ASSUME NEW v \in query'.due
      PROVE  \E e \in Got \cup InParts' :
                /\ e.val = v /\ Matches(e)
                /\ \/ e \in Got
                   \/ e \in Paged(PartAt(e))' /\ (query.phase = "files" \/ PartAt(e) \in query.parts)
                   \/ e \in Filed(PartAt(e))' /\ query.phase = "files" /\ PartAt(e) \in query.parts
  <2>1. PICK e \in Got \cup InParts :
           /\ e.val = v /\ Matches(e)
           /\ \/ e \in Got
              \/ e \in Paged(PartAt(e)) /\ (query.phase = "files" \/ PartAt(e) \in query.parts)
              \/ e \in Filed(PartAt(e)) /\ query.phase = "files" /\ PartAt(e) \in query.parts
    BY <1>1, <1>2, <1>9 DEF QueryOK
  <2>2. e \in Got \cup InParts' /\ PartAt(e) \in Partition
    BY <1>5, <1>6, <1>7, <2>1
  <2>3. e \in Paged(PartAt(e)) => e \in Paged(PartAt(e))'
    <3>1. CASE \A p \in Partition : Paged(p) \subseteq Paged(p)'
      BY <2>2, <3>1
    <3>2. CASE /\ AppendFrame
               /\ query' = [query EXCEPT !.due = @ \ {x.val : x \in Paged(flushing)}]
      <4>1. query'.due = query.due \ {x.val : x \in Paged(flushing)}
        BY <3>2 DEF TypeOK
      <4>2. e \notin Paged(flushing)
        BY <1>9, <2>1, <4>1
      <4> QED
        BY <2>2, <3>2, <4>2, FrameMoves DEF BookOK
    <3> QED
      BY <3>1, <3>2
  <2>4. e \in Filed(PartAt(e)) => e \in Filed(PartAt(e))'
    BY <2>2
  <2> QED
    BY <2>1, <2>2, <2>3, <2>4
<1>10. faults' = 0 => Distinct(query.got)
  BY <1>2 DEF QueryOK
<1> QED
  BY <1>1, <1>2, <1>3, <1>4, <1>8, <1>9, <1>10 DEF QueryOK

LEMMA QueryWrite ==
    ASSUME TypeOK, BookOK, QueryOK, Write
    PROVE  QueryOK'
<1>1. HandlerOK
  BY DEF BookOK
<1>2. faults' = 0 => faults = 0
  BY NoFault
<1>3. CASE Open \/ OpenFails
  <2>1. pc = "down" /\ query' = query
    BY <1>3 DEF Open, OpenFails
  <2> QED
    BY <2>1 DEF QueryOK
<1>4. CASE PersistCatalog \/ Crash
  <2>1. query'.phase = "none"
    BY <1>4 DEF PersistCatalog, Crash, LoseMemory, NoQuery
  <2> QED
    BY <2>1 DEF QueryOK
<1>5. CASE Calling
  <2>1. /\ UNCHANGED <<file, page, query>> /\ pc' # "down"
    BY <1>5 DEF Calling, BeginAdd
  <2>2. ASSUME NEW n \in EventName, Known(n) PROVE catalog'[n] = catalog[n]
    <3>1. PICK m \in EventName : \E t \in ValueType : Register(m, t)
      BY <1>5 DEF Calling, BeginAdd
    <3>2. CASE Known(m)
      BY <3>1, <3>2 DEF Register
    <3>3. CASE ~Known(m)
      <4>1. n # m
        BY <2>2, <3>3
      <4>2. \E x : catalog' = [catalog EXCEPT ![m] = x]
        BY <3>1, <3>3 DEF Register
      <4> QED
        BY <4>1, <4>2 DEF TypeOK
    <3> QED
      BY <3>2, <3>3
  <2>3. \A p \in Partition : Filed(p)' = Filed(p) /\ Paged(p)' = Paged(p)
    BY <2>1, SameMoves
  <2> QED
    BY <1>2, <2>1, <2>2, <2>3, QueryMeanwhile
<1>6. CASE \/ WriteLength \/ WritePayload \/ AppendFails \/ DrainDone \/ KeepWAL
           \/ CatalogBeforeReset \/ ResetWAL
           \/ \E op \in {"flush", "close"} : BeginDrain(op)
           \/ \E p \in Partition : DrainPage(p)
  <2>1. UNCHANGED <<file, page, query, catalog>> /\ pc' # "down"
    BY <1>6, Returned DEF WriteLength, WritePayload, AppendFails, DrainDone, KeepWAL,
       CatalogBeforeReset, ResetWAL, BeginDrain, DrainPage, AfterReset
  <2>2. \A p \in Partition : Filed(p)' = Filed(p) /\ Paged(p)' = Paged(p)
    BY <2>1, SameMoves
  <2> QED
    BY <1>2, <2>1, <2>2, QueryMeanwhile
<1>7. CASE AddToPage
  <2> DEFINE q == PartOf[call.ts]
  <2>1. /\ UNCHANGED <<file, query, catalog>> /\ pc' # "down" /\ Adding
        /\ page' = [page EXCEPT ![q] = Append(@, CallEvent)]
    BY <1>1, <1>7, Returned DEF AddToPage, HandlerOK
  <2>2. CallEvent \in Event /\ q \in Partition
    BY <1>1, <2>1, CallEventTypes
  <2>3. \A p \in Partition : Filed(p)' = Filed(p) /\ Paged(p) \subseteq Paged(p)'
    BY <2>1, <2>2, SameMoves, PageGrows
  <2> QED
    BY <1>2, <2>1, <2>3, QueryMeanwhile
<1>8. CASE AppendFrame
  <2>1. /\ query' = [query EXCEPT !.due = @ \ {e.val : e \in Range(page[flushing])}]
        /\ catalog' = catalog /\ pc' # "down"
    BY <1>8 DEF AppendFrame
  <2>2. Range(page[flushing]) = Paged(flushing)
    BY DEF Range, Paged
  <2>3. query' = [query EXCEPT !.due = @ \ {e.val : e \in Paged(flushing)}]
    BY <2>1, <2>2
  <2>4. \A p \in Partition : /\ Filed(p) \subseteq Filed(p)'
                             /\ Filed(p) \cup Paged(p) \subseteq Filed(p)' \cup Paged(p)'
    BY <1>1, <1>8, FrameMoves
  <2> QED
    BY <1>2, <1>8, <2>1, <2>3, <2>4, QueryMeanwhile
<1>9. CASE WriteFails /\ pc = "persist"
  <2>1. query'.phase = "none"
    BY <1>9 DEF WriteFails, LoseMemory, NoQuery
  <2> QED
    BY <2>1 DEF QueryOK
<1>10. CASE WriteFails /\ pc # "persist"
  <2>1. UNCHANGED <<page, query, catalog>>
    BY <1>10 DEF WriteFails
  <2>2. pc' # "down"
    BY <1>10, Returned DEF WriteFails
  <2>3. \A p \in Partition : Filed(p) \subseteq Filed(p)' /\ Paged(p)' = Paged(p)
    BY <1>1, <1>10, FailMoves
  <2> QED
    BY <1>2, <2>1, <2>2, <2>3, QueryMeanwhile
<1> QED
  BY <1>3, <1>4, <1>5, <1>6, <1>7, <1>8, <1>9, <1>10 DEF Write, Calling

LEMMA QueryStarts ==
    ASSUME TypeOK, BookOK, NEW n \in EventName \cup {NoName}, NEW from \in QueryFrom,
           QueryStart(n, from)
    PROVE  QueryOK'
<1> DEFINE asked(e) == e.ts >= from /\ (n = NoName \/ e.id = catalog[n].id)
           parts    == {p \in Partition : file[p] # <<>>}
           due      == {e.val : e \in {e \in AllStored : asked(e)}}
<1>1. /\ query' = [phase |-> "files", name |-> n, from |-> from,
                   parts |-> parts, got |-> <<>>, due |-> due]
      /\ UNCHANGED <<disk, memory, pc>> /\ pc # "down" /\ (n # NoName => Known(n))
  BY DEF QueryStart
<1>2. \A e : Matches(e)' <=> asked(e)
  BY <1>1 DEF Matches
<1>3. Got' = {}
  BY <1>1 DEF Got
<1>4. \A p \in Partition : Filed(p)' = Filed(p) /\ Paged(p)' = Paged(p)
  BY <1>1, SameMoves
<1>5. \A e \in InParts : PartAt(e) \in Partition
  BY EventsTypes DEF Events
<1>6. \A p \in Partition : Filed(p) # {} => p \in parts
  BY DEF Filed
<1>7. ASSUME NEW e \in AllStored, asked(e)
      PROVE  /\ e \in InParts' /\ Matches(e)'
             /\ \/ e \in Paged(PartAt(e))'
                \/ e \in Filed(PartAt(e))' /\ PartAt(e) \in parts
  <2>1. e \in InParts
    BY <1>7, StoredIs
  <2>2. InParts' = InParts
    BY <1>1 DEF InParts, Filed, Paged
  <2>3. PICK p \in Partition : e \in Filed(p) \cup Paged(p)
    BY <2>1, InPartsIs
  <2>4. PartAt(e) = p
    BY <1>7, <2>3 DEF BookOK, EventsOK
  <2> QED
    BY <1>2, <1>4, <1>6, <1>7, <2>1, <2>2, <2>3, <2>4
<1>8. n # NoName => n \in EventName /\ Known(n)'
  BY <1>1 DEF Known
<1>9. Distinct(query'.got)
  BY <1>1 DEF Distinct
<1>10. ASSUME NEW v \in query'.due
       PROVE  \E e \in Got' \cup InParts' :
                 /\ e.val = v /\ Matches(e)'
                 /\ \/ e \in Paged(PartAt(e))'
                    \/ e \in Filed(PartAt(e))' /\ PartAt(e) \in parts
  <2>1. PICK e \in AllStored : asked(e) /\ e.val = v
    BY <1>1, <1>10
  <2> QED
    BY <1>7, <1>10, <2>1
<1> QED
  BY <1>1, <1>3, <1>8, <1>9, <1>10 DEF QueryOK


\* What a partition has to give in the phase of the open query, and an answer that is it.
HeldBy(p) == IF query.phase = "files" THEN Filed(p) ELSE Paged(p)

ReadsAll(found, p) ==
    /\ found \in Seq(Event)
    /\ \A i \in DOMAIN found : found[i] \in HeldBy(p) /\ Matches(found[i])
    /\ \A e \in HeldBy(p) : Matches(e) => \E i \in DOMAIN found : found[i] = e
    /\ faults = 0 => Distinct(found)

\* What a read adds to the answer: matching events of p, which no read gave before.
LEMMA QueryReads ==
    ASSUME TypeOK, BookOK, QueryOK, OnceOK, query.phase # "none", NEW p \in query.parts,
           NEW found, ReadsAll(found, p),
           query' = [query EXCEPT !.parts = @ \ {p}, !.got = @ \o found],
           UNCHANGED <<disk, memory, pc, call, flushing, history>>
    PROVE  QueryOK'
<1> DEFINE held == HeldBy(p)
<1>0. /\ found \in Seq(Event)
      /\ \A i \in DOMAIN found : found[i] \in held /\ Matches(found[i])
      /\ \A e \in held : Matches(e) => \E i \in DOMAIN found : found[i] = e
      /\ faults = 0 => Distinct(found)
      /\ held = IF query.phase = "files" THEN Filed(p) ELSE Paged(p)
  BY DEF ReadsAll, HeldBy
<1> HIDE DEF held
<1>1. /\ query'.phase = query.phase /\ query'.name = query.name /\ query'.from = query.from
      /\ query'.parts = query.parts \ {p} /\ query'.got = query.got \o found
      /\ query'.due = query.due /\ query.got \in Seq(Event)
      /\ p \in Partition /\ query.phase \in {"files", "pages"}
  BY DEF TypeOK
<1>2. /\ \A q \in Partition : Filed(q)' = Filed(q) /\ Paged(q)' = Paged(q)
      /\ InParts' = InParts /\ faults' = faults /\ pc' = pc
  BY SameMoves DEF InParts, Filed, Paged
<1>3. \A e : Matches(e)' <=> Matches(e)
  BY <1>1 DEF Matches
<1>4. \A e : e \in Got' <=> e \in Got \/ \E i \in DOMAIN found : e = found[i]
  <2>1. IsJoin(Event, query.got, found, query'.got)
    BY <1>0, <1>1, Joined
  <2>2. /\ \A i \in DOMAIN query.got : i \in DOMAIN query'.got /\ query'.got[i] = query.got[i]
        /\ \A j \in DOMAIN found : /\ Len(query.got) + j \in DOMAIN query'.got
                                   /\ query'.got[Len(query.got) + j] = found[j]
        /\ \A i \in DOMAIN query'.got :
              i \in DOMAIN query.got \/ \E j \in DOMAIN found : i = Len(query.got) + j
    BY <2>1 DEF IsJoin
  <2>3. \A e : e \in Got <=> \E i \in DOMAIN query.got : e = query.got[i]
    BY DEF Got
  <2>4. \A e : e \in Got' <=> \E i \in DOMAIN query'.got : e = query'.got[i]
    BY DEF Got
  <2>5. ASSUME NEW e \in Got' PROVE e \in Got \/ \E j \in DOMAIN found : e = found[j]
    <3>1. PICK i \in DOMAIN query'.got : e = query'.got[i]
      BY <2>4, <2>5
    <3>2. CASE i \in DOMAIN query.got
      BY <2>2, <2>3, <3>1, <3>2
    <3>3. CASE i \notin DOMAIN query.got
      BY <2>2, <3>1, <3>3
    <3> QED
      BY <3>2, <3>3
  <2>6. \A e \in Got : e \in Got'
    BY <2>2, <2>3, <2>4
  <2>7. \A j \in DOMAIN found : found[j] \in Got'
    BY <2>2, <2>4
  <2> QED
    BY <2>5, <2>6, <2>7
<1>5. \A e \in held : /\ e \in Filed(p) \cup Paged(p) /\ PartAt(e) = p
                      /\ query.phase = "files" => e \in Filed(p)
                      /\ query.phase = "pages" => e \in Paged(p)
  BY <1>0, <1>1 DEF BookOK, EventsOK
<1>6. \A e : Matches(e) => e.ts >= query.from
  BY DEF Matches
<1>7. \A e \in Got : PartAt(e) \in Partition
  <2>1. \A e \in Got : e \in Event
    BY DEF Got, TypeOK
  <2> QED
    BY <2>1, EventParts
<1>8. \A e \in Got' : /\ e.ts >= query.from
                      /\ e \in Filed(PartAt(e)) \cup Paged(PartAt(e)) /\ PartAt(e) \in Partition
                      /\ \/ PartAt(e) \notin query'.parts
                         \/ query.phase = "pages" /\ e \in Filed(PartAt(e))
                      /\ query.phase = "files" => e \in Filed(PartAt(e))
  <2> SUFFICES ASSUME NEW e \in Got'
               PROVE  /\ e.ts >= query.from
                      /\ e \in Filed(PartAt(e)) \cup Paged(PartAt(e)) /\ PartAt(e) \in Partition
                      /\ \/ PartAt(e) \notin query'.parts
                         \/ query.phase = "pages" /\ e \in Filed(PartAt(e))
                      /\ query.phase = "files" => e \in Filed(PartAt(e))
    OBVIOUS
  <2>1. CASE e \in Got
    BY <1>1, <1>7, <2>1 DEF QueryOK
  <2>2. CASE e \notin Got
    <3>1. e \in held /\ Matches(e)
      BY <1>0, <1>4, <2>2
    <3> QED
      BY <1>1, <1>5, <1>6, <3>1
  <2> QED
    BY <2>1, <2>2
<1>9. ASSUME NEW v \in query.due
      PROVE  \E e \in Got' \cup InParts :
                /\ e.val = v /\ Matches(e)
                /\ \/ e \in Got'
                   \/ e \in Paged(PartAt(e)) /\ (query.phase = "files" \/ PartAt(e) \in query'.parts)
                   \/ e \in Filed(PartAt(e)) /\ query.phase = "files" /\ PartAt(e) \in query'.parts
  <2>1. PICK e \in Got \cup InParts :
           /\ e.val = v /\ Matches(e)
           /\ \/ e \in Got
              \/ e \in Paged(PartAt(e)) /\ (query.phase = "files" \/ PartAt(e) \in query.parts)
              \/ e \in Filed(PartAt(e)) /\ query.phase = "files" /\ PartAt(e) \in query.parts
    BY <1>9 DEF QueryOK
  <2>2. CASE e \in held \/ e \in Got
    <3>1. e \in Got'
      BY <1>0, <1>4, <2>1, <2>2
    <3> QED
      BY <2>1, <3>1
  <2>3. CASE e \notin held /\ e \notin Got
    <3>1. \/ e \in Paged(PartAt(e)) /\ (query.phase = "files" \/ PartAt(e) \in query'.parts)
          \/ e \in Filed(PartAt(e)) /\ query.phase = "files" /\ PartAt(e) \in query'.parts
      BY <1>0, <1>1, <2>1, <2>3
    <3> QED
      BY <2>1, <2>3, <3>1
  <2> QED
    BY <2>2, <2>3
<1>10. ASSUME faults = 0 PROVE Distinct(query'.got)
  <2>1. Distinct(query.got) /\ Distinct(found)
    BY <1>0, <1>10 DEF QueryOK
  <2>2. \A i \in DOMAIN query.got : query.got[i] \in Got
    BY DEF Got
  <2>3. ASSUME NEW e \in Got, NEW g \in held PROVE e.val # g.val
    <3>1. /\ e \in Filed(PartAt(e)) \cup Paged(PartAt(e)) /\ PartAt(e) \in Partition
          /\ \/ PartAt(e) \notin query.parts
             \/ query.phase = "pages" /\ e \in Filed(PartAt(e))
          /\ query.phase = "files" => e \in Filed(PartAt(e))
      BY <1>7, <2>3 DEF QueryOK
    <3>2. g \in Filed(p) \cup Paged(p) /\ PartAt(g) = p
      BY <1>5, <2>3
    <3>3. CASE PartAt(e) # p
      <4>1. e \in Events /\ g \in Events
        BY <1>1, <3>1, <3>2, InPartsIs DEF Events
      <4> QED
        BY <3>2, <3>3, <4>1 DEF BookOK, EventsOK
    <3>4. CASE PartAt(e) = p
      <4>1. e \in Filed(p) /\ g \in Paged(p)
        BY <1>1, <1>5, <2>3, <3>1, <3>4
      <4> QED
        BY <1>1, <1>10, <4>1 DEF OnceOK
    <3> QED
      BY <3>3, <3>4
  <2>4. \A i \in DOMAIN query.got : \A j \in DOMAIN found : query.got[i].val # found[j].val
    BY <1>0, <2>2, <2>3
  <2>5. query.got \in Seq(Event) /\ found \in Seq(Event)
    BY <1>0, <1>1
  <2>6. Distinct(query.got \o found)
    BY <2>1, <2>4, <2>5, JoinedDistinct
  <2> QED
    BY <1>1, <2>6
<1>11. query'.name # NoName => query'.name \in EventName /\ Known(query'.name)
  BY <1>1 DEF QueryOK
<1>12. /\ \A e \in Got' : /\ e.ts >= query'.from
                          /\ e \in Filed(PartAt(e))' \cup Paged(PartAt(e))'
                          /\ \/ PartAt(e) \notin query'.parts
                             \/ query'.phase = "pages" /\ e \in Filed(PartAt(e))'
                          /\ query'.phase = "files" => e \in Filed(PartAt(e))'
  BY <1>1, <1>2, <1>8
<1>13. \A e \in InParts : PartAt(e) \in Partition
  BY EventsTypes DEF Events
<1>14. ASSUME NEW v \in query'.due
       PROVE  \E e \in Got' \cup InParts' :
                 /\ e.val = v /\ Matches(e)'
                 /\ \/ e \in Got'
                    \/ e \in Paged(PartAt(e))' /\ (query'.phase = "files" \/ PartAt(e) \in query'.parts)
                    \/ e \in Filed(PartAt(e))' /\ query'.phase = "files" /\ PartAt(e) \in query'.parts
  BY <1>1, <1>2, <1>3, <1>8, <1>9, <1>13, <1>14
<1>15. pc' # "down" /\ Known(query.name)' = Known(query.name)
  BY <1>1, <1>2 DEF QueryOK, Known
<1> QED
  BY <1>1, <1>2, <1>10, <1>11, <1>12, <1>14, <1>15 DEF QueryOK, Known

\* A frame holding an event that matches is decoded.
LEMMA SelectedIs ==
    ASSUME TypeOK, QueryOK, query.phase # "none", NEW f \in Seq(Event), NEW k \in DOMAIN f,
           Matches(f[k])
    PROVE  Selected(f)
<1>1. f # <<>> /\ f[k] \in Event /\ f[k] \in Range(f)
  BY DEF Range
<1>2. f[k].ts >= query.from /\ f[k].ts \in Nat /\ f[k].ts <= FrameEnd(f)
  BY <1>1, EventParts, FrameEndIs DEF Matches
<1>3. FrameEnd(f) \in Nat
  <2>1. PICK j \in DOMAIN f : FrameEnd(f) = f[j].ts
    BY <1>1, FrameEndIs
  <2>2. f[j] \in Event
    OBVIOUS
  <2> QED
    BY <2>1, <2>2, EventParts
<1>4. query.from \in Nat
  <2>1. query.from \in Timestamp \/ query.from = 0
    BY DEF TypeOK
  <2>2. CASE query.from = 0
    BY <2>2
  <2>3. CASE query.from \in Timestamp
    BY <2>3, EventAssumption
  <2> QED
    BY <2>1, <2>2, <2>3
<1>5. FrameEnd(f) >= query.from
  BY <1>2, <1>3, <1>4
<1>6. query.name # NoName => catalog[query.name].id \in FrameIds(f)
  BY <1>1 DEF Matches, FrameIds
<1> QED
  BY <1>5, <1>6 DEF Selected

LEMMA QueryQuery ==
    ASSUME TypeOK, BookOK, QueryOK, OnceOK, Query
    PROVE  QueryOK'
<1>1. CASE \E n \in EventName \cup {NoName}, from \in QueryFrom : QueryStart(n, from)
  BY <1>1, QueryStarts
<1>2. CASE ReadFile
  <2> DEFINE p == NextPart(query.parts)
             found == FoundIn(file[p])
  <2>1. p \in Partition /\ p \in query.parts /\ query.phase = "files"
    BY <1>2, NextPartIs DEF ReadFile
  <2> HIDE DEF p
  <2>2. file[p] \in Seq(Seq(Event))
    BY <2>1 DEF TypeOK
  <2>3. FoundUpTo(file[p], Len(file[p]), found) /\ (Disjoint(file[p]) => Distinct(found))
    BY <2>2, FoundIs
  <2>4. /\ query' = [query EXCEPT !.parts = @ \ {p}, !.got = @ \o found]
        /\ UNCHANGED <<disk, memory, pc, call, flushing, history>>
    BY <1>2 DEF ReadFile, p
  <2> HIDE DEF found
  <2>5. DOMAIN file[p] = 1..Len(file[p]) /\ \A f \in DOMAIN file[p] : file[p][f] \in Seq(Event)
    BY <2>2
  <2>6. ASSUME NEW i \in DOMAIN found PROVE found[i] \in Filed(p) /\ Matches(found[i])
    <3>1. PICK f \in DOMAIN file[p] : \E k \in DOMAIN file[p][f] :
             found[i] = file[p][f][k] /\ Matches(file[p][f][k])
      BY <2>3, <2>5 DEF FoundUpTo
    <3>2. PICK k \in DOMAIN file[p][f] : found[i] = file[p][f][k] /\ Matches(file[p][f][k])
      BY <3>1
    <3>3. found[i] \in {file[p][f][m] : m \in DOMAIN file[p][f]}
      BY <3>2
    <3> QED
      BY <3>2, <3>3 DEF Filed
  <2>7. ASSUME NEW e \in Filed(p), Matches(e) PROVE \E i \in DOMAIN found : found[i] = e
    <3>1. PICK f \in DOMAIN file[p] : e \in {file[p][f][m] : m \in DOMAIN file[p][f]}
      BY <2>7 DEF Filed
    <3>2. PICK k \in DOMAIN file[p][f] : e = file[p][f][k]
      BY <3>1
    <3>3. Selected(file[p][f])
      BY <2>1, <2>5, <2>7, <3>2, SelectedIs
    <3> QED
      BY <2>3, <2>5, <2>7, <3>2, <3>3 DEF FoundUpTo
  <2>8. found \in Seq(Event)
    BY <2>3 DEF FoundUpTo
  <2>9. faults = 0 => Distinct(found)
    <3>1. faults = 0 => Disjoint(file[p])
      BY <2>1 DEF OnceOK
    <3> QED
      BY <2>3, <3>1
  <2> QED
    <3>1. HeldBy(p) = Filed(p)
      BY <2>1 DEF HeldBy
    <3>2. ReadsAll(found, p)
      BY <2>6, <2>7, <2>8, <2>9, <3>1 DEF ReadsAll
    <3> QED
      BY <2>1, <2>4, <3>2, QueryReads
<1>3. CASE ReadPage
  <2> DEFINE p == NextPart(query.parts)
             found == Matching(page[p])
  <2>1. p \in Partition /\ p \in query.parts /\ query.phase = "pages"
    BY <1>3, NextPartIs DEF ReadPage
  <2> HIDE DEF p
  <2>2. page[p] \in Seq(Event)
    BY <2>1 DEF TypeOK
  <2>3. /\ found \in Seq(Event)
        /\ \A i \in DOMAIN found : \E k \in DOMAIN page[p] :
              found[i] = page[p][k] /\ Matches(page[p][k])
        /\ \A k \in DOMAIN page[p] :
              Matches(page[p][k]) => \E i \in DOMAIN found : found[i] = page[p][k]
        /\ Distinct(page[p]) => Distinct(found)
    BY <2>2, MatchingIs
  <2>4. /\ query' = [query EXCEPT !.parts = @ \ {p}, !.got = @ \o found]
        /\ UNCHANGED <<disk, memory, pc, call, flushing, history>>
    BY <1>3 DEF ReadPage, p
  <2> HIDE DEF found
  <2>5. \A i \in DOMAIN found : found[i] \in Paged(p) /\ Matches(found[i])
    BY <2>3 DEF Paged
  <2>6. \A e \in Paged(p) : Matches(e) => \E i \in DOMAIN found : found[i] = e
    BY <2>3 DEF Paged
  <2>7. faults = 0 => Distinct(found)
    <3>1. faults = 0 => Distinct(page[p])
      BY <2>1 DEF OnceOK
    <3> QED
      BY <2>3, <3>1
  <2> QED
    <3>1. HeldBy(p) = Paged(p)
      BY <2>1 DEF HeldBy
    <3>2. ReadsAll(found, p)
      BY <2>3, <2>5, <2>6, <2>7, <3>1 DEF ReadsAll
    <3> QED
      BY <2>1, <2>4, <3>2, QueryReads
<1>4. CASE FilesRead
  <2> DEFINE parts == {p \in Partition : page[p] # <<>>}
  <2>1. /\ query.phase = "files" /\ query.parts = {}
        /\ query' = [query EXCEPT !.phase = "pages", !.parts = parts]
        /\ UNCHANGED <<disk, memory, pc, call, flushing, history>>
    BY <1>4 DEF FilesRead
  <2>2. \A p \in Partition : Paged(p) # {} => p \in parts
    BY DEF Paged
  <2> HIDE DEF parts
  <2>3. /\ query'.phase = "pages" /\ query'.name = query.name /\ query'.from = query.from
        /\ query'.parts = parts /\ query'.got = query.got /\ query'.due = query.due /\ Got' = Got
    BY <2>1 DEF TypeOK, Got
  <2>4. /\ \A q \in Partition : Filed(q)' = Filed(q) /\ Paged(q)' = Paged(q)
        /\ InParts' = InParts
    BY <2>1, SameMoves DEF InParts, Filed, Paged
  <2>5. \A e : Matches(e)' <=> Matches(e)
    BY <2>1, <2>3 DEF Matches
  <2>6. \A e \in InParts : PartAt(e) \in Partition
    BY EventsTypes DEF Events
  <2>7. \A e \in Got : PartAt(e) \in Partition
    <3>1. \A e \in Got : e \in Event
      BY DEF Got, TypeOK
    <3> QED
      BY <3>1, EventParts
  <2>8. \A e \in Got : /\ e.ts >= query.from /\ e \in Filed(PartAt(e))
    BY <2>1 DEF QueryOK
  <2>9. ASSUME NEW v \in query.due
        PROVE  \E e \in Got \cup InParts : /\ e.val = v /\ Matches(e)
                                           /\ e \in Got \/ e \in Paged(PartAt(e))
    BY <2>1, <2>9 DEF QueryOK
  <2>10. \A e \in Got' : /\ e.ts >= query'.from
                         /\ e \in Filed(PartAt(e))'
    BY <2>1, <2>3, <2>4, <2>7, <2>8
  <2>11. ASSUME NEW v \in query'.due
         PROVE  \E e \in Got' \cup InParts' :
                   /\ e.val = v /\ Matches(e)'
                   /\ \/ e \in Got'
                      \/ e \in Paged(PartAt(e))' /\ PartAt(e) \in query'.parts
    <3>1. PICK e \in Got \cup InParts : /\ e.val = v /\ Matches(e)
                                        /\ e \in Got \/ e \in Paged(PartAt(e))
      BY <2>3, <2>9, <2>11
    <3>2. PartAt(e) \in Partition
      BY <2>6, <2>7, <3>1
    <3> QED
      BY <2>2, <2>3, <2>4, <2>5, <3>1, <3>2
  <2>12. pc' # "down" /\ (query'.name # NoName => query'.name \in EventName /\ Known(query.name)')
    BY <2>1, <2>3 DEF QueryOK, Known
  <2>13. faults' = 0 => Distinct(query'.got)
    BY <2>1, <2>3 DEF QueryOK, history
  <2> QED
    BY <2>3, <2>10, <2>11, <2>12, <2>13 DEF QueryOK
<1>5. CASE QueryReturn
  BY <1>5 DEF QueryReturn, QueryOK, NoQuery
<1> QED
  BY <1>1, <1>2, <1>3, <1>4, <1>5 DEF Query


\* A step that leaves all variables alone keeps what is known of the query.
LEMMA QueryStill ==
    ASSUME QueryOK, UNCHANGED vars
    PROVE  QueryOK'
<1>1. UNCHANGED <<file, page, catalog, query, faults, pc>>
  BY DEF vars, disk, memory, known, history
<1> QED
  BY <1>1 DEF QueryOK, Got, InParts, Filed, Paged, Known, Matches

LEMMA QueryNext == IInv /\ QueryOK /\ [Next]_vars => QueryOK'
<1> SUFFICES ASSUME IInv, QueryOK, [Next]_vars PROVE QueryOK'
  OBVIOUS
<1>1. TypeOK /\ BookOK /\ OnceOK
  BY DEF IInv
<1> HIDE DEF IInv, QueryOK
<1>2. CASE Write
  BY <1>1, <1>2, QueryWrite
<1>3. CASE Query
  BY <1>1, <1>3, QueryQuery
<1>4. CASE UNCHANGED vars
  BY <1>4, QueryStill
<1> QED
  BY <1>2, <1>3, <1>4 DEF Next

\* The values of a sequence of events that never repeats one are as many as its events.
LEMMA ValuesCounted ==
    ASSUME NEW s \in Seq(Event), Distinct(s)
    PROVE  Cardinality({e.val : e \in Range(s)}) = Len(s)
<1> DEFINE V == {e.val : e \in Range(s)}
           f == [i \in 1..Len(s) |-> s[i].val]
<1>1. DOMAIN s = 1..Len(s) /\ Len(s) \in Nat
  OBVIOUS
<1>2. \A e : e \in Range(s) <=> \E i \in DOMAIN s : s[i] = e
  BY DEF Range
<1>3. \A v : v \in V <=> \E i \in 1..Len(s) : f[i] = v
  <2>1. ASSUME NEW v \in V PROVE \E i \in 1..Len(s) : f[i] = v
    <3>1. PICK e \in Range(s) : e.val = v
      OBVIOUS
    <3>2. PICK i \in DOMAIN s : s[i] = e
      BY <1>2
    <3> QED
      BY <1>1, <3>1, <3>2
  <2>2. ASSUME NEW i \in 1..Len(s) PROVE f[i] \in V
    <3>1. s[i] \in Range(s)
      BY <1>1, <1>2
    <3> QED
      BY <3>1
  <2> QED
    BY <2>1, <2>2
<1>4. \A i, j \in 1..Len(s) : f[i] = f[j] => i = j
  BY <1>1 DEF Distinct
<1>5. DOMAIN f = 1..Len(s)
  OBVIOUS
<1>6. f \in [1..Len(s) -> V]
  <2> HIDE DEF V
  <2>1. \A i \in 1..Len(s) : f[i] \in V
    BY <1>3
  <2> QED
    BY <2>1
<1> HIDE DEF f, V
<1>7. f \in Bijection(1..Len(s), V)
  BY <1>3, <1>4, <1>5, <1>6 DEF Bijection, Injection, Surjection, IsInjective
<1>8. ExistsBijection(1..Len(s), V)
  BY <1>7 DEF ExistsBijection
<1>9. Cardinality(V) = Len(s)
  BY <1>1, <1>8, FS_CountingElements
<1> QED
  BY <1>9 DEF V

\* A query that has read all its partitions gives every event it owed, nothing older than
\* it asked for, and while no write failed no event twice, however the writer's steps fell
\* between its reads.
THEOREM QueryExact == Spec => []QueryIsExact
<1>1. Init => QueryOK
  BY DEF Init, NoQuery, QueryOK
<1>2. IInv /\ QueryOK => QueryIsExact
  <2> SUFFICES ASSUME IInv, QueryOK, QueryDone PROVE QueryIsExact
    BY DEF QueryIsExact
  <2> DEFINE vals == {e.val : e \in Range(query.got)}
  <2>1. TypeOK /\ query.got \in Seq(Event) /\ query.phase = "pages" /\ query.parts = {}
    BY DEF IInv, QueryDone, TypeOK
  <2>2. Range(query.got) = Got
    BY DEF Range, Got
  <2>3. query.due \subseteq vals
    <3>1. \A v \in query.due : \E e \in Got : e.val = v
      BY <2>1 DEF QueryOK
    <3> QED
      BY <2>2, <3>1
  <2>4. \A e \in Range(query.got) : e.ts >= query.from
    BY <2>1, <2>2 DEF QueryOK
  <2>5. faults = 0 => Cardinality(vals) = Len(query.got)
    BY <2>1, ValuesCounted DEF QueryOK
  <2> QED
    BY <2>3, <2>4, <2>5 DEF QueryIsExact
<1> HIDE DEF Init, Next, IInv, vars, QueryOK, QueryIsExact
<1> QED
  BY <1>1, <1>2, Invariant, QueryNext, PTL DEF Spec
=============================================================================
