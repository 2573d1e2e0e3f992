-------------------------- MODULE PartitionProofs --------------------------
(***************************************************************************)
(* Proofs about the files of the partitions, for every value of the        *)
(* constants: what a seal, a build, a recompaction, a replay, a crash and  *)
(* the retention may take from the files of a day, and what a caller or a  *)
(* query finds in them.                                                    *)
(***************************************************************************)
EXTENDS PartitionFiles, FiniteSetTheorems, WellFoundedInduction, TLAPS

(***************************************************************************)
(* Data: sequences of frames, and sequences in the order of time.          *)
(***************************************************************************)
Frames == Seq(Seq(Nat))

Rising(s)   == \A i, j \in 1..Len(s) : i < j => s[i] < s[j]
Below(S, T) == \A x \in S, y \in T : x < y

LEMMA Smallest ==
    ASSUME NEW T, T \subseteq Nat, T # {}
    PROVE  \E m \in T : \A k \in T : m <= k
<1>1. PICK m \in T : \A k \in T : <<k, m>> \notin OpToRel(<, Nat)
  BY WFMin, NatLessThanWellFounded, Zenon
<1>2. \A k \in T : ~(k < m)
  BY <1>1, Zenon DEF OpToRel
<1> QED
  BY <1>2

\* A function defined by recursion on 1..n exists when its steps stay in S.
Recursive(t, n, S, init, step) ==
    /\ t \in [0..n -> S]
    /\ \A k \in 0..n : t[k] = IF k = 0 THEN init ELSE step[k][t[k - 1]]

LEMMA Recursion ==
    ASSUME NEW n \in Nat, NEW S, NEW init \in S, NEW step \in [1..n -> [S -> S]]
    PROVE  \E t : Recursive(t, n, S, init, step)
<1> DEFINE Ok(t, m) == \A k \in 0..m : t[k] = IF k = 0 THEN init ELSE step[k][t[k - 1]]
           bad == {m \in 0..n : ~\E t \in [0..m -> S] : Ok(t, m)}
<1>1. SUFFICES ASSUME bad # {} PROVE FALSE
  BY DEF Recursive
<1>2. bad \subseteq Nat
  OBVIOUS
<1> HIDE DEF bad
<1>3. PICK m \in bad : \A k \in bad : m <= k
  BY <1>1, <1>2, Smallest
<1> USE DEF bad
<1>4. m # 0
  <2>1. [k \in 0..0 |-> init] \in [0..0 -> S] /\ Ok([k \in 0..0 |-> init], 0)
    OBVIOUS
  <2>2. 0 \notin bad
    BY <2>1
  <2> QED
    BY <1>3, <2>2
<1>5. m \in 1..n /\ m - 1 \in 0..n /\ m - 1 \notin bad
  <2>1. m \in 0..n
    BY <1>3
  <2> HIDE DEF bad
  <2> QED
    BY <1>3, <1>4, <2>1
<1>6. PICK t \in [0..(m - 1) -> S] : Ok(t, m - 1)
  BY <1>5
<1> DEFINE u == [k \in 0..m |-> IF k < m THEN t[k] ELSE step[m][t[m - 1]]]
<1>7. t[m - 1] \in S /\ step[m] \in [S -> S]
  BY <1>5
<1>8. step[m][t[m - 1]] \in S
  BY <1>7
<1>9. u \in [0..m -> S]
  <2>1. \A k \in 0..m : k < m => k \in 0..(m - 1)
    BY <1>5
  <2> QED
    BY <1>8, <2>1
<1>10. u[m] = step[m][t[m - 1]] /\ \A k \in 0..(m - 1) : u[k] = t[k]
  BY <1>5
<1> HIDE DEF u
<1>11. Ok(u, m)
  <2> SUFFICES ASSUME NEW k \in 0..m
               PROVE  u[k] = IF k = 0 THEN init ELSE step[k][u[k - 1]]
    OBVIOUS
  <2>1. CASE k = m
    <3>1. u[m - 1] = t[m - 1]
      BY <1>5, <1>10
    <3> QED
      BY <1>4, <1>10, <2>1, <3>1
  <2>2. CASE k # m
    <3>1. k \in 0..(m - 1) /\ (k # 0 => k - 1 \in 0..(m - 1))
      BY <1>5, <2>2
    <3>2. t[k] = IF k = 0 THEN init ELSE step[k][t[k - 1]]
      BY <1>6, <3>1
    <3> QED
      BY <1>10, <3>1, <3>2
  <2> QED
    BY <2>1, <2>2
<1> QED
  BY <1>3, <1>9, <1>11

\* g joins the first n frames, as FlattenSeq does.
Joins(f, n, g) ==
    /\ g \in [1..n -> Seq(Nat)]
    /\ \A i \in 1..n : g[i] = IF i = 1 THEN f[i] ELSE g[i - 1] \o f[i]

LEMMA JoinsExist ==
    ASSUME NEW f \in Frames
    PROVE  \E g : Joins(f, Len(f), g)
<1> DEFINE n == Len(f)
           S == Seq(Nat)
           init == <<>>
           step == [k \in 1..n |-> [t \in S |-> t \o f[k]]]
<1>1. n \in Nat /\ \A k \in 1..n : f[k] \in Seq(Nat)
  BY DEF Frames
<1>2. init \in S /\ step \in [1..n -> [S -> S]]
  <2>1. ASSUME NEW k \in 1..n, NEW t \in S PROVE t \o f[k] \in S
    BY <1>1
  <2> QED
    BY <2>1
<1>3. \A k \in 1..n : \A t \in S : step[k][t] = t \o f[k]
  OBVIOUS
<1> HIDE DEF step, n
<1>4. PICK t : Recursive(t, n, S, init, step)
  BY <1>1, <1>2, Recursion
<1>5. \A k \in 0..n : t[k] \in S
  BY <1>4 DEF Recursive
<1>6. ASSUME NEW i \in 1..n
      PROVE  t[i] \in S /\ t[i] = IF i = 1 THEN f[i] ELSE t[i - 1] \o f[i]
  <2>1. i \in 0..n /\ i - 1 \in 0..n /\ 0 \in 0..n /\ i # 0
    BY <1>1
  <2>2. t[i] = step[i][t[i - 1]] /\ t[i - 1] \in S
    BY <1>4, <1>5, <2>1 DEF Recursive
  <2>3. t[i] = t[i - 1] \o f[i]
    BY <1>3, <2>2
  <2>4. t[0] = <<>>
    BY <1>4, <2>1 DEF Recursive
  <2>5. i = 1 => t[i] = <<>> \o f[i]
    <3>1. i = 1 => i - 1 = 0
      OBVIOUS
    <3> QED
      BY <2>3, <2>4, <3>1
  <2>6. <<>> \o f[i] = f[i]
    BY <1>1
  <2> QED
    BY <1>5, <2>1, <2>3, <2>5, <2>6
<1> DEFINE g == [i \in 1..n |-> t[i]]
<1>7. g \in [1..n -> Seq(Nat)] /\ \A i \in 1..n : g[i] = t[i]
  BY <1>6
<1> HIDE DEF g
<1>8. ASSUME NEW i \in 1..n
      PROVE  g[i] = IF i = 1 THEN f[i] ELSE g[i - 1] \o f[i]
  <2>1. i # 1 => i - 1 \in 1..n
    BY <1>1
  <2> QED
    BY <1>6, <1>7, <2>1
<1>9. Joins(f, n, g)
  BY <1>7, <1>8 DEF Joins
<1> QED
  BY <1>9 DEF n

\* What FlattenSeq returns is the last of any such joins.
LEMMA HeldJoins ==
    ASSUME NEW f \in Frames, f # <<>>, NEW g, Joins(f, Len(f), g)
    PROVE  Held(f) = g[Len(f)]
<1> DEFINE n == Len(f)
           Def(h) == [i \in 1..n |-> IF i = 1 THEN f[i] ELSE h[i - 1] \o f[i]]
           s == CHOOSE h : h = Def(h)
<1>1. n \in Nat \ {0}
  BY DEF Frames
<1>2. Held(f) = s[n]
  BY <1>1 DEF Held, FlattenSeq
<1>3. g = Def(g)
  BY DEF Joins
<1>4. s = Def(s)
  BY <1>3
<1>5. \A i \in 1..n : s[i] = IF i = 1 THEN f[i] ELSE s[i - 1] \o f[i]
  BY <1>4
<1> HIDE DEF s
<1> DEFINE bad == {k \in 1..n : s[k] # g[k]}
<1>6. bad = {}
  <2> SUFFICES ASSUME bad # {} PROVE FALSE
    OBVIOUS
  <2>1. bad \subseteq Nat
    OBVIOUS
  <2> HIDE DEF bad
  <2>2. PICK m \in bad : \A k \in bad : m <= k
    BY <2>1, Smallest
  <2> USE DEF bad
  <2>3. m \in 1..n /\ (m # 1 => m - 1 \in 1..n /\ m - 1 \notin bad)
    BY <1>1, <2>2
  <2>4. s[m] = g[m]
    BY <1>5, <2>3 DEF Joins
  <2> QED
    BY <2>2, <2>4
<1>7. s[n] = g[n]
  BY <1>1, <1>6
<1> QED
  BY <1>2, <1>7

LEMMA HeldTypes ==
    ASSUME NEW f \in Frames
    PROVE  Held(f) \in Seq(Nat)
<1>1. CASE f = <<>>
  BY <1>1 DEF Held, FlattenSeq
<1>2. CASE f # <<>>
  <2>1. PICK g : Joins(f, Len(f), g)
    BY JoinsExist
  <2>2. Len(f) \in 1..Len(f)
    BY <1>2 DEF Frames
  <2>3. Held(f) = g[Len(f)] /\ g[Len(f)] \in Seq(Nat)
    BY <1>2, <2>1, <2>2, HeldJoins DEF Joins
  <2> QED
    BY <2>3
<1> QED
  BY <1>1, <1>2

LEMMA HeldEmpty == Held(<<>>) = <<>>
  BY DEF Held, FlattenSeq

LEMMA HeldAppend ==
    ASSUME NEW f \in Frames, NEW s \in Seq(Nat)
    PROVE  /\ Append(f, s) \in Frames /\ Append(f, s) # <<>>
           /\ Held(Append(f, s)) = Held(f) \o s
<1> DEFINE a == Append(f, s)
           n == Len(f)
<1>1. /\ a \in Frames /\ a # <<>> /\ Len(a) = n + 1 /\ n \in Nat /\ a[n + 1] = s
      /\ \A i \in 1..n : a[i] = f[i]
  <2> DEFINE S == Seq(Nat)
  <2>1. f \in Seq(S) /\ s \in S
    BY DEF Frames
  <2> HIDE DEF S
  <2>2. Append(f, s) \in Seq(S) /\ Len(Append(f, s)) = Len(f) + 1 /\ Len(f) \in Nat
    BY <2>1
  <2>3. Append(f, s)[Len(f) + 1] = s /\ \A i \in 1..Len(f) : Append(f, s)[i] = f[i]
    BY <2>1
  <2>4. Append(f, s) # <<>>
    BY <2>1
  <2> QED
    BY <2>2, <2>3, <2>4 DEF S, Frames
<1> HIDE DEF a
<1>2. PICK g : Joins(a, n + 1, g)
  BY <1>1, JoinsExist
<1>3. Held(a) = g[n + 1]
  BY <1>1, <1>2, HeldJoins
<1>4. CASE f = <<>>
  <2>1. n = 0
    BY <1>4
  <2>2. g[1] = a[1] /\ a[1] = s
    BY <1>1, <1>2, <2>1 DEF Joins
  <2>3. Held(f) = <<>> /\ <<>> \o s = s
    BY <1>4, HeldEmpty
  <2> QED
    BY <1>1, <1>3, <2>1, <2>2, <2>3 DEF a
<1>5. CASE f # <<>>
  <2>1. n # 0
    BY <1>5 DEF Frames
  <2> DEFINE h == [i \in 1..n |-> g[i]]
  <2>2. Joins(f, n, h)
    <3>1. \A i \in 1..n : i \in 1..(n + 1) /\ (i # 1 => i - 1 \in 1..n)
      BY <1>1
    <3>2. h \in [1..n -> Seq(Nat)] /\ \A i \in 1..n : h[i] = g[i]
      BY <1>2, <3>1 DEF Joins
    <3> HIDE DEF h
    <3>3. \A i \in 1..n : g[i] = IF i = 1 THEN f[i] ELSE g[i - 1] \o f[i]
      BY <1>1, <1>2, <3>1 DEF Joins
    <3> QED
      BY <3>1, <3>2, <3>3 DEF Joins
  <2>3. Held(f) = h[n] /\ h[n] = g[n]
    BY <1>1, <1>5, <2>1, <2>2, HeldJoins
  <2>4. n + 1 \in 1..(n + 1) /\ n + 1 # 1 /\ (n + 1) - 1 = n
    BY <1>1, <2>1
  <2>5. g[n + 1] = g[n] \o a[n + 1]
    BY <1>2, <2>4 DEF Joins
  <2> QED
    BY <1>1, <1>3, <2>3, <2>5 DEF a
<1> QED
  BY <1>4, <1>5

LEMMA HeldOne ==
    ASSUME NEW s \in Seq(Nat)
    PROVE  <<s>> \in Frames /\ <<s>> # <<>> /\ Held(<<s>>) = s
<1>1. <<>> \in Frames /\ Append(<<>>, s) = <<s>> /\ <<>> \o s = s
  BY DEF Frames
<1> QED
  BY <1>1, HeldAppend, HeldEmpty

(***************************************************************************)
(* RecompactDataFile packs the samples of a file anew and changes none.    *)
(***************************************************************************)
LEMMA LastIs ==
    ASSUME NEW f \in Frames, f # <<>>
    PROVE  /\ Front(f) \in Frames /\ Last(f) \in Seq(Nat)
           /\ f = Append(Front(f), Last(f))
<1> DEFINE S == Seq(Nat)
<1>1. f \in Seq(S) /\ f # <<>>
  BY DEF Frames
<1> HIDE DEF S
<1>2. Front(f) \in Seq(S) /\ Last(f) \in S /\ f = Append(Front(f), Last(f))
  <2>1. Len(f) \in Nat \ {0} /\ Len(f) - 1 \in Nat
    BY <1>1
  <2>2. Front(f) = [i \in 1..(Len(f) - 1) |-> f[i]]
    BY DEF Front
  <2>3. Front(f) \in Seq(S) /\ Len(Front(f)) = Len(f) - 1
    BY <1>1, <2>1, <2>2
  <2>4. Last(f) = f[Len(f)] /\ Last(f) \in S
    BY <1>1, <2>1 DEF Last
  <2> DEFINE a == Append(Front(f), Last(f))
  <2>5. a \in Seq(S) /\ Len(a) = Len(f)
    BY <2>1, <2>3, <2>4
  <2>6. ASSUME NEW i \in 1..Len(f) PROVE a[i] = f[i]
    <3>1. CASE i = Len(f)
      <4>1. i = Len(Front(f)) + 1
        BY <2>1, <2>3, <3>1
      <4>2. a[Len(Front(f)) + 1] = Last(f)
        BY <2>3, <2>4
      <4> QED
        BY <2>4, <3>1, <4>1, <4>2
    <3>2. CASE i # Len(f)
      <4>1. i \in 1..(Len(f) - 1) /\ i \in 1..Len(Front(f))
        BY <2>1, <2>3, <3>2
      <4>2. a[i] = Front(f)[i]
        BY <2>3, <2>4, <4>1
      <4> QED
        BY <2>2, <4>1, <4>2
    <3> QED
      BY <3>1, <3>2
  <2> HIDE DEF a
  <2>7. a = f
    BY <1>1, <2>5, <2>6
  <2> QED
    BY <2>3, <2>4, <2>7 DEF a
<1> QED
  BY <1>2 DEF Frames, S

\* One sample added to the pages packed so far.
Add(f, n) ==
    IF f # <<>> /\ Len(Last(f)) < PageMaxRecords /\ Last(Last(f)) <= n
    THEN Append(Front(f), Append(Last(f), n))
    ELSE Append(f, <<n>>)

LEMMA AddHolds ==
    ASSUME NEW f \in Frames, NEW n \in Nat
    PROVE  Add(f, n) \in Frames /\ Add(f, n) # <<>> /\ Held(Add(f, n)) = Append(Held(f), n)
<1>1. \A s \in Seq(Nat) : s \o <<n>> = Append(s, n)
  OBVIOUS
<1>2. <<n>> \in Seq(Nat) /\ Held(f) \in Seq(Nat)
  BY HeldTypes
<1>3. CASE f # <<>> /\ Len(Last(f)) < PageMaxRecords /\ Last(Last(f)) <= n
  <2> DEFINE g == Front(f)
             s == Last(f)
  <2>1. g \in Frames /\ s \in Seq(Nat) /\ f = Append(g, s)
    BY <1>3, LastIs
  <2>2. Add(f, n) = Append(g, Append(s, n))
    BY <1>3 DEF Add
  <2> HIDE DEF g, s
  <2>3. Append(s, n) \in Seq(Nat) /\ Append(s, n) = s \o <<n>>
    BY <1>1, <2>1
  <2>4. /\ Add(f, n) \in Frames /\ Add(f, n) # <<>>
        /\ Held(Add(f, n)) = Held(g) \o (s \o <<n>>)
    BY <2>1, <2>2, <2>3, HeldAppend
  <2>5. Held(f) = Held(g) \o s /\ Held(g) \in Seq(Nat)
    BY <2>1, HeldAppend, HeldTypes
  <2>6. Held(g) \o (s \o <<n>>) = (Held(g) \o s) \o <<n>>
    BY <1>2, <2>1, <2>5
  <2> QED
    BY <1>1, <1>2, <2>4, <2>5, <2>6
<1>4. CASE ~(f # <<>> /\ Len(Last(f)) < PageMaxRecords /\ Last(Last(f)) <= n)
  <2>1. Add(f, n) = Append(f, <<n>>)
    BY <1>4 DEF Add
  <2> QED
    BY <1>1, <1>2, <2>1, HeldAppend
<1> QED
  BY <1>3, <1>4

LEMMA PackedHolds ==
    ASSUME NEW f \in Frames
    PROVE  /\ Packed(f) \in Frames /\ Held(Packed(f)) = Held(f)
           /\ Held(f) # <<>> => Packed(f) # <<>>
<1> DEFINE h == Held(f)
           n == Len(h)
           Def(t) == [i \in 0..n |-> IF i = 0 THEN <<>> ELSE Add(t[i - 1], h[i])]
           s == CHOOSE t : t = Def(t)
<1>1. h \in Seq(Nat) /\ n \in Nat /\ \A i \in 1..n : h[i] \in Nat
  <2>1. Held(f) \in Seq(Nat)
    BY HeldTypes
  <2> QED
    BY <2>1
<1>2. Packed(f) = s[n]
  BY DEF Packed, Add
<1> HIDE DEF h
<1>3. \E t : t = Def(t)
  <2> DEFINE S == Frames
             init == <<>>
             step == [i \in 1..n |-> [t \in S |-> Add(t, h[i])]]
  <2>1. init \in S
    BY DEF Frames
  <2>2. step \in [1..n -> [S -> S]]
    <3>1. ASSUME NEW i \in 1..n, NEW t \in S PROVE Add(t, h[i]) \in S
      BY <1>1, AddHolds
    <3> QED
      BY <3>1
  <2>3. \A i \in 1..n : \A t \in S : step[i][t] = Add(t, h[i])
    OBVIOUS
  <2> HIDE DEF step, S, n
  <2>4. PICK t : Recursive(t, n, S, init, step)
    BY <1>1, <2>1, <2>2, Recursion
  <2>5. \A i \in 0..n : i = 0 \/ (i \in 1..n /\ i - 1 \in 0..n)
    BY <1>1
  <2>6. \A i \in 0..n : t[i] = IF i = 0 THEN <<>> ELSE Add(t[i - 1], h[i])
    BY <2>3, <2>4, <2>5 DEF Recursive
  <2>7. t = [i \in 0..n |-> t[i]]
    BY <2>4 DEF Recursive
  <2>8. t = Def(t)
    BY <2>6, <2>7
  <2> QED
    BY <2>8
<1>4. s = Def(s)
  BY <1>3
<1>5. \A i \in 0..n : s[i] = IF i = 0 THEN <<>> ELSE Add(s[i - 1], h[i])
  BY <1>4
<1> HIDE DEF s
<1> DEFINE Good(i) == /\ s[i] \in Frames /\ Held(s[i]) = SubSeq(h, 1, i)
                      /\ i # 0 => s[i] # <<>>
           bad == {i \in 0..n : ~Good(i)}
<1>6. bad = {}
  <2> SUFFICES ASSUME bad # {} PROVE FALSE
    OBVIOUS
  <2>1. bad \subseteq Nat
    OBVIOUS
  <2> HIDE DEF bad
  <2>2. PICK m \in bad : \A k \in bad : m <= k
    BY <2>1, Smallest
  <2>3. m \in 0..n /\ ~Good(m)
    BY <2>2 DEF bad
  <2>4. CASE m = 0
    <3>1. s[0] = <<>> /\ SubSeq(h, 1, 0) = <<>> /\ <<>> \in Frames
      BY <1>1, <1>5 DEF Frames
    <3> QED
      BY <2>3, <2>4, <3>1, HeldEmpty
  <2>5. CASE m # 0
    <3>1. m \in 1..n /\ m - 1 \in 0..n /\ h[m] \in Nat
      BY <1>1, <2>3, <2>5
    <3>2. m - 1 \notin bad
      BY <2>2, <3>1
    <3>3. Good(m - 1)
      BY <3>1, <3>2 DEF bad
    <3>4. s[m] = Add(s[m - 1], h[m])
      BY <1>5, <2>3, <2>5
    <3>5. s[m] \in Frames /\ s[m] # <<>> /\ Held(s[m]) = Append(SubSeq(h, 1, m - 1), h[m])
      BY <3>1, <3>3, <3>4, AddHolds
    <3>6. Append(SubSeq(h, 1, m - 1), h[m]) = SubSeq(h, 1, m)
      BY <1>1, <3>1
    <3> QED
      BY <2>3, <3>5, <3>6
  <2> QED
    BY <2>4, <2>5
<1>7. Good(n)
  BY <1>1, <1>6
<1>8. SubSeq(h, 1, n) = h /\ (h # <<>> => n # 0)
  BY <1>1
<1> QED
  BY <1>2, <1>7, <1>8 DEF h

(***************************************************************************)
(* Sequences in the order of time.                                         *)
(***************************************************************************)
LEMMA RangeJoined ==
    ASSUME NEW s \in Seq(Nat), NEW t \in Seq(Nat)
    PROVE  s \o t \in Seq(Nat) /\ Range(s \o t) = Range(s) \cup Range(t)
<1> DEFINE r == s \o t
<1>1. /\ r \in Seq(Nat) /\ Len(r) = Len(s) + Len(t) /\ Len(s) \in Nat /\ Len(t) \in Nat
      /\ \A i \in 1..Len(s) : r[i] = s[i]
      /\ \A i \in 1..Len(t) : r[Len(s) + i] = t[i]
  OBVIOUS
<1> HIDE DEF r
<1>2. DOMAIN r = 1..Len(r) /\ DOMAIN s = 1..Len(s) /\ DOMAIN t = 1..Len(t)
  BY <1>1
<1>3. ASSUME NEW x \in Range(r) PROVE x \in Range(s) \cup Range(t)
  <2>1. PICK i \in 1..Len(r) : x = r[i]
    BY <1>2 DEF Range
  <2>2. CASE i <= Len(s)
    <3>1. i \in 1..Len(s)
      BY <1>1, <2>1, <2>2
    <3>2. x = s[i]
      BY <1>1, <2>1, <3>1
    <3> QED
      BY <1>2, <3>1, <3>2 DEF Range
  <2>3. CASE i > Len(s)
    <3>1. i - Len(s) \in 1..Len(t) /\ i = Len(s) + (i - Len(s))
      BY <1>1, <2>1, <2>3
    <3>2. x = t[i - Len(s)]
      BY <1>1, <2>1, <3>1
    <3> QED
      BY <1>2, <3>1, <3>2 DEF Range
  <2> QED
    BY <1>1, <2>1, <2>2, <2>3
<1>4. ASSUME NEW i \in 1..Len(s) PROVE s[i] \in Range(r)
  <2>1. i \in 1..Len(r) /\ r[i] = s[i]
    BY <1>1
  <2> QED
    BY <1>2, <2>1 DEF Range
<1>5. ASSUME NEW i \in 1..Len(t) PROVE t[i] \in Range(r)
  <2>1. Len(s) + i \in 1..Len(r)
    BY <1>1
  <2> QED
    BY <1>1, <1>2, <2>1 DEF Range
<1>6. Range(s) \cup Range(t) \subseteq Range(r)
  BY <1>2, <1>4, <1>5 DEF Range
<1> QED
  BY <1>1, <1>3, <1>6 DEF r

LEMMA RisingJoined ==
    ASSUME NEW s \in Seq(Nat), NEW t \in Seq(Nat)
    PROVE  Rising(s \o t) <=> Rising(s) /\ Rising(t) /\ Below(Range(s), Range(t))
<1> DEFINE r == s \o t
           m == Len(s)
           n == Len(t)
<1>1. /\ Len(r) = m + n /\ m \in Nat /\ n \in Nat
      /\ \A i \in 1..m : r[i] = s[i]
      /\ \A i \in 1..n : r[m + i] = t[i]
  OBVIOUS
<1>2. /\ \A i \in 1..m : s[i] \in Range(s)
      /\ \A x \in Range(s) : \E i \in 1..m : x = s[i]
      /\ \A i \in 1..n : t[i] \in Range(t)
      /\ \A x \in Range(t) : \E i \in 1..n : x = t[i]
  BY DEF Range
<1> HIDE DEF r, m, n
<1>3. ASSUME Rising(r) PROVE Rising(s) /\ Rising(t) /\ Below(Range(s), Range(t))
  <2>1. \A i, j \in 1..(m + n) : i < j => r[i] < r[j]
    BY <1>1, <1>3 DEF Rising
  <2>2. \A i, j \in 1..m : i < j => s[i] < s[j]
    BY <1>1, <2>1
  <2>3. ASSUME NEW i \in 1..n, NEW j \in 1..n, i < j PROVE t[i] < t[j]
    <3>1. m + i \in 1..(m + n) /\ m + j \in 1..(m + n) /\ m + i < m + j
      BY <1>1, <2>3
    <3>2. r[m + i] < r[m + j]
      BY <2>1, <3>1
    <3> QED
      BY <1>1, <3>2
  <2>4. ASSUME NEW i \in 1..m, NEW j \in 1..n PROVE s[i] < t[j]
    <3>1. i \in 1..(m + n) /\ m + j \in 1..(m + n) /\ i < m + j
      BY <1>1
    <3>2. r[i] < r[m + j]
      BY <2>1, <3>1
    <3> QED
      BY <1>1, <3>2
  <2>5. Below(Range(s), Range(t))
    BY <1>2, <2>4 DEF Below
  <2> QED
    BY <2>2, <2>3, <2>5 DEF Rising, m, n
<1>4. ASSUME Rising(s), Rising(t), Below(Range(s), Range(t)) PROVE Rising(r)
  <2> SUFFICES ASSUME NEW i \in 1..(m + n), NEW j \in 1..(m + n), i < j
               PROVE  r[i] < r[j]
    BY <1>1 DEF Rising
  <2>1. CASE j <= m
    <3>1. i \in 1..m /\ j \in 1..m
      BY <1>1, <2>1
    <3> QED
      BY <1>1, <1>4, <3>1 DEF Rising, m
  <2>2. CASE i > m
    <3>1. i - m \in 1..n /\ j - m \in 1..n /\ i - m < j - m /\ i = m + (i - m) /\ j = m + (j - m)
      BY <1>1, <2>2
    <3>2. r[i] = t[i - m] /\ r[j] = t[j - m]
      BY <1>1, <3>1
    <3>3. t[i - m] < t[j - m]
      BY <1>4, <3>1 DEF Rising, n
    <3> QED
      BY <3>2, <3>3
  <2>3. CASE i <= m /\ j > m
    <3>1. i \in 1..m /\ j - m \in 1..n /\ j = m + (j - m)
      BY <1>1, <2>3
    <3>2. r[i] = s[i] /\ r[j] = t[j - m]
      BY <1>1, <3>1
    <3>3. s[i] < t[j - m]
      BY <1>2, <1>4, <3>1 DEF Below
    <3> QED
      BY <3>2, <3>3
  <2> QED
    BY <1>1, <2>1, <2>2, <2>3
<1> QED
  BY <1>3, <1>4 DEF r

LEMMA RangeOf ==
    ASSUME NEW s \in Seq(Nat)
    PROVE  /\ Range(s) \subseteq Nat
           /\ Range(s) = {} <=> s = <<>>
           /\ \A n : n \in Range(s) <=> \E i \in 1..Len(s) : s[i] = n
<1>1. DOMAIN s = 1..Len(s) /\ Len(s) \in Nat
  OBVIOUS
<1>2. s # <<>> => 1 \in 1..Len(s)
  OBVIOUS
<1>3. s = <<>> => Len(s) = 0
  OBVIOUS
<1>4. \A n : n \in Range(s) <=> \E i \in 1..Len(s) : s[i] = n
  BY <1>1 DEF Range
<1>5. Range(s) = {} => s = <<>>
  BY <1>2, <1>4
<1>6. s = <<>> => Range(s) = {}
  BY <1>3, <1>4
<1> QED
  BY <1>4, <1>5, <1>6

LEMMA RangeEmpty == Range(<<>>) = {} /\ Rising(<<>>) /\ <<>> \in Seq(Nat)
<1>1. <<>> \in Seq(Nat) /\ Len(<<>>) = 0
  OBVIOUS
<1> QED
  BY <1>1, RangeOf DEF Rising

LEMMA Appended ==
    ASSUME NEW s \in Seq(Nat), NEW n \in Nat
    PROVE  /\ Append(s, n) \in Seq(Nat) /\ Append(s, n) # <<>>
           /\ Range(Append(s, n)) = Range(s) \cup {n}
           /\ Rising(Append(s, n)) <=> Rising(s) /\ Below(Range(s), {n})
<1>1. <<n>> \in Seq(Nat) /\ Append(s, n) = s \o <<n>> /\ Append(s, n) # <<>>
  OBVIOUS
<1>2. Len(<<n>>) = 1 /\ <<n>>[1] = n
  OBVIOUS
<1>3. Range(<<n>>) = {n}
  <2>1. DOMAIN <<n>> = {1} /\ <<n>>[1] = n
    OBVIOUS
  <2> QED
    BY <2>1, Zenon DEF Range
<1>4. Rising(<<n>>)
  BY <1>2 DEF Rising
<1> DEFINE t == <<n>>
<1>5. /\ s \o t \in Seq(Nat) /\ Range(s \o t) = Range(s) \cup Range(t)
      /\ Rising(s \o t) <=> Rising(s) /\ Rising(t) /\ Below(Range(s), Range(t))
  <2>1. t \in Seq(Nat)
    BY <1>1
  <2> HIDE DEF t
  <2> QED
    BY <2>1, RangeJoined, RisingJoined
<1> QED
  BY <1>1, <1>3, <1>4, <1>5

\* The largest of a sequence that rises is its last; each is there once.
LEMMA RisingMax ==
    ASSUME NEW s \in Seq(Nat), s # <<>>, Rising(s)
    PROVE  Max(Range(s)) \in Range(s) /\ \A n \in Range(s) : n <= Max(Range(s))
<1> DEFINE x == s[Len(s)]
<1>1. Len(s) \in 1..Len(s) /\ x \in Nat
  OBVIOUS
<1>2. x \in Range(s)
  BY <1>1, RangeOf
<1>3. ASSUME NEW n \in Range(s) PROVE x >= n
  <2>1. PICK i \in 1..Len(s) : s[i] = n
    BY RangeOf
  <2>2. n \in Nat
    BY RangeOf
  <2>3. i < Len(s) => s[i] < x
    BY <1>1, <2>1 DEF Rising
  <2>4. i = Len(s) \/ i < Len(s)
    BY <1>1, <2>1
  <2> QED
    BY <1>1, <2>1, <2>2, <2>3, <2>4
<1>4. Max(Range(s)) \in Range(s) /\ \A n \in Range(s) : Max(Range(s)) >= n
  BY <1>2, <1>3, Zenon DEF Max
<1> QED
  BY <1>4, RangeOf

LEMMA RisingOnce ==
    ASSUME NEW s \in Seq(Nat), Rising(s)
    PROVE  IsInjective(s) /\ \A n \in Range(s) : Times(n, s) = 1
<1>1. DOMAIN s = 1..Len(s) /\ Len(s) \in Nat /\ \A i \in 1..Len(s) : s[i] \in Nat
  OBVIOUS
<1>2. ASSUME NEW i \in 1..Len(s), NEW j \in 1..Len(s), s[i] = s[j] PROVE i = j
  <2>1. i < j \/ j < i \/ i = j
    BY <1>1
  <2>2. (i < j => s[i] < s[j]) /\ (j < i => s[j] < s[i])
    BY DEF Rising
  <2> QED
    BY <1>1, <1>2, <2>1, <2>2
<1>3. ASSUME NEW n \in Range(s) PROVE Times(n, s) = 1
  <2>1. PICK i \in 1..Len(s) : s[i] = n
    BY RangeOf
  <2>2. {k \in DOMAIN s : s[k] = n} = {i}
    BY <1>1, <1>2, <2>1
  <2> QED
    BY <2>2, FS_Singleton DEF Times
<1> QED
  BY <1>1, <1>2, <1>3 DEF IsInjective

(***************************************************************************)
(* Where the writer is, and what it knows there.                           *)
(***************************************************************************)
Replaying == pc = "replay" \/ job.op = "replay"

\* Steps of a seal, and of the build a caller asks for.
Sealing  == {"reset", "build", "source", "rename", "sweep", "remove"}
Building == {"build", "source", "rename"}

FlowOK ==
    /\ pc \in {"down", "replay", "idle"} => job = NoJob
    /\ pc = "down" => open = {} /\ page = NoPages /\ sealed = {} /\ query = NoQuery
    /\ pc \in {"open", "reset", "sweep", "remove", "store"} => job.op \in {"add", "replay"}
    /\ pc \in Building => job.op \in {"add", "replay", "compact"}
    /\ pc \in {"log", "others", "full"} => job.op = "add"
    /\ pc = "drain" => job.op \in {"flush", "close"}
    /\ ~Replaying => replay = <<>>
    /\ Replaying => query = NoQuery

\* A sweep that removes files has some to remove.
SweepOK == pc = "remove" => Swept(job.day) # {} /\ setting.retention # "keep"

\* A query is of a day.
QueriesOK == query.phase # "none" => query.day \in Day

\* The days of the call in progress: sealed days get no sample, the day being
\* sealed is closed, and there is room for the day it makes room for.
PlaceOK ==
    /\ job.op \in {"add", "replay"} => job.day \in Day /\ job.day \notin sealed /\ job.day <= newest
    /\ pc \in Sealing => job.seal \in Day /\ page[job.seal] = <<>>
    /\ pc \in Sealing /\ job.op # "compact" =>
          job.seal \notin open /\ job.day \notin open /\ HasRoom /\ job.seal # job.day
    /\ pc \in {"log", "store"} => job.day \in open
    /\ \A i \in DOMAIN wal : wal[i].day <= newest
    /\ \A i \in DOMAIN replay : replay[i].day <= newest

\* The files the build finds.
BuildOK ==
    /\ pc = "build" => Exists(job.seal, Source(job.seal))
    /\ pc = "source" => Exists(job.seal, job.from) /\ job.from = Source(job.seal)
    /\ pc \in {"source", "rename"} => Exists(job.seal, "metric")
    /\ pc = "rename" => /\ setting.raw = "rename"
                        /\ Exists(job.seal, "data") /\ ~Exists(job.seal, "raw")

USE DEF disk, days, memory, counts, history, vars

LEMMA Settled == ASSUME TypeOK PROVE setting \in Settings
  BY DEF TypeOK

LEMMA Assumed ==
    /\ Day \subseteq Nat \ {0} /\ IsFiniteSet(Day) /\ 0 \notin Day
    /\ MaxActiveDays \in Nat \ {0} /\ PageMaxRecords \in Nat \ {0} /\ RetentionDays \in Nat
  BY PartitionAssumption

Jobs    == [op : {"none", "add", "replay", "flush", "close", "compact"},
            day : Day \cup {0}, n : Nat, seal : Day \cup {0}, from : Kind]
Queries == [phase : {"none", "metric", "resolve", "source", "page", "done"},
            day : Day \cup {0}, from : Kind, got : Seq(Nat), due : SUBSET Nat]

LEMMA JobTypes ==
    /\ NoJob \in Jobs
    /\ \A op \in {"none", "add", "replay", "flush", "close", "compact"}, d \in Day \cup {0},
          s \in Day \cup {0}, n \in Nat :
          /\ [NoJob EXCEPT !.op = op, !.day = d, !.n = n] \in Jobs
          /\ [NoJob EXCEPT !.op = op] \in Jobs
          /\ [NoJob EXCEPT !.op = op, !.seal = s] \in Jobs
    /\ \A j \in Jobs, s \in Day \cup {0}, k \in Kind :
          [j EXCEPT !.seal = s] \in Jobs /\ [j EXCEPT !.from = k] \in Jobs
  BY DEF Jobs, NoJob, Kind

LEMMA JobUpdates ==
    ASSUME NEW j \in Jobs, NEW s \in Day \cup {0}, NEW k \in Kind
    PROVE  [j EXCEPT !.seal = s] \in Jobs /\ [j EXCEPT !.from = k] \in Jobs
  BY JobTypes

LEMMA QueryTypes ==
    /\ NoQuery \in Queries
    /\ \A q \in Queries, ns \in SUBSET Nat : [q EXCEPT !.due = @ \ ns] \in Queries
    /\ \A q \in Queries, s \in Seq(Nat), p \in {"none", "metric", "resolve", "source", "page", "done"}, k \in Kind :
          /\ [q EXCEPT !.got = s, !.phase = p] \in Queries
          /\ [q EXCEPT !.from = k, !.phase = p] \in Queries
          /\ [q EXCEPT !.phase = p] \in Queries
<1>1. NoQuery \in Queries
  <2>1. <<>> \in Seq(Nat)
    OBVIOUS
  <2> DEFINE S == Seq(Nat)
             none == <<>>
  <2>2. [phase |-> "none", day |-> 0, from |-> "data", got |-> none, due |-> {}] \in
            [phase : {"none", "metric", "resolve", "source", "page", "done"},
             day : Day \cup {0}, from : Kind, got : S, due : SUBSET Nat]
    <3> HIDE DEF S, none
    <3>1. none \in S
      BY <2>1 DEF S, none
    <3> QED
      BY <3>1 DEF Kind
  <2> QED
    BY <2>2 DEF Queries, NoQuery
<1> DEFINE S == Seq(Nat)
<1>2. Queries = [phase : {"none", "metric", "resolve", "source", "page", "done"},
                 day : Day \cup {0}, from : Kind, got : S, due : SUBSET Nat]
  BY DEF Queries
<1> HIDE DEF S
<1>3. \A q \in Queries, ns \in SUBSET Nat : [q EXCEPT !.due = @ \ ns] \in Queries
  BY <1>2
<1>4. \A q \in Queries, s \in S, p \in {"none", "metric", "resolve", "source", "page", "done"}, k \in Kind :
          /\ [q EXCEPT !.got = s, !.phase = p] \in Queries
          /\ [q EXCEPT !.from = k, !.phase = p] \in Queries
          /\ [q EXCEPT !.phase = p] \in Queries
  BY <1>2
<1> QED
  BY <1>1, <1>3, <1>4 DEF S

LEMMA QueryGets ==
    ASSUME NEW q \in Queries, NEW s \in Seq(Nat)
    PROVE  /\ [q EXCEPT !.got = s, !.phase = "page"] \in Queries
           /\ [q EXCEPT !.got = s, !.phase = "done"] \in Queries
<1>1. q.from \in Kind
  BY DEF Queries
<1> QED
  BY <1>1, QueryTypes

LEMMA QueryGoes ==
    ASSUME NEW q \in Queries, NEW k \in Kind
    PROVE  [q EXCEPT !.from = k, !.phase = "source"] \in Queries
<1>1. q.got \in Seq(Nat)
  BY DEF Queries
<1> QED
  BY <1>1, QueryTypes

LEMMA QueryPhases ==
    ASSUME NEW q \in Queries
    PROVE  [q EXCEPT !.phase = "page"] \in Queries /\ [q EXCEPT !.phase = "resolve"] \in Queries
<1>1. q.got \in Seq(Nat) /\ q.from \in Kind
  BY DEF Queries
<1> QED
  BY <1>1, QueryTypes

LEMMA OldestOpenIs ==
    ASSUME TypeOK, ~HasRoom
    PROVE  OldestOpen \in open /\ OldestOpen \in Day
<1>1. open \subseteq Nat /\ IsFiniteSet(open)
  BY Assumed, FS_Subset DEF TypeOK
<1>2. open # {}
  BY Assumed, FS_EmptySet DEF HasRoom
<1>3. PICK o \in open : \A e \in open : o <= e
  BY <1>1, <1>2, Smallest
<1>4. OldestOpen \in open
  BY <1>3, Zenon DEF OldestOpen
<1> QED
  BY <1>4 DEF TypeOK

\* A place is taken or given back.
LEMMA RoomMoves ==
    ASSUME TypeOK
    PROVE  /\ HasRoom => \A d \in Day : Cardinality(open \cup {d}) <= MaxActiveDays
           /\ \A d : Cardinality(open \ {d}) <= MaxActiveDays
           /\ \A d \in open : Cardinality(open \ {d}) < MaxActiveDays
           /\ Cardinality({}) <= MaxActiveDays
<1>1. IsFiniteSet(open) /\ Cardinality(open) \in Nat /\ Cardinality(open) <= MaxActiveDays
  BY Assumed, FS_Subset, FS_CardinalityType DEF TypeOK
<1>2. ASSUME HasRoom, NEW d \in Day PROVE Cardinality(open \cup {d}) <= MaxActiveDays
  <2>1. Cardinality(open \cup {d}) = IF d \in open THEN Cardinality(open) ELSE Cardinality(open) + 1
    BY <1>1, FS_AddElement
  <2> QED
    BY <1>1, <1>2, <2>1, Assumed DEF HasRoom
<1>3. ASSUME NEW d
      PROVE  /\ Cardinality(open \ {d}) <= MaxActiveDays
             /\ d \in open => Cardinality(open \ {d}) < MaxActiveDays
  <2>1. Cardinality(open \ {d}) = IF d \in open THEN Cardinality(open) - 1 ELSE Cardinality(open)
    BY <1>1, FS_RemoveElement
  <2> QED
    BY <1>1, <2>1, Assumed
<1>4. Cardinality({}) <= MaxActiveDays
  BY FS_EmptySet, Assumed
<1> QED
  BY <1>2, <1>3, <1>4

LEMMA FileTypes ==
    ASSUME TypeOK
    PROVE  /\ \A d \in Day, k \in Kind :
                /\ file[d][k] \in Frames /\ Held(file[d][k]) \in Seq(Nat)
                /\ Members(d, k) \subseteq Nat
                /\ Columns(file[d][k]) \in Frames /\ Columns(file[d][k]) # <<>>
                /\ Repacked(file[d][k]) \in Frames
           /\ \A d \in Day : /\ page[d] \in Seq(Nat) /\ Range(page[d]) \subseteq Nat
                             /\ Source(d) \in Kind
                             /\ Readable(d) \in Seq(Nat)
<1>1. ASSUME NEW d \in Day, NEW k \in Kind
      PROVE  /\ file[d][k] \in Frames /\ Held(file[d][k]) \in Seq(Nat)
             /\ Members(d, k) \subseteq Nat
             /\ Columns(file[d][k]) \in Frames /\ Columns(file[d][k]) # <<>>
             /\ Repacked(file[d][k]) \in Frames
  <2>1. file[d][k] \in Frames
    BY DEF TypeOK, Frames
  <2>2. Held(file[d][k]) \in Seq(Nat)
    BY <2>1, HeldTypes
  <2> QED
    BY <2>1, <2>2, HeldOne, PackedHolds, RangeOf DEF Columns, Repacked, Members
<1>2. ASSUME NEW d \in Day
      PROVE  /\ page[d] \in Seq(Nat) /\ Range(page[d]) \subseteq Nat
             /\ Source(d) \in Kind /\ Readable(d) \in Seq(Nat)
  <2>1. page[d] \in Seq(Nat)
    BY DEF TypeOK
  <2>2. Source(d) \in Kind /\ "metric" \in Kind
    BY DEF Source, Kind
  <2>3. Held(file[d][IF Exists(d, "metric") THEN "metric" ELSE Source(d)]) \in Seq(Nat)
    BY <1>1, <2>2
  <2> QED
    BY <2>1, <2>2, <2>3, RangeOf, RangeJoined DEF Readable
<1> QED
  BY <1>1, <1>2

(***************************************************************************)
(* Types: what the parts of a step return.                                 *)
(***************************************************************************)
\* The types of the parts, one by one.
DiskTypes  == /\ file \in [Day -> [Kind -> Frames]]
              /\ wal \in Seq(Sample)
              /\ archive \in [files : SUBSET [day : Day, kind : Kind, frames : Frames],
                              broken : BOOLEAN]
DaysTypes  == /\ open \subseteq Day /\ sealed \subseteq Day /\ open \cap sealed = {}
              /\ page \in [Day -> Seq(Nat)]
              /\ \A d \in Day : page[d] # <<>> => d \in open
              /\ Cardinality(open) <= MaxActiveDays
PlaceTypes == /\ pc \in {"down", "replay", "idle", "open", "reset", "build", "source", "rename",
                         "sweep", "remove", "log", "store", "others", "full", "drain"}
              /\ job \in Jobs
              /\ replay \in Seq(Sample)
BookTypes  == /\ setting \in Settings
              /\ acked \subseteq Sample /\ late \subseteq Day /\ newest \in Day \cup {0}
              /\ {calls, crashes, queries, repacks} \subseteq Nat

LEMMA TypeParts ==
    TypeOK <=> DiskTypes /\ DaysTypes /\ PlaceTypes /\ query \in Queries /\ BookTypes
  BY DEF TypeOK, DiskTypes, DaysTypes, PlaceTypes, BookTypes, Queries, Jobs, Frames

LEMMA LogTypes ==
    ASSUME TypeOK
    PROVE  /\ wal \in Seq(Sample) /\ replay \in Seq(Sample)
           /\ \A i \in DOMAIN wal : /\ wal[i] \in Sample /\ wal[i].day \in Day
                                    /\ wal[i].day \in Nat /\ wal[i].n \in Nat
           /\ \A i \in DOMAIN replay : /\ replay[i] \in Sample /\ replay[i].day \in Day
                                       /\ replay[i].day \in Nat /\ replay[i].n \in Nat
<1>1. wal \in Seq(Sample) /\ replay \in Seq(Sample)
  BY DEF TypeOK
<1>2. (\A i \in DOMAIN wal : wal[i] \in Sample) /\ (\A i \in DOMAIN replay : replay[i] \in Sample)
  BY <1>1
<1>3. \A r \in Sample : r.day \in Day /\ r.day \in Nat /\ r.n \in Nat
  BY Assumed DEF Sample
<1> QED
  BY <1>1, <1>2, <1>3

LEMMA AppendFrameTypes ==
    ASSUME TypeOK, NEW d \in Day, page[d] # <<>>, AppendFrame(d)
    PROVE  /\ file' \in [Day -> [Kind -> Frames]]
           /\ page' \in [Day -> Seq(Nat)] /\ page'[d] = <<>> /\ open' = open \ {d}
           /\ d \in open
           /\ \A e \in Day : e # d => page'[e] = page[e]
           /\ \A e \in Day : page'[e] # <<>> => e \in open'
           /\ query' \in Queries
<1>1. file[d]["data"] \in Frames /\ page[d] \in Seq(Nat) /\ Range(page[d]) \subseteq Nat
  BY FileTypes DEF Kind
<1>2. Append(file[d]["data"], page[d]) \in Frames
  BY <1>1, HeldAppend
<1>3. file' \in [Day -> [Kind -> Frames]]
  BY <1>2, TypeParts DEF DiskTypes, AppendFrame
<1>4. /\ page' \in [Day -> Seq(Nat)] /\ page'[d] = <<>> /\ open' = open \ {d}
      /\ \A e \in Day : e # d => page'[e] = page[e]
  BY TypeParts, RangeEmpty DEF DaysTypes, AppendFrame
<1>5. d \in open /\ \A e \in Day : page'[e] # <<>> => e \in open'
  BY <1>4, TypeParts DEF DaysTypes
<1>6. query' \in Queries
  BY <1>1, TypeParts, QueryTypes DEF AppendFrame, Hide
<1> QED
  BY <1>3, <1>4, <1>5, <1>6

LEMMA HideTypes ==
    ASSUME TypeOK, NEW d, NEW phases, NEW ns \in SUBSET Nat, Hide(d, phases, ns)
    PROVE  query' \in Queries
  BY TypeParts, QueryTypes DEF Hide

LEMMA SweptIs ==
    ASSUME TypeOK, NEW now \in Nat, Swept(now) # {}
    PROVE  LET d == CHOOSE d \in Swept(now) : \A e \in Swept(now) : d <= e
           IN  d \in Swept(now) /\ d \in Day
<1>1. Swept(now) \subseteq Nat /\ Swept(now) \subseteq Day
  BY Assumed DEF Swept
<1>2. PICK m \in Swept(now) : \A e \in Swept(now) : m <= e
  BY <1>1, Smallest
<1> QED
  BY <1>1, <1>2, Zenon

\* The file a sweep removes next.
LEMMA RemovedIs ==
    ASSUME NEW d, \E k \in Kind : Exists(d, k)
    PROVE  LET k == CHOOSE k \in Kind : /\ Exists(d, k)
                                        /\ \A j \in Kind : Exists(d, j) =>
                                              \/ k = "data" \/ j = "raw" \/ j = k
           IN  k \in Kind /\ Exists(d, k)
<1>1. \E k \in Kind : /\ Exists(d, k)
                      /\ \A j \in Kind : Exists(d, j) => \/ k = "data" \/ j = "raw" \/ j = k
  BY DEF Kind
<1> QED
  BY <1>1, Zenon

LEMMA DiskNext ==
    ASSUME TypeOK, FlowOK, PlaceOK, SweepOK, QueriesOK, Next
    PROVE  DiskTypes'
<1> USE TypeParts DEF DiskTypes
<1>1. ASSUME Open PROVE DiskTypes'
  BY <1>1 DEF Open
<1>2. ASSUME ReplaySkip PROVE DiskTypes'
  BY <1>2 DEF ReplaySkip
<1>3. ASSUME ReplayTake PROVE DiskTypes'
  BY <1>3 DEF ReplayTake
<1>4. ASSUME ReplayRefused PROVE DiskTypes'
  BY <1>4 DEF ReplayRefused
<1>5. ASSUME ReplayDone PROVE DiskTypes'
  BY <1>5 DEF ReplayDone
<1>6. ASSUME NEW d \in Day, BeginAdd(d) PROVE DiskTypes'
  BY <1>6 DEF BeginAdd
<1>7. ASSUME OpenDay PROVE DiskTypes'
  BY <1>7 DEF OpenDay
<1>8. ASSUME SealPage PROVE DiskTypes'
  <2>1. CASE page[OldestOpen] # <<>>
    BY <1>8, <2>1, OldestOpenIs, AppendFrameTypes DEF SealPage
  <2>2. CASE page[OldestOpen] = <<>>
    BY <1>8, <2>2 DEF SealPage
  <2> QED
    BY <2>1, <2>2
<1>9. ASSUME SealReset PROVE DiskTypes'
  BY <1>9, RangeEmpty DEF SealReset, ResetIfNoPages
<1>10. ASSUME WriteMetricFile PROVE DiskTypes'
  <2>1. job.seal \in Day /\ Source(job.seal) \in Kind /\ "metric" \in Kind
    BY <1>10, FileTypes DEF WriteMetricFile, PlaceOK, Sealing, Kind
  <2>2. Columns(file[job.seal][Source(job.seal)]) \in Frames
    BY <2>1, FileTypes
  <2> QED
    BY <1>10, <2>1, <2>2 DEF WriteMetricFile
<1>11. ASSUME KeepSource PROVE DiskTypes'
  BY <1>11 DEF KeepSource
<1>12. ASSUME DeleteSource PROVE DiskTypes'
  <2>1. job.seal \in Day /\ job.from \in Kind /\ <<>> \in Frames
    BY <1>12 DEF DeleteSource, PlaceOK, Sealing, Kind, Jobs, PlaceTypes, Frames
  <2> QED
    BY <1>12, <2>1 DEF DeleteSource
<1>13. ASSUME RemoveOldRaw PROVE DiskTypes'
  <2>1. job.seal \in Day /\ "raw" \in Kind /\ <<>> \in Frames
    BY <1>13 DEF RemoveOldRaw, PlaceOK, Sealing, Kind, Jobs, PlaceTypes, Frames
  <2> QED
    BY <1>13, <2>1 DEF RemoveOldRaw
<1>14. ASSUME RenameSource PROVE DiskTypes'
  <2>1. job.seal \in Day /\ {"raw", "data"} \subseteq Kind /\ <<>> \in Frames
    BY <1>14 DEF RenameSource, PlaceOK, Sealing, Kind, Frames
  <2>2. file[job.seal]["data"] \in Frames
    BY <2>1
  <2> QED
    BY <1>14, <2>1, <2>2 DEF RenameSource
<1>15. ASSUME SweepDay PROVE DiskTypes'
  <2> DEFINE d == CHOOSE d \in Swept(job.day) : \A e \in Swept(job.day) : d <= e
  <2>1. job.day \in Nat /\ Swept(job.day) # {}
    BY <1>15, Assumed DEF SweepDay, Sweeping, FlowOK, PlaceOK
  <2>2. d \in Day
    BY <2>1, SweptIs
  <2> HIDE DEF d
  <2>3. \A k \in Kind : [day |-> d, kind |-> k, frames |-> file[d][k]] \in
                            [day : Day, kind : Kind, frames : Frames]
    BY <2>2
  <2> DEFINE new == {k \in Kind : Exists(d, k) /\ \A f \in archive.files : <<f.day, f.kind>> # <<d, k>>}
  <2>4. archive' = IF setting.retention = "archive"
                  THEN [archive EXCEPT !.files = @ \cup
                           {[day |-> d, kind |-> k, frames |-> file[d][k]] : k \in new}]
                  ELSE archive
    BY <1>15 DEF SweepDay, d
  <2>5. {[day |-> d, kind |-> k, frames |-> file[d][k]] : k \in new} \subseteq
             [day : Day, kind : Kind, frames : Frames]
    BY <2>3
  <2> HIDE DEF new
  <2> DEFINE more == {[day |-> d, kind |-> k, frames |-> file[d][k]] : k \in new}
             kinds == [day : Day, kind : Kind, frames : Frames]
  <2> HIDE DEF more, kinds
  <2>6. archive' \in [files : SUBSET kinds, broken : BOOLEAN]
    BY <2>4, <2>5 DEF more, kinds
  <2> QED
    BY <1>15, <2>6 DEF SweepDay, kinds
<1>16. ASSUME RemoveFile PROVE DiskTypes'
  <2>1. <<>> \in Frames
    BY DEF Frames
  <2> QED
    BY <1>16, <2>1 DEF RemoveFile
<1>17. ASSUME SweepDone PROVE DiskTypes'
  BY <1>17 DEF SweepDone
<1>18. ASSUME LogSample PROVE DiskTypes'
  <2>1. [day |-> job.day, n |-> job.n] \in Sample
    BY <1>18 DEF LogSample, FlowOK, PlaceOK, Sample, Jobs, PlaceTypes
  <2> QED
    BY <1>18, <2>1 DEF LogSample
<1>19. ASSUME StoreSample PROVE DiskTypes'
  BY <1>19 DEF StoreSample
<1>20. ASSUME NEW d \in Day, FlushOther(d) PROVE DiskTypes'
  BY <1>20, AppendFrameTypes DEF FlushOther
<1>21. ASSUME NEW d \in Day, DrainPage(d) PROVE DiskTypes'
  BY <1>21, AppendFrameTypes DEF DrainPage
<1>22. ASSUME NEW d \in Day, Recompact(d) PROVE DiskTypes'
  <2>1. "data" \in Kind /\ Repacked(file[d]["data"]) \in Frames
    BY FileTypes DEF Kind
  <2> QED
    BY <1>22, <2>1 DEF Recompact
<1>23. ASSUME NEW d \in Day, Compact(d) PROVE DiskTypes'
  BY <1>23 DEF Compact
<1>24. ASSUME OthersDone PROVE DiskTypes'
  <2>1. CASE Full(job.day)
    <3>1. job.day \in Day /\ job.op = "add"
      BY <1>24 DEF OthersDone, FlowOK, PlaceOK
    <3>2. page[job.day] # <<>>
      BY <2>1, Assumed DEF Full
    <3> QED
      BY <1>24, <2>1, <3>1, <3>2, AppendFrameTypes DEF OthersDone
  <2>2. CASE ~Full(job.day)
    BY <1>24, <2>2 DEF OthersDone
  <2> QED
    BY <2>1, <2>2
<1>25. ASSUME FullReset PROVE DiskTypes'
  BY <1>25, RangeEmpty DEF FullReset, ResetIfNoPages
<1>26. ASSUME NEW op \in {"flush", "close"}, BeginDrain(op) PROVE DiskTypes'
  BY <1>26 DEF BeginDrain
<1>27. ASSUME DrainDone PROVE DiskTypes'
  BY <1>27, RangeEmpty DEF DrainDone
<1>28. ASSUME Crash PROVE DiskTypes'
  BY <1>28 DEF Crash
<1>29. ASSUME NEW d \in Day, QueryStart(d) PROVE DiskTypes'
  BY <1>29 DEF QueryStart
<1>30. ASSUME QueryMetric PROVE DiskTypes'
  BY <1>30 DEF QueryMetric
<1>31. ASSUME QueryResolve PROVE DiskTypes'
  BY <1>31 DEF QueryResolve
<1>32. ASSUME QuerySource PROVE DiskTypes'
  BY <1>32 DEF QuerySource
<1>33. ASSUME QueryPage PROVE DiskTypes'
  BY <1>33 DEF QueryPage
<1>34. ASSUME QueryReturn PROVE DiskTypes'
  BY <1>34 DEF QueryReturn
<1> QED
  BY <1>1, <1>2, <1>3, <1>4, <1>5, <1>6, <1>7, <1>8, <1>9, <1>10, <1>11, <1>12, <1>13,
<1>14, <1>15, <1>16, <1>17, <1>18, <1>19, <1>20, <1>21, <1>22, <1>23, <1>24, <1>25,
<1>26, <1>27, <1>28, <1>29, <1>30, <1>31, <1>32, <1>33, <1>34 DEF Next, Write,
Query, Seal

\* The full page of the call in progress is written.
LEMMA FullPage ==
    ASSUME TypeOK, FlowOK, PlaceOK, OthersDone, Full(job.day)
    PROVE  job.day \in Day /\ job.op = "add" /\ page[job.day] # <<>> /\ AppendFrame(job.day)
<1>1. job.day \in Day /\ job.op = "add"
  BY DEF OthersDone, FlowOK, PlaceOK
<1>2. page[job.day] # <<>>
  BY Assumed DEF Full
<1> QED
  BY <1>1, <1>2 DEF OthersDone

LEMMA LoseMemoryDays ==
    ASSUME LoseMemory
    PROVE  DaysTypes'
<1>1. \A d \in Day : NoPages[d] = <<>>
  BY DEF NoPages
<1>2. NoPages \in [Day -> Seq(Nat)]
  BY RangeEmpty DEF NoPages
<1>3. Cardinality({}) <= MaxActiveDays
  BY FS_EmptySet, Assumed
<1>4. open' = {} /\ page' = NoPages /\ sealed' = {}
  BY DEF LoseMemory
<1> HIDE DEF NoPages
<1> QED
  BY <1>1, <1>2, <1>3, <1>4 DEF DaysTypes

LEMMA DaysNext ==
    ASSUME TypeOK, FlowOK, PlaceOK, SweepOK, QueriesOK, Next
    PROVE  DaysTypes'
<1> USE TypeParts DEF DaysTypes
<1>0. \A d \in Day : NoPages[d] = <<>> /\ NoPages \in [Day -> Seq(Nat)]
  BY RangeEmpty DEF NoPages
<1>1. ASSUME Open PROVE DaysTypes'
  BY <1>1 DEF Open
<1>2. ASSUME ReplaySkip PROVE DaysTypes'
  BY <1>2 DEF ReplaySkip
<1>3. ASSUME ReplayTake PROVE DaysTypes'
  BY <1>3 DEF ReplayTake
<1>4. ASSUME ReplayRefused PROVE DaysTypes'
  BY <1>4, LoseMemoryDays DEF ReplayRefused
<1>5. ASSUME ReplayDone PROVE DaysTypes'
  BY <1>5 DEF ReplayDone
<1>6. ASSUME NEW d \in Day, BeginAdd(d) PROVE DaysTypes'
  BY <1>6 DEF BeginAdd
<1>7. ASSUME OpenDay PROVE DaysTypes'
  <2>1. job.day \in Day /\ job.day \notin sealed
    BY <1>7 DEF OpenDay, FlowOK, PlaceOK
  <2>2. Cardinality(open \cup {job.day}) <= MaxActiveDays
    <3>1. job.day \in open => open \cup {job.day} = open
      OBVIOUS
    <3> QED
      BY <1>7, <2>1, <3>1, RoomMoves DEF OpenDay
  <2> QED
    BY <1>7, <2>1, <2>2 DEF OpenDay
<1>8. ASSUME SealPage PROVE DaysTypes'
  <2>1. OldestOpen \in open /\ OldestOpen \in Day
    BY <1>8, OldestOpenIs DEF SealPage
  <2>2. CASE page[OldestOpen] # <<>>
    BY <1>8, <2>1, <2>2, AppendFrameTypes, RoomMoves DEF SealPage
  <2>3. CASE page[OldestOpen] = <<>>
    BY <1>8, <2>1, <2>3, RoomMoves DEF SealPage
  <2> QED
    BY <2>2, <2>3
<1>9. ASSUME SealReset PROVE DaysTypes'
  BY <1>9 DEF SealReset
<1>10. ASSUME WriteMetricFile PROVE DaysTypes'
  BY <1>10 DEF WriteMetricFile
<1>11. ASSUME KeepSource PROVE DaysTypes'
  BY <1>11 DEF KeepSource
<1>12. ASSUME DeleteSource PROVE DaysTypes'
  BY <1>12 DEF DeleteSource
<1>13. ASSUME RemoveOldRaw PROVE DaysTypes'
  BY <1>13 DEF RemoveOldRaw
<1>14. ASSUME RenameSource PROVE DaysTypes'
  BY <1>14 DEF RenameSource
<1>15. ASSUME SweepDay PROVE DaysTypes'
  BY <1>15 DEF SweepDay
<1>16. ASSUME RemoveFile PROVE DaysTypes'
  BY <1>16 DEF RemoveFile
<1>17. ASSUME SweepDone PROVE DaysTypes'
  <2>1. job.day \in Day /\ job.day \notin sealed
    BY <1>17 DEF SweepDone, FlowOK, PlaceOK
  <2>2. HasRoom /\ job.seal \notin open /\ job.seal \in Day /\ job.seal # job.day
    BY <1>17 DEF SweepDone, FlowOK, PlaceOK, Sealing
  <2> QED
    BY <1>17, <2>1, <2>2, RoomMoves DEF SweepDone
<1>18. ASSUME LogSample PROVE DaysTypes'
  BY <1>18 DEF LogSample
<1>19. ASSUME StoreSample PROVE DaysTypes'
  <2>1. job.day \in open /\ job.n \in Nat /\ job.day \in Day
    BY <1>19 DEF StoreSample, FlowOK, PlaceOK, Jobs, PlaceTypes
  <2>2. Append(page[job.day], job.n) \in Seq(Nat)
    BY <2>1
  <2> QED
    BY <1>19, <2>1, <2>2 DEF StoreSample
<1>20. ASSUME NEW d \in Day, FlushOther(d) PROVE DaysTypes'
  BY <1>20, AppendFrameTypes, RoomMoves DEF FlushOther
<1>21. ASSUME NEW d \in Day, DrainPage(d) PROVE DaysTypes'
  BY <1>21, AppendFrameTypes, RoomMoves DEF DrainPage
<1>22. ASSUME NEW d \in Day, Recompact(d) PROVE DaysTypes'
  BY <1>22 DEF Recompact
<1>23. ASSUME NEW d \in Day, Compact(d) PROVE DaysTypes'
  BY <1>23 DEF Compact
<1>24. ASSUME OthersDone PROVE DaysTypes'
  <2>1. CASE Full(job.day)
    BY <1>24, <2>1, FullPage, AppendFrameTypes, RoomMoves DEF OthersDone
  <2>2. CASE ~Full(job.day)
    BY <1>24, <2>2 DEF OthersDone
  <2> QED
    BY <2>1, <2>2
<1>25. ASSUME FullReset PROVE DaysTypes'
  BY <1>25 DEF FullReset
<1>26. ASSUME NEW op \in {"flush", "close"}, BeginDrain(op) PROVE DaysTypes'
  BY <1>26 DEF BeginDrain
<1>27. ASSUME DrainDone PROVE DaysTypes'
  <2>1. CASE job.op = "close"
    BY <1>27, <2>1, LoseMemoryDays DEF DrainDone
  <2>2. CASE job.op # "close"
    BY <1>27, <2>2 DEF DrainDone
  <2> QED
    BY <2>1, <2>2
<1>28. ASSUME Crash PROVE DaysTypes'
  BY <1>28, LoseMemoryDays DEF Crash
<1>29. ASSUME NEW d \in Day, QueryStart(d) PROVE DaysTypes'
  BY <1>29 DEF QueryStart
<1>30. ASSUME QueryMetric PROVE DaysTypes'
  BY <1>30 DEF QueryMetric
<1>31. ASSUME QueryResolve PROVE DaysTypes'
  BY <1>31 DEF QueryResolve
<1>32. ASSUME QuerySource PROVE DaysTypes'
  BY <1>32 DEF QuerySource
<1>33. ASSUME QueryPage PROVE DaysTypes'
  BY <1>33 DEF QueryPage
<1>34. ASSUME QueryReturn PROVE DaysTypes'
  BY <1>34 DEF QueryReturn
<1> QED
  BY <1>1, <1>2, <1>3, <1>4, <1>5, <1>6, <1>7, <1>8, <1>9, <1>10, <1>11, <1>12, <1>13,
<1>14, <1>15, <1>16, <1>17, <1>18, <1>19, <1>20, <1>21, <1>22, <1>23, <1>24, <1>25,
<1>26, <1>27, <1>28, <1>29, <1>30, <1>31, <1>32, <1>33, <1>34 DEF Next, Write,
Query, Seal

\* The records a replay has left, one taken.
LEMMA TailIs ==
    ASSUME NEW S, NEW s \in Seq(S), s # <<>>
    PROVE  /\ Head(s) \in S /\ Tail(s) \in Seq(S)
           /\ DOMAIN s = 1..Len(s) /\ 1 \in DOMAIN s /\ Head(s) = s[1]
           /\ DOMAIN Tail(s) = 1..(Len(s) - 1)
           /\ \A i \in DOMAIN Tail(s) : i + 1 \in DOMAIN s /\ Tail(s)[i] = s[i + 1]
           /\ \A i \in DOMAIN s : i = 1 \/ (i - 1 \in DOMAIN Tail(s) /\ s[i] = Tail(s)[i - 1])
<1>1. Len(s) \in Nat \ {0} /\ DOMAIN s = 1..Len(s)
  OBVIOUS
<1>2. Head(s) \in S /\ Tail(s) \in Seq(S) /\ Head(s) = s[1]
  OBVIOUS
<1>3. /\ Len(Tail(s)) = Len(s) - 1 /\ DOMAIN Tail(s) = 1..(Len(s) - 1)
      /\ \A i \in 1..(Len(s) - 1) : Tail(s)[i] = s[i + 1]
  OBVIOUS
<1>4. ASSUME NEW i \in 1..Len(s), i # 1
      PROVE  i - 1 \in 1..(Len(s) - 1) /\ Tail(s)[i - 1] = s[i]
  <2>1. i - 1 \in 1..(Len(s) - 1) /\ (i - 1) + 1 = i
    BY <1>1, <1>4
  <2> QED
    BY <1>3, <2>1
<1>5. \A i \in 1..(Len(s) - 1) : i + 1 \in 1..Len(s)
  BY <1>1
<1> QED
  BY <1>1, <1>2, <1>3, <1>4, <1>5

LEMMA PlaceNext ==
    ASSUME TypeOK, FlowOK, PlaceOK, SweepOK, QueriesOK, Next
    PROVE  PlaceTypes'
<1> USE TypeParts DEF PlaceTypes
<1>0. <<>> \in Seq(Sample) /\ NoJob \in Jobs /\ 0 \in Day \cup {0}
  <2>1. <<>> \in Seq(Sample)
    OBVIOUS
  <2> QED
    BY <2>1, JobTypes
<1>1. ASSUME Open PROVE PlaceTypes'
  BY <1>1, <1>0 DEF Open, DiskTypes
<1>2. ASSUME ReplaySkip PROVE PlaceTypes'
  <2>1. Tail(replay) \in Seq(Sample)
    BY <1>2, TailIs DEF ReplaySkip
  <2> QED
    BY <1>2, <2>1 DEF ReplaySkip
<1>3. ASSUME ReplayTake PROVE PlaceTypes'
  <2>1. Tail(replay) \in Seq(Sample) /\ Head(replay) \in Sample
    BY <1>3, TailIs DEF ReplayTake
  <2>2. Head(replay).day \in Day \cup {0} /\ Head(replay).n \in Nat
    BY <2>1 DEF Sample
  <2>3. job' \in Jobs
    BY <1>3, <2>2, JobTypes DEF ReplayTake
  <2> QED
    BY <1>3, <2>1, <2>3 DEF ReplayTake
<1>4. ASSUME ReplayRefused PROVE PlaceTypes'
  BY <1>4, <1>0 DEF ReplayRefused, LoseMemory
<1>5. ASSUME ReplayDone PROVE PlaceTypes'
  BY <1>5, <1>0 DEF ReplayDone
<1>6. ASSUME NEW d \in Day, BeginAdd(d) PROVE PlaceTypes'
  <2>1. calls + 1 \in Nat /\ d \in Day \cup {0}
    BY DEF BookTypes
  <2>2. job' \in Jobs
    BY <1>6, <2>1, JobTypes DEF BeginAdd
  <2> QED
    BY <1>6, <2>2 DEF BeginAdd
<1>7. ASSUME OpenDay PROVE PlaceTypes'
  BY <1>7 DEF OpenDay
<1>8. ASSUME SealPage PROVE PlaceTypes'
  <2>1. OldestOpen \in Day \cup {0}
    BY <1>8, OldestOpenIs DEF SealPage
  <2> QED
    <3>1. job \in Jobs /\ "data" \in Kind
      BY DEF Kind
    <3>2. [job EXCEPT !.seal = OldestOpen] \in Jobs
      BY <2>1, <3>1, JobUpdates, Zenon
    <3> QED
      BY <1>8, <3>2 DEF SealPage
<1>9. ASSUME SealReset PROVE PlaceTypes'
  BY <1>9 DEF SealReset
<1>10. ASSUME WriteMetricFile PROVE PlaceTypes'
  <2>1. Source(job.seal) \in Kind
    BY <1>10, FileTypes DEF WriteMetricFile, PlaceOK, Sealing
  <2> QED
    BY <1>10, <2>1, JobTypes DEF WriteMetricFile
<1>11. ASSUME KeepSource PROVE PlaceTypes'
  BY <1>11, <1>0 DEF KeepSource, AfterBuild, Return
<1>12. ASSUME DeleteSource PROVE PlaceTypes'
  BY <1>12, <1>0 DEF DeleteSource, AfterBuild, Return
<1>13. ASSUME RemoveOldRaw PROVE PlaceTypes'
  BY <1>13 DEF RemoveOldRaw
<1>14. ASSUME RenameSource PROVE PlaceTypes'
  BY <1>14, <1>0 DEF RenameSource, AfterBuild, Return
<1>15. ASSUME SweepDay PROVE PlaceTypes'
  BY <1>15 DEF SweepDay
<1>16. ASSUME RemoveFile PROVE PlaceTypes'
  BY <1>16 DEF RemoveFile
<1>17. ASSUME SweepDone PROVE PlaceTypes'
  BY <1>17 DEF SweepDone
<1>18. ASSUME LogSample PROVE PlaceTypes'
  BY <1>18 DEF LogSample
<1>19. ASSUME StoreSample PROVE PlaceTypes'
  BY <1>19, <1>0 DEF StoreSample
<1>20. ASSUME NEW d \in Day, FlushOther(d) PROVE PlaceTypes'
  BY <1>20 DEF FlushOther
<1>21. ASSUME NEW d \in Day, DrainPage(d) PROVE PlaceTypes'
  BY <1>21 DEF DrainPage
<1>22. ASSUME NEW d \in Day, Recompact(d) PROVE PlaceTypes'
  BY <1>22 DEF Recompact
<1>23. ASSUME NEW d \in Day, Compact(d) PROVE PlaceTypes'
  <2>1. "compact" \in {"none", "add", "replay", "flush", "close", "compact"} /\ d \in Day \cup {0}
    OBVIOUS
  <2> QED
    BY <1>23, <2>1, JobTypes DEF Compact
<1>24. ASSUME OthersDone PROVE PlaceTypes'
  BY <1>24, <1>0 DEF OthersDone, Return
<1>25. ASSUME FullReset PROVE PlaceTypes'
  BY <1>25, <1>0 DEF FullReset, Return
<1>26. ASSUME NEW op \in {"flush", "close"}, BeginDrain(op) PROVE PlaceTypes'
  BY <1>26, JobTypes DEF BeginDrain
<1>27. ASSUME DrainDone PROVE PlaceTypes'
  BY <1>27, <1>0 DEF DrainDone, LoseMemory, Return
<1>28. ASSUME Crash PROVE PlaceTypes'
  BY <1>28, <1>0 DEF Crash, LoseMemory
<1>29. ASSUME NEW d \in Day, QueryStart(d) PROVE PlaceTypes'
  BY <1>29 DEF QueryStart
<1>30. ASSUME QueryMetric PROVE PlaceTypes'
  BY <1>30 DEF QueryMetric
<1>31. ASSUME QueryResolve PROVE PlaceTypes'
  BY <1>31 DEF QueryResolve
<1>32. ASSUME QuerySource PROVE PlaceTypes'
  BY <1>32 DEF QuerySource
<1>33. ASSUME QueryPage PROVE PlaceTypes'
  BY <1>33 DEF QueryPage
<1>34. ASSUME QueryReturn PROVE PlaceTypes'
  BY <1>34 DEF QueryReturn
<1> QED
  BY <1>1, <1>2, <1>3, <1>4, <1>5, <1>6, <1>7, <1>8, <1>9, <1>10, <1>11, <1>12, <1>13,
<1>14, <1>15, <1>16, <1>17, <1>18, <1>19, <1>20, <1>21, <1>22, <1>23, <1>24, <1>25,
<1>26, <1>27, <1>28, <1>29, <1>30, <1>31, <1>32, <1>33, <1>34 DEF Next, Write,
Query, Seal

LEMMA QueryNext ==
    ASSUME TypeOK, FlowOK, PlaceOK, SweepOK, QueriesOK, Next
    PROVE  query' \in Queries
<1> USE TypeParts
<1>1. query \in Queries
  OBVIOUS
<1>2. query.day \in Day \cup {0} /\ query.from \in Kind /\ query.got \in Seq(Nat)
  BY <1>1 DEF Queries
<1>3. ASSUME Open PROVE query' \in Queries
  BY <1>3, <1>1 DEF Open
<1>4. ASSUME ReplaySkip PROVE query' \in Queries
  BY <1>4, <1>1 DEF ReplaySkip
<1>5. ASSUME ReplayTake PROVE query' \in Queries
  BY <1>5, <1>1 DEF ReplayTake
<1>6. ASSUME ReplayRefused PROVE query' \in Queries
  BY <1>6, QueryTypes DEF ReplayRefused, LoseMemory, Return
<1>7. ASSUME ReplayDone PROVE query' \in Queries
  BY <1>7, <1>1 DEF ReplayDone
<1>8. ASSUME NEW d \in Day, BeginAdd(d) PROVE query' \in Queries
  BY <1>8, <1>1 DEF BeginAdd
<1>9. ASSUME OpenDay PROVE query' \in Queries
  BY <1>9, <1>1 DEF OpenDay
<1>10. ASSUME SealPage PROVE query' \in Queries
  <2>1. OldestOpen \in open /\ OldestOpen \in Day
    BY <1>10, OldestOpenIs DEF SealPage
  <2> QED
    BY <1>10, <2>1, AppendFrameTypes DEF SealPage
<1>11. ASSUME SealReset PROVE query' \in Queries
  BY <1>11, <1>1 DEF SealReset
<1>12. ASSUME WriteMetricFile PROVE query' \in Queries
  BY <1>12, <1>1 DEF WriteMetricFile
<1>13. ASSUME KeepSource PROVE query' \in Queries
  BY <1>13, <1>1 DEF KeepSource
<1>14. ASSUME DeleteSource PROVE query' \in Queries
  <2>1. job.seal \in Day /\ job.from \in Kind
    BY <1>14 DEF DeleteSource, PlaceOK, Sealing, Jobs, PlaceTypes
  <2>2. Members(job.seal, job.from) \in SUBSET Nat
    BY <2>1, FileTypes
  <2> QED
    BY <1>14, <2>2, HideTypes DEF DeleteSource
<1>15. ASSUME RemoveOldRaw PROVE query' \in Queries
  BY <1>15, <1>1 DEF RemoveOldRaw
<1>16. ASSUME RenameSource PROVE query' \in Queries
  <2>1. job.seal \in Day /\ "data" \in Kind
    BY <1>16 DEF RenameSource, PlaceOK, Sealing, Kind
  <2>2. Members(job.seal, "data") \in SUBSET Nat
    BY <2>1, FileTypes
  <2> QED
    BY <1>16, <2>2, HideTypes DEF RenameSource
<1>17. ASSUME SweepDay PROVE query' \in Queries
  BY <1>17, <1>1 DEF SweepDay
<1>18. ASSUME RemoveFile PROVE query' \in Queries
  <2> DEFINE d == CHOOSE d \in Swept(job.day) : \A e \in Swept(job.day) : d <= e
             k == CHOOSE k \in Kind : /\ Exists(d, k)
                                      /\ \A j \in Kind : Exists(d, j) =>
                                            \/ k = "data" \/ j = "raw" \/ j = k
  <2>1. pc = "remove" /\ Hide(d, {"metric", "resolve", "source"}, Members(d, k))
    BY <1>18, Zenon DEF RemoveFile
  <2>2. Swept(job.day) # {} /\ job.day \in Nat
    BY <2>1, Assumed DEF FlowOK, PlaceOK, SweepOK
  <2>3. d \in Swept(job.day) /\ d \in Day
    BY <2>2, SweptIs
  <2>4. \E j \in Kind : Exists(d, j)
    BY <2>3 DEF Swept
  <2> HIDE DEF d
  <2>5. k \in Kind
    BY <2>4, RemovedIs
  <2> HIDE DEF k
  <2>6. Members(d, k) \in SUBSET Nat
    BY <2>3, <2>5, FileTypes
  <2> QED
    BY <2>1, <2>6, HideTypes
<1>19. ASSUME SweepDone PROVE query' \in Queries
  BY <1>19, <1>1 DEF SweepDone
<1>20. ASSUME LogSample PROVE query' \in Queries
  BY <1>20, <1>1 DEF LogSample
<1>21. ASSUME StoreSample PROVE query' \in Queries
  BY <1>21, <1>1 DEF StoreSample
<1>22. ASSUME NEW d \in Day, FlushOther(d) PROVE query' \in Queries
  BY <1>22, AppendFrameTypes DEF FlushOther
<1>23. ASSUME NEW d \in Day, DrainPage(d) PROVE query' \in Queries
  BY <1>23, AppendFrameTypes DEF DrainPage
<1>24. ASSUME NEW d \in Day, Recompact(d) PROVE query' \in Queries
  BY <1>24, <1>1 DEF Recompact
<1>25. ASSUME NEW d \in Day, Compact(d) PROVE query' \in Queries
  BY <1>25, <1>1 DEF Compact
<1>26. ASSUME OthersDone PROVE query' \in Queries
  <2>1. CASE Full(job.day)
    BY <1>26, <2>1, FullPage, AppendFrameTypes
  <2>2. CASE ~Full(job.day)
    BY <1>26, <2>2 DEF OthersDone
  <2> QED
    BY <2>1, <2>2
<1>27. ASSUME FullReset PROVE query' \in Queries
  BY <1>27, <1>1 DEF FullReset
<1>28. ASSUME NEW op \in {"flush", "close"}, BeginDrain(op) PROVE query' \in Queries
  BY <1>28, <1>1 DEF BeginDrain
<1>29. ASSUME DrainDone PROVE query' \in Queries
  BY <1>29, QueryTypes DEF DrainDone, LoseMemory, Return
<1>30. ASSUME Crash PROVE query' \in Queries
  BY <1>30, QueryTypes DEF Crash, LoseMemory, Return
<1>31. ASSUME NEW d \in Day, QueryStart(d) PROVE query' \in Queries
  <2> DEFINE ns == Range(Readable(d))
  <2>1. ns \in SUBSET Nat
    BY FileTypes, RangeOf
  <2> HIDE DEF ns
  <2>2. query' = [NoQuery EXCEPT !.phase = "metric", !.day = d, !.due = ns]
    BY <1>31 DEF QueryStart, ns
  <2> DEFINE S == Seq(Nat)
  <2>3. Queries = [phase : {"none", "metric", "resolve", "source", "page", "done"},
                   day : Day \cup {0}, from : Kind, got : S, due : SUBSET Nat]
    BY DEF Queries
  <2> HIDE DEF S
  <2> QED
    BY <2>1, <2>2, <2>3, QueryTypes
<1>32. ASSUME QueryMetric PROVE query' \in Queries
  <2>1. query.day \in Day => Held(file[query.day]["metric"]) \in Seq(Nat)
    BY FileTypes DEF Kind
  <2>2. query.day \in Day
    BY <1>32 DEF QueryMetric, QueriesOK
  <2> DEFINE s == Held(file[query.day]["metric"])
  <2>3. query' = IF Exists(query.day, "metric") THEN [query EXCEPT !.got = s, !.phase = "page"]
                 ELSE [query EXCEPT !.phase = "resolve"]
    BY <1>32 DEF QueryMetric
  <2>4. s \in Seq(Nat)
    BY <2>1, <2>2
  <2> HIDE DEF s
  <2>5. [query EXCEPT !.got = s, !.phase = "page"] \in Queries /\ [query EXCEPT !.phase = "resolve"] \in Queries
    BY <1>1, <2>4, QueryGets, QueryPhases, Zenon
  <2> QED
    BY <2>3, <2>5
<1>33. ASSUME QueryResolve PROVE query' \in Queries
  <2>1. Source(query.day) \in Kind
    BY DEF Source, Kind
  <2> DEFINE k == Source(query.day)
  <2>2. query' = IF Exists(query.day, k) THEN [query EXCEPT !.from = k, !.phase = "source"]
                 ELSE [query EXCEPT !.phase = "page"]
    BY <1>33 DEF QueryResolve
  <2> HIDE DEF k
  <2>3. [query EXCEPT !.from = k, !.phase = "source"] \in Queries /\ [query EXCEPT !.phase = "page"] \in Queries
    BY <1>1, <2>1, QueryGoes, QueryPhases, Zenon DEF k
  <2> QED
    BY <2>2, <2>3
<1>34. ASSUME QuerySource PROVE query' \in Queries
  <2>1. query.day \in Day
    BY <1>34 DEF QuerySource, QueriesOK
  <2>2. Held(file[query.day][query.from]) \in Seq(Nat)
    BY <1>2, <2>1, FileTypes
  <2> DEFINE s == Held(file[query.day][query.from])
  <2>3. query' = [query EXCEPT !.got = s, !.phase = "page"]
    BY <1>34 DEF QuerySource
  <2> HIDE DEF s
  <2>4. [query EXCEPT !.got = s, !.phase = "page"] \in Queries
    BY <1>1, <2>2, QueryGets, Zenon DEF s
  <2> QED
    BY <2>3, <2>4
<1>35. ASSUME QueryPage PROVE query' \in Queries
  <2>1. query.day \in Day
    BY <1>35 DEF QueryPage, QueriesOK
  <2>2. page[query.day] \in Seq(Nat)
    BY <2>1, FileTypes
  <2>3. query.got \o page[query.day] \in Seq(Nat)
    BY <1>2, <2>2, RangeJoined
  <2> DEFINE s == query.got \o page[query.day]
  <2>4. query' = [query EXCEPT !.got = s, !.phase = "done"]
    BY <1>35 DEF QueryPage
  <2> HIDE DEF s
  <2>5. [query EXCEPT !.got = s, !.phase = "done"] \in Queries
    BY <1>1, <2>3, QueryGets, Zenon DEF s
  <2> QED
    BY <2>4, <2>5
<1>36. ASSUME QueryReturn PROVE query' \in Queries
  BY <1>36, QueryTypes DEF QueryReturn
<1> QED
  BY <1>3, <1>4, <1>5, <1>6, <1>7, <1>8, <1>9, <1>10, <1>11, <1>12, <1>13, <1>14, <1>15,
<1>16, <1>17, <1>18, <1>19, <1>20, <1>21, <1>22, <1>23, <1>24, <1>25, <1>26, <1>27,
<1>28, <1>29, <1>30, <1>31, <1>32, <1>33, <1>34, <1>35, <1>36 DEF Next, Write,
Query, Seal

LEMMA BookNext ==
    ASSUME TypeOK, FlowOK, PlaceOK, SweepOK, QueriesOK, Next
    PROVE  BookTypes'
<1> USE TypeParts DEF BookTypes
<1>1. ASSUME Open PROVE BookTypes'
  BY <1>1 DEF Open
<1>2. ASSUME ReplaySkip PROVE BookTypes'
  BY <1>2 DEF ReplaySkip
<1>3. ASSUME ReplayTake PROVE BookTypes'
  BY <1>3 DEF ReplayTake
<1>4. ASSUME ReplayRefused PROVE BookTypes'
  BY <1>4 DEF ReplayRefused, LoseMemory, Return
<1>5. ASSUME ReplayDone PROVE BookTypes'
  BY <1>5 DEF ReplayDone
<1>6. ASSUME NEW d \in Day, BeginAdd(d) PROVE BookTypes'
  BY <1>6 DEF BeginAdd
<1>7. ASSUME OpenDay PROVE BookTypes'
  BY <1>7 DEF OpenDay
<1>8. ASSUME SealPage PROVE BookTypes'
  BY <1>8 DEF SealPage
<1>9. ASSUME SealReset PROVE BookTypes'
  BY <1>9 DEF SealReset
<1>10. ASSUME WriteMetricFile PROVE BookTypes'
  BY <1>10, Assumed DEF WriteMetricFile
<1>11. ASSUME KeepSource PROVE BookTypes'
  <2>1. job.op = "add" => [day |-> job.day, n |-> job.n] \in Sample
    BY DEF PlaceOK, Jobs, PlaceTypes, Sample
  <2> QED
    BY <1>11, <2>1 DEF KeepSource, AfterBuild, Return
<1>12. ASSUME DeleteSource PROVE BookTypes'
  <2>1. job.op = "add" => [day |-> job.day, n |-> job.n] \in Sample
    BY DEF PlaceOK, Jobs, PlaceTypes, Sample
  <2> QED
    BY <1>12, <2>1 DEF DeleteSource, AfterBuild, Return
<1>13. ASSUME RemoveOldRaw PROVE BookTypes'
  BY <1>13 DEF RemoveOldRaw
<1>14. ASSUME RenameSource PROVE BookTypes'
  <2>1. job.op = "add" => [day |-> job.day, n |-> job.n] \in Sample
    BY DEF PlaceOK, Jobs, PlaceTypes, Sample
  <2> QED
    BY <1>14, <2>1 DEF RenameSource, AfterBuild, Return
<1>15. ASSUME SweepDay PROVE BookTypes'
  <2>1. job.day \in Nat /\ Swept(job.day) # {}
    BY <1>15, Assumed DEF SweepDay, Sweeping, FlowOK, PlaceOK
  <2> DEFINE d == CHOOSE d \in Swept(job.day) : \A e \in Swept(job.day) : d <= e
  <2>2. d \in Day
    BY <2>1, SweptIs
  <2>3. late' \subseteq late \cup {d}
    BY <1>15 DEF SweepDay
  <2> HIDE DEF d
  <2> QED
    BY <1>15, <2>2, <2>3 DEF SweepDay
<1>16. ASSUME RemoveFile PROVE BookTypes'
  BY <1>16 DEF RemoveFile
<1>17. ASSUME SweepDone PROVE BookTypes'
  BY <1>17 DEF SweepDone
<1>18. ASSUME LogSample PROVE BookTypes'
  BY <1>18 DEF LogSample
<1>19. ASSUME StoreSample PROVE BookTypes'
  <2>1. job.day \in Day
    BY <1>19 DEF StoreSample, FlowOK, PlaceOK
  <2> QED
    BY <1>19, <2>1 DEF StoreSample
<1>20. ASSUME NEW d \in Day, FlushOther(d) PROVE BookTypes'
  BY <1>20 DEF FlushOther
<1>21. ASSUME NEW d \in Day, DrainPage(d) PROVE BookTypes'
  BY <1>21 DEF DrainPage
<1>22. ASSUME NEW d \in Day, Recompact(d) PROVE BookTypes'
  BY <1>22 DEF Recompact
<1>23. ASSUME NEW d \in Day, Compact(d) PROVE BookTypes'
  BY <1>23 DEF Compact
<1>24. ASSUME OthersDone PROVE BookTypes'
  <2>1. job.op = "add" => [day |-> job.day, n |-> job.n] \in Sample
    BY DEF PlaceOK, Jobs, PlaceTypes, Sample
  <2> QED
    BY <1>24, <2>1 DEF OthersDone, Return
<1>25. ASSUME FullReset PROVE BookTypes'
  <2>1. job.op = "add" => [day |-> job.day, n |-> job.n] \in Sample
    BY DEF PlaceOK, Jobs, PlaceTypes, Sample
  <2> QED
    BY <1>25, <2>1 DEF FullReset, Return
<1>26. ASSUME NEW op \in {"flush", "close"}, BeginDrain(op) PROVE BookTypes'
  BY <1>26 DEF BeginDrain
<1>27. ASSUME DrainDone PROVE BookTypes'
  <2>1. job.op = "add" => [day |-> job.day, n |-> job.n] \in Sample
    BY DEF PlaceOK, Jobs, PlaceTypes, Sample
  <2> QED
    BY <1>27, <2>1 DEF DrainDone, Return, LoseMemory
<1>28. ASSUME Crash PROVE BookTypes'
  BY <1>28 DEF Crash, LoseMemory, Return
<1>29. ASSUME NEW d \in Day, QueryStart(d) PROVE BookTypes'
  BY <1>29 DEF QueryStart
<1>30. ASSUME QueryMetric PROVE BookTypes'
  BY <1>30 DEF QueryMetric
<1>31. ASSUME QueryResolve PROVE BookTypes'
  BY <1>31 DEF QueryResolve
<1>32. ASSUME QuerySource PROVE BookTypes'
  BY <1>32 DEF QuerySource
<1>33. ASSUME QueryPage PROVE BookTypes'
  BY <1>33 DEF QueryPage
<1>34. ASSUME QueryReturn PROVE BookTypes'
  BY <1>34 DEF QueryReturn
<1> QED
  BY <1>1, <1>2, <1>3, <1>4, <1>5, <1>6, <1>7, <1>8, <1>9, <1>10, <1>11, <1>12, <1>13,
<1>14, <1>15, <1>16, <1>17, <1>18, <1>19, <1>20, <1>21, <1>22, <1>23, <1>24, <1>25,
<1>26, <1>27, <1>28, <1>29, <1>30, <1>31, <1>32, <1>33, <1>34 DEF Next, Write,
Query, Seal

(***************************************************************************)
(* Where the writer is: what it knows there holds.                         *)
(***************************************************************************)
LEMMA NoQueryIs == NoQuery.phase = "none" /\ NoQuery.day = 0
  BY DEF NoQuery

LEMMA HidesNothing ==
    ASSUME query = NoQuery, NEW d \in Day, NEW phases, NEW ns, Hide(d, phases, ns)
    PROVE  query' = query
  BY NoQueryIs, Assumed DEF Hide

LEMMA FlowNext ==
    ASSUME TypeOK, FlowOK, PlaceOK, SweepOK, BuildOK, QueriesOK, Next
    PROVE  FlowOK'
<1> USE TypeParts
<1>0. job \in Jobs /\ job.op \in {"none", "add", "replay", "flush", "close", "compact"}
  BY DEF PlaceTypes, Jobs
<1>1. ASSUME Open PROVE FlowOK'
  BY <1>1, <1>0 DEF Open, FlowOK, Replaying, Building, NoJob
<1>2. ASSUME ReplaySkip PROVE FlowOK'
  BY <1>2, <1>0 DEF ReplaySkip, FlowOK, Replaying, Building, NoJob
<1>3. ASSUME ReplayTake PROVE FlowOK'
  BY <1>3, <1>0 DEF ReplayTake, FlowOK, Replaying, Building, NoJob
<1>4. ASSUME ReplayRefused PROVE FlowOK'
  BY <1>4, <1>0 DEF ReplayRefused, LoseMemory, Return, FlowOK, Replaying, Building,
     NoJob
<1>5. ASSUME ReplayDone PROVE FlowOK'
  BY <1>5, <1>0 DEF ReplayDone, FlowOK, Replaying, Building, NoJob
<1>6. ASSUME NEW d \in Day, BeginAdd(d) PROVE FlowOK'
  BY <1>6, <1>0 DEF BeginAdd, FlowOK, Replaying, Building, NoJob
<1>7. ASSUME OpenDay PROVE FlowOK'
  BY <1>7, <1>0 DEF OpenDay, FlowOK, Replaying, Building, NoJob
<1>8. ASSUME SealPage PROVE FlowOK'
  <2>1. OldestOpen \in Day
    BY <1>8, OldestOpenIs DEF SealPage
  <2>2. query = NoQuery => query' = query
    BY <1>8, <2>1, HidesNothing DEF SealPage, AppendFrame
  <2>3. job'.op = job.op /\ pc' = "reset" /\ pc = "open" /\ replay' = replay
    BY <1>8, <1>0 DEF SealPage, Jobs
  <2> QED
    BY <2>2, <2>3 DEF FlowOK, Replaying, Building
<1>9. ASSUME SealReset PROVE FlowOK'
  BY <1>9, <1>0 DEF SealReset, AppendFrame, Hide, Return, FlowOK, Replaying, Building,
     NoJob
<1>10. ASSUME WriteMetricFile PROVE FlowOK'
  BY <1>10, <1>0 DEF WriteMetricFile, Jobs, FlowOK, Replaying, Building, NoJob
<1>11. ASSUME KeepSource PROVE FlowOK'
  BY <1>11, <1>0 DEF KeepSource, AfterBuild, Return, Hide, FlowOK, Replaying, Building,
     NoJob
<1>12. ASSUME DeleteSource PROVE FlowOK'
  <2>1. query = NoQuery => query' = query
    <3>1. job.seal \in Day
      BY <1>12 DEF DeleteSource, PlaceOK, Sealing
    <3> QED
      BY <1>12, <3>1, HidesNothing DEF DeleteSource
  <2> QED
    BY <1>12, <1>0, <2>1 DEF DeleteSource, AfterBuild, Return, FlowOK, Replaying, Building, NoJob
<1>13. ASSUME RemoveOldRaw PROVE FlowOK'
  BY <1>13, <1>0 DEF RemoveOldRaw, FlowOK, Replaying, Building, NoJob
<1>14. ASSUME RenameSource PROVE FlowOK'
  <2>1. query = NoQuery => query' = query
    <3>1. job.seal \in Day
      BY <1>14 DEF RenameSource, PlaceOK, Sealing
    <3> QED
      BY <1>14, <3>1, HidesNothing DEF RenameSource
  <2> QED
    BY <1>14, <1>0, <2>1 DEF RenameSource, AfterBuild, Return, FlowOK, Replaying, Building, NoJob
<1>15. ASSUME SweepDay PROVE FlowOK'
  BY <1>15, <1>0 DEF SweepDay, FlowOK, Replaying, Building, NoJob
<1>16. ASSUME RemoveFile PROVE FlowOK'
  <2> DEFINE d == CHOOSE d \in Swept(job.day) : \A e \in Swept(job.day) : d <= e
             k == CHOOSE k \in Kind : /\ Exists(d, k)
                                      /\ \A j \in Kind : Exists(d, j) =>
                                            \/ k = "data" \/ j = "raw" \/ j = k
  <2>1. pc = "remove" /\ Hide(d, {"metric", "resolve", "source"}, Members(d, k))
    BY <1>16, Zenon DEF RemoveFile
  <2>2. d \in Day
    BY <2>1, Assumed, SweptIs DEF FlowOK, PlaceOK, SweepOK
  <2> HIDE DEF d, k
  <2>3. query = NoQuery => query' = query
    BY <2>1, <2>2, HidesNothing
  <2> QED
    BY <1>16, <1>0, <2>3 DEF RemoveFile, FlowOK, Replaying, Building, NoJob
<1>17. ASSUME SweepDone PROVE FlowOK'
  BY <1>17, <1>0 DEF SweepDone, FlowOK, Replaying, Building, NoJob
<1>18. ASSUME LogSample PROVE FlowOK'
  BY <1>18, <1>0 DEF LogSample, FlowOK, Replaying, Building, NoJob
<1>19. ASSUME StoreSample PROVE FlowOK'
  BY <1>19, <1>0 DEF StoreSample, FlowOK, Replaying, Building, NoJob
<1>20. ASSUME NEW d \in Day, FlushOther(d) PROVE FlowOK'
  BY <1>20, <1>0 DEF FlushOther, AppendFrame, Hide, Return, FlowOK, Replaying, Building,
     NoJob
<1>21. ASSUME NEW d \in Day, DrainPage(d) PROVE FlowOK'
  BY <1>21, <1>0 DEF DrainPage, AppendFrame, Hide, Return, FlowOK, Replaying, Building,
     NoJob
<1>22. ASSUME NEW d \in Day, Recompact(d) PROVE FlowOK'
  BY <1>22, <1>0 DEF Recompact, FlowOK, Replaying, Building, NoJob
<1>23. ASSUME NEW d \in Day, Compact(d) PROVE FlowOK'
  BY <1>23, <1>0 DEF Compact, FlowOK, Replaying, Building, NoJob
<1>24. ASSUME OthersDone PROVE FlowOK'
  BY <1>24, <1>0 DEF OthersDone, AppendFrame, Hide, Return, FlowOK, Replaying, Building,
     NoJob
<1>25. ASSUME FullReset PROVE FlowOK'
  BY <1>25, <1>0 DEF FullReset, Return, FlowOK, Replaying, Building, NoJob
<1>26. ASSUME NEW op \in {"flush", "close"}, BeginDrain(op) PROVE FlowOK'
  BY <1>26, <1>0 DEF BeginDrain, FlowOK, Replaying, Building, NoJob
<1>27. ASSUME DrainDone PROVE FlowOK'
  BY <1>27, <1>0 DEF DrainDone, LoseMemory, Return, FlowOK, Replaying, Building, NoJob
<1>28. ASSUME Crash PROVE FlowOK'
  BY <1>28, <1>0 DEF Crash, LoseMemory, Return, FlowOK, Replaying, Building, NoJob
<1>29. ASSUME NEW d \in Day, QueryStart(d) PROVE FlowOK'
  BY <1>29, <1>0 DEF QueryStart, FlowOK, Replaying, Building, NoJob
<1>30. ASSUME QueryMetric PROVE FlowOK'
  BY <1>30, <1>0, NoQueryIs DEF QueryMetric, FlowOK, Replaying, Building, NoJob
<1>31. ASSUME QueryResolve PROVE FlowOK'
  BY <1>31, <1>0, NoQueryIs DEF QueryResolve, FlowOK, Replaying, Building, NoJob
<1>32. ASSUME QuerySource PROVE FlowOK'
  BY <1>32, <1>0, NoQueryIs DEF QuerySource, FlowOK, Replaying, Building, NoJob
<1>33. ASSUME QueryPage PROVE FlowOK'
  BY <1>33, <1>0 DEF QueryPage, FlowOK, Replaying, Building, NoJob
<1>34. ASSUME QueryReturn PROVE FlowOK'
  BY <1>34, <1>0 DEF QueryReturn, FlowOK, Replaying, Building, NoJob
<1> QED
  BY <1>1, <1>2, <1>3, <1>4, <1>5, <1>6, <1>7, <1>8, <1>9, <1>10, <1>11, <1>12, <1>13,
<1>14, <1>15, <1>16, <1>17, <1>18, <1>19, <1>20, <1>21, <1>22, <1>23, <1>24, <1>25,
<1>26, <1>27, <1>28, <1>29, <1>30, <1>31, <1>32, <1>33, <1>34 DEF Next, Write,
Query, Seal

LEMMA PlacesNext ==
    ASSUME TypeOK, FlowOK, PlaceOK, SweepOK, BuildOK, QueriesOK, Next
    PROVE  PlaceOK'
<1> USE TypeParts
<1>0. job \in Jobs /\ \A d \in Day : d \in Nat
  BY Assumed DEF PlaceTypes
<1>1. ASSUME Open PROVE PlaceOK'
  BY <1>1, <1>0 DEF Open, PlaceOK, FlowOK, Sealing, NoJob, HasRoom
<1>2. ASSUME ReplaySkip PROVE PlaceOK'
  <2>1. replay \in Seq(Sample) /\ replay # <<>> /\ replay' = Tail(replay)
    BY <1>2 DEF ReplaySkip, PlaceTypes
  <2>2. \A i \in DOMAIN replay' : replay'[i].day <= newest
    BY <2>1, TailIs DEF PlaceOK
  <2> QED
    BY <1>2, <2>2 DEF ReplaySkip, PlaceOK, Sealing
<1>3. ASSUME ReplayTake PROVE PlaceOK'
  <2>1. replay \in Seq(Sample) /\ replay # <<>> /\ replay' = Tail(replay)
    BY <1>3 DEF ReplayTake, PlaceTypes
  <2>2. /\ Head(replay) \in Sample /\ Head(replay).day <= newest
        /\ \A i \in DOMAIN replay' : replay'[i].day <= newest
    BY <2>1, TailIs DEF PlaceOK
  <2>3. Head(replay).day \in Day /\ Head(replay).day \notin sealed
    BY <1>3, <2>2 DEF ReplayTake, Sample
  <2>4. pc' = "open" /\ job'.op = "replay" /\ job'.day = Head(replay).day
    BY <1>3 DEF ReplayTake, NoJob
  <2> QED
    BY <1>3, <2>2, <2>3, <2>4 DEF ReplayTake, PlaceOK, Sealing
<1>4. ASSUME ReplayRefused PROVE PlaceOK'
  BY <1>4, <1>0 DEF ReplayRefused, LoseMemory, Return, PlaceOK, FlowOK, Sealing, NoJob,
     HasRoom
<1>5. ASSUME ReplayDone PROVE PlaceOK'
  BY <1>5, <1>0 DEF ReplayDone, PlaceOK, FlowOK, Sealing, NoJob, HasRoom
<1>6. ASSUME NEW d \in Day, BeginAdd(d) PROVE PlaceOK'
  <2>1. /\ newest' = (IF d > newest THEN d ELSE newest) /\ newest \in Nat /\ d \in Nat
        /\ pc' = "open" /\ job'.op = "add" /\ job'.day = d /\ d \notin sealed
        /\ sealed' = sealed /\ wal' = wal /\ replay' = replay
    BY <1>6, Assumed DEF BeginAdd, NoJob, BookTypes
  <2>2. \A i \in DOMAIN wal : wal[i].day \in Nat
    BY LogTypes
  <2>3. \A i \in DOMAIN replay : replay[i].day \in Nat
    BY LogTypes
  <2>4. newest <= newest' /\ newest' \in Nat /\ d <= newest'
    BY <2>1
  <2> QED
    BY <2>1, <2>2, <2>3, <2>4 DEF PlaceOK, Sealing
<1>7. ASSUME OpenDay PROVE PlaceOK'
  BY <1>7, <1>0 DEF OpenDay, PlaceOK, FlowOK, Sealing, NoJob, HasRoom
<1>8. ASSUME SealPage PROVE PlaceOK'
  <2>1. OldestOpen \in open /\ OldestOpen \in Day
    BY <1>8, OldestOpenIs DEF SealPage
  <2>2. /\ open' = open \ {OldestOpen} /\ page'[OldestOpen] = <<>>
        /\ wal' = wal /\ sealed' = sealed /\ replay' = replay /\ newest' = newest
        /\ job.day \notin open /\ pc = "open" /\ pc' = "reset"
    BY <1>8, <2>1 DEF SealPage, AppendFrame, DaysTypes
  <2>3. job'.op = job.op /\ job'.day = job.day /\ job'.seal = OldestOpen
    BY <1>8, <1>0 DEF SealPage, Jobs
  <2>4. HasRoom'
    BY <2>1, <2>2, RoomMoves DEF HasRoom
  <2> QED
    BY <2>1, <2>2, <2>3, <2>4 DEF PlaceOK, FlowOK, Sealing
<1>9. ASSUME SealReset PROVE PlaceOK'
  <2>1. wal' = wal \/ wal' = <<>>
    BY <1>9 DEF SealReset, ResetIfNoPages
  <2>2. \A i \in DOMAIN wal' : wal'[i].day <= newest
    BY <2>1 DEF PlaceOK
  <2> QED
    BY <1>9, <1>0, <2>2 DEF SealReset, Return, PlaceOK, FlowOK, Sealing, NoJob, HasRoom
<1>10. ASSUME WriteMetricFile PROVE PlaceOK'
  BY <1>10, <1>0 DEF WriteMetricFile, PlaceOK, FlowOK, Sealing, NoJob, HasRoom
<1>11. ASSUME KeepSource PROVE PlaceOK'
  BY <1>11, <1>0 DEF KeepSource, AfterBuild, Return, PlaceOK, FlowOK, Sealing, NoJob,
     HasRoom
<1>12. ASSUME DeleteSource PROVE PlaceOK'
  BY <1>12, <1>0 DEF DeleteSource, AfterBuild, Return, PlaceOK, FlowOK, Sealing, NoJob,
     HasRoom
<1>13. ASSUME RemoveOldRaw PROVE PlaceOK'
  BY <1>13, <1>0 DEF RemoveOldRaw, PlaceOK, FlowOK, Sealing, NoJob, HasRoom
<1>14. ASSUME RenameSource PROVE PlaceOK'
  BY <1>14, <1>0 DEF RenameSource, AfterBuild, Return, PlaceOK, FlowOK, Sealing, NoJob,
     HasRoom
<1>15. ASSUME SweepDay PROVE PlaceOK'
  BY <1>15, <1>0 DEF SweepDay, PlaceOK, FlowOK, Sealing, NoJob, HasRoom
<1>16. ASSUME RemoveFile PROVE PlaceOK'
  BY <1>16, <1>0 DEF RemoveFile, PlaceOK, FlowOK, Sealing, NoJob, HasRoom
<1>17. ASSUME SweepDone PROVE PlaceOK'
  BY <1>17, <1>0 DEF SweepDone, PlaceOK, FlowOK, Sealing, NoJob, HasRoom
<1>18. ASSUME LogSample PROVE PlaceOK'
  <2>1. /\ pc = "log" /\ pc' = "store" /\ job.day \in open /\ job.day \in Day /\ job.day <= newest
    BY <1>18 DEF LogSample, FlowOK, PlaceOK
  <2> DEFINE r == [day |-> job.day, n |-> job.n]
  <2>2. wal \in Seq(Sample) /\ r \in Sample /\ wal' = Append(wal, r) /\ r.day = job.day
    BY <1>18, <1>0, <2>1 DEF LogSample, DiskTypes, Sample, Jobs
  <2> HIDE DEF r
  <2>3. \A i \in DOMAIN wal' : wal'[i] = r \/ (i \in DOMAIN wal /\ wal'[i] = wal[i])
    BY <2>2
  <2>4. \A i \in DOMAIN wal' : wal'[i].day <= newest
    BY <2>1, <2>2, <2>3 DEF PlaceOK
  <2> QED
    BY <1>18, <2>1, <2>4 DEF LogSample, PlaceOK, Sealing
<1>19. ASSUME StoreSample PROVE PlaceOK'
  BY <1>19, <1>0 DEF StoreSample, PlaceOK, FlowOK, Sealing, NoJob, HasRoom
<1>20. ASSUME NEW d \in Day, FlushOther(d) PROVE PlaceOK'
  BY <1>20, <1>0 DEF FlushOther, PlaceOK, FlowOK, Sealing, NoJob, HasRoom
<1>21. ASSUME NEW d \in Day, DrainPage(d) PROVE PlaceOK'
  BY <1>21, <1>0 DEF DrainPage, PlaceOK, FlowOK, Sealing, NoJob, HasRoom
<1>22. ASSUME NEW d \in Day, Recompact(d) PROVE PlaceOK'
  BY <1>22, <1>0 DEF Recompact, PlaceOK, FlowOK, Sealing, NoJob, HasRoom
<1>23. ASSUME NEW d \in Day, Compact(d) PROVE PlaceOK'
  BY <1>23, <1>0 DEF Compact, PlaceOK, FlowOK, Sealing, NoJob, HasRoom
<1>24. ASSUME OthersDone PROVE PlaceOK'
  BY <1>24, <1>0 DEF OthersDone, Return, PlaceOK, FlowOK, Sealing, NoJob, HasRoom
<1>25. ASSUME FullReset PROVE PlaceOK'
  <2>1. wal' = wal \/ wal' = <<>>
    BY <1>25 DEF FullReset, ResetIfNoPages
  <2>2. \A i \in DOMAIN wal' : wal'[i].day <= newest
    BY <2>1 DEF PlaceOK
  <2> QED
    BY <1>25, <1>0, <2>2 DEF FullReset, Return, PlaceOK, FlowOK, Sealing, NoJob, HasRoom
<1>26. ASSUME NEW op \in {"flush", "close"}, BeginDrain(op) PROVE PlaceOK'
  BY <1>26, <1>0 DEF BeginDrain, PlaceOK, FlowOK, Sealing, NoJob, HasRoom
<1>27. ASSUME DrainDone PROVE PlaceOK'
  BY <1>27, <1>0 DEF DrainDone, LoseMemory, Return, PlaceOK, FlowOK, Sealing, NoJob,
     HasRoom
<1>28. ASSUME Crash PROVE PlaceOK'
  BY <1>28, <1>0 DEF Crash, LoseMemory, Return, PlaceOK, FlowOK, Sealing, NoJob, HasRoom
<1>29. ASSUME NEW d \in Day, QueryStart(d) PROVE PlaceOK'
  BY <1>29, <1>0 DEF QueryStart, PlaceOK, FlowOK, Sealing, NoJob, HasRoom
<1>30. ASSUME QueryMetric PROVE PlaceOK'
  BY <1>30, <1>0 DEF QueryMetric, PlaceOK, FlowOK, Sealing, NoJob, HasRoom
<1>31. ASSUME QueryResolve PROVE PlaceOK'
  BY <1>31, <1>0 DEF QueryResolve, PlaceOK, FlowOK, Sealing, NoJob, HasRoom
<1>32. ASSUME QuerySource PROVE PlaceOK'
  BY <1>32, <1>0 DEF QuerySource, PlaceOK, FlowOK, Sealing, NoJob, HasRoom
<1>33. ASSUME QueryPage PROVE PlaceOK'
  BY <1>33, <1>0 DEF QueryPage, PlaceOK, FlowOK, Sealing, NoJob, HasRoom
<1>34. ASSUME QueryReturn PROVE PlaceOK'
  BY <1>34, <1>0 DEF QueryReturn, PlaceOK, FlowOK, Sealing, NoJob, HasRoom
<1> QED
  BY <1>1, <1>2, <1>3, <1>4, <1>5, <1>6, <1>7, <1>8, <1>9, <1>10, <1>11, <1>12, <1>13,
<1>14, <1>15, <1>16, <1>17, <1>18, <1>19, <1>20, <1>21, <1>22, <1>23, <1>24, <1>25,
<1>26, <1>27, <1>28, <1>29, <1>30, <1>31, <1>32, <1>33, <1>34 DEF Next, Write,
Query, Seal

LEMMA QueriesNext ==
    ASSUME TypeOK, FlowOK, PlaceOK, SweepOK, BuildOK, QueriesOK, Next
    PROVE  QueriesOK'
<1> USE TypeParts
<1>0. query \in Queries /\ NoQuery.phase = "none"
  BY NoQueryIs
<1>1. query'.phase # "none" => query'.day \in Day
  <2>1. CASE query' = query
    BY <2>1 DEF QueriesOK
  <2>2. CASE query' = NoQuery
    BY <1>0, <2>2
  <2>3. ASSUME NEW d \in Day, QueryStart(d) PROVE query'.day \in Day
    BY <2>3 DEF QueryStart, NoQuery
  <2>4. ASSUME NEW d, NEW phases, NEW ns, Hide(d, phases, ns)
        PROVE  query'.phase = query.phase /\ query'.day = query.day
    BY <1>0, <2>4 DEF Hide, Queries
  <2>5. ASSUME QueryMetric \/ QueryResolve \/ QuerySource \/ QueryPage
        PROVE  query.phase # "none" /\ query'.day = query.day
    BY <1>0, <2>5 DEF QueryMetric, QueryResolve, QuerySource, QueryPage, Queries
  <2>6. \/ query' = query \/ query' = NoQuery
        \/ \E d \in Day : QueryStart(d)
        \/ \E d, phases, ns : Hide(d, phases, ns)
        \/ QueryMetric \/ QueryResolve \/ QuerySource \/ QueryPage
    <3> DEFINE Calm == \/ query' = query \/ query' = NoQuery
                       \/ \E d, phases, ns : Hide(d, phases, ns)
    <3>1. ASSUME Open PROVE Calm
      BY <3>1 DEF Open
    <3>2. ASSUME ReplaySkip PROVE Calm
      BY <3>2 DEF ReplaySkip
    <3>3. ASSUME ReplayTake PROVE Calm
      BY <3>3 DEF ReplayTake
    <3>4. ASSUME ReplayRefused PROVE Calm
      BY <3>4 DEF ReplayRefused, LoseMemory
    <3>5. ASSUME ReplayDone PROVE Calm
      BY <3>5 DEF ReplayDone
    <3>6. ASSUME NEW d \in Day, BeginAdd(d) PROVE Calm
      BY <3>6 DEF BeginAdd
    <3>7. ASSUME OpenDay PROVE Calm
      BY <3>7 DEF OpenDay
    <3>8. ASSUME SealPage PROVE Calm
      BY <3>8 DEF SealPage, AppendFrame
    <3>9. ASSUME SealReset PROVE Calm
      BY <3>9 DEF SealReset
    <3>10. ASSUME WriteMetricFile PROVE Calm
      BY <3>10 DEF WriteMetricFile
    <3>11. ASSUME KeepSource PROVE Calm
      BY <3>11 DEF KeepSource
    <3>12. ASSUME DeleteSource PROVE Calm
      BY <3>12 DEF DeleteSource
    <3>13. ASSUME RemoveOldRaw PROVE Calm
      BY <3>13 DEF RemoveOldRaw
    <3>14. ASSUME RenameSource PROVE Calm
      BY <3>14 DEF RenameSource
    <3>15. ASSUME SweepDay PROVE Calm
      BY <3>15 DEF SweepDay
    <3>16. ASSUME RemoveFile PROVE Calm
      BY <3>16 DEF RemoveFile
    <3>17. ASSUME SweepDone PROVE Calm
      BY <3>17 DEF SweepDone
    <3>18. ASSUME LogSample PROVE Calm
      BY <3>18 DEF LogSample
    <3>19. ASSUME StoreSample PROVE Calm
      BY <3>19 DEF StoreSample
    <3>20. ASSUME NEW d \in Day, FlushOther(d) PROVE Calm
      BY <3>20 DEF FlushOther, AppendFrame
    <3>21. ASSUME NEW d \in Day, DrainPage(d) PROVE Calm
      BY <3>21 DEF DrainPage, AppendFrame
    <3>22. ASSUME NEW d \in Day, Recompact(d) PROVE Calm
      BY <3>22 DEF Recompact
    <3>23. ASSUME NEW d \in Day, Compact(d) PROVE Calm
      BY <3>23 DEF Compact
    <3>24. ASSUME OthersDone PROVE Calm
      BY <3>24 DEF OthersDone, AppendFrame
    <3>25. ASSUME FullReset PROVE Calm
      BY <3>25 DEF FullReset
    <3>26. ASSUME NEW op \in {"flush", "close"}, BeginDrain(op) PROVE Calm
      BY <3>26 DEF BeginDrain
    <3>27. ASSUME DrainDone PROVE Calm
      BY <3>27 DEF DrainDone, LoseMemory
    <3>28. ASSUME Crash PROVE Calm
      BY <3>28 DEF Crash, LoseMemory
    <3>29. ASSUME QueryReturn PROVE Calm
      BY <3>29 DEF QueryReturn
    <3> QED
      BY <3>1, <3>2, <3>3, <3>4, <3>5, <3>6, <3>7, <3>8, <3>9, <3>10, <3>11, <3>12,
    <3>13, <3>14, <3>15, <3>16, <3>17, <3>18, <3>19, <3>20, <3>21, <3>22, <3>23,
    <3>24, <3>25, <3>26, <3>27, <3>28, <3>29 DEF Next, Write, Query, Seal
  <2> QED
    BY <2>1, <2>2, <2>3, <2>4, <2>5, <2>6 DEF QueriesOK
<1> QED
  BY <1>1 DEF QueriesOK

LEMMA SweepNext ==
    ASSUME TypeOK, FlowOK, PlaceOK, SweepOK, BuildOK, QueriesOK, Next
    PROVE  SweepOK'
<1>1. CASE SweepDay
  BY <1>1 DEF SweepDay, Sweeping, SweepOK, Swept, Exists
<1>2. CASE RemoveFile
  <2> DEFINE d == CHOOSE d \in Swept(job.day) : \A e \in Swept(job.day) : d <= e
             k == CHOOSE k \in Kind : /\ Exists(d, k)
                                      /\ \A j \in Kind : Exists(d, j) =>
                                            \/ k = "data" \/ j = "raw" \/ j = k
  <2>1. /\ file' = [file EXCEPT ![d][k] = <<>>] /\ pc = "remove" /\ job' = job /\ setting' = setting
        /\ pc' = IF \E j \in Kind \ {k} : Exists(d, j) THEN "remove" ELSE "sweep"
    BY <1>2, Zenon DEF RemoveFile
  <2>2. d \in Swept(job.day) /\ d \in Day
    BY <2>1, Assumed, SweptIs DEF FlowOK, PlaceOK, SweepOK
  <2> HIDE DEF d, k
  <2>3. ASSUME NEW j \in Kind \ {k}, Exists(d, j) PROVE d \in Swept(job.day)'
    <3>1. file'[d][j] = file[d][j]
      BY <2>1, <2>2, TypeParts DEF DiskTypes
    <3> QED
      BY <2>1, <2>2, <2>3, <3>1 DEF Swept, Exists
  <2> QED
    BY <2>1, <2>3 DEF SweepOK
<1>3. CASE Query
  <2>1. UNCHANGED <<pc, file, job, setting>>
    BY <1>3 DEF Query, QueryStart, QueryMetric, QueryResolve, QuerySource, QueryPage, QueryReturn
  <2> QED
    BY <2>1 DEF SweepOK, Swept, Exists
<1>4. ASSUME ~SweepDay, ~RemoveFile, ~Query PROVE pc' # "remove"
  <2>1. ASSUME Open PROVE pc' # "remove"
    BY <2>1 DEF Open
  <2>2. ASSUME ReplaySkip PROVE pc' # "remove"
    BY <2>2 DEF ReplaySkip
  <2>3. ASSUME ReplayTake PROVE pc' # "remove"
    BY <2>3 DEF ReplayTake
  <2>4. ASSUME ReplayRefused PROVE pc' # "remove"
    BY <2>4 DEF ReplayRefused, LoseMemory
  <2>5. ASSUME ReplayDone PROVE pc' # "remove"
    BY <2>5 DEF ReplayDone
  <2>6. ASSUME NEW d \in Day, BeginAdd(d) PROVE pc' # "remove"
    BY <2>6 DEF BeginAdd
  <2>7. ASSUME OpenDay PROVE pc' # "remove"
    BY <2>7 DEF OpenDay
  <2>8. ASSUME SealPage PROVE pc' # "remove"
    BY <2>8 DEF SealPage
  <2>9. ASSUME SealReset PROVE pc' # "remove"
    BY <2>9 DEF SealReset
  <2>10. ASSUME WriteMetricFile PROVE pc' # "remove"
    BY <2>10 DEF WriteMetricFile
  <2>11. ASSUME KeepSource PROVE pc' # "remove"
    BY <2>11, <1>4 DEF KeepSource, AfterBuild, Return
  <2>12. ASSUME DeleteSource PROVE pc' # "remove"
    BY <2>12, <1>4 DEF DeleteSource, AfterBuild, Return
  <2>13. ASSUME RemoveOldRaw PROVE pc' # "remove"
    BY <2>13 DEF RemoveOldRaw
  <2>14. ASSUME RenameSource PROVE pc' # "remove"
    BY <2>14, <1>4 DEF RenameSource, AfterBuild, Return
  <2>15. ASSUME SweepDone PROVE pc' # "remove"
    BY <2>15 DEF SweepDone
  <2>16. ASSUME LogSample PROVE pc' # "remove"
    BY <2>16 DEF LogSample
  <2>17. ASSUME StoreSample PROVE pc' # "remove"
    BY <2>17 DEF StoreSample
  <2>18. ASSUME NEW d \in Day, FlushOther(d) PROVE pc' # "remove"
    BY <2>18 DEF FlushOther
  <2>19. ASSUME NEW d \in Day, DrainPage(d) PROVE pc' # "remove"
    BY <2>19 DEF DrainPage
  <2>20. ASSUME NEW d \in Day, Recompact(d) PROVE pc' # "remove"
    BY <2>20 DEF Recompact
  <2>21. ASSUME NEW d \in Day, Compact(d) PROVE pc' # "remove"
    BY <2>21 DEF Compact
  <2>22. ASSUME OthersDone PROVE pc' # "remove"
    BY <2>22, <1>4 DEF OthersDone, Return
  <2>23. ASSUME FullReset PROVE pc' # "remove"
    BY <2>23, <1>4 DEF FullReset, Return
  <2>24. ASSUME NEW op \in {"flush", "close"}, BeginDrain(op) PROVE pc' # "remove"
    BY <2>24 DEF BeginDrain
  <2>25. ASSUME DrainDone PROVE pc' # "remove"
    BY <2>25, <1>4 DEF DrainDone, Return, LoseMemory
  <2>26. ASSUME Crash PROVE pc' # "remove"
    BY <2>26 DEF Crash, LoseMemory
  <2> QED
    BY <2>1, <2>2, <2>3, <2>4, <2>5, <2>6, <2>7, <2>8, <2>9, <2>10, <2>11, <2>12, <2>13,
  <2>14, <2>15, <2>16, <2>17, <2>18, <2>19, <2>20, <2>21, <2>22, <2>23, <2>24,
  <2>25, <2>26, <1>4 DEF Next, Write, Seal
<1> QED
  BY <1>1, <1>2, <1>3, <1>4 DEF SweepOK

LEMMA BuildNext ==
    ASSUME TypeOK, FlowOK, PlaceOK, SweepOK, BuildOK, QueriesOK, Next
    PROVE  BuildOK'
<1> USE TypeParts
<1>1. CASE SealReset
  BY <1>1 DEF SealReset, BuildOK, Building, Exists, Source
<1>2. CASE WriteMetricFile
  <2> DEFINE s == job.seal
             k == Source(s)
  <2>1. /\ s \in Day /\ pc = "build" /\ pc' = "source" /\ "metric" \in Kind /\ k \in {"data", "raw"}
        /\ job' = [job EXCEPT !.from = k]
        /\ file' = [file EXCEPT ![s]["metric"] = Columns(file[s][k])]
    BY <1>2 DEF WriteMetricFile, PlaceOK, Sealing, Source, Kind
  <2>2. job'.seal = s /\ job'.from = k
    <3>1. job \in Jobs
      BY DEF PlaceTypes
    <3> HIDE DEF k
    <3> QED
      BY <2>1, <3>1 DEF Jobs
  <2>3. \A j \in {"data", "raw"} : file'[s][j] = file[s][j]
    BY <2>1 DEF DiskTypes, Kind
  <2>4. Exists(s, k)
    BY <2>1 DEF BuildOK
  <2>5. file'[s]["metric"] # <<>>
    BY <2>1, FileTypes DEF DiskTypes, Kind
  <2> QED
    BY <2>1, <2>2, <2>3, <2>4, <2>5 DEF BuildOK, Exists, Source
<1>3. CASE RemoveOldRaw
  <2>1. /\ job.seal \in Day /\ pc = "source" /\ pc' = "rename" /\ job' = job /\ setting' = setting
        /\ setting.raw = "rename" /\ job.from = "data"
        /\ file' = [file EXCEPT ![job.seal]["raw"] = <<>>]
    BY <1>3 DEF RemoveOldRaw, PlaceOK, Sealing
  <2>2. \A j \in {"data", "metric"} : file'[job.seal][j] = file[job.seal][j]
    BY <2>1 DEF DiskTypes, Kind
  <2>3. file'[job.seal]["raw"] = <<>>
    BY <2>1 DEF DiskTypes, Kind
  <2> QED
    BY <2>1, <2>2, <2>3 DEF BuildOK, Exists, Source
<1>4. ASSUME NEW d \in Day, Compact(d) PROVE BuildOK'
  <2>1. pc' = "build" /\ job'.seal = d /\ file' = file /\ Exists(d, Source(d))
    BY <1>4 DEF Compact, NoJob
  <2> QED
    BY <2>1 DEF BuildOK, Exists, Source
<1>5. CASE Query
  <2>1. UNCHANGED <<pc, file, job, setting>>
    BY <1>5 DEF Query, QueryStart, QueryMetric, QueryResolve, QuerySource, QueryPage, QueryReturn
  <2> QED
    BY <2>1 DEF BuildOK, Exists, Source
<1>6. ASSUME ~SealReset, ~WriteMetricFile, ~RemoveOldRaw, ~Query, ~\E d \in Day : Compact(d)
      PROVE  pc' \notin Building
  <2>1. ASSUME Open PROVE pc' \notin Building
    BY <2>1 DEF Open, Building
  <2>2. ASSUME ReplaySkip PROVE pc' \notin Building
    BY <2>2 DEF ReplaySkip, Building
  <2>3. ASSUME ReplayTake PROVE pc' \notin Building
    BY <2>3 DEF ReplayTake, Building
  <2>4. ASSUME ReplayRefused PROVE pc' \notin Building
    BY <2>4 DEF ReplayRefused, LoseMemory, Building
  <2>5. ASSUME ReplayDone PROVE pc' \notin Building
    BY <2>5 DEF ReplayDone, Building
  <2>6. ASSUME NEW d \in Day, BeginAdd(d) PROVE pc' \notin Building
    BY <2>6 DEF BeginAdd, Building
  <2>7. ASSUME OpenDay PROVE pc' \notin Building
    BY <2>7 DEF OpenDay, Building
  <2>8. ASSUME SealPage PROVE pc' \notin Building
    BY <2>8 DEF SealPage, Building
  <2>9. ASSUME KeepSource PROVE pc' \notin Building
    BY <2>9 DEF KeepSource, AfterBuild, Return, Building
  <2>10. ASSUME DeleteSource PROVE pc' \notin Building
    BY <2>10 DEF DeleteSource, AfterBuild, Return, Building
  <2>11. ASSUME RenameSource PROVE pc' \notin Building
    BY <2>11 DEF RenameSource, AfterBuild, Return, Building
  <2>12. ASSUME SweepDay PROVE pc' \notin Building
    BY <2>12 DEF SweepDay, Building
  <2>13. ASSUME RemoveFile PROVE pc' \notin Building
    BY <2>13 DEF RemoveFile, Building
  <2>14. ASSUME SweepDone PROVE pc' \notin Building
    BY <2>14 DEF SweepDone, Building
  <2>15. ASSUME LogSample PROVE pc' \notin Building
    BY <2>15 DEF LogSample, Building
  <2>16. ASSUME StoreSample PROVE pc' \notin Building
    BY <2>16 DEF StoreSample, Building
  <2>17. ASSUME NEW d \in Day, FlushOther(d) PROVE pc' \notin Building
    BY <2>17 DEF FlushOther, Building
  <2>18. ASSUME NEW d \in Day, DrainPage(d) PROVE pc' \notin Building
    BY <2>18 DEF DrainPage, Building
  <2>19. ASSUME NEW d \in Day, Recompact(d) PROVE pc' \notin Building
    BY <2>19 DEF Recompact, Building
  <2>20. ASSUME OthersDone PROVE pc' \notin Building
    BY <2>20 DEF OthersDone, Return, Building
  <2>21. ASSUME FullReset PROVE pc' \notin Building
    BY <2>21 DEF FullReset, Return, Building
  <2>22. ASSUME NEW op \in {"flush", "close"}, BeginDrain(op) PROVE pc' \notin Building
    BY <2>22 DEF BeginDrain, Building
  <2>23. ASSUME DrainDone PROVE pc' \notin Building
    BY <2>23 DEF DrainDone, LoseMemory, Return, Building
  <2>24. ASSUME Crash PROVE pc' \notin Building
    BY <2>24 DEF Crash, LoseMemory, Building
  <2> QED
    BY <1>6, <2>1, <2>2, <2>3, <2>4, <2>5, <2>6, <2>7, <2>8, <2>9, <2>10, <2>11, <2>12, <2>13,
  <2>14, <2>15, <2>16, <2>17, <2>18, <2>19, <2>20, <2>21, <2>22, <2>23, <2>24 DEF
  Next, Write, Query, Seal
<1> QED
  BY <1>1, <1>2, <1>3, <1>4, <1>5, <1>6 DEF BuildOK, Building

(***************************************************************************)
(* Types, and what holds where the writer is, together.                    *)
(***************************************************************************)
Base == TypeOK /\ FlowOK /\ PlaceOK /\ SweepOK /\ BuildOK /\ QueriesOK

LEMMA BaseInit == Init => Base
<1> SUFFICES ASSUME Init PROVE Base
  OBVIOUS
<1>1. <<>> \in Seq(Nat) /\ <<>> \in Seq(Sample) /\ <<>> \in Frames
  BY DEF Frames
<1>2. /\ \A d \in Day : NoPages[d] = <<>>
      /\ NoPages \in [Day -> Seq(Nat)]
      /\ NoFiles \in [Day -> [Kind -> Frames]]
  BY <1>1 DEF NoPages, NoFiles
<1>3. Cardinality({}) <= MaxActiveDays
  BY FS_EmptySet, Assumed
<1> HIDE DEF NoPages, NoFiles
<1>4. DaysTypes
  <2>1. open = {} /\ sealed = {} /\ page = NoPages
    BY DEF Init
  <2>2. page \in [Day -> Seq(Nat)] /\ \A d \in Day : page[d] = <<>>
    BY <1>2, <2>1
  <2> QED
    BY <1>3, <2>1, <2>2 DEF DaysTypes
<1>5. DiskTypes
  BY <1>1, <1>2 DEF Init, DiskTypes
<1>6. PlaceTypes /\ query \in Queries /\ BookTypes
  <2>1. PlaceTypes
    BY <1>1, JobTypes DEF Init, PlaceTypes
  <2>2. query \in Queries
    BY QueryTypes DEF Init
  <2>3. BookTypes
    BY DEF Init, BookTypes
  <2> QED
    BY <2>1, <2>2, <2>3
<1>7. TypeOK
  BY <1>4, <1>5, <1>6, TypeParts
<1>8. FlowOK
  BY DEF Init, FlowOK, NoJob, Replaying, Building
<1>9. PlaceOK
  BY DEF Init, PlaceOK, NoJob, Sealing
<1>10. SweepOK /\ BuildOK /\ QueriesOK
  BY NoQueryIs DEF Init, SweepOK, BuildOK, QueriesOK
<1> QED
  BY <1>7, <1>8, <1>9, <1>10 DEF Base

LEMMA BaseNext == Base /\ [Next]_vars => Base'
<1>1. ASSUME Base, Next PROVE Base'
  <2>1. TypeOK'
    <3>1. DiskTypes' /\ DaysTypes' /\ PlaceTypes' /\ query' \in Queries /\ BookTypes'
      BY <1>1, DiskNext, DaysNext, PlaceNext, QueryNext, BookNext DEF Base
    <3> QED
      BY <3>1 DEF TypeOK, DiskTypes, DaysTypes, PlaceTypes, BookTypes, Queries, Jobs, Frames
  <2> QED
    BY <1>1, <2>1, FlowNext, PlacesNext, SweepNext, BuildNext, QueriesNext DEF Base
<1>2. ASSUME Base, UNCHANGED vars PROVE Base'
  <2>1. UNCHANGED <<file, archive, wal, open, page, sealed, pc, job, replay, query, setting,
                    calls, acked, newest, late, crashes, queries, repacks>>
    BY <1>2
  <2>2. TypeOK'
    BY <1>2, <2>1 DEF Base, TypeOK
  <2>3. FlowOK' /\ QueriesOK'
    BY <1>2, <2>1 DEF Base, FlowOK, QueriesOK, Replaying
  <2>4. PlaceOK'
    BY <1>2, <2>1 DEF Base, PlaceOK, HasRoom
  <2>5. SweepOK' /\ BuildOK'
    BY <1>2, <2>1 DEF Base, SweepOK, BuildOK, Swept, Exists, Source
  <2> QED
    BY <2>2, <2>3, <2>4, <2>5 DEF Base
<1> QED
  BY <1>1, <1>2

\* The files, pages, jobs and queries have the types the code gives them, and a
\* day that is sealed has no page and is not open.
THEOREM TypeCorrect == Spec => []TypeOK
<1>1. Spec => []Base
  BY BaseInit, BaseNext, PTL DEF Spec
<1>2. Base => TypeOK
  BY DEF Base
<1> QED
  BY <1>1, <1>2, PTL

(***************************************************************************)
(* What the files hold, and how a step changes it.                         *)
(***************************************************************************)
held == [d \in Day |-> [k \in Kind |-> Held(file[d][k])]]

\* A file that exists holds some sample.
SolidOK == \A d \in Day, k \in Kind : Exists(d, k) => held[d][k] # <<>>

LEMMA Kinds == Kind = {"data", "metric", "raw"} /\ {"data", "metric", "raw"} \subseteq Kind
  BY DEF Kind

LEMMA HeldIs ==
    ASSUME TypeOK, SolidOK
    PROVE  /\ held \in [Day -> [Kind -> Seq(Nat)]]
           /\ \A d \in Day, k \in Kind : /\ held[d][k] = Held(file[d][k])
                                         /\ Exists(d, k) <=> held[d][k] # <<>>
                                         /\ Members(d, k) = Range(held[d][k])
<1>1. \A d \in Day, k \in Kind : Held(file[d][k]) \in Seq(Nat)
  BY FileTypes
<1>2. held \in [Day -> [Kind -> Seq(Nat)]] /\ \A d \in Day, k \in Kind : held[d][k] = Held(file[d][k])
  BY <1>1 DEF held
<1>3. ASSUME NEW d \in Day, NEW k \in Kind PROVE Exists(d, k) <=> held[d][k] # <<>>
  <2>1. ~Exists(d, k) => held[d][k] = <<>>
    BY <1>2, HeldEmpty DEF Exists
  <2> QED
    BY <2>1 DEF SolidOK
<1> QED
  BY <1>2, <1>3 DEF Members

\* One file changed.
LEMMA FileSet ==
    ASSUME TypeOK, SolidOK, NEW d \in Day, NEW k \in Kind, NEW fr \in Frames,
           fr = <<>> \/ Held(fr) # <<>>, file' = [file EXCEPT ![d][k] = fr]
    PROVE  SolidOK' /\ held' = [held EXCEPT ![d][k] = Held(fr)]
<1>1. file \in [Day -> [Kind -> Frames]]
  BY TypeParts DEF DiskTypes
<1>2. \A e \in Day, j \in Kind : file'[e][j] = IF e = d /\ j = k THEN fr ELSE file[e][j]
  BY <1>1
<1>3. held' = [e \in Day |-> [j \in Kind |-> Held(file'[e][j])]]
  BY DEF held
<1>4. \A e \in Day, j \in Kind : held[e][j] = Held(file[e][j])
  BY HeldIs
<1>5. \A e \in Day, j \in Kind : held'[e][j] = IF e = d /\ j = k THEN Held(fr) ELSE held[e][j]
  BY <1>2, <1>3, <1>4
<1>6. held' = [held EXCEPT ![d][k] = Held(fr)]
  <2> DEFINE h == [held EXCEPT ![d][k] = Held(fr)]
  <2>1. held \in [Day -> [Kind -> Seq(Nat)]] /\ Held(fr) \in Seq(Nat)
    BY HeldIs, HeldTypes
  <2>2. h \in [Day -> [Kind -> Seq(Nat)]] /\ \A e \in Day, j \in Kind : h[e][j] = IF e = d /\ j = k THEN Held(fr) ELSE held[e][j]
    BY <2>1
  <2>3. held' \in [Day -> [Kind -> Seq(Nat)]]
    <3>1. \A e \in Day, j \in Kind : held'[e][j] \in Seq(Nat)
      BY <1>5, <2>1
    <3> QED
      BY <1>3, <3>1
  <2> HIDE DEF h
  <2>4. \A e \in Day : held'[e] = h[e]
    BY <1>5, <2>2, <2>3
  <2> QED
    BY <2>2, <2>3, <2>4 DEF h
<1>7. SolidOK'
  BY <1>2, <1>5 DEF SolidOK, Exists
<1> QED
  BY <1>6, <1>7

\* One entry of what is held changed.
Sets(d, k, s) ==
    /\ held' = [held EXCEPT ![d][k] = s]
    /\ \A e \in Day, j \in Kind : held'[e][j] = IF e = d /\ j = k THEN s ELSE held[e][j]

LEMMA SetsIs ==
    ASSUME TypeOK, SolidOK, NEW d \in Day, NEW k \in Kind, NEW s, held' = [held EXCEPT ![d][k] = s]
    PROVE  Sets(d, k, s)
  BY HeldIs DEF Sets

LEMMA Removes ==
    ASSUME TypeOK, SolidOK, NEW d \in Day, NEW k \in Kind, file' = [file EXCEPT ![d][k] = <<>>]
    PROVE  SolidOK' /\ Sets(d, k, <<>>)
<1>1. <<>> \in Frames
  BY DEF Frames
<1> QED
  BY <1>1, FileSet, HeldEmpty, SetsIs

LEMMA Appends ==
    ASSUME TypeOK, SolidOK, NEW d \in Day, page[d] # <<>>, AppendFrame(d)
    PROVE  SolidOK' /\ Sets(d, "data", held[d]["data"] \o page[d])
<1>1. /\ file[d]["data"] \in Frames /\ page[d] \in Seq(Nat) /\ "data" \in Kind
      /\ held[d]["data"] = Held(file[d]["data"]) /\ held[d]["data"] \in Seq(Nat)
  BY FileTypes, HeldIs, Kinds
<1> DEFINE fr == Append(file[d]["data"], page[d])
<1>2. fr \in Frames /\ Held(fr) = held[d]["data"] \o page[d]
  BY <1>1, HeldAppend
<1>3. Held(fr) # <<>>
  <2>1. Range(Held(fr)) = Range(held[d]["data"]) \cup Range(page[d]) /\ Range(page[d]) # {}
    BY <1>1, <1>2, RangeJoined, RangeOf
  <2> QED
    BY <2>1, RangeEmpty
<1>4. file' = [file EXCEPT ![d]["data"] = fr]
  BY DEF AppendFrame
<1> HIDE DEF fr
<1> QED
  BY <1>1, <1>2, <1>3, <1>4, FileSet, SetsIs

LEMMA Writes ==
    ASSUME Base, SolidOK, WriteMetricFile
    PROVE  \E s \in Day, k \in {"data", "raw"} :
              /\ s = job.seal /\ k = Source(s) /\ page[s] = <<>> /\ held[s][k] # <<>>
              /\ SolidOK' /\ Sets(s, "metric", held[s][k])
<1>1. \E s \in Day : s = job.seal
  BY DEF WriteMetricFile, Base, PlaceOK, Sealing
<1>2. PICK s \in Day : s = job.seal
  BY <1>1, Zenon
<1>3. \E k \in {"data", "raw"} : k = Source(s)
  BY DEF Source
<1>4. PICK k \in {"data", "raw"} : k = Source(s)
  BY <1>3, Zenon
<1>5. /\ page[s] = <<>> /\ Exists(s, k)
      /\ file' = [file EXCEPT ![s]["metric"] = Columns(file[s][k])]
  BY <1>2, <1>4 DEF WriteMetricFile, Base, PlaceOK, Sealing, BuildOK
<1>6. "metric" \in Kind /\ k \in Kind /\ TypeOK
  BY Kinds DEF Base
<1>7. /\ held[s][k] = Held(file[s][k]) /\ held[s][k] # <<>> /\ held[s][k] \in Seq(Nat)
      /\ Columns(file[s][k]) \in Frames
  BY <1>5, <1>6, HeldIs, FileTypes
<1> DEFINE fr == Columns(file[s][k])
<1>8. Held(fr) = held[s][k] /\ fr \in Frames /\ file' = [file EXCEPT ![s]["metric"] = fr]
  BY <1>5, <1>7, HeldOne DEF Columns
<1> HIDE DEF fr
<1>9. fr = <<>> \/ Held(fr) # <<>>
  BY <1>7, <1>8
<1>10. SolidOK' /\ held' = [held EXCEPT ![s]["metric"] = Held(fr)]
  BY <1>6, <1>8, <1>9, FileSet, Zenon
<1>11. held' = [held EXCEPT ![s]["metric"] = held[s][k]]
  BY <1>8, <1>10, Zenon
<1>12. Sets(s, "metric", held[s][k])
  BY <1>6, <1>11, SetsIs, Zenon
<1> QED
  BY <1>2, <1>4, <1>5, <1>7, <1>10, <1>12, Zenon

LEMMA Renames ==
    ASSUME TypeOK, SolidOK, NEW s \in Day,
           file' = [file EXCEPT ![s]["raw"] = file[s]["data"], ![s]["data"] = <<>>]
    PROVE  /\ SolidOK'
           /\ held'[s]["raw"] = held[s]["data"] /\ held'[s]["data"] = <<>>
           /\ held'[s]["metric"] = held[s]["metric"]
           /\ \A e \in Day \ {s}, j \in Kind : held'[e][j] = held[e][j]
<1>1. file \in [Day -> [Kind -> Frames]]
  BY TypeParts DEF DiskTypes
<1>2. /\ file'[s]["raw"] = file[s]["data"] /\ file'[s]["data"] = <<>>
      /\ file'[s]["metric"] = file[s]["metric"]
      /\ \A e \in Day \ {s}, j \in Kind : file'[e][j] = file[e][j]
  BY <1>1, Kinds
<1>3. held' = [e \in Day |-> [j \in Kind |-> Held(file'[e][j])]]
  BY DEF held
<1>4. \A e \in Day, j \in Kind : held[e][j] = Held(file[e][j])
  BY HeldIs
<1>5. \A e \in Day, j \in Kind : held'[e][j] = Held(file'[e][j])
  BY <1>3
<1>6. /\ held'[s]["raw"] = held[s]["data"] /\ held'[s]["data"] = <<>>
      /\ held'[s]["metric"] = held[s]["metric"]
      /\ \A e \in Day \ {s}, j \in Kind : held'[e][j] = held[e][j]
  <2>1. {"data", "metric", "raw"} \subseteq Kind
    BY Kinds
  <2>2. /\ held'[s]["raw"] = Held(file'[s]["raw"]) /\ held'[s]["data"] = Held(file'[s]["data"])
        /\ held'[s]["metric"] = Held(file'[s]["metric"])
    BY <1>5, <2>1
  <2>3. /\ held[s]["data"] = Held(file[s]["data"]) /\ held[s]["metric"] = Held(file[s]["metric"])
    BY <1>4, <2>1
  <2>4. ASSUME NEW e \in Day \ {s}, NEW j \in Kind PROVE held'[e][j] = held[e][j]
    <3>1. file'[e][j] = file[e][j]
      BY <1>2
    <3>2. held'[e][j] = Held(file'[e][j]) /\ held[e][j] = Held(file[e][j])
      BY <1>4, <1>5
    <3> QED
      BY <3>1, <3>2
  <2> QED
    BY <1>2, <2>2, <2>3, <2>4, HeldEmpty
<1>7. ASSUME NEW d \in Day, NEW k \in Kind, Exists(d, k)' PROVE held'[d][k] # <<>>
  <2>1. CASE d # s
    <3>1. file[d][k] # <<>>
      BY <1>2, <1>7, <2>1 DEF Exists
    <3> QED
      BY <1>6, <2>1, <3>1 DEF SolidOK, Exists
  <2>2. CASE d = s
    <3>1. k # "data"
      BY <1>2, <1>7, <2>2 DEF Exists
    <3>2. k = "raw" \/ k = "metric"
      BY <3>1, Kinds
    <3> QED
      BY <1>2, <1>6, <1>7, <2>2, <3>2, Kinds DEF SolidOK, Exists
  <2> QED
    BY <2>1, <2>2
<1>8. SolidOK'
  BY <1>7 DEF SolidOK
<1> QED
  BY <1>6, <1>8

LEMMA Repacks ==
    ASSUME TypeOK, SolidOK, NEW d \in Day, Recompact(d)
    PROVE  SolidOK' /\ held' = held
<1>1. "data" \in Kind /\ file[d]["data"] \in Frames /\ Exists(d, "data")
  BY FileTypes, Kinds DEF Recompact
<1> DEFINE fr == Repacked(file[d]["data"])
<1>2. fr \in Frames /\ Held(fr) = held[d]["data"]
  BY <1>1, PackedHolds, HeldIs DEF Repacked
<1>3. Held(fr) # <<>> /\ file' = [file EXCEPT ![d]["data"] = fr]
  BY <1>1, <1>2, HeldIs DEF Recompact
<1> HIDE DEF fr
<1>4. SolidOK' /\ held' = [held EXCEPT ![d]["data"] = held[d]["data"]]
  <2>1. SolidOK' /\ held' = [held EXCEPT ![d]["data"] = Held(fr)]
    BY <1>1, <1>2, <1>3, FileSet, Zenon
  <2> QED
    BY <1>2, <2>1, Zenon
<1>5. [held EXCEPT ![d]["data"] = held[d]["data"]] = held
  BY HeldIs, <1>1
<1> QED
  BY <1>4, <1>5

LEMMA FilesStay ==
    ASSUME SolidOK, UNCHANGED file
    PROVE  SolidOK' /\ held' = held
<1>1. held' = held
  BY DEF held
<1>2. \A d, k : Exists(d, k)' <=> Exists(d, k)
  BY DEF Exists
<1> QED
  BY <1>1, <1>2 DEF SolidOK

(***************************************************************************)
(* A day that got no sample after it was built or archived: its files say  *)
(* the same, and what leaves them is past and archived.                    *)
(***************************************************************************)
Src(d)   == IF held[d]["data"] # <<>> THEN "data" ELSE "raw"
Kept(d)  == Range(held[d]["data"]) \cup Range(held[d]["metric"]) \cup Range(held[d]["raw"])
SweptDay == CHOOSE d \in Swept(job.day) : \A e \in Swept(job.day) : d <= e

DayOK(d) ==
    /\ d \notin late =>
          /\ held[d]["metric"] # <<>> =>
                /\ page[d] = <<>>
                /\ held[d][Src(d)] # <<>> => held[d]["metric"] = held[d][Src(d)]
          /\ held[d]["raw"] # <<>> => page[d] = <<>> /\ held[d]["data"] = <<>>
          /\ Archived(d) => page[d] = <<>> /\ Kept(d) \subseteq InArchive(d)
    /\ setting.raw = "keep" =>
          /\ held[d]["raw"] = <<>>
          /\ held[d]["metric"] # <<>> /\ ~Expired(d) => held[d]["data"] # <<>>

FilesOK == SolidOK /\ \A d \in Day : DayOK(d)

\* A metric file just built says what its source says; a day whose files are
\* removed is in the bucket.
BuiltOK ==
    /\ pc = "source" => held[job.seal]["metric"] = held[job.seal][job.from]
    /\ pc = "rename" => held[job.seal]["metric"] = held[job.seal]["data"]
    /\ pc = "remove" /\ setting.retention = "archive" => Archived(SweptDay)

LEMMA HeldHere ==
    ASSUME TypeOK, SolidOK, NEW d \in Day
    PROVE  /\ Source(d) = Src(d) /\ Src(d) \in {"data", "raw"} /\ Src(d) \in Kind
           /\ InFiles(d) = Kept(d)
           /\ \A k \in {"data", "metric", "raw"} : held[d][k] \in Seq(Nat)
           /\ \A k \in {"data", "metric", "raw"} : Exists(d, k) <=> held[d][k] # <<>>
<1>1. /\ \A k \in {"data", "metric", "raw"} : held[d][k] \in Seq(Nat)
      /\ \A k \in {"data", "metric", "raw"} : Exists(d, k) <=> held[d][k] # <<>>
      /\ \A k \in {"data", "metric", "raw"} : Members(d, k) = Range(held[d][k])
  BY HeldIs, Kinds
<1>2. Source(d) = Src(d) /\ Src(d) \in {"data", "raw"} /\ Src(d) \in Kind
  BY <1>1, Kinds DEF Source, Src
<1>3. InFiles(d) = Kept(d)
  <2>1. InFiles(d) = Members(d, "data") \cup Members(d, "metric") \cup Members(d, "raw")
    BY DEF InFiles, Kind
  <2> QED
    BY <1>1, <2>1 DEF Kept
<1> QED
  BY <1>1, <1>2, <1>3

\* The settings stay, and time goes on.
LEMMA Steady ==
    ASSUME Base, Next
    PROVE  /\ setting' = setting /\ newest' >= newest
           /\ \A d \in Day : Expired(d) => Expired(d)'
<1>1. setting' = setting
  BY DEF Next, Write, Query, Seal, Open, ReplaySkip, ReplayTake, ReplayRefused,
       ReplayDone, BeginAdd, OpenDay, SealPage, SealReset, WriteMetricFile, KeepSource,
       DeleteSource, RemoveOldRaw, RenameSource, SweepDay, RemoveFile, SweepDone,
       LogSample, StoreSample, FlushOther, DrainPage, Recompact, Compact, OthersDone,
       FullReset, BeginDrain, DrainDone, Crash, QueryStart, QueryMetric, QueryResolve,
       QuerySource, QueryPage, QueryReturn, LoseMemory
<1>2. newest \in Nat /\ newest' \in Nat
  <2>1. BookTypes /\ BookTypes'
    BY TypeParts, BookNext DEF Base
  <2>2. newest \in Day \cup {0} /\ newest' \in Day \cup {0}
    BY <2>1 DEF BookTypes
  <2> QED
    BY <2>2, Assumed
<1>3. newest' >= newest
  <2>1. newest' = newest \/ \E d \in Day : BeginAdd(d)
    BY DEF Next, Write, Query, Seal, Open, ReplaySkip, ReplayTake, ReplayRefused, ReplayDone,
       OpenDay, SealPage, SealReset, WriteMetricFile, KeepSource, DeleteSource,
       RemoveOldRaw, RenameSource, SweepDay, RemoveFile, SweepDone, LogSample,
       StoreSample, FlushOther, DrainPage, Recompact, Compact, OthersDone, FullReset,
       BeginDrain, DrainDone, Crash, QueryStart, QueryMetric, QueryResolve, QuerySource,
       QueryPage, QueryReturn, LoseMemory
  <2>2. ASSUME NEW d \in Day, BeginAdd(d) PROVE newest' >= newest
    BY <1>2, <2>2, Assumed DEF BeginAdd
  <2> QED
    BY <1>2, <2>1, <2>2
<1>4. ASSUME NEW d \in Day, Expired(d) PROVE Expired(d)'
  <2>1. d \in Nat /\ RetentionDays \in Nat
    BY Assumed
  <2>2. setting.retention # "keep" /\ newest - d > RetentionDays
    BY <1>4 DEF Expired
  <2>3. setting'.retention # "keep" /\ newest' - d > RetentionDays
    <3>1. setting'.retention # "keep"
      BY <1>1, <2>2
    <3>2. newest' - d > RetentionDays
      <4>1. \A x, y, z, r \in Nat : x - z > r /\ y >= x => y - z > r
        OBVIOUS
      <4>2. newest - d > RetentionDays
        BY <2>2
      <4> QED
        BY <1>2, <1>3, <2>1, <4>1, <4>2
    <3> QED
      BY <3>1, <3>2
  <2> QED
    BY <2>3 DEF Expired
<1> QED
  BY <1>1, <1>3, <1>4

LEMMA DaySame ==
    ASSUME Base, Next, NEW d \in Day, DayOK(d),
           \A k \in Kind : held'[d][k] = held[d][k],
           d \notin late' => d \notin late,
           archive'.files = archive.files,
           page'[d] = page[d] \/ page'[d] = <<>>
    PROVE  DayOK(d)'
<1>1. setting' = setting /\ (Expired(d) => Expired(d)')
  BY Steady
<1>2. Archived(d)' <=> Archived(d)
  BY DEF Archived
<1>3. InArchive(d)' = InArchive(d)
  BY DEF InArchive
<1>4. held'[d]["data"] = held[d]["data"] /\ held'[d]["metric"] = held[d]["metric"] /\ held'[d]["raw"] = held[d]["raw"]
  BY Kinds
<1>5. Src(d)' = Src(d) /\ held'[d][Src(d)] = held[d][Src(d)]
  BY <1>4 DEF Src
<1>6. Kept(d)' = Kept(d)
  BY <1>4 DEF Kept
<1> QED
  BY <1>1, <1>2, <1>3, <1>4, <1>5, <1>6 DEF DayOK

\* The day a sweep takes next: past, and in the bucket when it is archived.
LEMMA SweepsDay ==
    ASSUME Base, SolidOK, SweepDay
    PROVE  \E d \in Day :
              /\ d = SweptDay /\ d \in Swept(job.day)
              /\ held' = held /\ SolidOK'
              /\ late' = IF setting.retention = "archive" /\ page[d] # <<>> THEN late \cup {d} ELSE late
              /\ setting.retention # "archive" => archive'.files = archive.files
              /\ setting.retention = "archive" =>
                    /\ Archived(d)'
                    /\ ~Archived(d) => Kept(d) \subseteq InArchive(d)'
                    /\ InArchive(d) \subseteq InArchive(d)'
              /\ \A e \in Day \ {d} : (Archived(e)' <=> Archived(e)) /\ InArchive(e)' = InArchive(e)
<1>0. TypeOK /\ pc = "sweep" /\ Swept(job.day) # {} /\ job.day \in Nat
  BY Assumed DEF Base, FlowOK, PlaceOK, SweepDay, Sweeping
<1>1. SweptDay \in Swept(job.day) /\ SweptDay \in Day
  BY <1>0, SweptIs DEF SweptDay
<1>2. PICK d \in Day : d = SweptDay
  BY <1>1, Zenon
<1> DEFINE new == {k \in Kind : Exists(d, k) /\ \A f \in archive.files : <<f.day, f.kind>> # <<d, k>>}
           rec(k) == [day |-> d, kind |-> k, frames |-> file[d][k]]
           more == {rec(k) : k \in new}
<1>3. /\ archive' = IF setting.retention = "archive"
                    THEN [archive EXCEPT !.files = @ \cup more] ELSE archive
      /\ late' = IF setting.retention = "archive" /\ page[d] # <<>> THEN late \cup {d} ELSE late
      /\ UNCHANGED file
  BY <1>2, Zenon DEF SweepDay, SweptDay
<1>4. setting.retention = "archive" => archive'.files = archive.files \cup more
  <2>1. archive = [files |-> archive.files, broken |-> archive.broken]
    BY <1>0 DEF TypeOK
  <2> HIDE DEF more
  <2> QED
    BY <1>3, <2>1
<1>5. held' = held /\ SolidOK'
  BY <1>3, FilesStay
<1>6. \A f \in more : f.day = d
  OBVIOUS
<1>7. \A k \in new : rec(k) \in more /\ rec(k).day = d /\ rec(k).frames = file[d][k]
  OBVIOUS
<1>8. \E k \in Kind : Exists(d, k)
  BY <1>1, <1>2 DEF Swept
<1>9. ASSUME ~Archived(d), NEW k \in Kind, Exists(d, k) PROVE k \in new
  BY <1>9 DEF Archived
<1> HIDE DEF more, new, rec
<1>10. ASSUME setting.retention = "archive" PROVE Archived(d)'
  <2>1. CASE Archived(d)
    BY <1>4, <1>10, <2>1 DEF Archived
  <2>2. CASE ~Archived(d)
    <3>1. PICK k \in new : TRUE
      BY <1>8, <1>9, <2>2
    <3>2. rec(k) \in archive'.files /\ rec(k).day = d
      BY <1>4, <1>7, <1>10, <3>1
    <3> QED
      BY <3>2 DEF Archived
  <2> QED
    BY <2>1, <2>2
<1>11. ASSUME setting.retention = "archive" PROVE InArchive(d) \subseteq InArchive(d)'
  BY <1>4, <1>11 DEF InArchive
<1>12. ASSUME setting.retention = "archive", ~Archived(d) PROVE Kept(d) \subseteq InArchive(d)'
  <2>1. ASSUME NEW k \in Kind, NEW n \in Range(held[d][k]) PROVE n \in InArchive(d)'
    <3>1. Exists(d, k)
      BY <1>0, <2>1, HeldIs, RangeEmpty
    <3>2. held[d][k] = Held(file[d][k])
      BY <1>0, HeldIs
    <3>3. rec(k) \in archive'.files /\ rec(k).day = d /\ n \in Range(Held(rec(k).frames))
      BY <1>4, <1>7, <1>9, <1>12, <2>1, <3>1, <3>2
    <3>4. PICK f \in archive'.files : f.day = d /\ n \in Range(Held(f.frames))
      BY <3>3
    <3>5. Range(Held(f.frames)) \in {Range(Held(g.frames)) : g \in {g \in archive'.files : g.day = d}}
      BY <3>4
    <3>6. n \in UNION {Range(Held(g.frames)) : g \in {g \in archive'.files : g.day = d}}
      BY <3>4, <3>5
    <3> QED
      BY <3>6 DEF InArchive
  <2> QED
    BY <2>1, Kinds DEF Kept
<1>13. ASSUME NEW e \in Day \ {d}
       PROVE  (Archived(e)' <=> Archived(e)) /\ InArchive(e)' = InArchive(e)
  <2>1. {f \in archive'.files : f.day = e} = {f \in archive.files : f.day = e}
    BY <1>3, <1>4, <1>6
  <2>2. InArchive(e)' = InArchive(e)
    BY <2>1, Zenon DEF InArchive
  <2>3. Archived(e)' <=> Archived(e)
    BY <2>1 DEF Archived
  <2> QED
    BY <2>2, <2>3
<1>14. setting.retention # "archive" => archive'.files = archive.files
  BY <1>3
<1> QED
  BY <1>1, <1>2, <1>3, <1>5, <1>10, <1>11, <1>12, <1>13, <1>14

\* The file a sweep removes next: of a day that is past.
LEMMA SweepsFile ==
    ASSUME Base, SolidOK, RemoveFile
    PROVE  \E d \in Day, k \in Kind :
              /\ d = SweptDay /\ d \in Swept(job.day) /\ Expired(d)
              /\ Exists(d, k) /\ SolidOK' /\ Sets(d, k, <<>>)
              /\ \A j \in Kind : Exists(d, j) => k = "data" \/ j = "raw" \/ j = k
              /\ file' = [file EXCEPT ![d][k] = <<>>]
              /\ Hide(d, {"metric", "resolve", "source"}, Members(d, k))
              /\ pc' = IF \E j \in Kind \ {k} : Exists(d, j) THEN "remove" ELSE "sweep"
<1>0. /\ TypeOK /\ pc = "remove" /\ Swept(job.day) # {} /\ job.day \in Nat /\ job.day <= newest
      /\ setting.retention # "keep" /\ newest \in Nat
  <2>1. TypeOK /\ pc = "remove" /\ job.op \in {"add", "replay"}
    BY DEF Base, FlowOK, RemoveFile
  <2>2. Swept(job.day) # {} /\ job.day \in Day /\ job.day <= newest /\ setting.retention # "keep"
    BY <2>1 DEF Base, PlaceOK, SweepOK
  <2>3. newest \in Day \cup {0}
    BY <2>1 DEF TypeOK
  <2>4. newest \in Nat /\ job.day \in Nat
    <3>1. \A d \in Day : d \in Nat
      BY Assumed
    <3>2. job.day \in Nat
      BY <2>2, <3>1
    <3>3. newest \in Nat
      BY <2>3, <3>1
    <3> QED
      BY <3>2, <3>3
  <2> QED
    BY <2>1, <2>2, <2>4
<1>1. SweptDay \in Swept(job.day) /\ SweptDay \in Day
  BY <1>0, SweptIs DEF SweptDay
<1>2. PICK d \in Day : d = SweptDay
  BY <1>1, Zenon
<1> DEFINE Next1(k) == /\ Exists(d, k)
                       /\ \A j \in Kind : Exists(d, j) => k = "data" \/ j = "raw" \/ j = k
<1>3. \E k \in Kind : Exists(d, k)
  BY <1>1, <1>2 DEF Swept
<1>4. \E k \in Kind : Next1(k)
  BY <1>3, Kinds
<1>5. (CHOOSE k \in Kind : Next1(k)) \in Kind /\ Next1(CHOOSE k \in Kind : Next1(k))
  BY <1>4, Zenon
<1>6. PICK k \in Kind : k = (CHOOSE i \in Kind : Next1(i)) /\ Next1(k)
  BY <1>5, Zenon
<1>7. /\ file' = [file EXCEPT ![d][k] = <<>>]
      /\ Hide(d, {"metric", "resolve", "source"}, Members(d, k))
      /\ pc' = IF \E j \in Kind \ {k} : Exists(d, j) THEN "remove" ELSE "sweep"
  BY <1>2, <1>6, Zenon DEF RemoveFile, SweptDay
<1>8. SolidOK' /\ Sets(d, k, <<>>)
  BY <1>0, <1>7, Removes, Zenon
<1>9. Expired(d)
  <2>1. d + RetentionDays < job.day
    BY <1>1, <1>2 DEF Swept, Past
  <2>2. newest - d > RetentionDays
    <3>1. \A x, y, z, r \in Nat : x + r < y /\ y <= z => z - x > r
      OBVIOUS
    <3>2. d \in Nat /\ RetentionDays \in Nat
      BY Assumed
    <3> QED
      BY <1>0, <2>1, <3>1, <3>2
  <2> QED
    BY <1>0, <2>2 DEF Expired
<1>10. d \in Swept(job.day)
  BY <1>1, <1>2
<1> QED
  BY <1>2, <1>6, <1>7, <1>8, <1>9, <1>10, Zenon

\* Steps that leave the files, or what they hold, alone.
LEMMA FilesCalm ==
    ASSUME Base, FilesOK, Next, SolidOK', held' = held, archive'.files = archive.files,
           late' = late, page' = page \/ page' = NoPages
    PROVE  FilesOK'
<1>1. ASSUME NEW d \in Day PROVE DayOK(d)'
  <2>1. page'[d] = page[d] \/ page'[d] = <<>>
    BY DEF NoPages
  <2> QED
    BY <2>1, DaySame DEF FilesOK
<1> QED
  BY <1>1 DEF FilesOK

LEMMA FilesAppend ==
    ASSUME Base, FilesOK, Next, NEW a \in Day, page[a] # <<>>, AppendFrame(a),
           archive' = archive, late' = late
    PROVE  FilesOK'
<1>1. SolidOK' /\ Sets(a, "data", held[a]["data"] \o page[a]) /\ page' = [page EXCEPT ![a] = <<>>] /\ TypeOK
  BY Appends DEF Base, FilesOK, AppendFrame
<1>2. page \in [Day -> Seq(Nat)]
  BY <1>1 DEF TypeOK
<1>3. ASSUME NEW d \in Day, d # a PROVE DayOK(d)'
  <2>1. page'[d] = page[d] /\ (\A k \in Kind : held'[d][k] = held[d][k])
    BY <1>1, <1>2, <1>3 DEF Sets
  <2> QED
    BY <2>1, DaySame DEF FilesOK
<1>4. DayOK(a)'
  <2>1. /\ setting' = setting /\ (Expired(a) => Expired(a)')
        /\ held'[a]["metric"] = held[a]["metric"] /\ held'[a]["raw"] = held[a]["raw"]
    BY <1>1, Steady, Kinds DEF Sets
  <2>2. a \notin late => held[a]["metric"] = <<>> /\ held[a]["raw"] = <<>> /\ ~Archived(a)
    BY DEF FilesOK, DayOK
  <2>3. Archived(a)' <=> Archived(a)
    BY DEF Archived
  <2>4. held'[a]["data"] = held[a]["data"] \o page[a] /\ held[a]["data"] \in Seq(Nat) /\ page[a] \in Seq(Nat)
    BY <1>1, <1>2, HeldHere, Kinds DEF Sets, FilesOK
  <2>5. held[a]["data"] # <<>> => held'[a]["data"] # <<>>
    <3>1. Range(held'[a]["data"]) = Range(held[a]["data"]) \cup Range(page[a])
      BY <2>4, RangeJoined
    <3> QED
      BY <2>4, <3>1, RangeOf, RangeEmpty
  <2> QED
    BY <2>1, <2>2, <2>3, <2>5 DEF FilesOK, DayOK
<1> QED
  BY <1>1, <1>3, <1>4 DEF FilesOK

LEMMA FilesWrite ==
    ASSUME Base, FilesOK, Next, WriteMetricFile
    PROVE  FilesOK'
<1>1. PICK s \in Day, k \in {"data", "raw"} :
              /\ s = job.seal /\ k = Source(s) /\ page[s] = <<>> /\ held[s][k] # <<>>
              /\ SolidOK' /\ Sets(s, "metric", held[s][k])
  BY Writes DEF FilesOK
<1>2. /\ late' = IF setting.raw = "keep" /\ query.day # s /\ ~Archived(s) THEN late \ {s} ELSE late
      /\ archive' = archive /\ page' = page /\ TypeOK /\ setting' = setting
  BY <1>1 DEF WriteMetricFile, Base
<1>3. ASSUME NEW d \in Day, d # s PROVE DayOK(d)'
  <2>1. \A j \in Kind : held'[d][j] = held[d][j]
    BY <1>1, <1>3 DEF Sets
  <2>2. (d \notin late' => d \notin late) /\ page'[d] = page[d]
    BY <1>2, <1>3
  <2> QED
    BY <1>2, <2>1, <2>2, DaySame DEF FilesOK
<1>4. DayOK(s)'
  <2>1. /\ Expired(s) => Expired(s)'
        /\ held'[s]["data"] = held[s]["data"] /\ held'[s]["raw"] = held[s]["raw"]
        /\ held'[s]["metric"] = held[s][k]
    BY <1>1, Steady, Kinds DEF Sets
  <2>2. k = Src(s) /\ Src(s)' = Src(s) /\ held'[s][Src(s)] = held[s][k]
    <3>1. k = Src(s)
      BY <1>1, <1>2, HeldHere DEF FilesOK
    <3>2. Src(s)' = Src(s)
      BY <2>1 DEF Src
    <3>3. held'[s][Src(s)] = held[s][Src(s)]
      BY <2>1 DEF Src
    <3> QED
      BY <3>1, <3>2, <3>3
  <2>3. Archived(s)' = Archived(s) /\ InArchive(s)' = InArchive(s)
    BY <1>2 DEF Archived, InArchive
  <2>4. Kept(s)' \subseteq Kept(s)
    BY <2>1 DEF Kept
  <2>5. setting.raw = "keep" => held[s]["raw"] = <<>> /\ k = "data"
    BY <1>1 DEF FilesOK, DayOK
  <2>6. s \notin late' => s \notin late \/ (setting.raw = "keep" /\ ~Archived(s))
    BY <1>2
  <2> QED
    BY <1>1, <1>2, <2>1, <2>2, <2>3, <2>4, <2>5, <2>6 DEF FilesOK, DayOK
<1> QED
  BY <1>1, <1>3, <1>4 DEF FilesOK

\* The metric file of the day says what the file that goes says.
LEMMA FilesDrop ==
    ASSUME Base, FilesOK, Next, NEW s \in Day, NEW k \in {"data", "raw"},
           SolidOK', Sets(s, k, <<>>), setting.raw # "keep",
           k = "raw" => held[s]["data"] = <<>> \/ (s \in late \/ held[s]["raw"] = <<>>),
           UNCHANGED <<archive, page, late>>
    PROVE  FilesOK'
<1>1. setting' = setting
  BY Steady
<1>2. ASSUME NEW d \in Day, d # s PROVE DayOK(d)'
  <2>1. \A j \in Kind : held'[d][j] = held[d][j]
    BY <1>2 DEF Sets
  <2> QED
    BY <1>2, <2>1, DaySame DEF FilesOK
<1>3. DayOK(s)'
  <2>1. /\ held'[s][k] = <<>> /\ held'[s]["metric"] = held[s]["metric"]
        /\ k = "data" => held'[s]["raw"] = held[s]["raw"]
        /\ k = "raw" => held'[s]["data"] = held[s]["data"]
    BY Kinds DEF Sets
  <2>2. Archived(s)' = Archived(s) /\ InArchive(s)' = InArchive(s)
    BY DEF Archived, InArchive
  <2>3. Kept(s)' \subseteq Kept(s)
    BY <2>1, RangeEmpty DEF Kept
  <2>4. s \notin late /\ held[s]["metric"] # <<>> => held'[s][Src(s)'] = <<>> \/ held'[s][Src(s)'] = held[s][Src(s)]
    <3>1. CASE k = "data"
      BY <2>1, <3>1 DEF FilesOK, DayOK, Src
    <3>2. CASE k = "raw"
      BY <2>1, <3>2 DEF FilesOK, DayOK, Src
    <3> QED
      BY <3>1, <3>2
  <2> QED
    BY <1>1, <2>1, <2>2, <2>3, <2>4 DEF FilesOK, DayOK
<1> QED
  BY <1>2, <1>3 DEF FilesOK

LEMMA FilesRename ==
    ASSUME Base, FilesOK, BuiltOK, Next, RenameSource
    PROVE  FilesOK'
<1>1. \E s \in Day : s = job.seal
  BY DEF RenameSource, Base, PlaceOK, Sealing
<1>2. PICK s \in Day : s = job.seal
  BY <1>1, Zenon
<1>3. /\ file' = [file EXCEPT ![s]["raw"] = file[s]["data"], ![s]["data"] = <<>>]
      /\ UNCHANGED <<archive, page, late>> /\ pc = "rename" /\ setting' = setting
      /\ held[s]["metric"] = held[s]["data"] /\ page[s] = <<>> /\ setting.raw = "rename"
      /\ TypeOK /\ SolidOK
  BY <1>2 DEF RenameSource, Base, PlaceOK, Sealing, BuildOK, BuiltOK, FilesOK
<1>4. /\ SolidOK'
      /\ held'[s]["raw"] = held[s]["data"] /\ held'[s]["data"] = <<>>
      /\ held'[s]["metric"] = held[s]["metric"]
      /\ \A e \in Day \ {s}, j \in Kind : held'[e][j] = held[e][j]
  BY <1>3, Renames, Zenon
<1>5. ASSUME NEW d \in Day, d # s PROVE DayOK(d)'
  BY <1>3, <1>4, <1>5, DaySame DEF FilesOK
<1>6. DayOK(s)'
  <2>1. Archived(s)' = Archived(s) /\ InArchive(s)' = InArchive(s)
    BY <1>3 DEF Archived, InArchive
  <2>2. Kept(s)' \subseteq Kept(s)
    BY <1>4, RangeEmpty DEF Kept
  <2>3. Src(s)' = "raw" /\ held'[s][Src(s)'] = held'[s]["metric"]
    BY <1>3, <1>4 DEF Src
  <2> QED
    BY <1>3, <1>4, <2>1, <2>2, <2>3 DEF FilesOK, DayOK
<1> QED
  BY <1>4, <1>5, <1>6 DEF FilesOK

LEMMA FilesSweep ==
    ASSUME Base, FilesOK, Next, SweepDay
    PROVE  FilesOK'
<1>0. setting' = setting /\ page' = page
  BY Steady DEF SweepDay
<1>1. PICK s \in Day :
        /\ held' = held /\ SolidOK'
        /\ late' = IF setting.retention = "archive" /\ page[s] # <<>> THEN late \cup {s} ELSE late
        /\ setting.retention # "archive" => archive'.files = archive.files
        /\ setting.retention = "archive" =>
              /\ Archived(s)'
              /\ ~Archived(s) => Kept(s) \subseteq InArchive(s)'
              /\ InArchive(s) \subseteq InArchive(s)'
        /\ \A e \in Day \ {s} : (Archived(e)' <=> Archived(e)) /\ InArchive(e)' = InArchive(e)
  BY SweepsDay DEF FilesOK
<1>2. CASE setting.retention # "archive"
  BY <1>0, <1>1, <1>2, FilesCalm
<1>3. CASE setting.retention = "archive"
  <2>1. ASSUME NEW d \in Day
        PROVE  /\ Expired(d) => Expired(d)'
               /\ Src(d)' = Src(d) /\ Kept(d)' = Kept(d)
    BY <1>1, Steady DEF Src, Kept
  <2>2. ASSUME NEW d \in Day, d # s PROVE DayOK(d)'
    BY <1>0, <1>1, <1>3, <2>1, <2>2 DEF FilesOK, DayOK
  <2>3. DayOK(s)'
    BY <1>0, <1>1, <1>3, <2>1 DEF FilesOK, DayOK
  <2> QED
    BY <1>1, <2>2, <2>3 DEF FilesOK
<1> QED
  BY <1>2, <1>3

LEMMA FilesRemove ==
    ASSUME Base, FilesOK, Next, RemoveFile
    PROVE  FilesOK'
<1>0. setting' = setting /\ UNCHANGED <<archive, page, late>>
  BY Steady DEF RemoveFile
<1>1. PICK d \in Day, k \in Kind : Expired(d) /\ SolidOK' /\ Sets(d, k, <<>>)
  BY SweepsFile DEF FilesOK
<1>2. ASSUME NEW e \in Day, e # d PROVE DayOK(e)'
  <2>1. \A j \in Kind : held'[e][j] = held[e][j]
    BY <1>1, <1>2 DEF Sets
  <2> QED
    BY <1>0, <1>2, <2>1, DaySame DEF FilesOK
<1>3. DayOK(d)'
  <2>1. /\ Expired(d)'
        /\ Archived(d)' = Archived(d) /\ InArchive(d)' = InArchive(d)
    BY <1>0, <1>1, Steady DEF Archived, InArchive
  <2>2. \A j \in Kind : held'[d][j] = held[d][j] \/ held'[d][j] = <<>>
    BY <1>1 DEF Sets
  <2>3. Kept(d)' \subseteq Kept(d)
    BY <2>2, RangeEmpty, Kinds DEF Kept
  <2>4. d \notin late /\ held'[d]["metric"] # <<>> =>
            held'[d][Src(d)'] = <<>> \/ held'[d][Src(d)'] = held[d][Src(d)]
    BY <2>2, Kinds DEF FilesOK, DayOK, Src
  <2> QED
    BY <1>0, <2>1, <2>2, <2>3, <2>4, Kinds DEF FilesOK, DayOK
<1> QED
  BY <1>1, <1>2, <1>3 DEF FilesOK

LEMMA FilesStore ==
    ASSUME Base, FilesOK, Next, StoreSample
    PROVE  FilesOK'
<1>1. \E s \in Day : s = job.day
  BY DEF StoreSample, Base, FlowOK, PlaceOK
<1>2. PICK s \in Day : s = job.day
  BY <1>1, Zenon
<1>3. /\ TypeOK /\ page \in [Day -> Seq(Nat)]
      /\ page' = [page EXCEPT ![s] = Append(@, job.n)]
      /\ late' = IF Stored(s) THEN late \cup {s} ELSE late
      /\ UNCHANGED <<file, archive, setting>>
  BY <1>2 DEF StoreSample, Base, TypeOK
<1>4. SolidOK' /\ held' = held
  BY <1>3, FilesStay DEF FilesOK
<1>5. ASSUME NEW d \in Day, d # s PROVE DayOK(d)'
  <2>1. page'[d] = page[d] /\ (d \notin late' => d \notin late)
    BY <1>3, <1>5
  <2> QED
    BY <1>3, <1>4, <2>1, DaySame DEF FilesOK
<1>6. DayOK(s)'
  <2>1. s \notin late' => held[s]["metric"] = <<>> /\ held[s]["raw"] = <<>> /\ ~Archived(s)
    BY <1>3, HeldHere DEF FilesOK, Stored
  <2>2. Archived(s)' = Archived(s) /\ (Expired(s) => Expired(s)')
    BY <1>3, Steady DEF Archived
  <2> QED
    BY <1>3, <1>4, <2>1, <2>2 DEF FilesOK, DayOK
<1> QED
  BY <1>4, <1>5, <1>6 DEF FilesOK

LEMMA FilesNext ==
    ASSUME Base, FilesOK, BuiltOK, Next
    PROVE  FilesOK'
<1> DEFINE Calm == /\ SolidOK' /\ held' = held /\ archive'.files = archive.files
                   /\ late' = late /\ (page' = page \/ page' = NoPages)
<1>0. Calm => FilesOK'
  BY FilesCalm
<1>1. ASSUME Open PROVE FilesOK'
  BY <1>1, <1>0, FilesStay DEF Open, FilesOK
<1>2. ASSUME ReplaySkip PROVE FilesOK'
  BY <1>2, <1>0, FilesStay DEF ReplaySkip, FilesOK
<1>3. ASSUME ReplayTake PROVE FilesOK'
  BY <1>3, <1>0, FilesStay DEF ReplayTake, FilesOK
<1>4. ASSUME ReplayRefused PROVE FilesOK'
  BY <1>4, <1>0, FilesStay DEF ReplayRefused, LoseMemory, FilesOK
<1>5. ASSUME ReplayDone PROVE FilesOK'
  BY <1>5, <1>0, FilesStay DEF ReplayDone, FilesOK
<1>6. ASSUME NEW d \in Day, BeginAdd(d) PROVE FilesOK'
  BY <1>6, <1>0, FilesStay DEF BeginAdd, FilesOK
<1>7. ASSUME OpenDay PROVE FilesOK'
  BY <1>7, <1>0, FilesStay DEF OpenDay, FilesOK
<1>8. ASSUME SealPage PROVE FilesOK'
  <2>1. \E a \in Day : a = OldestOpen
    BY <1>8, OldestOpenIs DEF SealPage, Base
  <2>2. PICK a \in Day : a = OldestOpen
    BY <2>1, Zenon
  <2>3. CASE page[a] # <<>>
    BY <1>8, <2>2, <2>3, FilesAppend DEF SealPage
  <2>4. CASE page[a] = <<>>
    BY <1>0, <1>8, <2>2, <2>4, FilesStay DEF SealPage, FilesOK
  <2> QED
    BY <2>3, <2>4
<1>9. ASSUME SealReset PROVE FilesOK'
  BY <1>9, <1>0, FilesStay DEF SealReset, FilesOK
<1>10. ASSUME WriteMetricFile PROVE FilesOK'
  BY <1>10, FilesWrite
<1>11. ASSUME KeepSource PROVE FilesOK'
  BY <1>11, <1>0, FilesStay DEF KeepSource, FilesOK
<1>12. ASSUME DeleteSource PROVE FilesOK'
  <2>1. \E s \in Day, k \in {"data", "raw"} : s = job.seal /\ k = job.from /\ k = Source(s)
    BY <1>12 DEF DeleteSource, Base, PlaceOK, Sealing, BuildOK, Source
  <2>2. PICK s \in Day, k \in {"data", "raw"} : s = job.seal /\ k = job.from /\ k = Source(s)
    BY <2>1, Zenon
  <2>3. /\ file' = [file EXCEPT ![s][k] = <<>>] /\ setting.raw # "keep"
        /\ UNCHANGED <<archive, page, late>> /\ TypeOK /\ SolidOK /\ k \in Kind
    BY <1>12, <2>2, Kinds DEF DeleteSource, Base, FilesOK
  <2>4. SolidOK' /\ Sets(s, k, <<>>)
    BY <2>3, Removes, Zenon
  <2>5. k = "raw" => held[s]["data"] = <<>>
    BY <2>2, <2>3, HeldHere DEF Src
  <2> QED
    BY <2>3, <2>4, <2>5, FilesDrop
<1>13. ASSUME RemoveOldRaw PROVE FilesOK'
  <2>1. \E s \in Day : s = job.seal
    BY <1>13 DEF RemoveOldRaw, Base, PlaceOK, Sealing
  <2>2. PICK s \in Day : s = job.seal
    BY <2>1, Zenon
  <2>3. /\ file' = [file EXCEPT ![s]["raw"] = <<>>] /\ setting.raw # "keep"
        /\ UNCHANGED <<archive, page, late>> /\ TypeOK /\ SolidOK /\ "raw" \in Kind
        /\ Exists(s, "data")
    BY <1>13, <2>2, Kinds DEF RemoveOldRaw, Base, FilesOK, BuildOK
  <2>4. SolidOK' /\ Sets(s, "raw", <<>>)
    BY <2>3, Removes, Zenon
  <2>5. s \in late \/ held[s]["raw"] = <<>>
    BY <2>3, HeldHere DEF FilesOK, DayOK
  <2> QED
    BY <2>3, <2>4, <2>5, FilesDrop
<1>14. ASSUME RenameSource PROVE FilesOK'
  BY <1>14, FilesRename
<1>15. ASSUME SweepDay PROVE FilesOK'
  BY <1>15, FilesSweep
<1>16. ASSUME RemoveFile PROVE FilesOK'
  BY <1>16, FilesRemove
<1>17. ASSUME SweepDone PROVE FilesOK'
  BY <1>17, <1>0, FilesStay DEF SweepDone, FilesOK
<1>18. ASSUME LogSample PROVE FilesOK'
  BY <1>18, <1>0, FilesStay DEF LogSample, FilesOK
<1>19. ASSUME StoreSample PROVE FilesOK'
  BY <1>19, FilesStore
<1>20. ASSUME NEW d \in Day, FlushOther(d) PROVE FilesOK'
  BY <1>20, FilesAppend DEF FlushOther
<1>21. ASSUME NEW d \in Day, DrainPage(d) PROVE FilesOK'
  BY <1>21, FilesAppend DEF DrainPage
<1>22. ASSUME NEW d \in Day, Recompact(d) PROVE FilesOK'
  <2>1. SolidOK' /\ held' = held
    BY <1>22, Repacks DEF Base, FilesOK
  <2> QED
    BY <1>0, <1>22, <2>1 DEF Recompact
<1>23. ASSUME NEW d \in Day, Compact(d) PROVE FilesOK'
  BY <1>23, <1>0, FilesStay DEF Compact, FilesOK
<1>24. ASSUME OthersDone PROVE FilesOK'
  <2>1. CASE Full(job.day)
    <3>1. job.day \in Day /\ page[job.day] # <<>> /\ AppendFrame(job.day)
      BY <1>24, <2>1, FullPage DEF Base
    <3>2. PICK a \in Day : a = job.day
      BY <3>1, Zenon
    <3> QED
      BY <1>24, <3>1, <3>2, FilesAppend DEF OthersDone
  <2>2. CASE ~Full(job.day)
    BY <1>0, <1>24, <2>2, FilesStay DEF OthersDone, FilesOK
  <2> QED
    BY <2>1, <2>2
<1>25. ASSUME FullReset PROVE FilesOK'
  BY <1>25, <1>0, FilesStay DEF FullReset, FilesOK
<1>26. ASSUME NEW op \in {"flush", "close"}, BeginDrain(op) PROVE FilesOK'
  BY <1>26, <1>0, FilesStay DEF BeginDrain, FilesOK
<1>27. ASSUME DrainDone PROVE FilesOK'
  BY <1>27, <1>0, FilesStay DEF DrainDone, LoseMemory, FilesOK
<1>28. ASSUME Crash PROVE FilesOK'
  <2>1. archive \in [files : SUBSET [day : Day, kind : Kind, frames : Frames], broken : BOOLEAN]
    BY TypeParts DEF Base, DiskTypes
  <2>2. archive' = archive \/ archive' = [archive EXCEPT !.broken = TRUE]
    BY <1>28 DEF Crash
  <2>3. archive'.files = archive.files
    BY <2>1, <2>2
  <2> QED
    BY <1>28, <1>0, <2>3, FilesStay DEF Crash, LoseMemory, FilesOK
<1>29. ASSUME NEW d \in Day, QueryStart(d) PROVE FilesOK'
  BY <1>29, <1>0, FilesStay DEF QueryStart, FilesOK
<1>30. ASSUME QueryMetric PROVE FilesOK'
  BY <1>30, <1>0, FilesStay DEF QueryMetric, FilesOK
<1>31. ASSUME QueryResolve PROVE FilesOK'
  BY <1>31, <1>0, FilesStay DEF QueryResolve, FilesOK
<1>32. ASSUME QuerySource PROVE FilesOK'
  BY <1>32, <1>0, FilesStay DEF QuerySource, FilesOK
<1>33. ASSUME QueryPage PROVE FilesOK'
  BY <1>33, <1>0, FilesStay DEF QueryPage, FilesOK
<1>34. ASSUME QueryReturn PROVE FilesOK'
  BY <1>34, <1>0, FilesStay DEF QueryReturn, FilesOK
<1> QED
  BY <1>1, <1>2, <1>3, <1>4, <1>5, <1>6, <1>7, <1>8, <1>9, <1>10, <1>11, <1>12, <1>13,
<1>14, <1>15, <1>16, <1>17, <1>18, <1>19, <1>20, <1>21, <1>22, <1>23, <1>24, <1>25,
<1>26, <1>27, <1>28, <1>29, <1>30, <1>31, <1>32, <1>33, <1>34 DEF Next, Write,
Query, Seal

\* Steps that end where a build or a sweep has work left.
LEMMA Steps ==
    ASSUME Next, pc' \in {"source", "rename", "remove"}
    PROVE  WriteMetricFile \/ RemoveOldRaw \/ SweepDay \/ RemoveFile \/ Query
<1>1. ASSUME Open PROVE pc' \notin {"source", "rename", "remove"}
  BY <1>1 DEF Open
<1>2. ASSUME ReplaySkip PROVE pc' \notin {"source", "rename", "remove"}
  BY <1>2 DEF ReplaySkip
<1>3. ASSUME ReplayTake PROVE pc' \notin {"source", "rename", "remove"}
  BY <1>3 DEF ReplayTake
<1>4. ASSUME ReplayRefused PROVE pc' \notin {"source", "rename", "remove"}
  BY <1>4 DEF ReplayRefused, LoseMemory
<1>5. ASSUME ReplayDone PROVE pc' \notin {"source", "rename", "remove"}
  BY <1>5 DEF ReplayDone
<1>6. ASSUME NEW d \in Day, BeginAdd(d) PROVE pc' \notin {"source", "rename", "remove"}
  BY <1>6 DEF BeginAdd
<1>7. ASSUME OpenDay PROVE pc' \notin {"source", "rename", "remove"}
  BY <1>7 DEF OpenDay
<1>8. ASSUME SealPage PROVE pc' \notin {"source", "rename", "remove"}
  BY <1>8 DEF SealPage
<1>9. ASSUME SealReset PROVE pc' \notin {"source", "rename", "remove"}
  BY <1>9 DEF SealReset
<1>10. ASSUME KeepSource PROVE pc' \notin {"source", "rename", "remove"}
  BY <1>10 DEF KeepSource, AfterBuild, Return
<1>11. ASSUME DeleteSource PROVE pc' \notin {"source", "rename", "remove"}
  BY <1>11 DEF DeleteSource, AfterBuild, Return
<1>12. ASSUME RenameSource PROVE pc' \notin {"source", "rename", "remove"}
  BY <1>12 DEF RenameSource, AfterBuild, Return
<1>13. ASSUME SweepDone PROVE pc' \notin {"source", "rename", "remove"}
  BY <1>13 DEF SweepDone
<1>14. ASSUME LogSample PROVE pc' \notin {"source", "rename", "remove"}
  BY <1>14 DEF LogSample
<1>15. ASSUME StoreSample PROVE pc' \notin {"source", "rename", "remove"}
  BY <1>15 DEF StoreSample
<1>16. ASSUME NEW d \in Day, FlushOther(d) PROVE pc' \notin {"source", "rename", "remove"}
  BY <1>16 DEF FlushOther
<1>17. ASSUME NEW d \in Day, DrainPage(d) PROVE pc' \notin {"source", "rename", "remove"}
  BY <1>17 DEF DrainPage
<1>18. ASSUME NEW d \in Day, Recompact(d) PROVE pc' \notin {"source", "rename", "remove"}
  BY <1>18 DEF Recompact
<1>19. ASSUME NEW d \in Day, Compact(d) PROVE pc' \notin {"source", "rename", "remove"}
  BY <1>19 DEF Compact
<1>20. ASSUME OthersDone PROVE pc' \notin {"source", "rename", "remove"}
  BY <1>20 DEF OthersDone, Return
<1>21. ASSUME FullReset PROVE pc' \notin {"source", "rename", "remove"}
  BY <1>21 DEF FullReset, Return
<1>22. ASSUME NEW op \in {"flush", "close"}, BeginDrain(op)
       PROVE  pc' \notin {"source", "rename", "remove"}
  BY <1>22 DEF BeginDrain
<1>23. ASSUME DrainDone PROVE pc' \notin {"source", "rename", "remove"}
  BY <1>23 DEF DrainDone, LoseMemory, Return
<1>24. ASSUME Crash PROVE pc' \notin {"source", "rename", "remove"}
  BY <1>24 DEF Crash, LoseMemory
<1> QED
  BY <1>1, <1>2, <1>3, <1>4, <1>5, <1>6, <1>7, <1>8, <1>9, <1>10, <1>11, <1>12, <1>13,
<1>14, <1>15, <1>16, <1>17, <1>18, <1>19, <1>20, <1>21, <1>22, <1>23, <1>24 DEF
Next, Write, Query, Seal

LEMMA BuiltNext ==
    ASSUME Base, FilesOK, BuiltOK, Next
    PROVE  BuiltOK'
<1>0. TypeOK /\ SolidOK /\ setting' = setting
  BY Steady DEF Base, FilesOK
<1>1. CASE WriteMetricFile
  <2>1. PICK s \in Day, k \in {"data", "raw"} :
              /\ s = job.seal /\ k = Source(s) /\ Sets(s, "metric", held[s][k])
    BY <1>1, Writes DEF FilesOK
  <2>2. job \in Jobs
    BY <1>0, TypeParts DEF PlaceTypes
  <2>3. job' = [job EXCEPT !.from = k] /\ pc' = "source"
    BY <1>1, <2>1 DEF WriteMetricFile
  <2>4. job'.seal = s /\ job'.from = k
    BY <2>1, <2>2, <2>3 DEF Jobs
  <2>5. held'[s]["metric"] = held'[s][k]
    BY <2>1, Kinds DEF Sets
  <2> QED
    BY <2>3, <2>4, <2>5 DEF BuiltOK
<1>2. CASE RemoveOldRaw
  <2>1. \E s \in Day : s = job.seal
    BY <1>2 DEF RemoveOldRaw, Base, PlaceOK, Sealing
  <2>2. PICK s \in Day : s = job.seal
    BY <2>1, Zenon
  <2>3. /\ file' = [file EXCEPT ![s]["raw"] = <<>>] /\ "raw" \in Kind
        /\ pc = "source" /\ pc' = "rename" /\ job' = job /\ job.from = "data"
    BY <1>2, <2>2, Kinds DEF RemoveOldRaw
  <2>4. Sets(s, "raw", <<>>)
    BY <1>0, <2>3, Removes, Zenon
  <2> QED
    BY <2>2, <2>3, <2>4, Kinds DEF Sets, BuiltOK
<1>3. CASE SweepDay
  <2>1. PICK d \in Day : d = SweptDay /\ (setting.retention = "archive" => Archived(d)')
    BY <1>3, SweepsDay DEF FilesOK
  <2>2. SweptDay' = SweptDay /\ pc' = "remove"
    BY <1>3 DEF SweepDay, SweptDay, Swept, Exists
  <2>3. \E e \in Day : e = SweptDay' /\ (setting.retention = "archive" => Archived(e)')
    BY <2>1, <2>2
  <2> QED
    BY <1>0, <2>1, <2>2, <2>3 DEF BuiltOK, Archived
<1>4. CASE RemoveFile
  <2>1. PICK d \in Day, k \in Kind :
              /\ d = SweptDay /\ d \in Swept(job.day)
              /\ file' = [file EXCEPT ![d][k] = <<>>]
              /\ pc' = IF \E j \in Kind \ {k} : Exists(d, j) THEN "remove" ELSE "sweep"
    BY <1>4, SweepsFile DEF FilesOK
  <2>2. file \in [Day -> [Kind -> Frames]] /\ job' = job /\ archive' = archive /\ pc = "remove"
    BY <1>0, <1>4, TypeParts DEF DiskTypes, RemoveFile
  <2>3. ASSUME pc' = "remove" PROVE SweptDay' = d
    <3>1. PICK j \in Kind \ {k} : Exists(d, j)
      BY <2>1, <2>3
    <3>2. file'[d][j] = file[d][j]
      BY <2>1, <2>2
    <3>3. \A e \in Day \ {d}, i \in Kind : file'[e][i] = file[e][i]
      BY <2>1, <2>2
    <3>4. ASSUME NEW e \in Day
          PROVE (\E i \in Kind : file'[e][i] # <<>>) <=> (\E i \in Kind : file[e][i] # <<>>)
      BY <3>1, <3>2, <3>3 DEF Exists
    <3>5. {e \in Day : Past(e, job.day) /\ \E i \in Kind : file'[e][i] # <<>>} =
          {e \in Day : Past(e, job.day) /\ \E i \in Kind : file[e][i] # <<>>}
      BY <3>4
    <3>6. Swept(job.day)' = Swept(job.day)
      BY <2>2, <3>5 DEF Swept, Exists, Past
    <3> QED
      BY <2>1, <3>6 DEF SweptDay
  <2>4. setting.retention = "archive" => Archived(d)
    BY <2>1, <2>2 DEF BuiltOK
  <2>5. Archived(d)' = Archived(d)
    BY <2>2 DEF Archived
  <2> QED
    BY <1>0, <2>1, <2>3, <2>4, <2>5 DEF BuiltOK, Archived
<1>5. CASE Query
  <2>1. UNCHANGED <<pc, file, archive, job, setting>>
    BY <1>5 DEF Query, QueryStart, QueryMetric, QueryResolve, QuerySource, QueryPage, QueryReturn
  <2>2. held' = held /\ SweptDay' = SweptDay
    BY <2>1 DEF held, SweptDay, Swept, Exists
  <2> QED
    BY <2>1, <2>2 DEF BuiltOK, Archived
<1> QED
  BY <1>1, <1>2, <1>3, <1>4, <1>5, Steps DEF BuiltOK

\* No step but the sweep takes a sample from the files of such a day.
LEMMA KeptNext ==
    ASSUME Base, FilesOK, BuiltOK, Next, ~RemoveFile, NEW d \in Day, d \notin late
    PROVE  Kept(d) \subseteq Kept(d)'
<1>0. TypeOK /\ SolidOK
  BY DEF Base, FilesOK
<1>s. UNCHANGED file => Kept(d) \subseteq Kept(d)'
  BY <1>0, FilesStay DEF Kept
<1>a. ASSUME NEW a \in Day, page[a] # <<>>, AppendFrame(a) PROVE Kept(d) \subseteq Kept(d)'
  <2>1. Sets(a, "data", held[a]["data"] \o page[a])
    BY <1>0, <1>a, Appends
  <2>2. held[a]["data"] \in Seq(Nat) /\ page[a] \in Seq(Nat)
    BY <1>0, HeldHere, FileTypes
  <2>3. Range(held[a]["data"]) \subseteq Range(held'[a]["data"])
    BY <2>1, <2>2, RangeJoined, Kinds DEF Sets
  <2> QED
    BY <2>1, <2>3, Kinds DEF Sets, Kept
\* The metric file says what the file that goes says.
<1>d. ASSUME NEW s \in Day, NEW k \in {"data", "raw"}, Sets(s, k, <<>>),
             s = d => Range(held[s][k]) \subseteq Range(held[s]["metric"])
      PROVE  Kept(d) \subseteq Kept(d)'
  BY <1>d, Kinds DEF Sets, Kept
<1>1. ASSUME Open PROVE Kept(d) \subseteq Kept(d)'
  BY <1>1, <1>s DEF Open
<1>2. ASSUME ReplaySkip PROVE Kept(d) \subseteq Kept(d)'
  BY <1>2, <1>s DEF ReplaySkip
<1>3. ASSUME ReplayTake PROVE Kept(d) \subseteq Kept(d)'
  BY <1>3, <1>s DEF ReplayTake
<1>4. ASSUME ReplayRefused PROVE Kept(d) \subseteq Kept(d)'
  BY <1>4, <1>s DEF ReplayRefused
<1>5. ASSUME ReplayDone PROVE Kept(d) \subseteq Kept(d)'
  BY <1>5, <1>s DEF ReplayDone
<1>6. ASSUME NEW e \in Day, BeginAdd(e) PROVE Kept(d) \subseteq Kept(d)'
  BY <1>6, <1>s DEF BeginAdd
<1>7. ASSUME OpenDay PROVE Kept(d) \subseteq Kept(d)'
  BY <1>7, <1>s DEF OpenDay
<1>8. ASSUME SealPage PROVE Kept(d) \subseteq Kept(d)'
  <2>1. \E a \in Day : a = OldestOpen
    BY <1>0, <1>8, OldestOpenIs DEF SealPage
  <2>2. PICK a \in Day : a = OldestOpen
    BY <2>1, Zenon
  <2>3. CASE page[a] # <<>>
    BY <1>a, <1>8, <2>2, <2>3 DEF SealPage
  <2>4. CASE page[a] = <<>>
    BY <1>s, <1>8, <2>2, <2>4 DEF SealPage
  <2> QED
    BY <2>3, <2>4
<1>9. ASSUME SealReset PROVE Kept(d) \subseteq Kept(d)'
  BY <1>9, <1>s DEF SealReset
<1>10. ASSUME WriteMetricFile PROVE Kept(d) \subseteq Kept(d)'
  <2>1. PICK s \in Day, k \in {"data", "raw"} :
              /\ k = Source(s) /\ held[s][k] # <<>> /\ Sets(s, "metric", held[s][k])
    BY <1>0, <1>10, Writes
  <2>2. k = Src(s)
    BY <1>0, <2>1, HeldHere
  <2>3. s = d => held[s]["metric"] = <<>> \/ held[s]["metric"] = held[s][k]
    BY <2>1, <2>2 DEF FilesOK, DayOK
  <2> QED
    BY <2>1, <2>3, RangeEmpty, Kinds DEF Sets, Kept
<1>11. ASSUME KeepSource PROVE Kept(d) \subseteq Kept(d)'
  BY <1>11, <1>s DEF KeepSource
<1>12. ASSUME DeleteSource PROVE Kept(d) \subseteq Kept(d)'
  <2>1. \E s \in Day, k \in {"data", "raw"} : s = job.seal /\ k = job.from
    BY <1>12 DEF DeleteSource, Base, PlaceOK, Sealing, BuildOK, Source
  <2>2. PICK s \in Day, k \in {"data", "raw"} : s = job.seal /\ k = job.from
    BY <2>1, Zenon
  <2>3. /\ file' = [file EXCEPT ![s][k] = <<>>] /\ k \in Kind
        /\ held[s]["metric"] = held[s][k]
    BY <1>12, <2>2, Kinds DEF DeleteSource, BuiltOK
  <2>4. Sets(s, k, <<>>)
    BY <1>0, <2>3, Removes, Zenon
  <2> QED
    BY <1>d, <2>3, <2>4
<1>13. ASSUME RemoveOldRaw PROVE Kept(d) \subseteq Kept(d)'
  <2>1. \E s \in Day : s = job.seal
    BY <1>13 DEF RemoveOldRaw, Base, PlaceOK, Sealing
  <2>2. PICK s \in Day : s = job.seal
    BY <2>1, Zenon
  <2>3. file' = [file EXCEPT ![s]["raw"] = <<>>] /\ "raw" \in Kind /\ Exists(s, "data")
    BY <1>13, <2>2, Kinds DEF RemoveOldRaw, Base, BuildOK
  <2>4. Sets(s, "raw", <<>>)
    BY <1>0, <2>3, Removes, Zenon
  <2>5. s = d => held[s]["raw"] = <<>>
    BY <1>0, <2>3, HeldHere DEF FilesOK, DayOK
  <2> QED
    BY <1>d, <2>4, <2>5, RangeEmpty
<1>14. ASSUME RenameSource PROVE Kept(d) \subseteq Kept(d)'
  <2>1. \E s \in Day : s = job.seal
    BY <1>14 DEF RenameSource, Base, PlaceOK, Sealing
  <2>2. PICK s \in Day : s = job.seal
    BY <2>1, Zenon
  <2>3. /\ file' = [file EXCEPT ![s]["raw"] = file[s]["data"], ![s]["data"] = <<>>]
        /\ ~Exists(s, "raw")
    BY <1>14, <2>2 DEF RenameSource, Base, BuildOK
  <2>4. /\ held'[s]["raw"] = held[s]["data"] /\ held'[s]["metric"] = held[s]["metric"]
        /\ \A e \in Day \ {s}, j \in Kind : held'[e][j] = held[e][j]
    BY <1>0, <2>3, Renames, Zenon
  <2>5. held[s]["raw"] = <<>>
    BY <1>0, <2>3, HeldHere
  <2> QED
    BY <2>4, <2>5, RangeEmpty, Kinds DEF Kept
<1>15. ASSUME SweepDay PROVE Kept(d) \subseteq Kept(d)'
  BY <1>15, <1>s DEF SweepDay
<1>16. ASSUME SweepDone PROVE Kept(d) \subseteq Kept(d)'
  BY <1>16, <1>s DEF SweepDone
<1>17. ASSUME LogSample PROVE Kept(d) \subseteq Kept(d)'
  BY <1>17, <1>s DEF LogSample
<1>18. ASSUME StoreSample PROVE Kept(d) \subseteq Kept(d)'
  BY <1>18, <1>s DEF StoreSample
<1>19. ASSUME NEW e \in Day, FlushOther(e) PROVE Kept(d) \subseteq Kept(d)'
  BY <1>a, <1>19 DEF FlushOther
<1>20. ASSUME NEW e \in Day, DrainPage(e) PROVE Kept(d) \subseteq Kept(d)'
  BY <1>a, <1>20 DEF DrainPage
<1>21. ASSUME NEW e \in Day, Recompact(e) PROVE Kept(d) \subseteq Kept(d)'
  <2>1. held' = held
    BY <1>0, <1>21, Repacks
  <2> QED
    BY <2>1 DEF Kept
<1>22. ASSUME NEW e \in Day, Compact(e) PROVE Kept(d) \subseteq Kept(d)'
  BY <1>22, <1>s DEF Compact
<1>23. ASSUME OthersDone PROVE Kept(d) \subseteq Kept(d)'
  <2>1. CASE Full(job.day)
    <3>1. job.day \in Day /\ page[job.day] # <<>> /\ AppendFrame(job.day)
      BY <1>23, <2>1, FullPage DEF Base
    <3>2. PICK a \in Day : a = job.day
      BY <3>1, Zenon
    <3> QED
      BY <1>a, <3>1, <3>2
  <2>2. CASE ~Full(job.day)
    BY <1>s, <1>23, <2>2 DEF OthersDone
  <2> QED
    BY <2>1, <2>2
<1>24. ASSUME FullReset PROVE Kept(d) \subseteq Kept(d)'
  BY <1>24, <1>s DEF FullReset
<1>25. ASSUME NEW op \in {"flush", "close"}, BeginDrain(op) PROVE Kept(d) \subseteq Kept(d)'
  BY <1>25, <1>s DEF BeginDrain
<1>26. ASSUME DrainDone PROVE Kept(d) \subseteq Kept(d)'
  BY <1>26, <1>s DEF DrainDone
<1>27. ASSUME Crash PROVE Kept(d) \subseteq Kept(d)'
  BY <1>27, <1>s DEF Crash
<1>28. ASSUME NEW e \in Day, QueryStart(e) PROVE Kept(d) \subseteq Kept(d)'
  BY <1>28, <1>s DEF QueryStart
<1>29. ASSUME QueryMetric PROVE Kept(d) \subseteq Kept(d)'
  BY <1>29, <1>s DEF QueryMetric
<1>30. ASSUME QueryResolve PROVE Kept(d) \subseteq Kept(d)'
  BY <1>30, <1>s DEF QueryResolve
<1>31. ASSUME QuerySource PROVE Kept(d) \subseteq Kept(d)'
  BY <1>31, <1>s DEF QuerySource
<1>32. ASSUME QueryPage PROVE Kept(d) \subseteq Kept(d)'
  BY <1>32, <1>s DEF QueryPage
<1>33. ASSUME QueryReturn PROVE Kept(d) \subseteq Kept(d)'
  BY <1>33, <1>s DEF QueryReturn
<1> QED
  BY <1>1, <1>2, <1>3, <1>4, <1>5, <1>6, <1>7, <1>8, <1>9, <1>10, <1>11, <1>12, <1>13,
<1>14, <1>15, <1>16, <1>17, <1>18, <1>19, <1>20, <1>21, <1>22, <1>23, <1>24, <1>25,
<1>26, <1>27, <1>28, <1>29, <1>30, <1>31, <1>32, <1>33 DEF Next, Write, Query, Seal

LEMMA LeavesNext ==
    ASSUME Base, FilesOK, BuiltOK, Next, NEW d \in Day, d \notin late,
           NEW n \in InFiles(d) \ InFiles(d)'
    PROVE  Expired(d) /\ (setting.retention = "archive" => n \in InArchive(d))
<1>0. TypeOK /\ SolidOK
  BY DEF Base, FilesOK
<1>1. Kept(d) = InFiles(d)
  BY <1>0, HeldHere
<1>2. Kept(d)' = InFiles(d)'
  <2>1. TypeOK' /\ SolidOK'
    BY BaseNext, FilesNext DEF Base, FilesOK
  <2>2. \A k \in Kind : Range(held'[d][k]) = Members(d, k)'
    BY DEF held, Members
  <2>3. InFiles(d)' = Members(d, "data")' \cup Members(d, "metric")' \cup Members(d, "raw")'
    BY DEF InFiles, Kind
  <2> QED
    BY <2>2, <2>3, Kinds DEF Kept
<1>3. RemoveFile
  BY <1>1, <1>2, KeptNext
<1>4. PICK e \in Day, k \in Kind : e = SweptDay /\ Expired(e) /\ Sets(e, k, <<>>)
  BY <1>0, <1>3, SweepsFile
<1>5. d = e
  <2>1. d # e => Kept(d)' = Kept(d)
    BY <1>4, Kinds DEF Sets, Kept
  <2> QED
    BY <1>1, <1>2, <2>1
<1>6. setting.retention = "archive" => Archived(d)
  BY <1>3, <1>4, <1>5 DEF BuiltOK, RemoveFile
<1>7. setting.retention = "archive" => Kept(d) \subseteq InArchive(d)
  BY <1>6 DEF FilesOK, DayOK
<1> QED
  BY <1>1, <1>4, <1>5, <1>7

\* What holds of the files of every day, and of the call in progress.
FilesInv == Base /\ FilesOK /\ BuiltOK

LEMMA FilesInit == Init => FilesInv
<1> SUFFICES ASSUME Init PROVE FilesInv
  OBVIOUS
<1>1. Base /\ TypeOK
  BY BaseInit DEF Base
<1>2. \A d \in Day, k \in Kind : file[d][k] = <<>>
  BY DEF Init, NoFiles
<1>3. \A d \in Day, k \in Kind : held[d][k] = <<>>
  BY <1>2, HeldEmpty DEF held
<1>4. SolidOK
  BY <1>2 DEF SolidOK, Exists
<1>5. \A d \in Day : ~Archived(d)
  BY DEF Init, Archived
<1>6. FilesOK
  BY <1>3, <1>4, <1>5, Kinds DEF FilesOK, DayOK
<1>7. BuiltOK
  BY DEF Init, BuiltOK
<1> QED
  BY <1>1, <1>6, <1>7 DEF FilesInv

LEMMA FilesInvNext == FilesInv /\ [Next]_vars => FilesInv'
<1>1. ASSUME FilesInv, Next PROVE FilesInv'
  BY <1>1, BaseNext, FilesNext, BuiltNext DEF FilesInv
<1>2. ASSUME FilesInv, UNCHANGED vars PROVE FilesInv'
  <2>1. Base'
    BY <1>2, BaseNext DEF FilesInv
  <2>2. UNCHANGED <<file, archive, page, pc, job, setting, newest, late>>
    BY <1>2
  <2>3. SolidOK' /\ held' = held
    BY <1>2, <2>2, FilesStay DEF FilesInv, FilesOK
  <2>4. ASSUME NEW d \in Day PROVE DayOK(d)'
    <3>1. DayOK(d)
      BY <1>2 DEF FilesInv, FilesOK
    <3> QED
      BY <2>2, <2>3, <3>1 DEF DayOK, Src, Kept, Archived, InArchive, Expired
  <2>5. SweptDay' = SweptDay
    BY <2>2 DEF SweptDay, Swept, Exists
  <2>6. BuiltOK'
    BY <1>2, <2>2, <2>3, <2>5 DEF FilesInv, BuiltOK, Archived
  <2> QED
    BY <2>1, <2>3, <2>4, <2>6 DEF FilesInv, FilesOK
<1> QED
  BY <1>1, <1>2

\* LAW 8, for every number of days and pages: builds, renames, recompactions,
\* replays, crashes and sweeps take no sample from the files of a day before the
\* retention cutoff, and with archiving none that is not in the bucket, unless
\* the day got samples after it was built or archived.
THEOREM OnlyPastLeaves == Spec => OnlyPastDaysLeave
<1>1. Spec => []FilesInv
  BY FilesInit, FilesInvNext, PTL DEF Spec
<1>2. FilesInv /\ [Next]_vars =>
        [\A d \in Day : late' = late /\ d \notin late =>
          \A n \in InFiles(d) \ InFiles(d)' :
              /\ Expired(d)
              /\ setting.retention = "archive" => n \in InArchive(d)]_vars
  BY LeavesNext DEF FilesInv
<1> QED
  BY <1>1, <1>2, PTL DEF Spec, OnlyPastDaysLeave

(***************************************************************************)
(* The order of time: numbers rise in every file, page and log, and a page *)
(* is later than its data file.                                            *)
(***************************************************************************)
\* The records of a log, of one day and of all, and logs that rise.
On(w, d)     == {w[i].n : i \in {i \in DOMAIN w : w[i].day = d}}
Numbers(w)   == {w[i].n : i \in DOMAIN w}
RisingLog(w) == \A i, j \in DOMAIN w : i < j => w[i].n < w[j].n

LEMMA SampleIs == \A r \in Sample : r.day \in Day /\ r.n \in Nat
  BY DEF Sample

LEMMA LogEmpty == Numbers(<<>>) = {} /\ RisingLog(<<>>) /\ \A d : On(<<>>, d) = {}
  BY DEF Numbers, RisingLog, On

LEMMA LogIs ==
    ASSUME NEW w \in Seq(Sample)
    PROVE  /\ Numbers(w) \subseteq Nat
           /\ \A d : On(w, d) \subseteq Numbers(w)
           /\ \A d, n : n \in On(w, d) <=> \E i \in DOMAIN w : w[i].day = d /\ w[i].n = n
           /\ \A n : n \in Numbers(w) <=> \E i \in DOMAIN w : w[i].n = n
           /\ \A n \in Numbers(w) : \E d \in Day : n \in On(w, d)
<1>1. \A i \in DOMAIN w : w[i] \in Sample
  OBVIOUS
<1>2. \A d, n : n \in On(w, d) <=> \E i \in DOMAIN w : w[i].day = d /\ w[i].n = n
  BY DEF On
<1>3. \A n : n \in Numbers(w) <=> \E i \in DOMAIN w : w[i].n = n
  BY DEF Numbers
<1>4. \A i \in DOMAIN w : w[i].day \in Day /\ w[i].n \in Nat
  BY <1>1, SampleIs
<1>5. ASSUME NEW n \in Numbers(w) PROVE \E d \in Day : n \in On(w, d)
  <2>1. PICK i \in DOMAIN w : w[i].n = n
    BY <1>3
  <2>2. n \in On(w, w[i].day) /\ w[i].day \in Day
    BY <1>2, <1>4, <2>1
  <2> QED
    BY <2>2
<1> QED
  BY <1>2, <1>3, <1>4, <1>5

LEMMA LogAppend ==
    ASSUME NEW w \in Seq(Sample), NEW r \in Sample
    PROVE  /\ Append(w, r) \in Seq(Sample)
           /\ Numbers(Append(w, r)) = Numbers(w) \cup {r.n}
           /\ \A d : On(Append(w, r), d) = On(w, d) \cup (IF r.day = d THEN {r.n} ELSE {})
           /\ RisingLog(w) /\ Below(Numbers(w), {r.n}) => RisingLog(Append(w, r))
<1> DEFINE a == Append(w, r)
           m == Len(w) + 1
<1>1. /\ a \in Seq(Sample) /\ DOMAIN a = 1..m /\ DOMAIN w = 1..Len(w) /\ Len(w) \in Nat
      /\ a[m] = r /\ \A i \in 1..Len(w) : a[i] = w[i]
  OBVIOUS
<1> HIDE DEF a
<1>2. /\ m \in DOMAIN a /\ \A i \in DOMAIN w : i \in DOMAIN a /\ a[i] = w[i] /\ i < m
      /\ \A i \in DOMAIN a : i = m \/ i \in DOMAIN w
  BY <1>1
<1>3. /\ \A n : n \in Numbers(a) <=> \E i \in DOMAIN a : a[i].n = n
      /\ \A n : n \in Numbers(w) <=> \E i \in DOMAIN w : w[i].n = n
  BY DEF Numbers
<1>4. Numbers(a) = Numbers(w) \cup {r.n}
  BY <1>1, <1>2, <1>3
<1>5. ASSUME NEW d PROVE On(a, d) = On(w, d) \cup (IF r.day = d THEN {r.n} ELSE {})
  <2>1. /\ \A n : n \in On(a, d) <=> \E i \in DOMAIN a : a[i].day = d /\ a[i].n = n
        /\ \A n : n \in On(w, d) <=> \E i \in DOMAIN w : w[i].day = d /\ w[i].n = n
    BY DEF On
  <2> QED
    BY <1>1, <1>2, <2>1
<1>6. ASSUME RisingLog(w), Below(Numbers(w), {r.n}), NEW i \in DOMAIN a, NEW j \in DOMAIN a, i < j
      PROVE  a[i].n < a[j].n
  <2>1. i \in DOMAIN w
    BY <1>1, <1>6
  <2>2. CASE j \in DOMAIN w
    BY <1>2, <1>6, <2>1, <2>2 DEF RisingLog
  <2>3. CASE j = m
    <3>1. a[i].n \in Numbers(w)
      BY <1>2, <1>3, <2>1
    <3> QED
      BY <1>1, <1>6, <2>3, <3>1 DEF Below
  <2> QED
    BY <1>2, <2>2, <2>3
<1>7. RisingLog(w) /\ Below(Numbers(w), {r.n}) => RisingLog(a)
  BY <1>6 DEF RisingLog
<1> QED
  BY <1>1, <1>4, <1>5, <1>7 DEF a

LEMMA LogTail ==
    ASSUME NEW w \in Seq(Sample), w # <<>>
    PROVE  /\ Head(w) \in Sample /\ Tail(w) \in Seq(Sample)
           /\ Numbers(w) = Numbers(Tail(w)) \cup {Head(w).n}
           /\ \A d : On(w, d) = On(Tail(w), d) \cup (IF Head(w).day = d THEN {Head(w).n} ELSE {})
           /\ RisingLog(w) => RisingLog(Tail(w)) /\ Below({Head(w).n}, Numbers(Tail(w)))
<1> DEFINE t == Tail(w)
           r == Head(w)
<1>1. /\ r \in Sample /\ t \in Seq(Sample)
      /\ DOMAIN w = 1..Len(w) /\ 1 \in DOMAIN w /\ r = w[1] /\ DOMAIN t = 1..(Len(w) - 1)
      /\ \A i \in DOMAIN t : i + 1 \in DOMAIN w /\ t[i] = w[i + 1]
      /\ \A i \in DOMAIN w : i = 1 \/ (i - 1 \in DOMAIN t /\ w[i] = t[i - 1])
  BY TailIs
<1> HIDE DEF t, r
<1>2. /\ \A n : n \in Numbers(t) <=> \E i \in DOMAIN t : t[i].n = n
      /\ \A n : n \in Numbers(w) <=> \E i \in DOMAIN w : w[i].n = n
  BY DEF Numbers
<1>3. Numbers(w) = Numbers(t) \cup {r.n}
  BY <1>1, <1>2
<1>4. ASSUME NEW d PROVE On(w, d) = On(t, d) \cup (IF r.day = d THEN {r.n} ELSE {})
  <2>1. /\ \A n : n \in On(t, d) <=> \E i \in DOMAIN t : t[i].day = d /\ t[i].n = n
        /\ \A n : n \in On(w, d) <=> \E i \in DOMAIN w : w[i].day = d /\ w[i].n = n
    BY DEF On
  <2> QED
    BY <1>1, <2>1
<1>5. ASSUME RisingLog(w), NEW i \in DOMAIN t, NEW j \in DOMAIN t, i < j PROVE t[i].n < t[j].n
  <2>1. i + 1 \in DOMAIN w /\ j + 1 \in DOMAIN w /\ i + 1 < j + 1
    BY <1>1, <1>5
  <2>2. w[i + 1].n < w[j + 1].n
    BY <1>5, <2>1 DEF RisingLog
  <2> QED
    BY <1>1, <2>2
<1>6. ASSUME RisingLog(w), NEW n \in Numbers(t) PROVE r.n < n
  <2>1. PICK i \in DOMAIN t : t[i].n = n
    BY <1>2
  <2>2. i + 1 \in DOMAIN w /\ 1 < i + 1 /\ w[i + 1] = t[i]
    BY <1>1
  <2>3. w[1].n < w[i + 1].n
    BY <1>1, <1>6, <2>2 DEF RisingLog
  <2> QED
    BY <1>1, <2>1, <2>2, <2>3
<1>7. RisingLog(w) => RisingLog(t) /\ Below({r.n}, Numbers(t))
  BY <1>5, <1>6 DEF RisingLog, Below
<1> QED
  BY <1>1, <1>3, <1>4, <1>7 DEF t, r

Told   == IF job.op = "add" /\ pc \notin {"others", "full"} THEN calls - 1 ELSE calls
WalTop == IF job.op = "add" /\ pc = "store" THEN calls ELSE Told

OrderDay(d) ==
    /\ \A k \in Kind : Rising(held[d][k])
    /\ Rising(page[d]) /\ Below(Range(held[d]["data"]), Range(page[d]))
    /\ Kept(d) \cup Range(page[d]) \subseteq 1..Told

OrderLog ==
    /\ job.op = "add" => job.n = calls /\ calls >= 1
    /\ RisingLog(wal) /\ Numbers(wal) \subseteq 1..WalTop
    /\ RisingLog(replay) /\ Numbers(replay) \subseteq 1..calls

\* What a replay has left is later than what it has put into pages.
OrderReplay ==
    /\ job.op = "replay" =>
          /\ job.n \in 1..calls
          /\ Below(Range(held[job.day]["data"]), {job.n})
          /\ Below({job.n}, Numbers(replay))
          /\ \A d \in Day : Below(Range(page[d]), {job.n})
    /\ pc = "replay" => \A d \in Day : Below(Range(page[d]), Numbers(replay))

OrderOK == (\A d \in Day : OrderDay(d)) /\ OrderLog /\ OrderReplay

LEMMA ToldNext ==
    ASSUME Base, Next
    PROVE  /\ calls \in Nat /\ calls' \in Nat /\ calls' >= calls
           /\ Told \in Int /\ Told' \in Int /\ Told' >= Told
           /\ WalTop \in Int /\ WalTop' \in Int /\ WalTop' >= WalTop
           /\ Told <= WalTop /\ WalTop <= calls
<1>0. calls \in Nat /\ job \in Jobs /\ FlowOK /\ TypeOK
  BY TypeParts DEF Base, BookTypes, PlaceTypes
<1>t. Told \in Int /\ WalTop \in Int /\ Told <= WalTop /\ WalTop <= calls
  BY <1>0 DEF Told, WalTop
<1> DEFINE Up == calls' \in Nat /\ calls' >= calls /\ Told' >= Told /\ WalTop' >= WalTop
\* Steps that change none of the three, and steps that leave the call.
<1>s. UNCHANGED <<calls, pc, job>> => Up
  BY <1>0, <1>t DEF Told, WalTop
<1>e. calls' = calls /\ job' = NoJob => Up
  BY <1>0, <1>t DEF Told, WalTop, NoJob
<1>1. ASSUME Open PROVE Up
  BY <1>1, <1>0, <1>t, <1>s, <1>e DEF Open, FlowOK, Building, Told, WalTop, NoJob
<1>2. ASSUME ReplaySkip PROVE Up
  BY <1>2, <1>0, <1>t, <1>s, <1>e DEF ReplaySkip, FlowOK, Building, Told, WalTop, NoJob
<1>3. ASSUME ReplayTake PROVE Up
  BY <1>3, <1>0, <1>t, <1>s, <1>e DEF ReplayTake, FlowOK, Building, Told, WalTop, NoJob
<1>4. ASSUME ReplayRefused PROVE Up
  BY <1>4, <1>0, <1>t, <1>s, <1>e DEF ReplayRefused, LoseMemory, FlowOK, Building, Told,
     WalTop, NoJob
<1>5. ASSUME ReplayDone PROVE Up
  BY <1>5, <1>0, <1>t, <1>s, <1>e DEF ReplayDone, FlowOK, Building, Told, WalTop, NoJob
<1>6. ASSUME NEW d \in Day, BeginAdd(d) PROVE Up
  BY <1>6, <1>0, <1>t, <1>s, <1>e DEF BeginAdd, FlowOK, Building, Told, WalTop, NoJob
<1>7. ASSUME OpenDay PROVE Up
  BY <1>7, <1>0, <1>t, <1>s, <1>e DEF OpenDay, FlowOK, Building, Told, WalTop, NoJob
<1>8. ASSUME SealPage PROVE Up
  <2>1. job'.op = job.op /\ calls' = calls
    BY <1>0, <1>8 DEF SealPage, Jobs
  <2> QED
    BY <1>0, <1>8, <1>t, <2>1 DEF SealPage, Told, WalTop
<1>9. ASSUME SealReset PROVE Up
  BY <1>9, <1>0, <1>t, <1>s, <1>e DEF SealReset, FlowOK, Building, Told, WalTop, NoJob
<1>10. ASSUME WriteMetricFile PROVE Up
  <2>1. job'.op = job.op /\ calls' = calls
    BY <1>0, <1>10 DEF WriteMetricFile, Jobs
  <2> QED
    BY <1>0, <1>10, <1>t, <2>1 DEF WriteMetricFile, Told, WalTop
<1>11. ASSUME KeepSource PROVE Up
  BY <1>11, <1>0, <1>t, <1>s, <1>e DEF KeepSource, AfterBuild, Return, FlowOK, Building,
     Told, WalTop, NoJob
<1>12. ASSUME DeleteSource PROVE Up
  BY <1>12, <1>0, <1>t, <1>s, <1>e DEF DeleteSource, AfterBuild, Return, FlowOK,
     Building, Told, WalTop, NoJob
<1>13. ASSUME RemoveOldRaw PROVE Up
  BY <1>13, <1>0, <1>t, <1>s, <1>e DEF RemoveOldRaw, FlowOK, Building, Told, WalTop,
     NoJob
<1>14. ASSUME RenameSource PROVE Up
  BY <1>14, <1>0, <1>t, <1>s, <1>e DEF RenameSource, AfterBuild, Return, FlowOK,
     Building, Told, WalTop, NoJob
<1>15. ASSUME SweepDay PROVE Up
  BY <1>15, <1>0, <1>t, <1>s, <1>e DEF SweepDay, FlowOK, Building, Told, WalTop, NoJob
<1>16. ASSUME RemoveFile PROVE Up
  BY <1>16, <1>0, <1>t, <1>s, <1>e DEF RemoveFile, FlowOK, Building, Told, WalTop, NoJob
<1>17. ASSUME SweepDone PROVE Up
  BY <1>17, <1>0, <1>t, <1>s, <1>e DEF SweepDone, FlowOK, Building, Told, WalTop, NoJob
<1>18. ASSUME LogSample PROVE Up
  BY <1>18, <1>0, <1>t, <1>s, <1>e DEF LogSample, FlowOK, Building, Told, WalTop, NoJob
<1>19. ASSUME StoreSample PROVE Up
  BY <1>19, <1>0, <1>t, <1>s, <1>e DEF StoreSample, FlowOK, Building, Told, WalTop,
     NoJob
<1>20. ASSUME NEW d \in Day, FlushOther(d) PROVE Up
  BY <1>20, <1>0, <1>t, <1>s, <1>e DEF FlushOther, FlowOK, Building, Told, WalTop, NoJob
<1>21. ASSUME NEW d \in Day, DrainPage(d) PROVE Up
  BY <1>21, <1>0, <1>t, <1>s, <1>e DEF DrainPage, FlowOK, Building, Told, WalTop, NoJob
<1>22. ASSUME NEW d \in Day, Recompact(d) PROVE Up
  BY <1>22, <1>0, <1>t, <1>s, <1>e DEF Recompact, FlowOK, Building, Told, WalTop, NoJob
<1>23. ASSUME NEW d \in Day, Compact(d) PROVE Up
  BY <1>23, <1>0, <1>t, <1>s, <1>e DEF Compact, FlowOK, Building, Told, WalTop, NoJob
<1>24. ASSUME OthersDone PROVE Up
  BY <1>24, <1>0, <1>t, <1>s, <1>e DEF OthersDone, Return, FlowOK, Building, Told,
     WalTop, NoJob
<1>25. ASSUME FullReset PROVE Up
  BY <1>25, <1>0, <1>t, <1>s, <1>e DEF FullReset, Return, FlowOK, Building, Told,
     WalTop, NoJob
<1>26. ASSUME NEW op \in {"flush", "close"}, BeginDrain(op) PROVE Up
  BY <1>26, <1>0, <1>t, <1>s, <1>e DEF BeginDrain, FlowOK, Building, Told, WalTop, NoJob
<1>27. ASSUME DrainDone PROVE Up
  BY <1>27, <1>0, <1>t, <1>s, <1>e DEF DrainDone, LoseMemory, Return, FlowOK, Building,
     Told, WalTop, NoJob
<1>28. ASSUME Crash PROVE Up
  BY <1>28, <1>0, <1>t, <1>s, <1>e DEF Crash, LoseMemory, FlowOK, Building, Told,
     WalTop, NoJob
<1>29. ASSUME NEW d \in Day, QueryStart(d) PROVE Up
  BY <1>29, <1>0, <1>t, <1>s, <1>e DEF QueryStart, FlowOK, Building, Told, WalTop, NoJob
<1>30. ASSUME QueryMetric PROVE Up
  BY <1>30, <1>0, <1>t, <1>s, <1>e DEF QueryMetric, FlowOK, Building, Told, WalTop,
     NoJob
<1>31. ASSUME QueryResolve PROVE Up
  BY <1>31, <1>0, <1>t, <1>s, <1>e DEF QueryResolve, FlowOK, Building, Told, WalTop,
     NoJob
<1>32. ASSUME QuerySource PROVE Up
  BY <1>32, <1>0, <1>t, <1>s, <1>e DEF QuerySource, FlowOK, Building, Told, WalTop,
     NoJob
<1>33. ASSUME QueryPage PROVE Up
  BY <1>33, <1>0, <1>t, <1>s, <1>e DEF QueryPage, FlowOK, Building, Told, WalTop, NoJob
<1>34. ASSUME QueryReturn PROVE Up
  BY <1>34, <1>0, <1>t, <1>s, <1>e DEF QueryReturn, FlowOK, Building, Told, WalTop,
     NoJob
<1>r. Up
  BY <1>1, <1>2, <1>3, <1>4, <1>5, <1>6, <1>7, <1>8, <1>9, <1>10, <1>11, <1>12, <1>13,
<1>14, <1>15, <1>16, <1>17, <1>18, <1>19, <1>20, <1>21, <1>22, <1>23, <1>24, <1>25,
<1>26, <1>27, <1>28, <1>29, <1>30, <1>31, <1>32, <1>33, <1>34 DEF Next, Write,
Query, Seal
<1>u. calls' \in Nat
  BY <1>r
<1>v. Told' \in Int /\ WalTop' \in Int
  BY <1>u DEF Told, WalTop
<1> QED
  BY <1>0, <1>t, <1>r, <1>v

\* A step that adds nothing to a file or a page.
Fades == /\ \A d \in Day, k \in Kind : held'[d][k] = held[d][k] \/ held'[d][k] = <<>>
         /\ \A d \in Day : page'[d] = page[d] \/ page'[d] = <<>>

LEMMA Effects ==
    ASSUME FilesInv, Next
    PROVE  \/ Fades
           \/ \E a \in Day : /\ page[a] # <<>> /\ AppendFrame(a) /\ (pc = "open" => a # job.day)
                            /\ pc \in {"open", "others", "drain"}
           \/ WriteMetricFile \/ RenameSource \/ StoreSample
<1>0. TypeOK /\ SolidOK /\ Base
  BY DEF FilesInv, FilesOK, Base
<1> DEFINE Appending == \E a \in Day : /\ page[a] # <<>> /\ AppendFrame(a) /\ (pc = "open" => a # job.day)
                                     /\ pc \in {"open", "others", "drain"}
<1>s. UNCHANGED file /\ (page' = page \/ page' = NoPages) => Fades
  BY <1>0, FilesStay DEF Fades, NoPages
<1>d. ASSUME NEW s \in Day, NEW k \in Kind, file' = [file EXCEPT ![s][k] = <<>>], page' = page
      PROVE  Fades
  <2>1. Sets(s, k, <<>>)
    BY <1>0, <1>d, Removes, Zenon
  <2> QED
    BY <1>d, <2>1 DEF Sets, Fades
<1>1. ASSUME Open PROVE Fades \/ Appending
  BY <1>1, <1>s DEF Open
<1>2. ASSUME ReplaySkip PROVE Fades \/ Appending
  BY <1>2, <1>s DEF ReplaySkip
<1>3. ASSUME ReplayTake PROVE Fades \/ Appending
  BY <1>3, <1>s DEF ReplayTake
<1>4. ASSUME ReplayRefused PROVE Fades \/ Appending
  BY <1>4, <1>s DEF ReplayRefused, LoseMemory
<1>5. ASSUME ReplayDone PROVE Fades \/ Appending
  BY <1>5, <1>s DEF ReplayDone
<1>6. ASSUME NEW d \in Day, BeginAdd(d) PROVE Fades \/ Appending
  BY <1>6, <1>s DEF BeginAdd
<1>7. ASSUME OpenDay PROVE Fades \/ Appending
  BY <1>7, <1>s DEF OpenDay
<1>8. ASSUME SealPage PROVE Fades \/ Appending
  <2>1. \E a \in Day : a = OldestOpen /\ a \in open
    BY <1>0, <1>8, OldestOpenIs DEF SealPage
  <2>2. PICK a \in Day : a = OldestOpen /\ a \in open
    BY <2>1, Zenon
  <2>3. CASE page[a] # <<>>
    BY <1>8, <2>2, <2>3 DEF SealPage
  <2>4. CASE page[a] = <<>>
    BY <1>s, <1>8, <2>2, <2>4 DEF SealPage
  <2> QED
    BY <2>3, <2>4
<1>9. ASSUME SealReset PROVE Fades \/ Appending
  BY <1>9, <1>s DEF SealReset
<1>10. ASSUME KeepSource PROVE Fades \/ Appending
  BY <1>10, <1>s DEF KeepSource
<1>11. ASSUME DeleteSource PROVE Fades \/ Appending
  <2>1. \E s \in Day, k \in Kind : s = job.seal /\ k = job.from
    BY <1>0, <1>11, TypeParts DEF DeleteSource, Base, PlaceOK, Sealing, PlaceTypes, Jobs
  <2>2. PICK s \in Day, k \in Kind : s = job.seal /\ k = job.from
    BY <2>1, Zenon
  <2>3. file' = [file EXCEPT ![s][k] = <<>>] /\ page' = page
    BY <1>11, <2>2 DEF DeleteSource
  <2> QED
    BY <1>d, <2>3, Zenon
<1>12. ASSUME RemoveOldRaw PROVE Fades \/ Appending
  <2>1. \E s \in Day : s = job.seal
    BY <1>0, <1>12 DEF RemoveOldRaw, Base, PlaceOK, Sealing
  <2>2. PICK s \in Day : s = job.seal
    BY <2>1, Zenon
  <2>3. file' = [file EXCEPT ![s]["raw"] = <<>>] /\ page' = page /\ "raw" \in Kind
    BY <1>12, <2>2, Kinds DEF RemoveOldRaw
  <2> QED
    BY <1>d, <2>3, Zenon
<1>13. ASSUME SweepDay PROVE Fades \/ Appending
  BY <1>13, <1>s DEF SweepDay
<1>14. ASSUME RemoveFile PROVE Fades \/ Appending
  <2>1. page' = page
    BY <1>14 DEF RemoveFile
  <2>2. PICK d \in Day, k \in Kind : file' = [file EXCEPT ![d][k] = <<>>]
    BY <1>0, <1>14, SweepsFile, Zenon
  <2> QED
    BY <1>d, <2>1, <2>2, Zenon
<1>15. ASSUME SweepDone PROVE Fades \/ Appending
  BY <1>15, <1>s DEF SweepDone
<1>16. ASSUME LogSample PROVE Fades \/ Appending
  BY <1>16, <1>s DEF LogSample
<1>17. ASSUME NEW d \in Day, FlushOther(d) PROVE Fades \/ Appending
  BY <1>17 DEF FlushOther
<1>18. ASSUME NEW d \in Day, DrainPage(d) PROVE Fades \/ Appending
  BY <1>18 DEF DrainPage
<1>19. ASSUME NEW d \in Day, Recompact(d) PROVE Fades \/ Appending
  <2>1. held' = held /\ page' = page
    BY <1>0, <1>19, Repacks DEF Recompact
  <2> QED
    BY <2>1 DEF Fades
<1>20. ASSUME NEW d \in Day, Compact(d) PROVE Fades \/ Appending
  BY <1>20, <1>s DEF Compact
<1>21. ASSUME OthersDone PROVE Fades \/ Appending
  <2>1. CASE Full(job.day)
    <3>1. job.day \in Day /\ page[job.day] # <<>> /\ AppendFrame(job.day)
      BY <1>0, <1>21, <2>1, FullPage DEF Base
    <3>2. PICK a \in Day : a = job.day
      BY <3>1, Zenon
    <3>3. pc = "others"
      BY <1>21 DEF OthersDone
    <3> QED
      BY <3>1, <3>2, <3>3
  <2>2. CASE ~Full(job.day)
    BY <1>s, <1>21, <2>2 DEF OthersDone
  <2> QED
    BY <2>1, <2>2
<1>22. ASSUME FullReset PROVE Fades \/ Appending
  BY <1>22, <1>s DEF FullReset
<1>23. ASSUME NEW op \in {"flush", "close"}, BeginDrain(op) PROVE Fades \/ Appending
  BY <1>23, <1>s DEF BeginDrain
<1>24. ASSUME DrainDone PROVE Fades \/ Appending
  BY <1>24, <1>s DEF DrainDone, LoseMemory
<1>25. ASSUME Crash PROVE Fades \/ Appending
  BY <1>25, <1>s DEF Crash, LoseMemory
<1>26. ASSUME NEW d \in Day, QueryStart(d) PROVE Fades \/ Appending
  BY <1>26, <1>s DEF QueryStart
<1>27. ASSUME QueryMetric PROVE Fades \/ Appending
  BY <1>27, <1>s DEF QueryMetric
<1>28. ASSUME QueryResolve PROVE Fades \/ Appending
  BY <1>28, <1>s DEF QueryResolve
<1>29. ASSUME QuerySource PROVE Fades \/ Appending
  BY <1>29, <1>s DEF QuerySource
<1>30. ASSUME QueryPage PROVE Fades \/ Appending
  BY <1>30, <1>s DEF QueryPage
<1>31. ASSUME QueryReturn PROVE Fades \/ Appending
  BY <1>31, <1>s DEF QueryReturn
<1> QED
  BY <1>1, <1>2, <1>3, <1>4, <1>5, <1>6, <1>7, <1>8, <1>9, <1>10, <1>11, <1>12, <1>13,
<1>14, <1>15, <1>16, <1>17, <1>18, <1>19, <1>20, <1>21, <1>22, <1>23, <1>24, <1>25,
<1>26, <1>27, <1>28, <1>29, <1>30, <1>31 DEF Next, Write, Query, Seal

LEMMA RiseTop ==
    ASSUME Base, Next, NEW n \in 1..Told
    PROVE  n \in 1..Told'
  BY ToldNext

LEMMA OrderFade ==
    ASSUME Base, Next, NEW d \in Day, OrderDay(d),
           \A k \in Kind : held'[d][k] = held[d][k] \/ held'[d][k] = <<>>,
           page'[d] = page[d] \/ page'[d] = <<>>
    PROVE  OrderDay(d)'
<1>1. \A k \in Kind : Rising(held'[d][k])
  BY RangeEmpty DEF OrderDay
<1>2. Rising(page'[d]) /\ Range(page'[d]) \subseteq Range(page[d])
  BY RangeEmpty DEF OrderDay
<1>3. /\ Range(held'[d]["data"]) \subseteq Range(held[d]["data"])
      /\ Range(held'[d]["metric"]) \subseteq Range(held[d]["metric"])
      /\ Range(held'[d]["raw"]) \subseteq Range(held[d]["raw"])
  BY RangeEmpty, Kinds
<1>4. Below(Range(held'[d]["data"]), Range(page'[d]))
  BY <1>2, <1>3 DEF OrderDay, Below
<1>5. Kept(d)' \cup Range(page'[d]) \subseteq Kept(d) \cup Range(page[d])
  BY <1>2, <1>3 DEF Kept
<1>6. Kept(d)' \cup Range(page'[d]) \subseteq 1..Told'
  BY <1>5, RiseTop DEF OrderDay
<1> QED
  BY <1>1, <1>2, <1>4, <1>6 DEF OrderDay

LEMMA OrderDaysNext ==
    ASSUME FilesInv, OrderOK, Next, NEW d \in Day
    PROVE  OrderDay(d)'
<1>0. /\ TypeOK /\ SolidOK /\ Base /\ OrderDay(d)
      /\ held \in [Day -> [Kind -> Seq(Nat)]] /\ page \in [Day -> Seq(Nat)]
  BY HeldIs, TypeParts DEF FilesInv, FilesOK, Base, OrderOK, DaysTypes
<1>1. CASE Fades
  BY <1>0, <1>1, OrderFade DEF Fades
<1>2. ASSUME NEW a \in Day, page[a] # <<>>, AppendFrame(a) PROVE OrderDay(d)'
  <2>1. Sets(a, "data", held[a]["data"] \o page[a]) /\ page' = [page EXCEPT ![a] = <<>>]
    BY <1>0, <1>2, Appends DEF AppendFrame
  <2>2. CASE d # a
    <3>1. (\A k \in Kind : held'[d][k] = held[d][k]) /\ page'[d] = page[d]
      BY <1>0, <2>1, <2>2 DEF Sets
    <3> QED
      BY <1>0, <3>1, OrderFade
  <2>3. CASE d = a
    <3> DEFINE s == held[d]["data"]
               t == page[d]
    <3>1. /\ held'[d]["data"] = s \o t /\ held'[d]["metric"] = held[d]["metric"]
          /\ held'[d]["raw"] = held[d]["raw"] /\ page'[d] = <<>>
          /\ s \in Seq(Nat) /\ t \in Seq(Nat)
      BY <1>0, <2>1, <2>3, Kinds DEF Sets
    <3>2. Rising(s) /\ Rising(t) /\ Below(Range(s), Range(t))
      BY <1>0, Kinds DEF OrderDay
    <3> HIDE DEF s, t
    <3>3. Rising(s \o t) /\ Range(s \o t) = Range(s) \cup Range(t)
      BY <3>1, <3>2, RangeJoined, RisingJoined
    <3>4. \A k \in Kind : Rising(held'[d][k])
      BY <1>0, <3>1, <3>3, Kinds DEF OrderDay
    <3>5. Kept(d)' \cup Range(page'[d]) \subseteq Kept(d) \cup Range(page[d])
      BY <3>1, <3>3, RangeEmpty DEF Kept, s, t
    <3>6. Kept(d)' \cup Range(page'[d]) \subseteq 1..Told'
      BY <1>0, <3>5, RiseTop DEF OrderDay
    <3> QED
      BY <3>1, <3>4, <3>6, RangeEmpty DEF OrderDay, Below
  <2> QED
    BY <2>2, <2>3
<1>3. CASE WriteMetricFile
  <2>1. PICK s \in Day, k \in {"data", "raw"} : Sets(s, "metric", held[s][k])
    BY <1>0, <1>3, Writes
  <2>2. page' = page
    BY <1>3 DEF WriteMetricFile
  <2>3. CASE d # s
    <3>1. \A j \in Kind : held'[d][j] = held[d][j]
      BY <2>1, <2>3 DEF Sets
    <3> QED
      BY <1>0, <2>2, <3>1, OrderFade
  <2>4. CASE d = s
    <3>1. /\ held'[d]["data"] = held[d]["data"] /\ held'[d]["metric"] = held[d][k]
          /\ held'[d]["raw"] = held[d]["raw"]
      BY <2>1, <2>4, Kinds DEF Sets
    <3>2. \A j \in Kind : Rising(held'[d][j])
      BY <1>0, <3>1, Kinds DEF OrderDay
    <3>3. Kept(d)' \cup Range(page'[d]) \subseteq Kept(d) \cup Range(page[d])
      BY <2>2, <3>1 DEF Kept
    <3>4. Kept(d)' \cup Range(page'[d]) \subseteq 1..Told'
      BY <1>0, <3>3, RiseTop DEF OrderDay
    <3> QED
      BY <1>0, <2>2, <3>1, <3>2, <3>4 DEF OrderDay
  <2> QED
    BY <2>3, <2>4
<1>4. CASE RenameSource
  <2>1. \E s \in Day : s = job.seal
    BY <1>0, <1>4 DEF RenameSource, Base, PlaceOK, Sealing
  <2>2. PICK s \in Day : s = job.seal
    BY <2>1, Zenon
  <2>3. file' = [file EXCEPT ![s]["raw"] = file[s]["data"], ![s]["data"] = <<>>] /\ page' = page
    BY <1>4, <2>2 DEF RenameSource
  <2>4. /\ held'[s]["raw"] = held[s]["data"] /\ held'[s]["data"] = <<>>
        /\ held'[s]["metric"] = held[s]["metric"]
        /\ \A e \in Day \ {s}, j \in Kind : held'[e][j] = held[e][j]
    BY <1>0, <2>3, Renames, Zenon
  <2>5. CASE d # s
    BY <1>0, <2>3, <2>4, <2>5, OrderFade
  <2>6. CASE d = s
    <3>1. \A j \in Kind : Rising(held'[d][j])
      BY <1>0, <2>4, <2>6, RangeEmpty, Kinds DEF OrderDay
    <3>2. Kept(d)' \cup Range(page'[d]) \subseteq Kept(d) \cup Range(page[d])
      BY <2>3, <2>4, <2>6, RangeEmpty DEF Kept
    <3>3. Kept(d)' \cup Range(page'[d]) \subseteq 1..Told'
      BY <1>0, <3>2, RiseTop DEF OrderDay
    <3> QED
      BY <1>0, <2>3, <2>4, <2>6, <3>1, <3>3, RangeEmpty DEF OrderDay, Below
  <2> QED
    BY <2>5, <2>6
<1>5. CASE StoreSample
  <2>1. /\ pc = "store" /\ page' = [page EXCEPT ![job.day] = Append(@, job.n)]
        /\ job.op \in {"add", "replay"} /\ job.n \in Nat /\ calls' = calls
        /\ job.op = "add" => pc' = "others" /\ job' = job
        /\ job.op = "replay" => job' = NoJob
    BY <1>0, <1>5, TypeParts DEF StoreSample, Base, FlowOK, PlaceTypes, Jobs
  <2>2. held' = held
    BY <1>0, <1>5, FilesStay DEF StoreSample
  <2>3. CASE d # job.day
    BY <1>0, <2>1, <2>2, <2>3, OrderFade
  <2>4. CASE d = job.day
    <3> DEFINE t == page[d]
               n == job.n
    <3>1. page'[d] = Append(t, n) /\ t \in Seq(Nat) /\ n \in Nat
      BY <1>0, <2>1, <2>4
    <3>2. Below(Range(held[d]["data"]), {n}) /\ Below(Range(t), {n}) /\ n \in 1..Told'
      <4>1. CASE job.op = "add"
        <5>1. n = calls /\ Told = calls - 1 /\ Told' = calls /\ calls \in Nat
          BY <1>0, <2>1, <4>1, ToldNext DEF Told, OrderOK, OrderLog
        <5>2. Range(held[d]["data"]) \subseteq 1..Told /\ Range(t) \subseteq 1..Told
          BY <1>0 DEF OrderDay, Kept
        <5>3. \A x \in 1..Told : x < n
          BY <5>1
        <5>4. n \in 1..Told'
          <6>1. calls >= 1
            BY <4>1 DEF OrderOK, OrderLog
          <6> QED
            BY <5>1, <6>1
        <5> QED
          BY <5>2, <5>3, <5>4 DEF Below
      <4>2. CASE job.op = "replay"
        <5>1. /\ n \in 1..calls /\ Below(Range(held[d]["data"]), {n}) /\ Below(Range(t), {n})
          BY <2>4, <4>2 DEF OrderOK, OrderReplay
        <5>2. Told' = calls
          BY <2>1, <4>2 DEF Told, NoJob
        <5> QED
          BY <5>1, <5>2
      <4> QED
        BY <2>1, <4>1, <4>2
    <3>3. Rising(t) /\ Below(Range(held[d]["data"]), Range(t))
      BY <1>0 DEF OrderDay
    <3> HIDE DEF t, n
    <3>4. Range(page'[d]) = Range(t) \cup {n} /\ Rising(page'[d])
      BY <3>1, <3>2, <3>3, Appended
    <3>5. Below(Range(held'[d]["data"]), Range(page'[d]))
      BY <2>2, <3>2, <3>3, <3>4 DEF Below
    <3>6. Kept(d)' \cup Range(page'[d]) \subseteq 1..Told'
      <4>1. Kept(d)' \cup Range(page'[d]) \subseteq Kept(d) \cup Range(page[d]) \cup {n}
        BY <2>2, <3>4 DEF Kept, t
      <4> QED
        BY <1>0, <3>2, <4>1, RiseTop DEF OrderDay
    <3> QED
      BY <1>0, <2>2, <3>4, <3>5, <3>6 DEF OrderDay
  <2> QED
    BY <2>3, <2>4
<1> QED
  BY <1>1, <1>2, <1>3, <1>4, <1>5, Effects

LEMMA OrderLogNext ==
    ASSUME FilesInv, OrderOK, Next
    PROVE  OrderLog'
<1>0. /\ TypeOK /\ Base /\ OrderLog /\ FlowOK
      /\ wal \in Seq(Sample) /\ replay \in Seq(Sample) /\ job \in Jobs
  BY TypeParts DEF FilesInv, Base, OrderOK, DiskTypes, PlaceTypes
<1>1. job'.op = "add" => job'.n = calls' /\ calls' >= 1
  <2>1. ASSUME NEW d \in Day, BeginAdd(d) PROVE job'.n = calls' /\ calls' >= 1
    BY <1>0, <2>1, ToldNext DEF BeginAdd, NoJob
  <2>2. ASSUME job'.op = "add", ~\E d \in Day : BeginAdd(d)
        PROVE  job.op = "add" /\ job'.n = job.n /\ calls' = calls
    <3> DEFINE Same == job.op = "add" /\ job'.n = job.n /\ calls' = calls
    <3>1. ASSUME Open PROVE Same
      BY <3>1, <1>0, <2>2 DEF Open, NoJob, Jobs
    <3>2. ASSUME ReplaySkip PROVE Same
      BY <3>2, <1>0, <2>2 DEF ReplaySkip, NoJob, Jobs
    <3>3. ASSUME ReplayTake PROVE Same
      BY <3>3, <1>0, <2>2 DEF ReplayTake, NoJob, Jobs
    <3>4. ASSUME ReplayRefused PROVE Same
      BY <3>4, <1>0, <2>2 DEF ReplayRefused, LoseMemory, NoJob, Jobs
    <3>5. ASSUME ReplayDone PROVE Same
      BY <3>5, <1>0, <2>2 DEF ReplayDone, NoJob, Jobs
    <3>6. ASSUME OpenDay PROVE Same
      BY <3>6, <1>0, <2>2 DEF OpenDay, NoJob, Jobs
    <3>7. ASSUME SealPage PROVE Same
      BY <3>7, <1>0, <2>2 DEF SealPage, NoJob, Jobs
    <3>8. ASSUME SealReset PROVE Same
      BY <3>8, <1>0, <2>2 DEF SealReset, NoJob, Jobs
    <3>9. ASSUME WriteMetricFile PROVE Same
      BY <3>9, <1>0, <2>2 DEF WriteMetricFile, NoJob, Jobs
    <3>10. ASSUME KeepSource PROVE Same
      BY <3>10, <1>0, <2>2 DEF KeepSource, AfterBuild, Return, NoJob, Jobs
    <3>11. ASSUME DeleteSource PROVE Same
      BY <3>11, <1>0, <2>2 DEF DeleteSource, AfterBuild, Return, NoJob, Jobs
    <3>12. ASSUME RemoveOldRaw PROVE Same
      BY <3>12, <1>0, <2>2 DEF RemoveOldRaw, NoJob, Jobs
    <3>13. ASSUME RenameSource PROVE Same
      BY <3>13, <1>0, <2>2 DEF RenameSource, AfterBuild, Return, NoJob, Jobs
    <3>14. ASSUME SweepDay PROVE Same
      BY <3>14, <1>0, <2>2 DEF SweepDay, NoJob, Jobs
    <3>15. ASSUME RemoveFile PROVE Same
      BY <3>15, <1>0, <2>2 DEF RemoveFile, NoJob, Jobs
    <3>16. ASSUME SweepDone PROVE Same
      BY <3>16, <1>0, <2>2 DEF SweepDone, NoJob, Jobs
    <3>17. ASSUME LogSample PROVE Same
      BY <3>17, <1>0, <2>2 DEF LogSample, NoJob, Jobs
    <3>18. ASSUME StoreSample PROVE Same
      BY <3>18, <1>0, <2>2 DEF StoreSample, NoJob, Jobs
    <3>19. ASSUME NEW d \in Day, FlushOther(d) PROVE Same
      BY <3>19, <1>0, <2>2 DEF FlushOther, NoJob, Jobs
    <3>20. ASSUME NEW d \in Day, DrainPage(d) PROVE Same
      BY <3>20, <1>0, <2>2 DEF DrainPage, NoJob, Jobs
    <3>21. ASSUME NEW d \in Day, Recompact(d) PROVE Same
      BY <3>21, <1>0, <2>2 DEF Recompact, NoJob, Jobs
    <3>22. ASSUME NEW d \in Day, Compact(d) PROVE Same
      BY <3>22, <1>0, <2>2 DEF Compact, NoJob, Jobs
    <3>23. ASSUME OthersDone PROVE Same
      BY <3>23, <1>0, <2>2 DEF OthersDone, Return, NoJob, Jobs
    <3>24. ASSUME FullReset PROVE Same
      BY <3>24, <1>0, <2>2 DEF FullReset, Return, NoJob, Jobs
    <3>25. ASSUME NEW op \in {"flush", "close"}, BeginDrain(op) PROVE Same
      BY <3>25, <1>0, <2>2 DEF BeginDrain, NoJob, Jobs
    <3>26. ASSUME DrainDone PROVE Same
      BY <3>26, <1>0, <2>2 DEF DrainDone, LoseMemory, Return, NoJob, Jobs
    <3>27. ASSUME Crash PROVE Same
      BY <3>27, <1>0, <2>2 DEF Crash, LoseMemory, NoJob, Jobs
    <3>28. ASSUME NEW d \in Day, QueryStart(d) PROVE Same
      BY <3>28, <1>0, <2>2 DEF QueryStart, NoJob, Jobs
    <3>29. ASSUME QueryMetric PROVE Same
      BY <3>29, <1>0, <2>2 DEF QueryMetric, NoJob, Jobs
    <3>30. ASSUME QueryResolve PROVE Same
      BY <3>30, <1>0, <2>2 DEF QueryResolve, NoJob, Jobs
    <3>31. ASSUME QuerySource PROVE Same
      BY <3>31, <1>0, <2>2 DEF QuerySource, NoJob, Jobs
    <3>32. ASSUME QueryPage PROVE Same
      BY <3>32, <1>0, <2>2 DEF QueryPage, NoJob, Jobs
    <3>33. ASSUME QueryReturn PROVE Same
      BY <3>33, <1>0, <2>2 DEF QueryReturn, NoJob, Jobs
    <3> QED
      BY <2>2, <3>1, <3>2, <3>3, <3>4, <3>5, <3>6, <3>7, <3>8, <3>9, <3>10, <3>11, <3>12,
    <3>13, <3>14, <3>15, <3>16, <3>17, <3>18, <3>19, <3>20, <3>21, <3>22, <3>23,
    <3>24, <3>25, <3>26, <3>27, <3>28, <3>29, <3>30, <3>31, <3>32, <3>33 DEF Next,
    Write, Query, Seal
  <2> QED
    BY <1>0, <2>1, <2>2 DEF OrderLog
<1>2. RisingLog(wal') /\ Numbers(wal') \subseteq 1..WalTop'
  <2>1. CASE wal' = wal \/ wal' = <<>>
    <3>1. \A n \in 1..WalTop : n \in 1..WalTop'
      BY <1>0, ToldNext
    <3> QED
      BY <1>0, <2>1, <3>1, LogEmpty DEF OrderLog
  <2>2. CASE LogSample
    <3> DEFINE r == [day |-> job.day, n |-> job.n]
    <3>1. /\ wal' = Append(wal, r) /\ pc = "log" /\ pc' = "store" /\ job' = job /\ calls' = calls
          /\ job.op = "add" /\ job.n = calls /\ job.day \in Day
      BY <1>0, <2>2 DEF LogSample, FlowOK, Base, PlaceOK, OrderLog
    <3>2. r \in Sample /\ r.n = calls /\ calls \in Nat /\ calls >= 1
      BY <1>0, <3>1, ToldNext DEF Sample, OrderLog
    <3> HIDE DEF r
    <3>3. WalTop = calls - 1 /\ WalTop' = calls
      BY <3>1 DEF WalTop, Told
    <3>4. Below(Numbers(wal), {r.n})
      BY <1>0, <3>2, <3>3 DEF OrderLog, Below
    <3>5. RisingLog(wal') /\ Numbers(wal') = Numbers(wal) \cup {r.n}
      BY <1>0, <3>1, <3>2, <3>4, LogAppend DEF OrderLog
    <3> QED
      BY <1>0, <3>2, <3>3, <3>5 DEF OrderLog
  <2>3. wal' = wal \/ wal' = <<>> \/ LogSample
    BY DEF Next, Write, Query, Seal, LoseMemory, Open, ReplaySkip, ReplayTake,
       ReplayRefused, ReplayDone, BeginAdd, OpenDay, SealPage, SealReset,
       WriteMetricFile, KeepSource, DeleteSource, RemoveOldRaw, RenameSource, SweepDay,
       RemoveFile, SweepDone, StoreSample, FlushOther, DrainPage, Recompact, Compact,
       OthersDone, FullReset, BeginDrain, DrainDone, Crash, QueryStart, QueryMetric,
       QueryResolve, QuerySource, QueryPage, QueryReturn, ResetIfNoPages
  <2> QED
    BY <2>1, <2>2, <2>3
<1>3. RisingLog(replay') /\ Numbers(replay') \subseteq 1..calls'
  <2>1. CASE replay' = replay \/ replay' = <<>>
    BY <1>0, <2>1, ToldNext, LogEmpty DEF OrderLog
  <2>2. CASE replay # <<>> /\ replay' = Tail(replay)
    <3>1. RisingLog(replay') /\ Numbers(replay') \subseteq Numbers(replay)
      BY <1>0, <2>2, LogTail DEF OrderLog
    <3> QED
      BY <1>0, <3>1, ToldNext DEF OrderLog
  <2>3. CASE replay' = wal
    BY <1>0, <2>3, ToldNext DEF OrderLog
  <2>4. replay' = replay \/ replay' = <<>> \/ (replay # <<>> /\ replay' = Tail(replay)) \/ replay' = wal
    BY DEF Next, Write, Query, Seal, LoseMemory, Open, ReplaySkip, ReplayTake,
       ReplayRefused, ReplayDone, BeginAdd, OpenDay, SealPage, SealReset,
       WriteMetricFile, KeepSource, DeleteSource, RemoveOldRaw, RenameSource, SweepDay,
       RemoveFile, SweepDone, LogSample, StoreSample, FlushOther, DrainPage, Recompact,
       Compact, OthersDone, FullReset, BeginDrain, DrainDone, Crash, QueryStart,
       QueryMetric, QueryResolve, QuerySource, QueryPage, QueryReturn
  <2> QED
    BY <2>1, <2>2, <2>3, <2>4
<1> QED
  BY <1>1, <1>2, <1>3 DEF OrderLog

\* A replay begins with an open, and goes on record by record.
LEMMA ReplayBegins ==
    ASSUME Base, Next, ~Replaying
    PROVE  Open \/ ~Replaying'
<1>0. FlowOK /\ job \in Jobs
  BY TypeParts DEF Base, PlaceTypes
<1>1. ASSUME ReplaySkip PROVE ~Replaying'
  BY <1>1, <1>0 DEF ReplaySkip, Replaying, FlowOK, Building, NoJob, Jobs
<1>2. ASSUME ReplayTake PROVE ~Replaying'
  BY <1>2, <1>0 DEF ReplayTake, Replaying, FlowOK, Building, NoJob, Jobs
<1>3. ASSUME ReplayRefused PROVE ~Replaying'
  BY <1>3, <1>0 DEF ReplayRefused, LoseMemory, Replaying, FlowOK, Building, NoJob, Jobs
<1>4. ASSUME ReplayDone PROVE ~Replaying'
  BY <1>4, <1>0 DEF ReplayDone, Replaying, FlowOK, Building, NoJob, Jobs
<1>5. ASSUME NEW d \in Day, BeginAdd(d) PROVE ~Replaying'
  BY <1>5, <1>0 DEF BeginAdd, Replaying, FlowOK, Building, NoJob, Jobs
<1>6. ASSUME OpenDay PROVE ~Replaying'
  BY <1>6, <1>0 DEF OpenDay, Replaying, FlowOK, Building, NoJob, Jobs
<1>7. ASSUME SealPage PROVE ~Replaying'
  BY <1>7, <1>0 DEF SealPage, Replaying, FlowOK, Building, NoJob, Jobs
<1>8. ASSUME SealReset PROVE ~Replaying'
  BY <1>8, <1>0 DEF SealReset, Replaying, FlowOK, Building, NoJob, Jobs
<1>9. ASSUME WriteMetricFile PROVE ~Replaying'
  BY <1>9, <1>0 DEF WriteMetricFile, Replaying, FlowOK, Building, NoJob, Jobs
<1>10. ASSUME KeepSource PROVE ~Replaying'
  BY <1>10, <1>0 DEF KeepSource, AfterBuild, Return, Replaying, FlowOK, Building, NoJob,
     Jobs
<1>11. ASSUME DeleteSource PROVE ~Replaying'
  BY <1>11, <1>0 DEF DeleteSource, AfterBuild, Return, Replaying, FlowOK, Building,
     NoJob, Jobs
<1>12. ASSUME RemoveOldRaw PROVE ~Replaying'
  BY <1>12, <1>0 DEF RemoveOldRaw, Replaying, FlowOK, Building, NoJob, Jobs
<1>13. ASSUME RenameSource PROVE ~Replaying'
  BY <1>13, <1>0 DEF RenameSource, AfterBuild, Return, Replaying, FlowOK, Building,
     NoJob, Jobs
<1>14. ASSUME SweepDay PROVE ~Replaying'
  BY <1>14, <1>0 DEF SweepDay, Replaying, FlowOK, Building, NoJob, Jobs
<1>15. ASSUME RemoveFile PROVE ~Replaying'
  BY <1>15, <1>0 DEF RemoveFile, Replaying, FlowOK, Building, NoJob, Jobs
<1>16. ASSUME SweepDone PROVE ~Replaying'
  BY <1>16, <1>0 DEF SweepDone, Replaying, FlowOK, Building, NoJob, Jobs
<1>17. ASSUME LogSample PROVE ~Replaying'
  BY <1>17, <1>0 DEF LogSample, Replaying, FlowOK, Building, NoJob, Jobs
<1>18. ASSUME StoreSample PROVE ~Replaying'
  BY <1>18, <1>0 DEF StoreSample, Replaying, FlowOK, Building, NoJob, Jobs
<1>19. ASSUME NEW d \in Day, FlushOther(d) PROVE ~Replaying'
  BY <1>19, <1>0 DEF FlushOther, Replaying, FlowOK, Building, NoJob, Jobs
<1>20. ASSUME NEW d \in Day, DrainPage(d) PROVE ~Replaying'
  BY <1>20, <1>0 DEF DrainPage, Replaying, FlowOK, Building, NoJob, Jobs
<1>21. ASSUME NEW d \in Day, Recompact(d) PROVE ~Replaying'
  BY <1>21, <1>0 DEF Recompact, Replaying, FlowOK, Building, NoJob, Jobs
<1>22. ASSUME NEW d \in Day, Compact(d) PROVE ~Replaying'
  BY <1>22, <1>0 DEF Compact, Replaying, FlowOK, Building, NoJob, Jobs
<1>23. ASSUME OthersDone PROVE ~Replaying'
  BY <1>23, <1>0 DEF OthersDone, Return, Replaying, FlowOK, Building, NoJob, Jobs
<1>24. ASSUME FullReset PROVE ~Replaying'
  BY <1>24, <1>0 DEF FullReset, Return, Replaying, FlowOK, Building, NoJob, Jobs
<1>25. ASSUME NEW op \in {"flush", "close"}, BeginDrain(op) PROVE ~Replaying'
  BY <1>25, <1>0 DEF BeginDrain, Replaying, FlowOK, Building, NoJob, Jobs
<1>26. ASSUME DrainDone PROVE ~Replaying'
  BY <1>26, <1>0 DEF DrainDone, LoseMemory, Return, Replaying, FlowOK, Building, NoJob,
     Jobs
<1>27. ASSUME Crash PROVE ~Replaying'
  BY <1>27, <1>0 DEF Crash, LoseMemory, Replaying, FlowOK, Building, NoJob, Jobs
<1>28. ASSUME NEW d \in Day, QueryStart(d) PROVE ~Replaying'
  BY <1>28, <1>0 DEF QueryStart, Replaying, FlowOK, Building, NoJob, Jobs
<1>29. ASSUME QueryMetric PROVE ~Replaying'
  BY <1>29, <1>0 DEF QueryMetric, Replaying, FlowOK, Building, NoJob, Jobs
<1>30. ASSUME QueryResolve PROVE ~Replaying'
  BY <1>30, <1>0 DEF QueryResolve, Replaying, FlowOK, Building, NoJob, Jobs
<1>31. ASSUME QuerySource PROVE ~Replaying'
  BY <1>31, <1>0 DEF QuerySource, Replaying, FlowOK, Building, NoJob, Jobs
<1>32. ASSUME QueryPage PROVE ~Replaying'
  BY <1>32, <1>0 DEF QueryPage, Replaying, FlowOK, Building, NoJob, Jobs
<1>33. ASSUME QueryReturn PROVE ~Replaying'
  BY <1>33, <1>0 DEF QueryReturn, Replaying, FlowOK, Building, NoJob, Jobs
<1> QED
  BY <1>1, <1>2, <1>3, <1>4, <1>5, <1>6, <1>7, <1>8, <1>9, <1>10, <1>11, <1>12, <1>13,
<1>14, <1>15, <1>16, <1>17, <1>18, <1>19, <1>20, <1>21, <1>22, <1>23, <1>24, <1>25,
<1>26, <1>27, <1>28, <1>29, <1>30, <1>31, <1>32, <1>33 DEF Next, Write, Query, Seal

LEMMA ReplayGoes ==
    ASSUME Base, Next, Replaying, Replaying', ~ReplaySkip, ~ReplayTake, ~StoreSample
    PROVE  /\ job.op = "replay" /\ job'.op = "replay" /\ pc' # "replay" /\ pc # "replay"
           /\ job'.day = job.day /\ job'.n = job.n /\ replay' = replay /\ calls' = calls
<1>0. FlowOK /\ job \in Jobs /\ query = NoQuery /\ query.phase = "none"
  BY TypeParts, NoQueryIs DEF Base, PlaceTypes, FlowOK
<1> DEFINE Goes == /\ job.op = "replay" /\ job'.op = "replay" /\ pc' # "replay" /\ pc # "replay"
                   /\ job'.day = job.day /\ job'.n = job.n /\ replay' = replay /\ calls' = calls
<1>1. ASSUME Open PROVE Goes
  BY <1>1, <1>0 DEF Open, Replaying, FlowOK, Building, NoJob, Jobs
<1>2. ASSUME ReplayRefused PROVE Goes
  BY <1>2, <1>0 DEF ReplayRefused, LoseMemory, Replaying, FlowOK, Building, NoJob, Jobs
<1>3. ASSUME ReplayDone PROVE Goes
  BY <1>3, <1>0 DEF ReplayDone, Replaying, FlowOK, Building, NoJob, Jobs
<1>4. ASSUME NEW d \in Day, BeginAdd(d) PROVE Goes
  BY <1>4, <1>0 DEF BeginAdd, Replaying, FlowOK, Building, NoJob, Jobs
<1>5. ASSUME OpenDay PROVE Goes
  BY <1>5, <1>0 DEF OpenDay, Replaying, FlowOK, Building, NoJob, Jobs
<1>6. ASSUME SealPage PROVE Goes
  BY <1>6, <1>0 DEF SealPage, Replaying, FlowOK, Building, NoJob, Jobs
<1>7. ASSUME SealReset PROVE Goes
  BY <1>7, <1>0 DEF SealReset, Replaying, FlowOK, Building, NoJob, Jobs
<1>8. ASSUME WriteMetricFile PROVE Goes
  BY <1>8, <1>0 DEF WriteMetricFile, Replaying, FlowOK, Building, NoJob, Jobs
<1>9. ASSUME KeepSource PROVE Goes
  BY <1>9, <1>0 DEF KeepSource, AfterBuild, Return, Replaying, FlowOK, Building, NoJob,
     Jobs
<1>10. ASSUME DeleteSource PROVE Goes
  BY <1>10, <1>0 DEF DeleteSource, AfterBuild, Return, Replaying, FlowOK, Building,
     NoJob, Jobs
<1>11. ASSUME RemoveOldRaw PROVE Goes
  BY <1>11, <1>0 DEF RemoveOldRaw, Replaying, FlowOK, Building, NoJob, Jobs
<1>12. ASSUME RenameSource PROVE Goes
  BY <1>12, <1>0 DEF RenameSource, AfterBuild, Return, Replaying, FlowOK, Building,
     NoJob, Jobs
<1>13. ASSUME SweepDay PROVE Goes
  BY <1>13, <1>0 DEF SweepDay, Replaying, FlowOK, Building, NoJob, Jobs
<1>14. ASSUME RemoveFile PROVE Goes
  BY <1>14, <1>0 DEF RemoveFile, Replaying, FlowOK, Building, NoJob, Jobs
<1>15. ASSUME SweepDone PROVE Goes
  BY <1>15, <1>0 DEF SweepDone, Replaying, FlowOK, Building, NoJob, Jobs
<1>16. ASSUME LogSample PROVE Goes
  BY <1>16, <1>0 DEF LogSample, Replaying, FlowOK, Building, NoJob, Jobs
<1>17. ASSUME NEW d \in Day, FlushOther(d) PROVE Goes
  BY <1>17, <1>0 DEF FlushOther, Replaying, FlowOK, Building, NoJob, Jobs
<1>18. ASSUME NEW d \in Day, DrainPage(d) PROVE Goes
  BY <1>18, <1>0 DEF DrainPage, Replaying, FlowOK, Building, NoJob, Jobs
<1>19. ASSUME NEW d \in Day, Recompact(d) PROVE Goes
  BY <1>19, <1>0 DEF Recompact, Replaying, FlowOK, Building, NoJob, Jobs
<1>20. ASSUME NEW d \in Day, Compact(d) PROVE Goes
  BY <1>20, <1>0 DEF Compact, Replaying, FlowOK, Building, NoJob, Jobs
<1>21. ASSUME OthersDone PROVE Goes
  BY <1>21, <1>0 DEF OthersDone, Return, Replaying, FlowOK, Building, NoJob, Jobs
<1>22. ASSUME FullReset PROVE Goes
  BY <1>22, <1>0 DEF FullReset, Return, Replaying, FlowOK, Building, NoJob, Jobs
<1>23. ASSUME NEW op \in {"flush", "close"}, BeginDrain(op) PROVE Goes
  BY <1>23, <1>0 DEF BeginDrain, Replaying, FlowOK, Building, NoJob, Jobs
<1>24. ASSUME DrainDone PROVE Goes
  BY <1>24, <1>0 DEF DrainDone, LoseMemory, Return, Replaying, FlowOK, Building, NoJob,
     Jobs
<1>25. ASSUME Crash PROVE Goes
  BY <1>25, <1>0 DEF Crash, LoseMemory, Replaying, FlowOK, Building, NoJob, Jobs
<1>26. ASSUME NEW d \in Day, QueryStart(d) PROVE Goes
  BY <1>26, <1>0 DEF QueryStart, Replaying, FlowOK, Building, NoJob, Jobs
<1>27. ASSUME QueryMetric PROVE Goes
  BY <1>27, <1>0 DEF QueryMetric, Replaying, FlowOK, Building, NoJob, Jobs
<1>28. ASSUME QueryResolve PROVE Goes
  BY <1>28, <1>0 DEF QueryResolve, Replaying, FlowOK, Building, NoJob, Jobs
<1>29. ASSUME QuerySource PROVE Goes
  BY <1>29, <1>0 DEF QuerySource, Replaying, FlowOK, Building, NoJob, Jobs
<1>30. ASSUME QueryPage PROVE Goes
  BY <1>30, <1>0 DEF QueryPage, Replaying, FlowOK, Building, NoJob, Jobs
<1>31. ASSUME QueryReturn PROVE Goes
  BY <1>31, <1>0 DEF QueryReturn, Replaying, FlowOK, Building, NoJob, Jobs
<1> QED
  BY <1>1, <1>2, <1>3, <1>4, <1>5, <1>6, <1>7, <1>8, <1>9, <1>10, <1>11, <1>12, <1>13,
<1>14, <1>15, <1>16, <1>17, <1>18, <1>19, <1>20, <1>21, <1>22, <1>23, <1>24, <1>25,
<1>26, <1>27, <1>28, <1>29, <1>30, <1>31 DEF Next, Write, Query, Seal

LEMMA OrderReplayNext ==
    ASSUME FilesInv, OrderOK, Next
    PROVE  OrderReplay'
<1>0. /\ TypeOK /\ SolidOK /\ Base /\ FlowOK /\ PlaceOK /\ OrderLog /\ OrderReplay
      /\ wal \in Seq(Sample) /\ replay \in Seq(Sample) /\ job \in Jobs
      /\ page \in [Day -> Seq(Nat)] /\ held \in [Day -> [Kind -> Seq(Nat)]]
  BY TypeParts, HeldIs DEF FilesInv, FilesOK, Base, OrderOK, DiskTypes, PlaceTypes, DaysTypes
<1>1. CASE ~Replaying
  <2>1. CASE Open
    <3>1. /\ pc = "down" /\ pc' = "replay" /\ page = NoPages /\ page' = page
          /\ job = NoJob /\ job' = job
      BY <1>0, <2>1 DEF Open, FlowOK
    <3>2. \A d \in Day : page'[d] = <<>>
      BY <3>1 DEF NoPages
    <3> QED
      BY <3>1, <3>2, RangeEmpty DEF OrderReplay, Below, NoJob
  <2>2. CASE ~Replaying'
    BY <2>2 DEF Replaying, OrderReplay
  <2> QED
    BY <1>0, <1>1, <2>1, <2>2, ReplayBegins
<1>2. CASE ReplaySkip
  <2>1. /\ pc = "replay" /\ replay # <<>> /\ replay' = Tail(replay) /\ page' = page /\ job' = job
        /\ job = NoJob
    BY <1>0, <1>2 DEF ReplaySkip, FlowOK
  <2>2. Numbers(replay') \subseteq Numbers(replay)
    BY <1>0, <2>1, LogTail
  <2> QED
    BY <1>0, <2>1, <2>2 DEF OrderReplay, Below, NoJob
<1>3. CASE ReplayTake
  <2> DEFINE r == Head(replay)
  <2>1. /\ pc = "replay" /\ replay # <<>> /\ replay' = Tail(replay) /\ page' = page /\ pc' = "open"
        /\ job' = [NoJob EXCEPT !.op = "replay", !.day = r.day, !.n = r.n]
        /\ ~SkipDurable(r) /\ calls' = calls /\ UNCHANGED file
    BY <1>3 DEF ReplayTake
  <2>2. /\ r \in Sample /\ Numbers(replay) = Numbers(replay') \cup {r.n}
        /\ RisingLog(replay) => Below({r.n}, Numbers(replay'))
    BY <1>0, <2>1, LogTail
  <2> HIDE DEF r
  <2>3. r.day \in Day /\ r.n \in Nat /\ job'.day = r.day /\ job'.n = r.n /\ held' = held
    BY <1>0, <2>1, <2>2, SampleIs, FilesStay DEF NoJob
  <2>4. Below(Range(held[r.day]["data"]), {r.n})
    <3> DEFINE s == held[r.day]["data"]
    <3>1. s \in Seq(Nat) /\ Rising(s) /\ (Exists(r.day, "data") <=> s # <<>>) /\ Members(r.day, "data") = Range(s)
      BY <1>0, <2>3, HeldIs, Kinds DEF OrderOK, OrderDay
    <3>2. CASE s = <<>>
      BY <3>2, RangeEmpty DEF Below
    <3>3. CASE s # <<>>
      <4>1. Durable(r.day) = Max(Range(s))
        BY <3>1, <3>3 DEF Durable
      <4> HIDE DEF s
      <4>2. Max(Range(s)) \in Range(s) /\ \A n \in Range(s) : n <= Max(Range(s))
        BY <3>1, <3>3, RisingMax
      <4>3. Range(s) \subseteq Nat
        BY <3>1, RangeOf
      <4>4. ~(r.n <= Max(Range(s)))
        BY <2>1, <4>1 DEF SkipDurable
      <4> DEFINE m == Max(Range(s))
      <4>5. m \in Nat /\ m < r.n /\ \A n \in Range(s) : n <= m
        BY <2>3, <4>2, <4>3, <4>4
      <4> HIDE DEF m
      <4>6. Below(Range(s), {r.n})
        BY <2>3, <4>3, <4>5 DEF Below
      <4> QED
        BY <4>6 DEF s
    <3> QED
      BY <3>2, <3>3
  <2>5. \A d \in Day : Below(Range(page[d]), {r.n})
    BY <1>0, <2>1, <2>2 DEF OrderReplay, Below
  <2>6. r.n \in 1..calls
    BY <1>0, <2>2 DEF OrderLog
  <2> QED
    BY <1>0, <2>1, <2>2, <2>3, <2>4, <2>5, <2>6 DEF OrderReplay, OrderLog
<1>4. CASE Replaying /\ StoreSample
  <2>1. /\ pc = "store" /\ job.op = "replay" /\ pc' = "replay" /\ job' = NoJob /\ replay' = replay
        /\ page' = [page EXCEPT ![job.day] = Append(@, job.n)] /\ job.day \in Day /\ job.n \in Nat
    BY <1>0, <1>4 DEF Replaying, StoreSample, FlowOK, PlaceOK, Jobs
  <2>2. ASSUME NEW d \in Day PROVE Below(Range(page'[d]), Numbers(replay))
    <3>1. /\ Below(Range(page[d]), {job.n}) /\ Below({job.n}, Numbers(replay))
          /\ Range(page[d]) \subseteq Nat /\ Numbers(replay) \subseteq Nat
      BY <1>0, <2>1, RangeOf, LogIs DEF OrderReplay
    <3>2. Range(page'[d]) \subseteq Range(page[d]) \cup {job.n}
      <4>1. CASE d = job.day
        BY <1>0, <2>1, <4>1, Appended
      <4>2. CASE d # job.day
        BY <1>0, <2>1, <4>2
      <4> QED
        BY <4>1, <4>2
    <3> DEFINE P == Range(page[d])
               N == Numbers(replay)
               n == job.n
    <3> HIDE DEF P, N, n
    <3>3. \A x \in P, y \in N : x < y
      <4>1. (\A x \in P : x < n) /\ (\A y \in N : n < y) /\ P \subseteq Nat /\ N \subseteq Nat /\ n \in Nat
        BY <2>1, <3>1 DEF P, N, n, Below
      <4> QED
        BY <4>1
    <3>4. \A y \in N : n < y
      BY <3>1 DEF P, N, n, Below
    <3> QED
      BY <3>2, <3>3, <3>4 DEF P, N, n, Below
  <2> QED
    BY <2>1, <2>2 DEF OrderReplay, NoJob
<1>5. CASE Replaying /\ Replaying' /\ ~ReplaySkip /\ ~ReplayTake /\ ~StoreSample
  <2>1. /\ job.op = "replay" /\ job'.op = "replay" /\ pc' # "replay" /\ pc # "replay"
        /\ job'.day = job.day /\ job'.n = job.n /\ replay' = replay /\ calls' = calls
    BY <1>0, <1>5, ReplayGoes
  <2>2. job.day \in Day
    BY <1>0, <2>1 DEF PlaceOK
  <2>3. PICK d \in Day : d = job.day
    BY <2>2, Zenon
  <2>4. /\ held'[d]["data"] = held[d]["data"] \/ held'[d]["data"] = <<>>
        /\ \A e \in Day : page'[e] = page[e] \/ page'[e] = <<>>
    <3>1. CASE Fades
      BY <3>1, Kinds DEF Fades
    <3>2. ASSUME NEW a \in Day, page[a] # <<>>, AppendFrame(a), pc = "open" => a # job.day,
                 pc \in {"open", "others", "drain"}
          PROVE  /\ held'[d]["data"] = held[d]["data"] \/ held'[d]["data"] = <<>>
                 /\ \A e \in Day : page'[e] = page[e] \/ page'[e] = <<>>
      <4>1. pc = "open" /\ a # d
        BY <1>0, <2>1, <2>3, <3>2 DEF FlowOK
      <4>2. Sets(a, "data", held[a]["data"] \o page[a]) /\ page' = [page EXCEPT ![a] = <<>>]
        BY <1>0, <3>2, Appends DEF AppendFrame
      <4> QED
        BY <1>0, <4>1, <4>2, Kinds DEF Sets
    <3>3. CASE WriteMetricFile
      <4>1. PICK s \in Day, k \in {"data", "raw"} : Sets(s, "metric", held[s][k])
        BY <1>0, <3>3, Writes
      <4> QED
        BY <3>3, <4>1, Kinds DEF Sets, WriteMetricFile
    <3>4. CASE RenameSource
      <4>1. \E s \in Day : s = job.seal
        BY <1>0, <3>4 DEF RenameSource, PlaceOK, Sealing
      <4>2. PICK s \in Day : s = job.seal
        BY <4>1, Zenon
      <4>3. file' = [file EXCEPT ![s]["raw"] = file[s]["data"], ![s]["data"] = <<>>] /\ page' = page
        BY <3>4, <4>2 DEF RenameSource
      <4>4. /\ held'[s]["data"] = <<>>
            /\ \A e \in Day \ {s}, j \in Kind : held'[e][j] = held[e][j]
        BY <1>0, <4>3, Renames, Zenon
      <4> QED
        BY <4>3, <4>4, Kinds
    <3> QED
      BY <1>5, <3>1, <3>2, <3>3, <3>4, Effects
  <2>5. /\ Range(held'[d]["data"]) \subseteq Range(held[d]["data"])
        /\ \A e \in Day : Range(page'[e]) \subseteq Range(page[e])
    BY <2>4, RangeEmpty
  <2> QED
    BY <1>0, <2>1, <2>3, <2>5 DEF OrderReplay, Below
<1>6. CASE ~Replaying'
  BY <1>6 DEF Replaying, OrderReplay
<1> QED
  BY <1>1, <1>2, <1>3, <1>4, <1>5, <1>6

OrderInv == FilesInv /\ OrderOK

LEMMA OrderInit == Init => OrderInv
<1> SUFFICES ASSUME Init PROVE OrderInv
  OBVIOUS
<1>1. FilesInv
  BY FilesInit
<1>2. /\ page = NoPages /\ wal = <<>> /\ replay = <<>> /\ pc = "down" /\ job.op = "none"
      /\ \A d \in Day, k \in Kind : file[d][k] = <<>>
  BY DEF Init, NoJob, NoFiles
<1>3. \A d \in Day, k \in Kind : held[d][k] = <<>>
  BY <1>2, HeldEmpty DEF held
<1>4. \A d \in Day : page[d] = <<>>
  BY <1>2 DEF NoPages
<1>5. ASSUME NEW d \in Day PROVE OrderDay(d)
  BY <1>3, <1>4, RangeEmpty, Kinds DEF OrderDay, Kept, Below
<1>6. OrderLog
  BY <1>2, LogEmpty DEF OrderLog
<1>7. OrderReplay
  BY <1>2 DEF OrderReplay
<1> QED
  BY <1>1, <1>5, <1>6, <1>7 DEF OrderInv, OrderOK

LEMMA OrderInvNext == OrderInv /\ [Next]_vars => OrderInv'
<1>1. ASSUME OrderInv, Next PROVE OrderInv'
  BY <1>1, FilesInvNext, OrderDaysNext, OrderLogNext, OrderReplayNext DEF OrderInv, OrderOK
<1>2. ASSUME OrderInv, UNCHANGED vars PROVE OrderInv'
  <2>1. FilesInv'
    BY <1>2, FilesInvNext DEF OrderInv
  <2>2. UNCHANGED <<file, page, pc, job, wal, replay, calls>>
    BY <1>2
  <2>3. held' = held
    BY <2>2 DEF held
  <2> QED
    BY <1>2, <2>1, <2>2, <2>3 DEF OrderInv, OrderOK, OrderDay, OrderLog, OrderReplay, Kept,
       Told, WalTop
<1> QED
  BY <1>1, <1>2

(***************************************************************************)
(* What is owed to the callers: every record of the log, and every sample  *)
(* acknowledged, is in the files, in a page, or still to be put into one.  *)
(***************************************************************************)
\* A day of which nothing may be missing.
Watched(d) == ~Expired(d) /\ (setting.raw = "keep" \/ d \notin late)
Stays(d)   == IF setting.raw = "keep" THEN Range(held[d]["data"]) ELSE Kept(d)
Has(d)     == Stays(d) \cup Range(page[d])
Acked(d)   == {a.n : a \in {a \in acked : a.day = d}}

\* What a replay has left, and the sample logged and not yet in its page.
Doing(d)   == IF job.day = d /\ (job.op = "replay" \/ (job.op = "add" /\ pc = "store"))
              THEN {job.n} ELSE {}
Pending(d) == On(replay, d) \cup Doing(d)

\* What a crash would lose is in the log.
LoggedOK == \A d \in Day : Range(page[d]) \cup Pending(d) \subseteq On(wal, d)

\* A seal during a replay leaves another page, so it cannot reset the log.
ReplayPagesOK ==
    Replaying => /\ \A d \in open : page[d] # <<>> \/ (pc = "store" /\ d = job.day)
                 /\ pc = "reset" => \E d \in Day : page[d] # <<>>

\* The watermark a replay goes by, the end of the data file, is right.
Mark(s)   == IF s # <<>> THEN Max(Range(s)) ELSE 0
MarkOK(d) == \A n \in On(wal, d) : n <= Mark(held[d]["data"]) => n \in Range(held[d]["data"])

HasOK(d) ==
    Watched(d) =>
        /\ MarkOK(d)
        /\ IF pc = "down" THEN Acked(d) \subseteq Stays(d) \cup On(wal, d)
           ELSE Acked(d) \cup On(wal, d) \subseteq Has(d) \cup Pending(d)
        /\ pc \in {"others", "full"} /\ job.day = d => job.n \in Has(d)

OwedOK == LoggedOK /\ ReplayPagesOK /\ \A d \in Day : HasOK(d)

LEMMA DataNext ==
    ASSUME Base, FilesOK, BuiltOK, Next, ~RemoveFile, setting.raw = "keep", NEW d \in Day
    PROVE  Range(held[d]["data"]) \subseteq Range(held'[d]["data"])
<1> DEFINE Grows == Range(held[d]["data"]) \subseteq Range(held'[d]["data"])
<1>0. TypeOK /\ SolidOK /\ FilesInv
  BY DEF Base, FilesOK, FilesInv
<1>s. held' = held => Grows
  OBVIOUS
<1>f. UNCHANGED file => Grows
  BY <1>0, FilesStay
<1>a. ASSUME NEW a \in Day, page[a] # <<>>, AppendFrame(a) PROVE Grows
  <2>1. Sets(a, "data", held[a]["data"] \o page[a])
    BY <1>0, <1>a, Appends
  <2>2. held[a]["data"] \in Seq(Nat) /\ page[a] \in Seq(Nat)
    BY <1>0, HeldHere, FileTypes
  <2>3. Range(held[a]["data"]) \subseteq Range(held'[a]["data"])
    BY <2>1, <2>2, RangeJoined, Kinds DEF Sets
  <2> QED
    BY <2>1, <2>3, Kinds DEF Sets
<1>1. ASSUME Open PROVE Grows
  BY <1>1, <1>f DEF Open
<1>2. ASSUME ReplaySkip PROVE Grows
  BY <1>2, <1>f DEF ReplaySkip
<1>3. ASSUME ReplayTake PROVE Grows
  BY <1>3, <1>f DEF ReplayTake
<1>4. ASSUME ReplayRefused PROVE Grows
  BY <1>4, <1>f DEF ReplayRefused
<1>5. ASSUME ReplayDone PROVE Grows
  BY <1>5, <1>f DEF ReplayDone
<1>6. ASSUME NEW e \in Day, BeginAdd(e) PROVE Grows
  BY <1>6, <1>f DEF BeginAdd
<1>7. ASSUME OpenDay PROVE Grows
  BY <1>7, <1>f DEF OpenDay
<1>8. ASSUME SealPage PROVE Grows
  <2>1. \E a \in Day : a = OldestOpen
    BY <1>0, <1>8, OldestOpenIs DEF SealPage
  <2>2. PICK a \in Day : a = OldestOpen
    BY <2>1, Zenon
  <2>3. CASE page[a] # <<>>
    BY <1>a, <1>8, <2>2, <2>3 DEF SealPage
  <2>4. CASE page[a] = <<>>
    BY <1>f, <1>8, <2>2, <2>4 DEF SealPage
  <2> QED
    BY <2>3, <2>4
<1>9. ASSUME SealReset PROVE Grows
  BY <1>9, <1>f DEF SealReset
<1>10. ASSUME WriteMetricFile PROVE Grows
  <2>1. PICK s \in Day, k \in {"data", "raw"} : Sets(s, "metric", held[s][k])
    BY <1>0, <1>10, Writes
  <2> QED
    BY <2>1, Kinds DEF Sets
<1>11. ASSUME KeepSource PROVE Grows
  BY <1>11, <1>f DEF KeepSource
<1>12. ASSUME DeleteSource PROVE Grows
  BY <1>12 DEF DeleteSource
<1>13. ASSUME RemoveOldRaw PROVE Grows
  BY <1>13 DEF RemoveOldRaw
<1>14. ASSUME RenameSource PROVE Grows
  BY <1>14, <1>0 DEF RenameSource, Base, BuildOK
<1>15. ASSUME SweepDay PROVE Grows
  BY <1>15, <1>f DEF SweepDay
<1>16. ASSUME SweepDone PROVE Grows
  BY <1>16, <1>f DEF SweepDone
<1>17. ASSUME LogSample PROVE Grows
  BY <1>17, <1>f DEF LogSample
<1>18. ASSUME StoreSample PROVE Grows
  BY <1>18, <1>f DEF StoreSample
<1>19. ASSUME NEW e \in Day, FlushOther(e) PROVE Grows
  BY <1>19, <1>a DEF FlushOther
<1>20. ASSUME NEW e \in Day, DrainPage(e) PROVE Grows
  BY <1>20, <1>a DEF DrainPage
<1>21. ASSUME NEW e \in Day, Recompact(e) PROVE Grows
  <2>1. held' = held
    BY <1>0, <1>21, Repacks
  <2> QED
    BY <1>s, <2>1
<1>22. ASSUME NEW e \in Day, Compact(e) PROVE Grows
  BY <1>22, <1>f DEF Compact
<1>23. ASSUME OthersDone PROVE Grows
  <2>1. CASE Full(job.day)
    <3>1. job.day \in Day /\ page[job.day] # <<>> /\ AppendFrame(job.day)
      BY <1>23, <2>1, FullPage DEF Base
    <3>2. PICK a \in Day : a = job.day
      BY <3>1, Zenon
    <3> QED
      BY <1>a, <3>1, <3>2
  <2>2. CASE ~Full(job.day)
    BY <1>f, <1>23, <2>2 DEF OthersDone
  <2> QED
    BY <2>1, <2>2
<1>24. ASSUME FullReset PROVE Grows
  BY <1>24, <1>f DEF FullReset
<1>25. ASSUME NEW op \in {"flush", "close"}, BeginDrain(op) PROVE Grows
  BY <1>25, <1>f DEF BeginDrain
<1>26. ASSUME DrainDone PROVE Grows
  BY <1>26, <1>f DEF DrainDone
<1>27. ASSUME Crash PROVE Grows
  BY <1>27, <1>f DEF Crash
<1>28. ASSUME NEW e \in Day, QueryStart(e) PROVE Grows
  BY <1>28, <1>f DEF QueryStart
<1>29. ASSUME QueryMetric PROVE Grows
  BY <1>29, <1>f DEF QueryMetric
<1>30. ASSUME QueryResolve PROVE Grows
  BY <1>30, <1>f DEF QueryResolve
<1>31. ASSUME QuerySource PROVE Grows
  BY <1>31, <1>f DEF QuerySource
<1>32. ASSUME QueryPage PROVE Grows
  BY <1>32, <1>f DEF QueryPage
<1>33. ASSUME QueryReturn PROVE Grows
  BY <1>33, <1>f DEF QueryReturn
<1> QED
  BY <1>1, <1>2, <1>3, <1>4, <1>5, <1>6, <1>7, <1>8, <1>9, <1>10, <1>11, <1>12, <1>13,
<1>14, <1>15, <1>16, <1>17, <1>18, <1>19, <1>20, <1>21, <1>22, <1>23, <1>24, <1>25,
<1>26, <1>27, <1>28, <1>29, <1>30, <1>31, <1>32, <1>33 DEF Next, Write, Query, Seal

\* A watched day was watched before, and keeps what it has.
LEMMA WatchedNext ==
    ASSUME FilesInv, Next, NEW d \in Day, Watched(d)'
    PROVE  Watched(d) /\ Stays(d) \subseteq Stays(d)'
<1>0. Base /\ FilesOK /\ BuiltOK /\ TypeOK /\ SolidOK
  BY DEF FilesInv, Base, FilesOK
<1>1. setting' = setting /\ ~Expired(d) /\ (setting.raw = "keep" \/ d \notin late')
  BY <1>0, Steady DEF Watched
<1>3. RemoveFile => \A k \in Kind : held'[d][k] = held[d][k]
  <2>1. CASE RemoveFile
    <3>1. PICK e \in Day, k \in Kind : Expired(e) /\ Sets(e, k, <<>>)
      BY <1>0, <2>1, SweepsFile
    <3> QED
      BY <1>1, <3>1 DEF Sets
  <2> QED
    BY <2>1
<1>4. setting.raw # "keep" => d \notin late
  <2>1. ASSUME setting.raw # "keep" PROVE late \subseteq late'
    BY <2>1 DEF Next, Write, Query, Seal, LoseMemory, Open, ReplaySkip, ReplayTake,
       ReplayRefused, ReplayDone, BeginAdd, OpenDay, SealPage, SealReset,
       WriteMetricFile, KeepSource, DeleteSource, RemoveOldRaw, RenameSource, SweepDay,
       RemoveFile, SweepDone, LogSample, StoreSample, FlushOther, DrainPage, Recompact,
       Compact, OthersDone, FullReset, BeginDrain, DrainDone, Crash, QueryStart,
       QueryMetric, QueryResolve, QuerySource, QueryPage, QueryReturn
  <2> QED
    BY <1>1, <2>1
<1>5. Watched(d)
  BY <1>1, <1>4 DEF Watched
<1>6. setting.raw = "keep" => Range(held[d]["data"]) \subseteq Range(held'[d]["data"])
  BY <1>0, <1>3, DataNext, Kinds
<1>7. setting.raw # "keep" => Kept(d) \subseteq Kept(d)'
  BY <1>0, <1>3, <1>4, KeptNext, Kinds DEF Kept
<1> QED
  BY <1>1, <1>5, <1>6, <1>7 DEF Stays

\* A page goes to the data file, or is lost with the process.
LEMMA PageNext ==
    ASSUME FilesInv, Next, NEW d \in Day, pc' # "down" \/ page = NoPages
    PROVE  \/ page'[d] = page[d] \/ page[d] = <<>>
           \/ Range(page[d]) \subseteq Range(held'[d]["data"])
           \/ StoreSample
<1>0. TypeOK /\ SolidOK /\ Base /\ page \in [Day -> Seq(Nat)]
  BY TypeParts DEF FilesInv, FilesOK, Base, DaysTypes
<1>1. ASSUME NEW a \in Day, page[a] # <<>>, AppendFrame(a)
      PROVE  page'[d] = page[d] \/ Range(page[d]) \subseteq Range(held'[d]["data"])
  <2>1. Sets(a, "data", held[a]["data"] \o page[a]) /\ page' = [page EXCEPT ![a] = <<>>]
    BY <1>0, <1>1, Appends DEF AppendFrame
  <2>2. held[a]["data"] \in Seq(Nat) /\ page[a] \in Seq(Nat)
    BY <1>0, HeldHere
  <2>3. Range(page[a]) \subseteq Range(held'[a]["data"])
    BY <2>1, <2>2, RangeJoined, Kinds DEF Sets
  <2> QED
    BY <1>0, <2>1, <2>3
<1>2. CASE ~(\E a \in Day : page[a] # <<>> /\ AppendFrame(a)) /\ ~StoreSample
  <2> SUFFICES page' = page \/ page[d] = <<>>
    OBVIOUS
  <2>z. page = NoPages => page[d] = <<>>
    BY DEF NoPages
  <2>1. pc' # "down" \/ page[d] = <<>>
    BY <2>z
  <2>2. ASSUME page' # page PROVE page[d] = <<>>
    <3>1. SealPage \/ (\E a \in Day : FlushOther(a) \/ DrainPage(a)) \/ OthersDone
          \/ LoseMemory
      BY <1>2, <2>2 DEF Next, Write, Query, Seal, Open, ReplaySkip, ReplayTake,
         ReplayRefused, ReplayDone, BeginAdd, OpenDay, SealReset,
         WriteMetricFile, KeepSource, DeleteSource, RemoveOldRaw, RenameSource, SweepDay,
         RemoveFile, SweepDone, LogSample, Recompact,
         Compact, FullReset, BeginDrain, DrainDone, Crash, QueryStart,
         QueryMetric, QueryResolve, QuerySource, QueryPage, QueryReturn
    <3>2. ~SealPage
      <4>1. CASE SealPage
        <5>1. \E a \in Day : a = OldestOpen
          BY <1>0, <4>1, OldestOpenIs DEF SealPage
        <5>2. PICK a \in Day : a = OldestOpen
          BY <5>1, Zenon
        <5> QED
          BY <1>2, <2>2, <4>1, <5>2 DEF SealPage
      <4> QED
        BY <4>1
    <3>3. ~(\E a \in Day : FlushOther(a) \/ DrainPage(a))
      BY <1>2 DEF FlushOther, DrainPage
    <3>4. ~OthersDone
      <4>1. CASE OthersDone
        <5>1. Full(job.day)
          BY <2>2, <4>1 DEF OthersDone
        <5>2. job.day \in Day /\ page[job.day] # <<>> /\ AppendFrame(job.day)
          BY <1>0, <4>1, <5>1, FullPage DEF Base
        <5> QED
          BY <1>2, <5>2
      <4> QED
        BY <4>1
    <3> QED
      BY <2>1, <3>1, <3>2, <3>3, <3>4 DEF LoseMemory
  <2> QED
    BY <2>2
<1> QED
  BY <1>1, <1>2

\* So what it has, while the process lives, it has in the next state.
LEMMA HasNext ==
    ASSUME FilesInv, Next, NEW d \in Day, Watched(d)', pc' # "down" \/ page = NoPages
    PROVE  Has(d) \subseteq Has(d)'
<1>1. Stays(d) \subseteq Stays(d)'
  BY WatchedNext
<1>2. Range(held'[d]["data"]) \subseteq Stays(d)'
  BY DEF Stays, Kept
<1>3. CASE StoreSample
  <2>1. /\ page \in [Day -> Seq(Nat)] /\ job.n \in Nat
        /\ page' = [page EXCEPT ![job.day] = Append(@, job.n)]
    BY <1>3, TypeParts DEF FilesInv, Base, DaysTypes, PlaceTypes, Jobs, StoreSample
  <2>2. Range(page[d]) \subseteq Range(page'[d])
    <3>1. CASE d = job.day
      <4>1. page'[d] = Append(page[d], job.n) /\ page[d] \in Seq(Nat)
        BY <2>1, <3>1
      <4> QED
        BY <2>1, <4>1, Appended
    <3>2. CASE d # job.day
      BY <2>1, <3>2
    <3> QED
      BY <3>1, <3>2
  <2> QED
    BY <1>1, <2>2 DEF Has
<1>4. CASE ~StoreSample
  BY <1>1, <1>2, <1>4, PageNext, RangeEmpty DEF Has
<1> QED
  BY <1>3, <1>4

\* How the records still to be put into pages change.
LEMMA PendingCalm ==
    ASSUME Base, Next, NEW d, pc' # "down",
           ~Open, ~ReplaySkip, ~ReplayTake, ~StoreSample, ~LogSample
    PROVE  Pending(d)' = Pending(d)
<1>0. FlowOK /\ job \in Jobs
  BY TypeParts DEF Base, PlaceTypes
<1> DEFINE Same == replay' = replay /\ Doing(d)' = Doing(d)
<1>9. pc' # "down" /\ ~Open /\ ~ReplaySkip /\ ~ReplayTake /\ ~StoreSample /\ ~LogSample
  OBVIOUS
<1>10. ASSUME ReplayRefused PROVE Same
  BY <1>10, <1>0, <1>9 DEF ReplayRefused, LoseMemory, FlowOK, Building, Doing, NoJob,
     Jobs
<1>11. ASSUME ReplayDone PROVE Same
  BY <1>11, <1>0, <1>9 DEF ReplayDone, FlowOK, Building, Doing, NoJob, Jobs
<1>12. ASSUME NEW e \in Day, BeginAdd(e) PROVE Same
  BY <1>12, <1>0, <1>9 DEF BeginAdd, FlowOK, Building, Doing, NoJob, Jobs
<1>13. ASSUME OpenDay PROVE Same
  BY <1>13, <1>0, <1>9 DEF OpenDay, FlowOK, Building, Doing, NoJob, Jobs
<1>14. ASSUME SealPage PROVE Same
  BY <1>14, <1>0, <1>9 DEF SealPage, FlowOK, Building, Doing, NoJob, Jobs
<1>15. ASSUME SealReset PROVE Same
  BY <1>15, <1>0, <1>9 DEF SealReset, FlowOK, Building, Doing, NoJob, Jobs
<1>16. ASSUME WriteMetricFile PROVE Same
  BY <1>16, <1>0, <1>9 DEF WriteMetricFile, FlowOK, Building, Doing, NoJob, Jobs
<1>17. ASSUME KeepSource PROVE Same
  <2>1. /\ replay' = replay /\ pc \in Building /\ job.op \in {"add", "replay", "compact"}
        /\ pc' # "store" /\ pc # "store"
        /\ job' = job \/ (job.op = "compact" /\ job' = NoJob)
    BY <1>0, <1>17 DEF KeepSource, AfterBuild, Return, FlowOK, Building
  <2> QED
    BY <2>1 DEF Doing, NoJob
<1>18. ASSUME DeleteSource PROVE Same
  <2>1. /\ replay' = replay /\ pc \in Building /\ job.op \in {"add", "replay", "compact"}
        /\ pc' # "store" /\ pc # "store"
        /\ job' = job \/ (job.op = "compact" /\ job' = NoJob)
    BY <1>0, <1>18 DEF DeleteSource, AfterBuild, Return, FlowOK, Building
  <2> QED
    BY <2>1 DEF Doing, NoJob
<1>19. ASSUME RemoveOldRaw PROVE Same
  BY <1>19, <1>0, <1>9 DEF RemoveOldRaw, FlowOK, Building, Doing, NoJob, Jobs
<1>20. ASSUME RenameSource PROVE Same
  <2>1. /\ replay' = replay /\ pc \in Building /\ job.op \in {"add", "replay", "compact"}
        /\ pc' # "store" /\ pc # "store"
        /\ job' = job \/ (job.op = "compact" /\ job' = NoJob)
    BY <1>0, <1>20 DEF RenameSource, AfterBuild, Return, FlowOK, Building
  <2> QED
    BY <2>1 DEF Doing, NoJob
<1>21. ASSUME SweepDay PROVE Same
  BY <1>21, <1>0, <1>9 DEF SweepDay, FlowOK, Building, Doing, NoJob, Jobs
<1>22. ASSUME RemoveFile PROVE Same
  BY <1>22, <1>0, <1>9 DEF RemoveFile, FlowOK, Building, Doing, NoJob, Jobs
<1>23. ASSUME SweepDone PROVE Same
  BY <1>23, <1>0, <1>9 DEF SweepDone, FlowOK, Building, Doing, NoJob, Jobs
<1>24. ASSUME NEW e \in Day, FlushOther(e) PROVE Same
  BY <1>24, <1>0, <1>9 DEF FlushOther, FlowOK, Building, Doing, NoJob, Jobs
<1>25. ASSUME NEW e \in Day, DrainPage(e) PROVE Same
  BY <1>25, <1>0, <1>9 DEF DrainPage, FlowOK, Building, Doing, NoJob, Jobs
<1>26. ASSUME NEW e \in Day, Recompact(e) PROVE Same
  BY <1>26, <1>0, <1>9 DEF Recompact, FlowOK, Building, Doing, NoJob, Jobs
<1>27. ASSUME NEW e \in Day, Compact(e) PROVE Same
  BY <1>27, <1>0, <1>9 DEF Compact, FlowOK, Building, Doing, NoJob, Jobs
<1>28. ASSUME OthersDone PROVE Same
  BY <1>28, <1>0, <1>9 DEF OthersDone, Return, FlowOK, Building, Doing, NoJob, Jobs
<1>29. ASSUME FullReset PROVE Same
  BY <1>29, <1>0, <1>9 DEF FullReset, Return, FlowOK, Building, Doing, NoJob, Jobs
<1>30. ASSUME NEW op \in {"flush", "close"}, BeginDrain(op) PROVE Same
  BY <1>30, <1>0, <1>9 DEF BeginDrain, FlowOK, Building, Doing, NoJob, Jobs
<1>31. ASSUME DrainDone PROVE Same
  BY <1>31, <1>0, <1>9 DEF DrainDone, LoseMemory, Return, FlowOK, Building, Doing,
     NoJob, Jobs
<1>32. ASSUME Crash PROVE Same
  BY <1>32, <1>0, <1>9 DEF Crash, LoseMemory, FlowOK, Building, Doing, NoJob, Jobs
<1>33. ASSUME NEW e \in Day, QueryStart(e) PROVE Same
  BY <1>33, <1>0, <1>9 DEF QueryStart, FlowOK, Building, Doing, NoJob, Jobs
<1>34. ASSUME QueryMetric PROVE Same
  BY <1>34, <1>0, <1>9 DEF QueryMetric, FlowOK, Building, Doing, NoJob, Jobs
<1>35. ASSUME QueryResolve PROVE Same
  BY <1>35, <1>0, <1>9 DEF QueryResolve, FlowOK, Building, Doing, NoJob, Jobs
<1>36. ASSUME QuerySource PROVE Same
  BY <1>36, <1>0, <1>9 DEF QuerySource, FlowOK, Building, Doing, NoJob, Jobs
<1>37. ASSUME QueryPage PROVE Same
  BY <1>37, <1>0, <1>9 DEF QueryPage, FlowOK, Building, Doing, NoJob, Jobs
<1>38. ASSUME QueryReturn PROVE Same
  BY <1>38, <1>0, <1>9 DEF QueryReturn, FlowOK, Building, Doing, NoJob, Jobs
<1>50. Same
  BY <1>9, <1>10, <1>11, <1>12, <1>13, <1>14, <1>15, <1>16, <1>17, <1>18, <1>19, <1>20, <1>21,
<1>22, <1>23, <1>24, <1>25, <1>26, <1>27, <1>28, <1>29, <1>30, <1>31, <1>32, <1>33,
<1>34, <1>35, <1>36, <1>37, <1>38 DEF Next, Write, Query, Seal
<1> QED
  BY <1>50 DEF Pending, On

LEMMA PendingNext ==
    ASSUME Base, Next, NEW d \in Day, pc' # "down"
    PROVE  /\ Open => Pending(d)' = On(wal, d)
           /\ ReplaySkip => LET r == Head(replay) IN
                            /\ r.n \in On(replay, r.day) /\ r.day \in Day
                            /\ Pending(d) = Pending(d)' \cup (IF r.day = d THEN {r.n} ELSE {})
           /\ StoreSample => /\ job.n \in Pending(job.day)
                             /\ Pending(d) \subseteq Pending(d)' \cup (IF job.day = d THEN {job.n} ELSE {})
                             /\ Pending(d)' \subseteq Pending(d)
           /\ LogSample => Pending(d)' = Pending(d) \cup (IF job.day = d THEN {job.n} ELSE {})
           /\ ~Open /\ ~ReplaySkip /\ ~StoreSample /\ ~LogSample => Pending(d)' = Pending(d)
<1>0. FlowOK /\ job \in Jobs /\ replay \in Seq(Sample)
  BY TypeParts DEF Base, PlaceTypes
<1>1. ASSUME Open PROVE Pending(d)' = On(wal, d)
  <2>1. job' = NoJob /\ replay' = wal
    BY <1>0, <1>1 DEF Open, FlowOK
  <2> QED
    BY <2>1 DEF Pending, Doing, NoJob, On
<1>2. ASSUME ReplaySkip PROVE
        LET r == Head(replay) IN
        /\ r.n \in On(replay, r.day) /\ r.day \in Day
        /\ Pending(d) = Pending(d)' \cup (IF r.day = d THEN {r.n} ELSE {})
  <2> DEFINE r == Head(replay)
             rest == Tail(replay)
  <2>1. replay # <<>> /\ replay' = rest /\ job' = job /\ pc' = pc
    BY <1>2 DEF ReplaySkip
  <2>2. r \in Sample /\ \A e : On(replay, e) = On(rest, e) \cup (IF r.day = e THEN {r.n} ELSE {})
    BY <1>0, <2>1, LogTail
  <2>3. On(rest, d) = On(replay, d)' /\ Doing(d)' = Doing(d)
    BY <2>1 DEF On, Doing
  <2> HIDE DEF r, rest
  <2>4. r.n \in On(replay, r.day) /\ r.day \in Day
    BY <2>2, SampleIs
  <2>5. Pending(d) = Pending(d)' \cup (IF r.day = d THEN {r.n} ELSE {})
    BY <2>2, <2>3 DEF Pending
  <2> QED
    BY <2>4, <2>5 DEF r
<1>3. ASSUME ReplayTake PROVE Pending(d)' = Pending(d)
  <2> DEFINE r == Head(replay)
             rest == Tail(replay)
  <2>1. /\ replay # <<>> /\ replay' = rest /\ job.op = "none"
        /\ job' = [NoJob EXCEPT !.op = "replay", !.day = r.day, !.n = r.n]
    BY <1>0, <1>3 DEF ReplayTake, FlowOK, NoJob
  <2>2. On(replay, d) = On(rest, d) \cup (IF r.day = d THEN {r.n} ELSE {})
    BY <1>0, <2>1, LogTail
  <2>3. On(rest, d) = On(replay, d)'
    BY <2>1 DEF On
  <2> HIDE DEF r, rest
  <2>4. Doing(d) = {} /\ Doing(d)' = IF r.day = d THEN {r.n} ELSE {}
    BY <2>1 DEF Doing, NoJob
  <2> QED
    BY <2>2, <2>3, <2>4 DEF Pending
<1>4. ASSUME StoreSample
      PROVE  /\ job.n \in Pending(job.day)
             /\ Pending(d) \subseteq Pending(d)' \cup (IF job.day = d THEN {job.n} ELSE {})
             /\ Pending(d)' \subseteq Pending(d)
  <2>1. /\ pc = "store" /\ job.op \in {"add", "replay"} /\ replay' = replay
        /\ job.op = "add" => pc' = "others" /\ job' = job
        /\ job.op = "replay" => job' = NoJob
    BY <1>0, <1>4 DEF StoreSample, FlowOK
  <2>2. Doing(d)' = {} /\ Doing(d) = (IF job.day = d THEN {job.n} ELSE {}) /\ job.n \in Doing(job.day)
    BY <2>1 DEF Doing, NoJob
  <2> QED
    BY <2>1, <2>2 DEF Pending, On
<1>5. ASSUME LogSample
      PROVE  Pending(d)' = Pending(d) \cup (IF job.day = d THEN {job.n} ELSE {})
  <2>1. pc = "log" /\ pc' = "store" /\ job.op = "add" /\ replay' = replay /\ job' = job
    BY <1>0, <1>5 DEF LogSample, FlowOK
  <2> QED
    BY <2>1 DEF Pending, Doing, On
<1> QED
  BY <1>1, <1>2, <1>3, <1>4, <1>5, PendingCalm

\* A step keeps the log, adds the record of the call, or empties it when nothing
\* is in a page or pending.
LEMMA WalNext ==
    ASSUME Base, LoggedOK, ReplayPagesOK, Next, pc' # "down"
    PROVE  \/ wal' = wal
           \/ LogSample
           \/ wal' = <<>> /\ \A d \in Day : page'[d] = <<>> /\ Pending(d)' = {} /\ Pending(d) = {}
<1>0. FlowOK /\ job \in Jobs /\ replay \in Seq(Sample)
  BY TypeParts DEF Base, PlaceTypes
<1> DEFINE Bare == \A d \in Day : page'[d] = <<>> /\ Pending(d)' = {} /\ Pending(d) = {}
<1>1. ASSUME SealReset, wal' # wal PROVE wal' = <<>> /\ Bare
  <2>1. /\ pc = "reset" /\ wal' = <<>> /\ page = NoPages /\ page' = page /\ job' = job
        /\ replay' = replay /\ pc' \in {"build", "sweep"}
    BY <1>1 DEF SealReset, ResetIfNoPages, NoPageOpen
  <2>2. ~Replaying
    BY <2>1 DEF ReplayPagesOK, NoPages
  <2>3. replay = <<>> /\ job.op # "replay"
    BY <1>0, <2>2 DEF FlowOK, Replaying
  <2> QED
    BY <2>1, <2>3, LogEmpty DEF NoPages, Pending, Doing
<1>2. ASSUME FullReset, wal' # wal PROVE wal' = <<>> /\ Bare
  <2>1. /\ pc = "full" /\ wal' = <<>> /\ page = NoPages /\ page' = page /\ job' = NoJob
        /\ replay' = replay /\ pc' = "idle" /\ job.op = "add"
    BY <1>0, <1>2 DEF FullReset, ResetIfNoPages, NoPageOpen, Return, FlowOK
  <2>2. replay = <<>>
    BY <1>0, <2>1 DEF FlowOK, Replaying
  <2> QED
    BY <2>1, <2>2, LogEmpty DEF NoPages, Pending, Doing, NoJob
<1>3. ASSUME DrainDone PROVE wal' = <<>> /\ Bare
  <2>1. /\ pc = "drain" /\ wal' = <<>> /\ page = NoPages /\ page' = page /\ job' = NoJob
        /\ replay' = replay /\ job.op \in {"flush", "close"} /\ pc' = "idle"
    BY <1>0, <1>3 DEF DrainDone, LoseMemory, Return, NoPageOpen, FlowOK
  <2>2. replay = <<>>
    BY <1>0, <2>1 DEF FlowOK, Replaying
  <2> QED
    BY <2>1, <2>2, LogEmpty DEF NoPages, Pending, Doing, NoJob
<1>4. wal' = wal \/ LogSample \/ SealReset \/ FullReset \/ DrainDone
  BY DEF Next, Write, Query, Seal, LoseMemory, Open, ReplaySkip, ReplayTake,
     ReplayRefused, ReplayDone, BeginAdd, OpenDay, SealPage,
     WriteMetricFile, KeepSource, DeleteSource, RemoveOldRaw, RenameSource, SweepDay,
     RemoveFile, SweepDone, StoreSample, FlushOther, DrainPage, Recompact,
     Compact, OthersDone, BeginDrain, Crash, QueryStart,
     QueryMetric, QueryResolve, QuerySource, QueryPage, QueryReturn
<1> QED
  BY <1>1, <1>2, <1>3, <1>4

LEMMA LogGrows ==
    ASSUME Base, LogSample
    PROVE  \A d \in Day : On(wal', d) = On(wal, d) \cup (IF job.day = d THEN {job.n} ELSE {})
<1> DEFINE r == [day |-> job.day, n |-> job.n]
<1>1. /\ wal \in Seq(Sample) /\ wal' = Append(wal, r) /\ job.day \in Day /\ job.n \in Nat
  BY TypeParts DEF Base, DiskTypes, PlaceTypes, Jobs, PlaceOK, FlowOK, LogSample
<1>2. r \in Sample /\ r.day = job.day /\ r.n = job.n
  BY <1>1 DEF Sample
<1> HIDE DEF r
<1>3. \A d : On(Append(wal, r), d) = On(wal, d) \cup (IF r.day = d THEN {r.n} ELSE {})
  BY <1>1, <1>2, LogAppend, Zenon
<1> QED
  BY <1>1, <1>2, <1>3

LEMMA PagesGrow ==
    ASSUME FilesInv, Next, NEW d \in Day
    PROVE  Range(page'[d]) \subseteq
              Range(page[d]) \cup (IF StoreSample /\ job.day = d THEN {job.n} ELSE {})
<1>0. TypeOK /\ SolidOK /\ Base /\ page \in [Day -> Seq(Nat)] /\ job \in Jobs
  BY TypeParts DEF FilesInv, FilesOK, Base, DaysTypes, PlaceTypes
<1>1. CASE StoreSample
  <2>1. job.n \in Nat /\ page' = [page EXCEPT ![job.day] = Append(@, job.n)]
    BY <1>0, <1>1 DEF StoreSample, Jobs
  <2>2. CASE d = job.day
    <3>1. page'[d] = Append(page[d], job.n) /\ page[d] \in Seq(Nat)
      BY <1>0, <2>1, <2>2
    <3> QED
      BY <1>1, <2>1, <2>2, <3>1, Appended
  <2>3. CASE d # job.day
    BY <1>0, <2>1, <2>3
  <2> QED
    BY <2>2, <2>3
<1>2. ASSUME NEW a \in Day, AppendFrame(a) PROVE Range(page'[d]) \subseteq Range(page[d])
  <2>1. page'[d] = page[d] \/ page'[d] = <<>>
    BY <1>0, <1>2 DEF AppendFrame
  <2> QED
    BY <2>1, RangeEmpty
<1>3. CASE Fades
  BY <1>3, RangeEmpty DEF Fades
<1>4. CASE WriteMetricFile \/ RenameSource
  BY <1>4 DEF WriteMetricFile, RenameSource
<1> QED
  BY <1>1, <1>2, <1>3, <1>4, Effects

LEMMA LoggedNext ==
    ASSUME FilesInv, LoggedOK, ReplayPagesOK, Next
    PROVE  LoggedOK'
<1>0. Base /\ Base' /\ FlowOK'
  BY BaseNext DEF FilesInv, Base
<1>1. CASE pc' = "down"
  <2>1. page' = NoPages /\ job' = NoJob /\ replay' = <<>>
    BY <1>0, <1>1 DEF FlowOK, Replaying, NoJob
  <2>2. ASSUME NEW d \in Day PROVE Range(page'[d]) = {} /\ Pending(d)' = {}
    BY <2>1, LogEmpty, RangeEmpty DEF NoPages, Pending, Doing, NoJob
  <2> QED
    BY <2>2 DEF LoggedOK
<1>2. ASSUME pc' # "down", NEW d \in Day
      PROVE  Range(page'[d]) \cup Pending(d)' \subseteq On(wal', d)
  <2>1. Range(page[d]) \subseteq On(wal, d) /\ Pending(d) \subseteq On(wal, d)
    BY DEF LoggedOK
  <2>2. CASE wal' = <<>> /\ page'[d] = <<>> /\ Pending(d)' = {}
    BY <2>2, RangeEmpty
  <2>3. CASE LogSample
    <3>1. Range(page'[d]) \subseteq Range(page[d])
      BY <2>3 DEF LogSample
    <3> QED
      BY <1>0, <1>2, <2>1, <2>3, <3>1, LogGrows, PendingNext
  <2>4. CASE wal' = wal
    <3>1. StoreSample /\ job.day = d => job.n \in On(wal, d)
      BY <1>0, <1>2, <2>1, PendingNext
    <3>2. Range(page'[d]) \subseteq On(wal, d)
      BY <2>1, <3>1, PagesGrow
    <3>3. Pending(d)' \subseteq On(wal, d)
      <4>1. CASE Open
        BY <1>0, <1>2, <4>1, PendingNext
      <4>2. CASE LogSample
        BY <1>0, <2>3, <4>2, <2>4
      <4>3. CASE ~Open /\ ~LogSample
        BY <1>0, <1>2, <2>1, <4>3, PendingNext
      <4> QED
        BY <4>1, <4>2, <4>3
    <3> QED
      BY <2>4, <3>2, <3>3
  <2> QED
    BY <1>0, <1>2, <2>2, <2>3, <2>4, WalNext
<1> QED
  BY <1>1, <1>2 DEF LoggedOK

\* A step of a replay that goes on leaves a page in every open day.
LEMMA ReplayPaged ==
    ASSUME FilesInv, ReplayPagesOK, Next, MaxActiveDays # 1, Replaying, Replaying',
           ~Open, ~ReplaySkip, ~ReplayTake, ~StoreSample
    PROVE  ReplayPagesOK'
<1> DEFINE Paged == /\ \A d \in open' : page'[d] # <<>> \/ (pc' = "store" /\ d = job'.day)
                    /\ pc' = "reset" => \E d \in Day : page'[d] # <<>>
<1>0. /\ Base /\ TypeOK /\ FlowOK /\ PlaceOK /\ job \in Jobs /\ page \in [Day -> Seq(Nat)]
      /\ open \subseteq Day /\ MaxActiveDays # 1 /\ query = NoQuery /\ query.phase = "none"
  BY TypeParts, NoQueryIs DEF FilesInv, Base, PlaceTypes, DaysTypes, FlowOK
<1>9. /\ job.op = "replay" /\ job'.op = "replay" /\ pc' # "replay" /\ pc # "replay"
      /\ job'.day = job.day
      /\ ~Open /\ ~ReplaySkip /\ ~ReplayTake /\ ~StoreSample
      /\ \A d \in open : page[d] # <<>> \/ (pc = "store" /\ d = job.day)
  BY <1>0, ReplayGoes DEF ReplayPagesOK
<1>10. ASSUME ReplayRefused PROVE Paged
  BY <1>10, <1>0, <1>9 DEF ReplayRefused, LoseMemory, FlowOK, Building
<1>11. ASSUME ReplayDone PROVE Paged
  BY <1>11, <1>0, <1>9 DEF ReplayDone, FlowOK, Building
<1>12. ASSUME NEW e \in Day, BeginAdd(e) PROVE Paged
  BY <1>12, <1>0, <1>9 DEF BeginAdd, FlowOK, Building
<1>13. ASSUME OpenDay PROVE Paged
  BY <1>13, <1>0, <1>9 DEF OpenDay, FlowOK, Building
<1>14. ASSUME SealPage PROVE Paged
  <2>1. \E o \in Day : o = OldestOpen /\ o \in open /\ ~HasRoom /\ pc = "open"
    BY <1>0, <1>14, OldestOpenIs DEF SealPage
  <2>2. PICK o \in Day : o = OldestOpen /\ o \in open /\ ~HasRoom /\ pc = "open"
    BY <2>1, Zenon
  <2>3. /\ page' = [page EXCEPT ![o] = <<>>] \/ page' = page
        /\ open' = open \ {o} /\ pc' = "reset"
    BY <1>14, <2>2 DEF SealPage, AppendFrame
  <2>4. \A d \in open : d # o => page'[d] = page[d] /\ page[d] # <<>> /\ d \in Day
    BY <1>0, <1>9, <2>2, <2>3
  <2>5. open \ {o} # {}
    <3>1. IsFiniteSet(open) /\ Cardinality(open) >= 2
      <4>1. IsFiniteSet(open) /\ MaxActiveDays >= 2
        <5>1. MaxActiveDays \in Nat \ {0} /\ IsFiniteSet(Day)
          BY Assumed
        <5>2. MaxActiveDays >= 2
          BY <1>0, <5>1
        <5>3. IsFiniteSet(open)
          BY <1>0, <5>1, FS_Subset
        <5> QED
          BY <5>2, <5>3
      <4>2. Cardinality(open) \in Nat
        BY <4>1, FS_CardinalityType
      <4> QED
        BY <2>2, <4>1, <4>2, Assumed DEF HasRoom
    <3>2. Cardinality(open \ {o}) = Cardinality(open) - 1
      BY <2>2, <3>1, FS_RemoveElement
    <3>3. Cardinality(open) \in Nat
      BY <3>1, FS_CardinalityType
    <3>4. Cardinality({}) = 0
      BY FS_EmptySet
    <3> QED
      BY <3>1, <3>2, <3>3, <3>4
  <2> QED
    BY <2>3, <2>4, <2>5
<1>15. ASSUME SealReset PROVE Paged
  BY <1>15, <1>0, <1>9 DEF SealReset, FlowOK, Building
<1>16. ASSUME WriteMetricFile PROVE Paged
  BY <1>16, <1>0, <1>9 DEF WriteMetricFile, FlowOK, Building
<1>17. ASSUME KeepSource PROVE Paged
  BY <1>17, <1>0, <1>9 DEF KeepSource, AfterBuild, Return, FlowOK, Building
<1>18. ASSUME DeleteSource PROVE Paged
  BY <1>18, <1>0, <1>9 DEF DeleteSource, AfterBuild, Return, FlowOK, Building
<1>19. ASSUME RemoveOldRaw PROVE Paged
  BY <1>19, <1>0, <1>9 DEF RemoveOldRaw, FlowOK, Building
<1>20. ASSUME RenameSource PROVE Paged
  BY <1>20, <1>0, <1>9 DEF RenameSource, AfterBuild, Return, FlowOK, Building
<1>21. ASSUME SweepDay PROVE Paged
  BY <1>21, <1>0, <1>9 DEF SweepDay, FlowOK, Building
<1>22. ASSUME RemoveFile PROVE Paged
  BY <1>22, <1>0, <1>9 DEF RemoveFile, FlowOK, Building
<1>23. ASSUME SweepDone PROVE Paged
  BY <1>23, <1>0, <1>9 DEF SweepDone, FlowOK, Building
<1>24. ASSUME LogSample PROVE Paged
  BY <1>24, <1>0, <1>9 DEF LogSample, FlowOK, Building
<1>25. ASSUME NEW e \in Day, FlushOther(e) PROVE Paged
  BY <1>25, <1>0, <1>9 DEF FlushOther, FlowOK, Building
<1>26. ASSUME NEW e \in Day, DrainPage(e) PROVE Paged
  BY <1>26, <1>0, <1>9 DEF DrainPage, FlowOK, Building
<1>27. ASSUME NEW e \in Day, Recompact(e) PROVE Paged
  BY <1>27, <1>0, <1>9 DEF Recompact, FlowOK, Building
<1>28. ASSUME NEW e \in Day, Compact(e) PROVE Paged
  BY <1>28, <1>0, <1>9 DEF Compact, FlowOK, Building
<1>29. ASSUME OthersDone PROVE Paged
  BY <1>29, <1>0, <1>9 DEF OthersDone, Return, FlowOK, Building
<1>30. ASSUME FullReset PROVE Paged
  BY <1>30, <1>0, <1>9 DEF FullReset, Return, FlowOK, Building
<1>31. ASSUME NEW op \in {"flush", "close"}, BeginDrain(op) PROVE Paged
  BY <1>31, <1>0, <1>9 DEF BeginDrain, FlowOK, Building
<1>32. ASSUME DrainDone PROVE Paged
  BY <1>32, <1>0, <1>9 DEF DrainDone, LoseMemory, Return, FlowOK, Building
<1>33. ASSUME Crash PROVE Paged
  BY <1>33, <1>0, <1>9 DEF Crash, LoseMemory, NoJob, FlowOK, Building
<1>34. ASSUME NEW e \in Day, QueryStart(e) PROVE Paged
  BY <1>34, <1>0, <1>9 DEF QueryStart, FlowOK, Building
<1>35. ASSUME QueryMetric PROVE Paged
  BY <1>35, <1>0, <1>9 DEF QueryMetric, FlowOK, Building
<1>36. ASSUME QueryResolve PROVE Paged
  BY <1>36, <1>0, <1>9 DEF QueryResolve, FlowOK, Building
<1>37. ASSUME QuerySource PROVE Paged
  BY <1>37, <1>0, <1>9 DEF QuerySource, FlowOK, Building
<1>38. ASSUME QueryPage PROVE Paged
  BY <1>38, <1>0, <1>9 DEF QueryPage, FlowOK, Building
<1>39. ASSUME QueryReturn PROVE Paged
  BY <1>39, <1>0, <1>9 DEF QueryReturn, FlowOK, Building
<1>50. Paged
  BY <1>9, <1>10, <1>11, <1>12, <1>13, <1>14, <1>15, <1>16, <1>17, <1>18, <1>19, <1>20, <1>21,
<1>22, <1>23, <1>24, <1>25, <1>26, <1>27, <1>28, <1>29, <1>30, <1>31, <1>32, <1>33,
<1>34, <1>35, <1>36, <1>37, <1>38, <1>39 DEF Next, Write, Query, Seal
<1> QED
  BY <1>50 DEF ReplayPagesOK

LEMMA ReplayPagesNext ==
    ASSUME FilesInv, ReplayPagesOK, Next, MaxActiveDays # 1
    PROVE  ReplayPagesOK'
<1>0. /\ Base /\ FlowOK /\ PlaceOK /\ job \in Jobs /\ page \in [Day -> Seq(Nat)] /\ open \subseteq Day
  BY TypeParts DEF FilesInv, Base, PlaceTypes, DaysTypes
<1>1. CASE Open
  BY <1>0, <1>1 DEF Open, FlowOK, ReplayPagesOK
<1>2. CASE ~Replaying'
  BY <1>2 DEF ReplayPagesOK
<1>3. CASE Replaying /\ (ReplaySkip \/ ReplayTake)
  BY <1>0, <1>3 DEF ReplaySkip, ReplayTake, ReplayPagesOK
<1>4. CASE Replaying /\ StoreSample
  <2>1. /\ pc = "store" /\ pc' # "reset" /\ open' = open /\ job.day \in Day /\ job.n \in Nat
        /\ page' = [page EXCEPT ![job.day] = Append(@, job.n)]
        /\ \A d \in open : page[d] # <<>> \/ d = job.day
    BY <1>0, <1>4 DEF StoreSample, PlaceOK, FlowOK, ReplayPagesOK, Jobs
  <2>2. page'[job.day] # <<>>
    <3>1. page'[job.day] = Append(page[job.day], job.n) /\ page[job.day] \in Seq(Nat)
      BY <1>0, <2>1
    <3> QED
      BY <2>1, <3>1, Appended
  <2>3. \A d \in Day : d # job.day => page'[d] = page[d]
    BY <1>0, <2>1
  <2>4. \A d \in open' : page'[d] # <<>>
    BY <1>0, <2>1, <2>2, <2>3
  <2> QED
    BY <2>1, <2>4 DEF ReplayPagesOK
<1>5. CASE Replaying /\ Replaying' /\ ~Open /\ ~ReplaySkip /\ ~ReplayTake /\ ~StoreSample
  BY <1>5, ReplayPaged
<1>6. Replaying \/ Open \/ ~Replaying'
  BY <1>0, ReplayBegins
<1> QED
  BY <1>1, <1>2, <1>3, <1>4, <1>5, <1>6

LEMMA MarkIs ==
    ASSUME NEW s \in Seq(Nat), Rising(s), s # <<>>
    PROVE  Mark(s) \in Range(s) /\ Mark(s) \in Nat /\ \A n \in Range(s) : n <= Mark(s)
<1>1. Mark(s) = Max(Range(s))
  BY DEF Mark
<1> QED
  BY <1>1, RisingMax, RangeOf

LEMMA DurableIs ==
    ASSUME TypeOK, SolidOK, NEW d \in Day
    PROVE  Durable(d) = Mark(held[d]["data"])
  BY HeldIs, Kinds DEF Durable, Mark

\* Nothing but an open happens while the database is down.
LEMMA DownOpens ==
    ASSUME Base, Next, pc = "down"
    PROVE  Open
<1>1. query.phase = "none" /\ page = NoPages
  BY NoQueryIs DEF Base, FlowOK
<1> QED
  BY <1>1 DEF Next, Write, Query, Seal, ReplaySkip, ReplayTake, ReplayRefused,
     ReplayDone, BeginAdd, OpenDay, SealPage, SealReset, WriteMetricFile, KeepSource,
     DeleteSource, RemoveOldRaw, RenameSource, SweepDay, RemoveFile, SweepDone,
     LogSample, StoreSample, FlushOther, DrainPage, Recompact, Compact, OthersDone,
     FullReset, BeginDrain, DrainDone, Crash, QueryStart, QueryMetric, QueryResolve,
     QuerySource, QueryPage, QueryReturn, NoQuery

\* A sample is acknowledged at the end of its call.
LEMMA AckNext ==
    ASSUME Base, Next
    PROVE  \/ acked' = acked
           \/ /\ pc \in {"others", "full"} /\ pc' # "down"
              /\ acked' = acked \cup {[day |-> job.day, n |-> job.n]}
<1>1. FlowOK
  BY DEF Base
<1> DEFINE Acks == \/ acked' = acked
                   \/ /\ pc \in {"others", "full"} /\ pc' # "down"
                      /\ acked' = acked \cup {[day |-> job.day, n |-> job.n]}
<1>2. ASSUME OthersDone \/ FullReset PROVE Acks
  BY <1>2 DEF OthersDone, FullReset, Return
<1>3. ASSUME KeepSource \/ DeleteSource \/ RenameSource PROVE Acks
  BY <1>3 DEF KeepSource, DeleteSource, RenameSource, AfterBuild, Return
<1>4. ASSUME DrainDone PROVE Acks
  BY <1>1, <1>4 DEF DrainDone, Return, FlowOK
<1>5. \/ acked' = acked \/ OthersDone \/ FullReset \/ KeepSource \/ DeleteSource \/ RenameSource
      \/ DrainDone
  BY DEF Next, Write, Query, Seal, Open, ReplaySkip, ReplayTake, ReplayRefused,
     ReplayDone, BeginAdd, OpenDay, SealPage, SealReset, WriteMetricFile, RemoveOldRaw,
     SweepDay, RemoveFile, SweepDone, LogSample, StoreSample, FlushOther, DrainPage,
     Recompact, Compact, BeginDrain, Crash, QueryStart, QueryMetric, QueryResolve,
     QuerySource, QueryPage, QueryReturn, LoseMemory
<1> QED
  BY <1>2, <1>3, <1>4, <1>5

\* A database goes down with its log, or with nothing in a page.
LEMMA DownNext ==
    ASSUME Base, Next, pc' = "down"
    PROVE  /\ acked' = acked
           /\ \/ wal' = wal
              \/ /\ wal' = <<>> /\ page = NoPages
                 /\ \A d : Pending(d) = {}
<1>1. FlowOK
  BY DEF Base
<1>2. CASE DrainDone
  <2>1. /\ pc = "drain" /\ wal' = <<>> /\ page = NoPages
        /\ job.op \in {"flush", "close"} /\ replay = <<>>
    BY <1>1, <1>2 DEF DrainDone, NoPageOpen, FlowOK, Replaying
  <2>2. \A d : Pending(d) = {}
    BY <2>1, LogEmpty DEF Pending, Doing
  <2>3. acked' = acked
    BY <1>2 DEF DrainDone, Return
  <2> QED
    BY <2>1, <2>2, <2>3
<1>3. CASE ~DrainDone
  <2>1. ReplayRefused \/ Crash \/ Query \/ ReplaySkip \/ (\E d \in Day : FlushOther(d) \/ DrainPage(d) \/ Recompact(d))
    BY <1>3 DEF Next, Write, Seal, LoseMemory, AfterBuild, Return, Open,
       ReplayTake, ReplayDone, BeginAdd, OpenDay, SealPage, SealReset,
       WriteMetricFile, KeepSource, DeleteSource, RemoveOldRaw, RenameSource, SweepDay,
       RemoveFile, SweepDone, LogSample, StoreSample, Compact, OthersDone,
       FullReset, BeginDrain
  <2> QED
    BY <2>1 DEF ReplayRefused, Crash, Query, QueryStart, QueryMetric, QueryResolve, QuerySource,
       QueryPage, QueryReturn, ReplaySkip, FlushOther, DrainPage, Recompact
<1> QED
  BY <1>2, <1>3

LEMMA OthersNext ==
    ASSUME Next, pc' \in {"others", "full"}
    PROVE  StoreSample \/ (pc \in {"others", "full"} /\ job' = job)
<1>1. \/ StoreSample \/ Query \/ OthersDone \/ ReplaySkip
      \/ \E d \in Day : FlushOther(d) \/ DrainPage(d) \/ Recompact(d)
  BY DEF Next, Write, Seal, LoseMemory, AfterBuild, Return, Open,
     ReplayTake, ReplayRefused, ReplayDone, BeginAdd, OpenDay, SealPage, SealReset,
     WriteMetricFile, KeepSource, DeleteSource, RemoveOldRaw, RenameSource, SweepDay,
     RemoveFile, SweepDone, LogSample, Compact, FullReset, BeginDrain, DrainDone, Crash
<1> QED
  BY <1>1 DEF Query, QueryStart, QueryMetric, QueryResolve, QuerySource, QueryPage, QueryReturn,
     OthersDone, Return, ReplaySkip, FlushOther, DrainPage, Recompact

OwedInv == OrderInv /\ OwedOK

\* What may still be written to a page is later than the page.
LEMMA PendingLater ==
    ASSUME OrderInv, NEW d \in Day, pc \in {"open", "others", "drain"}, page[d] # <<>>,
           NEW n \in Pending(d)
    PROVE  /\ n \in Nat /\ \A m \in Range(page[d]) : m < n
           /\ \A m \in Range(held[d]["data"]) : m < n
<1>0. /\ Base /\ TypeOK /\ SolidOK /\ FlowOK /\ OrderDay(d) /\ OrderReplay /\ OrderLog
      /\ replay \in Seq(Sample) /\ job \in Jobs /\ page[d] \in Seq(Nat)
      /\ held[d]["data"] \in Seq(Nat) /\ calls \in Nat
  BY TypeParts, HeldHere DEF OrderInv, OrderOK, FilesInv, FilesOK, Base, PlaceTypes, DaysTypes,
     BookTypes
<1>1. On(replay, d) \subseteq Numbers(replay) /\ Numbers(replay) \subseteq Nat
  BY <1>0, LogIs
<1>2. job.op = "replay"
  <2>1. CASE n \in On(replay, d)
    <3>1. replay # <<>>
      BY <2>1, LogEmpty
    <3> QED
      BY <1>0, <3>1 DEF FlowOK, Replaying
  <2>2. CASE n \in Doing(d)
    BY <2>2 DEF Doing
  <2> QED
    BY <2>1, <2>2 DEF Pending
<1>3. n = job.n \/ n \in Numbers(replay)
  BY <1>1 DEF Pending, Doing
<1>4. job.n \in Nat /\ n \in Nat
  BY <1>0, <1>1, <1>3 DEF Jobs
<1>5. Below(Range(page[d]), {job.n}) /\ Below({job.n}, Numbers(replay))
  BY <1>0, <1>2 DEF OrderReplay
<1>6. Range(page[d]) \subseteq Nat /\ Range(held[d]["data"]) \subseteq Nat
  BY <1>0, RangeOf
<1> DEFINE P == Range(page[d])
           A == Range(held[d]["data"])
           j == job.n
<1>7. /\ P \subseteq Nat /\ A \subseteq Nat /\ j \in Nat /\ n \in Nat /\ P # {}
      /\ (\A m \in P : m < j) /\ (n = j \/ j < n) /\ (\A x \in A, y \in P : x < y)
  <2>1. P # {}
    BY <1>0, RangeOf
  <2>2. \A x \in A, y \in P : x < y
    BY <1>0 DEF OrderDay, Below
  <2> QED
    BY <1>3, <1>4, <1>5, <1>6, <2>1, <2>2 DEF Below
<1> HIDE DEF P, A, j
<1>8. \A m \in P : m < n
  BY <1>7
<1>9. \A m \in A : m < n
  <2>1. PICK y \in P : y \in Nat /\ y < n /\ \A x \in A : x < y
    BY <1>7, <1>8
  <2>2. ASSUME NEW x \in A PROVE x < n
    <3>1. x \in Nat /\ x < y
      BY <1>7, <2>1
    <3> QED
      BY <1>7, <2>1, <3>1
  <2> QED
    BY <2>2
<1> QED
  BY <1>4, <1>8, <1>9 DEF P, A

\* The data file of a day stays, goes, or gets the page of the day.
LEMMA DataMoves ==
    ASSUME FilesInv, Next, NEW d \in Day
    PROVE  \/ held'[d]["data"] = held[d]["data"]
           \/ held'[d]["data"] = <<>>
           \/ /\ held'[d]["data"] = held[d]["data"] \o page[d]
              /\ page[d] # <<>> /\ page'[d] = <<>> /\ pc \in {"open", "others", "drain"}
<1>0. Base /\ SolidOK /\ TypeOK /\ page \in [Day -> Seq(Nat)]
  BY TypeParts DEF FilesInv, FilesOK, Base, DaysTypes
<1>1. CASE Fades
  BY <1>1, Kinds DEF Fades
<1>2. ASSUME NEW a \in Day, page[a] # <<>>, AppendFrame(a), pc \in {"open", "others", "drain"}
      PROVE  \/ held'[d]["data"] = held[d]["data"]
             \/ /\ held'[d]["data"] = held[d]["data"] \o page[d]
                /\ page[d] # <<>> /\ page'[d] = <<>> /\ pc \in {"open", "others", "drain"}
  <2>1. Sets(a, "data", held[a]["data"] \o page[a]) /\ page' = [page EXCEPT ![a] = <<>>]
    BY <1>0, <1>2, Appends DEF AppendFrame
  <2> QED
    BY <1>0, <1>2, <2>1, Kinds DEF Sets
<1>3. CASE WriteMetricFile
  <2>1. PICK s \in Day, k \in {"data", "raw"} : Sets(s, "metric", held[s][k])
    BY <1>0, <1>3, Writes
  <2> QED
    BY <2>1, Kinds DEF Sets
<1>4. CASE RenameSource
  <2>1. \E s \in Day : s = job.seal
    BY <1>0, <1>4 DEF RenameSource, Base, PlaceOK, Sealing
  <2>2. PICK s \in Day : s = job.seal
    BY <2>1, Zenon
  <2>3. file' = [file EXCEPT ![s]["raw"] = file[s]["data"], ![s]["data"] = <<>>]
    BY <1>4, <2>2 DEF RenameSource
  <2>4. held'[s]["data"] = <<>> /\ \A e \in Day \ {s}, j \in Kind : held'[e][j] = held[e][j]
    BY <1>0, <2>3, Renames, Zenon
  <2> QED
    BY <2>4, Kinds
<1>5. CASE StoreSample
  BY <1>0, <1>5, FilesStay DEF StoreSample
<1> QED
  BY <1>1, <1>2, <1>3, <1>4, <1>5, Effects

LEMMA MarkNext ==
    ASSUME OwedInv, OrderInv', Next, NEW d \in Day, Watched(d)'
    PROVE  MarkOK(d)'
<1>0. /\ OrderInv /\ FilesInv /\ Base /\ TypeOK /\ SolidOK /\ OrderDay(d) /\ OrderDay(d)'
      /\ OrderLog /\ OrderLog' /\ FlowOK /\ Watched(d) /\ HasOK(d) /\ wal \in Seq(Sample) /\ TypeOK'
      /\ LoggedOK /\ ReplayPagesOK
  <2>1. Watched(d)
    BY WatchedNext DEF OwedInv, OrderInv
  <2> QED
    BY <2>1, TypeParts DEF OwedInv, OwedOK, OrderInv, OrderOK, FilesInv, FilesOK, Base, DiskTypes
<1> DEFINE s == held[d]["data"]
           t == held'[d]["data"]
<1>1. /\ s \in Seq(Nat) /\ t \in Seq(Nat) /\ Rising(s) /\ Rising(t) /\ page[d] \in Seq(Nat)
  <2>1. s \in Seq(Nat) /\ page[d] \in Seq(Nat)
    BY <1>0, HeldHere, TypeParts DEF DaysTypes
  <2>2. Rising(s) /\ Rising(t)
    BY <1>0, Kinds DEF OrderDay
  <2>3. t \in Seq(Nat)
    BY <1>0, <2>1, DataMoves, RangeJoined, RangeEmpty
  <2> QED
    BY <2>1, <2>2, <2>3
<1>2. \A n \in On(wal', d) : n \in Nat /\ n >= 1
  <2>1. wal' \in Seq(Sample)
    BY <1>0 DEF TypeOK
  <2>2. On(wal', d) \subseteq Numbers(wal')
    BY DEF On, Numbers
  <2>3. Numbers(wal') \subseteq 1..WalTop'
    BY <1>0 DEF OrderLog
  <2> QED
    BY <2>2, <2>3
<1>3. CASE t = <<>>
  <2>1. Mark(t) = 0
    BY <1>3 DEF Mark
  <2> QED
    BY <1>2, <2>1 DEF MarkOK
<1>4. MarkOK(d) /\ (pc # "down" => On(wal, d) \subseteq Has(d) \cup Pending(d))
  BY <1>0 DEF HasOK
<1>5. CASE t # <<>> /\ t = s
  <2>1. ASSUME NEW n \in On(wal', d), n <= Mark(t) PROVE n \in Range(t)
    <3>1. CASE n \in On(wal, d)
      BY <1>4, <1>5, <2>1, <3>1 DEF MarkOK
    <3>2. CASE n \notin On(wal, d)
      <4>1. LogSample
        <5>1. pc' = "down" => wal' = wal \/ wal' = <<>>
          BY <1>0, DownNext
        <5>2. wal' = wal \/ wal' = <<>> \/ LogSample
          BY <1>0, <5>1, WalNext
        <5> QED
          BY <2>1, <3>2, <5>2, LogEmpty
      <4>2. n = calls /\ job.op = "add" /\ pc = "log"
        <5>1. n = job.n
          BY <1>0, <2>1, <3>2, <4>1, LogGrows
        <5> QED
          BY <1>0, <4>1, <5>1 DEF LogSample, FlowOK, OrderLog
      <4>3. Range(s) \subseteq 1..(calls - 1) /\ calls \in Nat
        <5>1. Told = calls - 1 /\ calls \in Nat
          BY <1>0, <4>2, ToldNext DEF Told
        <5> QED
          BY <1>0, <5>1 DEF OrderDay, Kept
      <4>4. Mark(s) \in Range(s)
        BY <1>1, <1>5, MarkIs
      <4> DEFINE m == Mark(s)
      <4>5. m \in 1..(calls - 1) /\ calls <= m
        BY <1>5, <2>1, <4>2, <4>3, <4>4
      <4> HIDE DEF m
      <4> QED
        BY <4>3, <4>5
    <3> QED
      BY <3>1, <3>2
  <2> QED
    BY <2>1 DEF MarkOK
<1>6. CASE /\ t = s \o page[d] /\ t # <<>>
           /\ page[d] # <<>> /\ pc \in {"open", "others", "drain"}
  <2>0. Range(t) = Range(s) \cup Range(page[d])
    BY <1>1, <1>6, RangeJoined
  <2>1. ASSUME NEW n \in On(wal', d), n <= Mark(t) PROVE n \in Range(t)
    <3>1. n \in On(wal, d)
      <4>1. pc' = "down" => wal' = wal \/ wal' = <<>>
        BY <1>0, DownNext
      <4>2. wal' = wal \/ wal' = <<>> \/ LogSample
        BY <1>0, <4>1, WalNext
      <4>3. ~LogSample
        BY <1>6 DEF LogSample
      <4> QED
        BY <2>1, <4>2, <4>3, LogEmpty
    <3>2. CASE n \in Has(d)
      <4>1. setting.raw # "keep" => held[d]["metric"] = <<>> /\ held[d]["raw"] = <<>>
        BY <1>0, <1>6 DEF Watched, FilesInv, FilesOK, DayOK
      <4>2. Stays(d) = Range(s)
        BY <4>1, RangeEmpty DEF Stays, Kept
      <4> QED
        BY <2>0, <3>2, <4>2 DEF Has
    <3>3. CASE n \in Pending(d)
      <4>1. n \in Nat /\ \A m \in Range(t) : m < n
        BY <1>0, <1>6, <2>0, <3>3, PendingLater
      <4>2. Mark(t) \in Range(t) /\ Mark(t) \in Nat
        BY <1>1, <1>6, MarkIs
      <4> DEFINE m == Mark(t)
      <4>3. m \in Nat /\ m < n /\ n <= m /\ n \in Nat
        BY <2>1, <4>1, <4>2
      <4> HIDE DEF m
      <4> QED
        BY <4>3
    <3> QED
      BY <1>4, <1>6, <3>1, <3>2, <3>3
  <2> QED
    BY <2>1 DEF MarkOK
<1> QED
  BY <1>0, <1>3, <1>5, <1>6, DataMoves

\* The sample of a call that ends is in its day.
LEMMA HasNextOK ==
    ASSUME OwedInv, OrderInv', Next, NEW d \in Day
    PROVE  HasOK(d)'
<1> SUFFICES ASSUME Watched(d)' PROVE HasOK(d)'
  BY DEF HasOK
<1>0. /\ OrderInv /\ FilesInv /\ Base /\ TypeOK /\ SolidOK /\ FlowOK /\ PlaceOK
      /\ Watched(d) /\ HasOK(d) /\ LoggedOK /\ ReplayPagesOK /\ Stays(d) \subseteq Stays(d)'
      /\ page \in [Day -> Seq(Nat)] /\ job \in Jobs
  <2>1. Watched(d) /\ Stays(d) \subseteq Stays(d)'
    BY WatchedNext DEF OwedInv, OrderInv
  <2> QED
    BY <2>1, TypeParts DEF OwedInv, OwedOK, OrderInv, OrderOK, FilesInv, FilesOK, Base, DaysTypes,
       PlaceTypes
<1>1. /\ MarkOK(d)
      /\ pc = "down" => Acked(d) \subseteq Stays(d) \cup On(wal, d)
      /\ pc # "down" => Acked(d) \cup On(wal, d) \subseteq Has(d) \cup Pending(d)
      /\ pc \in {"others", "full"} /\ job.day = d => job.n \in Has(d)
      /\ Range(page[d]) \cup Pending(d) \subseteq On(wal, d)
  BY <1>0 DEF HasOK, LoggedOK
<1>2. MarkOK(d)'
  BY MarkNext
\* The sample just put into a page.
<1>3. StoreSample /\ job.day = d => job.n \in Range(page'[d])
  <2>1. ASSUME StoreSample, job.day = d PROVE job.n \in Range(page'[d])
    <3>1. page'[d] = Append(page[d], job.n) /\ page[d] \in Seq(Nat) /\ job.n \in Nat
      BY <1>0, <2>1 DEF StoreSample, Jobs
    <3> QED
      BY <3>1, Appended
  <2> QED
    BY <2>1
<1>4. ASSUME pc' = "down" PROVE Acked(d)' \subseteq Stays(d)' \cup On(wal', d)
  <2>1. pc # "down"
    BY <1>0, <1>4, DownOpens DEF Open
  <2>2. Acked(d)' = Acked(d)
    BY <1>0, <1>4, DownNext DEF Acked
  <2>3. CASE wal' = wal
    BY <1>0, <1>1, <2>1, <2>2, <2>3 DEF Has
  <2>4. CASE page = NoPages /\ Pending(d) = {}
    <3>1. Range(page[d]) = {}
      BY <2>4, RangeEmpty DEF NoPages
    <3> QED
      BY <1>0, <1>1, <2>1, <2>2, <2>4, <3>1 DEF Has
  <2> QED
    BY <1>0, <1>4, <2>3, <2>4, DownNext
<1>5. ASSUME pc' # "down", pc = "down"
      PROVE  Acked(d)' \cup On(wal', d) \subseteq Has(d)' \cup Pending(d)'
  <2>1. Open
    BY <1>0, <1>5, DownOpens
  <2>2. Pending(d)' = On(wal, d) /\ wal' = wal /\ Acked(d)' = Acked(d)
    BY <1>0, <1>5, <2>1, PendingNext DEF Open, Acked
  <2> QED
    BY <1>0, <1>1, <1>5, <2>2 DEF Has
<1>6. ASSUME pc' # "down", pc # "down"
      PROVE  Acked(d)' \cup On(wal', d) \subseteq Has(d)' \cup Pending(d)'
  <2>1. Has(d) \subseteq Has(d)'
    BY <1>0, <1>6, HasNext
  <2>2. Pending(d) \subseteq Has(d)' \cup Pending(d)'
    <3>1. CASE ReplaySkip
      <4> DEFINE r == Head(replay)
      <4>1. /\ r.n \in On(replay, r.day) /\ r.day \in Day
            /\ Pending(d) = Pending(d)' \cup (IF r.day = d THEN {r.n} ELSE {})
        BY <1>0, <1>6, <3>1, PendingNext
      <4>2. r.n <= Durable(r.day)
        BY <3>1 DEF ReplaySkip, SkipDurable
      <4> HIDE DEF r
      <4>3. ASSUME r.day = d PROVE r.n \in Stays(d)
        <5>1. r.n \in On(wal, d)
          BY <1>1, <4>1, <4>3 DEF Pending
        <5>2. r.n <= Mark(held[d]["data"])
          BY <1>0, <4>2, <4>3, DurableIs
        <5>3. r.n \in Range(held[d]["data"])
          BY <1>1, <5>1, <5>2 DEF MarkOK
        <5> QED
          BY <5>3 DEF Stays, Kept
      <4> QED
        BY <1>0, <4>1, <4>3 DEF Has
    <3>2. CASE StoreSample
      BY <1>0, <1>3, <1>6, <3>2, PendingNext DEF Has
    <3>3. CASE ~ReplaySkip /\ ~StoreSample
      <4>1. ~Open
        BY <1>6 DEF Open
      <4> QED
        BY <1>0, <1>6, <3>3, <4>1, PendingNext
    <3> QED
      BY <3>1, <3>2, <3>3
  <2>3. On(wal', d) \subseteq Has(d)' \cup Pending(d)'
    <3>1. CASE wal' = wal
      BY <1>1, <1>6, <2>1, <2>2, <3>1
    <3>2. CASE LogSample
      BY <1>0, <1>1, <1>6, <2>1, <2>2, <3>2, LogGrows, PendingNext
    <3>3. CASE wal' = <<>>
      BY <3>3, LogEmpty
    <3> QED
      BY <1>0, <1>6, <3>1, <3>2, <3>3, WalNext
  <2>4. Acked(d)' \subseteq Has(d)' \cup Pending(d)'
    <3>1. CASE acked' = acked
      BY <1>1, <1>6, <2>1, <2>2, <3>1 DEF Acked
    <3>2. CASE /\ pc \in {"others", "full"}
               /\ acked' = acked \cup {[day |-> job.day, n |-> job.n]}
      <4>1. Acked(d)' \subseteq Acked(d) \cup (IF job.day = d THEN {job.n} ELSE {})
        BY <3>2 DEF Acked
      <4> QED
        BY <1>1, <1>6, <2>1, <2>2, <3>2, <4>1
    <3> QED
      BY <1>0, <3>1, <3>2, AckNext
  <2> QED
    BY <2>3, <2>4
<1>7. ASSUME pc' \in {"others", "full"}, job'.day = d PROVE job'.n \in Has(d)'
  <2>1. CASE StoreSample
    <3>1. pc' = "others" => job' = job
      BY <2>1 DEF StoreSample
    <3>2. pc' = "others"
      BY <1>7, <2>1 DEF StoreSample
    <3> QED
      BY <1>3, <1>7, <2>1, <3>1, <3>2 DEF Has
  <2>2. CASE pc \in {"others", "full"} /\ job' = job
    BY <1>0, <1>1, <1>7, <2>2, HasNext
  <2> QED
    BY <1>7, <2>1, <2>2, OthersNext
<1> QED
  BY <1>2, <1>4, <1>5, <1>6, <1>7 DEF HasOK

LEMMA OwedInit == Init => OwedInv
<1> SUFFICES ASSUME Init PROVE OwedInv
  OBVIOUS
<1>1. OrderInv
  BY OrderInit
<1>2. /\ page = NoPages /\ wal = <<>> /\ replay = <<>> /\ pc = "down" /\ job.op = "none"
      /\ acked = {}
  BY DEF Init, NoJob
<1>3. \A d \in Day : page[d] = <<>> /\ Pending(d) = {} /\ Acked(d) = {} /\ On(wal, d) = {}
  BY <1>2, LogEmpty DEF NoPages, Pending, Doing, Acked
<1>4. LoggedOK
  BY <1>3, RangeEmpty DEF LoggedOK
<1>5. ReplayPagesOK
  BY <1>2 DEF ReplayPagesOK, Replaying
<1>6. \A d \in Day : HasOK(d)
  BY <1>2, <1>3 DEF HasOK, MarkOK
<1> QED
  BY <1>1, <1>4, <1>5, <1>6 DEF OwedInv, OwedOK

LEMMA OwedNext == MaxActiveDays # 1 /\ OwedInv /\ [Next]_vars => OwedInv'
<1>1. ASSUME MaxActiveDays # 1, OwedInv, Next PROVE OwedInv'
  <2>1. OrderInv' /\ FilesInv
    BY <1>1, OrderInvNext DEF OwedInv, OrderInv
  <2>2. LoggedOK' /\ ReplayPagesOK'
    BY <1>1, <2>1, LoggedNext, ReplayPagesNext DEF OwedInv, OwedOK
  <2>3. \A d \in Day : HasOK(d)'
    BY <1>1, <2>1, HasNextOK
  <2> QED
    BY <2>1, <2>2, <2>3 DEF OwedInv, OwedOK
<1>2. ASSUME OwedInv, UNCHANGED vars PROVE OwedInv'
  <2>1. OrderInv'
    BY <1>2, OrderInvNext DEF OwedInv
  <2>2. UNCHANGED <<file, open, page, pc, job, wal, replay, acked, setting, newest, late>>
    BY <1>2
  <2>3. held' = held
    BY <2>2 DEF held
  <2>4. \A d : Pending(d)' = Pending(d)
    BY <2>2 DEF Pending, Doing
  <2>5. LoggedOK' /\ ReplayPagesOK'
    BY <1>2, <2>2, <2>4 DEF OwedInv, OwedOK, LoggedOK, ReplayPagesOK, Replaying
  <2>6. ASSUME NEW d \in Day PROVE HasOK(d)'
    <3>1. HasOK(d)
      BY <1>2 DEF OwedInv, OwedOK
    <3>2. Has(d)' = Has(d) /\ Stays(d)' = Stays(d) /\ Acked(d)' = Acked(d)
      BY <2>2, <2>3 DEF Has, Stays, Kept, Acked
    <3> QED
      BY <2>2, <2>3, <2>4, <3>1, <3>2 DEF HasOK, MarkOK, Watched, Expired
  <2> QED
    BY <2>1, <2>5, <2>6 DEF OwedInv, OwedOK
<1> QED
  BY <1>1, <1>2

\* Between calls nothing is pending.
LEMMA NothingPending ==
    ASSUME OwedInv, pc = "idle", NEW a \in acked, Watched(a.day)
    PROVE  a.day \in Day /\ a.n \in Has(a.day)
<1>1. Base /\ FlowOK /\ TypeOK
  BY DEF OwedInv, OrderInv, FilesInv, Base
<1>2. a \in Sample
  BY <1>1 DEF TypeOK
<1>3. \E d \in Day : d = a.day
  BY <1>2, SampleIs
<1>4. PICK d \in Day : d = a.day
  BY <1>3, Zenon
<1>5. Pending(d) = {}
  BY <1>1, LogEmpty DEF FlowOK, Replaying, Pending, Doing, NoJob
<1>6. a.n \in Acked(d)
  BY <1>4 DEF Acked
<1>7. Acked(d) \subseteq Has(d) \cup Pending(d)
  BY <1>4 DEF OwedInv, OwedOK, HasOK
<1> QED
  BY <1>4, <1>5, <1>6, <1>7

\* A sequence that rises and the page of the day behind it.
LEMMA FoundOnce ==
    ASSUME NEW s \in Seq(Nat), NEW t \in Seq(Nat), Rising(s), Rising(t),
           Below(Range(s), Range(t)), NEW n \in Range(s) \cup Range(t)
    PROVE  Times(n, s \o t) = 1
<1>1. s \o t \in Seq(Nat) /\ Range(s \o t) = Range(s) \cup Range(t) /\ Rising(s \o t)
  BY RangeJoined, RisingJoined
<1> DEFINE u == s \o t
<1>2. u \in Seq(Nat) /\ Rising(u) /\ n \in Range(u)
  BY <1>1
<1> HIDE DEF u
<1>3. Times(n, u) = 1
  BY <1>2, RisingOnce
<1> QED
  BY <1>3 DEF u

\* What a query of a day reads is in order, and all the day has.
LEMMA ReadableIs ==
    ASSUME OrderInv, NEW d \in Day, d \notin late
    PROVE  \E s \in Seq(Nat) :
              /\ Readable(d) = s \o page[d] /\ page[d] \in Seq(Nat) /\ Rising(s) /\ Rising(page[d])
              /\ Below(Range(s), Range(page[d])) /\ Stays(d) \subseteq Range(s)
<1>0. /\ TypeOK /\ SolidOK /\ OrderDay(d) /\ DayOK(d) /\ page[d] \in Seq(Nat)
      /\ \A k \in {"data", "metric", "raw"} : held[d][k] \in Seq(Nat)
  BY HeldHere, TypeParts DEF OrderInv, OrderOK, FilesInv, FilesOK, Base, DaysTypes
<1>1. /\ Exists(d, "metric") <=> held[d]["metric"] # <<>>
      /\ Source(d) = Src(d) /\ Src(d) \in {"data", "raw"}
      /\ \A k \in {"data", "metric", "raw"} : Held(file[d][k]) = held[d][k]
  BY <1>0, HeldIs, HeldHere, Kinds
<1>2. CASE held[d]["metric"] # <<>>
  <2> DEFINE s == held[d]["metric"]
  <2>1. Readable(d) = s \o page[d]
    BY <1>1, <1>2 DEF Readable
  <2>2. page[d] = <<>>
    BY <1>0, <1>2 DEF DayOK
  <2>3. Below(Range(s), Range(page[d])) /\ Rising(s) /\ s \in Seq(Nat) /\ Rising(page[d])
    BY <1>0, <2>2, RangeEmpty, Kinds DEF OrderDay, Below
  <2>4. Stays(d) \subseteq Range(s)
    BY <1>0, <1>1, <1>2, RangeEmpty DEF Stays, Kept, DayOK, Src
  <2> QED
    BY <1>0, <2>1, <2>3, <2>4
<1>3. CASE held[d]["metric"] = <<>>
  <2> DEFINE s == held[d][Src(d)]
  <2>1. Readable(d) = s \o page[d] /\ s \in Seq(Nat)
    BY <1>0, <1>1, <1>3 DEF Readable
  <2>2. Below(Range(s), Range(page[d])) /\ Rising(s) /\ Rising(page[d])
    <3>1. Src(d) = "raw" => s = <<>> \/ page[d] = <<>>
      BY <1>0 DEF DayOK
    <3>2. Rising(s) /\ Rising(page[d])
      BY <1>0, <1>1, Kinds DEF OrderDay
    <3>3. CASE Src(d) = "data"
      BY <1>0, <3>2, <3>3 DEF OrderDay
    <3>4. CASE s = <<>> \/ page[d] = <<>>
      <4>1. Range(s) = {} \/ Range(page[d]) = {}
        BY <3>4, RangeEmpty
      <4> QED
        BY <3>2, <4>1 DEF Below
    <3> QED
      BY <1>1, <3>1, <3>3, <3>4
  <2>3. Stays(d) \subseteq Range(s)
    BY <1>0, <1>1, <1>3, RangeEmpty DEF Stays, Kept, DayOK, Src
  <2> QED
    BY <1>0, <2>1, <2>2, <2>3
<1> QED
  BY <1>2, <1>3

LEMMA OwedReads == OwedInv => ReadsEverySample
<1> SUFFICES ASSUME OwedInv, pc = "idle", NEW a \in acked, ~Expired(a.day), a.day \notin late
             PROVE  Times(a.n, Readable(a.day)) = 1
  BY DEF ReadsEverySample
<1>1. Watched(a.day)
  BY DEF Watched
<1>2. a.day \in Day /\ a.n \in Has(a.day)
  BY <1>1, NothingPending
<1>3. PICK d \in Day : d = a.day
  BY <1>2, Zenon
<1>4. PICK s \in Seq(Nat) :
              /\ Readable(d) = s \o page[d] /\ page[d] \in Seq(Nat) /\ Rising(s) /\ Rising(page[d])
              /\ Below(Range(s), Range(page[d])) /\ Stays(d) \subseteq Range(s)
  BY <1>3, ReadableIs DEF OwedInv
<1>5. a.n \in Range(s) \cup Range(page[d])
  BY <1>2, <1>3, <1>4 DEF Has
<1> DEFINE t == page[d]
           n == a.n
<1>6. t \in Seq(Nat) /\ Rising(t) /\ Below(Range(s), Range(t)) /\ n \in Range(s) \cup Range(t)
  BY <1>4, <1>5
<1> HIDE DEF t, n
<1>7. Times(n, s \o t) = 1
  BY <1>4, <1>6, FoundOnce
<1> QED
  BY <1>3, <1>4, <1>7 DEF t, n

LEMMA OwedKeeps == OwedInv => SourceKeepsAll
<1> SUFFICES ASSUME OwedInv, setting.raw = "keep", pc = "idle", NEW a \in acked, ~Expired(a.day)
             PROVE  Times(a.n, Held(file[a.day]["data"]) \o page[a.day]) = 1
  BY DEF SourceKeepsAll
<1>1. Watched(a.day)
  BY DEF Watched
<1>2. a.day \in Day /\ a.n \in Has(a.day)
  BY <1>1, NothingPending
<1>3. PICK d \in Day : d = a.day
  BY <1>2, Zenon
<1> DEFINE s == held[d]["data"]
           t == page[d]
           n == a.n
<1>4. /\ s \in Seq(Nat) /\ t \in Seq(Nat) /\ s = Held(file[d]["data"])
      /\ OrderDay(d) /\ TypeOK /\ SolidOK
  BY HeldIs, HeldHere, TypeParts, Kinds DEF OwedInv, OrderInv, OrderOK, FilesInv, FilesOK, Base,
     DaysTypes
<1>5. Rising(s) /\ Rising(t) /\ Below(Range(s), Range(t))
  BY <1>4, Kinds DEF OrderDay
<1>6. n \in Range(s) \cup Range(t)
  BY <1>2, <1>3 DEF Has, Stays
<1>7. Held(file[a.day]["data"]) = s /\ page[a.day] = t
  BY <1>3, <1>4
<1> HIDE DEF s, t, n
<1>8. Times(n, s \o t) = 1
  BY <1>4, <1>5, <1>6, FoundOnce
<1> QED
  BY <1>7, <1>8 DEF n

\* For every number of days, of open days but one, of records and of crashes: a
\* query between calls finds each acknowledged sample of a day that has not
\* expired, and got no sample after its build, exactly once.  With one open day
\* the seal during a replay empties the log (the run replay_resets).
THEOREM EverySampleRead ==
    ASSUME MaxActiveDays # 1
    PROVE  Spec => []ReadsEverySample
<1>1. Init => OwedInv
  BY OwedInit
<1>2. OwedInv /\ [Next]_vars => OwedInv'
  BY OwedNext
<1>3. OwedInv => ReadsEverySample
  BY OwedReads
<1> QED
  BY <1>1, <1>2, <1>3, PTL DEF Spec

\* With raw_ingest_action = "keep" builds, replays, recompactions and crashes cost
\* no acknowledged sample that has not expired, and none is there twice.
THEOREM SourceKeeps ==
    ASSUME MaxActiveDays # 1
    PROVE  Spec => []SourceKeepsAll
<1>1. Init => OwedInv
  BY OwedInit
<1>2. OwedInv /\ [Next]_vars => OwedInv'
  BY OwedNext
<1>3. OwedInv => SourceKeepsAll
  BY OwedKeeps
<1> QED
  BY <1>1, <1>2, <1>3, PTL DEF Spec

(***************************************************************************)
(* The query in progress: what it could read when it began it has read, or *)
(* it is still where the query goes on to look.                            *)
(***************************************************************************)
Found(d) == Range(held[d][IF held[d]["metric"] # <<>> THEN "metric" ELSE Src(d)])

Looks(d) ==
    /\ query.phase = "metric"  => query.due \subseteq Found(d) \cup Range(page[d])
    /\ query.phase = "resolve" => query.due \subseteq Range(held[d][Src(d)]) \cup Range(page[d])
    /\ query.phase = "source"  =>
          /\ query.from \in {"data", "raw"}
          /\ query.due \subseteq Range(held[d][query.from])
                                   \cup (IF query.from = "data" THEN Range(page[d]) ELSE {})
    /\ query.phase = "page"    => /\ query.due \subseteq Range(query.got) \cup Range(page[d])
                                  /\ Rising(query.got) /\ Below(Range(query.got), Range(page[d]))
    /\ query.phase = "done"    => query.due \subseteq Range(query.got) /\ Rising(query.got)

Asks(d) == query.phase # "none" /\ query.day = d

AskedOK(d) ==
    /\ query.phase \in {"metric", "resolve", "source"} => query.got = <<>>
    /\ Range(query.got) \subseteq 1..Told
    /\ d \notin late => Looks(d)

QueryOK == \A d \in Day : Asks(d) => AskedOK(d)

QueryInv == OrderInv /\ QueryOK

LEMMA HideIs ==
    ASSUME TypeOK, NEW e, NEW P, NEW ns, Hide(e, P, ns)
    PROVE  /\ query'.phase = query.phase /\ query'.day = query.day /\ query'.from = query.from
           /\ query'.got = query.got /\ query'.due \subseteq query.due
           /\ query.day # e \/ query.phase \notin P => query' = query
           /\ query.day = e /\ query.phase \in P => query'.due = query.due \ ns
<1>1. query \in Queries
  BY TypeParts
<1> DEFINE S == Seq(Nat)
<1>2. query \in [phase : {"none", "metric", "resolve", "source", "page", "done"},
                 day : Day \cup {0}, from : Kind, got : S, due : SUBSET Nat]
  BY <1>1 DEF Queries
<1> HIDE DEF S
<1> QED
  BY <1>2 DEF Hide

\* What a step of a writer does to the query in progress.
LEMMA QuerySteps ==
    ASSUME Base, FilesOK, Next, ~Query, query'.phase # "none"
    PROVE  \/ held' = held /\ page' = page /\ query' = query
           \/ \E a \in Day : page[a] # <<>> /\ AppendFrame(a)
           \/ WriteMetricFile \/ DeleteSource \/ RemoveOldRaw \/ RenameSource \/ RemoveFile
           \/ StoreSample
<1>0. TypeOK /\ SolidOK
  BY DEF Base, FilesOK
<1> DEFINE Appending == \E a \in Day : page[a] # <<>> /\ AppendFrame(a)
           Calm == held' = held /\ page' = page /\ query' = query
<1>s. UNCHANGED <<file, page, query>> => Calm
  BY <1>0, FilesStay
<1>1. ASSUME SealPage PROVE Calm \/ Appending
  <2>1. \E a \in Day : a = OldestOpen
    BY <1>0, <1>1, OldestOpenIs DEF SealPage
  <2>2. PICK a \in Day : a = OldestOpen
    BY <2>1, Zenon
  <2>3. CASE page[a] # <<>>
    BY <1>1, <2>2, <2>3 DEF SealPage
  <2>4. CASE page[a] = <<>>
    BY <1>s, <1>1, <2>2, <2>4 DEF SealPage
  <2> QED
    BY <2>3, <2>4
<1>2. ASSUME OthersDone PROVE Calm \/ Appending
  <2>1. CASE Full(job.day)
    <3>1. job.day \in Day /\ page[job.day] # <<>> /\ AppendFrame(job.day)
      BY <1>2, <2>1, FullPage DEF Base
    <3> QED
      BY <3>1
  <2>2. CASE ~Full(job.day)
    BY <1>s, <1>2, <2>2 DEF OthersDone
  <2> QED
    BY <2>1, <2>2
<1>3. ASSUME NEW d \in Day, FlushOther(d) \/ DrainPage(d) PROVE Appending
  BY <1>3 DEF FlushOther, DrainPage
<1>4. ASSUME NEW d \in Day, Recompact(d) PROVE Calm
  BY <1>0, <1>4, Repacks DEF Recompact
<1>5. ~LoseMemory
  BY NoQueryIs DEF LoseMemory
<1>6. \/ UNCHANGED <<file, page, query>> \/ SealPage \/ OthersDone
      \/ (\E d \in Day : FlushOther(d) \/ DrainPage(d) \/ Recompact(d))
      \/ WriteMetricFile \/ DeleteSource \/ RemoveOldRaw \/ RenameSource \/ RemoveFile
      \/ StoreSample
  BY <1>5 DEF Next, Write, Seal, Open, ReplaySkip,
     ReplayTake, ReplayRefused, ReplayDone, BeginAdd, OpenDay, SealReset,
     KeepSource, SweepDay, SweepDone, LogSample, Compact, FullReset, BeginDrain, DrainDone, Crash
<1> QED
  BY <1>s, <1>1, <1>2, <1>3, <1>4, <1>6

\* The query itself goes on as it was, and may no longer find some samples.
LEMMA QueryStays ==
    ASSUME Base, FilesOK, Next, ~Query, query'.phase # "none"
    PROVE  /\ query'.phase = query.phase /\ query'.day = query.day /\ query'.from = query.from
           /\ query'.got = query.got /\ query'.due \subseteq query.due
<1>0. TypeOK /\ SolidOK
  BY DEF Base, FilesOK
<1> DEFINE Stay == /\ query'.phase = query.phase /\ query'.day = query.day /\ query'.from = query.from
                   /\ query'.got = query.got /\ query'.due \subseteq query.due
<1>1. query' = query => Stay
  OBVIOUS
<1>2. ASSUME NEW a \in Day, AppendFrame(a) PROVE Stay
  <2>1. Hide(a, {"page"}, Range(page[a]))
    BY <1>2 DEF AppendFrame
  <2> QED
    BY <1>0, <2>1, HideIs
<1>3. CASE WriteMetricFile \/ RemoveOldRaw \/ StoreSample
  BY <1>1, <1>3 DEF WriteMetricFile, RemoveOldRaw, StoreSample
<1>4. CASE DeleteSource
  <2>1. Hide(job.seal, {"resolve", "source"}, Members(job.seal, job.from))
    BY <1>4 DEF DeleteSource
  <2> QED
    BY <1>0, <2>1, HideIs
<1>5. CASE RenameSource
  <2>1. query' = query \/ Hide(job.seal, {"source"}, Members(job.seal, "data"))
    BY <1>5 DEF RenameSource
  <2> QED
    BY <1>0, <1>1, <2>1, HideIs
<1>6. CASE RemoveFile
  <2>1. PICK d \in Day, k \in Kind : Hide(d, {"metric", "resolve", "source"}, Members(d, k))
    BY <1>0, <1>6, SweepsFile
  <2> QED
    BY <1>0, <2>1, HideIs
<1> QED
  BY <1>1, <1>2, <1>3, <1>4, <1>5, <1>6, QuerySteps

\* A day on which the query goes on does not get its exception back.
LEMMA LateStays ==
    ASSUME Base, FilesOK, Next, NEW d \in Day, query.day = d, d \notin late'
    PROVE  d \notin late
  BY DEF Next, Write, Query, Seal, LoseMemory, Open, ReplaySkip, ReplayTake,
     ReplayRefused, ReplayDone, BeginAdd, OpenDay, SealPage, SealReset,
     WriteMetricFile, KeepSource, DeleteSource, RemoveOldRaw, RenameSource, SweepDay,
     RemoveFile, SweepDone, LogSample, StoreSample, FlushOther, DrainPage, Recompact,
     Compact, OthersDone, FullReset, BeginDrain, DrainDone, Crash, QueryStart,
     QueryMetric, QueryResolve, QuerySource, QueryPage, QueryReturn

LEMMA LooksSame ==
    ASSUME NEW d \in Day, Looks(d),
           query'.phase = query.phase, query'.from = query.from, query'.got = query.got,
           query'.due \subseteq query.due,
           held'[d]["data"] = held[d]["data"], held'[d]["metric"] = held[d]["metric"],
           held'[d]["raw"] = held[d]["raw"], page'[d] = page[d]
    PROVE  Looks(d)'
<1>1. Src(d)' = Src(d)
  BY DEF Src
<1>2. Src(d) \in {"data", "raw"}
  BY DEF Src
<1>3. held'[d][Src(d)] = held[d][Src(d)]
  BY <1>2
<1>4. Found(d)' = Found(d)
  BY <1>1, <1>3 DEF Found
<1>5. query.from \in {"data", "raw"} => held'[d][query.from] = held[d][query.from]
  OBVIOUS
<1> QED
  BY <1>1, <1>3, <1>4, <1>5 DEF Looks

\* The facts the steps on the files of the query's day need.
Going(d) ==
    /\ OrderInv /\ Next /\ ~Query /\ Asks(d) /\ Asks(d)' /\ Looks(d) /\ d \notin late
    /\ Range(query.got) \subseteq 1..Told

LEMMA GoingIs ==
    ASSUME NEW d \in Day, Going(d)
    PROVE  /\ FilesInv /\ Base /\ FilesOK /\ BuiltOK /\ TypeOK /\ SolidOK /\ DayOK(d) /\ OrderDay(d)
           /\ page \in [Day -> Seq(Nat)] /\ query.day = d
           /\ held[d]["data"] \in Seq(Nat) /\ held[d]["metric"] \in Seq(Nat)
           /\ held[d]["raw"] \in Seq(Nat)
           /\ query'.phase = query.phase /\ query'.from = query.from /\ query'.got = query.got
           /\ query'.due \subseteq query.due
           /\ query.from \in Kind
<1>1. /\ FilesInv /\ Base /\ FilesOK /\ BuiltOK /\ TypeOK /\ SolidOK /\ DayOK(d) /\ OrderDay(d)
  BY DEF Going, OrderInv, OrderOK, FilesInv, FilesOK, Base
<1>2. page \in [Day -> Seq(Nat)] /\ query.from \in Kind
  BY <1>1, TypeParts DEF DaysTypes, Queries
<1>3. /\ held[d]["data"] \in Seq(Nat) /\ held[d]["metric"] \in Seq(Nat)
      /\ held[d]["raw"] \in Seq(Nat)
  BY <1>1, HeldHere
<1>4. Next /\ ~Query /\ query'.phase # "none" /\ query.day = d
  BY DEF Going, Asks
<1> QED
  BY <1>1, <1>2, <1>3, <1>4, QueryStays

LEMMA LooksElsewhere ==
    ASSUME NEW d \in Day, NEW s \in Day, d # s, Going(d), page'[d] = page[d],
           \A k \in Kind : held'[d][k] = held[d][k]
    PROVE  Looks(d)'
  BY GoingIs, LooksSame, Kinds DEF Going

LEMMA LooksAppend ==
    ASSUME NEW d \in Day, Going(d), NEW a \in Day, page[a] # <<>>, AppendFrame(a)
    PROVE  Looks(d)'
<1>0. /\ TypeOK /\ SolidOK /\ DayOK(d) /\ page \in [Day -> Seq(Nat)] /\ Looks(d)
      /\ query'.phase = query.phase /\ query'.from = query.from /\ query'.got = query.got
      /\ query'.due \subseteq query.due /\ query.day = d /\ d \notin late
      /\ held[d]["data"] \in Seq(Nat)
  BY GoingIs DEF Going
<1>1. /\ Sets(a, "data", held[a]["data"] \o page[a]) /\ page' = [page EXCEPT ![a] = <<>>]
      /\ Hide(a, {"page"}, Range(page[a]))
  BY <1>0, Appends DEF AppendFrame
<1>2. CASE d # a
  <2>1. (\A k \in Kind : held'[d][k] = held[d][k]) /\ page'[d] = page[d]
    BY <1>0, <1>1, <1>2 DEF Sets
  <2> QED
    BY <1>2, <2>1, LooksElsewhere
<1>3. CASE d = a
  <2>1. /\ held'[d]["data"] = held[d]["data"] \o page[d] /\ page[d] \in Seq(Nat)
        /\ held'[d]["metric"] = held[d]["metric"] /\ held'[d]["raw"] = held[d]["raw"]
        /\ page'[d] = <<>>
    BY <1>0, <1>1, <1>3, Kinds DEF Sets
  <2>2. held[d]["metric"] = <<>> /\ held[d]["raw"] = <<>>
    BY <1>0, <1>3 DEF DayOK
  <2>3. Range(held'[d]["data"]) = Range(held[d]["data"]) \cup Range(page[d])
    BY <1>0, <2>1, RangeJoined
  <2>4. held'[d]["data"] # <<>>
    <3>1. Range(page[d]) # {}
      BY <1>3, <2>1, RangeOf
    <3> QED
      BY <2>3, <3>1, RangeEmpty
  <2>5. Src(d)' = "data" /\ Found(d)' = Range(held'[d]["data"])
    BY <2>1, <2>2, <2>4 DEF Src, Found
  <2>6. /\ Found(d) \subseteq Range(held[d]["data"])
        /\ Range(held[d][Src(d)]) \subseteq Range(held[d]["data"])
    BY <2>2, RangeEmpty DEF Src, Found
  <2>7. Range(page'[d]) = {}
    BY <2>1, RangeEmpty
  <2>8. query.phase = "page" => query'.due = query.due \ Range(page[d])
    BY <1>0, <1>1, <1>3, HideIs
  <2>9. query.phase = "metric" \/ query.phase = "resolve" =>
           query.due \subseteq Range(held'[d]["data"])
    BY <1>0, <2>3, <2>6 DEF Looks
  <2>10. query.phase = "source" => query.due \subseteq Range(held'[d][query.from])
    BY <1>0, <2>1, <2>3 DEF Looks
  <2>11. query.phase = "page" => query'.due \subseteq Range(query.got) /\ Rising(query.got)
    BY <1>0, <2>8 DEF Looks
  <2>12. query.phase = "done" => query.due \subseteq Range(query.got) /\ Rising(query.got)
    BY <1>0 DEF Looks
  <2>13. query.phase = "source" => query.from \in {"data", "raw"}
    BY <1>0 DEF Looks
  <2> QED
    BY <1>0, <2>5, <2>7, <2>9, <2>10, <2>11, <2>12, <2>13 DEF Looks, Below
<1> QED
  BY <1>2, <1>3

LEMMA LooksWrite ==
    ASSUME NEW d \in Day, Going(d), WriteMetricFile
    PROVE  Looks(d)'
<1>0. /\ Base /\ TypeOK /\ SolidOK /\ DayOK(d) /\ Looks(d) /\ d \notin late
      /\ page' = page /\ query' = query
  BY GoingIs DEF Going, WriteMetricFile
<1>1. PICK s \in Day, k \in {"data", "raw"} :
              k = Source(s) /\ held[s][k] # <<>> /\ Sets(s, "metric", held[s][k])
  BY <1>0, Writes
<1>2. CASE d # s
  <2>1. \A j \in Kind : held'[d][j] = held[d][j]
    BY <1>1, <1>2 DEF Sets
  <2> QED
    BY <1>0, <1>2, <2>1, LooksElsewhere
<1>3. CASE d = s
  <2>1. k = Src(d)
    BY <1>0, <1>1, <1>3, HeldHere
  <2>2. /\ held'[d]["data"] = held[d]["data"] /\ held'[d]["raw"] = held[d]["raw"]
        /\ held'[d]["metric"] = held[d][k] /\ held[d][k] # <<>>
    BY <1>1, <1>3, Kinds DEF Sets
  <2>3. Found(d)' = Range(held[d][k])
    BY <2>2 DEF Found
  <2>4. Found(d) = Range(held[d][k])
    BY <1>0, <2>1, <2>2 DEF Found, DayOK
  <2>5. Src(d)' = Src(d) /\ held'[d][Src(d)] = held[d][Src(d)]
    BY <2>2 DEF Src
  <2>6. query.phase = "source" => held'[d][query.from] = held[d][query.from]
    BY <1>0, <2>2 DEF Looks
  <2> QED
    BY <1>0, <2>3, <2>4, <2>5, <2>6 DEF Looks
<1> QED
  BY <1>2, <1>3

LEMMA LooksDelete ==
    ASSUME NEW d \in Day, Going(d), DeleteSource
    PROVE  Looks(d)'
<1>0. /\ Base /\ TypeOK /\ SolidOK /\ DayOK(d) /\ Looks(d) /\ d \notin late
      /\ query'.phase = query.phase /\ query'.from = query.from /\ query'.got = query.got
      /\ query'.due \subseteq query.due /\ query.day = d
      /\ page' = page /\ pc = "source"
  BY GoingIs DEF Going, DeleteSource
<1>1. \E s \in Day, k \in {"data", "raw"} : s = job.seal /\ k = job.from /\ k = Source(s)
  BY <1>0 DEF Base, PlaceOK, Sealing, BuildOK, Source
<1>2. PICK s \in Day, k \in {"data", "raw"} : s = job.seal /\ k = job.from /\ k = Source(s)
  BY <1>1, Zenon
<1>3. /\ file' = [file EXCEPT ![s][k] = <<>>] /\ k \in Kind
      /\ Hide(s, {"resolve", "source"}, Members(s, k)) /\ Exists(s, "metric")
  BY <1>0, <1>2, Kinds DEF DeleteSource, Base, BuildOK
<1>4. Sets(s, k, <<>>)
  BY <1>0, <1>3, Removes, Zenon
<1>5. CASE d # s
  <2>1. \A j \in Kind : held'[d][j] = held[d][j]
    BY <1>4, <1>5 DEF Sets
  <2> QED
    BY <1>0, <1>5, <2>1, LooksElsewhere
<1>6. CASE d = s
  <2>1. k = Src(d) /\ held[d]["metric"] # <<>> /\ Members(d, k) = Range(held[d][k])
    BY <1>0, <1>2, <1>3, <1>6, HeldHere, HeldIs
  <2>2. /\ held'[d][k] = <<>> /\ held'[d]["metric"] = held[d]["metric"]
        /\ \A j \in {"data", "raw"} : j # k => held'[d][j] = held[d][j]
    BY <1>4, <1>6, Kinds DEF Sets
  <2>3. Found(d)' = Found(d)
    BY <2>1, <2>2 DEF Found
  <2>4. query.phase \in {"resolve", "source"} => query'.due = query.due \ Range(held[d][k])
    BY <1>0, <1>3, <1>6, <2>1, HideIs
  <2>5. query.phase = "resolve" => query'.due \subseteq Range(page[d])
    BY <1>0, <2>1, <2>4 DEF Looks
  <2>6. query.phase = "source" /\ query.from = k =>
            query'.due \subseteq (IF query.from = "data" THEN Range(page[d]) ELSE {})
    BY <1>0, <2>4 DEF Looks
  <2>7. query.phase = "source" /\ query.from # k => held'[d][query.from] = held[d][query.from]
    BY <1>0, <2>2 DEF Looks
  <2> QED
    BY <1>0, <2>3, <2>5, <2>6, <2>7 DEF Looks
<1> QED
  BY <1>5, <1>6

LEMMA LooksRename ==
    ASSUME NEW d \in Day, Going(d), RenameSource
    PROVE  Looks(d)'
<1>0. /\ Base /\ TypeOK /\ SolidOK /\ DayOK(d) /\ Looks(d) /\ d \notin late
      /\ query'.phase = query.phase /\ query'.from = query.from /\ query'.got = query.got
      /\ query'.due \subseteq query.due /\ query.day = d
      /\ page' = page /\ pc = "rename"
  BY GoingIs DEF Going, RenameSource
<1>1. \E s \in Day : s = job.seal
  BY <1>0 DEF Base, PlaceOK, Sealing
<1>2. PICK s \in Day : s = job.seal
  BY <1>1, Zenon
<1>3. /\ file' = [file EXCEPT ![s]["raw"] = file[s]["data"], ![s]["data"] = <<>>]
      /\ query.from = "data" => Hide(s, {"source"}, Members(s, "data"))
      /\ Exists(s, "metric") /\ Exists(s, "data") /\ ~Exists(s, "raw")
  BY <1>0, <1>2 DEF RenameSource, Base, BuildOK
<1>4. /\ held'[s]["raw"] = held[s]["data"] /\ held'[s]["data"] = <<>>
      /\ held'[s]["metric"] = held[s]["metric"]
      /\ \A e \in Day \ {s}, j \in Kind : held'[e][j] = held[e][j]
  BY <1>0, <1>3, Renames, Zenon
<1>5. CASE d # s
  BY <1>0, <1>4, <1>5, LooksElsewhere
<1>6. CASE d = s
  <2>1. /\ held[d]["metric"] # <<>> /\ held[d]["data"] # <<>> /\ held[d]["raw"] = <<>>
        /\ Members(d, "data") = Range(held[d]["data"])
    BY <1>0, <1>3, <1>6, HeldHere, HeldIs, Kinds
  <2>2. Found(d)' = Found(d)
    BY <1>4, <1>6, <2>1 DEF Found
  <2>3. Src(d) = "data" /\ Src(d)' = "raw"
    BY <1>4, <1>6, <2>1 DEF Src
  <2>4. query.phase = "source" /\ query.from = "data" =>
            query'.due = query.due \ Range(held[d]["data"])
    BY <1>0, <1>3, <1>6, <2>1, HideIs
  <2>5. query.phase = "source" /\ query.from = "raw" => query.due = {}
    BY <1>0, <2>1, RangeEmpty DEF Looks
  <2> QED
    BY <1>0, <1>4, <1>6, <2>2, <2>3, <2>4, <2>5 DEF Looks
<1> QED
  BY <1>5, <1>6

LEMMA LooksRemove ==
    ASSUME NEW d \in Day, Going(d), RemoveFile
    PROVE  Looks(d)'
<1>0. /\ Base /\ TypeOK /\ SolidOK /\ DayOK(d) /\ Looks(d) /\ d \notin late
      /\ query'.phase = query.phase /\ query'.from = query.from /\ query'.got = query.got
      /\ query'.due \subseteq query.due /\ query.day = d
      /\ page' = page
  BY GoingIs DEF Going, RemoveFile
<1>1. PICK s \in Day, k \in Kind :
              /\ Exists(s, k) /\ Sets(s, k, <<>>)
              /\ \A j \in Kind : Exists(s, j) => k = "data" \/ j = "raw" \/ j = k
              /\ Hide(s, {"metric", "resolve", "source"}, Members(s, k))
  BY <1>0, SweepsFile
<1>2. CASE d # s
  <2>1. \A j \in Kind : held'[d][j] = held[d][j]
    BY <1>1, <1>2 DEF Sets
  <2> QED
    BY <1>0, <1>2, <2>1, LooksElsewhere
<1>3. CASE d = s
  <2>1. /\ held[d][k] # <<>> /\ Members(d, k) = Range(held[d][k])
        /\ k = "raw" => held[d]["data"] = <<>> /\ held[d]["metric"] = <<>>
        /\ k = "metric" => held[d]["data"] = <<>>
    BY <1>0, <1>1, <1>3, HeldIs, HeldHere, Kinds
  <2>2. /\ held'[d][k] = <<>>
        /\ \A j \in {"data", "metric", "raw"} : j # k => held'[d][j] = held[d][j]
    BY <1>1, <1>3, Kinds DEF Sets
  <2>3. query.phase \in {"metric", "resolve", "source"} => query'.due = query.due \ Range(held[d][k])
    BY <1>0, <1>1, <1>3, <2>1, HideIs
  <2>4. Found(d) \subseteq Found(d)' \cup Range(held[d][k])
    BY <2>1, <2>2, Kinds DEF Found, Src
  <2>5. Range(held[d][Src(d)]) \subseteq Range(held'[d][Src(d)']) \cup Range(held[d][k])
    BY <2>1, <2>2, Kinds DEF Src
  <2>6. query.phase = "source" =>
           Range(held[d][query.from]) \subseteq Range(held'[d][query.from]) \cup Range(held[d][k])
    BY <1>0, <2>2 DEF Looks
  <2>7. query.phase = "metric" => query'.due \subseteq Found(d)' \cup Range(page[d])
    BY <1>0, <2>3, <2>4 DEF Looks
  <2>8. query.phase = "resolve" => query'.due \subseteq Range(held'[d][Src(d)']) \cup Range(page[d])
    BY <1>0, <2>3, <2>5 DEF Looks
  <2>9. query.phase = "source" =>
            query'.due \subseteq Range(held'[d][query.from])
                                   \cup (IF query.from = "data" THEN Range(page[d]) ELSE {})
    BY <1>0, <2>3, <2>6 DEF Looks
  <2> QED
    BY <1>0, <2>7, <2>8, <2>9 DEF Looks
<1> QED
  BY <1>2, <1>3

LEMMA LooksStore ==
    ASSUME NEW d \in Day, Going(d), StoreSample
    PROVE  Looks(d)'
<1>0. /\ Base /\ FlowOK /\ TypeOK /\ SolidOK /\ Looks(d) /\ page \in [Day -> Seq(Nat)]
      /\ Asks(d) /\ query' = query /\ job \in Jobs /\ OrderLog /\ query \in Queries
      /\ Range(query.got) \subseteq 1..Told /\ calls \in Nat
  BY GoingIs, TypeParts DEF Going, StoreSample, Base, PlaceTypes, BookTypes, OrderInv, OrderOK
<1>1. held' = held
  BY <1>0, FilesStay DEF StoreSample
<1>2. CASE d # job.day
  <2>1. page'[d] = page[d]
    BY <1>0, <1>2 DEF StoreSample
  <2> QED
    BY <1>0, <1>1, <2>1, LooksSame
<1>3. CASE d = job.day
  <2>1. page'[d] = Append(page[d], job.n) /\ page[d] \in Seq(Nat) /\ job.n \in Nat /\ pc = "store"
    BY <1>0, <1>3 DEF StoreSample, Jobs
  <2>2. Range(page'[d]) = Range(page[d]) \cup {job.n}
    BY <2>1, Appended
  <2>3. job.op = "add"
    BY <1>0, <2>1, NoQueryIs DEF Asks, FlowOK, Replaying
  <2>4. job.n = calls /\ Told = calls - 1
    BY <1>0, <2>1, <2>3 DEF OrderLog, Told
  <2>5. Below(Range(query.got), {job.n})
    BY <1>0, <2>4 DEF Below
  <2>6. query.phase = "page" => Below(Range(query.got), Range(page'[d]))
    BY <1>0, <2>2, <2>5 DEF Looks, Below
  <2>7. Found(d)' = Found(d) /\ Src(d)' = Src(d)
    BY <1>1 DEF Found, Src
  <2> QED
    BY <1>0, <1>1, <2>2, <2>6, <2>7 DEF Looks
<1> QED
  BY <1>2, <1>3

LEMMA LooksNext ==
    ASSUME NEW d \in Day, Going(d)
    PROVE  Looks(d)'
<1>0. /\ Base /\ FilesOK /\ TypeOK /\ SolidOK /\ DayOK(d) /\ Looks(d) /\ d \notin late /\ Next
      /\ ~Query /\ query'.phase # "none"
  BY GoingIs DEF Going, Asks
<1>1. CASE held' = held /\ page' = page /\ query' = query
  BY <1>0, <1>1, LooksSame
<1>2. CASE RemoveOldRaw
  <2>1. pc = "source" /\ setting.raw = "rename" /\ job.from = "data" /\ page' = page /\ query' = query
    BY <1>2 DEF RemoveOldRaw
  <2>2. \E s \in Day : s = job.seal
    BY <1>0, <2>1 DEF Base, PlaceOK, Sealing
  <2>3. PICK s \in Day : s = job.seal
    BY <2>2, Zenon
  <2>4. /\ file' = [file EXCEPT ![s]["raw"] = <<>>] /\ "raw" \in Kind
        /\ Exists(s, "data")
    BY <1>0, <1>2, <2>1, <2>3, Kinds DEF RemoveOldRaw, Base, BuildOK
  <2>5. Sets(s, "raw", <<>>)
    BY <1>0, <2>4, Removes, Zenon
  <2>6. CASE d # s
    <3>1. \A j \in Kind : held'[d][j] = held[d][j]
      BY <2>5, <2>6 DEF Sets
    <3> QED
      BY <2>1, <2>6, <3>1, LooksElsewhere
  <2>7. CASE d = s
    <3>1. held[d]["raw"] = <<>>
      BY <1>0, <2>4, <2>7, HeldHere DEF DayOK
    <3>2. /\ held'[d]["raw"] = <<>> /\ held'[d]["data"] = held[d]["data"]
          /\ held'[d]["metric"] = held[d]["metric"]
      BY <2>5, <2>7, Kinds DEF Sets
    <3> QED
      BY <1>0, <2>1, <3>1, <3>2, LooksSame
  <2> QED
    BY <2>6, <2>7
<1>3. CASE \E a \in Day : page[a] # <<>> /\ AppendFrame(a)
  BY <1>3, LooksAppend
<1>4. CASE WriteMetricFile \/ DeleteSource \/ RenameSource \/ RemoveFile \/ StoreSample
  BY <1>4, LooksWrite, LooksDelete, LooksRename, LooksRemove, LooksStore
<1> QED
  BY <1>0, <1>1, <1>2, <1>3, <1>4, QuerySteps

\* The steps of the query itself leave the rest of the state alone.
LEMMA QueryLeaves ==
    ASSUME OrderInv, Query
    PROVE  /\ held' = held /\ page' = page /\ late' = late /\ Told' = Told
           /\ \A d \in Day : Src(d)' = Src(d) /\ Found(d)' = Found(d)
<1>0. UNCHANGED <<file, page, late, pc, job, calls>>
  BY DEF Query, QueryStart, QueryMetric, QueryResolve, QuerySource, QueryPage, QueryReturn
<1>1. held' = held /\ Told' = Told
  BY <1>0 DEF held, Told
<1> QED
  BY <1>0, <1>1 DEF Src, Found

\* What a query finds where it looks.
LEMMA QueryFacts ==
    ASSUME OrderInv, NEW d \in Day
    PROVE  /\ TypeOK /\ SolidOK /\ DayOK(d) /\ OrderDay(d)
           /\ Source(d) = Src(d) /\ Src(d) \in {"data", "raw"}
           /\ page[d] \in Seq(Nat) /\ Rising(page[d]) /\ Range(page[d]) \subseteq 1..Told
           /\ \A k \in {"data", "metric", "raw"} :
                 /\ held[d][k] \in Seq(Nat) /\ Held(file[d][k]) = held[d][k]
                 /\ Exists(d, k) <=> held[d][k] # <<>>
                 /\ Rising(held[d][k]) /\ Range(held[d][k]) \subseteq 1..Told
<1>1. /\ TypeOK /\ SolidOK /\ DayOK(d) /\ OrderDay(d) /\ page[d] \in Seq(Nat)
  BY TypeParts DEF OrderInv, OrderOK, FilesInv, FilesOK, Base, DaysTypes
<1>2. Source(d) = Src(d) /\ Src(d) \in {"data", "raw"}
  BY <1>1, HeldHere
<1>3. Rising(page[d]) /\ Range(page[d]) \subseteq 1..Told /\ Kept(d) \subseteq 1..Told
  BY <1>1 DEF OrderDay
<1>4. ASSUME NEW k \in {"data", "metric", "raw"}
      PROVE  /\ held[d][k] \in Seq(Nat) /\ Held(file[d][k]) = held[d][k]
             /\ Exists(d, k) <=> held[d][k] # <<>>
             /\ Rising(held[d][k]) /\ Range(held[d][k]) \subseteq 1..Told
  <2>1. k \in Kind
    BY Kinds
  <2>2. held[d][k] \in Seq(Nat) /\ Held(file[d][k]) = held[d][k] /\ (Exists(d, k) <=> held[d][k] # <<>>)
    BY <1>1, <2>1, HeldIs, HeldHere
  <2>3. Rising(held[d][k])
    BY <1>1, <2>1 DEF OrderDay
  <2>4. Range(held[d][k]) \subseteq 1..Told
    BY <1>3 DEF Kept
  <2> QED
    BY <2>2, <2>3, <2>4
<1> QED
  BY <1>1, <1>2, <1>3, <1>4

\* The steps of the query, one by one.
LEMMA StartAsks ==
    ASSUME OrderInv, NEW d \in Day, QueryStart(d)
    PROVE  query'.day = d /\ AskedOK(d)'
<1>1. /\ query' = [NoQuery EXCEPT !.phase = "metric", !.day = d, !.due = Range(Readable(d))]
      /\ held' = held /\ page' = page /\ Told' = Told /\ Found(d)' = Found(d)
  BY QueryLeaves DEF QueryStart, Query
<1>2. /\ query'.phase = "metric" /\ query'.day = d /\ query'.got = <<>>
      /\ query'.due = Range(Readable(d))
  BY <1>1 DEF NoQuery
<1>3. Range(Readable(d)) = Found(d) \cup Range(page[d])
  <2> DEFINE k == IF held[d]["metric"] # <<>> THEN "metric" ELSE Src(d)
  <2>1. k \in {"data", "metric", "raw"}
    BY QueryFacts
  <2>2. Readable(d) = held[d][k] \o page[d]
    BY <2>1, QueryFacts DEF Readable
  <2>3. held[d][k] \in Seq(Nat) /\ page[d] \in Seq(Nat)
    BY <2>1, QueryFacts
  <2>4. Range(held[d][k] \o page[d]) = Range(held[d][k]) \cup Range(page[d])
    BY <2>3, RangeJoined
  <2> QED
    BY <2>2, <2>4 DEF Found
<1>4. Range(<<>>) = {}
  BY RangeEmpty
<1> QED
  BY <1>1, <1>2, <1>3, <1>4 DEF AskedOK, Looks

LEMMA MetricAsks ==
    ASSUME OrderInv, NEW d \in Day, query.day = d, AskedOK(d), QueryMetric
    PROVE  query'.day = d /\ AskedOK(d)'
<1>1. /\ held' = held /\ page' = page /\ late' = late /\ Told' = Told
      /\ Src(d)' = Src(d) /\ query.phase = "metric"
  BY QueryLeaves DEF QueryMetric, Query
<1>2. /\ DayOK(d) /\ Held(file[d]["metric"]) = held[d]["metric"]
      /\ Exists(d, "metric") <=> held[d]["metric"] # <<>>
      /\ Rising(held[d]["metric"]) /\ Range(held[d]["metric"]) \subseteq 1..Told
  BY QueryFacts
<1>3. query \in Queries
  BY TypeParts, QueryFacts
<1> DEFINE S == Seq(Nat)
<1>4. query \in [phase : {"none", "metric", "resolve", "source", "page", "done"},
                 day : Day \cup {0}, from : Kind, got : S, due : SUBSET Nat]
  BY <1>3 DEF Queries
<1> HIDE DEF S
<1>5. CASE Exists(d, "metric")
  <2>1. query' = [query EXCEPT !.got = held[d]["metric"], !.phase = "page"]
    BY <1>2, <1>5 DEF QueryMetric
  <2>2. /\ query'.phase = "page" /\ query'.day = d /\ query'.got = held[d]["metric"]
        /\ query'.due = query.due
    BY <1>4, <2>1
  <2>3. d \notin late => page[d] = <<>> /\ Found(d) = Range(held[d]["metric"])
    BY <1>2, <1>5 DEF DayOK, Found
  <2>4. d \notin late => query.due \subseteq Range(held[d]["metric"]) \cup Range(page[d])
    BY <1>1, <2>3 DEF AskedOK, Looks
  <2>5. Range(<<>>) = {}
    BY RangeEmpty
  <2>6. d \notin late => Below(Range(held[d]["metric"]), Range(page[d]))
    BY <2>3, <2>5 DEF Below
  <2> QED
    BY <1>1, <1>2, <2>2, <2>4, <2>6 DEF AskedOK, Looks
<1>6. CASE ~Exists(d, "metric")
  <2>1. query' = [query EXCEPT !.phase = "resolve"]
    BY <1>6 DEF QueryMetric
  <2>2. /\ query'.phase = "resolve" /\ query'.day = d /\ query'.got = query.got
        /\ query'.due = query.due
    BY <1>4, <2>1
  <2>3. Found(d) = Range(held[d][Src(d)])
    BY <1>2, <1>6 DEF Found
  <2> QED
    BY <1>1, <2>2, <2>3 DEF AskedOK, Looks
<1> QED
  BY <1>5, <1>6

LEMMA ResolveAsks ==
    ASSUME OrderInv, NEW d \in Day, query.day = d, AskedOK(d), QueryResolve
    PROVE  query'.day = d /\ AskedOK(d)'
<1>1. /\ held' = held /\ page' = page /\ late' = late /\ Told' = Told /\ query.phase = "resolve"
  BY QueryLeaves DEF QueryResolve, Query
<1>2. /\ DayOK(d) /\ Source(d) = Src(d) /\ Src(d) \in {"data", "raw"}
      /\ Exists(d, Src(d)) <=> held[d][Src(d)] # <<>>
  BY QueryFacts
<1>3. query \in Queries
  BY TypeParts, QueryFacts
<1> DEFINE S == Seq(Nat)
<1>4. query \in [phase : {"none", "metric", "resolve", "source", "page", "done"},
                 day : Day \cup {0}, from : Kind, got : S, due : SUBSET Nat]
  BY <1>3 DEF Queries
<1> HIDE DEF S
<1>r. Range(<<>>) = {} /\ Rising(<<>>)
  BY RangeEmpty
<1>5. CASE Exists(d, Src(d))
  <2>1. query' = [query EXCEPT !.from = Src(d), !.phase = "source"]
    BY <1>2, <1>5 DEF QueryResolve
  <2>2. /\ query'.phase = "source" /\ query'.day = d /\ query'.got = query.got
        /\ query'.due = query.due /\ query'.from = Src(d)
    BY <1>2, <1>4, <2>1, Kinds
  <2>3. d \notin late /\ Src(d) # "data" => Range(page[d]) = {}
    BY <1>2, <1>5, <1>r DEF DayOK
  <2>4. d \notin late => query.due \subseteq Range(held[d][Src(d)])
                              \cup (IF Src(d) = "data" THEN Range(page[d]) ELSE {})
    BY <1>1, <2>3 DEF AskedOK, Looks
  <2> QED
    BY <1>1, <1>2, <2>2, <2>4 DEF AskedOK, Looks
<1>6. CASE ~Exists(d, Src(d))
  <2>1. query' = [query EXCEPT !.phase = "page"]
    BY <1>2, <1>6 DEF QueryResolve
  <2>2. /\ query'.phase = "page" /\ query'.day = d /\ query'.got = query.got
        /\ query'.due = query.due
    BY <1>4, <2>1
  <2>3. query.got = <<>> /\ Range(held[d][Src(d)]) = {}
    BY <1>1, <1>2, <1>6, <1>r DEF AskedOK
  <2>4. d \notin late => query.due \subseteq Range(page[d])
    BY <1>1, <2>3 DEF AskedOK, Looks
  <2>5. Below({}, Range(page[d]))
    BY DEF Below
  <2> QED
    BY <1>1, <1>r, <2>2, <2>3, <2>4, <2>5 DEF AskedOK, Looks
<1> QED
  BY <1>5, <1>6

LEMMA SourceAsks ==
    ASSUME OrderInv, NEW d \in Day, query.day = d, AskedOK(d), QuerySource
    PROVE  query'.day = d /\ AskedOK(d)'
<1>1. /\ held' = held /\ page' = page /\ late' = late /\ Told' = Told /\ query.phase = "source"
  BY QueryLeaves DEF QuerySource, Query
<1>2. DayOK(d) /\ OrderDay(d)
  BY QueryFacts
<1>3. query \in Queries
  BY TypeParts, QueryFacts
<1> DEFINE S == Seq(Nat)
           k == query.from
<1>4. query \in [phase : {"none", "metric", "resolve", "source", "page", "done"},
                 day : Day \cup {0}, from : Kind, got : S, due : SUBSET Nat]
  BY <1>3 DEF Queries
<1>5. k \in {"data", "metric", "raw"}
  BY <1>4, Kinds
<1>6. /\ Held(file[d][k]) = held[d][k] /\ Rising(held[d][k]) /\ Range(held[d][k]) \subseteq 1..Told
      /\ held[d][k] \in S
  BY <1>5, QueryFacts
<1> HIDE DEF S
<1>7. query' = [query EXCEPT !.got = held[d][k], !.phase = "page"]
  BY <1>6 DEF QuerySource
<1> HIDE DEF k
<1>8. /\ query'.phase = "page" /\ query'.day = d /\ query'.got = held[d][k]
      /\ query'.due = query.due
  BY <1>4, <1>7
<1>9. ASSUME d \notin late
      PROVE  /\ query.due \subseteq Range(held[d][k]) \cup Range(page[d])
             /\ Below(Range(held[d][k]), Range(page[d]))
  <2>1. /\ k \in {"data", "raw"}
        /\ query.due \subseteq Range(held[d][k]) \cup Range(page[d])
    BY <1>1, <1>9 DEF AskedOK, Looks, k
  <2>2. Range(<<>>) = {}
    BY RangeEmpty
  <2>3. k = "data" => Below(Range(held[d][k]), Range(page[d]))
    BY <1>2 DEF OrderDay
  <2>4. k = "raw" => Range(held[d][k]) = {} \/ Range(page[d]) = {}
    BY <1>2, <1>9, <2>2 DEF DayOK
  <2>5. k = "raw" => Below(Range(held[d][k]), Range(page[d]))
    BY <2>4 DEF Below
  <2> QED
    BY <2>1, <2>3, <2>5
<1> QED
  BY <1>1, <1>6, <1>8, <1>9 DEF AskedOK, Looks

LEMMA PageAsks ==
    ASSUME OrderInv, NEW d \in Day, query.day = d, AskedOK(d), QueryPage
    PROVE  query'.day = d /\ AskedOK(d)'
<1>1. /\ held' = held /\ page' = page /\ late' = late /\ Told' = Told /\ query.phase = "page"
  BY QueryLeaves DEF QueryPage, Query
<1>2. page[d] \in Seq(Nat) /\ Rising(page[d]) /\ Range(page[d]) \subseteq 1..Told
  BY QueryFacts
<1>3. query \in Queries /\ query.got \in Seq(Nat)
  BY TypeParts, QueryFacts DEF Queries
<1> DEFINE S == Seq(Nat)
           g == query.got \o page[d]
<1>4. query \in [phase : {"none", "metric", "resolve", "source", "page", "done"},
                 day : Day \cup {0}, from : Kind, got : S, due : SUBSET Nat]
  BY <1>3 DEF Queries
<1>5. /\ g \in S /\ Range(g) = Range(query.got) \cup Range(page[d])
      /\ Rising(query.got) /\ Below(Range(query.got), Range(page[d])) => Rising(g)
  BY <1>2, <1>3, RangeJoined, RisingJoined
<1>6. query' = [query EXCEPT !.got = g, !.phase = "done"]
  BY DEF QueryPage
<1> HIDE DEF S, g
<1>7. query'.phase = "done" /\ query'.day = d /\ query'.got = g /\ query'.due = query.due
  BY <1>4, <1>6
<1>8. d \notin late => query.due \subseteq Range(g) /\ Rising(g)
  BY <1>1, <1>5 DEF AskedOK, Looks
<1>9. Range(g) \subseteq 1..Told
  BY <1>2, <1>5 DEF AskedOK
<1> QED
  BY <1>1, <1>7, <1>8, <1>9 DEF AskedOK, Looks

LEMMA QueryInit == Init => QueryInv
<1> SUFFICES ASSUME Init PROVE QueryInv
  OBVIOUS
<1>1. query.phase = "none"
  BY DEF Init, NoQuery
<1> QED
  BY <1>1, OrderInit DEF QueryInv, QueryOK, Asks

LEMMA AskedNext ==
    ASSUME QueryInv, Next, NEW d \in Day, Asks(d)'
    PROVE  AskedOK(d)'
<1>0. OrderInv /\ Base /\ FilesOK /\ TypeOK
  BY DEF QueryInv, OrderInv, FilesInv, Base
<1>1. CASE ~Query
  <2>1. query'.phase # "none" /\ query'.day = d
    BY DEF Asks
  <2>2. /\ query'.phase = query.phase /\ query'.day = query.day /\ query'.got = query.got
    BY <1>0, <1>1, <2>1, QueryStays
  <2>3. Asks(d) /\ AskedOK(d)
    BY <2>1, <2>2 DEF Asks, QueryInv, QueryOK
  <2>4. Range(query'.got) \subseteq 1..Told'
    <3>1. ASSUME NEW n \in Range(query.got) PROVE n \in 1..Told'
      <4>1. n \in 1..Told
        BY <2>3 DEF AskedOK
      <4> QED
        BY <1>0, <4>1, RiseTop
    <3> QED
      BY <2>2, <3>1
  <2>5. ASSUME d \notin late' PROVE Looks(d)'
    <3>1. d \notin late
      BY <1>0, <2>3, <2>5, LateStays DEF Asks
    <3>2. Going(d)
      BY <1>0, <1>1, <2>3, <3>1 DEF Going, AskedOK
    <3> QED
      BY <3>2, LooksNext
  <2> QED
    BY <2>2, <2>3, <2>4, <2>5 DEF AskedOK
<1>2. CASE \E e \in Day : QueryStart(e)
  <2>1. PICK e \in Day : QueryStart(e)
    BY <1>2
  <2>2. query'.day = e /\ AskedOK(e)'
    BY <1>0, <2>1, StartAsks
  <2> QED
    BY <2>2 DEF Asks
<1>3. CASE QueryMetric \/ QueryResolve \/ QuerySource \/ QueryPage
  <2>1. query.phase # "none"
    BY <1>3 DEF QueryMetric, QueryResolve, QuerySource, QueryPage
  <2>2. query.day \in Day
    BY <1>0, <2>1 DEF Base, QueriesOK
  <2>3. \E e \in Day : e = query.day
    BY <2>2
  <2>4. PICK e \in Day : e = query.day
    BY <2>3, Zenon
  <2>5. AskedOK(e)
    BY <2>1, <2>4 DEF QueryInv, QueryOK, Asks
  <2>6. query'.day = e /\ AskedOK(e)'
    BY <1>0, <1>3, <2>4, <2>5, MetricAsks, ResolveAsks, SourceAsks, PageAsks
  <2> QED
    BY <2>6 DEF Asks
<1>4. ~QueryReturn
  BY DEF Asks, QueryReturn, NoQuery
<1> QED
  BY <1>1, <1>2, <1>3, <1>4 DEF Query

LEMMA QueryInvNext == QueryInv /\ [Next]_vars => QueryInv'
<1>1. ASSUME QueryInv, Next PROVE QueryInv'
  BY <1>1, OrderInvNext, AskedNext DEF QueryInv, QueryOK
<1>2. ASSUME QueryInv, UNCHANGED vars PROVE QueryInv'
  <2>1. OrderInv'
    BY <1>2, OrderInvNext DEF QueryInv
  <2>2. UNCHANGED <<file, page, pc, job, calls, late, query>>
    BY <1>2
  <2>3. held' = held
    BY <2>2 DEF held
  <2> QED
    BY <1>2, <2>1, <2>2, <2>3 DEF QueryInv, QueryOK, Asks, AskedOK, Looks, Found, Src, Told
<1> QED
  BY <1>1, <1>2

\* Every query, however long and whatever is built, renamed, repacked or removed
\* meanwhile, returns no sample twice, and every one it could read when it began
\* that did not move from where it had still to look to where it had looked.
THEOREM QueriesExact == Spec => []QueryIsExact
<1>1. QueryInv => QueryIsExact
  <2> SUFFICES ASSUME QueryInv, query.phase = "done", query.day \notin late
               PROVE  query.due \subseteq Range(query.got) /\ IsInjective(query.got)
    BY DEF QueryIsExact
  <2>1. query.day \in Day /\ query.got \in Seq(Nat)
    BY TypeParts DEF QueryInv, OrderInv, FilesInv, Base, QueriesOK, Queries
  <2>2. Looks(query.day)
    BY <2>1 DEF QueryInv, QueryOK, Asks, AskedOK
  <2>3. query.due \subseteq Range(query.got) /\ Rising(query.got)
    BY <2>2 DEF Looks
  <2> QED
    BY <2>1, <2>3, RisingOnce
<1> QED
  BY <1>1, QueryInit, QueryInvNext, PTL DEF Spec
=============================================================================
