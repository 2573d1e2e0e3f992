-------------------------- MODULE MetricFileProofs --------------------------
(***************************************************************************)
(* Proofs about metric files, for every value of the constants: a query    *)
(* answers from the one file it opened, whatever the caches it shares with *)
(* other queries went through; the file gives the stream the data file     *)
(* gives, sample by sample and window by window; and a comparison of the   *)
(* two says that they agree unless the data file grew.                     *)
(***************************************************************************)
EXTENDS MetricFile, FiniteSetTheorems, WellFoundedInduction, TLAPS

(***************************************************************************)
(* Induction, and functions defined by recursion.                          *)
(***************************************************************************)
LEMMA Smallest ==
    ASSUME NEW T, T \subseteq Nat, T # {}
    PROVE  \E m \in T : \A k \in T : m <= k
<1>1. PICK m \in T : \A k \in T : <<k, m>> \notin OpToRel(<, Nat)
  BY WFMin, NatLessThanWellFounded, Zenon
<1>2. \A k \in T : ~(k < m)
  BY <1>1, Zenon DEF OpToRel
<1> QED
  BY <1>2

LEMMA Induct ==
    ASSUME NEW n \in Nat, NEW T, 0 \in T, \A k \in T : k \in 0..n /\ k < n => k + 1 \in T
    PROVE  \A k \in 0..n : k \in T
<1> DEFINE bad == {k \in 0..n : k \notin T}
<1>1. SUFFICES ASSUME bad # {} PROVE FALSE
  OBVIOUS
<1>2. bad \subseteq Nat
  OBVIOUS
<1> HIDE DEF bad
<1>3. PICK m \in bad : \A k \in bad : m <= k
  BY <1>1, <1>2, Smallest
<1> USE DEF bad
<1>4. m \in 0..n /\ m # 0 /\ m \notin T
  BY <1>3
<1>5. m - 1 \in 0..n /\ m - 1 < n /\ (m - 1) + 1 = m /\ ~(m <= m - 1)
  BY <1>4
<1>6. m - 1 \in T
  BY <1>3, <1>5
<1> QED
  BY <1>4, <1>5, <1>6

\* A function defined by recursion on 1..n exists when its steps stay in S.
Recursive(t, n, S, init, step) ==
    /\ t \in [0..n -> S]
    /\ \A k \in 0..n : t[k] = IF k = 0 THEN init ELSE step[k][t[k - 1]]

LEMMA Recursion ==
    ASSUME NEW n \in Nat, NEW S, NEW init \in S, NEW step \in [1..n -> [S -> S]]
    PROVE  \E t : Recursive(t, n, S, init, step)
<1> DEFINE Ok(t, m) == \A k \in 0..m : t[k] = IF k = 0 THEN init ELSE step[k][t[k - 1]]
           bad == {m \in 0..n : ~\E t \in [0..m -> S] : Ok(t, m)}
<1>1. SUFFICES ASSUME bad # {} PROVE FALSE
  <2>1. ASSUME bad = {} PROVE \E t : Recursive(t, n, S, init, step)
    <3>1. n \in 0..n
      OBVIOUS
    <3>2. \E t \in [0..n -> S] : Ok(t, n)
      BY <2>1, <3>1
    <3> QED
      BY <3>2 DEF Recursive
  <2> QED
    BY <2>1
<1>2. bad \subseteq Nat
  OBVIOUS
<1> HIDE DEF bad
<1>3. PICK m \in bad : \A k \in bad : m <= k
  BY <1>1, <1>2, Smallest
<1> USE DEF bad
<1>4. m # 0
  <2>1. [k \in 0..0 |-> init] \in [0..0 -> S] /\ Ok([k \in 0..0 |-> init], 0)
    OBVIOUS
  <2>2. 0 \notin bad
    BY <2>1
  <2> QED
    BY <1>3, <2>2
<1>5. m \in 1..n /\ m - 1 \in 0..n /\ m - 1 \notin bad
  <2>1. m \in 0..n
    BY <1>3
  <2> HIDE DEF bad
  <2> QED
    BY <1>3, <1>4, <2>1
<1>6. PICK t \in [0..(m - 1) -> S] : Ok(t, m - 1)
  BY <1>5
<1> DEFINE u == [k \in 0..m |-> IF k < m THEN t[k] ELSE step[m][t[m - 1]]]
<1>7. t[m - 1] \in S /\ step[m] \in [S -> S]
  BY <1>5
<1>8. step[m][t[m - 1]] \in S
  BY <1>7
<1>9. u \in [0..m -> S]
  <2>1. \A k \in 0..m : k < m => k \in 0..(m - 1)
    BY <1>5
  <2> QED
    BY <1>8, <2>1
<1>10. u[m] = step[m][t[m - 1]] /\ \A k \in 0..(m - 1) : u[k] = t[k]
  BY <1>5
<1> HIDE DEF u
<1>11. Ok(u, m)
  <2> SUFFICES ASSUME NEW k \in 0..m
               PROVE  u[k] = IF k = 0 THEN init ELSE step[k][u[k - 1]]
    OBVIOUS
  <2>1. CASE k = m
    <3>1. u[m - 1] = t[m - 1]
      BY <1>5, <1>10
    <3> QED
      BY <1>4, <1>10, <2>1, <3>1
  <2>2. CASE k # m
    <3>1. k \in 0..(m - 1) /\ (k # 0 => k - 1 \in 0..(m - 1))
      BY <1>5, <2>2
    <3>2. t[k] = IF k = 0 THEN init ELSE step[k][t[k - 1]]
      BY <1>6, <3>1
    <3> QED
      BY <1>10, <3>1, <3>2
  <2> QED
    BY <2>1, <2>2
<1> QED
  BY <1>3, <1>9, <1>11

(***************************************************************************)
(* Joining sequences.                                                      *)
(***************************************************************************)
\* g joins the first n sequences of f, as FlattenSeq does.
Joins(f, n, S, g) ==
    /\ g \in [1..n -> Seq(S)]
    /\ \A i \in 1..n : g[i] = IF i = 1 THEN f[i] ELSE g[i - 1] \o f[i]

LEMMA JoinsExist ==
    ASSUME NEW S, NEW f \in Seq(Seq(S))
    PROVE  \E g : Joins(f, Len(f), S, g)
<1> DEFINE n == Len(f)
           B == Seq(S)
           init == <<>>
           step == [k \in 1..n |-> [t \in B |-> t \o f[k]]]
<1>1. n \in Nat /\ \A k \in 1..n : f[k] \in Seq(S)
  OBVIOUS
<1>2. init \in B /\ step \in [1..n -> [B -> B]]
  <2>1. ASSUME NEW k \in 1..n, NEW t \in B PROVE t \o f[k] \in B
    BY <1>1
  <2> QED
    BY <2>1
<1>3. \A k \in 1..n : \A t \in B : step[k][t] = t \o f[k]
  OBVIOUS
<1> HIDE DEF step, n
<1>4. PICK t : Recursive(t, n, B, init, step)
  BY <1>1, <1>2, Recursion
<1>5. \A k \in 0..n : t[k] \in B
  BY <1>4 DEF Recursive
<1>6. ASSUME NEW i \in 1..n
      PROVE  t[i] \in B /\ t[i] = IF i = 1 THEN f[i] ELSE t[i - 1] \o f[i]
  <2>1. i \in 0..n /\ i - 1 \in 0..n /\ 0 \in 0..n /\ i # 0
    BY <1>1
  <2>2. t[i] = step[i][t[i - 1]] /\ t[i - 1] \in B
    BY <1>4, <1>5, <2>1 DEF Recursive
  <2>3. t[i] = t[i - 1] \o f[i]
    BY <1>3, <2>2
  <2>4. t[0] = <<>>
    BY <1>4, <2>1 DEF Recursive
  <2>5. i = 1 => t[i] = <<>> \o f[i]
    <3>1. i = 1 => i - 1 = 0
      OBVIOUS
    <3> QED
      BY <2>3, <2>4, <3>1
  <2>6. <<>> \o f[i] = f[i]
    BY <1>1
  <2> QED
    BY <1>5, <2>1, <2>3, <2>5, <2>6
<1> DEFINE g == [i \in 1..n |-> t[i]]
<1>7. g \in [1..n -> Seq(S)] /\ \A i \in 1..n : g[i] = t[i]
  BY <1>6
<1> HIDE DEF g
<1>8. ASSUME NEW i \in 1..n
      PROVE  g[i] = IF i = 1 THEN f[i] ELSE g[i - 1] \o f[i]
  <2>1. i # 1 => i - 1 \in 1..n
    BY <1>1
  <2> QED
    BY <1>6, <1>7, <2>1
<1>9. Joins(f, n, S, g)
  BY <1>7, <1>8 DEF Joins
<1> QED
  BY <1>9 DEF n

LEMMA FlatJoins ==
    ASSUME NEW S, NEW f \in Seq(Seq(S)), f # <<>>, NEW g, Joins(f, Len(f), S, g)
    PROVE  FlattenSeq(f) = g[Len(f)]
<1> DEFINE n == Len(f)
           Def(h) == [i \in 1..n |-> IF i = 1 THEN f[i] ELSE h[i - 1] \o f[i]]
           s == CHOOSE h : h = Def(h)
<1>1. n \in Nat \ {0}
  OBVIOUS
<1>2. FlattenSeq(f) = s[n]
  BY <1>1 DEF FlattenSeq
<1>3. g = Def(g)
  BY DEF Joins
<1>4. s = Def(s)
  BY <1>3
<1>5. \A i \in 1..n : s[i] = IF i = 1 THEN f[i] ELSE s[i - 1] \o f[i]
  BY <1>4
<1> HIDE DEF s
<1> DEFINE bad == {k \in 1..n : s[k] # g[k]}
<1>6. bad = {}
  <2> SUFFICES ASSUME bad # {} PROVE FALSE
    OBVIOUS
  <2>1. bad \subseteq Nat
    OBVIOUS
  <2> HIDE DEF bad
  <2>2. PICK m \in bad : \A k \in bad : m <= k
    BY <2>1, Smallest
  <2> USE DEF bad
  <2>3. m \in 1..n /\ (m # 1 => m - 1 \in 1..n /\ m - 1 \notin bad)
    BY <1>1, <2>2
  <2>4. s[m] = g[m]
    BY <1>5, <2>3 DEF Joins
  <2> QED
    BY <2>2, <2>4
<1>7. s[n] = g[n]
  BY <1>1, <1>6
<1> QED
  BY <1>2, <1>7

LEMMA FlatTypes ==
    ASSUME NEW S, NEW f \in Seq(Seq(S))
    PROVE  FlattenSeq(f) \in Seq(S)
<1>1. CASE f = <<>>
  BY <1>1 DEF FlattenSeq
<1>2. CASE f # <<>>
  <2>1. PICK g : Joins(f, Len(f), S, g)
    BY JoinsExist
  <2>2. Len(f) \in 1..Len(f)
    BY <1>2
  <2>3. FlattenSeq(f) = g[Len(f)] /\ g[Len(f)] \in Seq(S)
    BY <1>2, <2>1, <2>2, FlatJoins DEF Joins
  <2> QED
    BY <2>3
<1> QED
  BY <1>1, <1>2

LEMMA FlatEmpty == FlattenSeq(<<>>) = <<>>
  BY DEF FlattenSeq

LEMMA FlatAppend ==
    ASSUME NEW S, NEW f \in Seq(Seq(S)), NEW s \in Seq(S)
    PROVE  /\ Append(f, s) \in Seq(Seq(S)) /\ Append(f, s) # <<>>
           /\ FlattenSeq(Append(f, s)) = FlattenSeq(f) \o s
<1> DEFINE a == Append(f, s)
           n == Len(f)
<1>1. /\ a \in Seq(Seq(S)) /\ a # <<>> /\ Len(a) = n + 1 /\ n \in Nat /\ a[n + 1] = s
      /\ \A i \in 1..n : a[i] = f[i]
  <2> DEFINE B == Seq(S)
  <2>1. f \in Seq(B) /\ s \in B
    OBVIOUS
  <2> HIDE DEF B
  <2>2. Append(f, s) \in Seq(B) /\ Len(Append(f, s)) = Len(f) + 1 /\ Len(f) \in Nat
    BY <2>1
  <2>3. Append(f, s)[Len(f) + 1] = s /\ \A i \in 1..Len(f) : Append(f, s)[i] = f[i]
    BY <2>1
  <2>4. Append(f, s) # <<>>
    BY <2>1
  <2> QED
    BY <2>2, <2>3, <2>4 DEF B
<1> HIDE DEF a
<1>2. PICK g : Joins(a, n + 1, S, g)
  BY <1>1, JoinsExist
<1>3. FlattenSeq(a) = g[n + 1]
  BY <1>1, <1>2, FlatJoins
<1>4. CASE f = <<>>
  <2>1. n = 0
    BY <1>4
  <2>2. g[1] = a[1] /\ a[1] = s
    BY <1>1, <1>2, <2>1 DEF Joins
  <2>3. FlattenSeq(f) = <<>> /\ <<>> \o s = s
    BY <1>4, FlatEmpty
  <2> QED
    BY <1>1, <1>3, <2>1, <2>2, <2>3 DEF a
<1>5. CASE f # <<>>
  <2>1. n # 0
    BY <1>5
  <2> DEFINE h == [i \in 1..n |-> g[i]]
  <2>2. Joins(f, n, S, h)
    <3>1. \A i \in 1..n : i \in 1..(n + 1) /\ (i # 1 => i - 1 \in 1..n)
      BY <1>1
    <3>2. h \in [1..n -> Seq(S)] /\ \A i \in 1..n : h[i] = g[i]
      BY <1>2, <3>1 DEF Joins
    <3> HIDE DEF h
    <3>3. \A i \in 1..n : g[i] = IF i = 1 THEN f[i] ELSE g[i - 1] \o f[i]
      BY <1>1, <1>2, <3>1 DEF Joins
    <3> QED
      BY <3>1, <3>2, <3>3 DEF Joins
  <2>3. FlattenSeq(f) = h[n] /\ h[n] = g[n]
    BY <1>1, <1>5, <2>1, <2>2, FlatJoins
  <2>4. n + 1 \in 1..(n + 1) /\ n + 1 # 1 /\ (n + 1) - 1 = n
    BY <1>1, <2>1
  <2>5. g[n + 1] = g[n] \o a[n + 1]
    BY <1>2, <2>4 DEF Joins
  <2> QED
    BY <1>1, <1>3, <2>3, <2>5 DEF a
<1> QED
  BY <1>4, <1>5


LEMMA FlatPrefix ==
    ASSUME NEW S, NEW f \in Seq(Seq(S)), NEW n \in Nat, n + 1 <= Len(f)
    PROVE  FlattenSeq(SubSeq(f, 1, n + 1)) = FlattenSeq(SubSeq(f, 1, n)) \o f[n + 1]
<1> DEFINE B == Seq(S)
<1>1. f \in Seq(B) /\ n \in 0..Len(f) /\ n + 1 \in 0..Len(f) /\ n + 1 \in 1..Len(f)
  OBVIOUS
<1> HIDE DEF B
<1>2. /\ SubSeq(f, 1, n) \in Seq(B) /\ SubSeq(f, 1, n + 1) \in Seq(B) /\ f[n + 1] \in B
      /\ Len(SubSeq(f, 1, n)) = n /\ Len(SubSeq(f, 1, n + 1)) = n + 1
  BY <1>1
<1>3. SubSeq(f, 1, n + 1) = Append(SubSeq(f, 1, n), f[n + 1])
  <2> DEFINE a == Append(SubSeq(f, 1, n), f[n + 1])
             b == SubSeq(f, 1, n + 1)
  <2>1. a \in Seq(B) /\ b \in Seq(B) /\ Len(a) = n + 1 /\ Len(b) = n + 1
    BY <1>2
  <2>2. ASSUME NEW i \in 1..(n + 1) PROVE a[i] = b[i]
    <3>1. b[i] = f[i]
      BY <1>1
    <3>2. CASE i = n + 1
      <4>1. a[Len(SubSeq(f, 1, n)) + 1] = f[n + 1]
        BY <1>2
      <4> QED
        BY <1>2, <3>1, <3>2, <4>1
    <3>3. CASE i # n + 1
      <4>1. i \in 1..n /\ i \in 1..Len(SubSeq(f, 1, n))
        BY <1>2, <3>3
      <4>2. a[i] = SubSeq(f, 1, n)[i]
        BY <1>2, <4>1
      <4>3. SubSeq(f, 1, n)[i] = f[i]
        BY <1>1, <4>1
      <4> QED
        BY <3>1, <4>2, <4>3
    <3> QED
      BY <3>2, <3>3
  <2> HIDE DEF a, b
  <2>3. a = b
    BY <2>1, <2>2
  <2> QED
    BY <2>3 DEF a, b
<1>4. FlattenSeq(Append(SubSeq(f, 1, n), f[n + 1])) = FlattenSeq(SubSeq(f, 1, n)) \o f[n + 1]
  <2>1. SubSeq(f, 1, n) \in Seq(Seq(S)) /\ f[n + 1] \in Seq(S)
    BY <1>2 DEF B
  <2> QED
    BY <2>1, FlatAppend
<1> QED
  BY <1>3, <1>4

\* Joining all of a sequence of sequences is joining those of it that are not empty.
Rising(e) == \A i, j \in DOMAIN e : i < j => e[i] < e[j]

LEMMA FlatSkips ==
    ASSUME NEW S, NEW f \in Seq(Seq(S)), NEW m \in Nat, NEW e \in [1..m -> 1..Len(f)], Rising(e),
           \A n \in 1..Len(f) : (\A k \in 1..m : e[k] # n) => f[n] = <<>>
    PROVE  FlattenSeq([k \in 1..m |-> f[e[k]]]) = FlattenSeq(f)
<1> DEFINE B == Seq(S)
           g == [k \in 1..m |-> f[e[k]]]
           N == Len(f)
           G(k) == FlattenSeq(SubSeq(g, 1, k))
           F(n) == FlattenSeq(SubSeq(f, 1, n))
           Upto(k, n) == (\A i \in 1..k : e[i] <= n) /\ (\A i \in (k + 1)..m : e[i] > n)
           T == {n \in 0..N : \A k \in 0..m : Upto(k, n) => G(k) = F(n)}
<1>1. /\ f \in Seq(B) /\ N \in Nat /\ \A n \in 1..N : f[n] \in B
      /\ g \in Seq(B) /\ Len(g) = m /\ \A k \in 1..m : g[k] = f[e[k]] /\ g[k] \in B
  <2>1. f \in Seq(B) /\ N \in Nat
    OBVIOUS
  <2> HIDE DEF B
  <2>2. \A n \in 1..N : f[n] \in B
    BY <2>1
  <2>3. \A k \in 1..m : f[e[k]] \in B
    BY <2>2
  <2> QED
    BY <2>1, <2>2, <2>3
<1>2. f \in Seq(Seq(S)) /\ g \in Seq(Seq(S))
  BY <1>1
<1> HIDE DEF g, B
<1>3. \A n \in Nat : n + 1 <= N => F(n + 1) = F(n) \o f[n + 1]
  BY FlatPrefix
<1>4. \A k \in Nat : k + 1 <= m => G(k + 1) = G(k) \o g[k + 1]
  BY <1>1, <1>2, FlatPrefix
<1>5. G(0) = <<>> /\ F(0) = <<>>
  <2>1. SubSeq(g, 1, 0) = <<>> /\ SubSeq(f, 1, 0) = <<>>
    BY <1>1
  <2> QED
    BY <2>1, FlatEmpty
<1>6. G(m) = FlattenSeq(g) /\ F(N) = FlattenSeq(f)
  <2>1. SubSeq(g, 1, m) = g /\ SubSeq(f, 1, N) = f
    BY <1>1
  <2> QED
    BY <2>1
<1>7. \A n \in 0..N : F(n) \in Seq(S)
  <2> SUFFICES ASSUME NEW n \in 0..N PROVE F(n) \in Seq(S)
    OBVIOUS
  <2>1. SubSeq(f, 1, n) \in Seq(B)
    BY <1>1
  <2> QED
    BY <2>1, FlatTypes DEF B
<1> HIDE DEF G, F
<1>8. 0 \in T
  <2> SUFFICES ASSUME NEW k \in 0..m, Upto(k, 0) PROVE k = 0
    BY <1>1, <1>5
  <2>1. k # 0 => k \in 1..k /\ k \in 1..m
    OBVIOUS
  <2> QED
    BY <2>1
<1>9. ASSUME NEW n \in T, n \in 0..N, n < N PROVE n + 1 \in T
  <2>1. n + 1 \in 0..N /\ n + 1 \in 1..N /\ n \in Nat /\ n + 1 <= N
    BY <1>1, <1>9
  <2>2. \A k \in 0..m : Upto(k, n) => G(k) = F(n)
    BY <1>9
  <2> SUFFICES ASSUME NEW k \in 0..m, Upto(k, n + 1) PROVE G(k) = F(n + 1)
    BY <2>1
  <2>3. F(n + 1) = F(n) \o f[n + 1]
    BY <1>3, <2>1
  <2>4. CASE \E i \in 1..m : e[i] = n + 1
    <3>1. PICK i \in 1..m : e[i] = n + 1
      BY <2>4
    <3>2. i = k
      <4>1. ~(i \in (k + 1)..m)
        BY <3>1, <2>1
      <4>2. i <= k
        BY <4>1
      <4>3. i < k => FALSE
        <5> SUFFICES ASSUME i < k PROVE FALSE
          OBVIOUS
        <5>1. k \in 1..k /\ k \in 1..m
          BY <4>2
        <5>2. e[i] < e[k] /\ e[k] <= n + 1
          BY <5>1 DEF Rising
        <5>3. e[k] \in Nat
          BY <1>1, <5>1
        <5> QED
          BY <2>1, <3>1, <5>2, <5>3
      <4> QED
        BY <4>2, <4>3
    <3>3. k - 1 \in 0..m /\ k - 1 \in Nat /\ (k - 1) + 1 = k /\ k \in 1..m
      BY <3>2
    <3>4. Upto(k - 1, n)
      <4>1. ASSUME NEW j \in 1..(k - 1) PROVE e[j] <= n
        <5>1. j < k /\ j \in 1..m
          BY <3>3
        <5>2. e[j] < e[k] /\ e[k] = n + 1
          BY <3>1, <3>2, <3>3, <5>1 DEF Rising
        <5>3. e[j] \in Nat
          BY <1>1, <5>1
        <5> QED
          BY <2>1, <5>2, <5>3
      <4>2. ASSUME NEW j \in ((k - 1) + 1)..m PROVE e[j] > n
        <5>1. CASE j = k
          BY <2>1, <3>1, <3>2, <5>1
        <5>2. CASE j # k
          <6>1. j \in (k + 1)..m /\ j \in 1..m
            BY <3>3, <5>2
          <6>2. e[j] > n + 1 /\ e[j] \in Nat
            BY <1>1, <6>1
          <6> QED
            BY <2>1, <6>2
        <5> QED
          BY <5>1, <5>2
      <4> QED
        BY <4>1, <4>2
    <3>5. G(k - 1) = F(n)
      BY <2>2, <3>3, <3>4
    <3>6. G(k) = G(k - 1) \o g[k]
      <4>1. (k - 1) + 1 <= m => G((k - 1) + 1) = G(k - 1) \o g[(k - 1) + 1]
        BY <1>4, <3>3
      <4>2. k <= m
        OBVIOUS
      <4> QED
        BY <3>3, <4>1, <4>2
    <3>7. g[k] = f[n + 1]
      BY <1>1, <3>1, <3>2, <3>3
    <3> QED
      BY <2>3, <3>5, <3>6, <3>7
  <2>5. CASE \A i \in 1..m : e[i] # n + 1
    <3>1. f[n + 1] = <<>>
      BY <2>1, <2>5
    <3>2. Upto(k, n)
      <4>1. ASSUME NEW j \in 1..k PROVE e[j] <= n
        <5>1. j \in 1..m /\ e[j] \in Nat /\ e[j] <= n + 1 /\ e[j] # n + 1
          BY <1>1, <2>5
        <5>2. \A x, y \in Nat : x <= y + 1 /\ x # y + 1 => x <= y
          OBVIOUS
        <5> HIDE DEF T
        <5> QED
          BY <2>1, <5>1, <5>2
      <4>2. ASSUME NEW j \in (k + 1)..m PROVE e[j] > n
        <5>1. j \in 1..m /\ e[j] \in Nat /\ e[j] > n + 1
          BY <1>1
        <5> QED
          BY <2>1, <5>1
      <4> QED
        BY <4>1, <4>2
    <3>3. G(k) = F(n)
      BY <2>2, <3>2
    <3>4. F(n) \o <<>> = F(n)
      BY <1>7, <1>9
    <3> QED
      BY <2>3, <3>1, <3>3, <3>4
  <2> QED
    BY <2>4, <2>5
<1>10. N \in T
  <2> HIDE DEF T
  <2>1. \A k \in 0..N : k \in T
    BY <1>1, <1>8, <1>9, Induct
  <2> QED
    BY <1>1, <2>1
<1>11. Upto(m, N)
  <2>1. \A i \in 1..m : e[i] \in 1..N
    OBVIOUS
  <2>2. \A i \in 1..m : e[i] <= N
    BY <1>1, <2>1
  <2>3. (m + 1)..m = {}
    OBVIOUS
  <2> QED
    BY <2>2, <2>3
<1>12. m \in 0..m
  OBVIOUS
<1>13. G(m) = F(N)
  BY <1>10, <1>11, <1>12
<1> QED
  BY <1>6, <1>13 DEF g

(***************************************************************************)
(* Sorting: the elements of a finite set in a strict total order of it.    *)
(***************************************************************************)
StrictOrder(S, R) ==
    /\ \A x, y \in S : <<x, y>> \in R => <<y, x>> \notin R
    /\ \A x, y, z \in S : <<x, y>> \in R /\ <<y, z>> \in R => <<x, z>> \in R
    /\ \A x, y \in S : x = y \/ <<x, y>> \in R \/ <<y, x>> \in R

\* e puts all of S in the order R.
Enumerates(e, n, S, R) ==
    /\ e \in [1..n -> S]
    /\ \A i, j \in 1..n : i < j => <<e[i], e[j]>> \in R
    /\ \A x \in S : \E i \in 1..n : e[i] = x

LEMMA SortedIs ==
    ASSUME NEW S, NEW R, IsFiniteSet(S), StrictOrder(S, R)
    PROVE  Cardinality(S) \in Nat /\ Enumerates(Sorted(S, R), Cardinality(S), S, R)
<1> DEFINE n == Cardinality(S)
           Under(x) == {y \in S : <<y, x>> \in R}
           rank == [x \in S |-> Cardinality(Under(x))]
           s == Sorted(S, R)
<1>1. n \in Nat
  BY FS_CardinalityType
<1>2. ASSUME NEW x \in S
      PROVE  IsFiniteSet(Under(x)) /\ Cardinality(Under(x)) \in 0..(n - 1)
  <2>1. Under(x) \in SUBSET S /\ x \notin Under(x)
    BY DEF StrictOrder
  <2>2. Under(x) # S
    BY <2>1
  <2> HIDE DEF Under
  <2>3. IsFiniteSet(Under(x)) /\ Cardinality(Under(x)) <= n /\ Cardinality(Under(x)) # n
    BY <2>1, <2>2, FS_Subset
  <2>4. Cardinality(Under(x)) \in Nat
    BY <2>3, FS_CardinalityType
  <2> QED
    BY <1>1, <2>3, <2>4
<1>3. ASSUME NEW x \in S, NEW y \in S, <<x, y>> \in R
      PROVE  Cardinality(Under(x)) < Cardinality(Under(y))
  <2>1. Under(x) \in SUBSET Under(y) /\ x \in Under(y) /\ x \notin Under(x)
    BY <1>3 DEF StrictOrder
  <2>2. Under(x) # Under(y)
    BY <2>1
  <2> HIDE DEF Under
  <2>3. Cardinality(Under(x)) <= Cardinality(Under(y)) /\ Cardinality(Under(x)) # Cardinality(Under(y))
    BY <1>2, <2>1, <2>2, FS_Subset
  <2> QED
    BY <1>1, <1>2, <2>3
<1>4. rank \in [S -> 0..(n - 1)]
  BY <1>2
<1>5. \A x, y \in S : x # y => rank[x] # rank[y]
  <2> SUFFICES ASSUME NEW x \in S, NEW y \in S, x # y PROVE rank[x] # rank[y]
    OBVIOUS
  <2>1. <<x, y>> \in R \/ <<y, x>> \in R
    BY DEF StrictOrder
  <2>2. rank[x] < rank[y] \/ rank[y] < rank[x]
    <3>1. rank[x] = Cardinality(Under(x)) /\ rank[y] = Cardinality(Under(y))
      OBVIOUS
    <3> HIDE DEF rank, Under
    <3> QED
      BY <1>3, <2>1, <3>1
  <2> QED
    BY <1>1, <1>4, <2>2
<1>6. \A k \in 0..(n - 1) : \E x \in S : rank[x] = k
  <2> HIDE DEF rank, Under
  <2>1. rank \in Injection(S, 0..(n - 1))
    BY <1>4, <1>5 DEF Injection, IsInjective
  <2>2. IsFiniteSet(0..(n - 1)) /\ Cardinality(0..(n - 1)) = n
    <3>1. 0 \in Int /\ n - 1 \in Int
      BY <1>1
    <3>2. IsFiniteSet(0..(n - 1)) /\ Cardinality(0..(n - 1)) = IF 0 > n - 1 THEN 0 ELSE (n - 1) - 0 + 1
      BY <3>1, FS_Interval
    <3> QED
      BY <1>1, <3>2
  <2>3. rank \in Surjection(S, 0..(n - 1))
    BY <2>1, <2>2, FS_Injection
  <2> QED
    BY <2>3 DEF Surjection
<1>7. ASSUME NEW k \in 1..n PROVE s[k] \in S /\ rank[s[k]] = k - 1
  <2>1. k - 1 \in 0..(n - 1)
    BY <1>1
  <2>2. PICK x \in S : rank[x] = k - 1
    BY <1>6, <2>1
  <2>3. Cardinality(Under(x)) = k - 1
    BY <2>2
  <2>4. s[k] = CHOOSE y \in S : Cardinality(Under(y)) = k - 1
    BY DEF Sorted
  <2>5. s[k] \in S /\ Cardinality(Under(s[k])) = k - 1
    <3> HIDE DEF Under, s
    <3> QED
      BY <2>3, <2>4
  <2> QED
    BY <2>5
<1>8. s \in [1..n -> S]
  <2> DEFINE c(k) == CHOOSE x \in S : Cardinality(Under(x)) = k - 1
  <2>1. s = [k \in 1..n |-> c(k)]
    BY Zenon DEF Sorted
  <2> HIDE DEF s, rank, c
  <2>2. \A k \in 1..n : c(k) \in S
    BY <1>7, <2>1
  <2> QED
    BY <2>1, <2>2
<1>9. \A x \in S : rank[x] = Cardinality(Under(x))
  OBVIOUS
<1> HIDE DEF s, rank, Under
<1>10. ASSUME NEW i \in 1..n, NEW j \in 1..n, i < j PROVE <<s[i], s[j]>> \in R
  <2>1. s[i] \in S /\ s[j] \in S /\ rank[s[i]] = i - 1 /\ rank[s[j]] = j - 1
    BY <1>7
  <2>2. ~(rank[s[j]] < rank[s[i]]) /\ rank[s[i]] # rank[s[j]]
    BY <1>1, <1>10, <2>1
  <2>3. <<s[j], s[i]>> \notin R /\ s[i] # s[j]
    BY <1>3, <1>9, <2>1, <2>2
  <2> QED
    BY <2>1, <2>3 DEF StrictOrder
<1>11. ASSUME NEW x \in S PROVE \E i \in 1..n : s[i] = x
  <2>1. rank[x] \in 0..(n - 1) /\ rank[x] + 1 \in 1..n /\ (rank[x] + 1) - 1 = rank[x]
    BY <1>1, <1>4
  <2>2. s[rank[x] + 1] \in S /\ rank[s[rank[x] + 1]] = rank[x]
    BY <1>7, <2>1
  <2>3. s[rank[x] + 1] = x
    BY <1>5, <2>2
  <2> QED
    BY <2>1, <2>3
<1> QED
  BY <1>1, <1>8, <1>10, <1>11 DEF Enumerates, s, n


LEMMA LessOrders ==
    ASSUME NEW S, S \subseteq Int
    PROVE  StrictOrder(S, Less(S))
<1>1. \A x, y \in S : <<x, y>> \in Less(S) <=> x < y
  BY DEF Less
<1> QED
  BY <1>1 DEF StrictOrder

\* The places of a set of natural numbers, from the lowest on.
Climbing(e, m, K) ==
    /\ e \in [1..m -> K] /\ Rising(e)
    /\ \A x \in K : \E i \in 1..m : e[i] = x

LEMMA SortedClimbs ==
    ASSUME NEW K, IsFiniteSet(K), K \subseteq Int
    PROVE  Cardinality(K) \in Nat /\ Climbing(Sorted(K, Less(K)), Cardinality(K), K)
<1> DEFINE m == Cardinality(K)
           e == Sorted(K, Less(K))
<1>1. StrictOrder(K, Less(K))
  BY LessOrders
<1>2. m \in Nat /\ Enumerates(e, m, K, Less(K))
  BY <1>1, SortedIs
<1> HIDE DEF m, e
<1>3. e \in [1..m -> K] /\ DOMAIN e = 1..m /\ \A i, j \in 1..m : i < j => e[i] < e[j]
  BY <1>2 DEF Enumerates, Less
<1> QED
  BY <1>2, <1>3 DEF Climbing, Rising, Enumerates, m, e

\* The m places K of s are picked in the order e.
Picks(s, K, m, e) ==
    /\ m = Cardinality(K) /\ IsFiniteSet(K) /\ Climbing(e, m, K)
    /\ Picked(s, K) = [k \in 1..m |-> s[e[k]]] /\ Len(Picked(s, K)) = m

LEMMA PickedIs ==
    ASSUME NEW S, NEW s \in Seq(S), NEW K, K \subseteq 1..Len(s)
    PROVE  Picked(s, K) \in Seq(S) /\ \E m \in Nat : \E e : Picks(s, K, m, e)
<1> DEFINE m == Cardinality(K)
           e == Sorted(K, Less(K))
<1>1. IsFiniteSet(K) /\ K \subseteq Int /\ K \subseteq Nat
  <2>1. 1..Len(s) \subseteq Nat /\ Len(s) \in Nat
    OBVIOUS
  <2>2. IsFiniteSet(1..Len(s))
    BY <2>1, FS_Interval
  <2>3. K \in SUBSET (1..Len(s))
    OBVIOUS
  <2>4. IsFiniteSet(K)
    BY <2>2, <2>3, FS_Subset
  <2> QED
    BY <2>1, <2>4
<1>2. m \in Nat /\ Climbing(e, m, K)
  BY <1>1, SortedClimbs
<1>3. Picked(s, K) = [k \in DOMAIN e |-> s[e[k]]]
  BY DEF Picked
<1> HIDE DEF m, e
<1>4. e \in [1..m -> K] /\ DOMAIN e = 1..m
  BY <1>2 DEF Climbing
<1>5. \A k \in 1..m : s[e[k]] \in S
  <2>1. \A k \in 1..m : e[k] \in 1..Len(s)
    BY <1>4
  <2>2. \A k \in 1..Len(s) : s[k] \in S
    OBVIOUS
  <2> QED
    BY <2>1, <2>2
<1>6. Picked(s, K) = [k \in 1..m |-> s[e[k]]]
  BY <1>3, <1>4
<1>7. Picked(s, K) \in Seq(S) /\ Len(Picked(s, K)) = m
  BY <1>2, <1>5, <1>6
<1>8. m = Cardinality(K)
  BY DEF m
<1>9. Picks(s, K, m, e)
  BY <1>1, <1>2, <1>6, <1>7, <1>8 DEF Picks
<1> QED
  BY <1>2, <1>7, <1>9

LEMMA ListIs ==
    ASSUME NEW n \in Nat, NEW S, NEW g, \A k \in 1..n : g[k] \in S
    PROVE  /\ [k \in 1..n |-> g[k]] \in Seq(S) /\ Len([k \in 1..n |-> g[k]]) = n
           /\ DOMAIN [k \in 1..n |-> g[k]] = 1..n
  OBVIOUS

LEMMA PickedNone ==
    ASSUME NEW s
    PROVE  Picked(s, {}) = <<>>
<1>1. Cardinality({}) = 0
  BY FS_EmptySet
<1>2. DOMAIN Sorted({}, Less({})) = {}
  BY <1>1 DEF Sorted
<1> QED
  BY <1>2 DEF Picked

(***************************************************************************)
(* What a partition holds of each metric.                                  *)
(***************************************************************************)
LEMMA SampleIs ==
    ASSUME NEW s \in Seq(Sample)
    PROVE  /\ Len(s) \in Nat /\ DOMAIN s = 1..Len(s)
           /\ \A k \in 1..Len(s) : s[k] \in Sample /\ s[k].id \in Nat /\ s[k].ts \in Int
<1>1. Len(s) \in Nat /\ DOMAIN s = 1..Len(s) /\ \A k \in 1..Len(s) : s[k] \in Sample
  OBVIOUS
<1>2. \A x \in Sample : x.id \in Nat /\ x.ts \in Int
  BY DEF Sample
<1> QED
  BY <1>1, <1>2

LEMMA SortByTimeIs ==
    ASSUME NEW s \in Seq(Sample)
    PROVE  /\ SortByTime(s) \in Seq(Sample) /\ Len(SortByTime(s)) = Len(s)
           /\ InTime(SortByTime(s))
           /\ \A k \in 1..Len(s) : \E j \in 1..Len(s) : SortByTime(s)[k] = s[j]
<1> DEFINE D == 1..Len(s)
           R == Earlier(s)
           order == Sorted(DOMAIN s, R)
           t == SortByTime(s)
           ts(k) == s[k].ts
<1>1. Len(s) \in Nat /\ DOMAIN s = D /\ \A k \in D : s[k] \in Sample
  BY SampleIs
<1>2. IsFiniteSet(D) /\ Cardinality(D) = Len(s)
  <2>1. 1 \in Int /\ Len(s) \in Int /\ Len(s) \in Nat
    BY <1>1
  <2>2. IsFiniteSet(D) /\ Cardinality(D) = IF 1 > Len(s) THEN 0 ELSE Len(s) - 1 + 1
    BY <2>1, FS_Interval
  <2> QED
    BY <2>1, <2>2
<1>a. \A x \in D : x \in Int /\ ts(x) \in Int
  BY SampleIs
<1>3. \A x, y \in D : <<x, y>> \in R <=> (ts(x) < ts(y) \/ (ts(x) = ts(y) /\ x < y))
  <2> SUFFICES ASSUME NEW x \in D, NEW y \in D
               PROVE  <<x, y>> \in R <=> (s[x].ts < s[y].ts \/ (s[x].ts = s[y].ts /\ x < y))
    OBVIOUS
  <2>1. R = {p \in D \X D : s[p[1]].ts < s[p[2]].ts \/ (s[p[1]].ts = s[p[2]].ts /\ p[1] < p[2])}
    <3>1. DOMAIN s = D
      BY <1>1
    <3> HIDE DEF D
    <3> QED
      BY <3>1 DEF Earlier, R
  <2>2. <<x, y>> \in D \X D /\ <<x, y>>[1] = x /\ <<x, y>>[2] = y
    OBVIOUS
  <2> HIDE DEF R, D
  <2> QED
    BY <2>1, <2>2
<1>b. D = 1..Len(s) /\ ts(1) = s[1].ts /\ \A x \in D : ts(x) = s[x].ts
  OBVIOUS
<1> HIDE DEF R, D, ts
<1>4. StrictOrder(D, R)
  <2>1. \A x, y \in D : <<x, y>> \in R => <<y, x>> \notin R
    BY <1>a, <1>3
  <2>2. \A x, y, z \in D : <<x, y>> \in R /\ <<y, z>> \in R => <<x, z>> \in R
    BY <1>a, <1>3
  <2>3. ASSUME NEW x \in D, NEW y \in D PROVE x = y \/ <<x, y>> \in R \/ <<y, x>> \in R
    <3>1. \A a, b, c, d \in Int : a = b \/ c < d \/ (c = d /\ a < b) \/ d < c \/ (d = c /\ b < a)
      OBVIOUS
    <3>2. x = y \/ ts(x) < ts(y) \/ (ts(x) = ts(y) /\ x < y) \/ ts(y) < ts(x) \/ (ts(y) = ts(x) /\ y < x)
      BY <1>a, <3>1
    <3>3. <<x, y>> \in R <=> (ts(x) < ts(y) \/ (ts(x) = ts(y) /\ x < y))
      BY <1>3
    <3>4. <<y, x>> \in R <=> (ts(y) < ts(x) \/ (ts(y) = ts(x) /\ y < x))
      BY <1>3
    <3> QED
      BY <1>a, <3>2, <3>3, <3>4
  <2> QED
    BY <2>1, <2>2, <2>3 DEF StrictOrder
<1>5. Enumerates(order, Len(s), D, R)
  BY <1>1, <1>2, <1>4, SortedIs
<1>6. t = [k \in DOMAIN order |-> s[order[k]]]
  BY DEF SortByTime, R
<1> HIDE DEF order, t
<1>7. DOMAIN order = D /\ \A k \in D : order[k] \in D
  BY <1>5, <1>b DEF Enumerates
<1>8. t = [k \in D |-> s[order[k]]] /\ \A k \in D : s[order[k]] \in Sample
  BY <1>1, <1>6, <1>7
<1>9. t \in Seq(Sample) /\ Len(t) = Len(s)
  BY <1>1, <1>8
<1>10. ASSUME NEW i \in D, NEW j \in D, i < j PROVE t[i].ts <= t[j].ts
  <2>1. <<order[i], order[j]>> \in R
    BY <1>5, <1>10, <1>b DEF Enumerates
  <2>2. order[i] \in D /\ order[j] \in D
    BY <1>7
  <2>3. ts(order[i]) < ts(order[j]) \/ ts(order[i]) = ts(order[j])
    BY <1>3, <2>1, <2>2
  <2>4. ts(order[i]) <= ts(order[j])
    BY <1>a, <2>2, <2>3
  <2> QED
    BY <1>8, <1>b, <2>2, <2>4
<1>11. \A k \in D : \E j \in D : t[k] = s[j]
  BY <1>7, <1>8
<1> QED
  BY <1>9, <1>10, <1>11 DEF InTime, t, D

LEMMA OfIs ==
    ASSUME NEW s \in Seq(Sample), NEW id
    PROVE  /\ Of(id, s) \in Seq(Sample)
           /\ Len(Of(id, s)) = Cardinality({k \in 1..Len(s) : s[k].id = id})
           /\ \A k \in 1..Len(Of(id, s)) : Of(id, s)[k].id = id
           /\ (\E k \in 1..Len(s) : s[k].id = id) => Len(Of(id, s)) # 0
<1> DEFINE K == {k \in 1..Len(s) : s[k].id = id}
<1>1. Of(id, s) = Picked(s, K) /\ K \subseteq 1..Len(s)
  <2>1. DOMAIN s = 1..Len(s)
    BY SampleIs
  <2> QED
    BY <2>1 DEF Of
<1>2. \A k \in K : s[k].id = id
  OBVIOUS
<1>3. (\E k \in 1..Len(s) : s[k].id = id) => K # {}
  OBVIOUS
<1>4. K = {k \in 1..Len(s) : s[k].id = id}
  OBVIOUS
<1> HIDE DEF K
<1>5. Picked(s, K) \in Seq(Sample) /\ \E m \in Nat : \E e : Picks(s, K, m, e)
  BY <1>1, PickedIs
<1>a. PICK m \in Nat : \E e : Picks(s, K, m, e)
  BY <1>5
<1> PICK e : Picks(s, K, m, e)
  BY <1>a
<1>6. \A k \in 1..m : Picked(s, K)[k].id = id
  BY <1>2 DEF Picks, Climbing
<1>7. K # {} => m # 0
  BY FS_EmptySet DEF Picks
<1>8. Len(Picked(s, K)) = m /\ m = Cardinality(K)
  BY DEF Picks
<1> QED
  BY <1>1, <1>3, <1>4, <1>5, <1>6, <1>7, <1>8

\* What Inputs returns: of each metric its samples in the order of time.
InputsOK(inputs) ==
    /\ inputs = [id \in DOMAIN inputs |-> inputs[id]]
    /\ IsFiniteSet(DOMAIN inputs) /\ DOMAIN inputs \subseteq Nat
    /\ \A id \in DOMAIN inputs :
           /\ inputs[id] \in Seq(Sample) /\ Len(inputs[id]) # 0 /\ InTime(inputs[id])
           /\ \A k \in 1..Len(inputs[id]) : inputs[id][k].id = id

\* The places of the samples of one metric.
PlacesOf(id, s) == {k \in 1..Len(s) : s[k].id = id}

LEMMA OfCounts ==
    ASSUME NEW s \in Seq(Sample), NEW id
    PROVE  Len(Of(id, s)) = Cardinality(PlacesOf(id, s))
BY OfIs DEF PlacesOf

LEMMA AllIs ==
    ASSUME NEW pages \in Seq(Page)
    PROVE  pages \in Seq(Seq(Sample)) /\ FlattenSeq(pages) \in Seq(Sample)
<1>1. pages \in Seq(Seq(Sample))
  <2>1. Page \subseteq Seq(Sample)
    BY DEF Page, PagesOf
  <2> DEFINE B == Seq(Sample)
  <2>2. Page \subseteq B
    BY <2>1
  <2> HIDE DEF B
  <2>3. pages \in Seq(B)
    BY <2>2
  <2> QED
    BY <2>3 DEF B
<1> QED
  BY <1>1, FlatTypes

LEMMA InputsAre ==
    ASSUME NEW pages \in Seq(Page)
    PROVE  /\ InputsOK(Inputs(pages))
           /\ DOMAIN Inputs(pages)
                = {FlattenSeq(pages)[k].id : k \in 1..Len(FlattenSeq(pages))}
           /\ \A id \in DOMAIN Inputs(pages) :
                  Len(Inputs(pages)[id]) = Len(Of(id, FlattenSeq(pages)))
<1> DEFINE all == FlattenSeq(pages)
           D == {all[k].id : k \in 1..Len(all)}
           inputs == Inputs(pages)
<1>1. all \in Seq(Sample)
  BY AllIs
<1> HIDE DEF all
<1>2. Len(all) \in Nat /\ DOMAIN all = 1..Len(all) /\ \A k \in 1..Len(all) : all[k].id \in Nat
  BY <1>1, SampleIs
<1>3. inputs = [id \in D |-> SortByTime(Of(id, all))]
  BY <1>2 DEF Inputs, all
<1> HIDE DEF inputs
<1>4. IsFiniteSet(D)
  <2> DEFINE f == [k \in 1..Len(all) |-> all[k].id]
  <2>1. IsFiniteSet(1..Len(all))
    <3>1. 1 \in Int /\ Len(all) \in Int
      BY <1>2
    <3> QED
      BY <3>1, FS_Interval
  <2>2. f \in Surjection(1..Len(all), D)
    <3>1. f \in [1..Len(all) -> D]
      OBVIOUS
    <3>2. \A x \in D : \E k \in 1..Len(all) : f[k] = x
      OBVIOUS
    <3> HIDE DEF f, D
    <3> QED
      BY <3>1, <3>2 DEF Surjection
  <2> HIDE DEF f, D
  <2> QED
    BY <2>1, <2>2, FS_Surjection
<1>5. D \subseteq Nat
  BY <1>2
<1>6. DOMAIN inputs = D
  BY <1>3
<1>7. ASSUME NEW id \in D
      PROVE  /\ inputs[id] \in Seq(Sample) /\ Len(inputs[id]) # 0 /\ InTime(inputs[id])
             /\ \A k \in 1..Len(inputs[id]) : inputs[id][k].id = id
             /\ Len(inputs[id]) = Len(Of(id, all))
  <2>1. inputs[id] = SortByTime(Of(id, all))
    BY <1>3
  <2>2. \E k \in 1..Len(all) : all[k].id = id
    OBVIOUS
  <2> HIDE DEF D
  <2>3. Of(id, all) \in Seq(Sample) /\ Len(Of(id, all)) # 0
        /\ \A k \in 1..Len(Of(id, all)) : Of(id, all)[k].id = id
    BY <1>1, <2>2, OfIs
  <2>4. /\ inputs[id] \in Seq(Sample) /\ Len(inputs[id]) = Len(Of(id, all)) /\ InTime(inputs[id])
        /\ \A k \in 1..Len(Of(id, all)) : \E j \in 1..Len(Of(id, all)) : inputs[id][k] = Of(id, all)[j]
    BY <2>1, <2>3, SortByTimeIs
  <2> QED
    BY <2>3, <2>4
<1>8. InputsOK(inputs)
  BY <1>3, <1>4, <1>5, <1>6, <1>7 DEF InputsOK
<1> QED
  BY <1>6, <1>7, <1>8 DEF inputs, all


(***************************************************************************)
(* The plan of the time frames: each metric points to its own timestamps.  *)
(***************************************************************************)
PlanOf(D) == [times : Seq(Seq(Int)), at : [D -> [frame : Nat, offset : Nat]]]

\* The frame of metric id holds the timestamps t at the offset of the metric.
Spot(plan, id, t) ==
    /\ plan.at[id].frame \in 1..Len(plan.times)
    /\ plan.at[id].offset + Len(t) <= Len(plan.times[plan.at[id].frame])
    /\ SubSeq(plan.times[plan.at[id].frame],
              plan.at[id].offset + 1, plan.at[id].offset + Len(t)) = t

LEMMA SliceOffsetIs ==
    ASSUME NEW h \in Seq(Int), NEW t \in Seq(Int), SliceOffset(h, t) # NoSlice
    PROVE  /\ SliceOffset(h, t) \in Nat /\ SliceOffset(h, t) + Len(t) <= Len(h)
           /\ SubSeq(h, SliceOffset(h, t) + 1, SliceOffset(h, t) + Len(t)) = t
<1> DEFINE starts == {o \in 0..(Len(h) - Len(t)) : SubSeq(h, o + 1, o + Len(t)) = t}
<1>1. Len(h) \in Nat /\ Len(t) \in Nat
  OBVIOUS
<1>2. SliceOffset(h, t) = IF starts = {} THEN NoSlice
                          ELSE CHOOSE o \in starts : \A p \in starts : o <= p
  BY DEF SliceOffset
<1>3. starts \subseteq Nat
  OBVIOUS
<1>4. \A o \in starts : o \in Nat /\ o + Len(t) <= Len(h) /\ SubSeq(h, o + 1, o + Len(t)) = t
  BY <1>1
<1> HIDE DEF starts
<1>5. starts # {}
  BY <1>2
<1>6. \E o \in starts : \A p \in starts : o <= p
  BY <1>3, <1>5, Smallest
<1>7. SliceOffset(h, t) \in starts
  BY <1>2, <1>5, <1>6
<1> QED
  BY <1>4, <1>7

LEMMA PlaceIs ==
    ASSUME NEW D, NEW plan \in PlanOf(D), NEW id \in D, NEW t \in Seq(Int)
    PROVE  /\ Place(plan, id, t) \in PlanOf(D)
           /\ Spot(Place(plan, id, t), id, t)
           /\ \A x \in D \ {id} : \A u \in Seq(Int) :
                  Spot(plan, x, u) => Spot(Place(plan, id, t), x, u)
<1> DEFINE fits == {f \in DOMAIN plan.times : SliceOffset(plan.times[f], t) # NoSlice}
           first == CHOOSE f \in fits : \A g \in fits : f <= g
           after == Place(plan, id, t)
           hit == [frame |-> first, offset |-> SliceOffset(plan.times[first], t)]
           new == [frame |-> Len(plan.times) + 1, offset |-> 0]
           B == Seq(Int)
<1>1. plan.times \in Seq(B) /\ plan.at \in [D -> [frame : Nat, offset : Nat]]
  BY DEF PlanOf
<1>2. after = IF fits # {} THEN [plan EXCEPT !.at[id] = hit]
              ELSE [plan EXCEPT !.times = Append(plan.times, t), !.at[id] = new]
  BY DEF Place
<1>3. fits \subseteq Nat /\ \A f \in fits : f \in 1..Len(plan.times) /\ f \in Nat
                         /\ plan.times[f] \in B /\ SliceOffset(plan.times[f], t) # NoSlice
  <2> HIDE DEF B
  <2>1. DOMAIN plan.times = 1..Len(plan.times) /\ \A f \in 1..Len(plan.times) : plan.times[f] \in B /\ f \in Nat
    BY <1>1
  <2> QED
    BY <2>1
<1> HIDE DEF fits
<1>4. \A x \in D : plan.at[x] \in [frame : Nat, offset : Nat]
  BY <1>1
<1>5. plan = [times |-> plan.times, at |-> plan.at]
  BY DEF PlanOf
<1>6. CASE fits # {}
  <2>1. \E f \in fits : \A g \in fits : f <= g
    BY <1>3, <1>6, Smallest
  <2>2. first \in fits
    BY <2>1
  <2> DEFINE o == SliceOffset(plan.times[first], t)
             at == [plan.at EXCEPT ![id] = hit]
  <2> HIDE DEF first
  <2>3. /\ first \in 1..Len(plan.times) /\ first \in Nat /\ plan.times[first] \in B /\ o # NoSlice
    BY <1>3, <2>2
  <2>4. o \in Nat /\ o + Len(t) <= Len(plan.times[first])
        /\ SubSeq(plan.times[first], o + 1, o + Len(t)) = t
    BY <2>3, SliceOffsetIs
  <2>5. hit.frame = first /\ hit.offset = o /\ hit \in [frame : Nat, offset : Nat]
    BY <2>3, <2>4
  <2>6. after = [times |-> plan.times, at |-> at]
    BY <1>2, <1>5, <1>6
  <2> HIDE DEF hit, o, after
  <2>7. at \in [D -> [frame : Nat, offset : Nat]] /\ at[id] = hit /\ \A x \in D \ {id} : at[x] = plan.at[x]
    BY <1>1, <2>5
  <2> HIDE DEF at
  <2>8. after \in PlanOf(D) /\ after.times = plan.times /\ after.at = at
    BY <1>1, <2>6, <2>7 DEF PlanOf
  <2>9. Spot(after, id, t)
    BY <2>3, <2>4, <2>5, <2>7, <2>8 DEF Spot
  <2>10. ASSUME NEW x \in D \ {id}, NEW u \in Seq(Int), Spot(plan, x, u) PROVE Spot(after, x, u)
    <3>1. after.at[x] = plan.at[x]
      BY <2>7, <2>8
    <3> QED
      BY <2>8, <2>10, <3>1 DEF Spot
  <2> QED
    BY <2>8, <2>9, <2>10 DEF after
<1>7. CASE fits = {}
  <2> DEFINE at == [plan.at EXCEPT ![id] = new]
             times == Append(plan.times, t)
  <2> HIDE DEF B
  <2>1. Len(plan.times) \in Nat /\ t \in B
    BY <1>1 DEF B
  <2>2. times \in Seq(B) /\ Len(times) = Len(plan.times) + 1 /\ times[Len(plan.times) + 1] = t
        /\ \A f \in 1..Len(plan.times) : times[f] = plan.times[f] /\ f \in 1..(Len(plan.times) + 1)
    BY <1>1, <2>1
  <2>3. new \in [frame : Nat, offset : Nat] /\ new.frame = Len(plan.times) + 1 /\ new.offset = 0
    BY <2>1
  <2>4. after = [times |-> times, at |-> at]
    BY <1>2, <1>5, <1>7
  <2> HIDE DEF new, times, after
  <2>5. at \in [D -> [frame : Nat, offset : Nat]] /\ at[id] = new /\ \A x \in D \ {id} : at[x] = plan.at[x]
    BY <1>1, <2>3
  <2> HIDE DEF at
  <2>6. after \in PlanOf(D) /\ after.times = times /\ after.at = at
    <3>1. times \in Seq(Seq(Int))
      BY <2>2 DEF B
    <3> QED
      BY <2>4, <2>5, <3>1 DEF PlanOf
  <2>7. Spot(after, id, t)
    <3>1. SubSeq(t, 0 + 1, 0 + Len(t)) = t /\ 0 + Len(t) <= Len(t)
      OBVIOUS
    <3>2. Len(plan.times) + 1 \in 1..(Len(plan.times) + 1)
      BY <2>1
    <3>3. after.at[id].frame = Len(plan.times) + 1 /\ after.at[id].offset = 0
      BY <2>3, <2>5, <2>6
    <3>4. after.times[after.at[id].frame] = t /\ Len(after.times) = Len(plan.times) + 1
      BY <2>2, <2>6, <3>3
    <3> QED
      BY <3>1, <3>2, <3>3, <3>4 DEF Spot
  <2>8. ASSUME NEW x \in D \ {id}, NEW u \in Seq(Int), Spot(plan, x, u) PROVE Spot(after, x, u)
    <3>1. after.at[x] = plan.at[x]
      BY <2>5, <2>6
    <3>2. plan.at[x].frame \in 1..Len(plan.times)
      BY <2>8 DEF Spot
    <3>3. after.times[plan.at[x].frame] = plan.times[plan.at[x].frame]
          /\ plan.at[x].frame \in 1..Len(after.times)
      BY <2>2, <2>6, <3>2
    <3> QED
      BY <2>8, <3>1, <3>3 DEF Spot
  <2> QED
    BY <2>6, <2>7, <2>8 DEF after
<1> QED
  BY <1>6, <1>7

LEMMA BySizeIs ==
    ASSUME NEW inputs, InputsOK(inputs)
    PROVE  \E R : /\ StrictOrder(DOMAIN inputs, R)
                  /\ Cardinality(DOMAIN inputs) \in Nat
                  /\ Enumerates(BySize(inputs), Cardinality(DOMAIN inputs), DOMAIN inputs, R)
<1> DEFINE ids == DOMAIN inputs
           len(x) == Len(inputs[x])
           R == {p \in ids \X ids :
                    \/ Len(inputs[p[1]]) > Len(inputs[p[2]])
                    \/ Len(inputs[p[1]]) = Len(inputs[p[2]]) /\ p[1] < p[2]}
<1>1. \A x \in ids : x \in Nat /\ len(x) \in Nat
  BY DEF InputsOK
<1>2. BySize(inputs) = Sorted(ids, R)
  BY DEF BySize
<1>3. \A x, y \in ids : <<x, y>> \in R <=> (len(x) > len(y) \/ (len(x) = len(y) /\ x < y))
  <2> SUFFICES ASSUME NEW x \in ids, NEW y \in ids
               PROVE  <<x, y>> \in R <=> (len(x) > len(y) \/ (len(x) = len(y) /\ x < y))
    OBVIOUS
  <2>1. <<x, y>> \in ids \X ids /\ <<x, y>>[1] = x /\ <<x, y>>[2] = y
    OBVIOUS
  <2> QED
    BY <2>1
<1> HIDE DEF len, R
<1>4. StrictOrder(ids, R)
  <2>1. \A x, y \in ids : <<x, y>> \in R => <<y, x>> \notin R
    BY <1>1, <1>3
  <2>2. \A x, y, z \in ids : <<x, y>> \in R /\ <<y, z>> \in R => <<x, z>> \in R
    BY <1>1, <1>3
  <2>3. ASSUME NEW x \in ids, NEW y \in ids PROVE x = y \/ <<x, y>> \in R \/ <<y, x>> \in R
    <3>1. \A a, b, c, d \in Nat : a = b \/ c > d \/ (c = d /\ a < b) \/ d > c \/ (d = c /\ b < a)
      OBVIOUS
    <3>2. x = y \/ len(x) > len(y) \/ (len(x) = len(y) /\ x < y) \/ len(y) > len(x) \/ (len(y) = len(x) /\ y < x)
      BY <1>1, <3>1
    <3> QED
      BY <1>3, <3>2
  <2> QED
    BY <2>1, <2>2, <2>3 DEF StrictOrder
<1>5. IsFiniteSet(ids)
  BY DEF InputsOK
<1>6. Cardinality(ids) \in Nat /\ Enumerates(Sorted(ids, R), Cardinality(ids), ids, R)
  BY <1>4, <1>5, SortedIs
<1> QED
  BY <1>2, <1>4, <1>6

LEMMA TimesOfIs ==
    ASSUME NEW s \in Seq(Sample)
    PROVE  TimesOf(s) \in Seq(Int) /\ Len(TimesOf(s)) = Len(s)
           /\ \A k \in 1..Len(s) : TimesOf(s)[k] = s[k].ts
<1>1. Len(s) \in Nat /\ DOMAIN s = 1..Len(s) /\ \A k \in 1..Len(s) : s[k].ts \in Int
  BY SampleIs
<1>2. TimesOf(s) = [k \in 1..Len(s) |-> s[k].ts]
  BY <1>1 DEF TimesOf
<1> QED
  BY <1>1, <1>2

LEMMA PlanIs ==
    ASSUME NEW inputs, InputsOK(inputs)
    PROVE  /\ Plan(inputs) \in PlanOf(DOMAIN inputs)
           /\ \A id \in DOMAIN inputs : Spot(Plan(inputs), id, TimesOf(inputs[id]))
<1> DEFINE D == DOMAIN inputs
           ids == BySize(inputs)
           N == Cardinality(D)
           times(id) == TimesOf(inputs[id])
           init == [times |-> <<>>, at |-> [id \in D |-> [frame |-> 0, offset |-> 0]]]
           S == PlanOf(D)
           step == [k \in 1..N |-> [p \in S |-> Place(p, ids[k], times(ids[k]))]]
           Def(t) == [n \in 0..N |-> IF n = 0 THEN init ELSE Place(t[n - 1], ids[n], times(ids[n]))]
           plan == CHOOSE t : t = Def(t)
<1>1. PICK R : StrictOrder(D, R) /\ N \in Nat /\ Enumerates(ids, N, D, R)
  BY BySizeIs
<1>2. Len(ids) = N
  BY <1>1 DEF Enumerates
<1>3. Plan(inputs) = plan[N]
  BY <1>2, Zenon DEF Plan
<1> HIDE DEF ids, times
<1>4. ids \in [1..N -> D] /\ \A x \in D : times(x) \in Seq(Int)
  BY <1>1, TimesOfIs DEF Enumerates, InputsOK, times
<1>5. init \in S
  <2>1. <<>> \in Seq(Seq(Int)) /\ [id \in D |-> [frame |-> 0, offset |-> 0]] \in [D -> [frame : Nat, offset : Nat]]
    OBVIOUS
  <2> QED
    BY <2>1 DEF PlanOf
<1>6. ASSUME NEW k \in 1..N, NEW p \in S
      PROVE  /\ Place(p, ids[k], times(ids[k])) \in S
             /\ Spot(Place(p, ids[k], times(ids[k])), ids[k], times(ids[k]))
             /\ \A x \in D \ {ids[k]} : Spot(p, x, times(x)) => Spot(Place(p, ids[k], times(ids[k])), x, times(x))
  <2>1. ids[k] \in D /\ times(ids[k]) \in Seq(Int)
    BY <1>4
  <2> HIDE DEF D
  <2> QED
    BY <1>4, <2>1, PlaceIs
<1>7. step \in [1..N -> [S -> S]] /\ \A k \in 1..N : \A p \in S : step[k][p] = Place(p, ids[k], times(ids[k]))
  BY <1>6
<1> HIDE DEF init, S, D, step
<1>8. PICK t : Recursive(t, N, S, init, step)
  BY <1>1, <1>5, <1>7, Recursion
<1>9. t = Def(t)
  <2>1. t = [n \in 0..N |-> t[n]] /\ \A n \in 0..N : t[n] \in S
    BY <1>8 DEF Recursive
  <2>2. \A n \in 0..N : n = 0 \/ (n \in 1..N /\ n - 1 \in 0..N)
    BY <1>1
  <2>3. \A n \in 0..N : t[n] = IF n = 0 THEN init ELSE Place(t[n - 1], ids[n], times(ids[n]))
    BY <1>7, <1>8, <2>1, <2>2 DEF Recursive
  <2> QED
    BY <2>1, <2>3
<1>10. plan = Def(plan)
  BY <1>9
<1> HIDE DEF plan
<1>11. plan[0] = init /\ \A n \in 1..N : plan[n] = Place(plan[n - 1], ids[n], times(ids[n]))
  BY <1>1, <1>10
<1> DEFINE T == {n \in 0..N : plan[n] \in S /\ \A i \in 1..n : Spot(plan[n], ids[i], times(ids[i]))}
<1>12. 0 \in T
  BY <1>1, <1>5, <1>11
<1>13. ASSUME NEW n \in T, n \in 0..N, n < N PROVE n + 1 \in T
  <2>1. n + 1 \in 1..N /\ (n + 1) - 1 = n /\ n + 1 \in 0..N
    BY <1>1, <1>13
  <2>2. plan[n] \in S /\ \A i \in 1..n : Spot(plan[n], ids[i], times(ids[i]))
    BY <1>13
  <2>3. plan[n + 1] = Place(plan[n], ids[n + 1], times(ids[n + 1]))
    BY <1>11, <2>1
  <2>4. /\ plan[n + 1] \in S /\ Spot(plan[n + 1], ids[n + 1], times(ids[n + 1]))
        /\ \A x \in D \ {ids[n + 1]} : Spot(plan[n], x, times(x)) => Spot(plan[n + 1], x, times(x))
    BY <1>6, <2>1, <2>2, <2>3
  <2>5. ASSUME NEW i \in 1..(n + 1) PROVE Spot(plan[n + 1], ids[i], times(ids[i]))
    <3>1. CASE i = n + 1
      BY <2>4, <3>1
    <3>2. CASE i # n + 1
      <4>1. i \in 1..n /\ i \in 1..N /\ i < n + 1
        BY <1>1, <1>13, <3>2
      <4>2. <<ids[i], ids[n + 1]>> \in R /\ ids[i] \in D /\ ids[n + 1] \in D
        BY <1>1, <1>4, <2>1, <4>1 DEF Enumerates
      <4>3. ids[i] # ids[n + 1]
        BY <1>1, <4>2 DEF StrictOrder
      <4> QED
        BY <2>2, <2>4, <4>1, <4>2, <4>3
    <3> QED
      BY <3>1, <3>2
  <2> QED
    BY <2>1, <2>4, <2>5
<1>14. N \in T
  <2> HIDE DEF T
  <2>1. \A k \in 0..N : k \in T
    BY <1>1, <1>12, <1>13, Induct
  <2> QED
    BY <1>1, <2>1
<1>15. plan[N] \in S /\ \A i \in 1..N : Spot(plan[N], ids[i], times(ids[i]))
  BY <1>14
<1>16. \A x \in D : Spot(plan[N], x, times(x))
  BY <1>1, <1>15 DEF Enumerates
<1> QED
  BY <1>3, <1>15, <1>16 DEF S, D, times


(***************************************************************************)
(* What a build writes: each metric with all its samples, in their order.  *)
(***************************************************************************)
Ids(pages) == Sorted(DOMAIN Inputs(pages), Less(DOMAIN Inputs(pages)))

\* Metric m holds the samples s, in file f.
Keeps(f, m, s) ==
    /\ m.start = s[1].ts /\ m.end = s[Len(s)].ts /\ Len(m.values) = Len(s)
    /\ f.version = 1 => SamplesOf(m, m.times) = s
    /\ f.version = 2 =>
           /\ m.frame \in 1..Len(f.times) /\ m.offset \in Nat /\ Len(f.times[m.frame]) \in Nat
           /\ m.offset + Len(s) <= Len(f.times[m.frame])
           /\ SamplesOf(m, SubSeq(f.times[m.frame], m.offset + 1, m.offset + Len(s))) = s

Faithful(f, pages) ==
    LET n == Cardinality(DOMAIN Inputs(pages)) IN
    /\ f.metrics = [k \in 1..n |-> f.metrics[k]]
    /\ Len(f.times) \in Nat /\ DOMAIN f.times = 1..Len(f.times)
    /\ \A k \in 1..n : /\ f.metrics[k].id = Ids(pages)[k]
                       /\ Keeps(f, f.metrics[k], Inputs(pages)[Ids(pages)[k]])

LEMMA IdsAre ==
    ASSUME NEW pages \in Seq(Page)
    PROVE  /\ InputsOK(Inputs(pages)) /\ Cardinality(DOMAIN Inputs(pages)) \in Nat
           /\ Climbing(Ids(pages), Cardinality(DOMAIN Inputs(pages)), DOMAIN Inputs(pages))
<1> DEFINE D == DOMAIN Inputs(pages)
<1>1. InputsOK(Inputs(pages))
  BY InputsAre
<1>2. IsFiniteSet(D) /\ D \subseteq Int
  BY <1>1 DEF InputsOK
<1> HIDE DEF D
<1>3. Cardinality(D) \in Nat /\ Climbing(Sorted(D, Less(D)), Cardinality(D), D)
  BY <1>2, SortedClimbs
<1> QED
  BY <1>1, <1>3 DEF D, Ids

LEMMA SamplesOfIs ==
    ASSUME NEW s \in Seq(Sample), NEW m, \A k \in 1..Len(s) : s[k].id = m.id,
           m.values = ValuesOf(s)
    PROVE  Len(m.values) = Len(s) /\ SamplesOf(m, TimesOf(s)) = s
<1>1. Len(s) \in Nat /\ DOMAIN s = 1..Len(s) /\ s = [k \in 1..Len(s) |-> s[k]]
  BY SampleIs
<1>2. \A k \in 1..Len(s) : s[k] = [id |-> s[k].id, ts |-> s[k].ts, v |-> s[k].v]
  <2>1. \A k \in 1..Len(s) : s[k] \in Sample
    BY SampleIs
  <2>2. \A x \in Sample : x = [id |-> x.id, ts |-> x.ts, v |-> x.v]
    BY DEF Sample
  <2> QED
    BY <2>1, <2>2
<1>3. ValuesOf(s) = [k \in 1..Len(s) |-> s[k].v]
  BY <1>1 DEF ValuesOf
<1>4. DOMAIN m.values = 1..Len(s) /\ Len(m.values) = Len(s) /\ \A k \in 1..Len(s) : m.values[k] = s[k].v
  BY <1>1, <1>3
<1>5. \A k \in 1..Len(s) : TimesOf(s)[k] = s[k].ts
  BY TimesOfIs
<1>6. SamplesOf(m, TimesOf(s)) = [k \in 1..Len(s) |-> [id |-> m.id, ts |-> TimesOf(s)[k], v |-> m.values[k]]]
  BY <1>4, Zenon DEF SamplesOf
<1>7. \A k \in 1..Len(s) : [id |-> m.id, ts |-> TimesOf(s)[k], v |-> m.values[k]] = s[k]
  BY <1>2, <1>4, <1>5
<1> QED
  BY <1>1, <1>4, <1>6, <1>7

LEMMA LaidOut ==
    ASSUME NEW pages \in Seq(Page), NEW version \in {1, 2}, NEW size, NEW mtime
    PROVE  Faithful(Written(version, pages, size, mtime), pages)
<1> DEFINE inputs == Inputs(pages)
           ids == Ids(pages)
           n == Cardinality(DOMAIN inputs)
           f == Written(version, pages, size, mtime)
           layout == Layout(version, pages)
<1>1. InputsOK(inputs) /\ n \in Nat /\ Climbing(ids, n, DOMAIN inputs)
  BY IdsAre
<1>2. f.version = version /\ f.times = layout.times /\ f.metrics = layout.metrics
  BY DEF Written
<1>3. ids \in [1..n -> DOMAIN inputs] /\ DOMAIN ids = 1..n
  BY <1>1 DEF Climbing
<1>4. \A k \in 1..n : /\ inputs[ids[k]] \in Seq(Sample) /\ Len(inputs[ids[k]]) # 0
                      /\ \A i \in 1..Len(inputs[ids[k]]) : inputs[ids[k]][i].id = ids[k]
  BY <1>1, <1>3 DEF InputsOK
<1>5. CASE version = 1
  <2> DEFINE m(k) == MetricFrame(ids[k], inputs[ids[k]], [frame |-> 0, offset |-> 0], TimesOf(inputs[ids[k]]))
  <2>1. layout = [times |-> <<>>, metrics |-> [k \in DOMAIN ids |-> m(k)]]
    BY <1>5 DEF Layout, LayoutV1, Ids
  <2>2. f.times = <<>> /\ f.metrics = [k \in 1..n |-> m(k)]
    BY <1>2, <1>3, <2>1
  <2>3. ASSUME NEW k \in 1..n
        PROVE  m(k).id = ids[k] /\ Keeps(f, m(k), inputs[ids[k]])
    <3> DEFINE s == inputs[ids[k]]
    <3>1. /\ m(k).id = ids[k] /\ m(k).values = ValuesOf(s) /\ m(k).times = TimesOf(s)
          /\ m(k).start = s[1].ts /\ m(k).end = s[Len(s)].ts
      BY DEF MetricFrame, Last
    <3>2. s \in Seq(Sample) /\ \A i \in 1..Len(s) : s[i].id = ids[k]
      BY <1>4
    <3> HIDE DEF s, m, ids, f
    <3>3. \A i \in 1..Len(s) : s[i].id = m(k).id
      BY <3>1, <3>2
    <3>4. Len(m(k).values) = Len(s) /\ SamplesOf(m(k), TimesOf(s)) = s
      BY <3>1, <3>2, <3>3, SamplesOfIs
    <3>5. f.version # 2
      BY <1>2, <1>5
    <3>6. Keeps(f, m(k), s)
      BY <3>1, <3>4, <3>5 DEF Keeps
    <3> QED
      BY <3>1, <3>6 DEF s
  <2> HIDE DEF m, f
  <2>4. \A k \in 1..n : f.metrics[k] = m(k)
    BY <2>2
  <2>5. f.metrics = [k \in 1..n |-> f.metrics[k]]
    BY <2>2
  <2>6. Len(f.times) \in Nat /\ DOMAIN f.times = 1..Len(f.times)
    BY <2>2
  <2>7. \A k \in 1..n : f.metrics[k].id = ids[k] /\ Keeps(f, f.metrics[k], inputs[ids[k]])
    BY <2>3, <2>4
  <2> QED
    BY <2>5, <2>6, <2>7 DEF Faithful, f
<1>6. CASE version = 2
  <2> DEFINE plan == Plan(inputs)
             m(k) == MetricFrame(ids[k], inputs[ids[k]], plan.at[ids[k]], <<>>)
  <2>1. layout = [times |-> plan.times, metrics |-> [k \in DOMAIN ids |-> m(k)]]
    BY <1>6 DEF Layout, LayoutV2, Ids
  <2>2. f.times = plan.times /\ f.metrics = [k \in 1..n |-> m(k)]
    BY <1>2, <1>3, <2>1
  <2>3. plan \in PlanOf(DOMAIN inputs) /\ \A id \in DOMAIN inputs : Spot(plan, id, TimesOf(inputs[id]))
    BY <1>1, PlanIs
  <2> HIDE DEF plan
  <2>4. ASSUME NEW k \in 1..n
        PROVE  m(k).id = ids[k] /\ Keeps(f, m(k), inputs[ids[k]])
    <3> DEFINE s == inputs[ids[k]]
    <3>1. /\ m(k).id = ids[k] /\ m(k).values = ValuesOf(s)
          /\ m(k).frame = plan.at[ids[k]].frame /\ m(k).offset = plan.at[ids[k]].offset
          /\ m(k).start = s[1].ts /\ m(k).end = s[Len(s)].ts
      BY DEF MetricFrame, Last
    <3>2. s \in Seq(Sample) /\ \A i \in 1..Len(s) : s[i].id = ids[k]
      BY <1>4
    <3>3. Spot(plan, ids[k], TimesOf(s))
      BY <1>3, <2>3
    <3> HIDE DEF s, m, ids, f
    <3>4. Len(TimesOf(s)) = Len(s)
      BY <3>2, TimesOfIs
    <3>5. \A i \in 1..Len(s) : s[i].id = m(k).id
      BY <3>1, <3>2
    <3>6. Len(m(k).values) = Len(s) /\ SamplesOf(m(k), TimesOf(s)) = s
      BY <3>1, <3>2, <3>5, SamplesOfIs
    <3>7. f.version # 1 /\ f.times = plan.times
      BY <1>2, <1>6, <2>2
    <3>8. /\ m(k).frame \in 1..Len(f.times)
          /\ m(k).offset + Len(s) <= Len(f.times[m(k).frame])
          /\ SubSeq(f.times[m(k).frame], m(k).offset + 1, m(k).offset + Len(s)) = TimesOf(s)
      BY <3>1, <3>3, <3>4, <3>7 DEF Spot
    <3>9. m(k).offset \in Nat /\ Len(f.times[m(k).frame]) \in Nat
      <4>1. plan.at \in [DOMAIN inputs -> [frame : Nat, offset : Nat]] /\ ids[k] \in DOMAIN inputs
        BY <1>3, <2>3 DEF PlanOf
      <4>2. f.times \in Seq(Seq(Int))
        BY <2>3, <3>7 DEF PlanOf
      <4>3. plan.at[ids[k]].offset \in Nat
        BY <4>1
      <4>4. \A b \in 1..Len(f.times) : Len(f.times[b]) \in Nat
        BY <4>2
      <4> QED
        BY <3>1, <3>8, <4>3, <4>4
    <3>10. Keeps(f, m(k), s)
      BY <3>1, <3>6, <3>7, <3>8, <3>9 DEF Keeps
    <3> QED
      BY <3>1, <3>10 DEF s
  <2> HIDE DEF m, f
  <2>5. \A k \in 1..n : f.metrics[k] = m(k)
    BY <2>2
  <2>6. f.metrics = [k \in 1..n |-> f.metrics[k]]
    BY <2>2
  <2>7. Len(f.times) \in Nat /\ DOMAIN f.times = 1..Len(f.times)
    <3>1. plan.times \in Seq(Seq(Int))
      BY <2>3 DEF PlanOf
    <3> QED
      BY <2>2, <3>1
  <2>8. \A k \in 1..n : f.metrics[k].id = ids[k] /\ Keeps(f, f.metrics[k], inputs[ids[k]])
    BY <2>4, <2>5
  <2> QED
    BY <2>6, <2>7, <2>8 DEF Faithful, f
<1> QED
  BY <1>5, <1>6

(***************************************************************************)
(* What a query reads of a metric.                                         *)
(***************************************************************************)
LEMMA StridedIs ==
    ASSUME NEW s \in Seq(Sample), NEW rq \in Request
    PROVE  /\ Strided(s, rq) \in Seq(Sample)
           /\ (\A k \in 1..Len(s) : ~Wanted(rq, s[k].ts)) => Strided(s, rq) = <<>>
<1> DEFINE wanted == {k \in DOMAIN s : Wanted(rq, s[k].ts)}
           K == {k \in wanted : (rq.seen + Cardinality({j \in wanted : j < k /\ s[j].id = s[k].id})) % rq.stride = 0}
<1>1. Strided(s, rq) = Picked(s, K)
  BY DEF Strided
<1>2. DOMAIN s = 1..Len(s)
  BY SampleIs
<1>3. wanted \subseteq 1..Len(s) /\ K \subseteq wanted
  BY <1>2
<1>4. (\A k \in 1..Len(s) : ~Wanted(rq, s[k].ts)) => K = {}
  BY <1>2
<1> HIDE DEF K
<1>5. K \subseteq 1..Len(s)
  BY <1>3
<1>6. Picked(s, K) \in Seq(Sample)
  BY <1>5, PickedIs
<1> QED
  BY <1>1, <1>4, <1>6, PickedNone

\* What a query returns of each metric of a partition.
Part(pages, rq, id) == IF id \in rq.ids THEN Strided(Inputs(pages)[id], rq) ELSE <<>>
Parts(pages, rq) == [k \in 1..Cardinality(DOMAIN Inputs(pages)) |-> Part(pages, rq, Ids(pages)[k])]

LEMMA PartsAre ==
    ASSUME NEW pages \in Seq(Page), NEW rq \in Request
    PROVE  /\ Parts(pages, rq) \in Seq(Seq(Sample))
           /\ Len(Parts(pages, rq)) = Cardinality(DOMAIN Inputs(pages))
           /\ Contents(pages, rq) = FlattenSeq(Parts(pages, rq))
<1> DEFINE n == Cardinality(DOMAIN Inputs(pages))
           B == Seq(Sample)
<1>1. /\ InputsOK(Inputs(pages)) /\ n \in Nat /\ Climbing(Ids(pages), n, DOMAIN Inputs(pages))
  BY IdsAre
<1>2. \A k \in 1..n : Ids(pages)[k] \in DOMAIN Inputs(pages)
  BY <1>1 DEF Climbing
<1>3. DOMAIN Ids(pages) = 1..n
  BY <1>1 DEF Climbing
<1>4. \A k \in 1..n : Part(pages, rq, Ids(pages)[k]) \in B
  <2> SUFFICES ASSUME NEW k \in 1..n PROVE Part(pages, rq, Ids(pages)[k]) \in Seq(Sample)
    OBVIOUS
  <2>1. Inputs(pages)[Ids(pages)[k]] \in Seq(Sample)
    BY <1>1, <1>2 DEF InputsOK
  <2>2. Strided(Inputs(pages)[Ids(pages)[k]], rq) \in Seq(Sample)
    BY <2>1, StridedIs
  <2>3. <<>> \in Seq(Sample)
    OBVIOUS
  <2> QED
    BY <2>2, <2>3 DEF Part
<1> HIDE DEF B
<1>5. Parts(pages, rq) \in Seq(B) /\ Len(Parts(pages, rq)) = n
  BY <1>1, <1>4 DEF Parts
<1>6. Contents(pages, rq) = FlattenSeq([k \in DOMAIN Ids(pages) |-> Part(pages, rq, Ids(pages)[k])])
  BY Zenon DEF Contents, Ids, Part
<1> QED
  BY <1>3, <1>5, <1>6 DEF Parts, B

\* A metric that does not meet the range, or is not asked for, has no part.
LEMMA AskedParts ==
    ASSUME NEW pages \in Seq(Page), NEW rq \in Request, NEW f, Faithful(f, pages),
           NEW k \in 1..Cardinality(DOMAIN Inputs(pages))
    PROVE  IF Asked(rq, f.metrics[k])
             THEN Parts(pages, rq)[k] = Strided(Inputs(pages)[Ids(pages)[k]], rq)
             ELSE Parts(pages, rq)[k] = <<>>
<1> DEFINE id == Ids(pages)[k]
           s == Inputs(pages)[id]
           m == f.metrics[k]
<1>1. InputsOK(Inputs(pages)) /\ Climbing(Ids(pages), Cardinality(DOMAIN Inputs(pages)), DOMAIN Inputs(pages))
  BY IdsAre
<1>2. id \in DOMAIN Inputs(pages)
  BY <1>1 DEF Climbing
<1>3. s \in Seq(Sample) /\ Len(s) # 0 /\ InTime(s)
  BY <1>1, <1>2 DEF InputsOK
<1>4. m.id = id /\ m.start = s[1].ts /\ m.end = s[Len(s)].ts
  BY DEF Faithful, Keeps
<1>5. Parts(pages, rq)[k] = IF id \in rq.ids THEN Strided(s, rq) ELSE <<>>
  BY DEF Parts, Part
<1> HIDE DEF s, id, m
<1>6. Asked(rq, m) => m.id \in rq.ids
  BY DEF Asked
<1>7. ASSUME ~Asked(rq, m), id \in rq.ids PROVE Strided(s, rq) = <<>>
  <2>1. m.end < rq.from \/ m.start > rq.to
    BY <1>4, <1>7 DEF Asked
  <2>2. ASSUME NEW i \in 1..Len(s) PROVE ~Wanted(rq, s[i].ts)
    <3>1. /\ Len(s) \in Nat /\ 1 \in 1..Len(s) /\ Len(s) \in 1..Len(s)
          /\ s[1].ts \in Int /\ s[Len(s)].ts \in Int /\ s[i].ts \in Int
      BY <1>3, SampleIs
    <3>2. s[1].ts <= s[i].ts /\ s[i].ts <= s[Len(s)].ts
      <4>1. 1 = i \/ 1 < i
        BY <3>1
      <4>2. i = Len(s) \/ i < Len(s)
        BY <3>1
      <4>3. 1 < i => s[1].ts <= s[i].ts
        BY <1>3, <3>1 DEF InTime
      <4>4. i < Len(s) => s[i].ts <= s[Len(s)].ts
        BY <1>3, <3>1 DEF InTime
      <4> QED
        BY <3>1, <4>1, <4>2, <4>3, <4>4
    <3>3. rq.from \in Int /\ rq.to \in Int
      BY DEF Request
    <3>4. \A a, b, c, from, to \in Int :
              a <= b /\ b <= c /\ (c < from \/ a > to) => ~(from <= b /\ b <= to)
      OBVIOUS
    <3> QED
      BY <1>4, <2>1, <3>1, <3>2, <3>3, <3>4 DEF Wanted
  <2> QED
    BY <1>3, <2>2, StridedIs
<1>8. CASE Asked(rq, m)
  BY <1>4, <1>5, <1>6, <1>8 DEF s, id, m
<1>9. CASE ~Asked(rq, m)
  BY <1>5, <1>7, <1>9 DEF m
<1> QED
  BY <1>8, <1>9 DEF m


\* The entries a query has to read, by their places: together the metrics that have a part.
ReadsAt(entries, rq, pages, m, e) ==
    /\ e \in [1..m -> 1..Cardinality(DOMAIN Inputs(pages))]
    /\ ToRead(entries, rq) = [k \in 1..m |-> entries[e[k]]]
    /\ \A k \in 1..m : Parts(pages, rq)[e[k]] = Strided(Inputs(pages)[Ids(pages)[e[k]]], rq)
    /\ Contents(pages, rq) = FlattenSeq([k \in 1..m |-> Parts(pages, rq)[e[k]]])

LEMMA ToReadIs ==
    ASSUME NEW pages \in Seq(Page), NEW rq \in Request, NEW f, Faithful(f, pages),
           NEW S, NEW entries \in Seq(S), Len(entries) = Cardinality(DOMAIN Inputs(pages)),
           \A k \in 1..Len(entries) : Asked(rq, entries[k]) <=> Asked(rq, f.metrics[k])
    PROVE  \E m \in Nat : \E e : ReadsAt(entries, rq, pages, m, e)
<1> DEFINE n == Cardinality(DOMAIN Inputs(pages))
           K == {k \in DOMAIN entries : Asked(rq, entries[k])}
<1>1. n \in Nat
  BY IdsAre
<1>2. Len(entries) = n /\ DOMAIN entries = 1..n
  OBVIOUS
<1>3. ToRead(entries, rq) = Picked(entries, K)
  BY DEF ToRead
<1>4. K \subseteq 1..n /\ \A k \in 1..n : k \in K <=> Asked(rq, f.metrics[k])
  BY <1>2
<1> HIDE DEF K, n
<1>5a. PICK m \in Nat : \E e : Picks(entries, K, m, e)
  <2>1. K \subseteq 1..Len(entries)
    BY <1>2, <1>4
  <2> QED
    BY <2>1, PickedIs
<1>5. PICK e : Picks(entries, K, m, e)
  BY <1>5a
<1>6. e \in [1..m -> 1..n] /\ Rising(e) /\ (\A k \in 1..m : e[k] \in K) /\ \A x \in K : \E i \in 1..m : e[i] = x
  BY <1>4, <1>5 DEF Climbing, Picks
<1>7. Parts(pages, rq) \in Seq(Seq(Sample)) /\ Len(Parts(pages, rq)) = n
      /\ Contents(pages, rq) = FlattenSeq(Parts(pages, rq))
  BY PartsAre DEF n
<1>8. \A k \in 1..n : IF k \in K THEN Parts(pages, rq)[k] = Strided(Inputs(pages)[Ids(pages)[k]], rq)
                      ELSE Parts(pages, rq)[k] = <<>>
  BY <1>4, AskedParts DEF n
<1>9. \A k \in 1..Len(Parts(pages, rq)) : (\A i \in 1..m : e[i] # k) => Parts(pages, rq)[k] = <<>>
  BY <1>6, <1>7, <1>8
<1>10. FlattenSeq([k \in 1..m |-> Parts(pages, rq)[e[k]]]) = FlattenSeq(Parts(pages, rq))
  BY <1>6, <1>7, <1>9, FlatSkips
<1>11. \A k \in 1..m : Parts(pages, rq)[e[k]] = Strided(Inputs(pages)[Ids(pages)[e[k]]], rq)
  BY <1>6, <1>8
<1>12. e \in [1..m -> 1..n] /\ ToRead(entries, rq) = [k \in 1..m |-> entries[e[k]]]
  BY <1>3, <1>5, <1>6 DEF Picks
<1>13. Contents(pages, rq) = FlattenSeq([k \in 1..m |-> Parts(pages, rq)[e[k]]])
  BY <1>7, <1>10
<1>14. ReadsAt(entries, rq, pages, m, e)
  BY <1>11, <1>12, <1>13 DEF ReadsAt, n
<1> QED
  BY <1>14

(***************************************************************************)
(* The caches hold what was put in them.                                   *)
(***************************************************************************)
LEMMA WithoutIs ==
    ASSUME NEW S, NEW cache \in Seq(S), NEW key
    PROVE  Without(cache, key) \in Seq(S)
<1> DEFINE K == {k \in DOMAIN cache : cache[k].key # key}
<1>1. Without(cache, key) = Picked(cache, K)
  BY DEF Without
<1>2. K \subseteq 1..Len(cache)
  OBVIOUS
<1> HIDE DEF K
<1> QED
  BY <1>1, <1>2, PickedIs

LEMMA EntryIs ==
    ASSUME NEW S, NEW cache \in Seq(S), NEW key, Holds(cache, key)
    PROVE  Entry(cache, key) \in S /\ Entry(cache, key).key = key
<1> DEFINE c == CHOOSE k \in DOMAIN cache : cache[k].key = key
<1>1. c \in DOMAIN cache /\ cache[c].key = key
  BY DEF Holds
<1>2. Entry(cache, key) = cache[c]
  BY DEF Entry
<1> HIDE DEF c
<1>3. cache[c] \in S
  BY <1>1
<1> QED
  BY <1>1, <1>2, <1>3

LEMMA FrontIs ==
    ASSUME NEW S, NEW e \in S, NEW cache \in Seq(S)
    PROVE  <<e>> \o cache \in Seq(S)
<1>1. <<e>> \in Seq(S)
  OBVIOUS
<1> QED
  BY <1>1

LEMMA TouchIs ==
    ASSUME NEW S, NEW cache \in Seq(S), NEW key, Holds(cache, key)
    PROVE  Touch(cache, key) \in Seq(S)
  BY WithoutIs, EntryIs, FrontIs DEF Touch

LEMMA TotalNone == Total(<<>>) = 0
<1> DEFINE Def(f) == [n \in 0..0 |-> IF n = 0 THEN 0 ELSE f[n - 1] + <<>>[n]]
           sum == CHOOSE f : f = Def(f)
<1>1. Total(<<>>) = sum[0]
  <2>1. Len(<<>>) = 0
    OBVIOUS
  <2> QED
    BY <2>1, Zenon DEF Total
<1>2. [n \in 0..0 |-> 0] = Def([n \in 0..0 |-> 0])
  OBVIOUS
<1>3. sum = Def(sum)
  BY <1>2
<1> HIDE DEF sum
<1>4. sum[0] = 0
  BY <1>3
<1> QED
  BY <1>1, <1>4

LEMMA WithinIs ==
    ASSUME NEW S, NEW cache \in Seq(S), NEW slots \in Nat, NEW most \in Nat, NEW costs
    PROVE  Within(cache, slots, most, costs) \in Seq(S)
<1> DEFINE sizes == {n \in 0..Len(cache) : n <= slots /\ Total(SubSeq(costs, 1, n)) <= most}
           top == CHOOSE n \in sizes : \A m \in sizes : m <= n
           gaps == {Len(cache) - n : n \in sizes}
<1>1. Within(cache, slots, most, costs) = SubSeq(cache, 1, top)
  BY DEF Within
<1>2. 0 \in sizes
  <2>1. SubSeq(costs, 1, 0) = <<>>
    OBVIOUS
  <2>2. Total(SubSeq(costs, 1, 0)) = 0
    BY <2>1, TotalNone
  <2> QED
    BY <2>2
<1>3. \A n \in sizes : n \in 0..Len(cache)
  OBVIOUS
<1> HIDE DEF sizes
<1>4. gaps # {} /\ gaps \subseteq Nat
  BY <1>2, <1>3
<1>5. PICK g \in gaps : \A h \in gaps : g <= h
  BY <1>4, Smallest
<1>6. PICK n \in sizes : g = Len(cache) - n
  BY <1>5
<1>7. ASSUME NEW m \in sizes PROVE m <= n
  <2>1. Len(cache) - n <= Len(cache) - m
    BY <1>5, <1>6
  <2>2. Len(cache) \in Nat /\ n \in Nat /\ m \in Nat
    BY <1>3
  <2> QED
    BY <2>1, <2>2
<1>8. top \in sizes
  BY <1>6, <1>7
<1> HIDE DEF top
<1>9. top \in 0..Len(cache)
  BY <1>3, <1>8
<1>10. SubSeq(cache, 1, top) \in Seq(S)
  BY <1>9
<1> QED
  BY <1>1, <1>10

(***************************************************************************)
(* The invariant.  h lists the files built so far, a file for each tick of *)
(* the clock: the path, the queries and the caches know no others.         *)
(***************************************************************************)
Built(h, n, d) ==
    /\ h = [t \in 1..n |-> h[t]]
    /\ \A t \in 1..n :
           /\ h[t].version \in {1, 2} /\ h[t].from \in 0..Len(d)
           /\ h[t] = Written(h[t].version, SubSeq(d, 1, h[t].from), h[t].size, t)

OneOf(f, h, n) == f = NoFile \/ \E t \in 1..n : f = h[t]

IndexEntries(h, n) == {[key |-> CacheKey(h[t]), index |-> IndexOf(h[t])] : t \in 1..n}
FileTimes(f) == {[key |-> <<CacheKey(f), k>>, times |-> f.times[k]] : k \in Nat}
TimeEntries(h, n) == UNION {FileTimes(h[t]) : t \in 1..n}

\* A query of version 2 that reads its entries: it has the index of its file, time frames
\* of its file, and the samples of the entries it is done with.
Reading(q, d) ==
    LET all == ToRead(q.index.metrics, q.rq)
        pages == SubSeq(d, 1, q.fd.from) IN
    /\ q.index = IndexOf(q.fd)
    /\ \A k \in DOMAIN q.local : q.local[k] = q.fd.times[k]
    /\ \E i \in 0..Len(all) :
           /\ q.todo = SubSeq(all, i + 1, Len(all))
           /\ q.out = FlattenSeq(SubSeq([k \in 1..Len(all) |-> Parts(pages, q.rq)[all[k].place]], 1, i))

Fields == DOMAIN Idle

QueryOK(q, h, n, d) ==
    /\ DOMAIN q = Fields /\ q.rq \in Request /\ OneOf(q.fd, h, n)
    /\ q.pc \in {"idle", "version", "open"} => q.fd = NoFile /\ q.local = <<>>
    /\ q.pc = "open" => q.version \in {1, 2}
    /\ q.pc \in {"index", "loadIndex"} => q.fd.version = 2 /\ q.out = <<>> /\ q.local = <<>>
    /\ q.pc \in {"frames", "loadTimes"} => q.fd.version = 2 /\ Reading(q, d)
    /\ q.pc = "loadTimes" => q.todo # <<>>
    /\ q.pc = "done" /\ q.fd # NoFile => q.out = Contents(SubSeq(d, 1, q.fd.from), q.rq)
    /\ q.pc = "failed" => q.fd.version # q.version

Kept(h) ==
    /\ Built(h, builds, data)
    /\ OneOf(file, h, builds)
    /\ indexCache \in Seq(IndexEntries(h, builds))
    /\ timeCache \in Seq(TimeEntries(h, builds))
    /\ DOMAIN rd = Reader
    /\ \A r \in Reader : QueryOK(rd[r], h, builds, data)

MetricInv ==
    /\ setting \in Settings /\ data \in Seq(Page) /\ builds \in Nat
    /\ \E h : Kept(h)


LEMMA FieldsAre ==
    Fields = {"pc", "rq", "version", "fd", "index", "todo", "local", "out", "raw"}
  BY DEF Fields, Idle

LEMMA BuiltIs ==
    ASSUME NEW n \in Nat, NEW d \in Seq(Page), NEW h, Built(h, n, d),
           NEW f, OneOf(f, h, n), f # NoFile
    PROVE  /\ f.version \in {1, 2} /\ f.from \in 0..Len(d)
           /\ SubSeq(d, 1, f.from) \in Seq(Page) /\ Faithful(f, SubSeq(d, 1, f.from))
           /\ \E t \in 1..n : f = h[t]
<1>1. PICK t \in 1..n : f = h[t]
  BY DEF OneOf
<1>2. f.version \in {1, 2} /\ f.from \in 0..Len(d)
      /\ f = Written(f.version, SubSeq(d, 1, f.from), f.size, t)
  BY <1>1 DEF Built
<1>3. SubSeq(d, 1, f.from) \in Seq(Page)
  BY <1>2
<1>4. Faithful(Written(f.version, SubSeq(d, 1, f.from), f.size, t), SubSeq(d, 1, f.from))
  BY <1>2, <1>3, LaidOut
<1> QED
  BY <1>1, <1>2, <1>3, <1>4

LEMMA NotNoFile ==
    ASSUME NEW n \in Nat, NEW d, NEW h, Built(h, n, d), NEW t \in 1..n
    PROVE  h[t] # NoFile /\ h[t].mtime = t
<1>1. h[t].version \in {1, 2} /\ NoFile.version = 0
  BY DEF Built, NoFile
<1>2. h[t].mtime = t
  <2>1. h[t] = Written(h[t].version, SubSeq(d, 1, h[t].from), h[t].size, t)
    BY DEF Built
  <2>2. \A v, p, z : Written(v, p, z, t).mtime = t
    BY DEF Written
  <2> QED
    BY <2>1, <2>2
<1> QED
  BY <1>1, <1>2

\* What the caches hold of a file was read from it.
LEMMA CachedIndex ==
    ASSUME NEW n \in Nat, NEW d, NEW h, Built(h, n, d), NEW t \in 1..n,
           NEW e \in IndexEntries(h, n), e.key = CacheKey(h[t])
    PROVE  e.index = IndexOf(h[t])
<1>1. PICK u \in 1..n : e = [key |-> CacheKey(h[u]), index |-> IndexOf(h[u])]
  BY DEF IndexEntries
<1>2. h[u].mtime = u /\ h[t].mtime = t
  BY NotNoFile
<1>3. h[u].mtime = h[t].mtime
  <2>1. CacheKey(h[u]) = CacheKey(h[t])
    BY <1>1
  <2> QED
    BY <2>1 DEF CacheKey
<1> QED
  BY <1>1, <1>2, <1>3

LEMMA CachedTimes ==
    ASSUME NEW n \in Nat, NEW d, NEW h, Built(h, n, d), NEW t \in 1..n, NEW k \in Nat,
           NEW e \in TimeEntries(h, n), e.key = <<CacheKey(h[t]), k>>
    PROVE  e.times = h[t].times[k]
<1>1. PICK u \in 1..n, l \in Nat : e = [key |-> <<CacheKey(h[u]), l>>, times |-> h[u].times[l]]
  BY DEF TimeEntries, FileTimes
<1>2. h[u].mtime = u /\ h[t].mtime = t
  BY NotNoFile
<1>3. CacheKey(h[u]) = CacheKey(h[t]) /\ l = k
  BY <1>1
<1>4. h[u].mtime = h[t].mtime
  BY <1>3 DEF CacheKey
<1> QED
  BY <1>1, <1>2, <1>3, <1>4

\* Of a file of version 2, the m entries a query has to read, the k-th at the place e[k].
Entries(f, rq, pages, all, m, e) ==
    /\ e \in [1..m -> 1..Cardinality(DOMAIN Inputs(pages))]
    /\ Len(all) = m /\ all = [k \in 1..m |-> all[k]] /\ (\E S : all \in Seq(S))
    /\ \A k \in 1..m : /\ all[k] = MetricEntry(e[k], f.metrics[e[k]])
                       /\ all[k].place = e[k]
                       /\ Parts(pages, rq)[e[k]] = Strided(Inputs(pages)[Ids(pages)[e[k]]], rq)
                       /\ Parts(pages, rq)[e[k]] \in Seq(Sample)
    /\ Contents(pages, rq) = FlattenSeq([k \in 1..m |-> Parts(pages, rq)[all[k].place]])

LEMMA ReadingIs ==
    ASSUME NEW n \in Nat, NEW d \in Seq(Page), NEW h, Built(h, n, d),
           NEW f, OneOf(f, h, n), f.version = 2, NEW rq \in Request
    PROVE  /\ f # NoFile /\ SubSeq(d, 1, f.from) \in Seq(Page) /\ Faithful(f, SubSeq(d, 1, f.from))
           /\ \E m \in Nat : \E e :
                  Entries(f, rq, SubSeq(d, 1, f.from), ToRead(IndexOf(f).metrics, rq), m, e)
<1> DEFINE pages == SubSeq(d, 1, f.from)
           N == Cardinality(DOMAIN Inputs(pages))
           entries == IndexOf(f).metrics
           all == ToRead(entries, rq)
<1>1. f # NoFile
  BY DEF NoFile
<1>2. pages \in Seq(Page) /\ Faithful(f, pages)
  BY <1>1, BuiltIs
<1>3. N \in Nat
  BY <1>2, IdsAre
<1>4. entries = [k \in 1..N |-> MetricEntry(k, f.metrics[k])]
  <2>1. DOMAIN f.metrics = 1..N
    BY <1>2 DEF Faithful
  <2> QED
    BY <2>1 DEF IndexOf
<1>5. \A k \in 1..N : Asked(rq, entries[k]) <=> Asked(rq, f.metrics[k])
  BY <1>4 DEF Asked, MetricEntry
<1>6. \E S : entries \in Seq(S) /\ Len(entries) = N
  <2> DEFINE S == {MetricEntry(k, f.metrics[k]) : k \in 1..N}
             g == [k \in 1..N |-> MetricEntry(k, f.metrics[k])]
  <2>1. \A k \in 1..N : g[k] \in S
    OBVIOUS
  <2>2. entries = [k \in 1..N |-> g[k]]
    BY <1>4
  <2> HIDE DEF S, g, N, entries
  <2>3. [k \in 1..N |-> g[k]] \in Seq(S) /\ Len([k \in 1..N |-> g[k]]) = N
    BY <1>3, <2>1, ListIs
  <2> QED
    BY <2>2, <2>3
<1> HIDE DEF pages, entries
<1>7a. PICK m \in Nat : \E e : ReadsAt(entries, rq, pages, m, e)
  <2>1. PICK S : entries \in Seq(S) /\ Len(entries) = N
    BY <1>6
  <2>2. \A k \in 1..Len(entries) : Asked(rq, entries[k]) <=> Asked(rq, f.metrics[k])
    BY <1>5, <2>1
  <2> QED
    BY <1>2, <2>1, <2>2, ToReadIs
<1>7. PICK e : ReadsAt(entries, rq, pages, m, e)
  BY <1>7a
<1>8. /\ e \in [1..m -> 1..N] /\ all = [k \in 1..m |-> entries[e[k]]]
      /\ \A k \in 1..m : Parts(pages, rq)[e[k]] = Strided(Inputs(pages)[Ids(pages)[e[k]]], rq)
      /\ Contents(pages, rq) = FlattenSeq([k \in 1..m |-> Parts(pages, rq)[e[k]]])
  BY <1>7 DEF ReadsAt
<1> HIDE DEF all, N
<1>9. ASSUME NEW k \in 1..m
      PROVE  all[k] = MetricEntry(e[k], f.metrics[e[k]]) /\ all[k].place = e[k] /\ e[k] \in 1..N
  <2>1. e[k] \in 1..N /\ all[k] = entries[e[k]]
    BY <1>8
  <2> QED
    BY <1>4, <2>1 DEF MetricEntry
<1>10. Len(all) = m /\ all = [k \in 1..m |-> all[k]] /\ \E S : all \in Seq(S)
  <2> DEFINE S == {all[k] : k \in 1..m}
             g == [k \in 1..m |-> entries[e[k]]]
  <2>1. \A k \in 1..m : g[k] \in S
    BY <1>8
  <2> HIDE DEF S, g
  <2>2. [k \in 1..m |-> g[k]] \in Seq(S) /\ Len([k \in 1..m |-> g[k]]) = m
    BY <2>1, ListIs
  <2>3. all = [k \in 1..m |-> g[k]]
    BY <1>8 DEF g
  <2> QED
    BY <2>2, <2>3
<1>11. \A k \in 1..m : Parts(pages, rq)[e[k]] \in Seq(Sample)
  <2>1. Parts(pages, rq) \in Seq(Seq(Sample)) /\ Len(Parts(pages, rq)) = N
    BY <1>2, PartsAre DEF N
  <2> DEFINE B == Seq(Sample)
  <2> HIDE DEF B
  <2>2. Parts(pages, rq) \in Seq(B)
    BY <2>1 DEF B
  <2>3. \A j \in 1..N : Parts(pages, rq)[j] \in B
    BY <2>1, <2>2
  <2> QED
    BY <1>9, <2>3 DEF B
<1>12. [k \in 1..m |-> Parts(pages, rq)[all[k].place]] = [k \in 1..m |-> Parts(pages, rq)[e[k]]]
  BY <1>9
<1>13. Contents(pages, rq) = FlattenSeq([k \in 1..m |-> Parts(pages, rq)[all[k].place]])
  BY <1>8, <1>12
<1>14. Entries(f, rq, pages, all, m, e)
  BY <1>8, <1>9, <1>10, <1>11, <1>13 DEF Entries, N
<1> QED
  BY <1>1, <1>2, <1>14 DEF pages, all, entries


\* The first entry to do, with the timestamps of its frame, gives the samples it stands for.
LEMMA CollectIs ==
    ASSUME NEW n \in Nat, NEW d \in Seq(Page), NEW h, Built(h, n, d),
           NEW q, DOMAIN q = Fields, q.rq \in Request, OneOf(q.fd, h, n), q.fd.version = 2,
           Reading(q, d), q.todo # <<>>
    PROVE  /\ Head(q.todo).frame \in Nat
           /\ TimeHeaderAgrees(q.fd, q.index.times[Head(q.todo).frame])
           /\ QueryOK(Collect(q, q.fd.times[Head(q.todo).frame]), h, n, d)
<1> DEFINE f == q.fd
           rq == q.rq
           pages == SubSeq(d, 1, f.from)
           all == ToRead(IndexOf(f).metrics, rq)
           N == Cardinality(DOMAIN Inputs(pages))
           info == Head(q.todo)
           times == f.times[info.frame]
           c == Collect(q, times)
           part(k) == Parts(pages, rq)[all[k].place]
           g == [k \in 1..Len(all) |-> part(k)]
<1>1. /\ f # NoFile /\ pages \in Seq(Page) /\ Faithful(f, pages)
      /\ \E m \in Nat : \E e : Entries(f, rq, pages, all, m, e)
  BY ReadingIs
<1>2a. PICK m \in Nat : \E e : Entries(f, rq, pages, all, m, e)
  BY <1>1
<1>2. PICK e : Entries(f, rq, pages, all, m, e)
  BY <1>2a
<1>3. PICK i \in 0..Len(all) : q.todo = SubSeq(all, i + 1, Len(all)) /\ q.out = FlattenSeq(SubSeq(g, 1, i))
  BY Zenon DEF Reading
<1>4. q.index = IndexOf(f) /\ \A k \in DOMAIN q.local : q.local[k] = f.times[k]
  BY DEF Reading
<1> HIDE DEF all, pages
<1>5. Len(all) = m /\ e \in [1..m -> 1..N]
  BY <1>2 DEF Entries
<1>6. PICK S : all \in Seq(S)
  BY <1>2 DEF Entries
<1>7. i < m /\ i + 1 \in 1..m /\ info = all[i + 1] /\ Tail(q.todo) = SubSeq(all, (i + 1) + 1, Len(all))
  <2>1. i # m
    <3>1. i = m => SubSeq(all, i + 1, m) = <<>>
      BY <1>6
    <3> QED
      BY <1>3, <1>5, <3>1
  <2>2. i < m /\ i + 1 \in 1..m /\ i \in Nat
    BY <1>5, <2>1
  <2>3. Head(SubSeq(all, i + 1, m)) = all[i + 1] /\ Tail(SubSeq(all, i + 1, m)) = SubSeq(all, (i + 1) + 1, m)
    BY <1>5, <1>6, <2>2
  <2> QED
    BY <1>3, <1>5, <2>2, <2>3
<1> DEFINE p == e[i + 1]
           s == Inputs(pages)[Ids(pages)[p]]
<1>8. /\ p \in 1..N /\ info = MetricEntry(p, f.metrics[p]) /\ info.place = p
      /\ Parts(pages, rq)[p] = Strided(s, rq)
  BY <1>2, <1>5, <1>7 DEF Entries
<1>9. /\ Keeps(f, f.metrics[p], s) /\ DOMAIN f.metrics = 1..N
      /\ DOMAIN f.times = 1..Len(f.times) /\ Len(f.times) \in Nat
  BY <1>1, <1>8 DEF Faithful
<1> HIDE DEF p, s
<1>10. info.frame = f.metrics[p].frame /\ info.offset = f.metrics[p].offset /\ info.points = Len(f.metrics[p].values)
  BY <1>8 DEF MetricEntry
<1>11. /\ info.frame \in 1..Len(f.times) /\ info.points = Len(s)
       /\ info.offset + info.points <= Len(times)
       /\ SamplesOf(f.metrics[p], SubSeq(times, info.offset + 1, info.offset + info.points)) = s
  BY <1>9, <1>10 DEF Keeps
<1>12. MetricHeaderAgrees(f, info)
  BY <1>8, <1>9 DEF MetricHeaderAgrees
<1>13. TimeHeaderAgrees(f, q.index.times[info.frame])
  <2> HIDE DEF f, info
  <2>1. q.index.times[info.frame] = TimeEntry(info.frame, f.times[info.frame])
    BY <1>4, <1>9, <1>11 DEF IndexOf
  <2>2. TimeEntry(info.frame, f.times[info.frame]).place = info.frame
    BY DEF TimeEntry
  <2> QED
    BY <1>9, <1>11, <2>1, <2>2 DEF TimeHeaderAgrees
<1>14. ~(info.offset + info.points > Len(times))
  <2>1. Len(s) \in Nat
    <3>1. InputsOK(Inputs(pages)) /\ Climbing(Ids(pages), N, DOMAIN Inputs(pages))
      BY <1>1, IdsAre
    <3>2. p \in 1..N
      BY <1>8
    <3>3. s \in Seq(Sample)
      BY <3>1, <3>2 DEF InputsOK, Climbing, s
    <3> QED
      BY <3>3
  <2>2. info.points \in Nat /\ info.offset \in Nat /\ Len(times) \in Nat
    BY <1>9, <1>10, <1>11, <2>1 DEF Keeps
  <2>3. \A a, b, l \in Nat : a + b <= l => ~(a + b > l)
    OBVIOUS
  <2>4. info.offset + info.points <= Len(times)
    BY <1>11
  <2> HIDE DEF info, times
  <2> QED
    BY <2>2, <2>3, <2>4
<1>15. g \in Seq(Seq(Sample)) /\ Len(g) = m /\ g[i + 1] = Strided(s, rq)
  <2> DEFINE B == Seq(Sample)
  <2>1. \A k \in 1..m : g[k] = Parts(pages, rq)[e[k]] /\ Parts(pages, rq)[e[k]] \in B
    BY <1>2, <1>5 DEF Entries
  <2>2. g[i + 1] = Strided(s, rq)
    BY <1>7, <1>8, <2>1 DEF p
  <2> HIDE DEF B
  <2>3. g = [k \in 1..m |-> g[k]]
    BY <1>5
  <2> HIDE DEF g
  <2>4. [k \in 1..m |-> g[k]] \in Seq(B) /\ Len([k \in 1..m |-> g[k]]) = m
    BY <2>1, ListIs
  <2> QED
    BY <2>2, <2>3, <2>4 DEF B
<1> HIDE DEF g
<1>16. FlattenSeq(SubSeq(g, 1, i + 1)) = FlattenSeq(SubSeq(g, 1, i)) \o Strided(s, rq)
  <2>1. i \in Nat /\ i + 1 <= Len(g)
    BY <1>5, <1>7, <1>15
  <2>2. FlattenSeq(SubSeq(g, 1, i + 1)) = FlattenSeq(SubSeq(g, 1, i)) \o g[i + 1]
    BY <1>15, <2>1, FlatPrefix
  <2> QED
    BY <1>15, <2>2
<1> DEFINE out == q.out \o Strided(s, rq)
           local == Learned(q.local, info.frame, times)
<1>17. c = [q EXCEPT !.pc = "frames", !.todo = Tail(q.todo), !.local = local, !.out = out]
  <2>1. q.fd.metrics[info.place] = f.metrics[p]
    BY <1>8
  <2> QED
    BY <1>11, <1>12, <1>14, <2>1 DEF Collect
<1>18. /\ c.pc = "frames" /\ c.todo = Tail(q.todo) /\ c.local = local /\ c.out = out
       /\ c.rq = rq /\ c.fd = f /\ c.index = q.index /\ DOMAIN c = Fields
  <2> HIDE DEF local, out, c
  <2> QED
    BY <1>17, FieldsAre
<1>19. \A k \in DOMAIN c.local : c.local[k] = c.fd.times[k]
  <2>1. \A k \in DOMAIN q.local : q.local[k] = f.times[k]
    BY <1>4
  <2> HIDE DEF f, info, c
  <2>2. \A k \in DOMAIN local : local[k] = f.times[k]
    <3> DEFINE all2 == f.times
               loc == q.local
               fr == info.frame
    <3>1. \A k \in DOMAIN loc : loc[k] = all2[k]
      BY <2>1
    <3>2. local = Learned(loc, fr, all2[fr])
      OBVIOUS
    <3> HIDE DEF all2, loc, fr, local
    <3>3. \A k \in DOMAIN Learned(loc, fr, all2[fr]) : Learned(loc, fr, all2[fr])[k] = all2[k]
      BY <3>1 DEF Learned
    <3> QED
      BY <3>2, <3>3, Zenon DEF all2
  <2> QED
    BY <1>18, <2>2
<1> HIDE DEF c, out, local
<1>20. c.out = FlattenSeq(SubSeq(g, 1, i + 1))
  BY <1>3, <1>16, <1>18 DEF out
<1>21. c.index = IndexOf(c.fd)
  BY <1>4, <1>18
<1>22. ToRead(c.index.metrics, c.rq) = all
  BY <1>18, <1>21 DEF all
<1>23. Reading(c, d)
  <2>1. i + 1 \in 0..Len(all)
    BY <1>5, <1>7
  <2>2. c.todo = SubSeq(all, (i + 1) + 1, Len(all))
    BY <1>7, <1>18
  <2> QED
    BY <1>18, <1>19, <1>20, <1>21, <1>22, <2>1, <2>2 DEF Reading, g, pages
<1>24. QueryOK(c, h, n, d)
  BY <1>18, <1>23 DEF QueryOK
<1> QED
  BY <1>11, <1>13, <1>24 DEF c


\* What a query reads of a file of version 1.
LEMMA StreamV1Is ==
    ASSUME NEW n \in Nat, NEW d \in Seq(Page), NEW h, Built(h, n, d),
           NEW f, OneOf(f, h, n), f.version = 1, NEW rq \in Request
    PROVE  f # NoFile /\ StreamV1(f, rq) = Contents(SubSeq(d, 1, f.from), rq)
<1> DEFINE pages == SubSeq(d, 1, f.from)
           N == Cardinality(DOMAIN Inputs(pages))
           asked == ToRead(f.metrics, rq)
<1>1. f # NoFile
  BY DEF NoFile
<1>2. pages \in Seq(Page) /\ Faithful(f, pages)
  BY <1>1, BuiltIs
<1> HIDE DEF pages
<1>3. N \in Nat
  BY <1>2, IdsAre
<1>4. f.metrics = [k \in 1..N |-> f.metrics[k]]
      /\ \A k \in 1..N : Keeps(f, f.metrics[k], Inputs(pages)[Ids(pages)[k]])
  BY <1>2 DEF Faithful
<1>5. \E S : f.metrics \in Seq(S) /\ Len(f.metrics) = N
  <2> DEFINE g == f.metrics
             S == {g[k] : k \in 1..N}
  <2>1. \A k \in 1..N : g[k] \in S
    OBVIOUS
  <2>2. g = [k \in 1..N |-> g[k]]
    BY <1>4
  <2> HIDE DEF g, S, N
  <2>3. [k \in 1..N |-> g[k]] \in Seq(S) /\ Len([k \in 1..N |-> g[k]]) = N
    BY <1>3, <2>1, ListIs
  <2>4. g \in Seq(S) /\ Len(g) = N
    BY <2>2, <2>3
  <2> QED
    BY <2>4 DEF g
<1>6a. PICK m \in Nat : \E e : ReadsAt(f.metrics, rq, pages, m, e)
  <2>1. PICK S : f.metrics \in Seq(S) /\ Len(f.metrics) = N
    BY <1>5
  <2> QED
    BY <1>2, <2>1, ToReadIs
<1>6. PICK e : ReadsAt(f.metrics, rq, pages, m, e)
  BY <1>6a
<1>7. /\ e \in [1..m -> 1..N] /\ asked = [k \in 1..m |-> f.metrics[e[k]]]
      /\ \A k \in 1..m : Parts(pages, rq)[e[k]] = Strided(Inputs(pages)[Ids(pages)[e[k]]], rq)
      /\ Contents(pages, rq) = FlattenSeq([k \in 1..m |-> Parts(pages, rq)[e[k]]])
  BY <1>6 DEF ReadsAt
<1> HIDE DEF asked, N
<1>8. ASSUME NEW k \in 1..m
      PROVE  Strided(SamplesOf(asked[k], asked[k].times), rq) = Parts(pages, rq)[e[k]]
  <2>1. e[k] \in 1..N /\ asked[k] = f.metrics[e[k]]
    BY <1>7
  <2>2. SamplesOf(asked[k], asked[k].times) = Inputs(pages)[Ids(pages)[e[k]]]
    BY <1>4, <2>1 DEF Keeps
  <2> QED
    BY <1>7, <2>2
<1>9. DOMAIN asked = 1..m
  BY <1>7
<1>10. [k \in DOMAIN asked |-> Strided(SamplesOf(asked[k], asked[k].times), rq)]
       = [k \in 1..m |-> Parts(pages, rq)[e[k]]]
  BY <1>8, <1>9
<1>11. StreamV1(f, rq) = FlattenSeq([k \in DOMAIN asked |-> Strided(SamplesOf(asked[k], asked[k].times), rq)])
  BY Zenon DEF StreamV1, asked
<1> QED
  BY <1>1, <1>7, <1>10, <1>11 DEF pages

(***************************************************************************)
(* The steps of a query.                                                   *)
(***************************************************************************)
LEMMA AskIs ==
    ASSUME NEW h, NEW n, NEW d, NEW rq \in Request
    PROVE  QueryOK([Idle EXCEPT !.pc = "version", !.rq = rq], h, n, d)
  BY DEF QueryOK, Idle, Fields, OneOf

LEMMA VersionIs ==
    ASSUME NEW n \in Nat, NEW d \in Seq(Page), NEW h, Built(h, n, d), NEW f, OneOf(f, h, n),
           NEW q, QueryOK(q, h, n, d), q.pc = "version", NEW raw, NEW out
    PROVE  QueryOK(IF f = NoFile THEN [q EXCEPT !.pc = "done", !.raw = raw, !.out = out]
                   ELSE [q EXCEPT !.pc = "open", !.version = f.version], h, n, d)
<1>1. /\ DOMAIN q = {"pc", "rq", "version", "fd", "index", "todo", "local", "out", "raw"}
      /\ DOMAIN q = Fields /\ q.rq \in Request /\ OneOf(q.fd, h, n) /\ q.fd = NoFile /\ q.local = <<>>
  BY FieldsAre DEF QueryOK
<1>2. CASE f = NoFile
  <2> DEFINE c == [q EXCEPT !.pc = "done", !.raw = raw, !.out = out]
  <2>1. c.pc = "done" /\ c.rq = q.rq /\ c.fd = q.fd /\ DOMAIN c = DOMAIN q
    BY <1>1
  <2> HIDE DEF c
  <2>2. QueryOK(c, h, n, d)
    BY <1>1, <2>1 DEF QueryOK
  <2> QED
    BY <1>2, <2>2 DEF c
<1>3. CASE f # NoFile
  <2> DEFINE c == [q EXCEPT !.pc = "open", !.version = f.version]
  <2>1. c.pc = "open" /\ c.rq = q.rq /\ c.fd = q.fd /\ c.local = q.local /\ c.version = f.version
        /\ DOMAIN c = DOMAIN q
    BY <1>1
  <2>2. f.version \in {1, 2}
    BY <1>3, BuiltIs
  <2> HIDE DEF c
  <2>3. QueryOK(c, h, n, d)
    BY <1>1, <2>1, <2>2 DEF QueryOK
  <2> QED
    BY <1>3, <2>3 DEF c
<1> QED
  BY <1>2, <1>3

LEMMA OpenIs ==
    ASSUME NEW n \in Nat, NEW d \in Seq(Page), NEW h, Built(h, n, d), NEW f, OneOf(f, h, n),
           NEW q, QueryOK(q, h, n, d), q.pc = "open"
    PROVE  QueryOK([q EXCEPT !.fd = f,
                             !.pc = IF ~HeaderDecodes(f, q.version) THEN "failed"
                                    ELSE IF f.version = 1 THEN "done" ELSE "index",
                             !.out = IF HeaderDecodes(f, 1) /\ q.version = 1
                                       THEN StreamV1(f, q.rq) ELSE <<>>], h, n, d)
<1> DEFINE pc == IF ~HeaderDecodes(f, q.version) THEN "failed"
                 ELSE IF f.version = 1 THEN "done" ELSE "index"
           out == IF HeaderDecodes(f, 1) /\ q.version = 1 THEN StreamV1(f, q.rq) ELSE <<>>
           c == [q EXCEPT !.fd = f, !.pc = pc, !.out = out]
<1>1. /\ DOMAIN q = {"pc", "rq", "version", "fd", "index", "todo", "local", "out", "raw"}
      /\ DOMAIN q = Fields /\ q.rq \in Request /\ q.version \in {1, 2} /\ q.local = <<>>
  BY FieldsAre DEF QueryOK
<1>2. /\ c.pc = pc /\ c.rq = q.rq /\ c.fd = f /\ c.out = out /\ c.version = q.version
      /\ c.local = q.local /\ DOMAIN c = DOMAIN q
  <2> HIDE DEF pc, out
  <2> QED
    BY <1>1
<1> HIDE DEF c
<1>3. CASE f.version # q.version
  <2>1. c.pc = "failed"
    BY <1>2, <1>3 DEF HeaderDecodes
  <2> QED
    BY <1>1, <1>2, <1>3, <2>1 DEF QueryOK, c
<1>4. CASE f.version = q.version /\ f.version = 1
  <2>1. c.pc = "done" /\ c.out = StreamV1(f, q.rq)
    BY <1>2, <1>4 DEF HeaderDecodes
  <2>2. StreamV1(f, q.rq) = Contents(SubSeq(d, 1, f.from), q.rq)
    BY <1>1, <1>4, StreamV1Is
  <2> QED
    BY <1>1, <1>2, <1>4, <2>1, <2>2 DEF QueryOK, c
<1>5. CASE f.version = q.version /\ f.version = 2
  <2>1. c.pc = "index" /\ c.out = <<>>
    BY <1>2, <1>5 DEF HeaderDecodes
  <2> QED
    BY <1>1, <1>2, <1>5, <2>1 DEF QueryOK, c
<1> QED
  BY <1>1, <1>3, <1>4, <1>5

\* The pc of a query changes, and what it has read does not.
LEMMA MissIs ==
    ASSUME NEW n \in Nat, NEW d \in Seq(Page), NEW h, NEW q, QueryOK(q, h, n, d)
    PROVE  /\ q.pc = "index" => QueryOK([q EXCEPT !.pc = "loadIndex"], h, n, d)
           /\ q.pc = "frames" /\ q.todo # <<>> => QueryOK([q EXCEPT !.pc = "loadTimes"], h, n, d)
<1>1. /\ DOMAIN q = {"pc", "rq", "version", "fd", "index", "todo", "local", "out", "raw"}
      /\ DOMAIN q = Fields /\ q.rq \in Request /\ OneOf(q.fd, h, n)
  BY FieldsAre DEF QueryOK
<1>2. ASSUME q.pc = "index" PROVE QueryOK([q EXCEPT !.pc = "loadIndex"], h, n, d)
  <2> DEFINE c == [q EXCEPT !.pc = "loadIndex"]
  <2>1. c.pc = "loadIndex" /\ c.rq = q.rq /\ c.fd = q.fd /\ c.out = q.out /\ c.local = q.local
        /\ DOMAIN c = DOMAIN q
    BY <1>1
  <2>2. q.fd.version = 2 /\ q.out = <<>> /\ q.local = <<>>
    BY <1>2 DEF QueryOK
  <2> HIDE DEF c
  <2>3. QueryOK(c, h, n, d)
    BY <1>1, <2>1, <2>2 DEF QueryOK
  <2> QED
    BY <2>3 DEF c
<1>3. ASSUME q.pc = "frames", q.todo # <<>> PROVE QueryOK([q EXCEPT !.pc = "loadTimes"], h, n, d)
  <2> DEFINE c == [q EXCEPT !.pc = "loadTimes"]
  <2>1. c.pc = "loadTimes" /\ c.rq = q.rq /\ c.fd = q.fd /\ c.out = q.out /\ c.local = q.local
        /\ c.index = q.index /\ c.todo = q.todo /\ DOMAIN c = DOMAIN q
    BY <1>1
  <2>2. q.fd.version = 2 /\ Reading(q, d)
    BY <1>3 DEF QueryOK
  <2> HIDE DEF c
  <2>3. Reading(c, d)
    BY <2>1, <2>2, Zenon DEF Reading
  <2>4. QueryOK(c, h, n, d)
    BY <1>1, <1>3, <2>1, <2>2, <2>3 DEF QueryOK
  <2> QED
    BY <2>4 DEF c
<1> QED
  BY <1>2, <1>3


LEMMA WithIndexIs ==
    ASSUME NEW n \in Nat, NEW d \in Seq(Page), NEW h, Built(h, n, d),
           NEW q, QueryOK(q, h, n, d), q.pc \in {"index", "loadIndex"}
    PROVE  QueryOK(WithIndex(q, IndexOf(q.fd)), h, n, d)
<1> DEFINE f == q.fd
           all == ToRead(IndexOf(f).metrics, q.rq)
           c == WithIndex(q, IndexOf(f))
           pages == SubSeq(d, 1, f.from)
           g == [k \in 1..Len(all) |-> Parts(pages, q.rq)[all[k].place]]
<1>1. /\ DOMAIN q = {"pc", "rq", "version", "fd", "index", "todo", "local", "out", "raw"}
      /\ DOMAIN q = Fields /\ q.rq \in Request /\ OneOf(q.fd, h, n) /\ f.version = 2
      /\ q.out = <<>> /\ q.local = <<>>
  BY FieldsAre DEF QueryOK
<1>2a. PICK m \in Nat : \E e : Entries(f, q.rq, pages, all, m, e)
  BY <1>1, ReadingIs
<1>2. PICK e : Entries(f, q.rq, pages, all, m, e)
  BY <1>2a
<1>3. /\ c.pc = "frames" /\ c.rq = q.rq /\ c.fd = f /\ c.index = IndexOf(f) /\ c.todo = all
      /\ c.out = <<>> /\ c.local = <<>> /\ DOMAIN c = DOMAIN q
  <2> DEFINE index == IndexOf(f)
             todo == ToRead(index.metrics, q.rq)
  <2>1. c = [q EXCEPT !.index = index, !.todo = todo, !.pc = "frames"]
    BY DEF WithIndex
  <2> HIDE DEF index, todo, c
  <2>2. /\ c.pc = "frames" /\ c.rq = q.rq /\ c.fd = f /\ c.index = index /\ c.todo = todo
        /\ c.out = <<>> /\ c.local = <<>> /\ DOMAIN c = DOMAIN q
    BY <1>1, <2>1
  <2> QED
    BY <2>2 DEF todo, index
<1> HIDE DEF c, all
<1>4. Len(all) \in Nat /\ SubSeq(all, 1, Len(all)) = all
  <2>1. PICK S : all \in Seq(S)
    BY <1>2 DEF Entries
  <2> QED
    BY <2>1
<1> HIDE DEF g
<1>5. SubSeq(g, 1, 0) = <<>>
  OBVIOUS
<1>6. \A k \in DOMAIN c.local : c.local[k] = c.fd.times[k]
  BY <1>3
<1>7. ToRead(c.index.metrics, c.rq) = all
  BY <1>3 DEF all
<1>8. Reading(c, d)
  <2>1. 0 \in 0..Len(all) /\ c.todo = SubSeq(all, 0 + 1, Len(all))
    BY <1>3, <1>4
  <2>2. c.out = FlattenSeq(SubSeq(g, 1, 0))
    BY <1>3, <1>5, FlatEmpty
  <2> QED
    BY <1>3, <1>6, <1>7, <2>1, <2>2 DEF Reading, g, pages
<1>9. QueryOK(c, h, n, d)
  BY <1>1, <1>3, <1>8 DEF QueryOK
<1> QED
  BY <1>9 DEF c

LEMMA FinishIs ==
    ASSUME NEW n \in Nat, NEW d \in Seq(Page), NEW h, Built(h, n, d),
           NEW q, QueryOK(q, h, n, d), q.pc = "frames", q.todo = <<>>
    PROVE  QueryOK([q EXCEPT !.pc = "done"], h, n, d)
<1> DEFINE f == q.fd
           all == ToRead(IndexOf(f).metrics, q.rq)
           c == [q EXCEPT !.pc = "done"]
           pages == SubSeq(d, 1, f.from)
           g == [k \in 1..Len(all) |-> Parts(pages, q.rq)[all[k].place]]
<1>1. /\ DOMAIN q = {"pc", "rq", "version", "fd", "index", "todo", "local", "out", "raw"}
      /\ DOMAIN q = Fields /\ q.rq \in Request /\ OneOf(q.fd, h, n) /\ f.version = 2 /\ Reading(q, d)
  BY FieldsAre DEF QueryOK
<1>2a. PICK m \in Nat : \E e : Entries(f, q.rq, pages, all, m, e)
  BY <1>1, ReadingIs
<1>2. PICK e : Entries(f, q.rq, pages, all, m, e)
  BY <1>2a
<1>3. PICK i \in 0..Len(all) : q.todo = SubSeq(all, i + 1, Len(all)) /\ q.out = FlattenSeq(SubSeq(g, 1, i))
  BY <1>1, Zenon DEF Reading
<1>4. c.pc = "done" /\ c.rq = q.rq /\ c.fd = f /\ c.out = q.out /\ DOMAIN c = DOMAIN q
  BY <1>1
<1> HIDE DEF c, all
<1>5. Len(all) = m /\ \E S : all \in Seq(S)
  BY <1>2 DEF Entries
<1>6. i = m
  <2>1. PICK S : all \in Seq(S)
    BY <1>5
  <2>2. Len(SubSeq(all, i + 1, m)) = IF i + 1 <= m THEN m - i ELSE 0
    BY <1>5, <2>1
  <2>3. Len(SubSeq(all, i + 1, m)) = 0
    BY <1>3, <1>5
  <2> QED
    BY <1>5, <2>2, <2>3
<1>7. SubSeq(g, 1, m) = g
  <2> DEFINE B == Seq(Sample)
  <2>1. \A k \in 1..m : g[k] = Parts(pages, q.rq)[e[k]] /\ Parts(pages, q.rq)[e[k]] \in B
    BY <1>2, <1>5 DEF Entries
  <2> HIDE DEF B
  <2>2. g = [k \in 1..m |-> g[k]]
    BY <1>5
  <2> HIDE DEF g
  <2>3. [k \in 1..m |-> g[k]] \in Seq(B) /\ Len([k \in 1..m |-> g[k]]) = m
    BY <2>1, ListIs
  <2>4. g \in Seq(B) /\ Len(g) = m
    BY <2>2, <2>3
  <2> QED
    BY <2>4
<1>8. Contents(pages, q.rq) = FlattenSeq(g)
  BY <1>2, <1>5 DEF Entries
<1>9. c.out = Contents(SubSeq(d, 1, c.fd.from), c.rq)
  BY <1>3, <1>4, <1>6, <1>7, <1>8 DEF pages
<1>10. QueryOK(c, h, n, d)
  BY <1>1, <1>4, <1>9 DEF QueryOK
<1> QED
  BY <1>10 DEF c

(***************************************************************************)
(* One more build, and one more page, leave what is known of the others.   *)
(***************************************************************************)
LEMMA OneMoreBuild ==
    ASSUME NEW n \in Nat, NEW d \in Seq(Page), NEW h, Built(h, n, d),
           NEW g, \A t \in 1..n : g[t] = h[t]
    PROVE  /\ \A f : OneOf(f, h, n) => OneOf(f, g, n + 1)
           /\ IndexEntries(h, n) \subseteq IndexEntries(g, n + 1)
           /\ TimeEntries(h, n) \subseteq TimeEntries(g, n + 1)
           /\ \A q : QueryOK(q, h, n, d) => QueryOK(q, g, n + 1, d)
<1>1. \A t \in 1..n : t \in 1..(n + 1)
  OBVIOUS
<1>2. ASSUME NEW f, OneOf(f, h, n) PROVE OneOf(f, g, n + 1)
  BY <1>1, <1>2 DEF OneOf
<1>3. IndexEntries(h, n) \subseteq IndexEntries(g, n + 1)
  BY <1>1, Zenon DEF IndexEntries
<1>4. TimeEntries(h, n) \subseteq TimeEntries(g, n + 1)
  <2>1. ASSUME NEW t \in 1..n PROVE FileTimes(h[t]) \subseteq TimeEntries(g, n + 1)
    BY <1>1 DEF TimeEntries
  <2> QED
    BY <2>1 DEF TimeEntries
<1>5. ASSUME NEW q, QueryOK(q, h, n, d) PROVE QueryOK(q, g, n + 1, d)
  <2>1. OneOf(q.fd, g, n + 1)
    BY <1>2, <1>5 DEF QueryOK
  <2> QED
    BY <1>5, <2>1, Zenon DEF QueryOK
<1> QED
  BY <1>2, <1>3, <1>4, <1>5

LEMMA OneMorePage ==
    ASSUME NEW n \in Nat, NEW d \in Seq(Page), NEW h, Built(h, n, d), NEW page \in Page
    PROVE  /\ Built(h, n, Append(d, page))
           /\ \A q : QueryOK(q, h, n, d) => QueryOK(q, h, n, Append(d, page))
<1> DEFINE b == Append(d, page)
<1>1. b \in Seq(Page) /\ Len(b) = Len(d) + 1 /\ Len(d) \in Nat
  OBVIOUS
<1>2. \A k \in 0..Len(d) : k \in 0..Len(b) /\ SubSeq(b, 1, k) = SubSeq(d, 1, k)
  <2> SUFFICES ASSUME NEW k \in 0..Len(d) PROVE k \in 0..Len(b) /\ SubSeq(b, 1, k) = SubSeq(d, 1, k)
    OBVIOUS
  <2>1. k \in 0..Len(b)
    BY <1>1
  <2>2. \A i \in 1..k : b[i] = d[i]
    BY <1>1
  <2> HIDE DEF b
  <2>3. SubSeq(b, 1, k) = [i \in 1..k |-> b[i]] /\ SubSeq(d, 1, k) = [i \in 1..k |-> d[i]]
    BY <1>1, <2>1
  <2> QED
    BY <2>1, <2>2, <2>3
<1> HIDE DEF b
<1>3. Built(h, n, b)
  BY <1>2 DEF Built
<1>4. ASSUME NEW q, QueryOK(q, h, n, d) PROVE QueryOK(q, h, n, b)
  <2>1. OneOf(q.fd, h, n)
    BY <1>4 DEF QueryOK
  <2>2. q.fd # NoFile => SubSeq(b, 1, q.fd.from) = SubSeq(d, 1, q.fd.from)
    BY <1>2, <2>1, BuiltIs
  <2>3. q.fd.version = 2 => q.fd # NoFile
    BY DEF NoFile
  <2>4. q.fd.version = 2 /\ Reading(q, d) => Reading(q, b)
    BY <2>2, <2>3, Zenon DEF Reading
  <2> QED
    BY <1>4, <2>2, <2>3, <2>4, Zenon DEF QueryOK
<1> QED
  BY <1>3, <1>4 DEF b


\* A file a build writes of the pages there are.
Grown(g, h, n, d, f) ==
    Built(g, n + 1, d) /\ OneOf(f, g, n + 1) /\ \A t \in 1..n : g[t] = h[t]

LEMMA BuildIs ==
    ASSUME NEW n \in Nat, NEW d \in Seq(Page), NEW h, Built(h, n, d),
           NEW version \in {1, 2}, NEW size
    PROVE  \E g : Grown(g, h, n, d, Written(version, d, size, n + 1))
<1> DEFINE f == Written(version, d, size, n + 1)
           g == [t \in 1..(n + 1) |-> IF t <= n THEN h[t] ELSE f]
<1>1. g = [t \in 1..(n + 1) |-> g[t]]
  OBVIOUS
<1>2. \A t \in 1..n : g[t] = h[t]
  OBVIOUS
<1>3. g[n + 1] = f
  OBVIOUS
<1>4. f.version = version /\ f.from = Len(d) /\ f.size = size
  BY DEF Written
<1>5. SubSeq(d, 1, Len(d)) = d /\ Len(d) \in 0..Len(d)
  OBVIOUS
<1>6. /\ f.version \in {1, 2} /\ f.from \in 0..Len(d)
      /\ f = Written(f.version, SubSeq(d, 1, f.from), f.size, n + 1)
  BY <1>4, <1>5
<1> HIDE DEF g, f
<1>7. ASSUME NEW t \in 1..(n + 1)
      PROVE  /\ g[t].version \in {1, 2} /\ g[t].from \in 0..Len(d)
             /\ g[t] = Written(g[t].version, SubSeq(d, 1, g[t].from), g[t].size, t)
  <2>1. CASE t = n + 1
    BY <1>3, <1>6, <2>1
  <2>2. CASE t # n + 1
    <3>1. t \in 1..n
      BY <2>2
    <3> QED
      BY <1>2, <3>1 DEF Built
  <2> QED
    BY <2>1, <2>2
<1>8. Built(g, n + 1, d)
  BY <1>1, <1>7 DEF Built
<1>9. OneOf(f, g, n + 1)
  <2>1. n + 1 \in 1..(n + 1)
    OBVIOUS
  <2> QED
    BY <1>3, <2>1 DEF OneOf
<1>10. Grown(g, h, n, d, f)
  BY <1>2, <1>8, <1>9 DEF Grown
<1> QED
  BY <1>10 DEF f

\* A page put in the data file is one, with values that number its samples.
LEMMA NumberIs ==
    ASSUME data \in Seq(Page), NEW page \in PagesOf([id : Nat, ts : Int])
    PROVE  Number(page) \in Page
<1> DEFINE before == Len(FlattenSeq(data))
           x(k) == [id |-> page[k].id, ts |-> page[k].ts, v |-> before + k]
           g == [k \in 1..Len(page) |-> x(k)]
<1>0. page \in Seq([id : Nat, ts : Int]) /\ page # <<>> /\ InTime(page)
  BY DEF PagesOf
<1>1. before \in Nat
  <2>1. data \in Seq(Seq(Sample))
    <3>1. Page \subseteq Seq(Sample)
      BY DEF Page, PagesOf
    <3> QED
      BY <3>1
  <2>2. FlattenSeq(data) \in Seq(Sample)
    BY <2>1, FlatTypes
  <2> QED
    BY <2>2
<1> HIDE DEF before
<1>2. Len(page) \in Nat /\ DOMAIN page = 1..Len(page) /\ Len(page) # 0
  BY <1>0
<1>3. \A k \in 1..Len(page) : page[k].id \in Nat /\ page[k].ts \in Int
  <2> DEFINE R == [id : Nat, ts : Int]
  <2>1. \A r \in R : r.id \in Nat /\ r.ts \in Int
    OBVIOUS
  <2>2. page \in Seq(R)
    BY <1>0
  <2> HIDE DEF R
  <2> QED
    BY <2>1, <2>2
<1>4. \A k \in 1..Len(page) : g[k] \in Sample
  <2> SUFFICES ASSUME NEW k \in 1..Len(page) PROVE x(k) \in Sample
    OBVIOUS
  <2>1. before + k \in Int
    BY <1>1
  <2> QED
    BY <1>3, <2>1 DEF Sample
<1>8. \A k \in 1..Len(page) : g[k].ts = page[k].ts
  OBVIOUS
<1>5. Number(page) = [k \in 1..Len(page) |-> g[k]]
  BY <1>2 DEF Number, before
<1> HIDE DEF g
<1>6. [k \in 1..Len(page) |-> g[k]] \in Seq(Sample) /\ Len([k \in 1..Len(page) |-> g[k]]) = Len(page)
  BY <1>2, <1>4, ListIs
<1>7. Number(page) # <<>>
  <2>1. Len(<<>>) = 0
    OBVIOUS
  <2> QED
    BY <1>2, <1>5, <1>6, <2>1
<1>9. InTime(Number(page))
  <2> DEFINE u == Number(page)
  <2>1. Len(u) = Len(page) /\ \A k \in 1..Len(page) : u[k] = g[k]
    BY <1>5, <1>6
  <2> HIDE DEF u
  <2>2. InTime(u)
    BY <1>0, <1>8, <2>1 DEF InTime
  <2> QED
    BY <2>2 DEF u
<1> QED
  BY <1>5, <1>6, <1>7, <1>9 DEF Page, PagesOf

\* The caches after a put, of an entry of a file there was.
LEMMA PutIs ==
    ASSUME NEW S, NEW T, indexCache \in Seq(S), timeCache \in Seq(T), NEW key, NEW x
    PROVE  /\ [key |-> key, index |-> x] \in S => PutIndex(key, x) \in Seq(S)
           /\ [key |-> key, times |-> x] \in T => PutTimes(key, x) \in Seq(T)
<1>1. ASSUME [key |-> key, index |-> x] \in S PROVE PutIndex(key, x) \in Seq(S)
  <2> DEFINE cache == <<[key |-> key, index |-> x]>> \o Without(indexCache, key)
             costs == [k \in DOMAIN cache |-> 0]
  <2>1. cache \in Seq(S)
    BY <1>1, WithoutIs, FrontIs
  <2>2. PutIndex(key, x) = Within(cache, IndexSlots, 0, costs)
    BY Zenon DEF PutIndex
  <2> HIDE DEF cache, costs
  <2>3. Within(cache, IndexSlots, 0, costs) \in Seq(S)
    BY <2>1, WithinIs, CacheLimits
  <2> QED
    BY <2>2, <2>3
<1>2. ASSUME [key |-> key, times |-> x] \in T PROVE PutTimes(key, x) \in Seq(T)
  <2> DEFINE cache == <<[key |-> key, times |-> x]>> \o Without(timeCache, key)
             costs == [k \in DOMAIN cache |-> Len(cache[k].times)]
  <2>1. cache \in Seq(T)
    BY <1>2, WithoutIs, FrontIs
  <2>2. PutTimes(key, x) = Within(cache, TimeSlots, MaxTimes, costs)
    BY Zenon DEF PutTimes
  <2> HIDE DEF cache, costs
  <2>3. Within(cache, TimeSlots, MaxTimes, costs) \in Seq(T)
    BY <2>1, WithinIs, CacheLimits
  <2> QED
    BY <2>2, <2>3
<1> QED
  BY <1>1, <1>2


(***************************************************************************)
(* The invariant holds at first, and every step keeps it.                  *)
(***************************************************************************)
LEMMA InvInit == Init => MetricInv
<1> SUFFICES ASSUME Init PROVE MetricInv
  OBVIOUS
<1> DEFINE h == <<>>
<1>1. setting \in Settings /\ data \in Seq(Page) /\ builds = 0 /\ builds \in Nat
  BY SettingsAreData DEF Init
<1>2. Built(h, builds, data)
  BY <1>1 DEF Built
<1>3. OneOf(file, h, builds)
  BY DEF Init, OneOf
<1>4. indexCache \in Seq(IndexEntries(h, builds)) /\ timeCache \in Seq(TimeEntries(h, builds))
  BY DEF Init
<1>5. Idle.rq \in Request
  BY DEF Idle, Request
<1>6. QueryOK(Idle, h, builds, data)
  BY <1>5 DEF Idle, QueryOK, Fields, OneOf
<1>7. DOMAIN rd = Reader /\ \A r \in Reader : rd[r] = Idle
  BY DEF Init
<1>8. Kept(h)
  BY <1>2, <1>3, <1>4, <1>6, <1>7 DEF Kept
<1> QED
  BY <1>1, <1>8 DEF MetricInv

LEMMA ReaderStep ==
    ASSUME NEW h, Kept(h), NEW r \in Reader, NEW c, QueryOK(c, h, builds, data),
           rd' = [rd EXCEPT ![r] = c],
           indexCache' \in Seq(IndexEntries(h, builds)),
           timeCache' \in Seq(TimeEntries(h, builds)),
           UNCHANGED <<data, file, builds>>
    PROVE  Kept(h)'
<1>1. data' = data /\ file' = file /\ builds' = builds
  OBVIOUS
<1>2. DOMAIN rd' = Reader /\ \A s \in Reader : QueryOK(rd'[s], h, builds, data)
  BY DEF Kept
<1>3. Built(h, builds, data)' /\ OneOf(file, h, builds)'
  BY <1>1 DEF Kept
<1>4. indexCache' \in Seq(IndexEntries(h, builds')) /\ timeCache' \in Seq(TimeEntries(h, builds'))
  BY <1>1
<1>5. \A s \in Reader : QueryOK(rd'[s], h, builds', data')
  BY <1>1, <1>2
<1> QED
  BY <1>2, <1>3, <1>4, <1>5 DEF Kept

LEMMA AppendStep ==
    ASSUME MetricInv, AppendPage
    PROVE  MetricInv'
<1>1. PICK h : Kept(h)
  BY DEF MetricInv
<1>2. PICK page \in setting.more : data' = Append(data, Number(page))
  BY DEF AppendPage
<1>3. setting' = setting /\ file' = file /\ builds' = builds
      /\ indexCache' = indexCache /\ timeCache' = timeCache /\ rd' = rd
  BY DEF AppendPage
<1>4. setting \in Settings /\ data \in Seq(Page) /\ builds \in Nat
  BY DEF MetricInv
<1>5. page \in PagesOf([id : Nat, ts : Int])
  BY <1>4, SettingsAreData
<1> DEFINE new == Number(page)
<1>6. new \in Page
  BY <1>4, <1>5, NumberIs
<1> HIDE DEF new
<1>7. data' \in Seq(Page) /\ data' = Append(data, new)
  BY <1>2, <1>4, <1>6 DEF new
<1>8. Built(h, builds, data) /\ \A r \in Reader : QueryOK(rd[r], h, builds, data)
  BY <1>1 DEF Kept
<1>9. Built(h, builds, data') /\ \A r \in Reader : QueryOK(rd[r], h, builds, data')
  BY <1>4, <1>6, <1>7, <1>8, OneMorePage
<1>10. Kept(h)'
  BY <1>1, <1>3, <1>9 DEF Kept
<1> QED
  BY <1>3, <1>4, <1>7, <1>10 DEF MetricInv

LEMMA BuildStep ==
    ASSUME MetricInv, NEW version \in {1, 2}, Build(version)
    PROVE  MetricInv'
<1>1. PICK h : Kept(h)
  BY DEF MetricInv
<1>2. PICK size : file' = Written(version, data, size, builds + 1)
  BY DEF Build
<1>3. setting' = setting /\ data' = data /\ builds' = builds + 1
      /\ indexCache' = indexCache /\ timeCache' = timeCache /\ rd' = rd
  BY DEF Build
<1>4. setting \in Settings /\ data \in Seq(Page) /\ builds \in Nat
  BY DEF MetricInv
<1>5. /\ Built(h, builds, data) /\ DOMAIN rd = Reader
      /\ \A r \in Reader : QueryOK(rd[r], h, builds, data)
      /\ indexCache \in Seq(IndexEntries(h, builds)) /\ timeCache \in Seq(TimeEntries(h, builds))
  BY <1>1 DEF Kept
<1>6. PICK g : /\ Built(g, builds + 1, data)
               /\ OneOf(Written(version, data, size, builds + 1), g, builds + 1)
               /\ \A t \in 1..builds : g[t] = h[t]
  <2>1. \E g : Grown(g, h, builds, data, Written(version, data, size, builds + 1))
    BY <1>4, <1>5, BuildIs
  <2> QED
    BY <2>1 DEF Grown
<1>7. /\ IndexEntries(h, builds) \subseteq IndexEntries(g, builds + 1)
      /\ TimeEntries(h, builds) \subseteq TimeEntries(g, builds + 1)
      /\ \A q : QueryOK(q, h, builds, data) => QueryOK(q, g, builds + 1, data)
  BY <1>4, <1>5, <1>6, OneMoreBuild
<1>8. indexCache \in Seq(IndexEntries(g, builds + 1)) /\ timeCache \in Seq(TimeEntries(g, builds + 1))
  BY <1>5, <1>7
<1>9. \A r \in Reader : QueryOK(rd[r], g, builds + 1, data)
  BY <1>5, <1>7
<1>10. Kept(g)'
  BY <1>2, <1>3, <1>5, <1>6, <1>8, <1>9 DEF Kept
<1> QED
  BY <1>3, <1>4, <1>10 DEF MetricInv


LEMMA IndexStep ==
    ASSUME MetricInv, NEW r \in Reader, FindIndex(r) \/ LoadIndex(r)
    PROVE  MetricInv'
<1> DEFINE q == rd[r]
           key == CacheKey(q.fd)
           hit == Holds(indexCache, key)
           index == IndexOf(q.fd)
<1>1. PICK h : Kept(h)
  BY DEF MetricInv
<1>2. setting \in Settings /\ data \in Seq(Page) /\ builds \in Nat
  BY DEF MetricInv
<1>3. setting' = setting /\ data' = data /\ file' = file /\ builds' = builds /\ timeCache' = timeCache
  BY DEF FindIndex, LoadIndex
<1>4. /\ Built(h, builds, data) /\ QueryOK(q, h, builds, data) /\ r \in DOMAIN rd
      /\ indexCache \in Seq(IndexEntries(h, builds)) /\ timeCache \in Seq(TimeEntries(h, builds))
  BY <1>1 DEF Kept
<1>5. q.pc \in {"index", "loadIndex"}
  BY DEF FindIndex, LoadIndex
<1>6. PICK t \in 1..builds : q.fd = h[t]
  <2>1. q.fd.version = 2 /\ OneOf(q.fd, h, builds)
    BY <1>4, <1>5 DEF QueryOK
  <2>2. q.fd # NoFile
    BY <2>1 DEF NoFile
  <2> QED
    BY <2>1, <2>2 DEF OneOf
<1>7. QueryOK(WithIndex(q, index), h, builds, data)
  BY <1>2, <1>4, <1>5, WithIndexIs
<1> DEFINE S == IndexEntries(h, builds)
<1>8. CASE FindIndex(r) /\ hit
  <2>1. Entry(indexCache, key) \in S /\ Entry(indexCache, key).key = key
    <3> HIDE DEF S, key
    <3>1. indexCache \in Seq(S)
      BY <1>4 DEF S
    <3> QED
      BY <1>8, <3>1, EntryIs
  <2>2. Entry(indexCache, key).index = index
    BY <1>2, <1>4, <1>6, <2>1, CachedIndex
  <2>3. rd' = [rd EXCEPT ![r] = WithIndex(q, Entry(indexCache, key).index)] /\ indexCache' = Touch(indexCache, key)
    BY <1>4, <1>8 DEF FindIndex
  <2>4. rd' = [rd EXCEPT ![r] = WithIndex(q, index)]
    BY <2>2, <2>3
  <2>5. indexCache' \in Seq(S)
    <3> HIDE DEF S, key
    <3>1. indexCache \in Seq(S)
      BY <1>4 DEF S
    <3> QED
      BY <1>8, <2>3, <3>1, TouchIs
  <2>6. Kept(h)'
    BY <1>1, <1>3, <1>4, <1>7, <2>4, <2>5, ReaderStep
  <2> QED
    BY <1>2, <1>3, <2>6 DEF MetricInv
<1>9. CASE FindIndex(r) /\ ~hit
  <2>1. rd' = [rd EXCEPT ![r] = [q EXCEPT !.pc = "loadIndex"]] /\ indexCache' = indexCache
    BY <1>4, <1>9 DEF FindIndex
  <2>2. QueryOK([q EXCEPT !.pc = "loadIndex"], h, builds, data)
    <3>1. q.pc = "index"
      BY <1>9 DEF FindIndex
    <3> QED
      BY <1>2, <1>4, <3>1, MissIs
  <2>3. Kept(h)'
    BY <1>1, <1>3, <1>4, <2>1, <2>2, ReaderStep
  <2> QED
    BY <1>2, <1>3, <2>3 DEF MetricInv
<1>10. CASE LoadIndex(r)
  <2>1. rd' = [rd EXCEPT ![r] = WithIndex(q, index)] /\ indexCache' = PutIndex(key, index)
    BY <1>4, <1>10 DEF LoadIndex
  <2>2. [key |-> key, index |-> index] \in S
    BY <1>6 DEF IndexEntries
  <2>3. indexCache' \in Seq(S)
    <3> DEFINE T == TimeEntries(h, builds)
    <3>1. indexCache \in Seq(S) /\ timeCache \in Seq(T)
      BY <1>4
    <3> HIDE DEF S, T, key, index
    <3> QED
      BY <2>1, <2>2, <3>1, PutIs
  <2>4. Kept(h)'
    BY <1>1, <1>3, <1>4, <1>7, <2>1, <2>3, ReaderStep
  <2> QED
    BY <1>2, <1>3, <2>4 DEF MetricInv
<1> QED
  BY <1>8, <1>9, <1>10

LEMMA TimesStep ==
    ASSUME MetricInv, NEW r \in Reader, FindTimes(r) \/ LoadTimes(r)
    PROVE  MetricInv'
<1> DEFINE q == rd[r]
           frame == Head(q.todo).frame
           times == q.fd.times[frame]
           key == <<CacheKey(q.fd), frame>>
           hit == frame \notin DOMAIN q.local /\ Holds(timeCache, key)
<1>1. PICK h : Kept(h)
  BY DEF MetricInv
<1>2. setting \in Settings /\ data \in Seq(Page) /\ builds \in Nat
  BY DEF MetricInv
<1>3. setting' = setting /\ data' = data /\ file' = file /\ builds' = builds /\ indexCache' = indexCache
  BY DEF FindTimes, LoadTimes
<1>4. /\ Built(h, builds, data) /\ QueryOK(q, h, builds, data) /\ r \in DOMAIN rd
      /\ indexCache \in Seq(IndexEntries(h, builds)) /\ timeCache \in Seq(TimeEntries(h, builds))
  BY <1>1 DEF Kept
<1>5. q.pc \in {"frames", "loadTimes"} /\ q.todo # <<>>
  BY <1>4 DEF FindTimes, LoadTimes, QueryOK
<1>6. /\ DOMAIN q = Fields /\ q.rq \in Request /\ OneOf(q.fd, h, builds)
      /\ q.fd.version = 2 /\ Reading(q, data)
  BY <1>4, <1>5 DEF QueryOK
<1>7. PICK t \in 1..builds : q.fd = h[t]
  <2>1. q.fd # NoFile
    BY <1>6 DEF NoFile
  <2> QED
    BY <1>6, <2>1 DEF OneOf
<1>8. /\ frame \in Nat
      /\ TimeHeaderAgrees(q.fd, q.index.times[frame])
      /\ QueryOK(Collect(q, times), h, builds, data)
  BY <1>2, <1>4, <1>5, <1>6, CollectIs
<1> DEFINE T == TimeEntries(h, builds)
<1>9. CASE FindTimes(r) /\ frame \in DOMAIN q.local
  <2>1. q.local[frame] = times
    BY <1>6, <1>9 DEF Reading
  <2>2. rd' = [rd EXCEPT ![r] = Collect(q, q.local[frame])] /\ timeCache' = timeCache
    BY <1>4, <1>9, Zenon DEF FindTimes
  <2>3. rd' = [rd EXCEPT ![r] = Collect(q, times)]
    BY <2>1, <2>2
  <2>4. Kept(h)'
    BY <1>1, <1>3, <1>4, <1>8, <2>2, <2>3, ReaderStep
  <2> QED
    BY <1>2, <1>3, <2>4 DEF MetricInv
<1>10. CASE FindTimes(r) /\ hit
  <2>1. Entry(timeCache, key) \in T /\ Entry(timeCache, key).key = key
    <3> HIDE DEF T, key
    <3>1. timeCache \in Seq(T)
      BY <1>4 DEF T
    <3> QED
      BY <1>10, <3>1, EntryIs
  <2>2. Entry(timeCache, key).times = times
    <3> DEFINE e == Entry(timeCache, key)
    <3>1. e \in TimeEntries(h, builds) /\ e.key = <<CacheKey(h[t]), frame>>
      BY <1>7, <2>1
    <3>2. frame \in Nat
      BY <1>8
    <3> HIDE DEF e, frame
    <3>3. builds \in Nat /\ Built(h, builds, data)
      BY <1>2, <1>4
    <3>4. e.times = h[t].times[frame]
      BY <3>1, <3>2, <3>3, CachedTimes
    <3> QED
      BY <1>7, <3>4 DEF e
  <2>3. rd' = [rd EXCEPT ![r] = Collect(q, Entry(timeCache, key).times)] /\ timeCache' = Touch(timeCache, key)
    BY <1>4, <1>10, Zenon DEF FindTimes
  <2>4. rd' = [rd EXCEPT ![r] = Collect(q, times)]
    BY <2>2, <2>3
  <2>5. timeCache' \in Seq(T)
    <3> HIDE DEF T, key
    <3>1. timeCache \in Seq(T)
      BY <1>4 DEF T
    <3> QED
      BY <1>10, <2>3, <3>1, TouchIs
  <2>6. Kept(h)'
    BY <1>1, <1>3, <1>4, <1>8, <2>4, <2>5, ReaderStep
  <2> QED
    BY <1>2, <1>3, <2>6 DEF MetricInv
<1>11. CASE FindTimes(r) /\ frame \notin DOMAIN q.local /\ ~hit
  <2>1. rd' = [rd EXCEPT ![r] = [q EXCEPT !.pc = "loadTimes"]] /\ timeCache' = timeCache
    BY <1>4, <1>11, Zenon DEF FindTimes
  <2>2. QueryOK([q EXCEPT !.pc = "loadTimes"], h, builds, data)
    <3>1. q.pc = "frames"
      BY <1>11 DEF FindTimes
    <3> QED
      BY <1>2, <1>4, <1>5, <3>1, MissIs
  <2>3. Kept(h)'
    BY <1>1, <1>3, <1>4, <2>1, <2>2, ReaderStep
  <2> QED
    BY <1>2, <1>3, <2>3 DEF MetricInv
<1>12. CASE LoadTimes(r)
  <2>1. rd' = [rd EXCEPT ![r] = Collect(q, times)] /\ timeCache' = PutTimes(key, times)
    BY <1>4, <1>8, <1>12, Zenon DEF LoadTimes
  <2>2. [key |-> key, times |-> times] \in T
    <3>1. [key |-> key, times |-> times] \in FileTimes(h[t])
      BY <1>7, <1>8 DEF FileTimes
    <3> QED
      BY <3>1 DEF TimeEntries
  <2>3. timeCache' \in Seq(T)
    <3> DEFINE S == IndexEntries(h, builds)
    <3>1. indexCache \in Seq(S) /\ timeCache \in Seq(T)
      BY <1>4
    <3> HIDE DEF S, T, key, times
    <3> QED
      BY <2>1, <2>2, <3>1, PutIs
  <2>4. Kept(h)'
    BY <1>1, <1>3, <1>4, <1>8, <2>1, <2>3, ReaderStep
  <2> QED
    BY <1>2, <1>3, <2>4 DEF MetricInv
<1> QED
  BY <1>9, <1>10, <1>11, <1>12


LEMMA QueryStep ==
    ASSUME MetricInv, NEW r \in Reader,
           \/ Ask(r) \/ ReadVersion(r) \/ OpenFile(r) \/ Finish(r)
    PROVE  MetricInv'
<1> DEFINE q == rd[r]
<1>1. PICK h : Kept(h)
  BY DEF MetricInv
<1>2. setting \in Settings /\ data \in Seq(Page) /\ builds \in Nat
  BY DEF MetricInv
<1>3. /\ setting' = setting /\ data' = data /\ file' = file /\ builds' = builds
      /\ indexCache' = indexCache /\ timeCache' = timeCache
  BY DEF Ask, ReadVersion, OpenFile, Finish
<1>4. /\ Built(h, builds, data) /\ OneOf(file, h, builds)
      /\ QueryOK(q, h, builds, data) /\ r \in DOMAIN rd
      /\ indexCache' \in Seq(IndexEntries(h, builds)) /\ timeCache' \in Seq(TimeEntries(h, builds))
  BY <1>1, <1>3 DEF Kept
<1>5. ASSUME NEW c, QueryOK(c, h, builds, data), rd' = [rd EXCEPT ![r] = c] PROVE MetricInv'
  <2>1. Kept(h)'
    BY <1>1, <1>3, <1>4, <1>5, ReaderStep
  <2> QED
    BY <1>2, <1>3, <2>1 DEF MetricInv
<1>6. CASE Ask(r)
  <2>1. PICK rq \in setting.requests : rd' = [rd EXCEPT ![r] = [Idle EXCEPT !.pc = "version", !.rq = rq]]
    BY <1>6 DEF Ask
  <2>2. rq \in Request
    BY <1>2, SettingsAreData
  <2>3. QueryOK([Idle EXCEPT !.pc = "version", !.rq = rq], h, builds, data)
    BY <2>2, AskIs
  <2> QED
    BY <1>5, <2>1, <2>3
<1>7. CASE ReadVersion(r)
  <2> DEFINE raw == Len(data)
             out == RawStream(data, q.rq)
             c == IF file = NoFile THEN [q EXCEPT !.pc = "done", !.raw = raw, !.out = out]
                  ELSE [q EXCEPT !.pc = "open", !.version = file.version]
  <2>1. q.pc = "version" /\ rd' = [rd EXCEPT ![r] = c]
    BY <1>4, <1>7 DEF ReadVersion
  <2> HIDE DEF raw, out
  <2>2. QueryOK(c, h, builds, data)
    BY <1>2, <1>4, <2>1, VersionIs
  <2> QED
    BY <1>5, <2>1, <2>2
<1>8. CASE OpenFile(r)
  <2> DEFINE c == [q EXCEPT !.fd = file,
                            !.pc = IF ~HeaderDecodes(file, q.version) THEN "failed"
                                   ELSE IF file.version = 1 THEN "done" ELSE "index",
                            !.out = IF HeaderDecodes(file, 1) /\ q.version = 1
                                      THEN StreamV1(file, q.rq) ELSE <<>>]
  <2>1. q.pc = "open" /\ rd' = [rd EXCEPT ![r] = c]
    BY <1>4, <1>8, Zenon DEF OpenFile
  <2>2. QueryOK(c, h, builds, data)
    BY <1>2, <1>4, <2>1, OpenIs
  <2> QED
    BY <1>5, <2>1, <2>2
<1>9. CASE Finish(r)
  <2>1. q.pc = "frames" /\ q.todo = <<>> /\ rd' = [rd EXCEPT ![r] = [q EXCEPT !.pc = "done"]]
    BY <1>4, <1>9 DEF Finish
  <2>2. QueryOK([q EXCEPT !.pc = "done"], h, builds, data)
    BY <1>2, <1>4, <2>1, FinishIs
  <2> QED
    BY <1>5, <2>1, <2>2
<1> QED
  BY <1>6, <1>7, <1>8, <1>9

LEMMA InvNext == MetricInv /\ [Next]_vars => MetricInv'
<1> SUFFICES ASSUME MetricInv, [Next]_vars PROVE MetricInv'
  OBVIOUS
<1>1. CASE AppendPage
  BY <1>1, AppendStep
<1>2. ASSUME NEW version \in {1, 2}, Build(version) PROVE MetricInv'
  BY <1>2, BuildStep
<1>3. ASSUME NEW r \in Reader,
             \/ Ask(r) \/ ReadVersion(r) \/ OpenFile(r) \/ Finish(r)
      PROVE  MetricInv'
  BY <1>3, QueryStep
<1>4. ASSUME NEW r \in Reader, FindIndex(r) \/ LoadIndex(r) PROVE MetricInv'
  BY <1>4, IndexStep
<1>5. ASSUME NEW r \in Reader, FindTimes(r) \/ LoadTimes(r) PROVE MetricInv'
  BY <1>5, TimesStep
<1>6. CASE UNCHANGED vars
  <2>1. PICK h : Kept(h)
    BY DEF MetricInv
  <2>2. Kept(h)'
    BY <1>6, <2>1 DEF vars, Kept
  <2> QED
    BY <1>6, <2>2 DEF vars, MetricInv
<1> QED
  BY <1>1, <1>2, <1>3, <1>4, <1>5, <1>6 DEF Next

\* A query that is done read the contents of the file it had open; one that failed had a file
\* of another version than the one it found first.
LEMMA InvReads == MetricInv => ReadsExact
<1> SUFFICES ASSUME MetricInv, NEW r \in Reader
             PROVE  /\ rd[r].pc = "done" /\ rd[r].fd # NoFile
                         => rd[r].out = Contents(Pages(rd[r]), rd[r].rq)
                    /\ rd[r].pc = "failed" => rd[r].fd.version # rd[r].version
  BY DEF ReadsExact
<1>1. PICK h : Kept(h)
  BY DEF MetricInv
<1>2. QueryOK(rd[r], h, builds, data)
  BY <1>1 DEF Kept
<1>3. rd[r].fd # NoFile => Pages(rd[r]) = SubSeq(data, 1, rd[r].fd.from)
  BY DEF Pages
<1> QED
  BY <1>2, <1>3 DEF QueryOK

\* resolveMetricFileIndexesV2 and resolveMetricTimeFrameV2 hand a query what another query
\* put in a cache shared by all the files of a path, and builds replace the file meanwhile:
\* a query still returns the samples of the one file it opened, and fails only for the other
\* version between its two opens.
THEOREM QueriesReadOneFile == Spec => []ReadsExact
<1>1. Init => MetricInv
  BY InvInit
<1>2. MetricInv /\ [Next]_vars => MetricInv'
  BY InvNext
<1>3. MetricInv => ReadsExact
  BY InvReads
<1> QED
  BY <1>1, <1>2, <1>3, PTL DEF Spec


(***************************************************************************)
(* Comparing a metric file with the data file.                             *)
(***************************************************************************)

\* Joining more of the sequences only adds at the end.
LEMMA FlatGrows ==
    ASSUME NEW S, NEW f \in Seq(Seq(S)), NEW n \in 0..Len(f)
    PROVE  \E t \in Seq(S) : FlattenSeq(f) = FlattenSeq(SubSeq(f, 1, n)) \o t
<1> DEFINE part(k) == FlattenSeq(SubSeq(f, 1, k))
           rest == Len(f) - n
           T == {j \in 0..rest : \E t \in Seq(S) : part(n + j) = part(n) \o t}
<1>1. rest \in Nat /\ n \in Nat /\ n + rest = Len(f)
  OBVIOUS
<1>2. \A k \in 0..Len(f) : SubSeq(f, 1, k) \in Seq(Seq(S))
  <2> DEFINE B == Seq(S)
  <2>1. f \in Seq(B)
    OBVIOUS
  <2> HIDE DEF B
  <2>2. \A k \in 0..Len(f) : SubSeq(f, 1, k) \in Seq(B)
    BY <2>1
  <2> QED
    BY <2>2 DEF B
<1>3. \A k \in 0..Len(f) : part(k) \in Seq(S)
  BY <1>2, FlatTypes
<1>4. part(n) \in Seq(S) /\ n + 0 = n
  BY <1>3
<1>5. 0 \in T
  <2>1. <<>> \in Seq(S) /\ part(n) = part(n) \o <<>> /\ 0 \in 0..rest
    BY <1>1, <1>4
  <2> QED
    BY <1>4, <2>1
<1>6. ASSUME NEW k \in T, k \in 0..rest, k < rest PROVE k + 1 \in T
  <2>1. PICK t \in Seq(S) : part(n + k) = part(n) \o t
    BY <1>6
  <2>2. n + k \in Nat /\ (n + k) + 1 <= Len(f) /\ (n + k) + 1 = n + (k + 1) /\ k + 1 \in 0..rest
        /\ (n + k) + 1 \in 1..Len(f)
    BY <1>1, <1>6
  <2>3. part((n + k) + 1) = part(n + k) \o f[(n + k) + 1]
    BY <2>2, FlatPrefix
  <2>4. f[(n + k) + 1] \in Seq(S)
    <3> DEFINE B == Seq(S)
    <3>1. f \in Seq(B)
      OBVIOUS
    <3> HIDE DEF B
    <3>2. f[(n + k) + 1] \in B
      BY <2>2, <3>1
    <3> QED
      BY <3>2 DEF B
  <2> HIDE DEF part, rest
  <2> DEFINE u == f[(n + k) + 1]
  <2>5. u \in Seq(S)
    BY <2>4
  <2>6. part(n + (k + 1)) = (part(n) \o t) \o u
    BY <2>1, <2>2, <2>3
  <2> HIDE DEF u
  <2>7. (part(n) \o t) \o u = part(n) \o (t \o u) /\ t \o u \in Seq(S)
    BY <1>4, <2>5
  <2> QED
    BY <2>2, <2>6, <2>7
<1> HIDE DEF T, rest
<1>7. \A j \in 0..rest : j \in T
  BY <1>1, <1>5, <1>6, Induct
<1>8. rest \in T
  BY <1>1, <1>7
<1>9. SubSeq(f, 1, Len(f)) = f
  OBVIOUS
<1> QED
  BY <1>1, <1>8, <1>9 DEF T

LEMMA JoinIs ==
    ASSUME NEW S, NEW s \in Seq(S), NEW t \in Seq(S)
    PROVE  /\ s \o t \in Seq(S) /\ Len(s \o t) = Len(s) + Len(t)
           /\ \A k \in 1..Len(s) : (s \o t)[k] = s[k]
  OBVIOUS

\* A page more of a partition is a sample more of some metric.
LEMMA MoreOfSome ==
    ASSUME NEW d \in Seq(Page), NEW n \in Nat, n < Len(d)
    PROVE  \E id \in DOMAIN Inputs(d) :
               Len(Of(id, FlattenSeq(SubSeq(d, 1, n)))) < Len(Of(id, FlattenSeq(d)))
<1> DEFINE before == FlattenSeq(SubSeq(d, 1, n))
           page == d[n + 1]
           more == FlattenSeq(SubSeq(d, 1, n + 1))
           all == FlattenSeq(d)
           id == page[1].id
           old == {k \in 1..Len(before) : before[k].id = id}
           new == {k \in 1..Len(all) : all[k].id = id}
<1>1. d \in Seq(Seq(Sample)) /\ n + 1 \in 0..Len(d) /\ n + 1 <= Len(d) /\ n + 1 \in 1..Len(d)
  BY AllIs
<1>2. page \in Page /\ SubSeq(d, 1, n) \in Seq(Page) /\ SubSeq(d, 1, n + 1) \in Seq(Page)
  BY <1>1
<1>3. page \in Seq(Sample) /\ page # <<>>
  BY <1>2 DEF Page, PagesOf
<1>4. before \in Seq(Sample) /\ all \in Seq(Sample)
  BY <1>2, AllIs
<1>5. PICK t \in Seq(Sample) : all = more \o t
  BY <1>1, FlatGrows
<1>6. more = before \o page
  BY <1>1, FlatPrefix
<1> HIDE DEF before, page, all, more
<1>7. Len(page) \in Nat /\ Len(page) # 0
  BY <1>3
<1>8. /\ Len(all) = (Len(before) + Len(page)) + Len(t) /\ Len(before) \in Nat /\ Len(t) \in Nat
      /\ \A k \in 1..Len(before) : all[k] = before[k]
      /\ all[Len(before) + 1] = page[1]
  <2>1. Len(before) \in Nat /\ Len(t) \in Nat
    BY <1>4
  <2>2. /\ more \in Seq(Sample) /\ Len(more) = Len(before) + Len(page)
        /\ \A k \in 1..Len(before) : more[k] = before[k]
    BY <1>3, <1>4, <1>6
  <2>3. more[Len(before) + 1] = page[1]
    <3>1. Len(before) + 1 \in 1..(Len(before) + Len(page)) /\ Len(before) + 1 > Len(before)
          /\ (Len(before) + 1) - Len(before) = 1
      BY <1>7, <2>1
    <3> QED
      BY <1>3, <1>4, <1>6, <3>1
  <2>4. /\ Len(all) = Len(more) + Len(t)
        /\ \A k \in 1..Len(more) : all[k] = more[k]
    <3>1. /\ Len(more \o t) = Len(more) + Len(t)
          /\ \A k \in 1..Len(more) : (more \o t)[k] = more[k]
      BY <2>2, JoinIs
    <3> QED
      BY <1>5, <3>1
  <2>5. \A k \in 1..Len(before) : k \in 1..Len(more)
    BY <1>7, <2>1, <2>2
  <2>6. Len(before) + 1 \in 1..Len(more)
    BY <1>7, <2>1, <2>2
  <2> QED
    BY <2>1, <2>2, <2>3, <2>4, <2>5, <2>6
<1>9. Len(before) + 1 \in 1..Len(all) /\ Len(before) + 1 \notin 1..Len(before)
      /\ \A k \in 1..Len(before) : k \in 1..Len(all)
  BY <1>7, <1>8
<1>10. old \subseteq new /\ Len(before) + 1 \in new /\ Len(before) + 1 \notin old
  BY <1>8, <1>9
<1>11. IsFiniteSet(new)
  <2>1. Len(all) \in Nat /\ 1 \in Int /\ Len(all) \in Int
    BY <1>4
  <2>2. IsFiniteSet(1..Len(all))
    BY <2>1, FS_Interval
  <2>3. new \in SUBSET (1..Len(all))
    OBVIOUS
  <2> QED
    BY <2>2, <2>3, FS_Subset
<1>12. Len(Of(id, before)) = Cardinality(old) /\ Len(Of(id, all)) = Cardinality(new)
  <2>1. old = PlacesOf(id, before)
    BY DEF PlacesOf
  <2>2. new = PlacesOf(id, all)
    BY DEF PlacesOf
  <2> HIDE DEF id, old, new
  <2>3. Len(Of(id, before)) = Cardinality(old)
    BY <1>4, <2>1, OfCounts
  <2>4. Len(Of(id, all)) = Cardinality(new)
    BY <1>4, <2>2, OfCounts
  <2> QED
    BY <2>3, <2>4
<1>13. id \in DOMAIN Inputs(d)
  <2>1. id \in {all[k].id : k \in 1..Len(all)}
    BY <1>8, <1>9
  <2> QED
    BY <2>1, InputsAre DEF all
<1> HIDE DEF old, new, id
<1>14. Cardinality(old) < Cardinality(new)
  <2>1. old \in SUBSET new
    BY <1>10
  <2>2. IsFiniteSet(old) /\ Cardinality(old) <= Cardinality(new) /\ (Cardinality(old) = Cardinality(new) => new = old)
    BY <1>11, <2>1, FS_Subset
  <2>3. new # old
    BY <1>10
  <2>4. Cardinality(old) \in Nat /\ Cardinality(new) \in Nat
    BY <1>11, <2>2, FS_CardinalityType
  <2> QED
    BY <2>2, <2>3, <2>4
<1> QED
  BY <1>12, <1>13, <1>14 DEF before, all


\* A file holds of each metric what it was built from.
LEMMA HeldOf ==
    ASSUME NEW pages \in Seq(Page), NEW f, Faithful(f, pages), f.version \in {1, 2},
           NEW k \in DOMAIN f.metrics
    PROVE  /\ f.metrics[k].id \in DOMAIN Inputs(pages)
           /\ Len(f.metrics[k].values) = Len(Inputs(pages)[f.metrics[k].id])
           /\ SamplesOf(f.metrics[k], FrameTimes(f, f.metrics[k])) = Inputs(pages)[f.metrics[k].id]
<1> DEFINE N == Cardinality(DOMAIN Inputs(pages))
           m == f.metrics[k]
           s == Inputs(pages)[Ids(pages)[k]]
<1>1. Climbing(Ids(pages), N, DOMAIN Inputs(pages))
  BY IdsAre
<1>2. DOMAIN f.metrics = 1..N
  BY DEF Faithful
<1>3. k \in 1..N /\ m.id = Ids(pages)[k] /\ Keeps(f, m, s)
  BY <1>2 DEF Faithful
<1>4. m.id \in DOMAIN Inputs(pages) /\ s = Inputs(pages)[m.id]
  BY <1>1, <1>3 DEF Climbing
<1> HIDE DEF m, s
<1>5. Len(m.values) = Len(s) /\ SamplesOf(m, FrameTimes(f, m)) = s
  BY <1>3 DEF Keeps, FrameTimes
<1> QED
  BY <1>4, <1>5 DEF m

LEMMA HeldAll ==
    ASSUME NEW pages \in Seq(Page), NEW f, Faithful(f, pages), NEW id \in DOMAIN Inputs(pages)
    PROVE  \E k \in DOMAIN f.metrics : f.metrics[k].id = id
<1> DEFINE N == Cardinality(DOMAIN Inputs(pages))
<1>1. Climbing(Ids(pages), N, DOMAIN Inputs(pages))
  BY IdsAre
<1>2. DOMAIN f.metrics = 1..N
  BY DEF Faithful
<1>3. PICK k \in 1..N : Ids(pages)[k] = id
  BY <1>1 DEF Climbing
<1>4. f.metrics[k].id = id
  BY <1>3 DEF Faithful
<1> QED
  BY <1>2, <1>4

\* A file compares as equal with the pages it was built from, and with no more of them.
LEMMA CompareIs ==
    ASSUME NEW d \in Seq(Page), NEW f, f.version \in {1, 2}, f.from \in 0..Len(d),
           Faithful(f, SubSeq(d, 1, f.from))
    PROVE  Compare(f, d) <=> f.from = Len(d)
<1> DEFINE pages == SubSeq(d, 1, f.from)
           expected == Inputs(d)
           held(id) == {k \in DOMAIN f.metrics : f.metrics[k].id = id}
<1>1. pages \in Seq(Page) /\ f.from \in Nat /\ Len(d) \in Nat
  OBVIOUS
<1>2. Compare(f, d) <=> /\ PrefixesMatch(f, d)
                        /\ \A id \in DOMAIN expected : \E k \in held(id) :
                               Len(f.metrics[k].values) = Len(expected[id])
  BY DEF Compare
<1>3. ASSUME f.from = Len(d) PROVE Compare(f, d)
  <2>1. pages = d
    BY <1>3
  <2>2. Faithful(f, d)
    BY <2>1
  <2>3. PrefixesMatch(f, d)
    <3> SUFFICES ASSUME NEW k \in DOMAIN f.metrics
                 PROVE  /\ f.metrics[k].id \in DOMAIN Inputs(d)
                        /\ IsPrefix(SamplesOf(f.metrics[k], FrameTimes(f, f.metrics[k])), Inputs(d)[f.metrics[k].id])
      BY DEF PrefixesMatch
    <3> DEFINE s == Inputs(d)[f.metrics[k].id]
    <3>1. f.metrics[k].id \in DOMAIN Inputs(d) /\ SamplesOf(f.metrics[k], FrameTimes(f, f.metrics[k])) = s
      BY <2>2, HeldOf
    <3>2. s \in Seq(Sample)
      BY <3>1, InputsAre DEF InputsOK
    <3> HIDE DEF s
    <3>3. IsPrefix(s, s)
      BY <3>2 DEF IsPrefix
    <3> QED
      BY <3>1, <3>3 DEF s
  <2>4. ASSUME NEW id \in DOMAIN expected
        PROVE  \E k \in held(id) : Len(f.metrics[k].values) = Len(expected[id])
    <3>1. PICK k \in DOMAIN f.metrics : f.metrics[k].id = id
      BY <2>2, <2>4, HeldAll
    <3>2. Len(f.metrics[k].values) = Len(expected[id])
      BY <2>2, <3>1, HeldOf
    <3> QED
      BY <3>1, <3>2
  <2> QED
    BY <1>2, <2>3, <2>4
<1>4. ASSUME f.from < Len(d), Compare(f, d) PROVE FALSE
  <2>1. PICK id \in DOMAIN expected : Len(Of(id, FlattenSeq(pages))) < Len(Of(id, FlattenSeq(d)))
    BY <1>1, <1>4, MoreOfSome
  <2>2. PICK k \in held(id) : Len(f.metrics[k].values) = Len(expected[id])
    BY <1>2, <1>4, <2>1
  <2>3. k \in DOMAIN f.metrics /\ f.metrics[k].id = id
    BY <2>2
  <2> HIDE DEF held, pages
  <2>4. id \in DOMAIN Inputs(pages) /\ Len(f.metrics[k].values) = Len(Inputs(pages)[id])
    BY <1>1, <2>3, HeldOf DEF pages
  <2>5. Len(Inputs(pages)[id]) = Len(Of(id, FlattenSeq(pages))) /\ Len(expected[id]) = Len(Of(id, FlattenSeq(d)))
    BY <1>1, <2>1, <2>4, InputsAre
  <2>6. FlattenSeq(pages) \in Seq(Sample) /\ FlattenSeq(d) \in Seq(Sample)
    BY <1>1, AllIs
  <2>7. Of(id, FlattenSeq(pages)) \in Seq(Sample) /\ Of(id, FlattenSeq(d)) \in Seq(Sample)
    BY <2>6, OfIs
  <2>8. \A a, b \in Nat : a < b => a # b
    OBVIOUS
  <2>9. Len(Of(id, FlattenSeq(pages))) \in Nat /\ Len(Of(id, FlattenSeq(d))) \in Nat
    BY <2>7
  <2> QED
    BY <2>1, <2>2, <2>4, <2>5, <2>8, <2>9
<1> QED
  BY <1>1, <1>3, <1>4

LEMMA InvCompares == MetricInv => CompareAgrees
<1> SUFFICES ASSUME MetricInv, file # NoFile
             PROVE  CompareDataAndMetricPartition <=> file.from = Len(data)
  BY DEF CompareAgrees
<1>1. PICK h : Kept(h)
  BY DEF MetricInv
<1>2. Built(h, builds, data) /\ OneOf(file, h, builds) /\ data \in Seq(Page) /\ builds \in Nat
  BY <1>1 DEF Kept, MetricInv
<1>3. file.version \in {1, 2} /\ file.from \in 0..Len(data) /\ Faithful(file, SubSeq(data, 1, file.from))
  BY <1>2, BuiltIs
<1>4. Compare(file, data) <=> file.from = Len(data)
  BY <1>2, <1>3, CompareIs
<1> QED
  BY <1>4 DEF CompareDataAndMetricPartition

\* CompareDataAndMetricPartition tells a metric file that holds all of the data file from one
\* the data file outgrew, in either version of the file.
THEOREM ComparisonFindsGrowth == Spec => []CompareAgrees
<1>1. Init => MetricInv
  BY InvInit
<1>2. MetricInv /\ [Next]_vars => MetricInv'
  BY InvNext
<1>3. MetricInv => CompareAgrees
  BY InvCompares
<1> QED
  BY <1>1, <1>2, <1>3, PTL DEF Spec

(***************************************************************************)
(* Picking the elements of a sequence twice, or of its parts.              *)
(***************************************************************************)

\* A set of places is enumerated upwards in one way.
LEMMA ClimbingIs ==
    ASSUME NEW m \in Nat, NEW K, K \subseteq Nat, NEW e, Climbing(e, m, K)
    PROVE  /\ IsFiniteSet(K) /\ Cardinality(K) = m /\ e = Sorted(K, Less(K))
<1>1. /\ e \in [1..m -> K]
      /\ \A i, j \in 1..m : i < j => e[i] < e[j]
      /\ \A x \in K : \E i \in 1..m : e[i] = x
  BY DEF Climbing, Rising
<1>2. \A i, j \in 1..m : e[i] = e[j] => i = j
  <2> SUFFICES ASSUME NEW i \in 1..m, NEW j \in 1..m, e[i] = e[j], i # j PROVE FALSE
    OBVIOUS
  <2>1. e[i] \in Nat /\ e[j] \in Nat
    BY <1>1
  <2>2. i < j \/ j < i
    OBVIOUS
  <2>3. e[i] < e[j] \/ e[j] < e[i]
    BY <1>1, <2>2
  <2> QED
    BY <2>1, <2>3
<1>3. \A n \in 0..m : IsFiniteSet(1..n) /\ Cardinality(1..n) = n
  <2> SUFFICES ASSUME NEW n \in 0..m PROVE IsFiniteSet(1..n) /\ Cardinality(1..n) = n
    OBVIOUS
  <2>1. 1 \in Int /\ n \in Int /\ n \in Nat
    OBVIOUS
  <2>2. IsFiniteSet(1..n) /\ Cardinality(1..n) = IF 1 > n THEN 0 ELSE n - 1 + 1
    BY <2>1, FS_Interval
  <2> QED
    BY <2>1, <2>2
<1>4. \A n \in 0..m : LET B == {e[i] : i \in 1..n} IN IsFiniteSet(B) /\ Cardinality(B) = n
  <2> SUFFICES ASSUME NEW n \in 0..m
               PROVE  IsFiniteSet({e[i] : i \in 1..n}) /\ Cardinality({e[i] : i \in 1..n}) = n
    OBVIOUS
  <2> DEFINE B == {e[i] : i \in 1..n}
             f == [i \in 1..n |-> e[i]]
  <2>1. \A i \in 1..n : i \in 1..m
    OBVIOUS
  <2>2. f \in [1..n -> B]
    OBVIOUS
  <2>3. \A x \in B : \E i \in 1..n : f[i] = x
    OBVIOUS
  <2>4. \A i, j \in 1..n : f[i] = f[j] => i = j
    BY <1>2, <2>1
  <2> HIDE DEF f, B
  <2>5. f \in Bijection(1..n, B)
    BY <2>2, <2>3, <2>4 DEF Bijection, Injection, Surjection, IsInjective
  <2>6. IsFiniteSet(1..n) /\ Cardinality(1..n) = n
    BY <1>3
  <2>7. IsFiniteSet(B) /\ Cardinality(B) = Cardinality(1..n)
    BY <2>5, <2>6, FS_Bijection DEF ExistsBijection
  <2> QED
    BY <2>6, <2>7 DEF B
<1>5. K = {e[i] : i \in 1..m}
  BY <1>1
<1>6. IsFiniteSet(K) /\ Cardinality(K) = m
  BY <1>4, <1>5
<1>7. ASSUME NEW k \in 1..m
      PROVE  e[k] = CHOOSE x \in K : Cardinality({y \in K : <<y, x>> \in Less(K)}) = k - 1
  <2> DEFINE under(x) == {y \in K : <<y, x>> \in Less(K)}
  <2>1. ASSUME NEW i \in 1..m PROVE Cardinality(under(e[i])) = i - 1
    <3>1. \A y \in K : <<y, e[i]>> \in Less(K) <=> y < e[i]
      BY <1>1 DEF Less
    <3>2. under(e[i]) = {e[j] : j \in 1..(i - 1)}
      <4>1. ASSUME NEW j \in 1..m PROVE e[j] < e[i] <=> j < i
        <5>1. e[i] \in Nat /\ e[j] \in Nat
          BY <1>1
        <5>2. j < i \/ j = i \/ i < j
          OBVIOUS
        <5>3. i < j => e[i] < e[j]
          BY <1>1
        <5>4. j < i => e[j] < e[i]
          BY <1>1
        <5> QED
          BY <5>1, <5>2, <5>3, <5>4
      <4>2. \A j \in 1..(i - 1) : j \in 1..m /\ j < i /\ e[j] \in K
        BY <1>1
      <4>3. \A y \in under(e[i]) : \E j \in 1..(i - 1) : y = e[j]
        <5> SUFFICES ASSUME NEW y \in K, y < e[i] PROVE \E j \in 1..(i - 1) : y = e[j]
          BY <3>1
        <5>1. PICK j \in 1..m : e[j] = y
          BY <1>1
        <5>2. j \in 1..(i - 1)
          BY <4>1, <5>1
        <5> QED
          BY <5>1, <5>2
      <4>4. \A j \in 1..(i - 1) : e[j] \in under(e[i])
        BY <3>1, <4>1, <4>2
      <4> HIDE DEF under
      <4> QED
        BY <4>3, <4>4
    <3>3. i - 1 \in 0..m
      OBVIOUS
    <3> QED
      BY <1>4, <3>2, <3>3
  <2> HIDE DEF under
  <2>2. \A x \in K : Cardinality(under(x)) = k - 1 => x = e[k]
    <3> SUFFICES ASSUME NEW x \in K, Cardinality(under(x)) = k - 1 PROVE x = e[k]
      OBVIOUS
    <3>1. PICK i \in 1..m : e[i] = x
      BY <1>1
    <3>2. i - 1 = k - 1
      BY <2>1, <3>1
    <3>3. i = k
      BY <3>2
    <3> QED
      BY <3>1, <3>3
  <2>3. e[k] \in K /\ Cardinality(under(e[k])) = k - 1
    BY <1>1, <2>1
  <2>4. e[k] = CHOOSE x \in K : Cardinality(under(x)) = k - 1
    BY <2>2, <2>3
  <2> QED
    BY <2>4 DEF under
<1>8. e = Sorted(K, Less(K))
  <2> DEFINE c(k) == CHOOSE x \in K : Cardinality({y \in K : <<y, x>> \in Less(K)}) = k - 1
  <2>1. Sorted(K, Less(K)) = [k \in 1..m |-> c(k)]
    BY <1>6, Zenon DEF Sorted
  <2>2. \A k \in 1..m : e[k] = c(k)
    BY <1>7
  <2>3. e = [k \in 1..m |-> e[k]]
    BY <1>1
  <2> HIDE DEF c
  <2> QED
    BY <2>1, <2>2, <2>3
<1> QED
  BY <1>6, <1>8

\* t lists the elements of s at the places of e.
Through(t, m, e, s) ==
    t = [k \in 1..m |-> t[k]] /\ DOMAIN t = 1..m /\ \A k \in 1..m : t[k] = s[e[k]]

\* So what is picked is known from any way to enumerate the places upwards.
LEMMA PickedBy ==
    ASSUME NEW m \in Nat, NEW K, K \subseteq Nat, NEW e, Climbing(e, m, K), NEW s
    PROVE  Through(Picked(s, K), m, e, s)
<1>1. e = Sorted(K, Less(K)) /\ DOMAIN e = 1..m
  BY ClimbingIs DEF Climbing
<1> DEFINE places == Sorted(K, Less(K))
<1>2. Picked(s, K) = [k \in DOMAIN places |-> s[places[k]]]
  BY DEF Picked
<1>3. Picked(s, K) = [k \in 1..m |-> s[e[k]]]
  BY <1>1, <1>2
<1> QED
  BY <1>3 DEF Through

LEMMA FiniteIs ==
    ASSUME NEW n \in Nat, NEW K, K \subseteq 1..n
    PROVE  IsFiniteSet(K) /\ Cardinality(K) \in Nat /\ K \subseteq Nat /\ K \subseteq Int
<1>1. 1 \in Int /\ n \in Int
  OBVIOUS
<1>2. IsFiniteSet(1..n)
  BY <1>1, FS_Interval
<1>3. K \in SUBSET (1..n)
  OBVIOUS
<1>4. IsFiniteSet(K)
  BY <1>2, <1>3, FS_Subset
<1>5. Cardinality(K) \in Nat
  BY <1>4, FS_CardinalityType
<1> QED
  BY <1>4, <1>5

\* The places K of a sequence, m of them, from the lowest on; those of L lead to M.
Steps(e, m, K) == m \in Nat /\ K \subseteq Nat /\ Climbing(e, m, K)
Reaches(e, m, L, M) ==
    /\ L \subseteq 1..m
    /\ (\A j \in L : e[j] \in M) /\ \A x \in M : \E j \in L : e[j] = x

LEMMA PickTwice ==
    ASSUME NEW K, NEW m, NEW e, Steps(e, m, K), NEW L, NEW M, Reaches(e, m, L, M), NEW s
    PROVE  Picked(Picked(s, K), L) = Picked(s, M)
<1> DEFINE p == Cardinality(L)
           l == Sorted(L, Less(L))
           g == [k \in 1..p |-> e[l[k]]]
           t == Picked(s, K)
<1>0. /\ (\A j \in L : e[j] \in M) /\ \A x \in M : \E j \in L : e[j] = x
      /\ L \subseteq 1..m /\ m \in Nat /\ K \subseteq Nat /\ Climbing(e, m, K)
  BY DEF Reaches, Steps
<1>1. p \in Nat /\ Climbing(l, p, L) /\ L \subseteq Nat
  BY <1>0, FiniteIs, SortedClimbs
<1>3. \A k \in 1..m : t[k] = s[e[k]]
  <2>1. Through(t, m, e, s)
    BY <1>0, PickedBy
  <2> QED
    BY <2>1 DEF Through
<1> HIDE DEF p, l, t
<1>4. Picked(t, L) = [k \in 1..p |-> Picked(t, L)[k]] /\ \A k \in 1..p : Picked(t, L)[k] = t[l[k]]
  <2>1. Through(Picked(t, L), p, l, t)
    BY <1>1, PickedBy
  <2> QED
    BY <2>1 DEF Through
<1>5. /\ l \in [1..p -> L]
      /\ \A i, j \in 1..p : i < j => l[i] < l[j]
      /\ \A x \in L : \E i \in 1..p : l[i] = x
  BY <1>1 DEF Climbing, Rising
<1>6. \A k \in 1..p : l[k] \in L /\ l[k] \in 1..m
  BY <1>0, <1>5
<1>7. /\ e \in [1..m -> K]
      /\ \A i, j \in 1..m : i < j => e[i] < e[j]
  BY <1>0 DEF Climbing, Rising
<1>8. \A k \in 1..p : t[l[k]] = s[g[k]]
  BY <1>3, <1>6
<1>9. Climbing(g, p, M)
  <2>1. g \in [1..p -> M]
    BY <1>0, <1>6
  <2>2. \A i, j \in 1..p : i < j => g[i] < g[j]
    BY <1>5, <1>6, <1>7
  <2>3. \A x \in M : \E i \in 1..p : g[i] = x
    <3> SUFFICES ASSUME NEW x \in M PROVE \E i \in 1..p : g[i] = x
      OBVIOUS
    <3>1. PICK j \in L : e[j] = x
      BY <1>0
    <3>2. PICK i \in 1..p : l[i] = j
      BY <1>5
    <3> QED
      BY <3>1, <3>2
  <2>4. DOMAIN g = 1..p
    OBVIOUS
  <2> HIDE DEF g
  <2> QED
    BY <2>1, <2>2, <2>3, <2>4 DEF Climbing, Rising
<1>10. M \subseteq Nat
  <2>1. \A j \in L : e[j] \in K
    BY <1>0, <1>7
  <2> QED
    BY <1>0, <2>1
<1> HIDE DEF g
<1>11. Picked(s, M) = [k \in 1..p |-> Picked(s, M)[k]] /\ \A k \in 1..p : Picked(s, M)[k] = s[g[k]]
  <2>1. Through(Picked(s, M), p, g, s)
    BY <1>1, <1>9, <1>10, PickedBy
  <2> QED
    BY <2>1 DEF Through
<1>12. \A k \in 1..p : Picked(t, L)[k] = Picked(s, M)[k]
  BY <1>4, <1>8, <1>11
<1>13. Picked(t, L) = Picked(s, M)
  BY <1>4, <1>11, <1>12
<1> QED
  BY <1>13 DEF t

(***************************************************************************)
(* The elements of a sequence that are in a set.                           *)
(***************************************************************************)
Those(s, P) == Picked(s, {k \in DOMAIN s : s[k] \in P})

LEMMA ThoseTwice ==
    ASSUME NEW S, NEW s \in Seq(S), NEW P, NEW Q
    PROVE  Those(s, P) \in Seq(S) /\ Those(Those(s, P), Q) = Those(s, P \cap Q)
<1> DEFINE K == {k \in DOMAIN s : s[k] \in P}
           t == Picked(s, K)
           L == {j \in DOMAIN t : t[j] \in Q}
           M == {k \in DOMAIN s : s[k] \in P \cap Q}
<1>1. DOMAIN s = 1..Len(s) /\ Len(s) \in Nat
  OBVIOUS
<1>2. K \subseteq 1..Len(s) /\ \A k \in 1..Len(s) : k \in K <=> s[k] \in P
  BY <1>1
<1>3. \A k \in 1..Len(s) : k \in M <=> (k \in K /\ s[k] \in Q)
  BY <1>1
<1>4. M \subseteq 1..Len(s)
  BY <1>1
<1>5. Those(s, P) = t /\ Those(t, Q) = Picked(t, L) /\ Those(s, P \cap Q) = Picked(s, M)
  BY DEF Those
<1> HIDE DEF K, M
<1>6. t \in Seq(S) /\ \E m \in Nat : \E e : Picks(s, K, m, e)
  BY <1>2, PickedIs
<1>7a. PICK m \in Nat : \E e : Picks(s, K, m, e)
  BY <1>6
<1>7. PICK e : Picks(s, K, m, e)
  BY <1>7a
<1>8. Climbing(e, m, K) /\ t = [k \in 1..m |-> s[e[k]]]
  BY <1>7 DEF Picks
<1> HIDE DEF t
<1>9. e \in [1..m -> K] /\ \A x \in K : \E i \in 1..m : e[i] = x
  BY <1>8 DEF Climbing
<1>10. L \subseteq 1..m /\ \A j \in 1..m : j \in L <=> s[e[j]] \in Q
  BY <1>8
<1> HIDE DEF L
<1>11. Reaches(e, m, L, M)
  <2>1. \A j \in L : e[j] \in M
    BY <1>2, <1>3, <1>9, <1>10
  <2>2. \A x \in M : \E j \in L : e[j] = x
    <3> SUFFICES ASSUME NEW x \in M PROVE \E j \in L : e[j] = x
      OBVIOUS
    <3>1. x \in K /\ s[x] \in Q
      BY <1>3, <1>4
    <3>2. PICK j \in 1..m : e[j] = x
      BY <1>9, <3>1
    <3> QED
      BY <1>10, <3>1, <3>2
  <2> QED
    BY <1>10, <2>1, <2>2 DEF Reaches
<1>12. Picked(t, L) = Picked(s, M)
  <2>1. K \subseteq Nat
    BY <1>1, <1>2
  <2> QED
    BY <1>8, <1>11, <2>1, PickTwice DEF t, Steps
<1> QED
  BY <1>5, <1>6, <1>11, <1>12


LEMMA ThoseJoin ==
    ASSUME NEW S, NEW s \in Seq(S), NEW t \in Seq(S), NEW P
    PROVE  Those(s \o t, P) = Those(s, P) \o Those(t, P)
<1> DEFINE K == {k \in DOMAIN s : s[k] \in P}
           L == {k \in DOMAIN t : t[k] \in P}
           u == s \o t
           M == {k \in DOMAIN u : u[k] \in P}
           n == Len(s)
           x == Picked(s, K)
           y == Picked(t, L)
           z == Picked(u, M)
<1>1. /\ DOMAIN s = 1..n /\ n \in Nat /\ DOMAIN t = 1..Len(t) /\ Len(t) \in Nat
      /\ u \in Seq(S) /\ Len(u) = n + Len(t) /\ DOMAIN u = 1..(n + Len(t))
      /\ (\A k \in 1..n : u[k] = s[k]) /\ (\A k \in 1..Len(t) : u[n + k] = t[k])
  OBVIOUS
<1>2. Those(s, P) = x /\ Those(t, P) = y /\ Those(u, P) = z
  BY DEF Those
<1> HIDE DEF u
<1>3. K \subseteq 1..n /\ L \subseteq 1..Len(t) /\ M \subseteq 1..(n + Len(t))
      /\ (\A k \in 1..n : k \in K <=> s[k] \in P) /\ (\A k \in 1..Len(t) : k \in L <=> t[k] \in P)
      /\ (\A k \in 1..(n + Len(t)) : k \in M <=> u[k] \in P)
  BY <1>1
<1> HIDE DEF K, L, M, n
<1>4. K \subseteq Nat /\ L \subseteq Nat /\ M \subseteq Nat
  BY <1>1, <1>3
<1>5. x \in Seq(S) /\ \E m \in Nat : \E e : Picks(s, K, m, e)
  BY <1>1, <1>3, PickedIs DEF n
<1>6a. PICK m \in Nat : \E e : Picks(s, K, m, e)
  BY <1>5
<1>6. PICK e : Picks(s, K, m, e)
  BY <1>6a
<1>7. y \in Seq(S) /\ \E p \in Nat : \E l : Picks(t, L, p, l)
  BY <1>1, <1>3, PickedIs
<1>8a. PICK p \in Nat : \E l : Picks(t, L, p, l)
  BY <1>7
<1>8. PICK l : Picks(t, L, p, l)
  BY <1>8a
<1>9. /\ Len(x) = m /\ x = [k \in 1..m |-> s[e[k]]] /\ e \in [1..m -> K]
      /\ (\A i, j \in 1..m : i < j => e[i] < e[j]) /\ \A a \in K : \E i \in 1..m : e[i] = a
  BY <1>6 DEF Picks, Climbing, Rising
<1>10. /\ Len(y) = p /\ y = [k \in 1..p |-> t[l[k]]] /\ l \in [1..p -> L]
       /\ (\A i, j \in 1..p : i < j => l[i] < l[j]) /\ \A a \in L : \E i \in 1..p : l[i] = a
  BY <1>8 DEF Picks, Climbing, Rising
<1> DEFINE g == [k \in 1..(m + p) |-> IF k <= m THEN e[k] ELSE n + l[k - m]]
           q == x \o y
<1>11. q \in Seq(S) /\ Len(q) = m + p
  BY <1>5, <1>7, <1>9, <1>10
<1>a. /\ \A k \in 1..m : k \in 1..(m + p) /\ k <= m /\ g[k] = e[k]
      /\ \A k \in 1..p : m + k \in 1..(m + p) /\ ~(m + k <= m) /\ (m + k) - m = k /\ g[m + k] = n + l[k]
      /\ \A k \in 1..(m + p) : k \in 1..m \/ (k - m \in 1..p /\ k = m + (k - m))
  OBVIOUS
<1>b. g \in [1..(m + p) -> M]
  <2>1. \A k \in 1..m : e[k] \in K /\ e[k] \in M
    <3>1. \A a \in K : a \in 1..n /\ a \in 1..(n + Len(t)) /\ s[a] \in P
      BY <1>1, <1>3
    <3>2. \A a \in K : a \in M
      BY <1>1, <1>3, <3>1
    <3> QED
      BY <1>9, <3>2
  <2>2. \A k \in 1..p : l[k] \in L /\ n + l[k] \in M
    <3> SUFFICES ASSUME NEW k \in 1..p PROVE l[k] \in L /\ n + l[k] \in M
      OBVIOUS
    <3>1. l[k] \in L /\ l[k] \in 1..Len(t)
      BY <1>3, <1>10
    <3>2. n + l[k] \in 1..(n + Len(t)) /\ u[n + l[k]] = t[l[k]]
      BY <1>1, <3>1
    <3> QED
      BY <1>3, <3>1, <3>2
  <2>3. ASSUME NEW k \in 1..(m + p) PROVE g[k] \in M
    <3>1. CASE k \in 1..m
      BY <1>a, <2>1, <3>1
    <3>2. CASE k - m \in 1..p /\ k = m + (k - m)
      BY <1>a, <2>2, <3>2
    <3> QED
      BY <1>a, <3>1, <3>2
  <2>4. g = [k \in 1..(m + p) |-> g[k]]
    OBVIOUS
  <2> HIDE DEF g
  <2> QED
    BY <2>3, <2>4
<1>c. DOMAIN g = 1..(m + p)
  OBVIOUS
<1> HIDE DEF g
<1>12. \A i, j \in 1..(m + p) : i < j => g[i] < g[j]
  <2> SUFFICES ASSUME NEW i \in 1..(m + p), NEW j \in 1..(m + p), i < j PROVE g[i] < g[j]
    OBVIOUS
  <2>1. CASE i \in 1..m /\ j \in 1..m
    BY <1>9, <1>a, <2>1
  <2>2. CASE i \in 1..m /\ j - m \in 1..p /\ j = m + (j - m)
    <3>1. e[i] \in 1..n /\ l[j - m] \in 1..Len(t)
      BY <1>3, <1>9, <1>10, <2>2
    <3>2. g[i] = e[i] /\ g[j] = n + l[j - m]
      BY <1>a, <2>2
    <3> QED
      BY <1>1, <3>1, <3>2
  <2>3. CASE i - m \in 1..p /\ i = m + (i - m) /\ j - m \in 1..p /\ j = m + (j - m)
    <3>0. i - m < j - m
      OBVIOUS
    <3>1. l[i - m] \in 1..Len(t) /\ l[j - m] \in 1..Len(t) /\ i - m < j - m
      <4>1. l[i - m] \in L /\ l[j - m] \in L
        BY <1>10, <2>3
      <4> QED
        BY <1>3, <3>0, <4>1
    <3>2. l[i - m] < l[j - m]
      BY <1>10, <2>3, <3>1
    <3>3. g[i] = n + l[i - m] /\ g[j] = n + l[j - m]
      BY <1>a, <2>3
    <3> QED
      BY <1>1, <3>1, <3>2, <3>3
  <2>4. ~(i - m \in 1..p /\ j \in 1..m)
    OBVIOUS
  <2> QED
    BY <1>a, <2>1, <2>2, <2>3, <2>4
<1>13. ASSUME NEW a \in M PROVE \E i \in 1..(m + p) : g[i] = a
  <2>1. a \in 1..(n + Len(t)) /\ u[a] \in P
    BY <1>3
  <2>2. CASE a \in 1..n
    <3>1. a \in K
      BY <1>1, <1>3, <2>1, <2>2
    <3>2. PICK i \in 1..m : e[i] = a
      BY <1>9, <3>1
    <3> QED
      BY <1>a, <3>2
  <2>3. CASE a \notin 1..n
    <3>1. a - n \in 1..Len(t) /\ a = n + (a - n)
      BY <1>1, <2>1, <2>3
    <3>2. a - n \in L
      BY <1>1, <1>3, <2>1, <3>1
    <3>3. PICK i \in 1..p : l[i] = a - n
      BY <1>10, <3>2
    <3>4. g[m + i] = a /\ m + i \in 1..(m + p)
      BY <1>a, <3>1, <3>3
    <3> QED
      BY <3>4
  <2> QED
    BY <2>2, <2>3
<1>14. Climbing(g, m + p, M)
  BY <1>b, <1>c, <1>12, <1>13 DEF Climbing, Rising
<1>15. Through(z, m + p, g, u)
  <2>1. m + p \in Nat
    OBVIOUS
  <2> QED
    BY <1>4, <1>14, <2>1, PickedBy
<1>16. ASSUME NEW k \in 1..(m + p) PROVE z[k] = q[k]
  <2>1. z[k] = u[g[k]]
    BY <1>15 DEF Through
  <2>2. CASE k \in 1..m
    <3>1. q[k] = x[k]
      BY <1>5, <1>7, <1>9, <1>10, <2>2
    <3>2. g[k] = e[k] /\ e[k] \in 1..n
      BY <1>a, <1>3, <1>9, <2>2
    <3> QED
      BY <1>1, <1>9, <2>1, <2>2, <3>1, <3>2
  <2>3. CASE k - m \in 1..p /\ k = m + (k - m)
    <3>1. q[k] = y[k - m]
      BY <1>5, <1>7, <1>9, <1>10, <2>3
    <3> DEFINE j == k - m
    <3>2. j \in 1..p /\ g[k] = n + l[j]
      BY <1>a, <2>3
    <3> HIDE DEF j
    <3>3. l[j] \in L
      BY <1>10, <3>2
    <3>4. l[j] \in 1..Len(t)
      BY <1>3, <3>3
    <3>5. u[n + l[j]] = t[l[j]]
      BY <1>1, <3>4
    <3>6. y[j] = t[l[j]]
      BY <1>10, <3>2
    <3>7. q[k] = y[j]
      BY <3>1 DEF j
    <3> QED
      BY <2>1, <3>2, <3>5, <3>6, <3>7
  <2> QED
    BY <1>a, <2>2, <2>3
<1> HIDE DEF x, y, z, q
<1>17. z = [k \in 1..(m + p) |-> z[k]]
  BY <1>15 DEF Through
<1>18. q = [k \in 1..(m + p) |-> q[k]]
  BY <1>11
<1>19. z = q
  BY <1>16, <1>17, <1>18
<1> QED
  BY <1>2, <1>19 DEF q, u


LEMMA ThoseNone == ASSUME NEW P PROVE Those(<<>>, P) = <<>>
<1> DEFINE K == {k \in DOMAIN <<>> : <<>>[k] \in P}
<1>1. K = {}
  OBVIOUS
<1>2. Those(<<>>, P) = Picked(<<>>, K)
  BY DEF Those
<1> QED
  BY <1>1, <1>2, PickedNone

\* Those of a sequence of sequences, joined, are the joined ones of each.
LEMMA ThoseFlat ==
    ASSUME NEW S, NEW f \in Seq(Seq(S)), NEW g \in Seq(Seq(S)), Len(g) = Len(f), NEW P,
           \A k \in 1..Len(f) : g[k] = Those(f[k], P)
    PROVE  Those(FlattenSeq(f), P) = FlattenSeq(g)
<1> DEFINE part(h, k) == FlattenSeq(SubSeq(h, 1, k))
           B == Seq(S)
           T == {k \in 0..Len(f) : Those(part(f, k), P) = part(g, k)}
<1>1. f \in Seq(B) /\ g \in Seq(B) /\ Len(f) \in Nat
  OBVIOUS
<1> HIDE DEF B
<1>2. /\ SubSeq(f, 1, 0) = <<>> /\ SubSeq(g, 1, 0) = <<>>
      /\ SubSeq(f, 1, Len(f)) = f /\ SubSeq(g, 1, Len(f)) = g
  BY <1>1
<1>3. 0 \in T
  <2>1. part(f, 0) = <<>> /\ part(g, 0) = <<>>
    BY <1>2, FlatEmpty
  <2> HIDE DEF part
  <2> QED
    BY <1>1, <2>1, ThoseNone
<1>4. ASSUME NEW k \in T, k \in 0..Len(f), k < Len(f) PROVE k + 1 \in T
  <2>1. k \in Nat /\ k + 1 <= Len(f) /\ k + 1 <= Len(g) /\ k + 1 \in 1..Len(f) /\ k + 1 \in 0..Len(f)
    BY <1>1, <1>4
  <2>2. part(f, k + 1) = part(f, k) \o f[k + 1]
    BY <2>1, FlatPrefix
  <2>3. part(g, k + 1) = part(g, k) \o g[k + 1]
    BY <2>1, FlatPrefix
  <2>4. SubSeq(f, 1, k) \in Seq(B) /\ f[k + 1] \in B
    BY <1>1, <2>1
  <2>5. part(f, k) \in Seq(S) /\ f[k + 1] \in Seq(S)
    BY <2>4, FlatTypes DEF B
  <2>6. Those(part(f, k), P) = part(g, k)
    BY <1>4
  <2> HIDE DEF part
  <2>7. Those(part(f, k) \o f[k + 1], P) = Those(part(f, k), P) \o Those(f[k + 1], P)
    <3> DEFINE a == part(f, k)
               b == f[k + 1]
    <3>1. a \in Seq(S) /\ b \in Seq(S)
      BY <2>5
    <3> HIDE DEF a, b
    <3>2. Those(a \o b, P) = Those(a, P) \o Those(b, P)
      BY <3>1, ThoseJoin
    <3> QED
      BY <3>2 DEF a, b
  <2>8. g[k + 1] = Those(f[k + 1], P)
    BY <2>1
  <2> QED
    BY <2>1, <2>2, <2>3, <2>6, <2>7, <2>8
<1> HIDE DEF T
<1>5. \A k \in 0..Len(f) : k \in T
  BY <1>1, <1>3, <1>4, Induct
<1>6. Len(f) \in T
  BY <1>1, <1>5
<1> QED
  BY <1>2, <1>6 DEF T

LEMMA SameSize ==
    ASSUME NEW A, NEW B, IsFiniteSet(A), NEW f \in [A -> B],
           \A x, y \in A : f[x] = f[y] => x = y, \A z \in B : \E x \in A : f[x] = z
    PROVE  Cardinality(A) = Cardinality(B)
<1>1. f \in Bijection(A, B)
  BY DEF Bijection, Injection, Surjection, IsInjective
<1> QED
  BY <1>1, FS_Bijection DEF ExistsBijection

(***************************************************************************)
(* Every stride-th sample of what is picked.                               *)
(***************************************************************************)
Wants(s, rq) == {k \in 1..Len(s) : Wanted(rq, s[k].ts)}
Before(s, rq, k) == {j \in Wants(s, rq) : j < k /\ s[j].id = s[k].id}
Due(s, rq) == {k \in Wants(s, rq) : (rq.seen + Cardinality(Before(s, rq, k))) % rq.stride = 0}

LEMMA StridedDue ==
    ASSUME NEW s \in Seq(Sample), NEW rq
    PROVE  Strided(s, rq) = Picked(s, Due(s, rq))
<1>1. DOMAIN s = 1..Len(s)
  BY SampleIs
<1> QED
  BY <1>1, Zenon DEF Strided, Due, Before, Wants

\* Picked so that of no metric a sample in the range is left out before one that is kept.
LEMMA StridedPicked ==
    ASSUME NEW s \in Seq(Sample), NEW rq, NEW K, K \subseteq 1..Len(s),
           \A k \in K : Before(s, rq, k) \subseteq K
    PROVE  Strided(Picked(s, K), rq) = Picked(s, Due(s, rq) \cap K)
<1> DEFINE y == Picked(s, K)
           L == Due(y, rq)
           M == Due(s, rq) \cap K
<1>1. y \in Seq(Sample) /\ \E m \in Nat : \E e : Picks(s, K, m, e)
  BY PickedIs
<1>2a. PICK m \in Nat : \E e : Picks(s, K, m, e)
  BY <1>1
<1>2. PICK e : Picks(s, K, m, e)
  BY <1>2a
<1>3. /\ Climbing(e, m, K) /\ Len(y) = m /\ y = [k \in 1..m |-> s[e[k]]] /\ e \in [1..m -> K]
      /\ (\A i, j \in 1..m : i < j => e[i] < e[j]) /\ \A a \in K : \E i \in 1..m : e[i] = a
  BY <1>2 DEF Picks, Climbing, Rising
<1> HIDE DEF y
<1>4. Strided(y, rq) = Picked(y, L)
  BY <1>1, StridedDue
<1>5. Len(s) \in Nat /\ K \subseteq Nat
  BY SampleIs
<1>6. \A j \in 1..m : e[j] \in K /\ e[j] \in 1..Len(s) /\ e[j] \in Nat /\ y[j] = s[e[j]]
  BY <1>3, <1>5
<1>7. \A i, j \in 1..m : (e[i] < e[j] <=> i < j) /\ (e[i] = e[j] => i = j)
  <2> SUFFICES ASSUME NEW i \in 1..m, NEW j \in 1..m PROVE (e[i] < e[j] <=> i < j) /\ (e[i] = e[j] => i = j)
    OBVIOUS
  <2>1. e[i] \in Nat /\ e[j] \in Nat
    BY <1>6
  <2>2. i < j \/ i = j \/ j < i
    OBVIOUS
  <2>3. (i < j => e[i] < e[j]) /\ (j < i => e[j] < e[i])
    BY <1>3
  <2> QED
    BY <2>1, <2>2, <2>3
<1>8. Wants(y, rq) \subseteq 1..m /\ \A j \in 1..m : j \in Wants(y, rq) <=> e[j] \in Wants(s, rq)
  BY <1>3, <1>6 DEF Wants
<1>9. ASSUME NEW j \in 1..m PROVE Cardinality(Before(y, rq, j)) = Cardinality(Before(s, rq, e[j]))
  <2> DEFINE A == Before(y, rq, j)
             B == Before(s, rq, e[j])
             f == [i \in A |-> e[i]]
  <2>1. A \subseteq 1..m /\ \A i \in 1..m : i \in A <=> (i \in Wants(y, rq) /\ i < j /\ y[i].id = y[j].id)
    BY <1>8 DEF Before
  <2>2. B \subseteq K /\ \A x \in K : x \in B <=> (x \in Wants(s, rq) /\ x < e[j] /\ s[x].id = s[e[j]].id)
    <3>1. B \subseteq K
      BY <1>6
    <3> QED
      BY <3>1 DEF Before
  <2> HIDE DEF A, B
  <2>3. \A i \in 1..m : i \in A <=> e[i] \in B
    BY <1>6, <1>7, <1>8, <2>1, <2>2
  <2>4. f \in [A -> B]
    BY <2>1, <2>3
  <2>5. \A i, k \in A : f[i] = f[k] => i = k
    BY <1>7, <2>1
  <2>6. \A z \in B : \E i \in A : f[i] = z
    <3> SUFFICES ASSUME NEW z \in B PROVE \E i \in A : f[i] = z
      OBVIOUS
    <3>1. PICK i \in 1..m : e[i] = z
      BY <1>3, <2>2
    <3>2. i \in A
      BY <2>3, <3>1
    <3> QED
      BY <3>1, <3>2
  <2>7. IsFiniteSet(A)
    BY <2>1, FiniteIs
  <2> HIDE DEF f
  <2> QED
    BY <2>4, <2>5, <2>6, <2>7, SameSize DEF A, B
<1>10. L \subseteq 1..m /\ \A j \in 1..m : j \in L <=> e[j] \in Due(s, rq)
  BY <1>8, <1>9 DEF Due
<1> HIDE DEF L
<1>11. Reaches(e, m, L, M)
  <2>1. \A j \in L : e[j] \in M
    BY <1>6, <1>10
  <2>2. ASSUME NEW x \in M PROVE \E j \in L : e[j] = x
    <3>1. PICK j \in 1..m : e[j] = x
      BY <1>3
    <3> QED
      BY <1>10, <3>1
  <2> QED
    BY <1>10, <2>1, <2>2 DEF Reaches
<1> HIDE DEF M
<1>12. Picked(y, L) = Picked(s, M)
  <2>1. Steps(e, m, K)
    BY <1>3, <1>5 DEF Steps
  <2>2. Picked(Picked(s, K), L) = Picked(s, M)
    BY <1>11, <2>1, PickTwice
  <2> QED
    BY <2>2 DEF y
<1> QED
  BY <1>4, <1>12 DEF y, M

\* Those of what is picked.
PlacesIn(K, s) == K \subseteq 1..Len(s)
KeptOf(s, K, P) == {k \in K : s[k] \in P}

LEMMA PickedThose ==
    ASSUME NEW S, NEW s \in Seq(S), NEW K, PlacesIn(K, s), NEW P
    PROVE  Those(Picked(s, K), P) = Picked(s, KeptOf(s, K, P))
<1> DEFINE t == Picked(s, K)
           L == {j \in DOMAIN t : t[j] \in P}
           M == {k \in K : s[k] \in P}
<1>0. K \subseteq 1..Len(s) /\ KeptOf(s, K, P) = M
  BY DEF PlacesIn, KeptOf
<1>1. Those(t, P) = Picked(t, L)
  BY DEF Those
<1>2. \E m \in Nat : \E e : Picks(s, K, m, e)
  BY <1>0, PickedIs
<1>3a. PICK m \in Nat : \E e : Picks(s, K, m, e)
  BY <1>2
<1>3. PICK e : Picks(s, K, m, e)
  BY <1>3a
<1>4. /\ Climbing(e, m, K) /\ t = [k \in 1..m |-> s[e[k]]]
      /\ e \in [1..m -> K] /\ \A x \in K : \E i \in 1..m : e[i] = x
  BY <1>3 DEF Picks, Climbing
<1> HIDE DEF t
<1>5. L \subseteq 1..m /\ \A j \in 1..m : j \in L <=> s[e[j]] \in P
  BY <1>4
<1> HIDE DEF L
<1>6. Reaches(e, m, L, M)
  <2>1. \A j \in L : e[j] \in M
    BY <1>4, <1>5
  <2>2. ASSUME NEW x \in M PROVE \E j \in L : e[j] = x
    <3>1. PICK j \in 1..m : e[j] = x
      BY <1>4
    <3> QED
      BY <1>5, <3>1
  <2> QED
    BY <1>5, <2>1, <2>2 DEF Reaches
<1> HIDE DEF M
<1>7. Steps(e, m, K)
  BY <1>0, <1>4 DEF Steps
<1>8. Picked(Picked(s, K), L) = Picked(s, M)
  BY <1>6, <1>7, PickTwice
<1> QED
  BY <1>0, <1>1, <1>8 DEF t, M

\* All of a sequence.
LEMMA PickedAll ==
    ASSUME NEW S, NEW s \in Seq(S)
    PROVE  Picked(s, 1..Len(s)) = s
<1> DEFINE n == Len(s)
           e == [k \in 1..n |-> k]
           t == Picked(s, 1..n)
<1>1. n \in Nat /\ s = [k \in 1..n |-> s[k]] /\ 1..n \subseteq Nat
  OBVIOUS
<1>2. Climbing(e, n, 1..n)
  BY DEF Climbing, Rising
<1>3. \A k \in 1..n : e[k] = k
  OBVIOUS
<1> HIDE DEF n, e
<1>4. Through(t, n, e, s)
  BY <1>1, <1>2, PickedBy
<1> HIDE DEF t
<1>5. t = [k \in 1..n |-> t[k]] /\ \A k \in 1..n : t[k] = s[k]
  BY <1>3, <1>4 DEF Through
<1>6. t = s
  BY <1>1, <1>5
<1> QED
  BY <1>6 DEF t, n

\* The samples of one metric, those of several, and those in the range.
OfMetric(id)    == {x \in Sample : x.id = id}
OfMetrics(ids)  == {x \in Sample : x.id \in ids}
InRange(rq)     == {x \in Sample : Wanted(rq, x.ts)}

LEMMA OfThose ==
    ASSUME NEW s \in Seq(Sample), NEW id
    PROVE  Of(id, s) = Those(s, OfMetric(id))
<1>1. \A k \in 1..Len(s) : s[k].id = id <=> s[k] \in OfMetric(id)
  BY SampleIs DEF OfMetric
<1>2. DOMAIN s = 1..Len(s)
  BY SampleIs
<1>3. {k \in DOMAIN s : s[k].id = id} = {k \in DOMAIN s : s[k] \in OfMetric(id)}
  BY <1>1, <1>2
<1> QED
  BY <1>3 DEF Of, Those

LEMMA ThoseEmpty ==
    ASSUME NEW S, NEW s \in Seq(S), NEW P, \A k \in 1..Len(s) : s[k] \notin P
    PROVE  Those(s, P) = <<>>
<1>1. {k \in DOMAIN s : s[k] \in P} = {}
  OBVIOUS
<1> QED
  BY <1>1, PickedNone DEF Those

LEMMA ThoseAll ==
    ASSUME NEW S, NEW s \in Seq(S), NEW P, \A k \in 1..Len(s) : s[k] \in P
    PROVE  Those(s, P) = s
<1>1. {k \in DOMAIN s : s[k] \in P} = 1..Len(s)
  OBVIOUS
<1> QED
  BY <1>1, PickedAll DEF Those

\* Of one metric, every stride-th of a stream is every stride-th of the metric's.
LEMMA StridedOf ==
    ASSUME NEW s \in Seq(Sample), NEW rq, NEW id
    PROVE  Of(id, Strided(s, rq)) = Strided(Of(id, s), rq)
<1> DEFINE D == Due(s, rq)
           K == {k \in 1..Len(s) : s[k].id = id}
           M == {k \in D : s[k] \in OfMetric(id)}
           t == Picked(s, D)
<1>1. DOMAIN s = 1..Len(s) /\ D \subseteq 1..Len(s) /\ K \subseteq 1..Len(s)
  BY SampleIs DEF Due, Wants
<1>2. Strided(s, rq) = t
  BY StridedDue
<1>3. t \in Seq(Sample)
  BY <1>1, PickedIs
<1> HIDE DEF D
<1>4. Of(id, t) = Those(t, OfMetric(id))
  <2> HIDE DEF t
  <2> QED
    BY <1>3, OfThose
<1>5. Those(Picked(s, D), OfMetric(id)) = Picked(s, M)
  <2>1. PlacesIn(D, s) /\ KeptOf(s, D, OfMetric(id)) = M
    BY <1>1, Zenon DEF PlacesIn, KeptOf
  <2> QED
    BY <2>1, PickedThose
<1>6. Of(id, s) = Picked(s, K)
  BY <1>1 DEF Of
<1>7. \A k \in K : Before(s, rq, k) \subseteq K
  BY DEF Before, Wants
<1>8. M = D \cap K
  BY <1>1, SampleIs DEF OfMetric
<1> HIDE DEF K, M, t
<1>9. Strided(Picked(s, K), rq) = Picked(s, D \cap K)
  BY <1>1, <1>7, StridedPicked DEF D
<1> QED
  BY <1>2, <1>4, <1>5, <1>6, <1>8, <1>9 DEF t

\* A sample out of the range makes no difference.
LEMMA StridedInRange ==
    ASSUME NEW s \in Seq(Sample), NEW rq
    PROVE  Strided(Those(s, InRange(rq)), rq) = Strided(s, rq)
<1> DEFINE D == Due(s, rq)
           K == Wants(s, rq)
<1>1. DOMAIN s = 1..Len(s) /\ D \subseteq K /\ K \subseteq 1..Len(s)
  BY SampleIs DEF Due, Wants
<1>2. {k \in DOMAIN s : s[k] \in InRange(rq)} = K
  BY <1>1, SampleIs DEF InRange, Wants
<1>3. Those(s, InRange(rq)) = Picked(s, K)
  BY <1>2 DEF Those
<1>4. \A k \in K : Before(s, rq, k) \subseteq K
  BY DEF Before
<1>5. D \cap K = D
  BY <1>1
<1> HIDE DEF D, K
<1>6. Strided(Picked(s, K), rq) = Picked(s, D \cap K)
  BY <1>1, <1>4, StridedPicked DEF D
<1>7. Strided(s, rq) = Picked(s, D)
  BY StridedDue DEF D
<1> QED
  BY <1>3, <1>5, <1>6, <1>7

LEMMA FlatOne ==
    ASSUME NEW S, NEW s \in Seq(S)
    PROVE  FlattenSeq(<<s>>) = s
<1>1. <<>> \in Seq(Seq(S)) /\ Append(<<>>, s) = <<s>>
  OBVIOUS
<1>2. FlattenSeq(Append(<<>>, s)) = FlattenSeq(<<>>) \o s
  BY <1>1, FlatAppend
<1>3. <<>> \o s = s
  OBVIOUS
<1> QED
  BY <1>1, <1>2, <1>3, FlatEmpty

\* A page passed over has no sample in the range.
LEMMA OutsideIs ==
    ASSUME NEW page \in Page, NEW rq \in Request, OutsideHeader(rq, page)
    PROVE  Those(page, InRange(rq)) = <<>>
<1>1. page \in Seq(Sample) /\ page # <<>> /\ InTime(page)
  BY DEF Page, PagesOf
<1>2. /\ Len(page) \in Nat /\ 1 \in 1..Len(page) /\ Len(page) \in 1..Len(page)
      /\ Last(page) = page[Len(page)]
  BY <1>1 DEF Last
<1>3. ASSUME NEW k \in 1..Len(page) PROVE page[k] \notin InRange(rq)
  <2>1. page[1].ts <= page[k].ts
    <3>1. k = 1 \/ 1 < k
      BY <1>2
    <3>2. page[1].ts \in Int
      BY <1>1, <1>2, SampleIs
    <3> QED
      BY <1>1, <1>2, <3>1, <3>2 DEF InTime
  <2>2. page[k].ts <= page[Len(page)].ts
    <3>1. k = Len(page) \/ k < Len(page)
      BY <1>2
    <3>2. page[k].ts \in Int
      BY <1>1, SampleIs
    <3> QED
      BY <1>1, <1>2, <3>1, <3>2 DEF InTime
  <2>3. page[1].ts \in Int /\ page[k].ts \in Int /\ page[Len(page)].ts \in Int
    BY <1>1, <1>2, SampleIs
  <2>4. rq.from \in Int /\ rq.to \in Int
    BY DEF Request
  <2>5. page[1].ts > rq.to \/ page[Len(page)].ts < rq.from
    BY <1>2 DEF OutsideHeader
  <2>6. ~Wanted(rq, page[k].ts)
    BY <2>1, <2>2, <2>3, <2>4, <2>5 DEF Wanted
  <2> QED
    BY <2>6 DEF InRange
<1> QED
  BY <1>1, <1>3, ThoseEmpty

\* What a query of the data file returns of a metric: every stride-th of its samples.
LEMMA RawStreamIs ==
    ASSUME NEW pages \in Seq(Page), NEW rq \in Request, NEW id \in rq.ids
    PROVE  Of(id, RawStream(pages, rq)) = Strided(Of(id, FlattenSeq(pages)), rq)
<1> DEFINE K == {k \in DOMAIN pages : ~OutsideHeader(rq, pages[k])}
           passed == Picked(pages, K)
           kept == [k \in DOMAIN passed |-> SamplesIn(passed[k], rq)]
           X == FlattenSeq(kept)
           all == FlattenSeq(pages)
           P == OfMetric(id) \cap InRange(rq)
           g == [k \in 1..Len(pages) |-> Those(pages[k], P)]
<1>1. pages \in Seq(Seq(Sample)) /\ all \in Seq(Sample)
  BY AllIs
<1>2. /\ Len(pages) \in Nat /\ DOMAIN pages = 1..Len(pages) /\ K \subseteq 1..Len(pages)
      /\ \A k \in 1..Len(pages) : pages[k] \in Page /\ pages[k] \in Seq(Sample)
  BY <1>1
<1>3. RawStream(pages, rq) = Strided(X, rq)
  BY DEF RawStream
<1>4. \E m \in Nat : \E e : Picks(pages, K, m, e)
  BY <1>2, PickedIs
<1>5a. PICK m \in Nat : \E e : Picks(pages, K, m, e)
  BY <1>4
<1>5. PICK e : Picks(pages, K, m, e)
  BY <1>5a
<1>6. /\ passed = [k \in 1..m |-> pages[e[k]]] /\ e \in [1..m -> K] /\ Rising(e)
      /\ \A x \in K : \E i \in 1..m : e[i] = x
  BY <1>5 DEF Picks, Climbing
<1>7. \A k \in 1..Len(pages) : k \in K <=> ~OutsideHeader(rq, pages[k])
  BY <1>2
<1> HIDE DEF K, passed
<1>8. \A k \in 1..m : e[k] \in 1..Len(pages) /\ passed[k] = pages[e[k]]
  BY <1>2, <1>6
<1>9. ASSUME NEW page \in Seq(Sample)
      PROVE  /\ SamplesIn(page, rq) = Those(page, OfMetrics(rq.ids))
             /\ SamplesIn(page, rq) \in Seq(Sample)
             /\ Those(SamplesIn(page, rq), P) = Those(page, P)
  <2>1. DOMAIN page = 1..Len(page) /\ \A k \in 1..Len(page) : page[k] \in Sample
    BY SampleIs
  <2>2. {k \in DOMAIN page : page[k].id \in rq.ids} = {k \in DOMAIN page : page[k] \in OfMetrics(rq.ids)}
    BY <2>1 DEF OfMetrics
  <2>3. SamplesIn(page, rq) = Those(page, OfMetrics(rq.ids))
    BY <2>2 DEF SamplesIn, Those
  <2>4. OfMetrics(rq.ids) \cap P = P
    BY DEF OfMetric, OfMetrics
  <2> HIDE DEF P
  <2> DEFINE A == OfMetrics(rq.ids)
  <2> HIDE DEF A
  <2>5. Those(page, A) \in Seq(Sample) /\ Those(Those(page, A), P) = Those(page, A \cap P)
    BY ThoseTwice
  <2> QED
    BY <2>3, <2>4, <2>5 DEF A
<1>10. DOMAIN passed = 1..m
  BY <1>6
<1>11. kept \in Seq(Seq(Sample)) /\ Len(kept) = m /\ \A k \in 1..m : kept[k] = SamplesIn(pages[e[k]], rq)
  <2> DEFINE b(k) == SamplesIn(pages[e[k]], rq)
             h == [k \in 1..m |-> b(k)]
  <2>1. kept = h
    BY <1>8, <1>10
  <2>2. \A k \in 1..m : h[k] \in Seq(Sample) /\ h[k] = b(k)
    BY <1>2, <1>8, <1>9
  <2> DEFINE B == Seq(Sample)
  <2>3. h = [k \in 1..m |-> h[k]]
    OBVIOUS
  <2>4. \A k \in 1..m : h[k] \in B
    BY <2>2
  <2> HIDE DEF h, B
  <2>5. [k \in 1..m |-> h[k]] \in Seq(B) /\ Len([k \in 1..m |-> h[k]]) = m
    BY <2>4, ListIs
  <2> QED
    BY <2>1, <2>2, <2>3, <2>5 DEF B
<1> HIDE DEF kept
<1>12. X \in Seq(Sample)
  BY <1>11, FlatTypes
<1>13. g \in Seq(Seq(Sample)) /\ Len(g) = Len(pages) /\ \A k \in 1..Len(pages) : g[k] = Those(pages[k], P)
  <2>1. \A k \in 1..Len(pages) : g[k] = Those(pages[k], P)
    OBVIOUS
  <2> HIDE DEF P
  <2>2. \A k \in 1..Len(pages) : Those(pages[k], P) \in Seq(Sample)
    <3> SUFFICES ASSUME NEW k \in 1..Len(pages) PROVE Those(pages[k], P) \in Seq(Sample)
      OBVIOUS
    <3>1. pages[k] \in Seq(Sample)
      BY <1>2
    <3> QED
      BY <3>1, ThoseTwice
  <2> DEFINE B == Seq(Sample)
  <2>3. g = [k \in 1..Len(pages) |-> g[k]]
    OBVIOUS
  <2>4. \A k \in 1..Len(pages) : g[k] \in B
    BY <2>1, <2>2
  <2> HIDE DEF g, B
  <2>5. [k \in 1..Len(pages) |-> g[k]] \in Seq(B) /\ Len([k \in 1..Len(pages) |-> g[k]]) = Len(pages)
    BY <1>2, <2>4, ListIs
  <2> QED
    BY <2>1, <2>3, <2>5 DEF B
<1> HIDE DEF g, X, all
<1>14. Those(all, P) = FlattenSeq(g)
  <2> HIDE DEF P
  <2> QED
    BY <1>1, <1>13, ThoseFlat DEF all
<1> DEFINE o == [k \in 1..m |-> g[e[k]]]
<1>15. o \in Seq(Seq(Sample)) /\ Len(o) = m /\ \A k \in 1..m : o[k] = Those(kept[k], P)
  <2>1. \A k \in 1..m : o[k] = Those(kept[k], P)
    <3> SUFFICES ASSUME NEW k \in 1..m PROVE g[e[k]] = Those(kept[k], P)
      OBVIOUS
    <3>1. e[k] \in 1..Len(pages) /\ pages[e[k]] \in Seq(Sample)
      BY <1>2, <1>8
    <3>2. g[e[k]] = Those(pages[e[k]], P)
      BY <1>13, <3>1
    <3>3. Those(SamplesIn(pages[e[k]], rq), P) = Those(pages[e[k]], P)
      BY <1>9, <3>1
    <3> QED
      BY <1>11, <3>2, <3>3
  <2> DEFINE B == Seq(Sample)
  <2>2. \A k \in 1..m : o[k] \in B
    <3>1. g \in Seq(B)
      BY <1>13
    <3> HIDE DEF B
    <3> QED
      BY <1>8, <1>13, <3>1
  <2>3. o = [k \in 1..m |-> o[k]]
    OBVIOUS
  <2> HIDE DEF o, B
  <2>4. [k \in 1..m |-> o[k]] \in Seq(B) /\ Len([k \in 1..m |-> o[k]]) = m
    BY <2>2, ListIs
  <2> QED
    BY <2>1, <2>3, <2>4 DEF B
<1>16. Those(X, P) = FlattenSeq(o)
  <2> HIDE DEF P, o
  <2> QED
    BY <1>11, <1>15, ThoseFlat DEF X
<1>17. FlattenSeq(o) = FlattenSeq(g)
  <2>1. \A n \in 1..Len(g) : (\A k \in 1..m : e[k] # n) => g[n] = <<>>
    <3> SUFFICES ASSUME NEW n \in 1..Len(pages), \A k \in 1..m : e[k] # n PROVE g[n] = <<>>
      BY <1>13
    <3>1. n \notin K
      BY <1>6
    <3>2. OutsideHeader(rq, pages[n]) /\ pages[n] \in Page /\ pages[n] \in Seq(Sample)
      BY <1>2, <1>7, <3>1
    <3> DEFINE s == pages[n]
               R == InRange(rq)
               I == OfMetric(id)
    <3>3. Those(s, R) = <<>> /\ s \in Seq(Sample)
      BY <3>2, OutsideIs
    <3>4. R \cap I = P
      OBVIOUS
    <3>5. g[n] = Those(s, P)
      BY <1>13
    <3> HIDE DEF s, R, I, P
    <3>6. Those(Those(s, R), I) = Those(s, R \cap I)
      BY <3>3, ThoseTwice
    <3> QED
      BY <3>3, <3>4, <3>5, <3>6, ThoseNone
  <2>2. e \in [1..m -> 1..Len(g)]
    BY <1>6, <1>8, <1>13
  <2> QED
    BY <1>6, <1>13, <2>1, <2>2, FlatSkips
<1>18. ASSUME NEW s \in Seq(Sample)
       PROVE  Strided(Of(id, s), rq) = Strided(Those(s, P), rq)
  <2> DEFINE R == InRange(rq)
             I == OfMetric(id)
  <2>1. Of(id, s) = Those(s, I)
    BY OfThose
  <2>2. P = I \cap R
    OBVIOUS
  <2> HIDE DEF R, I, P
  <2>3. Those(s, I) \in Seq(Sample) /\ Those(Those(s, I), R) = Those(s, I \cap R)
    BY ThoseTwice
  <2>4. Strided(Those(Those(s, I), R), rq) = Strided(Those(s, I), rq)
    <3> DEFINE t == Those(s, I)
    <3>1. t \in Seq(Sample)
      BY <2>3
    <3> HIDE DEF t
    <3>2. Strided(Those(t, InRange(rq)), rq) = Strided(t, rq)
      BY <3>1, StridedInRange
    <3> QED
      BY <3>2 DEF t, R
  <2> QED
    BY <2>1, <2>2, <2>3, <2>4
<1>19. Strided(Of(id, X), rq) = Strided(Of(id, all), rq)
  <2> HIDE DEF P
  <2> QED
    BY <1>1, <1>12, <1>14, <1>16, <1>17, <1>18
<1> QED
  BY <1>3, <1>12, <1>19, StridedOf DEF all

\* A metric's own samples come out whole, and those of another not at all.
LEMMA PartOf ==
    ASSUME NEW pages \in Seq(Page), NEW rq \in Request, NEW id, NEW x \in DOMAIN Inputs(pages)
    PROVE  Those(Part(pages, rq, x), OfMetric(id)) = IF x = id THEN Part(pages, rq, x) ELSE <<>>
<1> DEFINE s == Inputs(pages)[x]
           I == OfMetric(id)
<1>1. s \in Seq(Sample) /\ \A k \in 1..Len(s) : s[k].id = x
  BY InputsAre DEF InputsOK
<1> HIDE DEF s
<1>2. \A k \in 1..Len(s) : s[k] \in Sample
  BY <1>1
<1>3. Of(id, s) = Those(s, I) /\ Of(id, Strided(s, rq)) = Strided(Of(id, s), rq)
  BY <1>1, OfThose, StridedOf
<1>4. Strided(s, rq) \in Seq(Sample) /\ Strided(<<>>, rq) = <<>>
  <2>1. <<>> \in Seq(Sample) /\ \A k \in 1..Len(<<>>) : ~Wanted(rq, <<>>[k].ts)
    OBVIOUS
  <2> QED
    BY <1>1, <2>1, StridedIs
<1>5. Of(id, Strided(s, rq)) = Those(Strided(s, rq), I)
  <2> DEFINE t == Strided(s, rq)
  <2>1. t \in Seq(Sample)
    BY <1>4
  <2> HIDE DEF t
  <2>2. Of(id, t) = Those(t, OfMetric(id))
    BY <2>1, OfThose
  <2> QED
    BY <2>2 DEF t
<1>6. CASE x = id
  <2>1. \A k \in 1..Len(s) : s[k] \in I
    BY <1>1, <1>2, <1>6 DEF OfMetric
  <2> HIDE DEF I
  <2>2. Those(s, I) = s
    BY <1>1, <2>1, ThoseAll
  <2>3. Those(Strided(s, rq), I) = Strided(s, rq)
    BY <1>3, <1>5, <2>2
  <2>4. CASE x \in rq.ids
    BY <1>6, <2>3, <2>4 DEF Part, s, I
  <2>5. CASE x \notin rq.ids
    <3>1. Part(pages, rq, x) = <<>>
      BY <2>5 DEF Part
    <3> QED
      BY <1>6, <3>1, ThoseNone
  <2> QED
    BY <2>4, <2>5
<1>7. CASE x # id
  <2>1. \A k \in 1..Len(s) : s[k] \notin I
    BY <1>1, <1>2, <1>7 DEF OfMetric
  <2> HIDE DEF I
  <2>2. Those(s, I) = <<>>
    BY <1>1, <2>1, ThoseEmpty
  <2>3. Those(Strided(s, rq), I) = <<>>
    BY <1>3, <1>4, <1>5, <2>2
  <2>4. CASE x \in rq.ids
    BY <1>7, <2>3, <2>4 DEF Part, s, I
  <2>5. CASE x \notin rq.ids
    <3>1. Part(pages, rq, x) = <<>>
      BY <2>5 DEF Part
    <3> QED
      BY <1>7, <3>1, ThoseNone
  <2> QED
    BY <2>4, <2>5
<1> QED
  BY <1>6, <1>7

\* What a query of the metric file returns of a metric: every stride-th of its samples in
\* time order.
LEMMA ContentsOf ==
    ASSUME NEW pages \in Seq(Page), NEW rq \in Request, NEW id \in rq.ids
    PROVE  Of(id, Contents(pages, rq))
             = IF id \in DOMAIN Inputs(pages) THEN Strided(Inputs(pages)[id], rq) ELSE <<>>
<1> DEFINE n == Cardinality(DOMAIN Inputs(pages))
           f == Parts(pages, rq)
           I == OfMetric(id)
           g == [k \in 1..n |-> IF Ids(pages)[k] = id THEN f[k] ELSE <<>>]
<1>1. /\ f \in Seq(Seq(Sample)) /\ Len(f) = n /\ Contents(pages, rq) = FlattenSeq(f)
      /\ n \in Nat /\ Climbing(Ids(pages), n, DOMAIN Inputs(pages))
  BY PartsAre, IdsAre
<1>2. \A k \in 1..n : Ids(pages)[k] \in DOMAIN Inputs(pages) /\ f[k] = Part(pages, rq, Ids(pages)[k])
  BY <1>1 DEF Climbing, Parts
<1> HIDE DEF n, f
<1>3. \A k \in 1..n : g[k] = (IF Ids(pages)[k] = id THEN f[k] ELSE <<>>)
  OBVIOUS
<1>4. g \in Seq(Seq(Sample)) /\ Len(g) = n
  <2> DEFINE B == Seq(Sample)
  <2>1. f \in Seq(B) /\ <<>> \in B
    BY <1>1
  <2> HIDE DEF B
  <2>2. \A k \in 1..n : g[k] \in B
    BY <1>1, <1>3, <2>1
  <2>3. g = [k \in 1..n |-> g[k]]
    OBVIOUS
  <2> HIDE DEF g
  <2>4. [k \in 1..n |-> g[k]] \in Seq(B) /\ Len([k \in 1..n |-> g[k]]) = n
    BY <1>1, <2>2, ListIs
  <2> QED
    BY <2>3, <2>4 DEF B
<1> HIDE DEF g
<1>5. \A k \in 1..Len(f) : g[k] = Those(f[k], I)
  <2> SUFFICES ASSUME NEW k \in 1..n PROVE g[k] = Those(f[k], I)
    BY <1>1
  <2>1. Ids(pages)[k] \in DOMAIN Inputs(pages)
    BY <1>2
  <2>2. Those(Part(pages, rq, Ids(pages)[k]), OfMetric(id))
          = IF Ids(pages)[k] = id THEN Part(pages, rq, Ids(pages)[k]) ELSE <<>>
    BY <2>1, PartOf
  <2> QED
    BY <1>2, <1>3, <2>2
<1>6. Of(id, Contents(pages, rq)) = FlattenSeq(g)
  <2>1. FlattenSeq(f) \in Seq(Sample)
    BY <1>1, FlatTypes
  <2>2. Of(id, FlattenSeq(f)) = Those(FlattenSeq(f), OfMetric(id))
    <3> DEFINE t == FlattenSeq(f)
    <3>1. t \in Seq(Sample)
      BY <2>1
    <3> HIDE DEF t
    <3>2. Of(id, t) = Those(t, OfMetric(id))
      BY <3>1, OfThose
    <3> QED
      BY <3>2 DEF t
  <2> HIDE DEF I
  <2>3. Those(FlattenSeq(f), I) = FlattenSeq(g)
    BY <1>1, <1>4, <1>5, ThoseFlat
  <2> QED
    BY <1>1, <2>2, <2>3 DEF I
<1>7. CASE id \in DOMAIN Inputs(pages)
  <2>1. PICK k \in 1..n : Ids(pages)[k] = id
    BY <1>1, <1>7 DEF Climbing
  <2> DEFINE e == [j \in 1..1 |-> k]
  <2>2. \A i \in 1..n : Ids(pages)[i] = id => i = k
    <3> SUFFICES ASSUME NEW i \in 1..n, Ids(pages)[i] = id, i # k PROVE FALSE
      OBVIOUS
    <3>1. i < k \/ k < i
      OBVIOUS
    <3>2. Ids(pages)[i] < Ids(pages)[k] \/ Ids(pages)[k] < Ids(pages)[i]
      BY <1>1, <3>1 DEF Climbing, Rising
    <3>3. id \in Nat
      BY <1>7, InputsAre DEF InputsOK
    <3> QED
      BY <2>1, <3>2, <3>3
  <2>3. e \in [1..1 -> 1..Len(g)] /\ Rising(e) /\ \A i \in 1..1 : e[i] = k
    BY <1>4 DEF Rising
  <2>4. \A i \in 1..Len(g) : (\A j \in 1..1 : e[j] # i) => g[i] = <<>>
    <3> HIDE DEF e
    <3> QED
      BY <1>3, <1>4, <2>2, <2>3
  <2> HIDE DEF e
  <2>5. FlattenSeq([j \in 1..1 |-> g[e[j]]]) = FlattenSeq(g)
    BY <1>4, <2>3, <2>4, FlatSkips
  <2>6. [j \in 1..1 |-> g[e[j]]] = <<g[k]>>
    BY <2>3
  <2>7. g[k] = Strided(Inputs(pages)[id], rq) /\ g[k] \in Seq(Sample)
    <3>1. g[k] = f[k] /\ f[k] = Part(pages, rq, id)
      BY <1>2, <1>3, <2>1
    <3>2. g[k] = Strided(Inputs(pages)[id], rq)
      BY <3>1 DEF Part
    <3>3. Inputs(pages)[id] \in Seq(Sample)
      BY <1>7, InputsAre DEF InputsOK
    <3> QED
      BY <3>2, <3>3, StridedIs
  <2>8. FlattenSeq(<<g[k]>>) = g[k]
    BY <2>7, FlatOne
  <2> QED
    BY <1>6, <1>7, <2>5, <2>6, <2>7, <2>8
<1>8. CASE id \notin DOMAIN Inputs(pages)
  <2> DEFINE e == [j \in 1..0 |-> 1]
  <2>1. \A i \in 1..n : g[i] = <<>>
    BY <1>2, <1>3, <1>8
  <2>2. e \in [1..0 -> 1..Len(g)] /\ Rising(e)
    BY DEF Rising
  <2>3. \A i \in 1..Len(g) : (\A j \in 1..0 : e[j] # i) => g[i] = <<>>
    BY <1>4, <2>1
  <2> HIDE DEF e
  <2>4. FlattenSeq([j \in 1..0 |-> g[e[j]]]) = FlattenSeq(g)
    BY <1>4, <2>2, <2>3, FlatSkips
  <2>5. [j \in 1..0 |-> g[e[j]]] = <<>>
    OBVIOUS
  <2> QED
    BY <1>6, <1>8, <2>4, <2>5, FlatEmpty
<1> QED
  BY <1>7, <1>8

\* A metric that came in time order is the same in both.
LEMMA SameStream ==
    ASSUME NEW pages \in Seq(Page), NEW rq \in Request, NEW id \in rq.ids,
           SortByTime(Of(id, FlattenSeq(pages))) = Of(id, FlattenSeq(pages))
    PROVE  Of(id, Contents(pages, rq)) = Of(id, RawStream(pages, rq))
<1> DEFINE all == FlattenSeq(pages)
<1>1. all \in Seq(Sample)
  BY AllIs
<1>2. DOMAIN Inputs(pages) = {all[k].id : k \in 1..Len(all)}
  BY InputsAre
<1>3. Of(id, RawStream(pages, rq)) = Strided(Of(id, all), rq)
  BY RawStreamIs
<1>4. CASE id \in DOMAIN Inputs(pages)
  <2>1. Inputs(pages)[id] = SortByTime(Of(id, all))
    BY <1>4, Zenon DEF Inputs
  <2> QED
    BY <1>3, <1>4, <2>1, ContentsOf
<1>5. CASE id \notin DOMAIN Inputs(pages)
  <2> HIDE DEF all
  <2>1. \A k \in 1..Len(all) : all[k] \notin OfMetric(id)
    BY <1>1, <1>2, <1>5 DEF OfMetric
  <2>2. Of(id, all) = <<>>
    BY <1>1, <2>1, ThoseEmpty, OfThose
  <2>3. <<>> \in Seq(Sample) /\ \A k \in 1..Len(<<>>) : ~Wanted(rq, <<>>[k].ts)
    OBVIOUS
  <2>4. Strided(<<>>, rq) = <<>>
    BY <2>3, StridedIs
  <2> QED
    BY <1>3, <1>5, <2>2, <2>4, ContentsOf
<1> QED
  BY <1>4, <1>5

LEMMA InvStreams == MetricInv => StreamsAgree
<1> SUFFICES ASSUME MetricInv, NEW r \in Reader, NEW id \in rd[r].rq.ids,
                    rd[r].pc = "done", rd[r].fd # NoFile,
                    SortByTime(Of(id, FlattenSeq(Pages(rd[r])))) = Of(id, FlattenSeq(Pages(rd[r])))
             PROVE  Of(id, rd[r].out) = Of(id, RawStream(Pages(rd[r]), rd[r].rq))
  BY DEF StreamsAgree
<1>1. PICK h : Kept(h)
  BY DEF MetricInv
<1>2. QueryOK(rd[r], h, builds, data) /\ Built(h, builds, data)
  BY <1>1 DEF Kept
<1>3. rd[r].rq \in Request /\ OneOf(rd[r].fd, h, builds)
  BY <1>2 DEF QueryOK
<1>4. data \in Seq(Page) /\ builds \in Nat
  BY DEF MetricInv
<1>5. Pages(rd[r]) = SubSeq(data, 1, rd[r].fd.from) /\ Pages(rd[r]) \in Seq(Page)
  BY <1>2, <1>3, <1>4, BuiltIs DEF Pages
<1>6. rd[r].out = Contents(Pages(rd[r]), rd[r].rq)
  BY <1>2, <1>5 DEF QueryOK
<1> QED
  BY <1>3, <1>5, <1>6, SameStream

\* docs/METRIC_FILES.md:113: metric files change the layout of a query and not the stream it
\* returns.  collectMetricSetFromMetricFileV1 and readOneMetricMetricFrameV2 return of a
\* metric whose samples came in time order what collectMetricSetFromFile does.
THEOREM MetricFilesKeepTheStream == Spec => []StreamsAgree
<1>1. Init => MetricInv
  BY InvInit
<1>2. MetricInv /\ [Next]_vars => MetricInv'
  BY InvNext
<1>3. MetricInv => StreamsAgree
  BY InvStreams
<1> QED
  BY <1>1, <1>2, <1>3, PTL DEF Spec

(***************************************************************************)
(* The windows of an aggregate query.                                      *)
(***************************************************************************)

\* The division of the provers, by its quotient and its remainder.
LEMMA Divided ==
    ASSUME NEW t \in Nat, NEW w \in Nat \ {0}
    PROVE  \E q \in Nat : t \div w = q /\ q * w <= t /\ t < q * w + w /\ q * w \in Nat
<1> DEFINE q == t \div w
<1>1. q \in Int /\ t = w * q + (t % w) /\ 0 <= t % w /\ t % w < w /\ t % w \in Int
  OBVIOUS
<1>2. w * q = q * w
  BY <1>1
<1>3. q * w \in Int
  BY <1>1
<1>4. q >= 0
  OBVIOUS
<1>5. q \in Nat /\ q * w \in Nat
  BY <1>1, <1>3, <1>4
<1> HIDE DEF q
<1>6. q * w <= t /\ t < q * w + w
  <2> DEFINE r == t % w
             a == q * w
  <2>1. r \in Int /\ a \in Int /\ t = a + r /\ 0 <= r /\ r < w
    BY <1>1, <1>2, <1>3
  <2> HIDE DEF a, r
  <2>2. a <= t /\ t < a + w
    BY <2>1
  <2> QED
    BY <2>2 DEF a
<1> QED
  BY <1>5, <1>6 DEF q

LEMMA FloorIs ==
    ASSUME NEW t \in Nat, NEW w \in Nat \ {0}
    PROVE  FloorTo(t, w) \in Nat /\ FloorTo(t, w) <= t /\ t < FloorTo(t, w) + w
<1>1. PICK q \in Nat : t \div w = q /\ q * w <= t /\ t < q * w + w /\ q * w \in Nat
  BY Divided
<1>2. FloorTo(t, w) = q * w
  BY <1>1 DEF FloorTo
<1> QED
  BY <1>1, <1>2

\* The windows of two timestamps are the same or apart.
LEMMA FloorsApart ==
    ASSUME NEW t \in Nat, NEW u \in Nat, NEW w \in Nat \ {0}, FloorTo(t, w) < FloorTo(u, w)
    PROVE  FloorTo(t, w) + w <= FloorTo(u, w)
<1>1. PICK p \in Nat : t \div w = p /\ p * w <= t /\ t < p * w + w /\ p * w \in Nat
  BY Divided
<1>2. PICK q \in Nat : u \div w = q /\ q * w <= u /\ u < q * w + w /\ q * w \in Nat
  BY Divided
<1>3. FloorTo(t, w) = p * w /\ FloorTo(u, w) = q * w
  BY <1>1, <1>2 DEF FloorTo
<1>4. \A a, b \in Nat : a <= b => a * w <= b * w
  <2> SUFFICES ASSUME NEW a \in Nat, NEW b \in Nat, a <= b PROVE a * w <= b * w
    OBVIOUS
  <2>1. PICK c \in Nat : b = a + c
    <3>1. b - a \in Nat /\ b = a + (b - a)
      OBVIOUS
    <3> QED
      BY <3>1
  <2>2. b * w = a * w + c * w
    BY <2>1
  <2>3. a * w \in Nat /\ c * w \in Nat
    OBVIOUS
  <2> QED
    BY <2>2, <2>3
<1>5. p < q
  <2>1. ~(q <= p)
    BY <1>1, <1>2, <1>3, <1>4
  <2> QED
    BY <2>1
<1>6. (p + 1) * w <= q * w
  BY <1>4, <1>5
<1>7. (p + 1) * w = p * w + w
  OBVIOUS
<1> QED
  BY <1>3, <1>6, <1>7

LEMMA FloorsRise ==
    ASSUME NEW t \in Nat, NEW u \in Nat, NEW w \in Nat \ {0}, t <= u
    PROVE  FloorTo(t, w) <= FloorTo(u, w)
<1>1. /\ FloorTo(t, w) \in Nat /\ FloorTo(t, w) <= t /\ t < FloorTo(t, w) + w
      /\ FloorTo(u, w) \in Nat /\ FloorTo(u, w) <= u /\ u < FloorTo(u, w) + w
  BY FloorIs
<1>2. ~(FloorTo(u, w) < FloorTo(t, w))
  <2> SUFFICES ASSUME FloorTo(u, w) < FloorTo(t, w) PROVE FALSE
    OBVIOUS
  <2>1. FloorTo(u, w) + w <= FloorTo(t, w)
    BY FloorsApart
  <2> QED
    BY <1>1, <2>1
<1> QED
  BY <1>1, <1>2

\* A timestamp is in the window of another that it shares.
LEMMA SameWindow ==
    ASSUME NEW t \in Nat, NEW u \in Nat, NEW w \in Nat \ {0}
    PROVE  (FloorTo(t, w) <= u /\ u < FloorTo(t, w) + w) <=> FloorTo(u, w) = FloorTo(t, w)
<1>1. /\ FloorTo(t, w) \in Nat /\ FloorTo(t, w) <= t /\ t < FloorTo(t, w) + w
      /\ FloorTo(u, w) \in Nat /\ FloorTo(u, w) <= u /\ u < FloorTo(u, w) + w
  BY FloorIs
<1>2. CASE FloorTo(u, w) = FloorTo(t, w)
  BY <1>1, <1>2
<1>3. CASE FloorTo(u, w) < FloorTo(t, w)
  <2>1. FloorTo(u, w) + w <= FloorTo(t, w)
    BY <1>3, FloorsApart
  <2> QED
    BY <1>1, <1>3, <2>1
<1>4. CASE FloorTo(t, w) < FloorTo(u, w)
  <2>1. FloorTo(t, w) + w <= FloorTo(u, w)
    BY <1>4, FloorsApart
  <2> QED
    BY <1>1, <1>4, <2>1
<1> QED
  BY <1>1, <1>2, <1>3, <1>4

(***************************************************************************)
(* Summing a sequence one element at a time.                               *)
(***************************************************************************)
LEMMA TotalIs ==
    ASSUME NEW s \in Seq(Int)
    PROVE  \E t : /\ Recursive(t, Len(s), Int, 0, [k \in 1..Len(s) |-> [x \in Int |-> x + s[k]]])
                  /\ Total(s) = t[Len(s)]
<1> DEFINE n == Len(s)
           step == [k \in 1..n |-> [x \in Int |-> x + s[k]]]
           Def(f) == [k \in 0..n |-> IF k = 0 THEN 0 ELSE f[k - 1] + s[k]]
           sum == CHOOSE f : f = Def(f)
<1>1. n \in Nat /\ \A k \in 1..n : s[k] \in Int
  OBVIOUS
<1>2. Total(s) = sum[n]
  BY Zenon DEF Total
<1> HIDE DEF n
<1>3. step \in [1..n -> [Int -> Int]] /\ \A k \in 1..n : \A x \in Int : step[k][x] = x + s[k]
  BY <1>1
<1> HIDE DEF step
<1>4. 0 \in Int
  OBVIOUS
<1>5. PICK t : Recursive(t, n, Int, 0, step)
  BY <1>1, <1>3, <1>4, Recursion
<1>6. t = [k \in 0..n |-> t[k]] /\ \A k \in 0..n : t[k] \in Int
  BY <1>5 DEF Recursive
<1>7. \A k \in 0..n : k = 0 \/ (k \in 1..n /\ k - 1 \in 0..n)
  BY <1>1
<1>8. t = Def(t)
  <2>1. \A k \in 0..n : t[k] = IF k = 0 THEN 0 ELSE t[k - 1] + s[k]
    BY <1>3, <1>5, <1>6, <1>7 DEF Recursive
  <2> QED
    BY <1>6, <2>1
<1>9. sum = Def(sum)
  BY <1>8
<1> HIDE DEF sum
<1>10. sum = [k \in 0..n |-> sum[k]] /\ sum[0] = 0 /\ \A k \in 1..n : sum[k] = sum[k - 1] + s[k]
  <2>1. 0 \in 0..n /\ \A k \in 1..n : k \in 0..n /\ k # 0
    BY <1>1
  <2>2. \A k \in 0..n : sum[k] = IF k = 0 THEN 0 ELSE sum[k - 1] + s[k]
    BY <1>9
  <2>3. sum = [k \in 0..n |-> sum[k]]
    BY <1>9
  <2> QED
    BY <2>1, <2>2, <2>3
<1> DEFINE T == {k \in 0..n : sum[k] \in Int}
<1>11. 0 \in T
  BY <1>1, <1>10
<1>12. ASSUME NEW k \in T, k \in 0..n, k < n PROVE k + 1 \in T
  <2>1. k + 1 \in 1..n /\ k + 1 \in 0..n /\ (k + 1) - 1 = k
    BY <1>1, <1>12
  <2>2. sum[k + 1] = sum[k] + s[k + 1]
    BY <1>10, <2>1
  <2>3. sum[k] \in Int /\ s[k + 1] \in Int
    BY <1>1, <1>12, <2>1
  <2> QED
    BY <2>1, <2>2, <2>3
<1>13. \A k \in 0..n : sum[k] \in Int
  <2>1. \A k \in 0..n : k \in T
    <3> HIDE DEF T
    <3> QED
      BY <1>1, <1>11, <1>12, Induct
  <2> QED
    BY <2>1
<1>14. \A k \in 0..n : sum[k] = IF k = 0 THEN 0 ELSE step[k][sum[k - 1]]
  BY <1>3, <1>7, <1>10, <1>13
<1>15. sum \in [0..n -> Int]
  BY <1>10, <1>13
<1>16. Recursive(sum, n, Int, 0, step)
  BY <1>14, <1>15 DEF Recursive
<1> QED
  BY <1>2, <1>16 DEF n, step

LEMMA TotalMore ==
    ASSUME NEW s \in Seq(Int), NEW v \in Int
    PROVE  Total(Append(s, v)) = Total(s) + v /\ Total(s) \in Int
<1> DEFINE n == Len(s)
           u == Append(s, v)
<1>1. PICK t : /\ Recursive(t, n, Int, 0, [k \in 1..n |-> [x \in Int |-> x + s[k]]])
               /\ Total(s) = t[n]
  BY TotalIs
<1>2. u \in Seq(Int) /\ Len(u) = n + 1 /\ n \in Nat /\ u[n + 1] = v /\ \A k \in 1..n : u[k] = s[k] /\ s[k] \in Int
  OBVIOUS
<1>3. PICK z : /\ Recursive(z, Len(u), Int, 0, [k \in 1..Len(u) |-> [x \in Int |-> x + u[k]]])
               /\ Total(u) = z[Len(u)]
  BY <1>2, TotalIs
<1>4. /\ t[0] = 0 /\ \A k \in 0..n : t[k] \in Int
      /\ \A k \in 1..n : t[k] = t[k - 1] + s[k]
  <2>1. \A k \in 1..n : k # 0 /\ k \in 0..n /\ k - 1 \in 0..n
    BY <1>2
  <2>2. 0 \in 0..n
    BY <1>2
  <2> HIDE DEF n, u
  <2>3. \A k \in 0..n : t[k] \in Int /\ t[k] = IF k = 0 THEN 0 ELSE [j \in 1..n |-> [x \in Int |-> x + s[j]]][k][t[k - 1]]
    BY <1>1 DEF Recursive
  <2> QED
    BY <2>1, <2>2, <2>3
<1>5. /\ z[0] = 0 /\ \A k \in 0..(n + 1) : z[k] \in Int
      /\ \A k \in 1..(n + 1) : z[k] = z[k - 1] + u[k]
  <2>1. \A k \in 1..(n + 1) : k # 0 /\ k \in 0..(n + 1) /\ k - 1 \in 0..(n + 1)
    BY <1>2
  <2>2. 0 \in 0..(n + 1)
    BY <1>2
  <2> HIDE DEF n, u
  <2>3. \A k \in 0..(n + 1) : z[k] \in Int /\ z[k] = IF k = 0 THEN 0 ELSE [j \in 1..(n + 1) |-> [x \in Int |-> x + u[j]]][k][z[k - 1]]
    BY <1>2, <1>3 DEF Recursive
  <2> QED
    BY <2>1, <2>2, <2>3
<1> HIDE DEF n, u
<1> DEFINE T == {k \in 0..n : z[k] = t[k]}
<1>6. 0 \in T
  BY <1>2, <1>4, <1>5
<1>7. ASSUME NEW k \in T, k \in 0..n, k < n PROVE k + 1 \in T
  <2>1. k + 1 \in 1..n /\ k + 1 \in 1..(n + 1) /\ k + 1 \in 0..n /\ (k + 1) - 1 = k
    BY <1>2, <1>7
  <2>2. z[k + 1] = z[k] + u[k + 1] /\ t[k + 1] = t[k] + s[k + 1] /\ u[k + 1] = s[k + 1] /\ z[k] = t[k]
    BY <1>2, <1>4, <1>5, <1>7, <2>1
  <2> QED
    BY <2>1, <2>2
<1> HIDE DEF T
<1>8. n \in T
  <2>1. \A k \in 0..n : k \in T
    BY <1>2, <1>6, <1>7, Induct
  <2> QED
    BY <1>2, <2>1
<1>9. z[n] = t[n] /\ t[n] \in Int
  BY <1>2, <1>4, <1>8 DEF T
<1>10. z[n + 1] = z[n] + v
  <2>1. n + 1 \in 1..(n + 1) /\ (n + 1) - 1 = n
    BY <1>2
  <2> QED
    BY <1>2, <1>5, <2>1
<1> QED
  BY <1>1, <1>2, <1>3, <1>9, <1>10 DEF u

(***************************************************************************)
(* A window being filled.                                                  *)
(***************************************************************************)
Bucket == [start : Int, count : Nat, sum : Int, min : Int, max : Int, points : Seq(Int)]

\* What the accumulators of a window hold when vals were put into it, in that order.
Lowest(x, vals)  == (\E k \in 1..Len(vals) : x = vals[k]) /\ \A k \in 1..Len(vals) : x <= vals[k]
Highest(x, vals) == (\E k \in 1..Len(vals) : x = vals[k]) /\ \A k \in 1..Len(vals) : x >= vals[k]
Filled(b, start, vals) ==
    /\ b \in Bucket /\ vals \in Seq(Int)
    /\ b.start = start /\ b.points = vals /\ b.count = Len(vals) /\ b.sum = Total(vals)
    /\ Len(vals) # 0 => Lowest(b.min, vals) /\ Highest(b.max, vals)

LEMMA FilledNew ==
    ASSUME NEW start \in Int
    PROVE  Filled(NewBucket(start), start, <<>>)
<1>1. <<>> \in Seq(Int) /\ Len(<<>>) = 0
  OBVIOUS
<1>2. NewBucket(start) = [start |-> start, count |-> 0, sum |-> 0, min |-> 0, max |-> 0, points |-> <<>>]
  BY DEF NewBucket, NoBucket
<1> QED
  BY <1>1, <1>2, TotalNone DEF Filled, Bucket

LEMMA LowestMore ==
    ASSUME NEW vals \in Seq(Int), NEW v \in Int, NEW x \in Int, Len(vals) # 0 => Lowest(x, vals)
    PROVE  Lowest(IF Len(vals) = 0 \/ v < x THEN v ELSE x, Append(vals, v))
<1> DEFINE n == Len(vals)
           u == Append(vals, v)
           y == IF n = 0 \/ v < x THEN v ELSE x
<1>1. /\ n \in Nat /\ Len(u) = n + 1 /\ u[n + 1] = v
      /\ \A k \in 1..n : u[k] = vals[k] /\ vals[k] \in Int
  OBVIOUS
<1>2. n # 0 => Lowest(x, vals)
  OBVIOUS
<1>3. \A k \in 1..(n + 1) : k = n + 1 \/ (k \in 1..n /\ n # 0)
  BY <1>1
<1>4. n + 1 \in 1..(n + 1) /\ \A k \in 1..n : k \in 1..(n + 1)
  BY <1>1
<1> HIDE DEF n, u
<1>5. \E k \in 1..(n + 1) : y = u[k]
  <2>1. CASE n = 0 \/ v < x
    BY <1>1, <1>4, <2>1
  <2>2. CASE ~(n = 0 \/ v < x)
    BY <1>1, <1>2, <1>4, <2>2 DEF Lowest, n
  <2> QED
    BY <2>1, <2>2
<1>6. ASSUME NEW k \in 1..(n + 1) PROVE y <= u[k]
  <2>1. CASE k = n + 1
    BY <1>1, <2>1
  <2>2. CASE k \in 1..n /\ n # 0
    <3>1. x <= vals[k] /\ u[k] = vals[k] /\ vals[k] \in Int
      BY <1>1, <1>2, <2>2 DEF Lowest, n
    <3> QED
      BY <2>2, <3>1
  <2> QED
    BY <1>3, <2>1, <2>2
<1> QED
  BY <1>1, <1>5, <1>6 DEF Lowest, u, n

LEMMA HighestMore ==
    ASSUME NEW vals \in Seq(Int), NEW v \in Int, NEW x \in Int, Len(vals) # 0 => Highest(x, vals)
    PROVE  Highest(IF Len(vals) = 0 \/ v > x THEN v ELSE x, Append(vals, v))
<1> DEFINE n == Len(vals)
           u == Append(vals, v)
           y == IF n = 0 \/ v > x THEN v ELSE x
<1>1. /\ n \in Nat /\ Len(u) = n + 1 /\ u[n + 1] = v
      /\ \A k \in 1..n : u[k] = vals[k] /\ vals[k] \in Int
  OBVIOUS
<1>2. n # 0 => Highest(x, vals)
  OBVIOUS
<1>3. \A k \in 1..(n + 1) : k = n + 1 \/ (k \in 1..n /\ n # 0)
  BY <1>1
<1>4. n + 1 \in 1..(n + 1) /\ \A k \in 1..n : k \in 1..(n + 1)
  BY <1>1
<1> HIDE DEF n, u
<1>5. \E k \in 1..(n + 1) : y = u[k]
  <2>1. CASE n = 0 \/ v > x
    BY <1>1, <1>4, <2>1
  <2>2. CASE ~(n = 0 \/ v > x)
    BY <1>1, <1>2, <1>4, <2>2 DEF Highest, n
  <2> QED
    BY <2>1, <2>2
<1>6. ASSUME NEW k \in 1..(n + 1) PROVE y >= u[k]
  <2>1. CASE k = n + 1
    BY <1>1, <2>1
  <2>2. CASE k \in 1..n /\ n # 0
    <3>1. x >= vals[k] /\ u[k] = vals[k] /\ vals[k] \in Int
      BY <1>1, <1>2, <2>2 DEF Highest, n
    <3> QED
      BY <2>2, <3>1
  <2> QED
    BY <1>3, <2>1, <2>2
<1> QED
  BY <1>1, <1>5, <1>6 DEF Highest, u, n

\* addAggregateBucketSample keeps up.
LEMMA FilledMore ==
    ASSUME NEW b, NEW start \in Int, NEW vals, Filled(b, start, vals), NEW v \in Int
    PROVE  Filled(AddSample(b, v), start, Append(vals, v))
<1> DEFINE low == IF b.count = 0 \/ v < b.min THEN v ELSE b.min
           high == IF b.count = 0 \/ v > b.max THEN v ELSE b.max
           u == Append(vals, v)
<1>1. /\ b \in Bucket /\ vals \in Seq(Int) /\ b.start = start /\ b.points = vals
      /\ b.count = Len(vals) /\ b.sum = Total(vals)
      /\ Len(vals) # 0 => Lowest(b.min, vals) /\ Highest(b.max, vals)
  BY DEF Filled
<1>2. b.min \in Int /\ b.max \in Int /\ b.count \in Nat
  BY <1>1 DEF Bucket
<1>3. Lowest(low, u) /\ Highest(high, u)
  BY <1>1, <1>2, LowestMore, HighestMore
<1>4. u \in Seq(Int) /\ Len(u) = Len(vals) + 1 /\ Len(vals) \in Nat
  BY <1>1
<1>5. Total(u) = Total(vals) + v /\ Total(vals) \in Int
  BY <1>1, TotalMore
<1>6. low \in Int /\ high \in Int
  BY <1>2
<1>7. AddSample(b, v) = [start |-> b.start, count |-> b.count + 1, sum |-> b.sum + v, min |-> low,
                         max |-> high, points |-> Append(b.points, v)]
  <2>1. b = [start |-> b.start, count |-> b.count, sum |-> b.sum, min |-> b.min,
             max |-> b.max, points |-> b.points]
    BY <1>1 DEF Bucket
  <2>2. AddSample(b, v) = [b EXCEPT !.min = low, !.max = high, !.sum = b.sum + v,
                                    !.count = b.count + 1, !.points = Append(b.points, v)]
    BY Zenon DEF AddSample
  <2> HIDE DEF low, high
  <2> QED
    BY <2>1, <2>2
<1> HIDE DEF low, high, u
<1>8. AddSample(b, v) = [start |-> start, count |-> Len(u), sum |-> Total(u), min |-> low,
                         max |-> high, points |-> u]
  BY <1>1, <1>4, <1>5, <1>7 DEF u
<1>9. AddSample(b, v) \in Bucket
  BY <1>4, <1>5, <1>6, <1>8 DEF Bucket
<1> QED
  BY <1>3, <1>4, <1>8, <1>9 DEF Filled, u

(***************************************************************************)
(* What is reported of a window.                                           *)
(***************************************************************************)
Reported(start, vals, rq, w, aggs) ==
    {[agg   |-> a,
      start |-> IF start < rq.from THEN rq.from ELSE start,
      end   |-> IF start + w > rq.to THEN rq.to ELSE start + w,
      value |-> Compute(a, vals)] : a \in aggs}

\* The smallest and the largest are one number each.
LEMMA LowestIs ==
    ASSUME NEW vals \in Seq(Int), NEW x \in Int, Lowest(x, vals)
    PROVE  x = CHOOSE y \in ToSet(vals) : \A z \in ToSet(vals) : y <= z
<1>1. ToSet(vals) = {vals[k] : k \in 1..Len(vals)}
  BY DEF ToSet
<1>2. \A y \in ToSet(vals) : y \in Int /\ \E k \in 1..Len(vals) : y = vals[k]
  BY <1>1
<1>3. x \in ToSet(vals) /\ \A y \in ToSet(vals) : x <= y
  BY <1>1 DEF Lowest
<1>4. \A y \in ToSet(vals) : (\A z \in ToSet(vals) : y <= z) => y = x
  BY <1>2, <1>3
<1> HIDE DEF Lowest
<1> QED
  BY <1>3, <1>4

LEMMA HighestIs ==
    ASSUME NEW vals \in Seq(Int), NEW x \in Int, Highest(x, vals)
    PROVE  x = CHOOSE y \in ToSet(vals) : \A z \in ToSet(vals) : y >= z
<1>1. ToSet(vals) = {vals[k] : k \in 1..Len(vals)}
  BY DEF ToSet
<1>2. \A y \in ToSet(vals) : y \in Int /\ \E k \in 1..Len(vals) : y = vals[k]
  BY <1>1
<1>3. x \in ToSet(vals) /\ \A y \in ToSet(vals) : x >= y
  BY <1>1 DEF Highest
<1>4. \A y \in ToSet(vals) : (\A z \in ToSet(vals) : y >= z) => y = x
  BY <1>2, <1>3
<1> HIDE DEF Highest
<1> QED
  BY <1>3, <1>4

\* The accumulators stand for the points.
LEMMA ValueIs ==
    ASSUME NEW b, NEW start, NEW vals, Filled(b, start, vals), Len(vals) # 0, NEW aggs, NEW a \in aggs
    PROVE  Value(aggs, a, b) = Compute(a, vals)
<1>1. /\ b \in Bucket /\ vals \in Seq(Int) /\ b.points = vals /\ b.count = Len(vals)
      /\ b.sum = Total(vals) /\ Lowest(b.min, vals) /\ Highest(b.max, vals)
  BY DEF Filled
<1>2. b.min \in Int /\ b.max \in Int
  BY <1>1 DEF Bucket
<1>3. CASE ~(aggs \subseteq Streamed)
  BY <1>1, <1>3 DEF Value
<1>4. CASE aggs \subseteq Streamed
  <2>1. Value(aggs, a, b) = AccumulatorValue(a, b)
    BY <1>4, Zenon DEF Value
  <2>2. a \in {"min", "max", "sum", "avg", "count"}
    BY <1>4 DEF Streamed
  <2>3. CASE a = "min"
    <3>1. AccumulatorValue(a, b) = b.min
      BY <2>3 DEF AccumulatorValue
    <3>2. Compute(a, vals) = CHOOSE y \in ToSet(vals) : \A z \in ToSet(vals) : y <= z
      BY <2>3 DEF Compute
    <3> QED
      BY <1>1, <1>2, <2>1, <3>1, <3>2, LowestIs
  <2>4. CASE a = "max"
    <3>1. AccumulatorValue(a, b) = b.max
      BY <2>4 DEF AccumulatorValue
    <3>2. Compute(a, vals) = CHOOSE y \in ToSet(vals) : \A z \in ToSet(vals) : y >= z
      BY <2>4 DEF Compute
    <3> QED
      BY <1>1, <1>2, <2>1, <3>1, <3>2, HighestIs
  <2>5. CASE a = "sum"
    BY <1>1, <2>1, <2>5 DEF AccumulatorValue, Compute
  <2>6. CASE a = "avg"
    BY <1>1, <2>1, <2>6 DEF AccumulatorValue, Compute
  <2>7. CASE a = "count"
    BY <1>1, <2>1, <2>7 DEF AccumulatorValue, Compute
  <2> QED
    BY <2>2, <2>3, <2>4, <2>5, <2>6, <2>7
<1> QED
  BY <1>3, <1>4

LEMMA FlushIs ==
    ASSUME NEW b, NEW start, NEW vals, Filled(b, start, vals), Len(vals) # 0,
           NEW rq, NEW w, NEW aggs
    PROVE  FlushBucket(b, rq, w, aggs) = Reported(start, vals, rq, w, aggs)
<1> DEFINE from == IF start < rq.from THEN rq.from ELSE start
           to   == IF start + w > rq.to THEN rq.to ELSE start + w
<1>1. b.start = start /\ b.count # 0
  BY DEF Filled
<1>2. FlushBucket(b, rq, w, aggs) = {[agg |-> a, start |-> from, end |-> to, value |-> Value(aggs, a, b)] : a \in aggs}
  BY <1>1, Zenon DEF FlushBucket
<1>3. Reported(start, vals, rq, w, aggs) = {[agg |-> a, start |-> from, end |-> to, value |-> Compute(a, vals)] : a \in aggs}
  BY Zenon DEF Reported
<1>4. \A a \in aggs : Value(aggs, a, b) = Compute(a, vals)
  BY ValueIs
<1> HIDE DEF from, to
<1> QED
  BY <1>2, <1>3, <1>4

(***************************************************************************)
(* The values in a window.                                                 *)
(***************************************************************************)
WindowOf(start, w) == {x \in Sample : start <= x.ts /\ x.ts < start + w}
ValuesIn(s, start, w) == ValuesOf(Those(s, WindowOf(start, w)))

LEMMA BucketOfIs ==
    ASSUME NEW s \in Seq(Sample), NEW start, NEW rq, NEW w, NEW aggs
    PROVE  BucketOf(s, start, rq, w, aggs) = Reported(start, ValuesIn(s, start, w), rq, w, aggs)
<1> DEFINE K == {k \in DOMAIN s : start <= s[k].ts /\ s[k].ts < start + w}
           L == {k \in DOMAIN s : s[k] \in WindowOf(start, w)}
<1>1. K = L
  BY SampleIs DEF WindowOf
<1>2. Those(s, WindowOf(start, w)) = Picked(s, L)
  BY DEF Those
<1>3. BucketOf(s, start, rq, w, aggs)
        = Reported(start, [k \in DOMAIN Picked(s, K) |-> Picked(s, K)[k].v], rq, w, aggs)
  BY Zenon DEF BucketOf, Reported
<1>4. ValuesIn(s, start, w) = [k \in DOMAIN Picked(s, L) |-> Picked(s, L)[k].v]
  BY <1>2, Zenon DEF ValuesIn, ValuesOf
<1> QED
  BY <1>1, <1>3, <1>4

LEMMA ValuesOfIs ==
    ASSUME NEW s \in Seq(Sample)
    PROVE  ValuesOf(s) \in Seq(Int) /\ Len(ValuesOf(s)) = Len(s) /\ \A k \in 1..Len(s) : ValuesOf(s)[k] = s[k].v
<1>1. DOMAIN s = 1..Len(s) /\ Len(s) \in Nat /\ \A k \in 1..Len(s) : s[k].v \in Int
  <2>1. DOMAIN s = 1..Len(s) /\ Len(s) \in Nat /\ \A k \in 1..Len(s) : s[k] \in Sample
    BY SampleIs
  <2>2. \A x \in Sample : x.v \in Int
    BY DEF Sample
  <2> QED
    BY <2>1, <2>2
<1>2. ValuesOf(s) = [k \in 1..Len(s) |-> s[k].v]
  BY <1>1 DEF ValuesOf
<1> QED
  BY <1>1, <1>2

LEMMA ValuesInIs ==
    ASSUME NEW s \in Seq(Sample), NEW start, NEW w
    PROVE  /\ ValuesIn(s, start, w) \in Seq(Int)
           /\ (\A k \in 1..Len(s) : s[k] \notin WindowOf(start, w)) => ValuesIn(s, start, w) = <<>>
<1> DEFINE P == WindowOf(start, w)
<1> HIDE DEF P
<1>1. Those(s, P) \in Seq(Sample)
  BY ThoseTwice
<1>2. (\A k \in 1..Len(s) : s[k] \notin P) => Those(s, P) = <<>>
  BY ThoseEmpty
<1>3. ValuesOf(<<>>) = <<>>
  BY DEF ValuesOf
<1>4. ValuesOf(Those(s, P)) \in Seq(Int)
  BY <1>1, ValuesOfIs
<1> QED
  BY <1>2, <1>3, <1>4 DEF ValuesIn, P

\* One more sample adds its value to its window, and to no other.
LEMMA ValuesMore ==
    ASSUME NEW s \in Seq(Sample), NEW x \in Sample, NEW start, NEW w
    PROVE  ValuesIn(Append(s, x), start, w)
             = IF x \in WindowOf(start, w) THEN Append(ValuesIn(s, start, w), x.v)
               ELSE ValuesIn(s, start, w)
<1> DEFINE P == WindowOf(start, w)
           one == <<x>>
           t == Those(s, P)
<1>1. one \in Seq(Sample) /\ Append(s, x) = s \o one
  OBVIOUS
<1>2. Len(one) = 1 /\ \A k \in 1..Len(one) : one[k] = x
  OBVIOUS
<1> HIDE DEF P, one
<1>3. Those(s \o one, P) = t \o Those(one, P)
  BY <1>1, ThoseJoin
<1>4. t \in Seq(Sample)
  BY ThoseTwice
<1> HIDE DEF t
<1>5. CASE x \in P
  <2>1. Those(one, P) = one
    BY <1>1, <1>2, <1>5, ThoseAll
  <2>2. Those(Append(s, x), P) = Append(t, x)
    <3>1. Those(Append(s, x), P) = t \o <<x>>
      BY <1>1, <1>3, <2>1 DEF one
    <3>2. t \o <<x>> = Append(t, x)
      BY <1>4
    <3> QED
      BY <3>1, <3>2
  <2> DEFINE u == Append(t, x)
  <2>3. /\ u \in Seq(Sample) /\ Len(u) = Len(t) + 1 /\ u[Len(t) + 1] = x /\ Len(t) \in Nat
        /\ \A k \in 1..Len(t) : u[k] = t[k]
    BY <1>4
  <2>4. DOMAIN t = 1..Len(t) /\ DOMAIN u = 1..(Len(t) + 1)
    BY <1>4
  <2> HIDE DEF u
  <2>5. ValuesOf(u) = Append(ValuesOf(t), x.v)
    <3>1. ValuesOf(u) \in Seq(Int) /\ Len(ValuesOf(u)) = Len(t) + 1 /\ \A k \in 1..(Len(t) + 1) : ValuesOf(u)[k] = u[k].v
      BY <2>3, ValuesOfIs
    <3>2. ValuesOf(t) \in Seq(Int) /\ Len(ValuesOf(t)) = Len(t) /\ \A k \in 1..Len(t) : ValuesOf(t)[k] = t[k].v
      BY <1>4, ValuesOfIs
    <3>3. x.v \in Int
      BY DEF Sample
    <3> DEFINE a == ValuesOf(u)
               b == Append(ValuesOf(t), x.v)
    <3>4. /\ b \in Seq(Int) /\ Len(b) = Len(t) + 1 /\ b[Len(t) + 1] = x.v
          /\ \A k \in 1..Len(t) : b[k] = t[k].v
      BY <3>2, <3>3
    <3>5. \A k \in 1..(Len(t) + 1) : k = Len(t) + 1 \/ k \in 1..Len(t)
      BY <2>3
    <3>6. a \in Seq(Int) /\ Len(a) = Len(t) + 1 /\ \A k \in 1..(Len(t) + 1) : a[k] = u[k].v
      BY <3>1
    <3> HIDE DEF a, b
    <3>7. \A k \in 1..(Len(t) + 1) : a[k] = b[k]
      BY <2>3, <3>4, <3>5, <3>6
    <3>8. a = b
      BY <3>4, <3>6, <3>7
    <3> QED
      BY <3>8 DEF a, b
  <2> QED
    BY <1>5, <2>2, <2>5 DEF u, t, P, ValuesIn
<1>6. CASE x \notin P
  <2>1. Those(one, P) = <<>>
    BY <1>1, <1>2, <1>6, ThoseEmpty
  <2>2. Those(Append(s, x), P) = t
    BY <1>1, <1>3, <1>4, <2>1
  <2> QED
    BY <1>6, <2>2 DEF t, P, ValuesIn
<1> QED
  BY <1>5, <1>6

(***************************************************************************)
(* Taking the samples one by one.                                          *)
(***************************************************************************)
AccOf(T) == [out : Seq(T), bucket : Bucket, have : BOOLEAN]
NoAcc    == [out |-> <<>>, bucket |-> NoBucket, have |-> FALSE]

\* What a sample leaves: a window more reported, and the window it is in.
Takes(c, acc, x, rq, w, aggs) ==
    /\ c.have = TRUE
    /\ ~acc.have => /\ c.out = acc.out
                    /\ c.bucket = AddSample(NewBucket(FloorTo(x.ts, w)), x.v)
    /\ acc.have /\ FloorTo(x.ts, w) # acc.bucket.start
         => /\ c.out = Append(acc.out, FlushBucket(acc.bucket, rq, w, aggs))
            /\ c.bucket = AddSample(NewBucket(FloorTo(x.ts, w)), x.v)
    /\ acc.have /\ FloorTo(x.ts, w) = acc.bucket.start
         => c.out = acc.out /\ c.bucket = AddSample(acc.bucket, x.v)

LEMMA AddIs ==
    ASSUME NEW b \in Bucket, NEW v \in Int
    PROVE  AddSample(b, v) \in Bucket
<1> DEFINE low == IF b.count = 0 \/ v < b.min THEN v ELSE b.min
           high == IF b.count = 0 \/ v > b.max THEN v ELSE b.max
           u == Append(b.points, v)
<1>1. b = [start |-> b.start, count |-> b.count, sum |-> b.sum, min |-> b.min,
           max |-> b.max, points |-> b.points]
  BY DEF Bucket
<1>2. AddSample(b, v) = [b EXCEPT !.min = low, !.max = high, !.sum = b.sum + v,
                                  !.count = b.count + 1, !.points = u]
  BY Zenon DEF AddSample
<1>3. /\ b.start \in Int /\ b.count \in Nat /\ b.sum \in Int /\ b.min \in Int /\ b.max \in Int
      /\ b.points \in Seq(Int)
  BY DEF Bucket
<1>4. low \in Int /\ high \in Int /\ b.sum + v \in Int /\ b.count + 1 \in Nat
  BY <1>3
<1>5. u \in Seq(Int)
  BY <1>3
<1> HIDE DEF low, high, u
<1>6. AddSample(b, v) = [start |-> b.start, count |-> b.count + 1, sum |-> b.sum + v, min |-> low,
                         max |-> high, points |-> u]
  BY <1>1, <1>2
<1> QED
  BY <1>3, <1>4, <1>5, <1>6 DEF Bucket

Flushes(rq, w, aggs) == {FlushBucket(b, rq, w, aggs) : b \in Bucket}

LEMMA TakeIs ==
    ASSUME NEW rq, NEW w \in Nat \ {0}, NEW aggs, NEW acc \in AccOf(Flushes(rq, w, aggs)),
           NEW x \in Sample, x.ts \in Nat
    PROVE  /\ TakeSample(acc, x, rq, w, aggs) \in AccOf(Flushes(rq, w, aggs))
           /\ Takes(TakeSample(acc, x, rq, w, aggs), acc, x, rq, w, aggs)
<1> DEFINE T == Flushes(rq, w, aggs)
           F == FloorTo(x.ts, w)
           o == FlushBucket(acc.bucket, rq, w, aggs)
           fresh == NewBucket(F)
           here == IF ~acc.have THEN [acc EXCEPT !.bucket = fresh, !.have = TRUE]
                   ELSE IF F # acc.bucket.start THEN NextBucket(acc, F, rq, w, aggs)
                   ELSE acc
           c == TakeSample(acc, x, rq, w, aggs)
<1>1. acc \in AccOf(T) /\ acc.out \in Seq(T) /\ acc.bucket \in Bucket /\ acc.have \in BOOLEAN
  BY DEF AccOf
<1>2. o \in T
  BY <1>1 DEF Flushes
<1>3. x.v \in Int
  BY DEF Sample
<1>4. fresh \in Bucket
  <2>1. F \in Int
    BY FloorIs
  <2> HIDE DEF F
  <2> QED
    BY <2>1, FilledNew DEF Filled
<1>5. c = [here EXCEPT !.bucket = AddSample(here.bucket, x.v)]
  BY Zenon DEF TakeSample
<1>6. NextBucket(acc, F, rq, w, aggs) = [out |-> Append(acc.out, o), bucket |-> fresh, have |-> TRUE]
  BY Zenon DEF NextBucket
<1> HIDE DEF T, F, o, fresh, c
<1>7. Append(acc.out, o) \in Seq(T)
  BY <1>1, <1>2
<1>8. CASE ~acc.have
  <2>1. here \in AccOf(T) /\ here.have = TRUE /\ here.out = acc.out /\ here.bucket = fresh
    BY <1>1, <1>4, <1>8 DEF AccOf
  <2> HIDE DEF here
  <2>2. AddSample(fresh, x.v) \in Bucket
    BY <1>3, <1>4, AddIs
  <2>3. c \in AccOf(T) /\ c.have = TRUE /\ c.out = acc.out /\ c.bucket = AddSample(fresh, x.v)
    BY <1>5, <2>1, <2>2 DEF AccOf
  <2> QED
    BY <1>8, <2>3 DEF Takes, c, fresh, F, T
<1>9. CASE acc.have /\ F # acc.bucket.start
  <2>1. here \in AccOf(T) /\ here.have = TRUE /\ here.out = Append(acc.out, o) /\ here.bucket = fresh
    <3>1. here = [out |-> Append(acc.out, o), bucket |-> fresh, have |-> TRUE]
      BY <1>6, <1>9, Zenon
    <3> HIDE DEF here
    <3> QED
      BY <1>4, <1>7, <3>1 DEF AccOf
  <2> HIDE DEF here
  <2>2. AddSample(fresh, x.v) \in Bucket
    BY <1>3, <1>4, AddIs
  <2>3. c \in AccOf(T) /\ c.have = TRUE /\ c.out = Append(acc.out, o) /\ c.bucket = AddSample(fresh, x.v)
    BY <1>5, <2>1, <2>2 DEF AccOf
  <2> QED
    BY <1>9, <2>3 DEF Takes, c, fresh, F, T, o
<1>10. CASE acc.have /\ F = acc.bucket.start
  <2>1. here = acc
    BY <1>10, Zenon
  <2> HIDE DEF here
  <2>2. AddSample(acc.bucket, x.v) \in Bucket
    BY <1>1, <1>3, AddIs
  <2>3. c \in AccOf(T) /\ c.have = TRUE /\ c.out = acc.out /\ c.bucket = AddSample(acc.bucket, x.v)
    BY <1>1, <1>5, <1>10, <2>1, <2>2 DEF AccOf
  <2> QED
    BY <1>10, <2>3 DEF Takes, c, F, T
<1> QED
  BY <1>8, <1>9, <1>10

\* The samples of an aggregate query: in time order, and none before the epoch.
Stream(s) == s \in Seq(Sample) /\ InTime(s) /\ \A k \in 1..Len(s) : s[k].ts \in Nat

Starts(s, k, w) == {FloorTo(s[j].ts, w) : j \in 1..k}

\* After k samples the windows before the last are reported, and the last is being filled.
Reduced(acc, s, k, rq, w, aggs, m, e) ==
    /\ acc.have = TRUE
    /\ Climbing(e, m, Starts(s, k, w)) /\ e[m] = FloorTo(s[k].ts, w)
    /\ Filled(acc.bucket, e[m], ValuesIn(SubSeq(s, 1, k), e[m], w))
    /\ Len(ValuesIn(SubSeq(s, 1, k), e[m], w)) # 0
    /\ Len(acc.out) = m - 1
    /\ \A i \in 1..(m - 1) : acc.out[i] = BucketOf(SubSeq(s, 1, k), e[i], rq, w, aggs)

LEMMA NoAccIs ==
    ASSUME NEW T
    PROVE  NoAcc \in AccOf(T)
<1>1. <<>> \in Seq(T) /\ <<>> \in Seq(Int)
  OBVIOUS
<1>2. NoBucket \in Bucket
  BY <1>1 DEF NoBucket, Bucket
<1> QED
  BY <1>1, <1>2 DEF NoAcc, AccOf

LEMMA FirstTaken ==
    ASSUME NEW s, Stream(s), Len(s) # 0, NEW rq, NEW w \in Nat \ {0}, NEW aggs
    PROVE  Reduced(TakeSample(NoAcc, s[1], rq, w, aggs), s, 1, rq, w, aggs, 1,
                   [i \in 1..1 |-> FloorTo(s[1].ts, w)])
<1> DEFINE x == s[1]
           F == FloorTo(x.ts, w)
           e == [i \in 1..1 |-> F]
           p == SubSeq(s, 1, 1)
           b == AddSample(NewBucket(F), x.v)
           A == TakeSample(NoAcc, x, rq, w, aggs)
<1>1. s \in Seq(Sample) /\ 1 \in 1..Len(s) /\ x \in Sample /\ x.ts \in Nat /\ x.v \in Int
  <2>1. s \in Seq(Sample) /\ 1 \in 1..Len(s)
    BY DEF Stream
  <2>2. x \in Sample
    BY <2>1, SampleIs
  <2> QED
    BY <2>1, <2>2 DEF Stream, Sample
<1>2. p = Append(<<>>, x)
  <2>1. s \in Seq(Sample) /\ 1 <= Len(s) /\ Len(s) \in Nat
    BY <1>1
  <2>2. Len(p) = 1 /\ p[1] = s[1] /\ p \in Seq(Sample)
    BY <2>1
  <2>3. Len(<<x>>) = 1 /\ <<x>>[1] = s[1] /\ <<x>> \in Seq(Sample) /\ Append(<<>>, x) = <<x>>
    BY <1>1
  <2> DEFINE q == <<x>>
  <2>4. Len(q) = 1 /\ q[1] = s[1] /\ q \in Seq(Sample)
    BY <2>3
  <2> HIDE DEF p, q
  <2>5. p = [k \in 1..1 |-> p[k]] /\ q = [k \in 1..1 |-> q[k]]
    BY <2>2, <2>4
  <2>6. \A k \in 1..1 : p[k] = q[k]
    BY <2>2, <2>4
  <2>7. p = q
    BY <2>5, <2>6
  <2> QED
    BY <2>3, <2>7 DEF q
<1>3. NoAcc \in AccOf(Flushes(rq, w, aggs))
  BY NoAccIs
<1>4. A.have = TRUE /\ A.out = <<>> /\ A.bucket = b
  <2>1. NoAcc.have = FALSE /\ NoAcc.out = <<>>
    BY DEF NoAcc
  <2> HIDE DEF x
  <2>2. Takes(A, NoAcc, x, rq, w, aggs)
    BY <1>1, <1>3, TakeIs
  <2> QED
    BY <2>1, <2>2 DEF Takes
<1>5. F \in Nat
  BY <1>1, FloorIs
<1>6. x \in WindowOf(F, w)
  BY <1>1, FloorIs DEF WindowOf
<1>7. ValuesIn(p, F, w) = Append(<<>>, x.v)
  <2>1. <<>> \in Seq(Sample) /\ \A k \in 1..Len(<<>>) : <<>>[k] \notin WindowOf(F, w)
    OBVIOUS
  <2>2. ValuesIn(<<>>, F, w) = <<>>
    BY <2>1, ValuesInIs
  <2>3. ValuesIn(Append(<<>>, x), F, w) = Append(ValuesIn(<<>>, F, w), x.v)
    <3> HIDE DEF x, F
    <3> QED
      BY <1>1, <1>6, <2>1, ValuesMore
  <2> QED
    BY <1>2, <2>2, <2>3
<1>8. Filled(b, F, ValuesIn(p, F, w))
  <2> DEFINE fresh == NewBucket(F)
  <2> HIDE DEF x, F
  <2>1. F \in Int /\ x.v \in Int
    BY <1>1, <1>5
  <2>2. Filled(fresh, F, <<>>)
    BY <2>1, FilledNew
  <2> HIDE DEF fresh
  <2>3. Filled(AddSample(fresh, x.v), F, Append(<<>>, x.v))
    BY <2>1, <2>2, FilledMore
  <2> QED
    BY <1>7, <2>3 DEF fresh
<1>9. Climbing(e, 1, Starts(s, 1, w)) /\ e[1] = F
  <2>1. Starts(s, 1, w) = {F}
    BY DEF Starts
  <2> HIDE DEF F
  <2> QED
    BY <2>1 DEF Climbing, Rising
<1>10. Len(ValuesIn(p, F, w)) # 0
  BY <1>7
<1>11. A.have = TRUE /\ A.bucket = b /\ Len(A.out) = 1 - 1 /\ \A i \in 1..(1 - 1) : FALSE
  BY <1>4
<1> HIDE DEF A, e, b, p, F, x
<1>12. Reduced(A, s, 1, rq, w, aggs, 1, e)
  BY <1>8, <1>9, <1>10, <1>11 DEF Reduced, p, F, x
<1> QED
  BY <1>12 DEF A, e, F, x

LEMMA PrefixMore ==
    ASSUME NEW S, NEW s \in Seq(S), NEW k \in 0..(Len(s) - 1)
    PROVE  /\ SubSeq(s, 1, k) \in Seq(S) /\ Len(SubSeq(s, 1, k)) = k
           /\ \A j \in 1..k : SubSeq(s, 1, k)[j] = s[j]
           /\ SubSeq(s, 1, k + 1) = Append(SubSeq(s, 1, k), s[k + 1])
<1> DEFINE p == SubSeq(s, 1, k)
           x == s[k + 1]
           a == SubSeq(s, 1, k + 1)
           b == Append(p, x)
<1>1. Len(s) \in Nat /\ k \in Nat /\ k + 1 <= Len(s) /\ k + 1 \in 1..Len(s)
  OBVIOUS
<1>2. p \in Seq(S) /\ Len(p) = k /\ \A j \in 1..k : p[j] = s[j]
  BY <1>1
<1>3. a \in Seq(S) /\ Len(a) = k + 1 /\ \A j \in 1..(k + 1) : a[j] = s[j]
  BY <1>1
<1>4. x \in S
  BY <1>1
<1> HIDE DEF p, a, x
<1>5. b \in Seq(S) /\ Len(b) = k + 1 /\ b[k + 1] = x /\ \A j \in 1..k : b[j] = p[j]
  BY <1>1, <1>2, <1>4
<1>6. \A j \in 1..(k + 1) : j = k + 1 \/ j \in 1..k
  BY <1>1
<1> HIDE DEF b
<1>7. \A j \in 1..(k + 1) : a[j] = b[j]
  BY <1>2, <1>3, <1>5, <1>6 DEF x
<1>8. a = b
  BY <1>3, <1>5, <1>7
<1> QED
  BY <1>2, <1>8 DEF a, b, p, x

LEMMA NextTaken ==
    ASSUME NEW s, Stream(s), NEW k \in 1..(Len(s) - 1), NEW rq, NEW w \in Nat \ {0}, NEW aggs,
           NEW acc \in AccOf(Flushes(rq, w, aggs)),
           NEW m \in Nat \ {0}, NEW e, Reduced(acc, s, k, rq, w, aggs, m, e)
    PROVE  \E n \in Nat \ {0} : \E d :
               Reduced(TakeSample(acc, s[k + 1], rq, w, aggs), s, k + 1, rq, w, aggs, n, d)
<1> DEFINE x == s[k + 1]
           F == FloorTo(x.ts, w)
           p == SubSeq(s, 1, k)
           c == TakeSample(acc, x, rq, w, aggs)
           T == Flushes(rq, w, aggs)
<1>1. s \in Seq(Sample) /\ Len(s) \in Nat /\ k \in Nat /\ k \in 0..(Len(s) - 1)
      /\ k + 1 \in 1..Len(s) /\ k \in 1..Len(s) /\ k < k + 1 /\ \A j \in 1..k : j \in 1..Len(s) /\ j \in 1..(k + 1)
  BY DEF Stream
<1>2. x \in Sample /\ x.ts \in Nat /\ x.v \in Int
  <2>1. x \in Sample
    BY <1>1, SampleIs
  <2> QED
    BY <1>1, <2>1 DEF Stream, Sample
<1>3. \A j \in 1..k : s[j].ts \in Nat
  BY <1>1 DEF Stream
<1>4. /\ p \in Seq(Sample) /\ Len(p) = k /\ \A j \in 1..k : p[j] = s[j]
      /\ SubSeq(s, 1, k + 1) = Append(p, x)
  BY <1>1, PrefixMore
<1>5. F \in Nat /\ F <= x.ts /\ x.ts < F + w /\ x \in WindowOf(F, w)
  BY <1>2, FloorIs DEF WindowOf
<1>6. /\ acc.have = TRUE
      /\ Climbing(e, m, Starts(s, k, w)) /\ e[m] = FloorTo(s[k].ts, w)
      /\ Filled(acc.bucket, e[m], ValuesIn(p, e[m], w))
      /\ Len(ValuesIn(p, e[m], w)) # 0
      /\ Len(acc.out) = m - 1
      /\ \A i \in 1..(m - 1) : acc.out[i] = BucketOf(p, e[i], rq, w, aggs)
  BY DEF Reduced
<1>7. c \in AccOf(T) /\ Takes(c, acc, x, rq, w, aggs)
  <2> HIDE DEF x
  <2> QED
    BY <1>2, TakeIs
<1>8. acc.out \in Seq(T) /\ acc.bucket \in Bucket
  BY DEF AccOf
<1>9. Starts(s, k + 1, w) = Starts(s, k, w) \cup {F}
  <2>1. \A j \in 1..(k + 1) : j \in 1..k \/ j = k + 1
    BY <1>1
  <2> QED
    BY <1>1, <2>1 DEF Starts
<1>10. e[m] <= F
  <2>1. s[k].ts <= x.ts /\ s[k].ts \in Nat
    BY <1>1, <1>3 DEF Stream, InTime
  <2> QED
    BY <1>2, <1>6, <2>1, FloorsRise
<1> HIDE DEF x, p, T, c
<1>11. e \in [1..m -> Starts(s, k, w)] /\ (\A i, j \in 1..m : i < j => e[i] < e[j])
       /\ \A a \in Starts(s, k, w) : \E i \in 1..m : e[i] = a
  BY <1>6 DEF Climbing, Rising
<1>12. ASSUME NEW i \in 1..m PROVE e[i] \in Nat /\ (x \in WindowOf(e[i], w) <=> F = e[i])
  <2>1. e[i] \in Starts(s, k, w)
    BY <1>11
  <2>2. PICK j \in 1..k : e[i] = FloorTo(s[j].ts, w)
    BY <2>1 DEF Starts
  <2>3. s[j].ts \in Nat
    BY <1>3
  <2>4. e[i] \in Nat
    BY <2>2, <2>3, FloorIs
  <2>5. (FloorTo(s[j].ts, w) <= x.ts /\ x.ts < FloorTo(s[j].ts, w) + w)
          <=> FloorTo(x.ts, w) = FloorTo(s[j].ts, w)
    BY <1>2, <2>3, SameWindow
  <2>6. x \in WindowOf(e[i], w) <=> (e[i] <= x.ts /\ x.ts < e[i] + w)
    BY <1>2 DEF WindowOf
  <2> QED
    BY <2>2, <2>4, <2>5, <2>6
<1>13. ASSUME NEW st
       PROVE  ValuesIn(Append(p, x), st, w)
                = IF x \in WindowOf(st, w) THEN Append(ValuesIn(p, st, w), x.v) ELSE ValuesIn(p, st, w)
  BY <1>2, <1>4, ValuesMore
<1>14. Append(p, x) \in Seq(Sample)
  BY <1>2, <1>4
<1>15. ASSUME NEW i \in 1..m, F # e[i]
       PROVE  /\ BucketOf(SubSeq(s, 1, k + 1), e[i], rq, w, aggs) = BucketOf(p, e[i], rq, w, aggs)
  <2> DEFINE st == e[i]
             u == Append(p, x)
  <2>1. ValuesIn(u, st, w) = ValuesIn(p, st, w)
    BY <1>12, <1>13, <1>15
  <2>2. u \in Seq(Sample)
    BY <1>14
  <2> HIDE DEF st, u
  <2>3. BucketOf(p, st, rq, w, aggs) = Reported(st, ValuesIn(p, st, w), rq, w, aggs)
    BY <1>4, BucketOfIs
  <2>4. BucketOf(u, st, rq, w, aggs) = Reported(st, ValuesIn(u, st, w), rq, w, aggs)
    BY <2>2, BucketOfIs
  <2> QED
    BY <1>4, <2>1, <2>3, <2>4 DEF st, u
<1>16. m \in 1..m /\ 1 \in 1..m /\ \A i \in 1..(m - 1) : i \in 1..m /\ i < m
  OBVIOUS
<1>17. CASE F = e[m]
  <2>1. c.have = TRUE /\ c.out = acc.out /\ c.bucket = AddSample(acc.bucket, x.v)
    <3>1. acc.bucket.start = e[m]
      BY <1>6 DEF Filled
    <3> QED
      BY <1>6, <1>7, <1>17, <3>1 DEF Takes
  <2>2. Starts(s, k + 1, w) = Starts(s, k, w)
    <3>1. F \in Starts(s, k, w)
      BY <1>11, <1>16, <1>17
    <3> QED
      BY <1>9, <3>1
  <2> DEFINE vals == ValuesIn(p, e[m], w)
             st == e[m]
  <2>3. ValuesIn(Append(p, x), e[m], w) = Append(vals, x.v)
    BY <1>12, <1>13, <1>16, <1>17
  <2>4. vals \in Seq(Int) /\ st \in Int /\ Filled(acc.bucket, st, vals)
    BY <1>4, <1>6, <1>12, <1>16, ValuesInIs
  <2> HIDE DEF vals, st
  <2>5. Filled(AddSample(acc.bucket, x.v), st, Append(vals, x.v))
    BY <1>2, <2>4, FilledMore
  <2>6. Len(Append(vals, x.v)) # 0
    BY <1>2, <2>4
  <2>7. \A i \in 1..(m - 1) : F # e[i]
    <3> SUFFICES ASSUME NEW i \in 1..(m - 1) PROVE F # e[i]
      OBVIOUS
    <3>1. e[i] < e[m] /\ e[i] \in Nat /\ e[m] \in Nat
      BY <1>11, <1>12, <1>16
    <3> QED
      BY <1>17, <3>1
  <2>8. \A i \in 1..(m - 1) : c.out[i] = BucketOf(SubSeq(s, 1, k + 1), e[i], rq, w, aggs)
    BY <1>6, <1>15, <1>16, <2>1, <2>7
  <2>9. Reduced(c, s, k + 1, rq, w, aggs, m, e)
    BY <1>4, <1>6, <1>17, <2>1, <2>2, <2>3, <2>5, <2>6, <2>8 DEF Reduced, st, x
  <2> QED
    BY <2>9 DEF c, x
<1>18. CASE F # e[m]
  <2> DEFINE d == [i \in 1..(m + 1) |-> IF i <= m THEN e[i] ELSE F]
             o == FlushBucket(acc.bucket, rq, w, aggs)
             vals == ValuesIn(p, e[m], w)
             st == e[m]
  <2>1. c.have = TRUE /\ c.out = Append(acc.out, o) /\ c.bucket = AddSample(NewBucket(F), x.v)
    <3>1. acc.bucket.start = e[m]
      BY <1>6 DEF Filled
    <3>2. FloorTo(x.ts, w) # acc.bucket.start
      BY <1>18, <3>1
    <3> HIDE DEF F
    <3> QED
      BY <1>6, <1>7, <3>2 DEF Takes, F
  <2>2. e[m] < F /\ \A i \in 1..m : e[i] < F /\ F # e[i] /\ e[i] \in Nat
    <3>1. e[m] \in Nat /\ e[m] < F
      BY <1>5, <1>10, <1>12, <1>16, <1>18
    <3>2. ASSUME NEW i \in 1..m PROVE e[i] < F /\ e[i] \in Nat
      <4>1. i = m \/ i < m
        OBVIOUS
      <4>2. e[i] \in Nat
        BY <1>12
      <4> QED
        BY <1>5, <1>11, <1>16, <3>1, <4>1, <4>2
    <3> QED
      BY <1>5, <3>1, <3>2
  <2> HIDE DEF F
  <2>3. /\ \A i \in 1..m : d[i] = e[i] /\ i \in 1..(m + 1)
        /\ d[m + 1] = F /\ m + 1 \in 1..(m + 1) /\ \A i \in 1..(m + 1) : i \in 1..m \/ i = m + 1
        /\ DOMAIN d = 1..(m + 1) /\ d = [i \in 1..(m + 1) |-> d[i]]
    OBVIOUS
  <2> HIDE DEF d
  <2>4. Climbing(d, m + 1, Starts(s, k + 1, w))
    <3>1. \A i \in 1..(m + 1) : d[i] \in Starts(s, k + 1, w)
      BY <1>9, <1>11, <2>3
    <3>2. \A i, j \in 1..(m + 1) : i < j => d[i] < d[j]
      <4> SUFFICES ASSUME NEW i \in 1..(m + 1), NEW j \in 1..(m + 1), i < j PROVE d[i] < d[j]
        OBVIOUS
      <4>1. i \in 1..m
        OBVIOUS
      <4> QED
        BY <1>11, <2>2, <2>3, <4>1
    <3>3. \A a \in Starts(s, k + 1, w) : \E i \in 1..(m + 1) : d[i] = a
      BY <1>9, <1>11, <2>3
    <3> QED
      BY <2>3, <3>1, <3>2, <3>3 DEF Climbing, Rising
  <2>5. o = BucketOf(SubSeq(s, 1, k + 1), e[m], rq, w, aggs)
    <3>1. BucketOf(SubSeq(s, 1, k + 1), e[m], rq, w, aggs) = BucketOf(p, e[m], rq, w, aggs)
      BY <1>15, <1>16, <1>18
    <3>2. BucketOf(p, st, rq, w, aggs) = Reported(st, ValuesIn(p, st, w), rq, w, aggs)
      BY <1>4, BucketOfIs
    <3>3. Filled(acc.bucket, st, vals) /\ Len(vals) # 0
      BY <1>6
    <3> HIDE DEF vals
    <3>4. o = Reported(st, vals, rq, w, aggs)
      BY <3>3, FlushIs
    <3> QED
      BY <3>1, <3>2, <3>4 DEF vals
  <2>6. o \in T
    BY <1>8 DEF T, Flushes
  <2> HIDE DEF o, vals
  <2>7. Len(c.out) = m /\ c.out[m] = o /\ \A i \in 1..(m - 1) : c.out[i] = acc.out[i]
    <3>1. /\ Len(Append(acc.out, o)) = Len(acc.out) + 1 /\ Append(acc.out, o)[Len(acc.out) + 1] = o
          /\ \A i \in 1..Len(acc.out) : Append(acc.out, o)[i] = acc.out[i]
      BY <1>8, <2>6
    <3>2. (m - 1) + 1 = m
      OBVIOUS
    <3> QED
      BY <1>6, <2>1, <3>1, <3>2
  <2>8. \A i \in 1..m : c.out[i] = BucketOf(SubSeq(s, 1, k + 1), d[i], rq, w, aggs)
    <3> SUFFICES ASSUME NEW i \in 1..m PROVE c.out[i] = BucketOf(SubSeq(s, 1, k + 1), e[i], rq, w, aggs)
      BY <2>3
    <3>1. CASE i = m
      BY <2>5, <2>7, <3>1
    <3>2. CASE i # m
      <4>1. i \in 1..(m - 1)
        BY <3>2
      <4>2. acc.out[i] = BucketOf(p, e[i], rq, w, aggs)
        BY <1>6, <4>1
      <4>3. BucketOf(SubSeq(s, 1, k + 1), e[i], rq, w, aggs) = BucketOf(p, e[i], rq, w, aggs)
        BY <1>15, <2>2
      <4> QED
        BY <2>7, <4>1, <4>2, <4>3
    <3> QED
      BY <3>1, <3>2
  <2>9. ValuesIn(Append(p, x), F, w) = Append(<<>>, x.v)
    <3>1. \A j \in 1..Len(p) : p[j] \notin WindowOf(F, w)
      <4> SUFFICES ASSUME NEW j \in 1..k, s[j] \in WindowOf(F, w) PROVE FALSE
        BY <1>4
      <4>1. s[j].ts \in Nat /\ F <= s[j].ts /\ s[j].ts < F + w
        BY <1>3 DEF WindowOf
      <4>2. (FloorTo(x.ts, w) <= s[j].ts /\ s[j].ts < FloorTo(x.ts, w) + w)
              <=> FloorTo(s[j].ts, w) = FloorTo(x.ts, w)
        BY <1>2, <4>1, SameWindow
      <4>3. FloorTo(s[j].ts, w) = F
        BY <4>1, <4>2 DEF F
      <4>4. F \in Starts(s, k, w)
        BY <4>3 DEF Starts
      <4>5. PICK i \in 1..m : e[i] = F
        BY <1>11, <4>4
      <4> QED
        BY <2>2, <4>5
    <3>2. ValuesIn(p, F, w) = <<>>
      BY <1>4, <3>1, ValuesInIs
    <3> QED
      BY <1>5, <1>13, <3>2
  <2>10. Filled(AddSample(NewBucket(F), x.v), F, Append(<<>>, x.v))
    <3> DEFINE fresh == NewBucket(F)
    <3>1. F \in Int
      BY <1>5
    <3>2. Filled(fresh, F, <<>>)
      BY <3>1, FilledNew
    <3> HIDE DEF fresh
    <3>3. Filled(AddSample(fresh, x.v), F, Append(<<>>, x.v))
      BY <1>2, <3>1, <3>2, FilledMore
    <3> QED
      BY <3>3 DEF fresh
  <2>11. Len(Append(<<>>, x.v)) # 0 /\ (m + 1) - 1 = m /\ m + 1 \in Nat \ {0}
    OBVIOUS
  <2>12. Reduced(c, s, k + 1, rq, w, aggs, m + 1, d)
    BY <1>4, <2>1, <2>3, <2>4, <2>7, <2>8, <2>9, <2>10, <2>11 DEF Reduced, F, x
  <2> QED
    BY <2>11, <2>12 DEF c, x
<1> QED
  BY <1>17, <1>18

LEMMA BucketsAre ==
    ASSUME NEW s, Stream(s), NEW rq, NEW w \in Nat \ {0}, NEW aggs
    PROVE  Buckets(s, rq, w, aggs) = TrueBuckets(s, rq, w, aggs)
<1> DEFINE n == Len(s)
           T == Flushes(rq, w, aggs)
           S == AccOf(T)
           step == [k \in 1..n |-> [a \in S |-> TakeSample(a, s[k], rq, w, aggs)]]
           Def(t) == [k \in 0..n |-> IF k = 0 THEN [out |-> <<>>, bucket |-> NoBucket, have |-> FALSE]
                                     ELSE TakeSample(t[k - 1], s[k], rq, w, aggs)]
           acc == CHOOSE t : t = Def(t)
           starts == {FloorTo(s[k].ts, w) : k \in DOMAIN s}
           order == Sorted(starts, Less(starts))
<1>1. /\ s \in Seq(Sample) /\ n \in Nat /\ DOMAIN s = 1..n
      /\ \A k \in 1..n : s[k] \in Sample /\ s[k].ts \in Nat
  BY SampleIs DEF Stream
<1>2. Buckets(s, rq, w, aggs)
        = IF acc[n].have THEN Append(acc[n].out, FlushBucket(acc[n].bucket, rq, w, aggs)) ELSE <<>>
  BY Zenon DEF Buckets
<1>3. TrueBuckets(s, rq, w, aggs) = [k \in DOMAIN order |-> BucketOf(s, order[k], rq, w, aggs)]
  BY Zenon DEF TrueBuckets
<1>4. starts = Starts(s, n, w)
  BY <1>1 DEF Starts
<1> HIDE DEF n
<1>5. \A k \in 1..n : \A a \in S : TakeSample(a, s[k], rq, w, aggs) \in S
  <2> SUFFICES ASSUME NEW k \in 1..n, NEW a \in S PROVE TakeSample(a, s[k], rq, w, aggs) \in S
    OBVIOUS
  <2> DEFINE x == s[k]
  <2>1. x \in Sample /\ x.ts \in Nat
    BY <1>1
  <2> HIDE DEF x
  <2>2. TakeSample(a, x, rq, w, aggs) \in AccOf(Flushes(rq, w, aggs))
    BY <2>1, TakeIs
  <2> QED
    BY <2>2 DEF x
<1>6. step \in [1..n -> [S -> S]] /\ \A k \in 1..n : \A a \in S : step[k][a] = TakeSample(a, s[k], rq, w, aggs)
  <2> HIDE DEF S
  <2> QED
    BY <1>5
<1>7. NoAcc \in S
  BY NoAccIs
<1>8. \A t : Def(t) = [k \in 0..n |-> IF k = 0 THEN NoAcc ELSE TakeSample(t[k - 1], s[k], rq, w, aggs)]
  BY DEF NoAcc
<1> HIDE DEF T, S, step
<1>9. PICK t : Recursive(t, n, S, NoAcc, step)
  BY <1>1, <1>6, <1>7, Recursion
<1>10. t = Def(t)
  <2>1. t = [k \in 0..n |-> t[k]] /\ \A k \in 0..n : t[k] \in S
    BY <1>9 DEF Recursive
  <2>2. \A k \in 0..n : k = 0 \/ (k \in 1..n /\ k - 1 \in 0..n)
    BY <1>1
  <2>3. \A k \in 0..n : t[k] = IF k = 0 THEN NoAcc ELSE TakeSample(t[k - 1], s[k], rq, w, aggs)
    BY <1>6, <1>9, <2>1, <2>2 DEF Recursive
  <2> HIDE DEF Def
  <2> QED
    BY <1>8, <2>1, <2>3
<1>11. acc = Def(acc)
  BY <1>10
<1> HIDE DEF acc
<1>12. acc[0] = NoAcc /\ \A k \in 1..n : acc[k] = TakeSample(acc[k - 1], s[k], rq, w, aggs)
  <2>1. \A k \in 0..n : acc[k] = IF k = 0 THEN NoAcc ELSE TakeSample(acc[k - 1], s[k], rq, w, aggs)
    BY <1>8, <1>11
  <2>2. 0 \in 0..n /\ \A k \in 1..n : k \in 0..n /\ k # 0
    BY <1>1
  <2> QED
    BY <2>1, <2>2
<1> DEFINE Good(k) == \E m \in Nat \ {0} : \E d : Reduced(acc[k], s, k, rq, w, aggs, m, d)
           G == {k \in 0..n : acc[k] \in S /\ (k = 0 \/ Good(k))}
<1> HIDE DEF Def
<1>13. 0 \in G
  BY <1>1, <1>7, <1>12
<1>14. ASSUME NEW k \in G, k \in 0..n, k < n PROVE k + 1 \in G
  <2>1. k + 1 \in 1..n /\ k + 1 \in 0..n /\ (k + 1) - 1 = k
    BY <1>1, <1>14
  <2>2. acc[k] \in S /\ (k = 0 \/ Good(k))
    BY <1>14
  <2>3. acc[k + 1] = TakeSample(acc[k], s[k + 1], rq, w, aggs) /\ acc[k + 1] \in S
    BY <1>5, <1>12, <2>1, <2>2
  <2>4. Good(k + 1)
    <3>1. CASE k = 0
      <4>1. Len(s) # 0
        BY <1>1, <2>1 DEF n
      <4>2. Reduced(TakeSample(NoAcc, s[1], rq, w, aggs), s, 1, rq, w, aggs, 1,
                    [i \in 1..1 |-> FloorTo(s[1].ts, w)])
        BY <4>1, FirstTaken
      <4>3. Reduced(acc[1], s, 1, rq, w, aggs, 1, [i \in 1..1 |-> FloorTo(s[1].ts, w)])
        BY <1>12, <2>3, <3>1, <4>2
      <4>4. 1 \in Nat \ {0} /\ k + 1 = 1
        BY <3>1
      <4> QED
        BY <4>3, <4>4
    <3>2. CASE k # 0
      <4>1a. PICK m \in Nat \ {0} : \E d : Reduced(acc[k], s, k, rq, w, aggs, m, d)
        BY <2>2, <3>2
      <4>1. PICK d : Reduced(acc[k], s, k, rq, w, aggs, m, d)
        BY <4>1a
      <4>2. k \in 1..(Len(s) - 1)
        BY <1>1, <1>14, <3>2 DEF n
      <4> DEFINE a == acc[k]
      <4>3. a \in AccOf(Flushes(rq, w, aggs)) /\ Reduced(a, s, k, rq, w, aggs, m, d)
        BY <2>2, <4>1 DEF S, T
      <4> HIDE DEF a
      <4>4. \E j \in Nat \ {0} : \E f :
                Reduced(TakeSample(a, s[k + 1], rq, w, aggs), s, k + 1, rq, w, aggs, j, f)
        BY <4>2, <4>3, NextTaken
      <4> QED
        BY <2>3, <4>4 DEF a
    <3> QED
      BY <3>1, <3>2
  <2> HIDE DEF Good
  <2> QED
    BY <2>1, <2>3, <2>4
<1>15. acc[n] \in S /\ (n = 0 \/ Good(n))
  <2> HIDE DEF G, Good
  <2>1. \A k \in 0..n : k \in G
    BY <1>1, <1>13, <1>14, Induct
  <2>2. n \in G
    BY <1>1, <2>1
  <2> QED
    BY <2>2 DEF G
<1>16. CASE n = 0
  <2>1. Buckets(s, rq, w, aggs) = <<>>
    BY <1>2, <1>12, <1>16 DEF NoAcc
  <2>2. starts = {}
    BY <1>1, <1>16
  <2>3. order = <<>>
    <3>1. Cardinality({}) = 0
      BY FS_EmptySet
    <3>2. order = [k \in 1..0 |-> CHOOSE x \in starts : Cardinality({y \in starts : <<y, x>> \in Less(starts)}) = k - 1]
      BY <2>2, <3>1 DEF Sorted
    <3> QED
      BY <3>2
  <2> HIDE DEF order
  <2>4. TrueBuckets(s, rq, w, aggs) = <<>>
    BY <1>3, <2>3
  <2> QED
    BY <2>1, <2>4
<1>17. CASE n # 0
  <2>1a. PICK m \in Nat \ {0} : \E e : Reduced(acc[n], s, n, rq, w, aggs, m, e)
    BY <1>15, <1>17
  <2>1. PICK e : Reduced(acc[n], s, n, rq, w, aggs, m, e)
    BY <2>1a
  <2> DEFINE a == acc[n]
             p == SubSeq(s, 1, n)
             vals == ValuesIn(s, e[m], w)
             o == FlushBucket(a.bucket, rq, w, aggs)
             out == Append(a.out, o)
  <2>2. p = s
    BY <1>1 DEF n
  <2>3. /\ a.have = TRUE /\ Climbing(e, m, Starts(s, n, w)) /\ Filled(a.bucket, e[m], vals)
        /\ Len(vals) # 0 /\ Len(a.out) = m - 1
        /\ \A i \in 1..(m - 1) : a.out[i] = BucketOf(s, e[i], rq, w, aggs)
    BY <2>1, <2>2 DEF Reduced
  <2>4. a \in AccOf(T)
    BY <1>15 DEF S
  <2> HIDE DEF a, p, starts
  <2>5. a.out \in Seq(T) /\ a.bucket \in Bucket
    BY <2>4 DEF AccOf
  <2>6. o \in T
    BY <2>5 DEF T, Flushes
  <2>7. o = BucketOf(s, e[m], rq, w, aggs)
    <3> DEFINE st == e[m]
    <3>1. BucketOf(s, st, rq, w, aggs) = Reported(st, ValuesIn(s, st, w), rq, w, aggs)
      BY <1>1, BucketOfIs
    <3>2. Filled(a.bucket, st, vals) /\ Len(vals) # 0
      BY <2>3
    <3> HIDE DEF vals
    <3>3. o = Reported(st, vals, rq, w, aggs)
      BY <3>2, FlushIs
    <3> QED
      BY <3>1, <3>3 DEF vals
  <2>8. starts \subseteq Nat
    <3> SUFFICES ASSUME NEW k \in 1..n PROVE FloorTo(s[k].ts, w) \in Nat
      BY <1>1 DEF starts
    <3>1. s[k].ts \in Nat
      BY <1>1
    <3> QED
      BY <3>1, FloorIs
  <2>9. e = order /\ DOMAIN e = 1..m
    <3>1. Climbing(e, m, starts) /\ m \in Nat
      BY <1>4, <2>3
    <3> QED
      BY <2>8, <3>1, ClimbingIs DEF Climbing
  <2>10. Buckets(s, rq, w, aggs) = out
    BY <1>2, <2>3 DEF a
  <2>11. /\ out \in Seq(T) /\ Len(out) = m /\ out[m] = o
         /\ \A i \in 1..(m - 1) : out[i] = a.out[i]
    <3> HIDE DEF o
    <3>1. /\ out \in Seq(T) /\ Len(out) = Len(a.out) + 1 /\ out[Len(a.out) + 1] = o
          /\ \A i \in 1..Len(a.out) : out[i] = a.out[i]
      BY <2>5, <2>6
    <3>2. (m - 1) + 1 = m
      OBVIOUS
    <3> HIDE DEF out
    <3> QED
      BY <2>3, <3>1, <3>2
  <2> HIDE DEF out, o, order
  <2>12. out = [i \in 1..m |-> out[i]]
    BY <2>11
  <2>13. \A i \in 1..m : out[i] = BucketOf(s, order[i], rq, w, aggs)
    <3> SUFFICES ASSUME NEW i \in 1..m PROVE out[i] = BucketOf(s, e[i], rq, w, aggs)
      BY <2>9
    <3>1. i = m \/ i \in 1..(m - 1)
      OBVIOUS
    <3> QED
      BY <2>3, <2>7, <2>11, <3>1
  <2> QED
    BY <1>3, <2>9, <2>10, <2>12, <2>13
<1> QED
  BY <1>16, <1>17

\* What a query of the metric file returns of a metric is in time order and in the range.
LEMMA StridedStream ==
    ASSUME NEW s \in Seq(Sample), InTime(s), NEW rq \in Request, rq.from >= 0
    PROVE  Stream(Strided(s, rq))
<1> DEFINE K == Due(s, rq)
           t == Picked(s, K)
<1>1. K \subseteq 1..Len(s) /\ \A k \in K : Wanted(rq, s[k].ts)
  BY DEF Due, Wants
<1>2. Strided(s, rq) = t
  BY StridedDue
<1>3. t \in Seq(Sample) /\ \E m \in Nat : \E e : Picks(s, K, m, e)
  <2> HIDE DEF K
  <2> QED
    BY <1>1, PickedIs
<1>4a. PICK m \in Nat : \E e : Picks(s, K, m, e)
  BY <1>3
<1>4. PICK e : Picks(s, K, m, e)
  BY <1>4a
<1>5. /\ t = [k \in 1..m |-> s[e[k]]] /\ Len(t) = m /\ e \in [1..m -> K]
      /\ \A i, j \in 1..m : i < j => e[i] < e[j]
  BY <1>4 DEF Picks, Climbing, Rising
<1> HIDE DEF K, t
<1>6. \A k \in 1..m : t[k] = s[e[k]] /\ e[k] \in K /\ e[k] \in 1..Len(s)
  BY <1>1, <1>5
<1>7. InTime(t)
  BY <1>5, <1>6 DEF InTime
<1>8. ASSUME NEW k \in 1..Len(t) PROVE t[k].ts \in Nat
  <2>1. t[k] = s[e[k]] /\ e[k] \in K /\ e[k] \in 1..Len(s)
    BY <1>5, <1>6
  <2>2. s[e[k]].ts \in Int /\ rq.from <= s[e[k]].ts
    BY <1>1, <2>1, SampleIs DEF Wanted
  <2>3. rq.from \in Int
    BY DEF Request
  <2> QED
    BY <2>1, <2>2, <2>3
<1> QED
  BY <1>2, <1>3, <1>7, <1>8 DEF Stream

LEMMA InvBuckets == MetricInv => BucketsExact
<1> SUFFICES ASSUME MetricInv, NEW r \in Reader, NEW id \in rd[r].rq.ids, NEW aggs \in AggSets,
                    rd[r].pc = "done", rd[r].fd # NoFile, rd[r].rq.from >= 0
             PROVE  Buckets(Of(id, rd[r].out), rd[r].rq, Window, aggs)
                      = TrueBuckets(Of(id, rd[r].out), rd[r].rq, Window, aggs)
  BY DEF BucketsExact
<1> DEFINE rq == rd[r].rq
           pages == Pages(rd[r])
           s == Of(id, rd[r].out)
<1>1. PICK h : Kept(h)
  BY DEF MetricInv
<1>2. QueryOK(rd[r], h, builds, data) /\ Built(h, builds, data)
  BY <1>1 DEF Kept
<1>3. rq \in Request /\ OneOf(rd[r].fd, h, builds)
  BY <1>2 DEF QueryOK
<1>4. data \in Seq(Page) /\ builds \in Nat
  BY DEF MetricInv
<1>5. pages = SubSeq(data, 1, rd[r].fd.from) /\ pages \in Seq(Page)
  BY <1>2, <1>3, <1>4, BuiltIs DEF Pages
<1>6. rd[r].out = Contents(pages, rq)
  BY <1>2, <1>5 DEF QueryOK
<1>7. s = IF id \in DOMAIN Inputs(pages) THEN Strided(Inputs(pages)[id], rq) ELSE <<>>
  <2> HIDE DEF pages, rq
  <2>1. id \in rq.ids
    BY DEF rq
  <2> QED
    BY <1>3, <1>5, <1>6, <2>1, ContentsOf
<1>8. Stream(s)
  <2>1. CASE id \in DOMAIN Inputs(pages)
    <3> DEFINE i == Inputs(pages)[id]
    <3>1. i \in Seq(Sample) /\ InTime(i)
      BY <1>5, <2>1, InputsAre DEF InputsOK
    <3>2. rq.from >= 0
      OBVIOUS
    <3> HIDE DEF i, pages, rq, s
    <3>3. Stream(Strided(i, rq))
      BY <1>3, <3>1, <3>2, StridedStream
    <3> QED
      BY <1>7, <2>1, <3>3 DEF i
  <2>2. CASE id \notin DOMAIN Inputs(pages)
    <3>1. s = <<>>
      BY <1>7, <2>2
    <3> HIDE DEF s
    <3> QED
      BY <3>1 DEF Stream, InTime
  <2> QED
    BY <2>1, <2>2
<1> HIDE DEF s, rq
<1>9. Buckets(s, rq, Window, aggs) = TrueBuckets(s, rq, Window, aggs)
  BY <1>8, WindowIsPositive, BucketsAre
<1> QED
  BY <1>9 DEF s, rq

\* QueryAggregateRange cuts the samples of a metric file into windows in one pass, keeps one
\* window at a time, and streams an aggregate or computes it from the points: every window
\* of the range that holds a sample is reported, once and in order, with each aggregate of
\* exactly its samples.
THEOREM WindowsAreExact == Spec => []BucketsExact
<1>1. Init => MetricInv
  BY InvInit
<1>2. MetricInv /\ [Next]_vars => MetricInv'
  BY InvNext
<1>3. MetricInv => BucketsExact
  BY InvBuckets
<1> QED
  BY <1>1, <1>2, <1>3, PTL DEF Spec

=============================================================================
