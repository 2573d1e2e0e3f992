--------------------------- MODULE WALFileProofs ---------------------------
(***************************************************************************)
(* Proofs about WALFile for every value of its constants: its types, that  *)
(* a record the decoder comes to gives the timestamp it was appended with, *)
(* except where its baseline was lost with a failed append, that an        *)
(* acknowledged record stays in the file and, unless a torn chunk was      *)
(* there before it, within the decoder's reach, that a reset which finds   *)
(* nothing to reset misses no record, and that a power loss takes fewer    *)
(* records than a segment.                                                 *)
(***************************************************************************)
EXTENDS WALFile, FiniteSetTheorems, TLAPS

(***************************************************************************)
(* The inductive invariant.                                                *)
(***************************************************************************)

Appending == pc \in {"length", "payload", "sync"}

\* No chunk is torn but the one an append is writing.
Untorn == \A i \in 1..Len(file) : file[i].whole \/ (pc = "payload" /\ i = Len(file))

\* The record being appended is the latest one; its length is written last.
\* Unless a torn chunk was there before it the decoder will come to it.
PendingOK ==
    /\ Appending => pending \in Chunk /\ pending.n = Len(sent) /\ pending.whole
    /\ pc = "payload" => file # <<>> /\ file[Len(file)] = Torn(pending)
    /\ pc = "sync" => InFile(file, pending.n)
    /\ pc \in {"length", "payload"} /\ pending.n \notin behind => Untorn
    /\ pc = "sync" /\ pending.n \notin behind => ReadIn(file, pending.n)

NumbersOK(f) == \A i \in 1..Len(f) : f[i].n \in 1..Len(sent)

\* The last baseline of f is b.
LastBaseline(f, b) ==
    \E j \in 1..Len(f) : /\ f[j].new /\ f[j].base = b
                         /\ \A k \in (j + 1)..Len(f) : ~f[k].new

\* Unless its append failed or a torn chunk is in the way, the baseline in memory
\* is the last one of the file, or about to be written.
BaselineOK ==
    pc # "closed" /\ hasBaseline /\ ~baseLost /\ Untorn =>
        IF pc = "length" /\ pending.new THEN pending.base = baselineTS
                                        ELSE LastBaseline(file, baselineTS)

PendingDecodes ==
    pc \in {"length", "payload"} =>
        /\ hasBaseline /\ sent[pending.n] = baselineTS + pending.delta
        /\ baseLost => pending.n \in astray

DecodingOK == AllDecode(file) /\ AllDecode(stable) /\ BaselineOK /\ PendingDecodes

\* What was acknowledged is kept in f.
KeptIn(f) == \A n \in acked : InFile(f, n) /\ (n \notin behind => ReadIn(f, n))

\* What an acknowledgement rests on: the running system's file, and under the
\* policy "always" the medium, which the file has only added to since.
AckedOK ==
    /\ AckedInFile
    /\ policy = "always" /\ acked # {} =>
         /\ KeptIn(stable)
         /\ Extends(file, stable)
         /\ pc = "payload" => Len(stable) < Len(file)

IInv == /\ TypeOK /\ PendingOK /\ NumbersOK(file) /\ NumbersOK(stable)
        /\ DecodingOK /\ AckedOK

-----------------------------------------------------------------------------
(* Chunks and files.                                                       *)

\* A torn chunk differs from the whole one in nothing the decoder steps over.
LEMMA TornKeeps ==
    ASSUME NEW c \in Chunk
    PROVE  /\ Torn(c) \in Chunk /\ ~Torn(c).whole
           /\ Torn(c).n = c.n /\ Torn(c).new = c.new
           /\ Torn(c).base = c.base /\ Torn(c).delta = c.delta
BY DEF Torn, Chunk

\* Torn or not, g is what is left of f.
LeftOf(g, f) ==
    /\ Len(g) <= Len(f)
    /\ \A i \in 1..Len(g) : g[i] = f[i] \/ g[i] = Torn(f[i])

LEMMA CutLeaves ==
    ASSUME NEW f \in Seq(Chunk), NEW k \in 0..Len(f)
    PROVE  /\ Cut(f, k) \in Seq(Chunk) /\ Len(Cut(f, k)) = k
           /\ \A i \in 1..k : Cut(f, k)[i] = f[i]
           /\ LeftOf(Cut(f, k), f)
BY DEF Cut, LeftOf

LEMMA CutInLeaves ==
    ASSUME NEW f \in Seq(Chunk), NEW k \in 1..Len(f)
    PROVE  /\ CutIn(f, k) \in Seq(Chunk) /\ Len(CutIn(f, k)) = k
           /\ \A i \in 1..(k - 1) : CutIn(f, k)[i] = f[i]
           /\ LeftOf(CutIn(f, k), f)
<1>1. Cut(f, k) \in Seq(Chunk) /\ Len(Cut(f, k)) = k /\ \A i \in 1..k : Cut(f, k)[i] = f[i]
  BY CutLeaves
<1>2. f[k] \in Chunk /\ Torn(f[k]) \in Chunk
  BY TornKeeps
<1>3. CutIn(f, k) = [Cut(f, k) EXCEPT ![k] = Torn(f[k])]
  BY DEF CutIn
<1>4. CutIn(f, k) \in Seq(Chunk) /\ Len(CutIn(f, k)) = k
  BY <1>1, <1>2, <1>3
<1>5. \A i \in 1..k : CutIn(f, k)[i] = IF i = k THEN Torn(f[k]) ELSE f[i]
  BY <1>1, <1>3
<1> QED
  BY <1>4, <1>5 DEF LeftOf

\* What is left of a file decodes as it did.
LEMMA LeftDecodes ==
    ASSUME NEW f \in Seq(Chunk), NEW g \in Seq(Chunk), LeftOf(g, f)
    PROVE  /\ AllDecode(f) => AllDecode(g)
           /\ NumbersOK(f) => NumbersOK(g)
<1>1. \A i \in 1..Len(g) : /\ i \in 1..Len(f) /\ f[i] \in Chunk
                           /\ g[i].n = f[i].n /\ g[i].new = f[i].new
                           /\ g[i].base = f[i].base /\ g[i].delta = f[i].delta
                           /\ g[i].whole => f[i].whole
  <2> SUFFICES ASSUME NEW i \in 1..Len(g)
               PROVE  /\ i \in 1..Len(f) /\ f[i] \in Chunk
                      /\ g[i].n = f[i].n /\ g[i].new = f[i].new
                      /\ g[i].base = f[i].base /\ g[i].delta = f[i].delta
                      /\ g[i].whole => f[i].whole
    OBVIOUS
  <2>1. i \in 1..Len(f) /\ f[i] \in Chunk
    BY DEF LeftOf
  <2> QED
    BY <2>1, TornKeeps DEF LeftOf
<1>2. ASSUME AllDecode(f), NEW i \in 1..Len(g), IsRead(g, i), g[i].n \notin astray
      PROVE  DecodesTo(g, i, sent[g[i].n])
  <2>0. IsRead(f, i)
    BY <1>1, <1>2 DEF IsRead
  <2>1. DecodesTo(f, i, sent[f[i].n])
    BY <1>1, <1>2, <2>0 DEF AllDecode
  <2>2. PICK j \in 1..i : /\ f[j].new /\ \A k \in (j + 1)..i : ~f[k].new
                          /\ sent[f[i].n] = f[j].base + f[i].delta
    BY <2>1 DEF DecodesTo
  <2>3. j \in 1..Len(g) /\ \A k \in (j + 1)..i : k \in 1..Len(g)
    BY <2>2
  <2>4. g[j].new /\ g[j].base = f[j].base /\ \A k \in (j + 1)..i : ~g[k].new
    BY <1>1, <2>2, <2>3
  <2> QED
    BY <1>1, <1>2, <2>2, <2>4 DEF DecodesTo
<1>3. NumbersOK(f) => NumbersOK(g)
  BY <1>1 DEF NumbersOK
<1> QED
  BY <1>2, <1>3 DEF AllDecode

\* Where the whole chunks stay in place the records do, and the reader's way to them.
LEMMA WholeStay ==
    ASSUME NEW f \in Seq(Chunk), NEW g \in Seq(Chunk), Len(f) <= Len(g),
           \A i \in 1..Len(f) : f[i].whole => g[i] = f[i]
    PROVE  \A n : /\ InFile(f, n) => InFile(g, n)
                  /\ ReadIn(f, n) => ReadIn(g, n)
<1>1. \A i \in 1..Len(f) : i \in 1..Len(g) /\ \A j \in 1..i : j \in 1..Len(f)
  OBVIOUS
<1> QED
  BY <1>1 DEF InFile, ReadIn, IsRead

\* What a power loss may leave is a part of the file, or of the synced one.
LEMMA RemainsAreLeft ==
    ASSUME TypeOK, NEW f \in Remains
    PROVE  /\ f \in Seq(Chunk)
           /\ LeftOf(f, file) \/ LeftOf(f, stable)
           /\ Extends(file, stable) =>
                /\ Len(stable) <= Len(f)
                /\ \A i \in 1..Len(stable) : f[i] = stable[i]
<1> DEFINE synced == IF Extends(file, stable) THEN Len(stable) ELSE 0
<1>1. file \in Seq(Chunk) /\ stable \in Seq(Chunk)
  BY DEF TypeOK
<1>2. synced \in 0..Len(file)
  BY <1>1 DEF Extends
<1>3. ASSUME Extends(file, stable) PROVE \A i \in 1..Len(stable) : file[i] = stable[i]
  BY <1>1, <1>2, <1>3, CutLeaves DEF Extends
<1>4. CASE f = stable
  BY <1>1, <1>4 DEF LeftOf
<1>5. CASE \E k \in synced..Len(file) : f = Cut(file, k)
  <2>1. PICK k \in synced..Len(file) : f = Cut(file, k)
    BY <1>5
  <2>2. k \in 0..Len(file)
    BY <1>1, <1>2, <2>1
  <2>3. f \in Seq(Chunk) /\ Len(f) = k /\ LeftOf(f, file) /\ \A i \in 1..k : f[i] = file[i]
    BY <1>1, <2>1, <2>2, CutLeaves
  <2>4. Extends(file, stable) => Len(stable) <= k /\ 1..Len(stable) \subseteq 1..k
    BY <1>1, <1>2, <2>1, <2>2
  <2> QED
    BY <1>3, <2>3, <2>4
<1>6. CASE \E k \in (synced + 1)..Len(file) : f = CutIn(file, k)
  <2>1. PICK k \in (synced + 1)..Len(file) : f = CutIn(file, k)
    BY <1>6
  <2>2. k \in 1..Len(file)
    BY <1>1, <1>2, <2>1
  <2>3. f \in Seq(Chunk) /\ Len(f) = k /\ LeftOf(f, file)
        /\ \A i \in 1..(k - 1) : f[i] = file[i]
    BY <1>1, <2>1, <2>2, CutInLeaves
  <2>4. Extends(file, stable) => Len(stable) <= k /\ 1..Len(stable) \subseteq 1..(k - 1)
    BY <1>1, <1>2, <2>1, <2>2
  <2> QED
    BY <1>3, <2>3, <2>4
<1> QED
  BY <1>4, <1>5, <1>6 DEF Remains

-----------------------------------------------------------------------------
(* One step.                                                               *)

LEMMA InitOK == Init => IInv
<1> SUFFICES ASSUME Init PROVE IInv
  OBVIOUS
<1>1. TypeOK
  <2>1. <<>> \in Seq(Chunk) /\ <<>> \in Seq(Timestamp)
    OBVIOUS
  <2> QED
    BY <2>1 DEF Init, TypeOK, NoPending
<1>2. PendingOK /\ NumbersOK(file) /\ NumbersOK(stable) /\ AckedOK
  BY DEF Init, PendingOK, Appending, NumbersOK, AckedOK, AckedInFile
<1>3. DecodingOK
  BY DEF Init, DecodingOK, AllDecode, BaselineOK, PendingDecodes
<1> QED
  BY <1>1, <1>2, <1>3 DEF IInv

\* A new process reads the file but takes no baseline from it.
LEMMA OpenOK == ASSUME IInv, Open PROVE IInv'
<1>1. TypeOK'
  <2>1. Len(file) \in Nat
    BY DEF IInv, TypeOK
  <2> QED
    BY <2>1 DEF IInv, Open, TypeOK, damage
<1>2. PendingOK'
  BY DEF Open, PendingOK, Appending
<1>3. NumbersOK(file)' /\ NumbersOK(stable)'
  BY DEF IInv, Open, NumbersOK
<1>4. DecodingOK'
  BY DEF IInv, Open, damage, DecodingOK, AllDecode, IsRead, DecodesTo, BaselineOK,
     PendingDecodes
<1>5. AckedOK'
  BY DEF IInv, Open, damage, AckedOK, KeptIn, AckedInFile, InFile, ReadIn, IsRead,
     Extends, Cut
<1> QED
  BY <1>1, <1>2, <1>3, <1>4, <1>5 DEF IInv

\* A delta fits its field whenever it is used: else the record gets a baseline.
LEMMA DeltaFits ==
    ASSUME TypeOK, NEW t \in Timestamp,
           NEW b, b = IF NeedsBaseline(t) THEN t ELSE baselineTS
    PROVE  t - b \in 0..MaxDelta /\ b \in Timestamp /\ t = b + (t - b)
BY WALAssumption DEF TypeOK, NeedsBaseline

\* The timestamps of earlier appends stay what they were.
LEMMA SentGrows ==
    ASSUME TypeOK, NEW t \in Timestamp, sent' = Append(sent, t)
    PROVE  /\ sent' \in Seq(Timestamp) /\ Len(sent') = Len(sent) + 1
           /\ sent'[Len(sent')] = t
           /\ \A n \in 1..Len(sent) : n \in 1..Len(sent') /\ sent'[n] = sent[n]
BY DEF TypeOK

LEMMA StillDecodes ==
    ASSUME NEW f \in Seq(Chunk), NumbersOK(f), AllDecode(f),
           \A n \in 1..Len(sent) : sent'[n] = sent[n]
    PROVE  \A i \in 1..Len(f) :
               IsRead(f, i) /\ f[i].n \notin astray => DecodesTo(f, i, sent'[f[i].n])
BY DEF NumbersOK, AllDecode

LEMMA EncodeOK == ASSUME IInv, NEW t \in Timestamp, Encode(t) PROVE IInv'
<1>1. TypeOK
  BY DEF IInv
<1>2. baselineTS' \in Timestamp /\ t - baselineTS' \in 0..MaxDelta
      /\ t = baselineTS' + (t - baselineTS')
  BY <1>1, DeltaFits DEF Encode
<1>3. /\ sent' \in Seq(Timestamp) /\ Len(sent') = Len(sent) + 1 /\ sent'[Len(sent')] = t
      /\ \A n \in 1..Len(sent) : n \in 1..Len(sent') /\ sent'[n] = sent[n]
  BY <1>1, SentGrows DEF Encode
<1>4. pending' \in Chunk /\ pending'.n = Len(sent') /\ pending'.whole
      /\ pending'.base = baselineTS' /\ pending'.delta = t - baselineTS'
      /\ pending'.new = NeedsBaseline(t)
  <2>1. Len(sent) + 1 \in Nat \ {0} /\ NeedsBaseline(t) \in BOOLEAN
    BY <1>1 DEF TypeOK, NeedsBaseline
  <2> QED
    BY <1>2, <1>3, <2>1 DEF Encode, Chunk
<1>a. /\ pc = "idle" /\ pc' = "length"
      /\ hasBaseline' = TRUE /\ UNCHANGED <<policy, file, stable, bufferSize, acked, losses>>
      /\ baselineTS' = IF NeedsBaseline(t) THEN t ELSE baselineTS
      /\ UNCHANGED <<stops, faults>>
  BY DEF Encode
<1>b. /\ behind' = IF IsRead(file, Len(file)) THEN behind ELSE behind \cup {Len(sent) + 1}
      /\ baseLost' = (baseLost /\ ~NeedsBaseline(t))
      /\ astray' = IF baseLost' THEN astray \cup {Len(sent) + 1} ELSE astray
  BY DEF Encode
<1>c. astray \subseteq astray' /\ behind \subseteq behind'
  BY <1>b
<1>5. TypeOK'
  <2>0. Len(sent) \in Nat /\ 1..Len(sent) \subseteq 1..Len(sent')
        /\ Len(sent) + 1 \in 1..Len(sent')
    BY <1>1, <1>3 DEF TypeOK
  <2>1. behind' \subseteq 1..Len(sent') /\ astray' \subseteq 1..Len(sent')
        /\ baseLost' \in BOOLEAN /\ acked' \subseteq 1..Len(sent')
    BY <1>1, <1>a, <1>b, <2>0 DEF TypeOK
  <2>2. pending' \in Chunk \cup {NoPending} /\ hasBaseline' \in BOOLEAN
        /\ pc' \in {"closed", "idle", "length", "payload", "sync", "fsync", "truncate"}
    BY <1>4, <1>a
  <2> QED
    BY <1>1, <1>2, <1>3, <1>a, <2>1, <2>2 DEF TypeOK
<1>6. PendingOK'
  <2>1. pending'.n \notin behind' => IsRead(file, Len(file))
    BY <1>3, <1>4, <1>b
  <2>2. pending'.n \notin behind' => Untorn'
    BY <1>a, <2>1 DEF Untorn, IsRead
  <2> QED
    BY <1>4, <1>a, <2>2 DEF PendingOK, Appending
<1>7. NumbersOK(file)' /\ NumbersOK(stable)'
  BY <1>3, <1>a DEF IInv, NumbersOK
<1>8. DecodingOK'
  <2>0. file \in Seq(Chunk) /\ stable \in Seq(Chunk)
    BY <1>1 DEF TypeOK
  <2>1. AllDecode(file)' /\ AllDecode(stable)'
    <3>1. /\ \A i \in 1..Len(file) : IsRead(file, i) /\ file[i].n \notin astray
               => DecodesTo(file, i, sent'[file[i].n])
          /\ \A i \in 1..Len(stable) : IsRead(stable, i) /\ stable[i].n \notin astray
               => DecodesTo(stable, i, sent'[stable[i].n])
      BY <1>3, <2>0, StillDecodes DEF IInv, DecodingOK
    <3> QED
      BY <1>a, <1>c, <3>1 DEF AllDecode, IsRead, DecodesTo
  <2>2. BaselineOK'
    <3>1. CASE NeedsBaseline(t)
      BY <1>4, <1>a, <3>1 DEF BaselineOK
    <3>2. CASE ~NeedsBaseline(t)
      <4>1. hasBaseline /\ baselineTS' = baselineTS /\ baseLost' = baseLost /\ ~pending'.new
        BY <1>1, <1>4, <1>a, <1>b, <3>2 DEF NeedsBaseline, TypeOK
      <4>2. Untorn' => Untorn
        BY <1>a DEF Untorn
      <4> QED
        BY <1>a, <4>1, <4>2 DEF IInv, DecodingOK, BaselineOK, LastBaseline
    <3> QED
      BY <3>1, <3>2
  <2>3. PendingDecodes'
    BY <1>2, <1>3, <1>4, <1>a, <1>b DEF PendingDecodes
  <2> QED
    BY <2>1, <2>2, <2>3 DEF DecodingOK
<1>9. AckedOK'
  BY <1>a, <1>c DEF IInv, AckedOK, KeptIn, AckedInFile, InFile, ReadIn, IsRead, Extends, Cut
<1> QED
  BY <1>5, <1>6, <1>7, <1>8, <1>9 DEF IInv

\* A file extends the synced one if it begins with the same chunks.
LEMMA ExtendsIsPrefix ==
    ASSUME NEW f \in Seq(Chunk), NEW g \in Seq(Chunk)
    PROVE  Extends(f, g) <=> Len(g) <= Len(f) /\ \A i \in 1..Len(g) : f[i] = g[i]
<1>1. ASSUME Len(g) <= Len(f)
      PROVE  Cut(f, Len(g)) = g <=> \A i \in 1..Len(g) : f[i] = g[i]
  <2>1. Cut(f, Len(g)) \in Seq(Chunk) /\ Len(Cut(f, Len(g))) = Len(g)
        /\ \A i \in 1..Len(g) : Cut(f, Len(g))[i] = f[i]
    BY <1>1, CutLeaves
  <2>2. ASSUME \A i \in 1..Len(g) : f[i] = g[i] PROVE Cut(f, Len(g)) = g
    BY <2>1, <2>2
  <2> QED
    BY <2>1, <2>2
<1> QED
  BY <1>1 DEF Extends

\* What the file gains behind its end leaves the chunks before it as they were.
LEMMA GrownFile ==
    ASSUME NEW f \in Seq(Chunk), NEW c \in Chunk
    PROVE  /\ Append(f, c) \in Seq(Chunk) /\ Len(Append(f, c)) = Len(f) + 1
           /\ Append(f, c)[Len(f) + 1] = c
           /\ \A i \in 1..Len(f) : Append(f, c)[i] = f[i]
OBVIOUS

LEMMA GrownDecodes ==
    ASSUME NEW f \in Seq(Chunk), NEW c \in Chunk, ~c.whole
    PROVE  /\ AllDecode(f) => AllDecode(Append(f, c))
           /\ NumbersOK(f) /\ c.n \in 1..Len(sent) => NumbersOK(Append(f, c))
           /\ \A n : /\ InFile(f, n) => InFile(Append(f, c), n)
                     /\ ReadIn(f, n) => ReadIn(Append(f, c), n)
           /\ \A g \in Seq(Chunk) :
                Extends(f, g) => Extends(Append(f, c), g) /\ Len(g) < Len(Append(f, c))
<1> DEFINE h == Append(f, c)
<1>1. h \in Seq(Chunk) /\ Len(h) = Len(f) + 1 /\ h[Len(f) + 1] = c
      /\ \A i \in 1..Len(f) : h[i] = f[i]
  BY GrownFile
<1> HIDE DEF h
<1>2. ASSUME AllDecode(f), NEW i \in 1..Len(h), IsRead(h, i), h[i].n \notin astray
      PROVE  DecodesTo(h, i, sent[h[i].n])
  <2>0. h[i].whole
    BY <1>2 DEF IsRead
  <2>1. i \in 1..Len(f)
    BY <1>1, <2>0
  <2>3. \A k \in 1..i : h[k] = f[k]
    BY <1>1, <2>1
  <2>2. DecodesTo(f, i, sent[f[i].n])
    BY <1>1, <1>2, <2>1, <2>3 DEF AllDecode, IsRead
  <2> QED
    BY <1>2, <2>1, <2>2, <2>3 DEF DecodesTo
<1>3. NumbersOK(f) /\ c.n \in 1..Len(sent) => NumbersOK(h)
  BY <1>1 DEF NumbersOK
<1>4. \A n : (InFile(f, n) => InFile(h, n)) /\ (ReadIn(f, n) => ReadIn(h, n))
  BY <1>1, WholeStay
<1>5. ASSUME NEW g \in Seq(Chunk), Extends(f, g) PROVE Extends(h, g) /\ Len(g) < Len(h)
  <2>1. Len(g) <= Len(f) /\ \A i \in 1..Len(g) : f[i] = g[i]
    BY <1>5, ExtendsIsPrefix
  <2>2. Len(g) < Len(h) /\ \A i \in 1..Len(g) : h[i] = g[i]
    BY <1>1, <2>1
  <2> QED
    BY <1>1, <2>2, ExtendsIsPrefix
<1> QED
  BY <1>2, <1>3, <1>4, <1>5 DEF h, AllDecode

LEMMA WriteLengthOK == ASSUME IInv, WriteLength PROVE IInv'
<1>1. TypeOK /\ pc = "length"
  BY DEF IInv, WriteLength
<1>2. pending \in Chunk /\ pending.n = Len(sent) /\ pending.whole
  BY <1>1 DEF IInv, PendingOK, Appending
<1>3. Torn(pending) \in Chunk /\ ~Torn(pending).whole /\ Torn(pending).n = pending.n
      /\ Torn(pending).new = pending.new /\ Torn(pending).base = pending.base
  BY <1>2, TornKeeps
<1>4. file \in Seq(Chunk) /\ stable \in Seq(Chunk) /\ file' = Append(file, Torn(pending))
  BY <1>1 DEF TypeOK, WriteLength
<1>5. file' \in Seq(Chunk) /\ Len(file') = Len(file) + 1 /\ file'[Len(file')] = Torn(pending)
      /\ \A i \in 1..Len(file) : file'[i] = file[i]
  BY <1>3, <1>4, GrownFile
<1>6. pending.n \in 1..Len(sent)
  BY <1>1, <1>2 DEF TypeOK, Chunk
<1>7. /\ AllDecode(file) => AllDecode(file')
      /\ NumbersOK(file')
      /\ \A n : (InFile(file, n) => InFile(file', n)) /\ (ReadIn(file, n) => ReadIn(file', n))
      /\ Extends(file, stable) => Extends(file', stable) /\ Len(stable) < Len(file')
  BY <1>3, <1>4, <1>6, GrownDecodes DEF IInv
<1>a. /\ pc' = "payload" /\ pending' = pending /\ baselineTS' = baselineTS
      /\ hasBaseline' = hasBaseline /\ sent' = sent /\ acked' = acked /\ stable' = stable
      /\ policy' = policy /\ behind' = behind /\ astray' = astray /\ baseLost' = baseLost
      /\ losses' = losses
  BY DEF WriteLength, memory, damage
<1>8. TypeOK'
  BY <1>1, <1>5 DEF WriteLength, TypeOK, memory, damage
<1>b. Untorn' <=> Untorn
  BY <1>1, <1>4, <1>5, <1>a DEF Untorn
<1>9. PendingOK'
  BY <1>1, <1>2, <1>5, <1>a, <1>b DEF IInv, PendingOK, Appending
<1>10. NumbersOK(file)' /\ NumbersOK(stable)'
  BY <1>7 DEF IInv, WriteLength, NumbersOK
<1>11. DecodingOK'
  <2>1. AllDecode(file)' /\ AllDecode(stable)'
    BY <1>7, <1>a DEF IInv, DecodingOK, AllDecode
  <2>2. PendingDecodes'
    BY <1>1, <1>a DEF IInv, DecodingOK, PendingDecodes
  <2>3. BaselineOK'
    <3> SUFFICES ASSUME ~baseLost, Untorn PROVE BaselineOK'
      BY <1>a, <1>b DEF BaselineOK
    <3>1. hasBaseline
      BY <1>1 DEF IInv, DecodingOK, PendingDecodes
    <3>2. CASE pending.new
      <4>1. pending.base = baselineTS
        BY <1>1, <3>1, <3>2 DEF IInv, DecodingOK, BaselineOK
      <4>2. Len(file') \in 1..Len(file') /\ \A k \in (Len(file') + 1)..Len(file') : FALSE
        BY <1>4, <1>5
      <4>3. LastBaseline(file', baselineTS)
        BY <1>3, <1>5, <3>2, <4>1, <4>2 DEF LastBaseline
      <4> QED
        BY <1>a, <4>3 DEF BaselineOK, LastBaseline
    <3>3. CASE ~pending.new
      <4>1. PICK j \in 1..Len(file) : /\ file[j].new /\ file[j].base = baselineTS
                                      /\ \A k \in (j + 1)..Len(file) : ~file[k].new
        BY <1>1, <3>1, <3>3 DEF IInv, DecodingOK, BaselineOK, LastBaseline
      <4>2. j \in 1..Len(file') /\ file'[j].new /\ file'[j].base = baselineTS
            /\ \A k \in (j + 1)..Len(file') : ~file'[k].new
        <5>1. j \in 1..Len(file') /\ file'[j] = file[j]
          BY <1>4, <1>5, <4>1
        <5>2. ~file'[Len(file')].new
          BY <1>3, <1>5, <3>3
        <5>3. \A k \in (j + 1)..Len(file') : k = Len(file') \/ k \in (j + 1)..Len(file)
          BY <1>4, <1>5
        <5>4. \A k \in (j + 1)..Len(file) : ~file'[k].new
          BY <1>4, <1>5, <4>1
        <5> QED
          BY <4>1, <5>1, <5>2, <5>3, <5>4
      <4>3. LastBaseline(file', baselineTS)
        BY <4>2 DEF LastBaseline
      <4> QED
        BY <1>a, <4>3 DEF BaselineOK, LastBaseline
    <3> QED
      BY <3>2, <3>3
  <2> QED
    BY <2>1, <2>2, <2>3 DEF DecodingOK
<1>12. AckedOK'
  <2>1. AckedInFile'
    BY <1>7, <1>a DEF IInv, AckedOK, AckedInFile
  <2>2. KeptIn(stable)' <=> KeptIn(stable)
    BY <1>a DEF KeptIn, InFile, ReadIn, IsRead
  <2> QED
    BY <1>7, <1>a, <2>1, <2>2 DEF IInv, AckedOK
<1> QED
  BY <1>8, <1>9, <1>10, <1>11, <1>12 DEF IInv

\* The payload completes the last chunk: all others stay, and so does what the
\* last one tells the decoder.
LEMMA PayloadCompletes ==
    ASSUME IInv, WritePayload
    PROVE  /\ Len(file) \in 1..Len(file) /\ file' \in Seq(Chunk) /\ Len(file') = Len(file)
           /\ file'[Len(file)] = pending
           /\ \A i \in 1..Len(file) :
                /\ i # Len(file) => file'[i] = file[i]
                /\ file'[i].n = file[i].n /\ file'[i].new = file[i].new
                /\ file'[i].base = file[i].base /\ file'[i].delta = file[i].delta
                /\ file[i].whole => file'[i] = file[i]
<1>1. TypeOK /\ pc = "payload"
  BY DEF IInv, WritePayload
<1>2. pending \in Chunk /\ file # <<>> /\ file[Len(file)] = Torn(pending)
  BY <1>1 DEF IInv, PendingOK, Appending
<1>3. file \in Seq(Chunk) /\ Len(file) \in 1..Len(file)
  BY <1>1, <1>2 DEF TypeOK
<1>4. file' = [file EXCEPT ![Len(file)] = pending]
  BY DEF WritePayload
<1>5. file' \in Seq(Chunk) /\ Len(file') = Len(file) /\ file'[Len(file)] = pending
      /\ \A i \in 1..Len(file) : i # Len(file) => file'[i] = file[i]
  BY <1>2, <1>3, <1>4
<1> QED
  BY <1>2, <1>3, <1>5, TornKeeps

LEMMA WritePayloadOK == ASSUME IInv, WritePayload PROVE IInv'
<1>1. TypeOK /\ pc = "payload"
  BY DEF IInv, WritePayload
<1>2. pending \in Chunk /\ pending.n = Len(sent) /\ pending.whole
      /\ pending.n \in 1..Len(sent)
  BY <1>1 DEF IInv, PendingOK, Appending, TypeOK, Chunk
<1>3. /\ Len(file) \in 1..Len(file) /\ file' \in Seq(Chunk) /\ Len(file') = Len(file)
      /\ file'[Len(file)] = pending
      /\ \A i \in 1..Len(file) :
           /\ i # Len(file) => file'[i] = file[i]
           /\ file'[i].n = file[i].n /\ file'[i].new = file[i].new
           /\ file'[i].base = file[i].base /\ file'[i].delta = file[i].delta
           /\ file[i].whole => file'[i] = file[i]
  BY PayloadCompletes
<1>4. /\ InFile(file', pending.n)
      /\ \A n : (InFile(file, n) => InFile(file', n)) /\ (ReadIn(file, n) => ReadIn(file', n))
  <2>1. file \in Seq(Chunk)
    BY <1>1 DEF TypeOK
  <2> QED
    BY <1>2, <1>3, <2>1, WholeStay DEF InFile
<1>a. /\ baselineTS' = baselineTS /\ hasBaseline' = hasBaseline /\ sent' = sent
      /\ stable' = stable /\ policy' = policy /\ behind' = behind /\ astray' = astray
      /\ baseLost' = baseLost /\ losses' = losses
      /\ \/ pc' = "sync" /\ pending' = pending /\ acked' = acked
         \/ pc' = "idle" /\ acked' = acked \cup {pending.n}
  BY DEF WritePayload, Acknowledge, damage
<1>b. Untorn' <=> Untorn
  BY <1>1, <1>2, <1>3, <1>a DEF Untorn
<1>c. pending.n \notin behind => ReadIn(file', pending.n)
  <2> SUFFICES ASSUME pending.n \notin behind PROVE ReadIn(file', pending.n)
    OBVIOUS
  <2>1. \A j \in 1..Len(file) : j # Len(file) => file[j].whole
    BY <1>1 DEF IInv, PendingOK, Untorn
  <2>2. IsRead(file', Len(file))
    BY <1>2, <1>3, <2>1 DEF IsRead
  <2> QED
    BY <1>3, <2>2 DEF ReadIn
<1>5. TypeOK'
  <2>1. bufferSize + 1 \in Nat
    BY <1>1 DEF TypeOK
  <2> QED
    BY <1>1, <1>2, <1>3, <2>1 DEF WritePayload, Acknowledge, TypeOK, damage
<1>6. PendingOK'
  BY <1>2, <1>4, <1>a, <1>c DEF PendingOK, Appending
<1>7. NumbersOK(file)' /\ NumbersOK(stable)'
  BY <1>3 DEF IInv, WritePayload, NumbersOK
<1>8. DecodingOK'
  <2>1. hasBaseline /\ sent[pending.n] = baselineTS + pending.delta
        /\ (baseLost => pending.n \in astray)
        /\ (~baseLost /\ Untorn => LastBaseline(file, baselineTS))
    BY <1>1 DEF IInv, DecodingOK, PendingDecodes, BaselineOK
  <2>2. ~baseLost /\ Untorn => LastBaseline(file', baselineTS)
    BY <1>3, <2>1 DEF LastBaseline
  <2>3. ASSUME NEW i \in 1..Len(file'), IsRead(file', i), file'[i].n \notin astray
        PROVE  DecodesTo(file', i, sent[file'[i].n])
    <3>0. i \in 1..Len(file) /\ \A k \in 1..i : k \in 1..Len(file)
      BY <1>3, <2>3
    <3>1. CASE i = Len(file)
      <4>1. ~baseLost
        BY <1>3, <2>1, <2>3, <3>1
      <4>2. Untorn
        BY <1>1, <1>3, <2>3, <3>1 DEF IsRead, Untorn
      <4>3. LastBaseline(file', baselineTS)
        BY <2>2, <4>1, <4>2
      <4> QED
        BY <1>3, <2>1, <2>3, <3>1, <4>3 DEF LastBaseline, DecodesTo
    <3>2. CASE i # Len(file)
      <4>0. \A k \in 1..i : k # Len(file)
        BY <3>0, <3>2
      <4>1. DecodesTo(file, i, sent[file[i].n])
        BY <1>3, <2>3, <3>0, <4>0 DEF IInv, DecodingOK, AllDecode, IsRead
      <4> QED
        BY <1>3, <2>3, <3>0, <4>1 DEF DecodesTo
    <3> QED
      BY <3>1, <3>2
  <2>4. AllDecode(file)' /\ AllDecode(stable)'
    BY <1>a, <2>3 DEF IInv, DecodingOK, AllDecode
  <2>5. BaselineOK'
    BY <1>a, <1>b, <2>2 DEF BaselineOK, LastBaseline
  <2>6. PendingDecodes'
    BY <1>a DEF PendingDecodes
  <2> QED
    BY <2>4, <2>5, <2>6 DEF DecodingOK
<1>9. AckedOK'
  <2>1. AckedInFile'
    BY <1>4, <1>a, <1>c DEF IInv, AckedOK, AckedInFile
  <2>2. ASSUME policy = "always", acked' # {}
        PROVE  /\ KeptIn(stable) /\ acked' = acked
               /\ Extends(file', stable)
    <3>1. acked' = acked
      BY <2>2 DEF WritePayload, ShouldFsyncAfterAppend
    <3>2. KeptIn(stable) /\ Extends(file, stable) /\ Len(stable) < Len(file)
      BY <1>1, <2>2, <3>1 DEF IInv, AckedOK
    <3>3. file \in Seq(Chunk) /\ stable \in Seq(Chunk)
      BY <1>1 DEF TypeOK
    <3>4. \A i \in 1..Len(stable) : file[i] = stable[i]
      BY <3>2, <3>3, ExtendsIsPrefix
    <3>5. Len(stable) <= Len(file') /\ \A i \in 1..Len(stable) : file'[i] = stable[i]
      BY <1>3, <3>2, <3>3, <3>4
    <3>6. Extends(file', stable)
      BY <1>3, <3>3, <3>5, ExtendsIsPrefix
    <3> QED
      BY <3>1, <3>2, <3>6
  <2>3. KeptIn(stable) /\ acked' = acked => KeptIn(stable)'
    BY <1>a DEF KeptIn, InFile, ReadIn, IsRead
  <2> QED
    BY <1>a, <2>1, <2>2, <2>3 DEF AckedOK, Extends, Cut
<1> QED
  BY <1>5, <1>6, <1>7, <1>8, <1>9 DEF IInv

\* A file extends itself.
LEMMA SyncedExtends == ASSUME NEW f \in Seq(Chunk) PROVE Extends(f, f)
BY ExtendsIsPrefix

LEMMA SyncAppendOK == ASSUME IInv, SyncAppend PROVE IInv'
<1>1. TypeOK /\ pc = "sync" /\ file \in Seq(Chunk)
  BY DEF IInv, SyncAppend, TypeOK
<1>2. /\ pending.n \in 1..Len(sent) /\ InFile(file, pending.n)
      /\ pending.n \notin behind => ReadIn(file, pending.n)
  BY <1>1 DEF IInv, PendingOK, Appending, TypeOK, Chunk
<1>3. TypeOK'
  BY <1>1, <1>2 DEF SyncAppend, Acknowledge, TypeOK, damage
<1>4. PendingOK'
  BY DEF SyncAppend, Acknowledge, PendingOK, Appending
<1>5. NumbersOK(file)' /\ NumbersOK(stable)'
  BY DEF IInv, SyncAppend, NumbersOK
<1>6. DecodingOK'
  <2>1. Untorn' => Untorn
    BY <1>1 DEF SyncAppend, Acknowledge, Untorn
  <2> QED
    BY <1>1, <2>1 DEF IInv, SyncAppend, Acknowledge, damage, DecodingOK, AllDecode, IsRead,
       DecodesTo, BaselineOK, LastBaseline, PendingDecodes
<1>7. AckedOK'
  <2>1. Extends(file, file)
    BY <1>1, SyncedExtends
  <2>2. AckedInFile'
    BY <1>2 DEF IInv, SyncAppend, Acknowledge, damage, AckedOK, AckedInFile, InFile, ReadIn,
       IsRead
  <2>3. policy = "always" => KeptIn(file)'
    BY <2>2 DEF SyncAppend, AckedInFile, KeptIn
  <2> QED
    BY <2>1, <2>2, <2>3 DEF SyncAppend, Acknowledge, AckedOK, KeptIn, InFile, ReadIn,
       IsRead, Extends, Cut
<1> QED
  BY <1>3, <1>4, <1>5, <1>6, <1>7 DEF IInv

\* A failed append may leave a torn chunk, or take a new baseline with it; what was
\* acknowledged stays where it is.
LEMMA AppendFailsOK == ASSUME IInv, AppendFails PROVE IInv'
<1>1. TypeOK /\ file \in Seq(Chunk) /\ stable \in Seq(Chunk)
  BY DEF IInv, TypeOK
<1>2. /\ file' \in Seq(Chunk) /\ NumbersOK(file') /\ AllDecode(file')
      /\ \A n : (InFile(file, n) => InFile(file', n)) /\ (ReadIn(file, n) => ReadIn(file', n))
      /\ Extends(file, stable) => Extends(file', stable)
  <2>1. CASE UNCHANGED file
    BY <1>1, <2>1 DEF IInv, DecodingOK
  <2>2. CASE pc = "length" /\ file' = Append(file, Torn(pending))
    <3>1. pending \in Chunk /\ pending.n \in 1..Len(sent)
      BY <1>1, <2>2 DEF IInv, PendingOK, Appending, TypeOK, Chunk
    <3>2. Torn(pending) \in Chunk /\ ~Torn(pending).whole /\ Torn(pending).n \in 1..Len(sent)
      BY <3>1, TornKeeps
    <3> QED
      BY <1>1, <2>2, <3>2, GrownFile, GrownDecodes DEF IInv, DecodingOK
  <2> QED
    BY <2>1, <2>2 DEF AppendFails
<1>3. TypeOK'
  BY <1>1, <1>2 DEF AppendFails, TypeOK
<1>4. PendingOK'
  BY DEF AppendFails, PendingOK, Appending
<1>5. NumbersOK(file)' /\ NumbersOK(stable)'
  BY <1>2 DEF IInv, AppendFails, NumbersOK
<1>a. /\ Appending /\ pc' = "idle" /\ stable' = stable /\ policy' = policy
      /\ UNCHANGED <<baselineTS, hasBaseline, sent, acked, losses, behind, astray>>
      /\ baseLost' = (baseLost \/ (pc # "sync" /\ pending.new))
      /\ file' = file \/ (pc = "length" /\ file' = Append(file, Torn(pending)))
  BY DEF AppendFails, Appending
<1>6. DecodingOK'
  <2>1. AllDecode(file)' /\ AllDecode(stable)' /\ PendingDecodes'
    BY <1>2, <1>a DEF IInv, DecodingOK, AllDecode, PendingDecodes
  <2>2. ASSUME hasBaseline, ~baseLost', Untorn'
        PROVE  file' = file /\ Untorn /\ LastBaseline(file, baselineTS)
    <3>1. ~baseLost /\ (pc = "sync" \/ ~pending.new)
      BY <1>a, <2>2
    <3>2. file' = file
      <4>1. ASSUME pc = "length", file' = Append(file, Torn(pending)) PROVE FALSE
        <5>1. Torn(pending) \in Chunk /\ ~Torn(pending).whole
          BY <4>1, TornKeeps DEF IInv, PendingOK, Appending
        <5>2. Len(file') \in 1..Len(file') /\ ~file'[Len(file')].whole
          BY <1>1, <4>1, <5>1, GrownFile
        <5> QED
          BY <1>a, <2>2, <5>2 DEF Untorn
      <4> QED
        BY <1>a, <4>1
    <3>3. Untorn
      BY <1>a, <2>2, <3>2 DEF Untorn
    <3> QED
      BY <1>a, <2>2, <3>1, <3>2, <3>3 DEF IInv, DecodingOK, BaselineOK, Appending
  <2>3. BaselineOK'
    BY <1>a, <2>2 DEF BaselineOK, LastBaseline
  <2> QED
    BY <2>1, <2>3 DEF DecodingOK
<1>7. AckedOK'
  <2>1. KeptIn(stable)' <=> KeptIn(stable)
    BY <1>a DEF KeptIn, InFile, ReadIn, IsRead
  <2> QED
    BY <1>2, <1>a, <2>1 DEF IInv, AckedOK, AckedInFile, Extends, Cut
<1> QED
  BY <1>3, <1>4, <1>5, <1>6, <1>7 DEF IInv

\* The steps that leave the file and what is acknowledged in it alone.
LEMMA IdleStepOK ==
    ASSUME IInv, Reset \/ SyncReset \/ ResetFails \/ Close \/ Crash
    PROVE  IInv'
<1>1. TypeOK /\ file \in Seq(Chunk) /\ stable \in Seq(Chunk)
  BY DEF IInv, TypeOK
<1>2. stable' = stable \/ stable' = file
  BY DEF Reset, SyncReset, ResetFails, Close, Crash, memory
<1>3. /\ UNCHANGED <<policy, file, baselineTS, hasBaseline, bufferSize, sent, acked, losses>>
      /\ UNCHANGED <<behind, astray, baseLost>>
      /\ pc' \in {"closed", "idle", "fsync", "truncate"}
      /\ faults' = faults \/ (faults' = faults + 1)
      /\ stops' = stops \/ (stops' = stops + 1)
      /\ pending' = pending \/ pending' = NoPending
  BY DEF Reset, SyncReset, ResetFails, Close, Crash, memory, damage
<1>4. pc = "closed" => FALSE
  BY DEF Reset, SyncReset, ResetFails, Close, Crash
<1>5. TypeOK'
  BY <1>1, <1>2, <1>3 DEF TypeOK
<1>6. PendingOK'
  BY <1>3 DEF PendingOK, Appending
<1>7. NumbersOK(file)' /\ NumbersOK(stable)'
  BY <1>2, <1>3 DEF IInv, NumbersOK
<1>8. DecodingOK'
  <2>2. AllDecode(file)' /\ AllDecode(stable)'
    BY <1>2, <1>3 DEF IInv, DecodingOK, AllDecode
  <2>1. Untorn' => Untorn
    BY <1>3 DEF Untorn
  <2>3. BaselineOK'
    BY <1>3, <1>4, <2>1 DEF IInv, DecodingOK, BaselineOK, LastBaseline, Reset, SyncReset,
       ResetFails, Close, Crash
  <2>4. PendingDecodes'
    BY <1>3 DEF PendingDecodes
  <2> QED
    BY <2>2, <2>3, <2>4 DEF DecodingOK
<1>9. AckedOK'
  <2>1. Extends(file, file)
    BY <1>1, SyncedExtends
  <2>2. AckedInFile'
    BY <1>3 DEF IInv, AckedOK, AckedInFile, InFile, ReadIn, IsRead
  <2>3. CASE stable' = stable
    BY <1>3, <2>2, <2>3 DEF IInv, AckedOK, KeptIn, InFile, ReadIn, IsRead, Extends, Cut
  <2>4. CASE stable' = file
    BY <1>3, <2>1, <2>2, <2>4 DEF AckedOK, AckedInFile, KeptIn, InFile, ReadIn, IsRead,
       Extends, Cut
  <2> QED
    BY <1>2, <2>3, <2>4
<1> QED
  BY <1>5, <1>6, <1>7, <1>8, <1>9 DEF IInv

\* The emptied file has no records and the WAL no baseline.
LEMMA TruncateOK == ASSUME IInv, Truncate PROVE IInv'
<1>1. TypeOK'
  <2>1. <<>> \in Seq(Chunk)
    OBVIOUS
  <2> QED
    BY <2>1 DEF IInv, Truncate, TypeOK, damage
<1>2. PendingOK'
  BY DEF Truncate, PendingOK, Appending
<1>3. NumbersOK(file)' /\ NumbersOK(stable)'
  BY DEF IInv, Truncate, NumbersOK
<1>4. DecodingOK'
  BY DEF IInv, Truncate, damage, DecodingOK, AllDecode, BaselineOK, PendingDecodes
<1>5. AckedOK'
  BY DEF Truncate, AckedOK, AckedInFile
<1> QED
  BY <1>1, <1>2, <1>3, <1>4, <1>5 DEF IInv

\* Whatever part of the file the medium kept, it decodes as it did, and under
\* the policy "always" it has everything acknowledged.
LEMMA PowerLossOK == ASSUME IInv, PowerLoss PROVE IInv'
<1>1. TypeOK /\ file \in Seq(Chunk) /\ stable \in Seq(Chunk)
  BY DEF IInv, TypeOK
<1>2. file' \in Remains /\ stable' = file'
  BY DEF PowerLoss
<1>3. /\ file' \in Seq(Chunk)
      /\ LeftOf(file', file) \/ LeftOf(file', stable)
      /\ Extends(file, stable) =>
           /\ Len(stable) <= Len(file')
           /\ \A i \in 1..Len(stable) : file'[i] = stable[i]
  BY <1>1, <1>2, RemainsAreLeft
<1>4. NumbersOK(file')
  BY <1>1, <1>3, LeftDecodes DEF IInv
<1>5. AllDecode(file')
  BY <1>1, <1>3, LeftDecodes DEF IInv, DecodingOK
<1>6. TypeOK'
  BY <1>1, <1>3 DEF PowerLoss, TypeOK, damage
<1>7. PendingOK'
  BY DEF PowerLoss, PendingOK, Appending
<1>8. NumbersOK(file)' /\ NumbersOK(stable)'
  BY <1>4 DEF PowerLoss, NumbersOK
<1>9. DecodingOK'
  BY <1>5 DEF PowerLoss, damage, DecodingOK, AllDecode, BaselineOK, PendingDecodes
<1>10. AckedOK'
  <2>1. losses' # 0
    BY <1>1 DEF PowerLoss, TypeOK
  <2>2. ASSUME policy = "always", acked # {} PROVE KeptIn(file')
    <3>1. KeptIn(stable) /\ Extends(file, stable)
      BY <2>2 DEF IInv, AckedOK
    <3> QED
      BY <1>1, <1>3, <3>1, WholeStay DEF KeptIn
  <2>3. Extends(file', file')
    BY <1>3, SyncedExtends
  <2>4. /\ acked' = acked /\ behind' = behind /\ policy' = policy /\ pc' = "closed"
        /\ stable' = file'
    BY DEF PowerLoss, damage
  <2>5. policy = "always" /\ acked # {} => KeptIn(file)' /\ KeptIn(stable)'
    BY <2>2, <2>4 DEF KeptIn, InFile, ReadIn, IsRead
  <2>6. Extends(file, stable)'
    BY <2>3, <2>4 DEF Extends, Cut
  <2>7. AckedInFile'
    BY <2>1, <2>4, <2>5 DEF AckedInFile, KeptIn
  <2> QED
    BY <2>4, <2>5, <2>6, <2>7 DEF AckedOK
<1> QED
  BY <1>6, <1>7, <1>8, <1>9, <1>10 DEF IInv

LEMMA StutterOK == ASSUME IInv, UNCHANGED vars PROVE IInv'
<1>1. UNCHANGED <<policy, file, stable, pc, pending, baselineTS, hasBaseline, bufferSize,
                  sent, acked, behind, astray, baseLost, losses, stops, faults>>
  BY DEF vars, memory, damage
<1>2. TypeOK' /\ NumbersOK(file)' /\ NumbersOK(stable)'
  BY <1>1 DEF IInv, TypeOK, NumbersOK
<1>3. PendingOK'
  BY <1>1 DEF IInv, PendingOK, Appending, Untorn, InFile, ReadIn, IsRead
<1>4. DecodingOK'
  BY <1>1 DEF IInv, DecodingOK, AllDecode, IsRead, DecodesTo, BaselineOK, Untorn,
     LastBaseline, PendingDecodes
<1>5. AckedOK'
  BY <1>1 DEF IInv, AckedOK, KeptIn, AckedInFile, InFile, ReadIn, IsRead, Extends, Cut
<1> QED
  BY <1>2, <1>3, <1>4, <1>5 DEF IInv

LEMMA NextOK == IInv /\ [Next]_vars => IInv'
BY OpenOK, EncodeOK, WriteLengthOK, WritePayloadOK, SyncAppendOK, AppendFailsOK, IdleStepOK,
   TruncateOK, PowerLossOK, StutterOK DEF Next

LEMMA Invariance == Spec => []IInv
BY InitOK, NextOK, PTL DEF Spec

-----------------------------------------------------------------------------
(* Theorems.                                                               *)

\* Every reachable state is well-formed: among the rest, a delta always fits
\* its three bytes.
THEOREM WALTypeCorrect == Spec => []TypeOK
<1>1. IInv => TypeOK
  BY DEF IInv
<1> QED
  BY <1>1, Invariance, PTL

\* Every whole record a decoder of the file comes to gives the timestamp it was
\* appended with, unless it counts from a baseline whose own append failed.
THEOREM RecordsReadBack == Spec => []ReadBackAsWritten
<1>1. IInv => ReadBackAsWritten
  BY DEF IInv, DecodingOK, ReadBackAsWritten
<1> QED
  BY <1>1, Invariance, PTL

\* What an append acknowledged is whole in the file until the next reset, and a
\* decoder comes to it unless a torn chunk was there when its append began: after
\* any crash, and under the policy "always" after any power loss.
THEOREM AckedStayInFile == Spec => []AckedInFile
<1>1. IInv => AckedInFile
  BY DEF IInv, AckedOK
<1> QED
  BY <1>1, Invariance, PTL

-----------------------------------------------------------------------------
(* What the WAL has accounted for.                                         *)

\* While nothing is accounted, there is nothing to account for but torn chunks.
AccountedOK ==
    pc # "closed" /\ bufferSize = 0 => \A i \in 1..Len(file) : ~file[i].whole

\* What a power loss may take is less than a segment, and accounted for once the
\* file is open; a record is acknowledged only when its append ends.
LossOK ==
    /\ Appending => pending.n \notin acked
    /\ MaxSegment > 0 /\ policy = "segment" =>
         /\ Cardinality(Unsynced) < MaxSegment
         /\ pc # "closed" => Cardinality(Unsynced) <= bufferSize
    /\ policy = "always" => Unsynced = {}

AccountInv == AccountedOK /\ LossOK

\* The records of a file are at most as many as its chunks.
LEMMA RecordsAreFew ==
    ASSUME NEW f \in Seq(Chunk), NEW S, S \subseteq {n \in Nat : InFile(f, n)}
    PROVE  IsFiniteSet(S) /\ Cardinality(S) <= Len(f)
<1> DEFINE numbers == {f[i].n : i \in 1..Len(f)}
           number  == [i \in 1..Len(f) |-> f[i].n]
<1>1. number \in Surjection(1..Len(f), numbers)
  BY DEF Surjection
<1>2. ExistsSurjection(1..Len(f), numbers) /\ Len(f) \in Nat
  <2> HIDE DEF number, numbers
  <2>1. Surjection(1..Len(f), numbers) # {}
    BY <1>1
  <2> QED
    BY <2>1 DEF ExistsSurjection
<1>3. IsFiniteSet(1..Len(f))
  BY <1>2, FS_Interval
<1>4. IsFiniteSet(numbers) /\ Cardinality(numbers) <= Len(f)
  BY <1>1, <1>2, <1>3, FS_Surjection, FS_SurjCardinalityBound
<1>5. S \in SUBSET numbers
  BY DEF InFile
<1>6. IsFiniteSet(S) /\ Cardinality(S) <= Cardinality(numbers)
  BY <1>4, <1>5, FS_Subset
<1>7. Cardinality(S) \in Nat /\ Cardinality(numbers) \in Nat
  BY <1>4, <1>6, FS_CardinalityType
<1> QED
  BY <1>2, <1>4, <1>6, <1>7

LEMMA UnsyncedAreFew ==
    ASSUME TypeOK
    PROVE  /\ IsFiniteSet(Unsynced) /\ Cardinality(Unsynced) \in Nat
           /\ Cardinality(Unsynced) <= Len(file)
<1>1. file \in Seq(Chunk) /\ acked \subseteq 1..Len(sent) /\ Len(sent) \in Nat
  BY DEF TypeOK
<1>2. Unsynced \subseteq {n \in Nat : InFile(file, n)}
  <2>1. \A n \in acked : n \in Nat
    BY <1>1
  <2> QED
    BY <2>1 DEF Unsynced
<1>3. IsFiniteSet(Unsynced) /\ Cardinality(Unsynced) <= Len(file)
  BY <1>1, <1>2, RecordsAreFew
<1> QED
  BY <1>3, FS_CardinalityType

\* Fewer records at risk are no more of them.
LEMMA FewerAtRisk ==
    ASSUME TypeOK, Unsynced' \subseteq Unsynced
    PROVE  /\ Cardinality(Unsynced') \in Nat
           /\ Cardinality(Unsynced') <= Cardinality(Unsynced)
<1>1. IsFiniteSet(Unsynced) /\ Unsynced' \in SUBSET Unsynced
  BY UnsyncedAreFew
<1>2. IsFiniteSet(Unsynced') /\ Cardinality(Unsynced') <= Cardinality(Unsynced)
  BY <1>1, FS_Subset
<1> QED
  BY <1>2, FS_CardinalityType

\* A step that puts no further record at risk and accounts for no less.
LEMMA QuietLoss ==
    ASSUME TypeOK, LossOK, policy' = policy,
           Unsynced' \subseteq Unsynced,
           pc' # "closed" => pc # "closed" /\ bufferSize' \in Nat /\ bufferSize <= bufferSize',
           Appending' => pending.n' \notin acked'
    PROVE  LossOK'
<1>1. /\ Cardinality(Unsynced) \in Nat /\ Cardinality(Unsynced') \in Nat
      /\ Cardinality(Unsynced') <= Cardinality(Unsynced)
  BY UnsyncedAreFew, FewerAtRisk
<1>2. bufferSize \in Nat /\ MaxSegment \in Nat
  BY WALAssumption DEF TypeOK
<1>3. ASSUME MaxSegment > 0, policy = "segment"
      PROVE  /\ Cardinality(Unsynced') < MaxSegment
             /\ pc' # "closed" => Cardinality(Unsynced') <= bufferSize'
  <2>1. Cardinality(Unsynced) < MaxSegment
        /\ (pc # "closed" => Cardinality(Unsynced) <= bufferSize)
    BY <1>3 DEF LossOK
  <2> QED
    BY <1>1, <1>2, <2>1
<1>4. policy = "always" => Unsynced' = {}
  BY DEF LossOK
<1> QED
  BY <1>3, <1>4 DEF LossOK

\* With the file on the medium nothing is at risk.
LEMMA SafeLoss ==
    ASSUME Unsynced' = {}, TypeOK', Appending' => pending.n' \notin acked'
    PROVE  LossOK'
<1>1. Cardinality(Unsynced') = 0
  BY FS_EmptySet
<1> QED
  BY <1>1, WALAssumption DEF LossOK, TypeOK

\* A torn chunk behind a file holds no record.
LEMMA TornHoldsNone ==
    ASSUME NEW f \in Seq(Chunk), NEW c \in Chunk, ~c.whole, NEW n
    PROVE  InFile(Append(f, c), n) <=> InFile(f, n)
BY GrownFile DEF InFile

\* Only the payload of the record being appended puts another one into the file.
LEMMA PayloadHoldsOne ==
    ASSUME IInv, WritePayload, NEW n
    PROVE  InFile(file', n) => InFile(file, n) \/ n = pending.n
BY PayloadCompletes DEF InFile

LEMMA InitAccount == Init => AccountInv
<1> SUFFICES ASSUME Init PROVE AccountInv
  OBVIOUS
<1>1. Unsynced = {}
  BY DEF Init, Unsynced
<1>2. Cardinality(Unsynced) = 0
  BY <1>1, FS_EmptySet
<1> QED
  BY <1>1, <1>2, WALAssumption DEF Init, AccountInv, AccountedOK, LossOK, Appending

LEMMA OpenAccount == ASSUME IInv, AccountInv, Open PROVE AccountInv'
<1>1. TypeOK /\ file \in Seq(Chunk)
  BY DEF IInv, TypeOK
<1>2. AccountedOK'
  BY <1>1 DEF Open, AccountedOK
<1>3. Unsynced' = Unsynced
  BY DEF Open, Unsynced, InFile
<1>4. LossOK'
  BY <1>1, <1>3, UnsyncedAreFew DEF AccountInv, LossOK, Open, Appending
<1> QED
  BY <1>2, <1>4 DEF AccountInv

LEMMA EncodeAccount ==
    ASSUME IInv, AccountInv, NEW t \in Timestamp, Encode(t)
    PROVE  AccountInv'
<1>1. TypeOK /\ bufferSize \in Nat /\ Len(sent) \in Nat
  BY DEF IInv, TypeOK
<1>2. AccountedOK'
  BY DEF Encode, AccountInv, AccountedOK
<1>3. pending.n' \notin acked'
  BY <1>1 DEF Encode, TypeOK
<1>4. Unsynced' = Unsynced
  BY DEF Encode, Unsynced, InFile
<1>5. LossOK'
  BY <1>1, <1>3, <1>4, QuietLoss DEF Encode, AccountInv
<1> QED
  BY <1>2, <1>5 DEF AccountInv

LEMMA WriteLengthAccount == ASSUME IInv, AccountInv, WriteLength PROVE AccountInv'
<1>1. TypeOK /\ bufferSize \in Nat /\ file \in Seq(Chunk)
  BY DEF IInv, TypeOK
<1>2. pending \in Chunk /\ file' = Append(file, Torn(pending))
  BY DEF IInv, PendingOK, Appending, WriteLength
<1>3. Torn(pending) \in Chunk /\ ~Torn(pending).whole
  BY <1>2, TornKeeps
<1>4. AccountedOK'
  BY <1>1, <1>2, <1>3, GrownFile DEF WriteLength, AccountInv, AccountedOK, memory
<1>5. Unsynced' = Unsynced
  BY <1>1, <1>2, <1>3, TornHoldsNone DEF WriteLength, Unsynced, InFile
<1>6. LossOK'
  BY <1>1, <1>5, QuietLoss DEF WriteLength, AccountInv, LossOK, Appending, memory
<1> QED
  BY <1>4, <1>6 DEF AccountInv

\* An unsynced append of the policy "segment" is acknowledged only short of the limit.
LEMMA WritePayloadAccount == ASSUME IInv, AccountInv, WritePayload PROVE AccountInv'
<1>1. TypeOK /\ bufferSize \in Nat /\ pc = "payload" /\ policy' = policy
  BY DEF IInv, TypeOK, WritePayload
<1>2. AccountedOK'
  BY <1>1 DEF WritePayload, AccountedOK
<1>3. pending.n \notin acked
  BY <1>1 DEF AccountInv, LossOK, Appending
<1>4. CASE ShouldFsyncAfterAppend(bufferSize + 1)
  <2>1. acked' = acked /\ pending' = pending /\ bufferSize' = bufferSize + 1
    BY <1>4 DEF WritePayload
  <2>2. Unsynced' \subseteq Unsynced
    BY <1>3, <2>1, PayloadHoldsOne DEF WritePayload, Unsynced, InFile
  <2>3. LossOK'
    BY <1>1, <1>3, <2>1, <2>2, QuietLoss DEF AccountInv
  <2> QED
    BY <1>2, <2>3 DEF AccountInv
<1>5. CASE ~ShouldFsyncAfterAppend(bufferSize + 1)
  <2>1. /\ acked' = acked \cup {pending.n} /\ bufferSize' = bufferSize + 1 /\ pc' = "idle"
        /\ policy # "always" /\ (MaxSegment > 0 => bufferSize + 1 < MaxSegment)
    BY <1>1, <1>5, WALAssumption
    DEF WritePayload, Acknowledge, ShouldFsyncAfterAppend, SegmentFull
  <2>2. Unsynced' \subseteq Unsynced \cup {pending.n}
    BY <2>1, PayloadHoldsOne DEF WritePayload, Unsynced, InFile
  <2>3. IsFiniteSet(Unsynced) /\ Cardinality(Unsynced) \in Nat
    BY <1>1, UnsyncedAreFew
  <2>4. /\ IsFiniteSet(Unsynced \cup {pending.n})
        /\ Cardinality(Unsynced \cup {pending.n}) \in Nat
        /\ Cardinality(Unsynced \cup {pending.n}) <= Cardinality(Unsynced) + 1
    BY <2>3, FS_AddElement, FS_CardinalityType
  <2>5. /\ Cardinality(Unsynced') \in Nat
        /\ Cardinality(Unsynced') <= Cardinality(Unsynced \cup {pending.n})
    BY <2>2, <2>4, FS_Subset, FS_CardinalityType
  <2>6. ASSUME MaxSegment > 0, policy = "segment"
        PROVE  Cardinality(Unsynced') < MaxSegment /\ Cardinality(Unsynced') <= bufferSize'
    <3>1. Cardinality(Unsynced) <= bufferSize
      BY <1>1, <2>6 DEF AccountInv, LossOK
    <3> QED
      BY <1>1, <2>1, <2>3, <2>4, <2>5, <2>6, <3>1, WALAssumption
  <2> QED
    BY <1>1, <1>2, <2>1, <2>6 DEF AccountInv, LossOK, Appending
<1> QED
  BY <1>4, <1>5

LEMMA SyncAppendAccount == ASSUME IInv, AccountInv, SyncAppend PROVE AccountInv'
<1>1. TypeOK'
  BY SyncAppendOK DEF IInv
<1>2. AccountedOK'
  BY DEF SyncAppend, Acknowledge, AccountInv, AccountedOK
<1>3. Unsynced' = {}
  BY DEF SyncAppend, Unsynced, InFile
<1>4. LossOK'
  BY <1>1, <1>3, SafeLoss DEF SyncAppend, Acknowledge, Appending
<1> QED
  BY <1>2, <1>4 DEF AccountInv

LEMMA AppendFailsAccount == ASSUME IInv, AccountInv, AppendFails PROVE AccountInv'
<1>1. TypeOK /\ bufferSize \in Nat /\ file \in Seq(Chunk)
  BY DEF IInv, TypeOK
<1>2. /\ \A n : InFile(file', n) <=> InFile(file, n)
      /\ (\A i \in 1..Len(file) : ~file[i].whole) => \A i \in 1..Len(file') : ~file'[i].whole
  <2>1. CASE UNCHANGED file
    BY <2>1 DEF InFile
  <2>2. CASE pc = "length" /\ file' = Append(file, Torn(pending))
    <3>1. Torn(pending) \in Chunk /\ ~Torn(pending).whole
      BY <2>2, TornKeeps DEF IInv, PendingOK, Appending
    <3> QED
      BY <1>1, <2>2, <3>1, TornHoldsNone, GrownFile
  <2> QED
    BY <2>1, <2>2 DEF AppendFails
<1>3. AccountedOK'
  BY <1>2 DEF AppendFails, AccountInv, AccountedOK
<1>4. Unsynced' = Unsynced
  <2>1. Unsynced' = {n \in acked : InFile(file', n) /\ ~InFile(stable, n)}
    BY DEF AppendFails, Unsynced, InFile
  <2> QED
    BY <1>2, <2>1 DEF Unsynced
<1>5. LossOK'
  BY <1>1, <1>4, QuietLoss DEF AppendFails, AccountInv, Appending
<1> QED
  BY <1>3, <1>5 DEF AccountInv

LEMMA IdleAccount ==
    ASSUME IInv, AccountInv, Reset \/ SyncReset \/ ResetFails \/ Close \/ Crash
    PROVE  AccountInv'
<1>1. TypeOK /\ bufferSize \in Nat
  BY DEF IInv, TypeOK
<1>2. /\ pc # "closed" /\ UNCHANGED <<policy, file, bufferSize, acked>>
      /\ pc' \in {"closed", "idle", "fsync", "truncate"}
      /\ stable' = stable \/ stable' = file
  BY DEF Reset, SyncReset, ResetFails, Close, Crash, memory
<1>3. AccountedOK'
  BY <1>2 DEF AccountInv, AccountedOK
<1>4. Unsynced' \subseteq Unsynced
  BY <1>2 DEF Unsynced, InFile
<1>5. LossOK'
  BY <1>1, <1>2, <1>4, QuietLoss DEF AccountInv, Appending
<1> QED
  BY <1>3, <1>5 DEF AccountInv

\* An emptied file has nothing acknowledged, a power loss leaves nothing unsynced.
LEMMA EmptiedAccount ==
    ASSUME IInv, AccountInv, Truncate \/ PowerLoss
    PROVE  AccountInv'
<1>1. TypeOK'
  BY TruncateOK, PowerLossOK DEF IInv
<1>2. AccountedOK'
  BY DEF Truncate, PowerLoss, AccountedOK
<1>3. Unsynced' = {}
  BY DEF Truncate, PowerLoss, Unsynced, InFile
<1>4. LossOK'
  BY <1>1, <1>3, SafeLoss DEF Truncate, PowerLoss, Appending
<1> QED
  BY <1>2, <1>4 DEF AccountInv

LEMMA StutterAccount == ASSUME AccountInv, UNCHANGED vars PROVE AccountInv'
BY DEF AccountInv, vars, memory, AccountedOK, LossOK, Appending, Unsynced, InFile

LEMMA AccountInvariance == Spec => []AccountInv
<1>1. ASSUME IInv, AccountInv, [Next]_vars PROVE AccountInv'
  BY <1>1, OpenAccount, EncodeAccount, WriteLengthAccount, WritePayloadAccount,
     SyncAppendAccount, AppendFailsAccount, IdleAccount, EmptiedAccount, StutterAccount
  DEF Next
<1> QED
  BY <1>1, InitAccount, Invariance, PTL DEF Spec

\* When the WAL has accounted for nothing, as after a failed first append, its
\* reset may leave the file alone: no whole record is in it.
THEOREM ResetMissesNothing == Spec => []NothingUnaccounted
<1>1. AccountInv => NothingUnaccounted
  BY DEF AccountInv, AccountedOK, NothingUnaccounted
<1> QED
  BY <1>1, AccountInvariance, PTL

\* A power loss takes fewer acknowledged records than a segment holds, whatever
\* crashes, failed writes and resets came before.
THEOREM PowerLossIsBounded == Spec => []LossIsBounded
<1>1. ASSUME TypeOK, AccountInv PROVE LossIsBounded
  <2>1. CASE policy = "always"
    BY <1>1, <2>1, FS_EmptySet, WALAssumption DEF AccountInv, LossOK, LossIsBounded
  <2>2. CASE policy = "segment"
    BY <1>1, <2>2 DEF AccountInv, LossOK, LossIsBounded
  <2> QED
    BY <1>1, <2>1, <2>2, WALAssumption DEF TypeOK
<1>2. IInv => TypeOK
  BY DEF IInv
<1> QED
  BY <1>1, <1>2, Invariance, AccountInvariance, PTL
=============================================================================
