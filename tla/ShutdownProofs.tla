--------------------------- MODULE ShutdownProofs ---------------------------
(***************************************************************************)
(* Proofs about Shutdown for every value of its constants: no goroutine of *)
(* the engine sends on the closed channel, what was pending when Close     *)
(* began has been written, or counted as lost, before Close takes writeMu, *)
(* and no call is reported twice.  Only the emitter's variables matter,    *)
(* whatever the MQTT worker does.                                          *)
(***************************************************************************)
EXTENDS Shutdown, FiniteSetTheorems, TLAPS

(***************************************************************************)
(* The inductive invariant.                                                *)
(***************************************************************************)

\* What a task may be about to do.
Steps == [at : {"idle"}] \cup [at : {"send", "lock"}, record : SUBSET CallNumbers]
           \cup [at : {"count"}, batch : Batches, call : CallNumbers]
           \cup [at : {"toggle"}, groups : SUBSET Group]

EmitterOK ==
    /\ limit \in Limits /\ emits \in CallNumbers
    /\ doing \in [Tasks -> Steps]
    /\ ch \in Seq(SUBSET CallNumbers)
    /\ counts \in [Batches -> SUBSET CallNumbers]
    /\ ready \in Seq([group : Group, record : SUBSET CallNumbers])
    /\ added \in Seq(SUBSET CallNumbers)
    /\ groups \subseteq Group

\* How far Close has come tells what is stopped, and no goroutine of the engine is
\* about to send once the channel may be closed.
OrderOK ==
    /\ closing \in {"open", "announced", "stopping", "stopped", "draining", "locked", "closed"}
    /\ batchStop <=> ~Accepting
    /\ forced => batchStop
    /\ stopped <=> closing \in {"stopped", "draining", "locked", "closed"}
    /\ stopped => batchDone
    /\ chClosed <=> closing \in {"draining", "locked", "closed"}
    /\ closing \in {"locked", "closed"} => done
    /\ batchDone => forced /\ ready = <<>> /\ doing[BatchLoop].at = "idle"
    /\ done => chClosed /\ ch = <<>> /\ doing[Drain].at = "idle"
    /\ writeMu = Closer => closing = "locked"
    /\ doing[Closer].at # "idle" => closing = "announced" /\ doing[Closer].at = "send"
    /\ doing[Drain].at \in {"idle", "lock"}
    /\ doing[BatchLoop].at \in {"idle", "send"}
    /\ CloseDoesNotPanic

\* Where a call that Close has to wait for may be.
Counting(c) == ~forced /\ \E b \in Batches : c \in counts[b]
Ready(c)    == \E i \in DOMAIN ready : c \in ready[i].record
InBatch(c)  == doing[BatchLoop].at = "send" /\ c \in doing[BatchLoop].record
InQueue(c)  == \E i \in DOMAIN ch : c \in ch[i]
InDrain(c)  == doing[Drain].at = "lock" /\ c \in doing[Drain].record
Settled(c)  == c \in Added \/ c \in dropped \/ c \in refused

FlowOK == \A c \in queued : Counting(c) \/ Ready(c) \/ InBatch(c) \/ InQueue(c) \/ InDrain(c)
                              \/ Settled(c)

IInv == EmitterOK /\ OrderOK /\ FlowOK

(***************************************************************************)
(* The steps.                                                              *)
(***************************************************************************)

USE EmitterAssumption, ShutdownAssumption

LEMMA Distinct == /\ Drain \notin Clients /\ BatchLoop \notin Clients /\ Closer \notin Clients
                  /\ Nobody \notin Clients /\ {Drain, BatchLoop, Closer, Worker} \subseteq Tasks
                  /\ Clients \subseteq Tasks
BY DEF Tasks

LEMMA SeqParts ==
    ASSUME NEW S, NEW s \in Seq(S), s # <<>>
    PROVE  Head(s) = s[1] /\ Head(s) \in S /\ Tail(s) \in Seq(S)
OBVIOUS

LEMMA SeqOfFunction ==
    ASSUME NEW S, NEW n \in Nat, NEW f \in [1..n -> S]
    PROVE  f \in Seq(S)
OBVIOUS

LEMMA InitOK == Init => IInv
<1> SUFFICES ASSUME Init PROVE IInv
  OBVIOUS
<1> USE DEF Init, EmitInit
<1>1. limit.emits \in Nat /\ emits \in CallNumbers
  BY DEF CallNumbers
<1>2. EmitterOK
  BY <1>1 DEF EmitterOK, Steps, Idle
<1>3. OrderOK
  BY Distinct DEF OrderOK, Idle, Accepting, CloseDoesNotPanic
<1> QED
  BY <1>2, <1>3 DEF IInv, FlowOK

LEMMA EmitOK ==
    ASSUME IInv, NEW t \in Tasks, NEW g \in Group, NEW db, Emit(t, g, db)
    PROVE  IInv'
<1> USE DEF Emit, emitter, flags, channel, batching, closer, fates
<1>1. limit' = limit /\ limit.emits \in Nat /\ CallNumbers' = CallNumbers /\ Steps' = Steps
      /\ emits + 1 \in CallNumbers
  BY DEF IInv, EmitterOK, CallNumbers, Steps
<1>2. Sends({emits + 1}) \in Steps
  BY <1>1 DEF Sends, Steps
<1>3. EmitterOK'
  BY <1>1, <1>2 DEF IInv, EmitterOK
<1>4. t # BatchLoop /\ t # Drain /\ t # Closer
  BY Distinct DEF IInv, OrderOK, About, Admitted, Holds
<1>5. OrderOK'
  BY <1>4, Distinct DEF IInv, EmitterOK, OrderOK, Accepting, CloseDoesNotPanic
<1>6. FlowOK'
  BY <1>4, Distinct DEF IInv, EmitterOK, FlowOK, Counting, Ready, InBatch, InQueue, InDrain,
     Settled, Added
<1> QED
  BY <1>3, <1>5, <1>6 DEF IInv

LEMMA SendOK == ASSUME IInv, NEW t \in Tasks, Send(t) PROVE IInv'
<1> USE DEF Send, flags, batching, used
<1> DEFINE r == doing[t].record
<1>1. limit' = limit /\ CallNumbers' = CallNumbers /\ Steps' = Steps
  BY DEF used, CallNumbers, Steps
<1>2. r \in SUBSET CallNumbers /\ Idle \in Steps
  BY DEF IInv, EmitterOK, Steps, Idle
<1>3. EmitterOK'
  <2>1. ch \in Seq(SUBSET CallNumbers) /\ doing \in [Tasks -> Steps]
    BY DEF IInv, EmitterOK
  <2>2. Append(ch, r) \in Seq(SUBSET CallNumbers)
    BY <1>2, <2>1
  <2>3. ch' \in Seq(SUBSET CallNumbers)
    BY <2>1, <2>2
  <2>4. doing' \in [Tasks -> Steps]
    BY <1>2, <2>1
  <2> QED
    BY <1>1, <2>3, <2>4 DEF IInv, EmitterOK
<1>4. t # Drain /\ (chClosed => t \in Clients)
  BY DEF IInv, OrderOK, Tasks
<1>5. OrderOK'
  <2>1. CASE chClosed
    BY <1>4, <2>1 DEF IInv, OrderOK, Accepting, CloseDoesNotPanic
  <2>2. CASE ~chClosed
    <3>1. doing' = [doing EXCEPT ![t] = Idle] /\ doing \in [Tasks -> Steps] /\ ~done
          /\ UNCHANGED <<done, panicked, chClosed, stopped, closing, writeMu>>
      BY <2>2 DEF IInv, EmitterOK, OrderOK
    <3>2. \A u \in Tasks : doing'[u].at = IF u = t THEN "idle" ELSE doing[u].at
      BY <3>1 DEF Idle
    <3> QED
      BY <1>4, <2>2, <3>1, <3>2, Distinct DEF IInv, OrderOK, Accepting, CloseDoesNotPanic
  <2> QED
    BY <2>1, <2>2
<1>6. ASSUME NEW c \in queued', c \in r, ~chClosed PROVE InQueue(c)' \/ Settled(c)'
  <2>1. CASE HasRoom
    <3>1. ch' = Append(ch, r) /\ ch \in Seq(SUBSET CallNumbers)
      BY <1>6, <2>1 DEF IInv, EmitterOK
    <3>2. Len(ch) + 1 \in DOMAIN ch' /\ ch'[Len(ch) + 1] = r
      BY <1>2, <3>1
    <3> QED
      BY <1>6, <3>2 DEF InQueue
  <2>2. CASE ~HasRoom
    BY <1>6, <2>2 DEF Settled
  <2> QED
    BY <2>1, <2>2
<1>7. ASSUME NEW c, InQueue(c) PROVE InQueue(c)'
  <2>1. ch \in Seq(SUBSET CallNumbers)
    BY DEF IInv, EmitterOK
  <2> QED
    BY <1>2, <1>7, <2>1 DEF InQueue
<1>8. FlowOK'
  <2> SUFFICES ASSUME NEW c \in queued', c \notin r \/ chClosed
               PROVE  Counting(c)' \/ Ready(c)' \/ InBatch(c)' \/ InQueue(c)' \/ InDrain(c)'
                        \/ Settled(c)'
    BY <1>6 DEF FlowOK
  <2>1. c \in queued
    OBVIOUS
  <2>2. InBatch(c) => InBatch(c)'
    BY <1>4, Distinct DEF IInv, EmitterOK, InBatch
  <2>3. InDrain(c) => InDrain(c)'
    BY <1>4, Distinct DEF IInv, EmitterOK, InDrain
  <2>4. (Counting(c) => Counting(c)') /\ (Ready(c) => Ready(c)') /\ (Settled(c) => Settled(c)')
    BY DEF Counting, Ready, Settled, Added
  <2> QED
    BY <1>7, <2>1, <2>2, <2>3, <2>4 DEF IInv, FlowOK
<1> QED
  BY <1>3, <1>5, <1>8 DEF IInv

LEMMA EmitBatchedOK ==
    ASSUME IInv, NEW t \in Tasks, NEW b \in Batches, NEW db, EmitBatched(t, b, db)
    PROVE  IInv'
<1> USE DEF EmitBatched, emitter, flags, channel, batching, closer, fates
<1>1. limit' = limit /\ limit.emits \in Nat /\ CallNumbers' = CallNumbers /\ Steps' = Steps
      /\ emits + 1 \in CallNumbers
  BY DEF IInv, EmitterOK, CallNumbers, Steps
<1>2. [at |-> "count", batch |-> b, call |-> emits + 1] \in Steps
  BY <1>1 DEF Steps
<1>3. EmitterOK'
  BY <1>1, <1>2 DEF IInv, EmitterOK
<1>4. t # BatchLoop /\ t # Drain /\ t # Closer
  BY Distinct DEF IInv, OrderOK, About, Admitted, Holds
<1>5. OrderOK'
  BY <1>4, Distinct DEF IInv, EmitterOK, OrderOK, Accepting, CloseDoesNotPanic
<1>6. FlowOK'
  BY <1>4, Distinct DEF IInv, EmitterOK, FlowOK, Counting, Ready, InBatch, InQueue, InDrain,
     Settled, Added
<1> QED
  BY <1>3, <1>5, <1>6 DEF IInv

LEMMA CountOK == ASSUME IInv, NEW t \in Tasks, Count(t) PROVE IInv'
<1> USE DEF Count, flags, channel, closer, used
<1>0. doing[t].batch \in Batches /\ doing[t].call \in CallNumbers
  BY DEF IInv, EmitterOK, Steps
<1> PICK b \in Batches, c \in CallNumbers : b = doing[t].batch /\ c = doing[t].call
  BY <1>0
<1>1. limit' = limit /\ CallNumbers' = CallNumbers /\ Steps' = Steps
  BY DEF CallNumbers, Steps
<1>2. b \in Batches /\ c \in CallNumbers /\ Idle \in Steps
  BY DEF IInv, EmitterOK, Steps, Idle
<1>3. EmitterOK'
  BY <1>1, <1>2 DEF IInv, EmitterOK
<1>4. t # BatchLoop /\ t # Drain /\ t # Closer
  BY DEF IInv, OrderOK
<1>5. OrderOK'
  BY <1>4, Distinct DEF IInv, EmitterOK, OrderOK, Accepting, CloseDoesNotPanic, Idle
<1>6. \A x : Counting(x) => Counting(x)'
  BY <1>2 DEF IInv, EmitterOK, Counting
<1>7. Accepting => Counting(c)'
  <2>1. Accepting => ~forced /\ ~forced'
    BY DEF IInv, OrderOK
  <2>2. counts' = [counts EXCEPT ![b] = @ \cup {c}] /\ counts \in [Batches -> SUBSET CallNumbers]
    BY DEF IInv, EmitterOK
  <2>3. c \in counts'[b]
    BY <1>2, <2>2
  <2> QED
    BY <1>2, <2>1, <2>3 DEF Counting
<1>8. FlowOK'
  <2>0. queued' \subseteq queued \cup (IF Accepting THEN {c} ELSE {})
    OBVIOUS
  <2> SUFFICES ASSUME NEW x \in queued, ~Counting(x)
               PROVE  Ready(x)' \/ InBatch(x)' \/ InQueue(x)' \/ InDrain(x)' \/ Settled(x)'
    BY <1>6, <1>7, <2>0 DEF FlowOK
  <2>1. doing'[BatchLoop] = doing[BatchLoop] /\ doing'[Drain] = doing[Drain]
    BY <1>4, Distinct DEF IInv, EmitterOK
  <2> QED
    BY <2>1 DEF IInv, FlowOK, Ready, InBatch, InQueue, InDrain, Settled, Added
<1> QED
  BY <1>3, <1>5, <1>8 DEF IInv

LEMMA ToggleOK ==
    ASSUME IInv, NEW t \in Tasks, NEW g \in Group,
           (t \in Clients /\ ToggleLoad(t, g)) \/ ToggleStore(t)
    PROVE  IInv'
<1> USE DEF ToggleLoad, ToggleStore, emitter, flags, channel, batching, closer, used, fates
<1>1. limit' = limit /\ limit.emits \in Nat /\ CallNumbers' = CallNumbers /\ Steps' = Steps
  BY DEF IInv, EmitterOK, CallNumbers, Steps
<1>2. emits < limit.emits => emits + 1 \in CallNumbers /\ Sends({emits + 1}) \in Steps
  BY <1>1 DEF IInv, EmitterOK, CallNumbers, Steps, Sends
<1>3. Idle \in Steps /\ \A s \in SUBSET Group : [at |-> "toggle", groups |-> s] \in Steps
  BY DEF Steps, Idle
<1>4. doing[t].at = "toggle" => doing[t].groups \subseteq Group
  BY DEF IInv, EmitterOK, Steps
<1>5. EmitterOK'
  BY <1>1, <1>2, <1>3, <1>4 DEF IInv, EmitterOK
<1>6. t # BatchLoop /\ t # Drain /\ t # Closer
  BY Distinct DEF IInv, OrderOK
<1>7. OrderOK'
  BY <1>6, Distinct DEF IInv, EmitterOK, OrderOK, Accepting, CloseDoesNotPanic
<1>8. FlowOK'
  <2>1. doing'[BatchLoop] = doing[BatchLoop] /\ doing'[Drain] = doing[Drain]
    BY <1>6, Distinct DEF IInv, EmitterOK
  <2> QED
    BY <2>1 DEF IInv, FlowOK, Counting, Ready, InBatch, InQueue, InDrain, Settled, Added
<1> QED
  BY <1>5, <1>7, <1>8 DEF IInv

\* The mutex alone changes hands.
LEMMA LockOK ==
    ASSUME IInv, NEW t \in Tasks, t # Closer, (t \in Clients /\ Lock(t)) \/ Unlock(t)
    PROVE  IInv'
<1> USE DEF Lock, Unlock, emitter, flags, channel, batching, closer, history, used, fates
<1>1. EmitterOK'
  BY DEF IInv, EmitterOK, Steps, CallNumbers
<1>2. OrderOK'
  BY Distinct DEF IInv, OrderOK, Accepting, CloseDoesNotPanic
<1>3. FlowOK'
  BY DEF IInv, FlowOK, Counting, Ready, InBatch, InQueue, InDrain, Settled, Added
<1> QED
  BY <1>1, <1>2, <1>3 DEF IInv

\* The drain takes a record and hands it to AddEvent, and ends with the channel.
LEMMA DrainOK == ASSUME IInv, Receive \/ DrainLock \/ DrainExit PROVE IInv'
<1> USE DEF emitter, flags, channel, batching, closer, history, used, fates
<1>1. limit' = limit /\ CallNumbers' = CallNumbers /\ Steps' = Steps
  BY DEF Receive, DrainLock, DrainExit, CallNumbers, Steps
<1>2. CASE Receive
  <2> USE <1>2 DEF Receive
  <2>1. /\ ch \in Seq(SUBSET CallNumbers) /\ ch # <<>> /\ Head(ch) \in SUBSET CallNumbers
        /\ Tail(ch) \in Seq(SUBSET CallNumbers)
    BY DEF IInv, EmitterOK
  <2>2. [at |-> "lock", record |-> Head(ch)] \in Steps
    BY <2>1 DEF Steps
  <2>3. EmitterOK'
    BY <1>1, <2>1, <2>2 DEF IInv, EmitterOK
  <2>4. OrderOK'
    BY <2>1, Distinct DEF IInv, EmitterOK, OrderOK, Accepting, CloseDoesNotPanic
  <2>5. ASSUME NEW c, InQueue(c) PROVE InQueue(c)' \/ InDrain(c)'
    <3>1. PICK i \in DOMAIN ch : c \in ch[i]
      BY <2>5 DEF InQueue
    <3>2. CASE i = 1
      BY <2>1, <3>1, <3>2, Distinct DEF IInv, EmitterOK, InDrain
    <3>3. CASE i # 1
      <4>1. i - 1 \in DOMAIN Tail(ch) /\ Tail(ch)[i - 1] = ch[i]
        BY <2>1, <3>3
      <4> QED
        BY <3>1, <4>1 DEF InQueue
    <3> QED
      BY <3>2, <3>3
  <2>6. FlowOK'
    <3>1. doing[Drain].at = "idle" /\ doing'[BatchLoop] = doing[BatchLoop]
      BY Distinct DEF IInv, EmitterOK, Free, Idle
    <3> QED
      BY <2>5, <3>1 DEF IInv, FlowOK, Counting, Ready, InBatch, InDrain, Settled, Added
  <2> QED
    BY <2>3, <2>4, <2>6 DEF IInv
<1>3. CASE DrainLock
  <2> USE <1>3 DEF DrainLock
  <2>1. doing[Drain].record \in SUBSET CallNumbers /\ Idle \in Steps /\ Idle.at = "idle"
    BY Distinct DEF IInv, EmitterOK, Steps, Idle
  <2>2. EmitterOK'
    <3>1. added \in Seq(SUBSET CallNumbers) /\ doing \in [Tasks -> Steps]
      BY DEF IInv, EmitterOK
    <3>2. added' \in Seq(SUBSET CallNumbers)
      BY <2>1, <3>1
    <3>3. doing' \in [Tasks -> Steps]
      BY <2>1, <3>1
    <3> QED
      BY <1>1, <3>2, <3>3 DEF IInv, EmitterOK
  <2>3. OrderOK'
    BY <2>1, Distinct DEF IInv, EmitterOK, OrderOK, Accepting, CloseDoesNotPanic
  <2>4. \A c : c \in Added => c \in Added'
    BY <2>1 DEF IInv, EmitterOK, Added
  <2>5. ASSUME NEW c, InDrain(c) PROVE c \in Added'
    <3>1. /\ Len(added) + 1 \in DOMAIN added'
          /\ added'[Len(added) + 1] = doing[Drain].record
      BY <2>1 DEF IInv, EmitterOK
    <3> QED
      BY <2>5, <3>1 DEF InDrain, Added
  <2>6. doing'[BatchLoop] = doing[BatchLoop]
    BY Distinct DEF IInv, EmitterOK
  <2>7. FlowOK'
    BY <2>4, <2>5, <2>6 DEF IInv, FlowOK, Counting, Ready, InBatch, InQueue, Settled
  <2> QED
    BY <2>2, <2>3, <2>7 DEF IInv
<1>4. CASE DrainExit
  <2> USE <1>4 DEF DrainExit
  <2>1. EmitterOK'
    BY <1>1 DEF IInv, EmitterOK
  <2>2. OrderOK'
    BY DEF IInv, OrderOK, Accepting, CloseDoesNotPanic, Free, Idle
  <2>3. FlowOK'
    BY DEF IInv, FlowOK, Counting, Ready, InBatch, InQueue, InDrain, Settled, Added
  <2> QED
    BY <2>1, <2>2, <2>3 DEF IInv
<1> QED
  BY <1>2, <1>3, <1>4

\* Counts that are taken are all made ready, in some order.
LEMMA TakeCountsOK ==
    ASSUME IInv, NEW bs \in SUBSET Counted, NEW force \in BOOLEAN, TakeCounts(bs, force),
           force => bs = Counted /\ batchStop /\ ~batchDone,
           ~force => bs # {}
    PROVE  IInv'
<1> USE DEF TakeCounts, flags, channel, closer, history, used, fates
<1>1. limit' = limit /\ CallNumbers' = CallNumbers /\ Steps' = Steps
  BY DEF CallNumbers, Steps
<1>2. PICK order \in [1..Cardinality(bs) -> bs] :
         /\ \A b \in bs : \E i \in DOMAIN order : order[i] = b
         /\ ready' = [i \in DOMAIN order |-> [group |-> BatchGroup[order[i]],
                                            record |-> counts[order[i]]]]
  OBVIOUS
<1>3. bs \subseteq Batches /\ Cardinality(bs) \in Nat
  <2>1. bs \in SUBSET Batches
    BY DEF Counted
  <2>2. IsFiniteSet(bs)
    BY <2>1, FS_Subset
  <2> QED
    BY <2>1, <2>2, FS_CardinalityType
<1>4. DOMAIN ready' = 1..Cardinality(bs)
      /\ \A i \in 1..Cardinality(bs) :
            /\ ready'[i] \in [group : Group, record : SUBSET CallNumbers]
            /\ ready'[i].record = counts[order[i]]
  BY <1>2, <1>3 DEF IInv, EmitterOK
<1>5. EmitterOK'
  <2>1. ready' \in [1..Cardinality(bs) -> [group : Group, record : SUBSET CallNumbers]]
    BY <1>2, <1>4
  <2>2. ready' \in Seq([group : Group, record : SUBSET CallNumbers])
    BY <1>3, <2>1, SeqOfFunction
  <2>3. counts' \in [Batches -> SUBSET CallNumbers]
    BY DEF IInv, EmitterOK, AfterFlush
  <2> QED
    BY <1>1, <2>2, <2>3 DEF IInv, EmitterOK
<1>6. OrderOK'
  BY DEF IInv, OrderOK, Accepting, CloseDoesNotPanic
<1>7. ASSUME NEW c, Counting(c) PROVE Counting(c)' \/ Ready(c)'
  <2>1. PICK b \in Batches : c \in counts[b]
    BY <1>7 DEF Counting
  <2>2. CASE b \in bs
    BY <1>2, <1>4, <2>1, <2>2 DEF Ready
  <2>3. CASE b \notin bs
    <3>1. counts'[b] = counts[b] /\ ~force
      BY <2>1, <2>3 DEF Counted
    <3> QED
      BY <2>1, <3>1 DEF Counting
  <2> QED
    BY <2>2, <2>3
<1>8. FlowOK'
  BY <1>7 DEF IInv, FlowOK, Ready, InBatch, InQueue, InDrain, Settled, Added
<1> QED
  BY <1>5, <1>6, <1>8 DEF IInv

\* What was taken is emitted one by one, and then the loop ends.
LEMMA BatchLoopOK == ASSUME IInv, EmitReady \/ BatchExit PROVE IInv'
<1> USE DEF flags, channel, closer, history, used, fates
<1>1. limit' = limit /\ CallNumbers' = CallNumbers /\ Steps' = Steps
  BY DEF EmitReady, BatchExit, CallNumbers, Steps
<1>2. CASE EmitReady
  <2> USE <1>2 DEF EmitReady
  <2> DEFINE r == Head(ready)
  <2>1. /\ ready # <<>> /\ r = ready[1]
        /\ ready \in Seq([group : Group, record : SUBSET CallNumbers])
        /\ r.record \in SUBSET CallNumbers /\ Sends(r.record) \in Steps
        /\ Tail(ready) \in Seq([group : Group, record : SUBSET CallNumbers])
    <3>1. ready # <<>> /\ ready \in Seq([group : Group, record : SUBSET CallNumbers])
      BY DEF IInv, EmitterOK
    <3>2. r = ready[1] /\ r \in [group : Group, record : SUBSET CallNumbers]
      BY <3>1, SeqParts
    <3>3. Tail(ready) \in Seq([group : Group, record : SUBSET CallNumbers])
      BY <3>1, SeqParts
    <3>4. \A x \in SUBSET CallNumbers : Sends(x) \in Steps
      BY DEF Sends, Steps
    <3> QED
      BY <3>1, <3>2, <3>3, <3>4
  <2>2. EmitterOK'
    BY <1>1, <2>1 DEF IInv, EmitterOK
  <2>3. OrderOK'
    BY <2>1, Distinct DEF IInv, EmitterOK, OrderOK, Accepting, CloseDoesNotPanic, Sends
  <2>4. ASSUME NEW c, c \in r.record PROVE InBatch(c)' \/ Settled(c)'
    BY <2>1, <2>4, Distinct DEF IInv, EmitterOK, InBatch, Settled, Sends
  <2>5. ASSUME NEW c, Ready(c) PROVE InBatch(c)' \/ Settled(c)' \/ Ready(c)'
    <3>1. PICK i \in DOMAIN ready : c \in ready[i].record
      BY <2>5 DEF Ready
    <3>2. CASE i = 1
      BY <2>1, <2>4, <3>1, <3>2
    <3>3. CASE i # 1
      <4>1. i - 1 \in DOMAIN Tail(ready) /\ Tail(ready)[i - 1] = ready[i]
        BY <2>1, <3>3
      <4> QED
        BY <3>1, <4>1 DEF Ready
    <3> QED
      BY <3>2, <3>3
  <2>6. ~InBatch(0) /\ \A c : ~InBatch(c)
    BY DEF Free, Idle, InBatch
  <2>7. doing'[Drain] = doing[Drain]
    BY Distinct DEF IInv, EmitterOK
  <2>8. \A c : Settled(c) => Settled(c)'
    BY DEF Settled, Added
  <2>9. FlowOK'
    BY <2>5, <2>6, <2>7, <2>8 DEF IInv, FlowOK, Counting, InQueue, InDrain
  <2> QED
    BY <2>2, <2>3, <2>9 DEF IInv
<1>3. CASE BatchExit
  <2> USE <1>3 DEF BatchExit
  <2>1. EmitterOK'
    BY <1>1 DEF IInv, EmitterOK
  <2>2. OrderOK'
    BY DEF IInv, OrderOK, Accepting, CloseDoesNotPanic, Free, Idle
  <2>3. FlowOK'
    BY DEF IInv, FlowOK, Counting, Ready, InBatch, InQueue, InDrain, Settled, Added
  <2> QED
    BY <2>1, <2>2, <2>3 DEF IInv
<1> QED
  BY <1>2, <1>3

\* Close goes on when what it waits for has ended.
LEMMA CloseOK ==
    ASSUME IInv, CloseBegins \/ StopBatches \/ MarkStopped \/ CloseChannel \/ CloseLocks
                   \/ CloseDone
    PROVE  IInv'
<1> USE DEF CloseBegins, StopBatches, MarkStopped, CloseChannel, CloseLocks, CloseDone,
            emitter, flags, channel, batching, closer, history, used, fates
<1>1. limit' = limit /\ CallNumbers' = CallNumbers /\ Steps' = Steps
  BY DEF CallNumbers, Steps
<1>2. Sends({ShutdownEvent}) \in Steps
  BY DEF IInv, EmitterOK, CallNumbers, Steps, Sends, ShutdownEvent
<1>3. EmitterOK'
  BY <1>1, <1>2 DEF IInv, EmitterOK
<1>4. OrderOK'
  <2>1. CASE CloseBegins
    BY <2>1, Distinct DEF IInv, EmitterOK, OrderOK, Accepting, CloseDoesNotPanic, Free, Idle, Sends
  <2>2. CASE ~CloseBegins
    BY <2>2, Distinct DEF IInv, EmitterOK, OrderOK, Accepting, CloseDoesNotPanic, Free, Idle
  <2> QED
    BY <2>1, <2>2
<1>5. doing'[BatchLoop] = doing[BatchLoop] /\ doing'[Drain] = doing[Drain]
  BY Distinct DEF IInv, EmitterOK
<1>6. FlowOK'
  BY <1>5 DEF IInv, FlowOK, Counting, Ready, InBatch, InQueue, InDrain, Settled, Added
<1> QED
  BY <1>3, <1>4, <1>6 DEF IInv

LEMMA StutterOK == ASSUME IInv, UNCHANGED emitVars PROVE IInv'
BY DEF IInv, emitVars, emitter, flags, channel, batching, closer, history, used, fates,
   EmitterOK, Steps, CallNumbers, OrderOK, Accepting, CloseDoesNotPanic, FlowOK, Counting,
   Ready, InBatch, InQueue, InDrain, Settled, Added

\* The MQTT worker is a client: what it adds are a client's emissions and locks.
LEMMA WorkerOK ==
    ASSUME IInv, WorkerRetries \/ WorkerSession \/ WorkerRefused \/ WorkerWrites \/ Pinger
                   \/ StopMQTT
    PROVE  IInv'
<1>1. CASE UNCHANGED emitVars
  BY <1>1, StutterOK
<1>2. CASE Emit(Worker, MQTTGroup, NoDB)
  BY <1>2, EmitOK, Distinct
<1>3. CASE Lock(Worker)
  BY <1>3, LockOK, Distinct
<1> QED
  BY <1>1, <1>2, <1>3 DEF WorkerRetries, WorkerSession, WorkerRefused, WorkerWrites, Pinger,
     StopMQTT, Tell

LEMMA EngineOK == ASSUME IInv, EngineNext PROVE IInv'
<1>1. CASE \E t \in Tasks, g \in Group, db \in Subject : Emit(t, g, db)
  BY <1>1, EmitOK
<1>2. CASE \E t \in Tasks, b \in Batches, db \in Subject : EmitBatched(t, b, db)
  BY <1>2, EmitBatchedOK
<1>3. CASE \E t \in Tasks : Send(t) \/ Count(t)
  BY <1>3, SendOK, CountOK
<1>4. CASE \/ \E t \in Clients \ {Worker}, g \in Group : ToggleLoad(t, g)
           \/ \E t \in Clients \ {Worker} : ToggleStore(t)
  BY <1>4, ToggleOK, Distinct
<1>5. CASE \/ \E t \in Clients \ {Worker} : Lock(t)
           \/ \E t \in Tasks \ {Closer} : Unlock(t)
  BY <1>5, LockOK, Distinct
<1>6. CASE Receive \/ DrainLock \/ DrainExit
  BY <1>6, DrainOK
<1>7. CASE Tick
  <2>1. PICK bs \in SUBSET Counted : bs # {} /\ TakeCounts(bs, FALSE)
    BY <1>7 DEF Tick
  <2> QED
    BY <2>1, TakeCountsOK
<1>8. CASE FinalFlush
  BY <1>8, TakeCountsOK DEF FinalFlush
<1>9. CASE EmitReady \/ BatchExit
  BY <1>9, BatchLoopOK
<1>10. CASE CloseBegins \/ StopBatches \/ MarkStopped \/ CloseChannel \/ CloseLocks \/ Closed
  BY <1>10, CloseOK DEF Closed
<1> QED
  BY <1>1, <1>2, <1>3, <1>4, <1>5, <1>6, <1>7, <1>8, <1>9, <1>10 DEF EngineNext

LEMMA NextOK == IInv /\ [Next]_vars => IInv'
BY StutterOK, WorkerOK, EngineOK DEF Next, vars

LEMMA Invariance == Spec => []IInv
BY InitOK, NextOK, PTL DEF Spec

-----------------------------------------------------------------------------
(* Theorems.                                                               *)

\* The drain, the batch loop and Close itself never send on the closed channel: only a
\* client whose call overlaps Close can.
THEOREM EngineDoesNotPanic == Spec => []CloseDoesNotPanic
<1>1. IInv => CloseDoesNotPanic
  BY DEF IInv, OrderOK
<1> QED
  BY <1>1, Invariance, PTL

\* Whatever was sent or counted before Close stopped the batch loop has been given to
\* AddEvent, or is counted as lost, when Close takes writeMu.
THEOREM PendingIsFlushed == Spec => []PendingFlushed
<1>1. IInv => PendingFlushed
  <2> SUFFICES ASSUME IInv, closing \in {"locked", "closed"}, NEW c \in queued
               PROVE  Settled(c)
    BY DEF PendingFlushed, Settled
  <2>1. done /\ batchDone
    BY DEF IInv, OrderOK
  <2> QED
    BY <2>1 DEF IInv, OrderOK, FlowOK, Counting, Ready, InBatch, InQueue, InDrain
<1> QED
  BY <1>1, Invariance, PTL


-----------------------------------------------------------------------------
(***************************************************************************)
(* No call is reported twice.  A call is always in one place at most: a    *)
(* task carries it, a batch has counted it, it waits among the counts that *)
(* were taken or in the channel, AddEvent has been given it, or it is      *)
(* counted as lost.  And the records that wait or were given share no      *)
(* call.                                                                   *)
(***************************************************************************)

Carries(t, c) == \/ doing[t].at \in {"send", "lock"} /\ c \in doing[t].record
                 \/ doing[t].at = "count" /\ c = doing[t].call

Lost == dropped \cup refused

\* The call c is at the place of kind k: with the task or in the batch x, or Nobody's.
At(k, x, c) ==
    \/ k = "task"  /\ x \in Tasks /\ Carries(x, c)
    \/ k = "count" /\ x \in Batches /\ c \in counts[x]
    \/ k = "ready" /\ x = Nobody /\ Ready(c)
    \/ k = "queue" /\ x = Nobody /\ InQueue(c)
    \/ k = "added" /\ x = Nobody /\ c \in Added
    \/ k = "lost"  /\ x = Nobody /\ c \in Lost

\* The calls made so far; the shutdown event is one from the beginning of Close.
Made(c) == c \in 1..emits \/ (c = ShutdownEvent /\ closing # "open")

OnePlace(c) == \A k, x, l, y : At(k, x, c) /\ At(l, y, c) => k = l /\ x = y
OnlyMade(c) == (\E k, x : At(k, x, c)) => Made(c)

\* One member at most of a sequence of records holds the call.
Single(s, c)   == \A i, j \in DOMAIN s : c \in s[i] /\ c \in s[j] => i = j
SingleReady(c) == \A i, j \in DOMAIN ready : c \in ready[i].record /\ c \in ready[j].record => i = j

OnceAt(c) == OnePlace(c) /\ OnlyMade(c) /\ Single(ch, c) /\ Single(added, c) /\ SingleReady(c)
OnceOK    == \A c : OnceAt(c)

LEMMA SingleAppend ==
    ASSUME NEW S, NEW s \in Seq(SUBSET S), NEW r \in SUBSET S, NEW c, Single(s, c),
           c \in r => \A i \in DOMAIN s : c \notin s[i]
    PROVE  Single(Append(s, r), c)
<1>1. DOMAIN s = 1..Len(s) /\ Len(s) \in Nat /\ DOMAIN Append(s, r) = 1..Len(s) + 1
  OBVIOUS
<1>2. \A i \in DOMAIN Append(s, r) :
         \/ i \in DOMAIN s /\ Append(s, r)[i] = s[i]
         \/ i \notin DOMAIN s /\ i = Len(s) + 1 /\ Append(s, r)[i] = r
  BY <1>1
<1> QED
  BY <1>2 DEF Single

LEMMA InAppend ==
    ASSUME NEW S, NEW s \in Seq(SUBSET S), NEW r \in SUBSET S, NEW i \in DOMAIN Append(s, r),
           NEW c \in Append(s, r)[i]
    PROVE  c \in r \/ \E j \in DOMAIN s : c \in s[j]
OBVIOUS

LEMMA TailParts ==
    ASSUME NEW S, NEW s \in Seq(S), s # <<>>
    PROVE  /\ 1 \in DOMAIN s
           /\ \A i \in DOMAIN Tail(s) :
                 i \in Nat \ {0} /\ i + 1 \in DOMAIN s /\ Tail(s)[i] = s[i + 1]
OBVIOUS

\* A step takes the call c from a place, or to no other place than this one.
Leaves(c, k, x) == At(k, x, c) /\ ~At(k, x, c)'
Enters(c, l, y) == \A k, x : At(k, x, c)' => At(k, x, c) \/ (k = l /\ x = y)

\* A call that goes from one place to another, where it was not before.
LEMMA Moves ==
    ASSUME NEW c, OnceAt(c), NEW k0, NEW x0, NEW k1, NEW x1,
           Leaves(c, k0, x0), Enters(c, k1, x1), Made(c) => Made(c)'
    PROVE  OnePlace(c)' /\ OnlyMade(c)'
BY DEF OnceAt, OnePlace, OnlyMade, Leaves, Enters

\* One that goes nowhere.
LEMMA Stays ==
    ASSUME NEW c, OnceAt(c), \A k, x : At(k, x, c)' => At(k, x, c), Made(c) => Made(c)'
    PROVE  OnePlace(c)' /\ OnlyMade(c)'
BY DEF OnceAt, OnePlace, OnlyMade

\* A new one.
LEMMA Begins ==
    ASSUME NEW c, OnceAt(c), ~Made(c), Made(c)', NEW k1, NEW x1,
           \A k, x : At(k, x, c)' => At(k, x, c) \/ (k = k1 /\ x = x1)
    PROVE  OnePlace(c)' /\ OnlyMade(c)'
BY DEF OnceAt, OnePlace, OnlyMade


LEMMA InitOnce == Init => OnceOK
<1> SUFFICES ASSUME Init, NEW c PROVE OnceAt(c)
  BY DEF OnceOK
<1> USE DEF Init, EmitInit
<1>1. ~Ready(c) /\ ~InQueue(c) /\ c \notin Added /\ c \notin Lost
  BY DEF Ready, InQueue, Added, Lost
<1>2. \A t \in Tasks : ~Carries(t, c)
  BY DEF Carries, Idle
<1>3. \A b \in Batches : c \notin counts[b]
  OBVIOUS
<1>4. \A k, x : ~At(k, x, c)
  BY <1>1, <1>2, <1>3 DEF At
<1>5. Single(ch, c) /\ Single(added, c) /\ SingleReady(c)
  BY DEF Single, SingleReady
<1> QED
  BY <1>4, <1>5 DEF OnceAt, OnePlace, OnlyMade

\* Where a call is that no task carries.
Elsewhere == <<counts, ready, ch, added, dropped, refused>>

LEMMA SameElsewhere ==
    ASSUME UNCHANGED Elsewhere, NEW c
    PROVE  /\ \A k, x : k # "task" => (At(k, x, c)' <=> At(k, x, c))
           /\ Single(ch, c) => Single(ch, c)'
           /\ Single(added, c) => Single(added, c)'
           /\ SingleReady(c) => SingleReady(c)'
<1> USE DEF Elsewhere
<1>1. \A k, x : k # "task" => (At(k, x, c)' <=> At(k, x, c))
  BY DEF At, Ready, InQueue, Added, Lost
<1> QED
  BY <1>1 DEF Single, SingleReady

\* A step that moves no call.
LEMMA NoMove ==
    ASSUME OnceOK, UNCHANGED Elsewhere,
           \A t \in Tasks : \A c : Carries(t, c)' => Carries(t, c),
           \A c : Made(c) => Made(c)'
    PROVE  OnceOK'
<1> SUFFICES ASSUME NEW c PROVE OnceAt(c)'
  BY DEF OnceOK
<1>1. OnceAt(c)
  BY DEF OnceOK
<1>2. \A k, x : At(k, x, c)' => At(k, x, c)
  <2> SUFFICES ASSUME NEW k, NEW x, At(k, x, c)' PROVE At(k, x, c)
    OBVIOUS
  <2>1. CASE k = "task"
    BY <2>1 DEF At
  <2>2. CASE k # "task"
    BY <2>2, SameElsewhere
  <2> QED
    BY <2>1, <2>2
<1>3. OnePlace(c)' /\ OnlyMade(c)'
  BY <1>1, <1>2, Stays
<1>4. Single(ch, c)' /\ Single(added, c)' /\ SingleReady(c)'
  BY <1>1, SameElsewhere DEF OnceAt
<1> QED
  BY <1>3, <1>4 DEF OnceAt

\* A step with which a task carries a new call.
LEMMA NewCall ==
    ASSUME OnceOK, UNCHANGED Elsewhere, NEW t \in Tasks, NEW n, ~Made(n), Made(n)',
           \A u \in Tasks : \A c : Carries(u, c)' => Carries(u, c) \/ (u = t /\ c = n),
           \A c : Made(c) => Made(c)'
    PROVE  OnceOK'
<1> SUFFICES ASSUME NEW c PROVE OnceAt(c)'
  BY DEF OnceOK
<1>1. OnceAt(c)
  BY DEF OnceOK
<1>2. \A k, x : At(k, x, c)' => At(k, x, c) \/ (c = n /\ k = "task" /\ x = t)
  <2> SUFFICES ASSUME NEW k, NEW x, At(k, x, c)'
               PROVE  At(k, x, c) \/ (c = n /\ k = "task" /\ x = t)
    OBVIOUS
  <2>1. CASE k = "task"
    BY <2>1 DEF At
  <2>2. CASE k # "task"
    BY <2>2, SameElsewhere
  <2> QED
    BY <2>1, <2>2
<1>3. OnePlace(c)' /\ OnlyMade(c)'
  <2>1. CASE c = n
    BY <1>1, <1>2, <2>1, Begins
  <2>2. CASE c # n
    <3>1. \A k, x : At(k, x, c)' => At(k, x, c)
      BY <1>2, <2>2
    <3> QED
      BY <1>1, <3>1, Stays
  <2> QED
    BY <2>1, <2>2
<1>4. Single(ch, c)' /\ Single(added, c)' /\ SingleReady(c)'
  BY <1>1, SameElsewhere DEF OnceAt
<1> QED
  BY <1>3, <1>4 DEF OnceAt

\* The number a new call gets.
LEMMA NextNumber ==
    ASSUME IInv, emits' = emits + 1, closing' = closing, NEW n, n = emits + 1
    PROVE  ~Made(n) /\ Made(n)' /\ \A c : Made(c) => Made(c)'
<1>1. emits \in Nat /\ emits' \in Nat /\ n \in Nat
  BY DEF IInv, EmitterOK, CallNumbers
<1>2. n \notin 1..emits /\ n # 0 /\ n \in 1..emits' /\ \A c \in 1..emits : c \in 1..emits'
  BY <1>1
<1> QED
  BY <1>2 DEF Made, ShutdownEvent

LEMMA EmitOnce ==
    ASSUME IInv, OnceOK, NEW t \in Tasks, NEW g \in Group, NEW db, Emit(t, g, db)
    PROVE  OnceOK'
<1> USE DEF Emit, emitter, flags, channel, batching, closer, fates
<1> PICK n : n = emits + 1
  OBVIOUS
<1>1. UNCHANGED Elsewhere
  BY DEF Elsewhere
<1>2. \A u \in Tasks : \A c : Carries(u, c)' => Carries(u, c) \/ (u = t /\ c = n)
  BY DEF IInv, EmitterOK, Carries, Sends
<1> QED
  BY <1>1, <1>2, NextNumber, NewCall

LEMMA EmitBatchedOnce ==
    ASSUME IInv, OnceOK, NEW t \in Tasks, NEW b \in Batches, NEW db, EmitBatched(t, b, db)
    PROVE  OnceOK'
<1> USE DEF EmitBatched, emitter, flags, channel, batching, closer, fates
<1> PICK n : n = emits + 1
  OBVIOUS
<1>1. UNCHANGED Elsewhere
  BY DEF Elsewhere
<1>2. \A u \in Tasks : \A c : Carries(u, c)' => Carries(u, c) \/ (u = t /\ c = n)
  BY DEF IInv, EmitterOK, Carries
<1> QED
  BY <1>1, <1>2, NextNumber, NewCall

LEMMA ToggleOnce ==
    ASSUME IInv, OnceOK, NEW t \in Tasks, NEW g \in Group, ToggleLoad(t, g) \/ ToggleStore(t)
    PROVE  OnceOK'
<1> USE DEF emitter, flags, channel, batching, closer, used, fates
<1> PICK n : n = emits + 1
  OBVIOUS
<1>1. UNCHANGED Elsewhere
  BY DEF Elsewhere, ToggleLoad, ToggleStore
<1>2. CASE ToggleLoad(t, g)
  <2>1. \A u \in Tasks : \A c : Carries(u, c)' => Carries(u, c)
    BY <1>2 DEF IInv, EmitterOK, ToggleLoad, Carries
  <2>2. \A c : Made(c) => Made(c)'
    BY <1>2 DEF ToggleLoad, Made
  <2> QED
    BY <1>1, <2>1, <2>2, NoMove
<1>3. CASE ToggleStore(t) /\ emits' # emits
  <2>1. /\ emits' = emits + 1 /\ closing' = closing
        /\ doing' = [doing EXCEPT ![t] = Sends({emits + 1})]
    BY <1>3 DEF ToggleStore
  <2>2. \A u \in Tasks : \A c : Carries(u, c)' => Carries(u, c) \/ (u = t /\ c = n)
    BY <2>1 DEF IInv, EmitterOK, Carries, Sends
  <2> QED
    BY <1>1, <2>1, <2>2, NextNumber, NewCall
<1>4. CASE ToggleStore(t) /\ emits' = emits
  <2>1. closing' = closing /\ doing' = [doing EXCEPT ![t] = Idle]
    <3>1. emits + 1 # emits
      BY DEF IInv, EmitterOK, CallNumbers
    <3> QED
      BY <1>4, <3>1 DEF ToggleStore
  <2>2. \A u \in Tasks : \A c : Carries(u, c)' => Carries(u, c)
    BY <2>1 DEF IInv, EmitterOK, Carries, Idle
  <2>3. \A c : Made(c) => Made(c)'
    BY <1>4, <2>1 DEF Made
  <2> QED
    BY <1>1, <2>2, <2>3, NoMove
<1> QED
  BY <1>2, <1>3, <1>4

LEMMA CloseOnce ==
    ASSUME IInv, OnceOK, CloseBegins \/ StopBatches \/ MarkStopped \/ CloseChannel \/ CloseLocks
                   \/ CloseDone
    PROVE  OnceOK'
<1> USE DEF emitter, flags, channel, batching, closer, history, used, fates
<1>1. UNCHANGED Elsewhere /\ closing' # "open"
  BY DEF Elsewhere, CloseBegins, StopBatches, MarkStopped, CloseChannel, CloseLocks, CloseDone
<1>2. emits' = emits
  BY DEF CloseBegins, StopBatches, MarkStopped, CloseChannel, CloseLocks, CloseDone
<1>3. \A c : Made(c) => Made(c)'
  BY <1>1, <1>2 DEF Made
<1>4. CASE CloseBegins
  <2>1. \A u \in Tasks : \A c : Carries(u, c)' => Carries(u, c) \/ (u = Closer /\ c = ShutdownEvent)
    BY <1>4 DEF IInv, EmitterOK, CloseBegins, Carries, Sends
  <2>2. ~Made(ShutdownEvent) /\ Made(ShutdownEvent)'
    <3>1. 0 \notin 1..emits
      BY DEF IInv, EmitterOK, CallNumbers
    <3> QED
      BY <1>1, <1>4, <3>1 DEF CloseBegins, Made, ShutdownEvent
  <2> QED
    BY <1>1, <1>3, <2>1, <2>2, NewCall, Distinct
<1>5. CASE ~CloseBegins
  <2>1. doing' = doing
    BY <1>5 DEF StopBatches, MarkStopped, CloseChannel, CloseLocks, CloseDone
  <2> QED
    BY <1>1, <1>3, <2>1, NoMove DEF Carries
<1> QED
  BY <1>4, <1>5


\* A step with which the task t has done what it was about to do, and the calls it
\* carried go to the place of kind k1.
LEMMA Delivered ==
    ASSUME OnceOK, NEW t \in Tasks, NEW k1, NEW x1,
           \A u \in Tasks : \A c : Carries(u, c)' => Carries(u, c) /\ u # t,
           \A c : \A k, x : At(k, x, c)' /\ k # "task"
                               => At(k, x, c) \/ (Carries(t, c) /\ k = k1 /\ x = x1),
           \A c : Made(c) => Made(c)',
           NEW c
    PROVE  OnePlace(c)' /\ OnlyMade(c)'
<1>1. OnceAt(c)
  BY DEF OnceOK
<1>2. \A k, x : At(k, x, c)' => At(k, x, c) \/ (Carries(t, c) /\ k = k1 /\ x = x1)
  <2> SUFFICES ASSUME NEW k, NEW x, At(k, x, c)'
               PROVE  At(k, x, c) \/ (Carries(t, c) /\ k = k1 /\ x = x1)
    OBVIOUS
  <2>1. CASE k = "task"
    BY <2>1 DEF At
  <2>2. CASE k # "task"
    BY <2>2
  <2> QED
    BY <2>1, <2>2
<1>3. CASE Carries(t, c)
  <2>1. At("task", t, c)
    BY <1>3 DEF At
  <2>2. ~At("task", t, c)'
    BY DEF At
  <2>3. Leaves(c, "task", t)
    BY <2>1, <2>2 DEF Leaves
  <2>4. Enters(c, k1, x1)
    BY <1>2 DEF Enters
  <2> QED
    BY <1>1, <2>3, <2>4, Moves
<1>4. CASE ~Carries(t, c)
  BY <1>1, <1>2, <1>4, Stays
<1> QED
  BY <1>3, <1>4

\* What a task carries is nowhere else.
LEMMA CarriedOnly ==
    ASSUME OnceOK, NEW t \in Tasks, NEW c, Carries(t, c)
    PROVE  ~InQueue(c) /\ ~Ready(c) /\ c \notin Added
<1>1. At("task", t, c) /\ OnePlace(c)
  BY DEF OnceOK, OnceAt, At
<1>2. ~At("queue", Nobody, c) /\ ~At("ready", Nobody, c) /\ ~At("added", Nobody, c)
  BY <1>1 DEF OnePlace
<1> QED
  BY <1>2 DEF At

LEMMA SendOnce == ASSUME IInv, OnceOK, NEW t \in Tasks, Send(t) PROVE OnceOK'
<1> USE DEF Send, flags, batching, used
<1> DEFINE r == doing[t].record
<1>1. \A c : Made(c) => Made(c)'
  BY DEF Made
<1>2. r \in SUBSET CallNumbers /\ ch \in Seq(SUBSET CallNumbers)
      /\ \A c : c \in r <=> Carries(t, c)
  BY DEF IInv, EmitterOK, Steps, Carries
<1>3. CASE chClosed
  <2>1. UNCHANGED Elsewhere /\ doing' = doing
    BY <1>3 DEF Elsewhere
  <2> QED
    BY <1>1, <2>1, NoMove DEF Carries
<1>4. CASE ~chClosed
  <2> SUFFICES ASSUME NEW c PROVE OnceAt(c)'
    BY DEF OnceOK
  <2>0. OnceAt(c)
    BY DEF OnceOK
  <2>1. \A u \in Tasks : \A d : Carries(u, d)' => Carries(u, d) /\ u # t
    BY <1>4 DEF IInv, EmitterOK, Carries, Idle
  <2>2. UNCHANGED <<counts, ready, added, refused>>
    OBVIOUS
  <2>3. CASE HasRoom
    <3>1. ch' = Append(ch, r) /\ dropped' = dropped
      BY <1>4, <2>3
    <3>2. \A d : InQueue(d)' => InQueue(d) \/ d \in r
      BY <1>2, <3>1, InAppend DEF InQueue
    <3>3. \A d : \A k, x : At(k, x, d)' /\ k # "task"
                              => At(k, x, d) \/ (Carries(t, d) /\ k = "queue" /\ x = Nobody)
      BY <1>2, <2>2, <3>1, <3>2 DEF At, Ready, Added, Lost
    <3>4. OnePlace(c)' /\ OnlyMade(c)'
      <4> HIDE DEF Send
      <4> QED
        BY <1>1, <2>1, <3>3, Delivered
    <3>5. Single(ch, c)'
      <4>1. c \in r => \A i \in DOMAIN ch : c \notin ch[i]
        BY <1>2, CarriedOnly DEF InQueue
      <4>2. Single(Append(ch, r), c)
        BY <1>2, <2>0, <4>1, SingleAppend DEF OnceAt
      <4> QED
        BY <3>1, <4>2 DEF Single
    <3> QED
      BY <2>0, <2>2, <3>4, <3>5 DEF OnceAt, Single, SingleReady
  <2>4. CASE ~HasRoom
    <3>1. dropped' = dropped \cup r /\ ch' = ch
      BY <1>4, <2>4
    <3>2. \A d : \A k, x : At(k, x, d)' /\ k # "task"
                              => At(k, x, d) \/ (Carries(t, d) /\ k = "lost" /\ x = Nobody)
      BY <1>2, <2>2, <3>1 DEF At, Ready, InQueue, Added, Lost
    <3>3. OnePlace(c)' /\ OnlyMade(c)'
      <4> HIDE DEF Send
      <4> QED
        BY <1>1, <2>1, <3>2, Delivered
    <3> QED
      BY <2>0, <2>2, <3>1, <3>3 DEF OnceAt, Single, SingleReady
  <2> QED
    BY <2>3, <2>4
<1> QED
  BY <1>3, <1>4

LEMMA CountOnce == ASSUME IInv, OnceOK, NEW t \in Tasks, Count(t) PROVE OnceOK'
<1> USE DEF Count, flags, channel, closer, used
<1>0. doing[t].batch \in Batches /\ doing[t].call \in CallNumbers
  BY DEF IInv, EmitterOK, Steps
<1> PICK b \in Batches, n \in CallNumbers : b = doing[t].batch /\ n = doing[t].call
  BY <1>0
<1>1. \A c : Made(c) => Made(c)'
  BY DEF Made
<1>2. Carries(t, n)
  BY DEF Carries
<1>3. \A u \in Tasks : \A d : Carries(u, d)' => Carries(u, d) /\ u # t
  BY DEF IInv, EmitterOK, Carries, Idle
<1>4. UNCHANGED <<ch, ready, added, dropped, refused>>
  OBVIOUS
<1>5. \A x \in Batches : \A d : d \in counts'[x] => d \in counts[x] \/ (d = n /\ x = b)
  BY DEF IInv, EmitterOK
<1>6. \A d : \A k, x : At(k, x, d)' /\ k # "task"
                          => At(k, x, d) \/ (Carries(t, d) /\ k = "count" /\ x = b)
  BY <1>2, <1>4, <1>5 DEF At, Ready, InQueue, Added, Lost
<1>7. \A c : OnePlace(c)' /\ OnlyMade(c)'
  BY <1>1, <1>3, <1>6, Delivered
<1> QED
  BY <1>4, <1>7 DEF OnceOK, OnceAt, Single, SingleReady

LEMMA DrainLockOnce == ASSUME IInv, OnceOK, DrainLock PROVE OnceOK'
<1> USE DEF DrainLock, emitter, flags, channel, batching, closer, used
<1> DEFINE r == doing[Drain].record
<1>1. \A c : Made(c) => Made(c)'
  BY DEF Made
<1>2. Drain \in Tasks /\ r \in SUBSET CallNumbers /\ added \in Seq(SUBSET CallNumbers)
      /\ \A c : c \in r <=> Carries(Drain, c)
  BY Distinct DEF IInv, EmitterOK, Steps, Carries
<1>3. \A u \in Tasks : \A d : Carries(u, d)' => Carries(u, d) /\ u # Drain
  BY <1>2 DEF IInv, EmitterOK, Carries, Idle
<1>4. UNCHANGED <<ch, counts, ready, dropped, refused>> /\ added' = Append(added, r)
  OBVIOUS
<1>5. \A d : d \in Added' => d \in Added \/ d \in r
  BY <1>2, <1>4, InAppend DEF Added
<1>6. \A d : \A k, x : At(k, x, d)' /\ k # "task"
                          => At(k, x, d) \/ (Carries(Drain, d) /\ k = "added" /\ x = Nobody)
  BY <1>2, <1>4, <1>5 DEF At, Ready, InQueue, Lost
<1> SUFFICES ASSUME NEW c PROVE OnceAt(c)'
  BY DEF OnceOK
<1>7. OnePlace(c)' /\ OnlyMade(c)'
  <2> HIDE DEF DrainLock
  <2>1. Drain \in Tasks
    BY Distinct
  <2> QED
    BY <1>1, <1>3, <1>6, <2>1, Delivered
<1>8. Single(added, c)'
  <2>1. c \in r => \A i \in DOMAIN added : c \notin added[i]
    BY <1>2, CarriedOnly DEF Added
  <2>2. Single(Append(added, r), c)
    BY <1>2, <2>1, SingleAppend DEF OnceOK, OnceAt
  <2> QED
    BY <1>4, <2>2 DEF Single
<1> QED
  BY <1>4, <1>7, <1>8 DEF OnceOK, OnceAt, Single, SingleReady


\* The head of the channel, or of the counts that were taken, leaves.
LEMMA QueueTail ==
    ASSUME ch \in Seq(SUBSET CallNumbers), ch # <<>>, ch' = Tail(ch), NEW c, Single(ch, c)
    PROVE  /\ Single(ch, c)'
           /\ InQueue(c)' => InQueue(c)
           /\ c \in Head(ch) => InQueue(c) /\ ~InQueue(c)'
<1>1. /\ 1 \in DOMAIN ch /\ Head(ch) = ch[1]
      /\ \A i \in DOMAIN ch' : i \in Nat \ {0} /\ i + 1 \in DOMAIN ch /\ ch'[i] = ch[i + 1]
  BY TailParts
<1>2. \A i \in DOMAIN ch' : i \in Nat /\ i # 0 /\ i + 1 # 1
  BY <1>1
<1>3. InQueue(c)' => InQueue(c)
  BY <1>1 DEF InQueue
<1>4. ASSUME c \in Head(ch) PROVE InQueue(c) /\ ~InQueue(c)'
  BY <1>1, <1>2, <1>4 DEF InQueue, Single
<1>5. ASSUME NEW i \in DOMAIN ch', NEW j \in DOMAIN ch', c \in ch'[i], c \in ch'[j]
      PROVE  i = j
  <2>1. i + 1 = j + 1
    BY <1>1, <1>5 DEF Single
  <2> QED
    BY <1>2, <2>1
<1>6. Single(ch, c)'
  BY <1>5 DEF Single
<1> QED
  BY <1>3, <1>4, <1>6

LEMMA ReadyTail ==
    ASSUME ready \in Seq([group : Group, record : SUBSET CallNumbers]), ready # <<>>,
           ready' = Tail(ready), NEW c, SingleReady(c)
    PROVE  /\ SingleReady(c)'
           /\ Ready(c)' => Ready(c)
           /\ c \in Head(ready).record => Ready(c) /\ ~Ready(c)'
<1>1. /\ 1 \in DOMAIN ready /\ Head(ready) = ready[1]
      /\ \A i \in DOMAIN ready' :
            i \in Nat \ {0} /\ i + 1 \in DOMAIN ready /\ ready'[i] = ready[i + 1]
  BY TailParts
<1>2. \A i \in DOMAIN ready' : i \in Nat /\ i # 0 /\ i + 1 # 1
  BY <1>1
<1>3. Ready(c)' => Ready(c)
  BY <1>1 DEF Ready
<1>4. ASSUME c \in Head(ready).record PROVE Ready(c) /\ ~Ready(c)'
  BY <1>1, <1>2, <1>4 DEF Ready, SingleReady
<1>5. ASSUME NEW i \in DOMAIN ready', NEW j \in DOMAIN ready',
             c \in ready'[i].record, c \in ready'[j].record
      PROVE  i = j
  <2>1. i + 1 = j + 1
    BY <1>1, <1>5 DEF SingleReady
  <2> QED
    BY <1>2, <2>1
<1>6. SingleReady(c)'
  BY <1>5 DEF SingleReady
<1> QED
  BY <1>3, <1>4, <1>6

LEMMA ReceiveOnce == ASSUME IInv, OnceOK, Receive PROVE OnceOK'
<1> USE DEF Receive, emitter, flags, channel, batching, closer, history, used, fates
<1>1. Drain \in Tasks /\ ch \in Seq(SUBSET CallNumbers) /\ doing \in [Tasks -> Steps]
  BY Distinct DEF IInv, EmitterOK
<1>2. \A c : ~Carries(Drain, c)
  BY DEF Free, Idle, Carries
<1>3. \A u \in Tasks : \A d : Carries(u, d)' => Carries(u, d) \/ (u = Drain /\ d \in Head(ch))
  BY <1>1 DEF Carries
<1>4. UNCHANGED <<counts, ready, added, dropped, refused>>
  OBVIOUS
<1> SUFFICES ASSUME NEW c PROVE OnceAt(c)'
  BY DEF OnceOK
<1>5. OnceAt(c) /\ (Made(c) => Made(c)')
  BY DEF OnceOK, Made
<1>6. /\ Single(ch, c)'
      /\ InQueue(c)' => InQueue(c)
      /\ c \in Head(ch) => InQueue(c) /\ ~InQueue(c)'
  BY <1>1, <1>5, QueueTail DEF OnceAt
<1>7. \A k, x : At(k, x, c)'
                   => At(k, x, c) \/ (c \in Head(ch) /\ k = "task" /\ x = Drain)
  BY <1>3, <1>4, <1>6 DEF At, Ready, Added, Lost
<1>8. OnePlace(c)' /\ OnlyMade(c)'
  <2>1. CASE c \in Head(ch)
    <3>1. Leaves(c, "queue", Nobody)
      BY <1>6, <2>1 DEF At, Leaves
    <3>2. Enters(c, "task", Drain)
      BY <1>7 DEF Enters
    <3> QED
      BY <1>5, <3>1, <3>2, Moves
  <2>2. CASE c \notin Head(ch)
    BY <1>5, <1>7, <2>2, Stays
  <2> QED
    BY <2>1, <2>2
<1> QED
  BY <1>4, <1>5, <1>6, <1>8 DEF OnceAt, Single, SingleReady

LEMMA EmitReadyOnce == ASSUME IInv, OnceOK, EmitReady PROVE OnceOK'
<1> USE DEF EmitReady, flags, channel, closer, used
<1> DEFINE r == Head(ready).record
<1>1. /\ BatchLoop \in Tasks /\ doing \in [Tasks -> Steps]
      /\ ready \in Seq([group : Group, record : SUBSET CallNumbers])
  BY Distinct DEF IInv, EmitterOK
<1>2. \A c : ~Carries(BatchLoop, c)
  BY DEF Free, Idle, Carries
<1>3. UNCHANGED <<counts, ch, added, dropped>>
  OBVIOUS
<1> SUFFICES ASSUME NEW c PROVE OnceAt(c)'
  BY DEF OnceOK
<1>4. OnceAt(c) /\ (Made(c) => Made(c)')
  BY DEF OnceOK, Made
<1>5. /\ SingleReady(c)'
      /\ Ready(c)' => Ready(c)
      /\ c \in r => Ready(c) /\ ~Ready(c)'
  BY <1>1, <1>4, ReadyTail DEF OnceAt
<1>6. c \in r => Leaves(c, "ready", Nobody)
  BY <1>5 DEF At, Leaves
<1>7. PICK l, y : Enters(c, l, y) /\ (c \notin r => \A k, x : At(k, x, c)' => At(k, x, c))
  <2>1. CASE Admitted(Head(ready).group, NoDB)
    <3>1. doing' = [doing EXCEPT ![BatchLoop] = Sends(r)] /\ refused' = refused
      BY <2>1
    <3>2. \A u \in Tasks : Carries(u, c)' => Carries(u, c) \/ (u = BatchLoop /\ c \in r)
      BY <1>1, <3>1 DEF Carries, Sends
    <3>3. \A k, x : At(k, x, c)' => At(k, x, c) \/ (c \in r /\ k = "task" /\ x = BatchLoop)
      BY <1>3, <1>5, <3>1, <3>2 DEF At, InQueue, Added, Lost
    <3>4. Enters(c, "task", BatchLoop)
      BY <3>3 DEF Enters
    <3> QED
      BY <3>3, <3>4
  <2>2. CASE ~Admitted(Head(ready).group, NoDB)
    <3>1. doing' = doing /\ refused' = refused \cup r
      BY <2>2
    <3>2. \A k, x : At(k, x, c)' => At(k, x, c) \/ (c \in r /\ k = "lost" /\ x = Nobody)
      BY <1>3, <1>5, <3>1 DEF At, Carries, InQueue, Added, Lost
    <3>3. Enters(c, "lost", Nobody)
      BY <3>2 DEF Enters
    <3> QED
      BY <3>2, <3>3
  <2> QED
    BY <2>1, <2>2
<1>8. OnePlace(c)' /\ OnlyMade(c)'
  <2>1. CASE c \in r
    BY <1>4, <1>6, <1>7, <2>1, Moves
  <2>2. CASE c \notin r
    BY <1>4, <1>7, <2>2, Stays
  <2> QED
    BY <2>1, <2>2
<1> QED
  BY <1>3, <1>4, <1>5, <1>8 DEF OnceAt, Single

\* Each batch whose count is taken is made ready once.
LEMMA OrderInjective ==
    ASSUME NEW bs, IsFiniteSet(bs), NEW order \in [1..Cardinality(bs) -> bs],
           \A b \in bs : \E i \in DOMAIN order : order[i] = b,
           NEW i \in DOMAIN order, NEW j \in DOMAIN order, order[i] = order[j]
    PROVE  i = j
<1> DEFINE n == Cardinality(bs)
<1>1. n \in Nat
  BY FS_CardinalityType
<1>2. IsFiniteSet(1..n) /\ Cardinality(1..n) = n
  BY <1>1, FS_Interval
<1>3. order \in Surjection(1..n, bs)
  BY DEF Surjection
<1>4. order \in Injection(1..n, bs)
  BY <1>2, <1>3, FS_SurjSameCardinalityImpliesInj
<1> QED
  BY <1>4 DEF Injection, IsInjective

LEMMA TakeCountsOnce ==
    ASSUME IInv, OnceOK, NEW bs \in SUBSET Counted, NEW force, TakeCounts(bs, force)
    PROVE  OnceOK'
<1> USE DEF TakeCounts, flags, channel, closer, history, used, fates
<1>1. bs \in SUBSET Batches /\ IsFiniteSet(bs)
  BY FS_Subset DEF Counted
<1>2. PICK order \in [1..Cardinality(bs) -> bs] :
         /\ \A b \in bs : \E i \in DOMAIN order : order[i] = b
         /\ ready' = [i \in DOMAIN order |-> [group |-> BatchGroup[order[i]],
                                            record |-> counts[order[i]]]]
  OBVIOUS
<1>3. /\ DOMAIN ready' = DOMAIN order
      /\ \A i \in DOMAIN order : order[i] \in bs /\ ready'[i].record = counts[order[i]]
  BY <1>2
<1>4. \A b \in Batches : counts'[b] = IF b \in bs THEN {} ELSE counts[b]
  BY DEF AfterFlush
<1>5. UNCHANGED <<doing, ch, added, dropped, refused>> /\ ready = <<>>
  OBVIOUS
<1> SUFFICES ASSUME NEW c PROVE OnceAt(c)'
  BY DEF OnceOK
<1>6. OnceAt(c) /\ (Made(c) => Made(c)')
  BY DEF OnceOK, Made
<1>7. Ready(c)' => \E b \in bs : c \in counts[b]
  BY <1>3 DEF Ready
<1>8. \A k, x : At(k, x, c)' => \/ At(k, x, c)
                                \/ k = "ready" /\ x = Nobody /\ \E b \in bs : c \in counts[b]
  BY <1>4, <1>5, <1>7 DEF At, Carries, InQueue, Added, Lost
<1>9. OnePlace(c)' /\ OnlyMade(c)'
  <2>1. CASE \E b \in bs : c \in counts[b]
    <3>1. PICK b \in bs : c \in counts[b]
      BY <2>1
    <3>2. Leaves(c, "count", b)
      BY <1>1, <1>4, <3>1 DEF At, Leaves
    <3>3. Enters(c, "ready", Nobody)
      BY <1>8 DEF Enters
    <3> QED
      BY <1>6, <3>2, <3>3, Moves
  <2>2. CASE ~\E b \in bs : c \in counts[b]
    BY <1>6, <1>8, <2>2, Stays
  <2> QED
    BY <2>1, <2>2
<1>10. SingleReady(c)'
  <2> SUFFICES ASSUME NEW i \in DOMAIN ready', NEW j \in DOMAIN ready',
                      c \in ready'[i].record, c \in ready'[j].record
               PROVE  i = j
    BY DEF SingleReady
  <2>1. At("count", order[i], c) /\ At("count", order[j], c)
    BY <1>1, <1>3 DEF At
  <2>2. order[i] = order[j]
    BY <1>6, <2>1 DEF OnceAt, OnePlace
  <2> QED
    <3>1. IsFiniteSet(bs) /\ \A b \in bs : \E l \in DOMAIN order : order[l] = b
      BY <1>1, <1>2
    <3>2. i \in DOMAIN order /\ j \in DOMAIN order
      BY <1>3
    <3> HIDE DEF TakeCounts
    <3> QED
      BY <2>2, <3>1, <3>2, OrderInjective
<1> QED
  BY <1>5, <1>6, <1>9, <1>10 DEF OnceAt, Single

\* The steps that leave the emitter's records alone.
LEMMA OtherOnce ==
    ASSUME IInv, OnceOK, \/ \E t \in Tasks : Lock(t) \/ Unlock(t)
                         \/ DrainExit \/ BatchExit \/ UNCHANGED emitVars
    PROVE  OnceOK'
<1> USE DEF Lock, Unlock, DrainExit, BatchExit, emitVars, emitter, flags, channel, batching,
            closer, history, used, fates
<1>1. UNCHANGED Elsewhere
  BY DEF Elsewhere
<1>2. doing' = doing /\ emits' = emits /\ closing' = closing
  OBVIOUS
<1>3. \A t \in Tasks : \A c : Carries(t, c)' => Carries(t, c)
  BY <1>2 DEF Carries
<1>4. \A c : Made(c) => Made(c)'
  BY <1>2 DEF Made
<1> QED
  BY <1>1, <1>3, <1>4, NoMove

LEMMA NextOnce == IInv /\ OnceOK /\ [Next]_vars => OnceOK'
<1> SUFFICES ASSUME IInv, OnceOK, [Next]_vars PROVE OnceOK'
  OBVIOUS
<1>1. CASE \E t \in Tasks, g \in Group, db \in Subject \cup {NoDB} : Emit(t, g, db)
  BY <1>1, EmitOnce
<1>2. CASE \E t \in Tasks, b \in Batches, db \in Subject : EmitBatched(t, b, db)
  BY <1>2, EmitBatchedOnce
<1>3. CASE \E t \in Tasks : Send(t) \/ Count(t)
  BY <1>3, SendOnce, CountOnce
<1>4. CASE \E t \in Tasks, g \in Group : ToggleLoad(t, g) \/ ToggleStore(t)
  BY <1>4, ToggleOnce
<1>5. CASE \/ \E t \in Tasks : Lock(t) \/ Unlock(t)
           \/ DrainExit \/ BatchExit \/ UNCHANGED emitVars
  BY <1>5, OtherOnce
<1>6. CASE Receive \/ DrainLock \/ EmitReady
  BY <1>6, ReceiveOnce, DrainLockOnce, EmitReadyOnce
<1>7. CASE Tick
  <2>1. PICK bs \in SUBSET Counted : bs # {} /\ TakeCounts(bs, FALSE)
    BY <1>7 DEF Tick
  <2> QED
    BY <2>1, TakeCountsOnce
<1>8. CASE FinalFlush
  BY <1>8, TakeCountsOnce DEF FinalFlush
<1>9. CASE CloseBegins \/ StopBatches \/ MarkStopped \/ CloseChannel \/ CloseLocks \/ Closed
  BY <1>9, CloseOnce DEF Closed
<1>10. CASE EngineNext
  <2>1. Clients \ {Worker} \subseteq Tasks /\ LifecycleGroup \in Group
    BY Distinct
  <2>2. CASE \E t \in Clients \ {Worker} : ToggleStore(t)
    BY <1>4, <2>1, <2>2
  <2> QED
    BY <1>1, <1>2, <1>3, <1>4, <1>5, <1>6, <1>7, <1>8, <1>9, <1>10, <2>1, <2>2 DEF EngineNext
<1>11. CASE WorkerRetries \/ WorkerSession \/ WorkerRefused \/ WorkerWrites \/ Pinger \/ StopMQTT
  <2>1. UNCHANGED emitVars \/ Emit(Worker, MQTTGroup, NoDB) \/ Lock(Worker)
    BY <1>11 DEF WorkerRetries, WorkerSession, WorkerRefused, WorkerWrites, Pinger, StopMQTT, Tell
  <2> QED
    BY <1>1, <1>5, <2>1, Distinct
<1>12. CASE UNCHANGED vars
  BY <1>5, <1>12 DEF vars
<1> QED
  BY <1>10, <1>11, <1>12 DEF Next

\* No call is reported by two records that were given to AddEvent, nor by one that was and
\* as lost: the counts that flushBatches takes while tasks go on counting leave the batches
\* in the same step, and a record leaves the channel for the drain alone.
THEOREM CallsReportedOnce == Spec => []ReportedOnce
<1>1. IInv /\ OnceOK => ReportedOnce
  <2> SUFFICES ASSUME OnceOK PROVE ReportedOnce
    OBVIOUS
  <2>1. ASSUME NEW i \in DOMAIN added, NEW j \in DOMAIN added, i # j
        PROVE  added[i] \cap added[j] = {}
    BY <2>1 DEF OnceOK, OnceAt, Single
  <2>2. ASSUME NEW c, c \in Added, c \in dropped \cup refused PROVE FALSE
    <3>1. At("added", Nobody, c) /\ At("lost", Nobody, c)
      BY <2>2 DEF At, Lost
    <3> QED
      BY <3>1 DEF OnceOK, OnceAt, OnePlace
  <2> QED
    BY <2>1, <2>2 DEF ReportedOnce
<1>2. Spec => [](IInv /\ OnceOK)
  <2>1. Init => IInv /\ OnceOK
    BY InitOK, InitOnce
  <2>2. IInv /\ OnceOK /\ [Next]_vars => (IInv /\ OnceOK)'
    BY NextOK, NextOnce
  <2> QED
    BY <2>1, <2>2, PTL DEF Spec
<1> QED
  BY <1>1, <1>2, PTL
=============================================================================
