-------------------------- MODULE RingBufferProofs --------------------------
(***************************************************************************)
(* Theorems about RingBuffer with one producer, for every Capacity and     *)
(* every IndexMod, proved with TLAPS.                                      *)
(***************************************************************************)
EXTENDS RingBuffer, SequenceTheorems, TLAPS

USE RingAssumption

-----------------------------------------------------------------------------
(* Arithmetic. *)

(* What the proofs use of IndexMod where they need not know it is a product. *)
LEMMA IndexModType ==
    /\ IndexMod \in Nat
    /\ IndexMod > Capacity + 1
    /\ Capacity \in Nat
    /\ Capacity > 0
BY DEF IndexMod

LEMMA IndexArith ==
    /\ 0 \in Index
    /\ \A i \in Index : Inc(i) \in Index
    /\ \A i, j \in Index : Diff(i, j) \in 0 .. IndexMod - 1
    /\ \A i \in Index : Diff(i, i) = 0
    /\ \A i, j \in Index : Diff(i, j) = 0 => i = j
    /\ \A i, j \in Index : i # j => Diff(i, Inc(j)) = Diff(i, j) - 1
    /\ \A i, j \in Index : Inc(i) # j => Diff(Inc(i), j) = Diff(i, j) + 1
BY IndexModType DEF Index, Inc, Diff

LEMMA DiffInjective ==
    ASSUME NEW t \in Index, NEW i \in Index, NEW j \in Index, Diff(t, i) = Diff(t, j)
    PROVE  i = j
BY IndexModType DEF Index, Diff

(* The room seen from an old head is there from the head as it is now. *)
LEMMA RoomLeft ==
    ASSUME NEW t \in Index, NEW h \in Index, NEW old \in Index,
           Diff(t, h) <= Diff(t, old), HasRoom(t, old), Diff(t, old) <= Capacity
    PROVE  Diff(t, h) < Capacity
BY IndexModType DEF Index, Diff, Inc, HasRoom

(* A multiple of Capacity strictly between -Capacity and Capacity is zero. *)
LEMMA SmallMultiple ==
    ASSUME NEW k \in Int, -Capacity < Capacity * k, Capacity * k < Capacity
    PROVE  k = 0
<1>1. CASE k >= 1
  <2>1. Capacity * k >= Capacity
    BY <1>1, IndexModType
  <2> QED BY <2>1, IndexModType
<1>2. CASE k <= -1
  <2>1. Capacity * k <= -Capacity
    BY <1>2, IndexModType
  <2> QED BY <2>1, IndexModType
<1> QED BY <1>1, <1>2

(* The mask: an index is a whole number of laps and its slot. *)
LEMMA SlotLap ==
    ASSUME NEW i \in Int
    PROVE  /\ Slot(i) \in 0 .. Capacity - 1
           /\ \E q \in Int : i = Capacity * q + Slot(i)
<1>1. i % Capacity \in 0 .. Capacity - 1
  BY IndexModType
<1>2. i = Capacity * (i \div Capacity) + (i % Capacity) /\ i \div Capacity \in Int
  BY IndexModType
<1> QED BY <1>1, <1>2 DEF Slot

LEMMA SlotRange == \A i \in Index : Slot(i) \in 0 .. Capacity - 1
<1> TAKE i \in Index
<1>1. i \in Int
  BY IndexModType DEF Index
<1> QED BY <1>1, SlotLap

(* Two indices less than Capacity apart have different slots: what makes a *)
(* ring of Capacity slots hold Capacity items, across the wrap as well.    *)
LEMMA SlotInjective ==
    ASSUME NEW i \in Index, NEW j \in Index, i # j, Diff(i, j) < Capacity
    PROVE  Slot(i) # Slot(j)
<1> SUFFICES ASSUME Slot(i) = Slot(j) PROVE FALSE
  OBVIOUS
<1>1. i \in Int /\ j \in Int
  BY IndexModType DEF Index
<1>2. PICK a \in Int : i = Capacity * a + Slot(i)
  BY <1>1, SlotLap
<1>3. PICK b \in Int : j = Capacity * b + Slot(j)
  BY <1>1, SlotLap
<1>4. Slot(i) \in Int
  BY <1>1, SlotLap, IndexModType
<1>5. i - j = Capacity * (a - b)
  <2>1. Capacity * (a - b) = Capacity * a - Capacity * b
    BY IndexModType
  <2>2. Capacity * a \in Int /\ Capacity * b \in Int
    BY IndexModType
  <2> QED BY <1>2, <1>3, <1>4, <2>1, <2>2
<1>6. CASE i >= j
  <2>1. i - j < Capacity /\ i - j > 0
    BY <1>6, IndexModType DEF Diff, Index
  <2>2. a - b = 0
    BY <2>1, <1>5, SmallMultiple, IndexModType
  <2> QED BY <2>1, <2>2, <1>5, IndexModType
<1>7. CASE i < j
  <2>1. i - j + IndexMod < Capacity /\ i - j + IndexMod > 0
    BY <1>7, IndexModType DEF Diff, Index
  <2>2. i - j + IndexMod = Capacity * (a - b + Laps)
    <3>1. Capacity * (a - b + Laps) = Capacity * (a - b) + Capacity * Laps
      OBVIOUS
    <3> QED BY <1>5, <3>1 DEF IndexMod
  <2>3. a - b + Laps = 0
    BY <2>1, <2>2, SmallMultiple, IndexModType
  <2> QED BY <2>1, <2>2, <2>3, IndexModType
<1> QED BY <1>1, <1>6, <1>7

-----------------------------------------------------------------------------
(* The inductive invariant. *)

(* What a load returns lies between what was seen and what is stored. *)
LEMMA SeenBetween ==
    ASSUME NEW old \in Index, NEW now \in Index, NEW i \in SeenSince(old, now),
           NEW t \in Index, Diff(t, now) <= Diff(t, old)
    PROVE  /\ i \in Index
           /\ Diff(now, i) <= Diff(now, old)
           /\ Diff(t, i) <= Diff(t, old)
           /\ Diff(t, now) <= Diff(t, i)
<1>1. PICK k \in 0 .. Diff(now, old) : i = Plus(old, k)
  BY DEF SeenSince
<1>2. Diff(now, old) \in Nat
  BY IndexArith, IndexModType
<1> QED BY <1>1, <1>2, IndexModType DEF Diff, Plus, Index

(* Every variable keeps its type; by itself it is inductive. *)
LEMMA TypeInvariance == TypeOK /\ [Next]_vars => TypeOK'
<1> SUFFICES ASSUME TypeOK, [Next]_vars PROVE TypeOK'
  OBVIOUS
<1> USE IndexArith DEF TypeOK
<1>1. \A i \in Index : Slot(i) \in 0 .. Capacity - 1
  BY SlotRange
<1>2. ASSUME NEW p \in Producers, NEW x \in Items, PushStart(p, x) PROVE TypeOK'
  BY <1>2 DEF PushStart, consumerVars
<1>3. ASSUME NEW p \in Producers, NEW h \in Index, PushCheck(p, h) PROVE TypeOK'
  BY <1>3 DEF PushCheck, consumerVars
<1>4. ASSUME NEW p \in Producers, PushWrite(p) PROVE TypeOK'
  BY <1>1, <1>4 DEF PushWrite, consumerVars
<1>5. ASSUME NEW p \in Producers, PushPublish(p) PROVE TypeOK'
  BY <1>5 DEF PushPublish, consumerVars
<1>6. ASSUME NEW t \in Index, PopCheck(t) PROVE TypeOK'
  BY <1>6 DEF PopCheck, producerVars
<1>7. CASE PopRead
  BY <1>1, <1>7 DEF PopRead, producerVars
<1>8. CASE PopRelease
  BY <1>8 DEF PopRelease, producerVars
<1>9. CASE UNCHANGED vars
  BY <1>9 DEF vars, producerVars, consumerVars
<1> QED BY <1>2, <1>3, <1>4, <1>5, <1>6, <1>7, <1>8, <1>9 DEF Next, Push, Pop

LEMMA InitInv == Init => IndInv
<1> SUFFICES ASSUME Init PROVE IndInv
  OBVIOUS
<1>1. TypeOK
  BY IndexArith DEF Init, TypeOK
<1>2. IndicesOK /\ \A p \in Producers : ProducerOK(p)
  BY IndexArith, IndexModType DEF Init, IndicesOK, ProducerOK
<1> QED BY <1>1, <1>2 DEF IndInv

(* With one producer, nobody but it moves tail: each step of the producer  *)
(* and each step of the consumer keeps the indices in order.               *)
LEMMA StepInv ==
    ASSUME NEW me, Producers = {me}, IndInv, [Next]_vars
    PROVE  IndInv'
<1>1. TypeOK /\ TypeOK' /\ IndicesOK /\ ProducerOK(me)
  BY TypeInvariance DEF IndInv
<1> SUFFICES IndicesOK' /\ ProducerOK(me)'
  BY <1>1 DEF IndInv
<1> USE IndexArith, <1>1
<1>2. /\ head \in Index /\ tail \in Index /\ tailSeen \in Index
      /\ headSeen[me] \in Index /\ ptail[me] \in Index
  BY DEF TypeOK
<1>3. ASSUME NEW x \in Items, PushStart(me, x) PROVE IndicesOK' /\ ProducerOK(me)'
  BY <1>3 DEF PushStart, consumerVars, IndicesOK, ProducerOK, TypeOK, HasRoom
<1>4. ASSUME NEW h \in Index, PushCheck(me, h) PROVE IndicesOK' /\ ProducerOK(me)'
  <2>1. /\ Diff(tail, h) <= Diff(tail, headSeen[me])
        /\ Diff(tail, head) <= Diff(tail, h)
    BY <1>2, <1>4, SeenBetween DEF PushCheck, ProducerOK
  <2>2. IndicesOK'
    BY <1>4 DEF PushCheck, consumerVars, IndicesOK
  <2>3. headSeen'[me] = h /\ ptail'[me] = tail
    BY <1>4 DEF PushCheck, TypeOK
  <2>4. ppc'[me] # "publish" /\ (ppc'[me] = "write" => HasRoom(tail, h))
    BY <1>4 DEF PushCheck, TypeOK
  <2>5. Diff(tail, h) <= Capacity
    BY <1>2, <2>1, IndexModType DEF ProducerOK
  <2>6. UNCHANGED <<head, tail, pitem>> /\ ppc[me] = "check"
    BY <1>4 DEF PushCheck
  <2>7. ProducerOK(me)'
    BY <2>1, <2>3, <2>4, <2>5, <2>6 DEF ProducerOK, HasRoom
  <2> QED BY <2>2, <2>7
<1>5. CASE PushWrite(me)
  BY <1>2, <1>5, SlotRange DEF PushWrite, consumerVars, IndicesOK, ProducerOK, TypeOK, HasRoom
<1>6. CASE PushPublish(me)
  <2>1. ptail[me] = tail /\ Diff(Inc(tail), headSeen[me]) <= Capacity
    BY <1>6 DEF PushPublish, ProducerOK, HasRoom
  <2>2. /\ tail' = Inc(tail) /\ ppc' = [ppc EXCEPT ![me] = "idle"] /\ ppc'[me] = "idle"
        /\ UNCHANGED <<head, headSeen, cpc, tailSeen>>
    BY <1>6, <2>1 DEF PushPublish, consumerVars, TypeOK
  <2>3. /\ Diff(Inc(tail), head) <= Diff(Inc(tail), headSeen[me])
        /\ Diff(Inc(tail), tailSeen) <= Diff(Inc(tail), head)
    BY <1>2, <2>1, IndexModType DEF IndicesOK, ProducerOK, Diff, Inc, Index
  <2>4. Diff(Inc(tail), head) <= Capacity
    BY <1>2, <2>1, <2>3, IndexModType
  <2> QED BY <2>1, <2>2, <2>3, <2>4 DEF IndicesOK, ProducerOK
<1>7. ASSUME NEW t \in Index, PopCheck(t) PROVE IndicesOK' /\ ProducerOK(me)'
  <2>1. Diff(tail, t) <= Diff(tail, head)
    <3>1. Diff(tail, t) <= Diff(tail, tailSeen)
      BY <1>2, <1>7, SeenBetween DEF PopCheck
    <3> QED BY <1>2, <3>1, IndexModType DEF IndicesOK
  <2>2. IndicesOK'
    BY <1>7, <2>1 DEF PopCheck, producerVars, IndicesOK
  <2>3. ProducerOK(me)'
    BY <1>7 DEF PopCheck, producerVars, ProducerOK, HasRoom
  <2> QED BY <2>2, <2>3
<1>8. CASE PopRead
  BY <1>8 DEF PopRead, producerVars, IndicesOK, ProducerOK, HasRoom
<1>9. CASE PopRelease
  <2>1. /\ head' = Inc(head) /\ cpc' = "check" /\ tailSeen # head
        /\ UNCHANGED <<tail, buffer, ppc, pitem, ptail, headSeen, tailSeen>>
    BY <1>9 DEF PopRelease, producerVars, IndicesOK
  <2>2. tail # head
    BY <1>2, <2>1, IndexModType DEF IndicesOK
  <2>3. Diff(tail, Inc(head)) = Diff(tail, head) - 1
    BY <1>2, <2>2
  <2>4. Diff(tail, tailSeen) < Diff(tail, head)
    <3>1. Diff(tail, tailSeen) # Diff(tail, head)
      BY <1>2, <2>1, DiffInjective
    <3> QED BY <1>2, <3>1, IndexModType DEF IndicesOK
  <2> QED BY <1>2, <2>1, <2>3, <2>4, IndexModType DEF IndicesOK, ProducerOK, HasRoom
<1>10. CASE UNCHANGED vars
  BY <1>10 DEF vars, producerVars, consumerVars, IndicesOK, ProducerOK, HasRoom
<1> QED BY <1>3, <1>4, <1>5, <1>6, <1>7, <1>8, <1>9, <1>10 DEF Next, Push, Pop

THEOREM Invariance ==
    ASSUME NEW me, Producers = {me}
    PROVE  Spec => []IndInv
<1>1. Init => IndInv
  BY InitInv
<1>2. IndInv /\ [Next]_vars => IndInv'
  BY StepInv
<1> QED BY <1>1, <1>2, PTL DEF Spec

(* Every variable keeps its type, with any number of producers. *)
THEOREM TypeCorrect == Spec => []TypeOK
<1>1. Init => TypeOK
  BY IndexArith DEF Init, TypeOK
<1>2. TypeOK /\ [Next]_vars => TypeOK'
  BY TypeInvariance
<1> QED BY <1>1, <1>2, PTL DEF Spec

(* With one producer no slot is written while it is read: the slot at tail *)
(* is not the slot at head as long as the ring was seen to have room.      *)
THEOREM NoRace ==
    ASSUME NEW me, Producers = {me}
    PROVE  Spec => []NoSlotRace
<1>1. IndInv => NoSlotRace
  <2> SUFFICES ASSUME IndInv, ppc[me] = "write", cpc = "read"
               PROVE  Slot(head) # Slot(ptail[me])
    BY DEF NoSlotRace
  <2> USE IndexArith DEF IndInv
  <2>1. /\ head \in Index /\ tail \in Index /\ tailSeen \in Index
        /\ headSeen[me] \in Index
    BY DEF TypeOK
  <2>2. ptail[me] = tail /\ HasRoom(tail, headSeen[me])
    BY DEF ProducerOK
  <2>3. Diff(tail, head) < Capacity
    BY <2>1, <2>2, RoomLeft DEF ProducerOK
  <2>4. tail # head
    <3>1. tailSeen # head /\ Diff(tail, tailSeen) <= Diff(tail, head)
      BY DEF IndicesOK
    <3>2. Diff(tail, tailSeen) # Diff(tail, head)
      BY <2>1, <3>1, DiffInjective
    <3> QED BY <2>1, <3>1, <3>2, IndexModType
  <2> QED BY <2>1, <2>2, <2>3, <2>4, SlotInjective
<1> QED BY <1>1, Invariance, PTL

-----------------------------------------------------------------------------
(* The ring implements the bounded queue. *)

Entry == Items \cup {NoItem}

LEMMA FrontType ==
    ASSUME IndInv
    PROVE  /\ Front \in Index
           /\ Diff(tail, Front) \in Nat
           /\ Diff(tail, Front) <= Diff(tail, head)
           /\ cpc # "check" => Diff(tail, Inc(head)) = Diff(tail, head) - 1
<1> USE IndexArith, IndexModType DEF IndInv
<1>1. head \in Index /\ tail \in Index /\ tailSeen \in Index
  BY DEF TypeOK
<1>2. ASSUME cpc # "check" PROVE Diff(tail, Inc(head)) = Diff(tail, head) - 1
  <2>1. tailSeen # head /\ Diff(tail, tailSeen) <= Diff(tail, head)
    BY <1>2 DEF IndicesOK
  <2>2. Diff(tail, tailSeen) # Diff(tail, head)
    BY <1>1, <2>1, DiffInjective
  <2>3. tail # head
    BY <1>1, <2>1, <2>2
  <2> QED BY <1>1, <2>3
<1> QED BY <1>1, <1>2 DEF Front

(* The k-th index after Front is short of tail by the rest of the queue. *)
LEMMA WindowIndex ==
    ASSUME NEW f \in Index, NEW t \in Index, NEW k \in 1 .. Diff(t, f)
    PROVE  /\ Plus(f, k - 1) \in Index
           /\ Plus(f, k - 1) # t
           /\ Diff(t, Plus(f, k - 1)) <= Diff(t, f)
BY IndexModType DEF Index, Diff, Plus

LEMMA QueueType ==
    ASSUME IndInv
    PROVE  /\ Queue \in Seq(Entry)
           /\ Len(Queue) = Diff(tail, Front)
           /\ \A k \in 1 .. Diff(tail, Front) : Queue[k] = buffer[Slot(Plus(Front, k - 1))]
<1>1. Front \in Index /\ tail \in Index /\ Diff(tail, Front) \in Nat
  BY FrontType DEF IndInv, TypeOK
<1>2. \A k \in 1 .. Diff(tail, Front) : buffer[Slot(Plus(Front, k - 1))] \in Entry
  <2> TAKE k \in 1 .. Diff(tail, Front)
  <2>1. Slot(Plus(Front, k - 1)) \in 0 .. Capacity - 1
    BY <1>1, WindowIndex, SlotRange
  <2> QED BY <2>1 DEF IndInv, TypeOK, Entry
<1> QED BY <1>1, <1>2 DEF Queue

LEMMA QueueTypeNext == IndInv' => (Queue \in Seq(Entry) /\ Len(Queue) = Diff(tail, Front))'
<1>1. IndInv => Queue \in Seq(Entry) /\ Len(Queue) = Diff(tail, Front)
  BY QueueType
<1> QED BY <1>1, PTL

(* A step that moves neither the window nor its slots leaves the queue.    *)
LEMMA SameQueue ==
    ASSUME UNCHANGED <<tail, buffer>>, Front' = Front
    PROVE  Queue' = Queue
BY DEF Queue

LEMMA WriteOutside ==
    ASSUME NEW me, Producers = {me}, IndInv, PushWrite(me)
    PROVE  Queue' = Queue
<1>1. /\ Front \in Index /\ tail \in Index /\ head \in Index /\ headSeen[me] \in Index
      /\ Diff(tail, Front) \in Nat /\ Diff(tail, Front) <= Diff(tail, head)
  BY FrontType DEF IndInv, TypeOK
<1>2. ptail[me] = tail /\ HasRoom(tail, headSeen[me])
  BY DEF IndInv, ProducerOK, PushWrite
<1>3. Diff(tail, Front) < Capacity
  <2>1. Diff(tail, head) < Capacity
    BY <1>1, <1>2, RoomLeft DEF IndInv, ProducerOK
  <2> QED BY <1>1, <2>1, IndexArith, IndexModType
<1>4. UNCHANGED <<head, tail, cpc>> /\ Front' = Front
  BY DEF PushWrite, consumerVars, Front
<1>5. ASSUME NEW k \in 1 .. Diff(tail, Front)
      PROVE  buffer'[Slot(Plus(Front, k - 1))] = buffer[Slot(Plus(Front, k - 1))]
  <2> DEFINE i == Plus(Front, k - 1)
  <2>1. i \in Index /\ tail # i /\ Diff(tail, i) <= Diff(tail, Front)
    BY <1>1, WindowIndex
  <2>2. Diff(tail, i) < Capacity
    BY <1>1, <1>3, <2>1, IndexArith, IndexModType
  <2>3. Slot(tail) # Slot(i) /\ Slot(i) \in 0 .. Capacity - 1
    BY <1>1, <2>1, <2>2, SlotInjective, SlotRange
  <2> QED BY <1>2, <2>3 DEF PushWrite, IndInv, TypeOK
<1> QED BY <1>4, <1>5 DEF Queue

LEMMA PublishAppends ==
    ASSUME NEW me, Producers = {me}, IndInv, PushPublish(me), IndInv'
    PROVE  Abstract!Push(pitem[me]) /\ pitem[me] \in Items
<1>1. /\ Front \in Index /\ tail \in Index /\ head \in Index /\ headSeen[me] \in Index
      /\ Diff(tail, Front) \in Nat /\ Diff(tail, Front) <= Diff(tail, head)
  BY FrontType DEF IndInv, TypeOK
<1>2. /\ ptail[me] = tail /\ HasRoom(tail, headSeen[me])
      /\ pitem[me] \in Items /\ buffer[Slot(tail)] = pitem[me]
  BY DEF IndInv, ProducerOK, PushPublish
<1>3. Diff(tail, Front) < Capacity
  <2>1. Diff(tail, head) < Capacity
    BY <1>1, <1>2, RoomLeft DEF IndInv, ProducerOK
  <2> QED BY <1>1, <2>1, IndexArith, IndexModType
<1>4. tail' = Inc(tail) /\ UNCHANGED <<head, buffer, cpc, citem>> /\ Front' = Front
  BY <1>2 DEF PushPublish, consumerVars, Front
<1>5. Diff(tail', Front) = Diff(tail, Front) + 1
  BY <1>1, <1>3, <1>4, IndexModType DEF Index, Inc, Diff
<1>6. Plus(Front, Diff(tail, Front)) = tail
  BY <1>1, IndexModType DEF Index, Plus, Diff
<1>7. Queue' = Append(Queue, pitem[me])
  <2> DEFINE n == Diff(tail, Front)
  <2>1. n \in Nat /\ Queue \in Seq(Entry) /\ Len(Queue) = n
    BY <1>1, QueueType
  <2>2. Queue' \in Seq(Entry) /\ Len(Queue') = n + 1
    BY <1>4, <1>5, QueueTypeNext DEF Entry
  <2>3. Append(Queue, pitem[me]) \in Seq(Entry) /\ Len(Append(Queue, pitem[me])) = n + 1
    BY <1>2, <2>1 DEF Entry
  <2>4. ASSUME NEW k \in 1 .. n + 1
        PROVE  Queue'[k] = Append(Queue, pitem[me])[k]
    <3>1. Queue'[k] = buffer[Slot(Plus(Front, k - 1))]
      BY <1>4, <1>5 DEF Queue
    <3>2. CASE k \in 1 .. n
      BY <2>1, <3>1, <3>2, QueueType
    <3>3. CASE k = n + 1
      <4>1. k - 1 = n
        BY <2>1, <3>3
      <4> QED BY <1>2, <1>6, <2>1, <3>1, <3>3, <4>1
    <3> QED BY <2>1, <3>2, <3>3
  <2> QED BY <2>2, <2>3, <2>4, SeqEqual
<1>8. Len(Queue) < Capacity
  BY <1>3, QueueType
<1> QED BY <1>2, <1>4, <1>7, <1>8 DEF Abstract!Push

LEMMA ReadTakesHead ==
    ASSUME IndInv, PopRead, IndInv'
    PROVE  Abstract!Pop
<1>1. /\ head \in Index /\ tail \in Index /\ Front = head /\ Front' = Inc(head)
      /\ citem' = buffer[Slot(head)] /\ UNCHANGED <<head, tail, buffer>>
  BY DEF PopRead, producerVars, Front, IndInv, TypeOK
<1> DEFINE n == Diff(tail, head)
<1>2. n \in Nat /\ Diff(tail, Inc(head)) = n - 1 /\ Inc(head) \in Index
  BY <1>1, FrontType, IndexArith DEF PopRead
<1>3. n >= 1
  BY <1>1, <1>2, IndexArith, IndexModType
<1>4. Queue \in Seq(Entry) /\ Len(Queue) = n /\ Queue # <<>>
  BY <1>1, <1>2, <1>3, QueueType
<1>5. Head(Queue) = citem'
  <2>1. Plus(head, 1 - 1) = head
    BY <1>1, IndexModType DEF Index, Plus
  <2>2. Queue[1] = buffer[Slot(Plus(head, 1 - 1))]
    BY <1>1, <1>2, <1>3, QueueType
  <2> QED BY <1>1, <1>4, <2>1, <2>2
<1>6. Queue' = Tail(Queue)
  <2>1. Tail(Queue) \in Seq(Entry) /\ Len(Tail(Queue)) = n - 1
    BY <1>4, HeadTailProperties
  <2>2. Queue' = [k \in 1 .. n - 1 |-> buffer[Slot(Plus(Inc(head), k - 1))]]
    BY <1>1, <1>2 DEF Queue
  <2>3. ASSUME NEW k \in 1 .. n - 1
        PROVE  Plus(Inc(head), k - 1) = Plus(head, k) /\ Queue[k + 1] = buffer[Slot(Plus(head, k))]
    <3>1. Plus(Inc(head), k - 1) = Plus(head, k)
      BY <1>1, <1>2, IndexModType DEF Index, Plus, Inc, Diff
    <3>2. k + 1 \in 1 .. n /\ (k + 1) - 1 = k
      BY <1>2
    <3> QED BY <1>1, <3>1, <3>2, QueueType
  <2>4. ASSUME NEW k \in 1 .. n - 1 PROVE Queue'[k] = Tail(Queue)[k]
    BY <1>2, <1>4, <2>1, <2>2, <2>3, HeadTailProperties
  <2>5. Queue' \in Seq(Entry) /\ Len(Queue') = n - 1
    BY <1>1, <1>2, QueueTypeNext DEF Entry
  <2> QED BY <2>1, <2>4, <2>5, SeqEqual
<1> QED BY <1>4, <1>5, <1>6 DEF Abstract!Pop

(* With one producer every step of the ring is a push, a pop or no step at *)
(* all of the bounded queue.                                               *)
THEOREM Implements ==
    ASSUME NEW me, Producers = {me}
    PROVE  Spec => ImplementsQueue
<1>1. Init => Abstract!Init
  <2> SUFFICES ASSUME Init PROVE Queue = <<>> /\ citem = NoItem
    BY DEF Abstract!Init
  <2>1. Front = 0 /\ tail = 0 /\ Diff(0, 0) = 0
    BY IndexArith DEF Init, Front
  <2> QED BY <2>1 DEF Init, Queue
<1>2. IndInv /\ IndInv' /\ [Next]_vars => [Abstract!Next]_(Abstract!vars)
  <2> SUFFICES ASSUME IndInv, IndInv', [Next]_vars
               PROVE  Abstract!Next \/ (Queue' = Queue /\ citem' = citem)
    BY DEF Abstract!vars
  <2>1. ASSUME NEW x \in Items, PushStart(me, x) PROVE Queue' = Queue /\ citem' = citem
    BY <2>1, SameQueue DEF PushStart, consumerVars, Front
  <2>2. ASSUME NEW h \in Index, PushCheck(me, h) PROVE Queue' = Queue /\ citem' = citem
    BY <2>2, SameQueue DEF PushCheck, consumerVars, Front
  <2>3. CASE PushWrite(me)
    BY <2>3, WriteOutside DEF PushWrite, consumerVars
  <2>4. CASE PushPublish(me)
    BY <2>4, PublishAppends DEF Abstract!Next
  <2>5. ASSUME NEW t \in Index, PopCheck(t) PROVE Queue' = Queue /\ citem' = citem
    <3>1. Front' = Front /\ UNCHANGED <<tail, buffer, citem>>
      BY <2>5 DEF PopCheck, producerVars, Front
    <3> QED BY <3>1, SameQueue
  <2>6. CASE PopRead
    BY <2>6, ReadTakesHead DEF Abstract!Next
  <2>7. CASE PopRelease
    <3>1. Front' = Front /\ UNCHANGED <<tail, buffer, citem>>
      BY <2>7 DEF PopRelease, producerVars, Front
    <3> QED BY <3>1, SameQueue
  <2>8. CASE UNCHANGED vars
    BY <2>8, SameQueue DEF vars, producerVars, consumerVars, Front
  <2> QED BY <2>1, <2>2, <2>3, <2>4, <2>5, <2>6, <2>7, <2>8 DEF Next, Push, Pop
<1> QED BY <1>1, <1>2, Invariance, PTL DEF ImplementsQueue, Abstract!Spec, Spec
=============================================================================
