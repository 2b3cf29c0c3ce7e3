-------------------------- MODULE PriceLevelProofs --------------------------
(***************************************************************************)
(* The pointers of every price level represent its queue, for any number   *)
(* of levels and orders.                                                   *)
(***************************************************************************)
EXTENDS PriceLevel, DataLemmas

USE PriceLevelAssumption

(* What the invariant says of one level, and of two.                       *)
LEMMA LevelFacts ==
    ASSUME IndInv, NEW l \in Levels
    PROVE  /\ Queue(l) \in Seq(Orders)
           /\ Len(Queue(l)) \in Nat /\ DOMAIN Queue(l) = 1 .. Len(Queue(l))
           /\ \A i \in 1 .. Len(Queue(l)) : Queue(l)[i] \in Orders /\ Queue(l)[i] \in Range(Queue(l))
           /\ \A i, j \in 1 .. Len(Queue(l)) : Queue(l)[i] = Queue(l)[j] => i = j
           /\ \A m \in Levels : l # m => Range(Queue(l)) \cap Range(Queue(m)) = {}
           /\ Represents(l)
<1>1. abstract[l] \in QueueRecords(Orders)
  BY DEF IndInv, TypeOK
<1>2. Queue(l) \in Seq(Orders)
  BY <1>1 DEF Queue, QueueRecords
<1>3. Len(Queue(l)) \in Nat /\ DOMAIN Queue(l) = 1 .. Len(Queue(l))
  BY <1>2
<1>4. \A i \in 1 .. Len(Queue(l)) : Queue(l)[i] \in Orders /\ Queue(l)[i] \in Range(Queue(l))
  BY <1>2, <1>3 DEF Range
<1>5. \A i, j \in 1 .. Len(Queue(l)) : Queue(l)[i] = Queue(l)[j] => i = j
  BY <1>3 DEF IndInv, Apart, IsInjective
<1> QED BY <1>2, <1>3, <1>4, <1>5 DEF IndInv, Apart, LinksRepresentQueue

LEMMA Initially == Init => IndInv
<1> SUFFICES ASSUME Init PROVE IndInv
  OBVIOUS
<1>1. \A l \in Levels : Queue(l) = << >>
  BY DEF Init, Queue, NewLevel
<1>2. TypeOK
  <2>1. NewLevel \in QueueRecords(Orders)
    BY DEF NewLevel, QueueRecords
  <2> QED BY <2>1 DEF Init, TypeOK, Pointers
<1>3. \A l \in Levels : Range(Queue(l)) = {} /\ IsInjective(Queue(l))
  BY <1>1 DEF Range, IsInjective
<1>4. LinksRepresentQueue
  BY <1>1 DEF LinksRepresentQueue, Represents, Init
<1> QED BY <1>2, <1>3, <1>4 DEF IndInv, Apart

(* push_back writes the links of the order and of the old tail: both are   *)
(* in this level's list now, so no other list changes.                     *)
LEMMA Pushes ==
    ASSUME IndInv, NEW l \in Levels, NEW o \in Orders, NEW q \in 0 .. MaxQty,
           PushBackOrder(l, o, q)
    PROVE  IndInv'
<1> DEFINE old == Queue(l)
           n == Len(Queue(l))
           new == PushBack(abstract[l], o, q).queue
           tail == level[l].tail
<1>1. /\ old \in Seq(Orders) /\ n \in Nat /\ o \notin Range(old) /\ IsInjective(old)
      /\ \A i \in 1 .. n : old[i] \in Orders /\ old[i] \in Range(old)
      /\ \A i, j \in 1 .. n : old[i] = old[j] => i = j
  BY LevelFacts DEF PushBackOrder, Resting, IndInv, Apart
<1>2. abstract[l] \in QueueRecords(Orders) /\ q \in Int
  BY DEF IndInv, TypeOK
<1>0. /\ PushBack(abstract[l], o, q) \in QueueRecords(Orders)
      /\ Extended(old, new, o) /\ IsInjective(new)
  BY <1>1, <1>2, PushedBack DEF Queue
<1>3. /\ PushBack(abstract[l], o, q) \in QueueRecords(Orders)
      /\ Len(new) = n + 1
      /\ \A i \in 1 .. n : new[i] = old[i]
      /\ new[n + 1] = o
  <2> HIDE DEF old, new
  <2> QED BY <1>0 DEF Extended, old
<1>4. IsInjective(new)
  BY <1>0
<1>5. Range(new) = Range(old) \cup {o}
  <2> DEFINE lv == abstract[l]
  <2>1. lv \in QueueRecords(Orders) /\ q \in Int
    BY <1>2
  <2> HIDE DEF lv
  <2>2. Range(PushBack(lv, o, q).queue) = Range(lv.queue) \cup {o}
    BY <2>1, PushedRange
  <2> QED BY <2>2 DEF lv, Queue
<1>6. /\ abstract' = [abstract EXCEPT ![l] = PushBack(@, o, q)]
      /\ Queue(l)' = new
      /\ \A m \in Levels : m # l => Queue(m)' = Queue(m)
  BY DEF PushBackOrder, Queue, IndInv, TypeOK
<1>7. /\ tail = IF n = 0 THEN Null ELSE old[n]
      /\ level[l].head = IF n = 0 THEN Null ELSE old[1]
      /\ n # 0 => tail \in Orders /\ tail \in Range(old) /\ tail # Null /\ tail # o
  BY <1>1, LevelFacts DEF Represents
<1>8. /\ prev' = [prev EXCEPT ![o] = tail]
      /\ next' = IF tail # Null THEN [next EXCEPT ![o] = Null, ![tail] = o]
                 ELSE [next EXCEPT ![o] = Null]
      /\ level' = [level EXCEPT ![l] = [head |-> IF tail # Null THEN level[l].head ELSE o,
                                        tail |-> o, total |-> level[l].total + q,
                                        count |-> level[l].count + 1]]
      /\ rem' = [rem EXCEPT ![o] = q]
  BY DEF PushBackOrder, LinkBack, List, IndInv, TypeOK
<1>9. /\ prev \in [Orders -> Pointers] /\ next \in [Orders -> Pointers]
      /\ level \in [Levels -> [head : Pointers, tail : Pointers, total : Int, count : Int]]
      /\ tail \in Pointers
  BY DEF IndInv, TypeOK
<1> HIDE DEF old, n, new, tail
<1>10. /\ prev'[o] = tail /\ next'[o] = Null
       /\ tail # Null => next'[tail] = o
       /\ \A x \in Orders : x # o => prev'[x] = prev[x]
       /\ \A x \in Orders : x # o /\ x # tail => next'[x] = next[x]
  BY <1>1, <1>7, <1>8, <1>9
<1>11. TypeOK'
  <2>1. prev' \in [Orders -> Pointers] /\ next' \in [Orders -> Pointers]
    BY <1>8, <1>9 DEF Pointers
  <2>2. level' \in [Levels -> [head : Pointers, tail : Pointers, total : Int, count : Int]]
    BY <1>2, <1>8, <1>9 DEF Pointers
  <2>3. rem' \in [Orders -> 0 .. MaxQty]
    BY <1>8 DEF IndInv, TypeOK
  <2>4. abstract' \in [Levels -> QueueRecords(Orders)]
    BY <1>3, <1>6 DEF IndInv, TypeOK
  <2> QED BY <2>1, <2>2, <2>3, <2>4 DEF TypeOK, Pointers
<1>12. Apart'
  <2>1. \A m \in Levels : m # l => o \notin Range(Queue(m))
    BY DEF PushBackOrder, Resting
  <2>2. \A m \in Levels : IsInjective(Queue(m)')
    BY <1>4, <1>6 DEF IndInv, Apart
  <2>3. ASSUME NEW a \in Levels, NEW b \in Levels, a # b
        PROVE  Range(Queue(a)') \cap Range(Queue(b)') = {}
    <3>1. CASE a # l /\ b # l
      BY <1>6, <2>3, <3>1 DEF IndInv, Apart
    <3>2. CASE a = l
      BY <1>5, <1>6, <2>1, <2>3, <3>2 DEF IndInv, Apart, old
    <3>3. CASE b = l
      BY <1>5, <1>6, <2>1, <2>3, <3>3 DEF IndInv, Apart, old
    <3> QED BY <3>1, <3>2, <3>3
  <2> QED BY <2>2, <2>3 DEF Apart
<1>13. Represents(l)'
  <2>1. /\ level'[l].head = (IF tail # Null THEN level[l].head ELSE o)
        /\ level'[l].tail = o
    BY <1>8, <1>9
  <2>2. new # << >> /\ new[1] = IF n = 0 THEN o ELSE old[1]
    BY <1>1, <1>3
  <2>3. level'[l].head = new[1]
    BY <1>7, <2>1, <2>2
  <2>4. ASSUME NEW i \in 1 .. n + 1
        PROVE  /\ next'[new[i]] = IF i = n + 1 THEN Null ELSE new[i + 1]
               /\ prev'[new[i]] = IF i = 1 THEN Null ELSE new[i - 1]
    <3>1. CASE i = n + 1
      <4>1. new[i] = o /\ next'[new[i]] = Null /\ prev'[new[i]] = tail
        BY <1>3, <1>10, <3>1
      <4>2. CASE n = 0
        BY <1>7, <3>1, <4>1, <4>2
      <4>3. CASE n # 0
        <5>1. n \in 1 .. n /\ i - 1 = n /\ i # 1
          BY <1>1, <3>1, <4>3
        <5>2. new[i - 1] = old[n]
          BY <1>3, <5>1
        <5> QED BY <1>7, <3>1, <4>1, <4>3, <5>1, <5>2
      <4> QED BY <4>2, <4>3
    <3>2. CASE i # n + 1
      <4>1. i \in 1 .. n /\ n # 0 /\ n \in 1 .. n
        BY <1>1, <3>2
      <4>2. new[i] = old[i] /\ old[i] \in Orders /\ old[i] # o
        BY <1>1, <1>3, <4>1
      <4>3. /\ next[old[i]] = IF i = n THEN Null ELSE old[i + 1]
            /\ prev[old[i]] = IF i = 1 THEN Null ELSE old[i - 1]
        BY <4>1, LevelFacts DEF Represents, old, n
      <4>4. prev'[new[i]] = IF i = 1 THEN Null ELSE new[i - 1]
        <5>1. i # 1 => i - 1 \in 1 .. n
          BY <1>1, <4>1
        <5> QED BY <1>3, <1>10, <4>2, <4>3, <5>1
      <4>5. next'[new[i]] = new[i + 1]
        <5>1. CASE i = n
          BY <1>3, <1>7, <1>10, <4>1, <4>2, <5>1
        <5>2. CASE i # n
          <6>1. i + 1 \in 1 .. n /\ old[i] # tail
            BY <1>1, <1>7, <4>1, <5>2
          <6> QED BY <1>3, <1>10, <4>2, <4>3, <5>2, <6>1
        <5> QED BY <5>1, <5>2
      <4> QED BY <3>2, <4>4, <4>5
    <3> QED BY <3>1, <3>2
  <2>5. n + 1 # 0
    BY <1>1
  <2> QED BY <1>3, <1>6, <2>1, <2>3, <2>4, <2>5 DEF Represents
<1>14. ASSUME NEW m \in Levels, m # l PROVE Represents(m)'
  <2> DEFINE other == Queue(m)
  <2>1. /\ other \in Seq(Orders) /\ Len(other) \in Nat
        /\ \A i \in 1 .. Len(other) : other[i] \in Orders /\ other[i] \in Range(other)
        /\ Represents(m)
    BY LevelFacts
  <2>2. Range(other) \cap Range(old) = {} /\ o \notin Range(other)
    BY <1>14 DEF PushBackOrder, Resting, IndInv, Apart, old
  <2>3. Queue(m)' = other /\ level'[m] = level[m]
    BY <1>6, <1>8, <1>9, <1>14
  <2>4. tail # Null => tail \in Range(old)
    BY <1>7
  <2>5. \A i \in 1 .. Len(other) : other[i] # o /\ other[i] \in Orders /\ (tail # Null => other[i] # tail)
    BY <2>1, <2>2, <2>4
  <2>6. \A i \in 1 .. Len(other) : prev'[other[i]] = prev[other[i]] /\ next'[other[i]] = next[other[i]]
    BY <1>10, <2>5
  <2> HIDE DEF other
  <2>7. /\ level[m].head = IF Len(other) = 0 THEN Null ELSE other[1]
        /\ level[m].tail = IF Len(other) = 0 THEN Null ELSE other[Len(other)]
        /\ \A i \in 1 .. Len(other) :
               /\ next[other[i]] = IF i = Len(other) THEN Null ELSE other[i + 1]
               /\ prev[other[i]] = IF i = 1 THEN Null ELSE other[i - 1]
    BY <2>1 DEF Represents, other
  <2> QED BY <2>3, <2>6, <2>7 DEF Represents
<1> QED BY <1>11, <1>12, <1>13, <1>14 DEF IndInv, LinksRepresentQueue

(* remove joins the neighbours that the order's own links name: they are   *)
(* its neighbours in this queue, so no other list changes.                 *)
LEMMA Removes ==
    ASSUME IndInv, NEW l \in Levels, NEW o \in Orders, RemoveOrder(l, o)
    PROVE  IndInv'
<1> DEFINE old == Queue(l)
           n == Len(Queue(l))
           new == RemoveFrom(abstract[l], o, rem[o]).queue
           before == prev[o]
           after == next[o]
<1>1. /\ old \in Seq(Orders) /\ n \in Nat /\ IsInjective(old) /\ o \in Range(old)
      /\ \A j \in 1 .. n : old[j] \in Orders /\ old[j] \in Range(old)
      /\ \A j, k \in 1 .. n : old[j] = old[k] => j = k
  BY LevelFacts DEF RemoveOrder, IndInv, Apart
<1>2. abstract[l] \in QueueRecords(Orders) /\ rem[o] \in Int
  BY DEF IndInv, TypeOK
<1>3. RemoveFrom(abstract[l], o, rem[o]) \in QueueRecords(Orders) /\ IsInjective(new)
  BY <1>1, <1>2, Removed DEF Queue
<1>4. PICK i \in 1 .. n :
          /\ old[i] = o
          /\ Len(new) = n - 1
          /\ \A j \in 1 .. n - 1 : new[j] = IF j < i THEN old[j] ELSE old[j + 1]
  <2>1. MovedUp(old, new, o)
    BY <1>1, <1>2, Removed DEF Queue
  <2> HIDE DEF old, new
  <2> QED BY <2>1 DEF MovedUp, n, old
<1>5. Range(new) = Range(old) \ {o}
  BY <1>1, <1>2, RemovedRange DEF Queue
<1>6. /\ abstract' = [abstract EXCEPT ![l] = RemoveFrom(@, o, rem[o])]
      /\ Queue(l)' = new
      /\ \A m \in Levels : m # l => Queue(m)' = Queue(m)
  BY DEF RemoveOrder, Queue, IndInv, TypeOK
<1>7. /\ level[l].head = old[1] /\ level[l].tail = old[n]
      /\ \A j \in 1 .. n :
             /\ next[old[j]] = IF j = n THEN Null ELSE old[j + 1]
             /\ prev[old[j]] = IF j = 1 THEN Null ELSE old[j - 1]
  BY <1>4, LevelFacts DEF Represents
<1>8. /\ before = IF i = 1 THEN Null ELSE old[i - 1]
      /\ after = IF i = n THEN Null ELSE old[i + 1]
  BY <1>4, <1>7
<1>9. /\ prev' = IF after # Null THEN [prev EXCEPT ![after] = before, ![o] = Null]
                 ELSE [prev EXCEPT ![o] = Null]
      /\ next' = IF before # Null THEN [next EXCEPT ![before] = after, ![o] = Null]
                 ELSE [next EXCEPT ![o] = Null]
      /\ level' = [level EXCEPT ![l] =
                      [head |-> IF before # Null THEN level[l].head ELSE after,
                       tail |-> IF after # Null THEN level[l].tail ELSE before,
                       total |-> TotalAfter(level[l].total, o),
                       count |-> level[l].count - 1]]
      /\ rem' = [rem EXCEPT ![o] = 0]
  BY DEF RemoveOrder, Unlink, List, IndInv, TypeOK
<1>10. /\ prev \in [Orders -> Pointers] /\ next \in [Orders -> Pointers]
       /\ level \in [Levels -> [head : Pointers, tail : Pointers, total : Int, count : Int]]
       /\ before \in Pointers /\ after \in Pointers
  BY DEF IndInv, TypeOK
<1>11. /\ i = 1 <=> before = Null
       /\ i = n <=> after = Null
       /\ before # Null => before \in Orders /\ before \in Range(old) /\ before # o
       /\ after # Null => after \in Orders /\ after \in Range(old) /\ after # o
  <2>1. i # 1 => i - 1 \in 1 .. n /\ i - 1 # i
    BY <1>1, <1>4
  <2>2. i # n => i + 1 \in 1 .. n /\ i + 1 # i
    BY <1>1, <1>4
  <2> HIDE DEF old, n, before, after
  <2>3. i # 1 => old[i - 1] \in Orders /\ old[i - 1] \in Range(old) /\ old[i - 1] # o
    BY <1>1, <1>4, <2>1
  <2>4. i # n => old[i + 1] \in Orders /\ old[i + 1] \in Range(old) /\ old[i + 1] # o
    BY <1>1, <1>4, <2>2
  <2> QED BY <1>8, <2>3, <2>4
<1> HIDE DEF old, n, new, before, after
<1>12. /\ prev' \in [Orders -> Pointers] /\ next' \in [Orders -> Pointers]
       /\ before # Null => next'[before] = after
       /\ after # Null => prev'[after] = before
       /\ \A x \in Orders : x # o /\ x # after => prev'[x] = prev[x]
       /\ \A x \in Orders : x # o /\ x # before => next'[x] = next[x]
  BY <1>9, <1>10, <1>11 DEF Pointers
<1>13. TypeOK'
  <2>1. level' \in [Levels -> [head : Pointers, tail : Pointers, total : Int, count : Int]]
    <3>1. TotalAfter(level[l].total, o) \in Int
      BY <1>2, <1>10 DEF TotalAfter
    <3>2. level[l].count - 1 \in Int /\ level[l].head \in Pointers /\ level[l].tail \in Pointers
      BY <1>10
    <3> QED BY <1>9, <1>10, <3>1, <3>2
  <2>2. rem' \in [Orders -> 0 .. MaxQty]
    BY <1>9 DEF IndInv, TypeOK
  <2>3. abstract' \in [Levels -> QueueRecords(Orders)]
    BY <1>3, <1>6 DEF IndInv, TypeOK
  <2> QED BY <1>12, <2>1, <2>2, <2>3 DEF TypeOK, Pointers
<1>14. Apart'
  <2>1. \A m \in Levels : IsInjective(Queue(m)')
    BY <1>3, <1>6 DEF IndInv, Apart
  <2>2. \A m \in Levels : Range(Queue(m)') \subseteq Range(Queue(m))
    BY <1>5, <1>6 DEF old
  <2>3. \A a, b \in Levels : a # b => Range(Queue(a)') \cap Range(Queue(b)') = {}
    BY <2>2 DEF IndInv, Apart
  <2> QED BY <2>1, <2>3 DEF Apart
<1>15. Represents(l)'
  <2>1. /\ level'[l].head = (IF before # Null THEN level[l].head ELSE after)
        /\ level'[l].tail = (IF after # Null THEN level[l].tail ELSE before)
    BY <1>9, <1>10
  <2>2. level'[l].head = IF n - 1 = 0 THEN Null ELSE new[1]
    <3>1. CASE n - 1 = 0
      <4>1. i = 1 /\ i = n
        BY <1>1, <1>4, <3>1
      <4> QED BY <1>11, <2>1, <3>1, <4>1
    <3>2. CASE n - 1 # 0
      <4>1. 1 \in 1 .. n - 1 /\ (1 < i <=> i # 1)
        BY <1>1, <1>4, <3>2
      <4>2. new[1] = IF i # 1 THEN old[1] ELSE old[2]
        BY <1>4, <4>1
      <4>3. i = 1 => i # n
        BY <1>1, <1>4, <3>2
      <4> QED BY <1>7, <1>8, <1>11, <2>1, <3>2, <4>2, <4>3
    <3> QED BY <3>1, <3>2
  <2>3. level'[l].tail = IF n - 1 = 0 THEN Null ELSE new[n - 1]
    <3>1. CASE n - 1 = 0
      <4>1. i = 1 /\ i = n
        BY <1>1, <1>4, <3>1
      <4> QED BY <1>11, <2>1, <3>1, <4>1
    <3>2. CASE n - 1 # 0
      <4>1. n - 1 \in 1 .. n - 1 /\ (n - 1 < i <=> i = n) /\ n - 1 + 1 = n
        BY <1>1, <1>4, <3>2
      <4>2. new[n - 1] = IF i = n THEN old[n - 1] ELSE old[n]
        BY <1>4, <4>1
      <4>3. i = n => i # 1
        BY <1>1, <1>4, <3>2
      <4> QED BY <1>7, <1>8, <1>11, <2>1, <3>2, <4>2, <4>3
    <3> QED BY <3>1, <3>2
  <2>4. ASSUME NEW j \in 1 .. n - 1
        PROVE  next'[new[j]] = IF j = n - 1 THEN Null ELSE new[j + 1]
    <3>1. CASE j < i - 1
      <4>1. j \in 1 .. n /\ j + 1 \in 1 .. n - 1 /\ j < i /\ j + 1 < i /\ j # n /\ j # n - 1
        BY <1>1, <1>4, <3>1
      <4>2. new[j] = old[j] /\ new[j + 1] = old[j + 1]
        BY <1>4, <4>1
      <4>3. old[j] # o /\ old[j] # before
        <5>1. i - 1 \in 1 .. n /\ i # 1 /\ j # i /\ j # i - 1
          BY <1>1, <1>4, <3>1
        <5> QED BY <1>1, <1>4, <1>8, <4>1, <5>1
      <4>4. next[old[j]] = old[j + 1]
        BY <1>7, <4>1
      <4>5. next'[old[j]] = next[old[j]]
        BY <1>1, <1>12, <4>1, <4>3
      <4> QED BY <4>1, <4>2, <4>4, <4>5
    <3>2. CASE j = i - 1
      <4>1. j < i /\ i # 1 /\ j + 1 = i /\ ~ (i < i) /\ (j = n - 1 <=> i = n)
        BY <1>1, <1>4, <3>2
      <4>2. new[j] = before /\ before # Null
        BY <1>4, <1>8, <1>11, <3>2, <4>1
      <4>3. next'[new[j]] = after
        BY <1>12, <4>2
      <4>4. CASE j = n - 1
        BY <1>8, <4>1, <4>3, <4>4
      <4>5. CASE j # n - 1
        <5>1. i \in 1 .. n - 1 /\ i # n
          BY <1>1, <1>4, <3>2, <4>5
        <5>2. new[j + 1] = old[i + 1]
          BY <1>4, <4>1, <5>1
        <5> QED BY <1>8, <4>3, <4>5, <5>1, <5>2
      <4> QED BY <4>4, <4>5
    <3>3. CASE j > i - 1
      <4>1. /\ ~ (j < i) /\ j + 1 \in 1 .. n /\ j + 1 # i /\ (j + 1 = n <=> j = n - 1)
            /\ j # n - 1 => j + 1 \in 1 .. n - 1 /\ ~ (j + 1 < i)
        BY <1>1, <1>4, <3>3
      <4>2. new[j] = old[j + 1] /\ (j # n - 1 => new[j + 1] = old[j + 1 + 1])
        BY <1>4, <4>1
      <4>3. old[j + 1] # o /\ old[j + 1] # before
        <5>1. i # 1 => i - 1 \in 1 .. n /\ j + 1 # i - 1
          BY <1>1, <1>4, <3>3
        <5>2. old[j + 1] # Null
          BY <1>1, <4>1
        <5> QED BY <1>1, <1>4, <1>8, <4>1, <5>1, <5>2
      <4> QED BY <1>1, <1>7, <1>12, <4>1, <4>2, <4>3
    <3> QED BY <1>1, <1>4, <3>1, <3>2, <3>3
  <2>5. ASSUME NEW j \in 1 .. n - 1
        PROVE  prev'[new[j]] = IF j = 1 THEN Null ELSE new[j - 1]
    <3>1. CASE j < i
      <4>1. j \in 1 .. n /\ j # i /\ (j # 1 => j - 1 \in 1 .. n - 1 /\ j - 1 < i)
        BY <1>1, <1>4, <3>1
      <4>2. new[j] = old[j] /\ (j # 1 => new[j - 1] = old[j - 1])
        BY <1>4, <3>1, <4>1
      <4>3. old[j] # o /\ old[j] # after
        <5>1. i # n => i + 1 \in 1 .. n /\ j # i + 1
          BY <1>1, <1>4, <3>1
        <5>2. old[j] # Null
          BY <1>1, <4>1
        <5> QED BY <1>1, <1>4, <1>8, <4>1, <5>1, <5>2
      <4> QED BY <1>1, <1>7, <1>12, <4>1, <4>2, <4>3
    <3>2. CASE j = i
      <4>1. ~ (j < i) /\ i # n
        BY <1>1, <1>4, <3>2
      <4>2. new[j] = after /\ after # Null
        BY <1>4, <1>8, <1>11, <3>2, <4>1
      <4>3. j # 1 => new[j - 1] = old[i - 1]
        <5>1. j # 1 => j - 1 \in 1 .. n - 1 /\ j - 1 < i
          BY <1>1, <1>4, <3>2
        <5> QED BY <1>4, <3>2, <5>1
      <4> QED BY <1>8, <1>12, <3>2, <4>2, <4>3
    <3>3. CASE j > i
      <4>1. /\ ~ (j < i) /\ j + 1 \in 1 .. n /\ j + 1 # i /\ j + 1 # 1 /\ j # 1
            /\ j - 1 \in 1 .. n - 1 /\ ~ (j - 1 < i) /\ j + 1 - 1 = j /\ j - 1 + 1 = j
        BY <1>1, <1>4, <3>3
      <4>2. new[j] = old[j + 1] /\ new[j - 1] = old[j]
        BY <1>4, <4>1
      <4>3. old[j + 1] # o /\ old[j + 1] # after
        <5>1. i # n => i + 1 \in 1 .. n /\ j + 1 # i + 1
          BY <1>1, <1>4, <3>3
        <5>2. old[j + 1] # Null
          BY <1>1, <4>1
        <5> QED BY <1>1, <1>4, <1>8, <4>1, <5>1, <5>2
      <4>4. prev[old[j + 1]] = old[j]
        BY <1>7, <4>1
      <4> QED BY <1>1, <1>12, <4>1, <4>2, <4>3, <4>4
    <3> QED BY <1>1, <1>4, <3>1, <3>2, <3>3
  <2> QED BY <1>4, <1>6, <2>2, <2>3, <2>4, <2>5 DEF Represents
<1>16. ASSUME NEW m \in Levels, m # l PROVE Represents(m)'
  <2> DEFINE other == Queue(m)
  <2>1. /\ other \in Seq(Orders) /\ Len(other) \in Nat
        /\ \A j \in 1 .. Len(other) : other[j] \in Orders /\ other[j] \in Range(other)
        /\ Represents(m)
    BY LevelFacts
  <2>2. Range(other) \cap Range(old) = {}
    BY <1>16 DEF IndInv, Apart, old
  <2>3. Queue(m)' = other /\ level'[m] = level[m]
    BY <1>6, <1>9, <1>10, <1>16
  <2>4. \A j \in 1 .. Len(other) : /\ other[j] # o /\ other[j] \in Orders
                                   /\ other[j] # before /\ other[j] # after
    BY <1>1, <1>11, <2>1, <2>2
  <2>5. \A j \in 1 .. Len(other) : prev'[other[j]] = prev[other[j]] /\ next'[other[j]] = next[other[j]]
    BY <1>12, <2>4
  <2> HIDE DEF other
  <2>6. /\ level[m].head = IF Len(other) = 0 THEN Null ELSE other[1]
        /\ level[m].tail = IF Len(other) = 0 THEN Null ELSE other[Len(other)]
        /\ \A j \in 1 .. Len(other) :
               /\ next[other[j]] = IF j = Len(other) THEN Null ELSE other[j + 1]
               /\ prev[other[j]] = IF j = 1 THEN Null ELSE other[j - 1]
    BY <2>1 DEF Represents, other
  <2> QED BY <2>3, <2>5, <2>6 DEF Represents
<1> QED BY <1>13, <1>14, <1>15, <1>16 DEF IndInv, LinksRepresentQueue

(* A fill that leaves the head something changes no link. *)
LEMMA Fills ==
    ASSUME IndInv, NEW l \in Levels, NEW q \in 1 .. MaxQty, FillHead(l, q)
    PROVE  IndInv'
<1> DEFINE o == level[l].head
<1>1. /\ level \in [Levels -> [head : Pointers, tail : Pointers, total : Int, count : Int]]
      /\ abstract \in [Levels -> QueueRecords(Orders)]
      /\ rem \in [Orders -> 0 .. MaxQty]
  BY DEF IndInv, TypeOK
<1>2. o \in Orders /\ rem[o] \in 0 .. MaxQty /\ q \in 1 .. rem[o] - 1
  <2>1. Len(Queue(l)) # 0 /\ Queue(l)[1] \in Orders
    BY LevelFacts DEF FillHead
  <2> QED BY <1>1, <2>1, LevelFacts DEF Represents, FillHead, PartialFills
<1>3. /\ rem' = [rem EXCEPT ![o] = @ - q]
      /\ level' = [level EXCEPT ![l].total = @ - q]
      /\ abstract' = [abstract EXCEPT ![l].total = @ - q]
      /\ prev' = prev /\ next' = next
  BY DEF FillHead
<1>4. /\ \A m \in Levels : Queue(m)' = Queue(m)
      /\ \A m \in Levels : level'[m].head = level[m].head /\ level'[m].tail = level[m].tail
  BY <1>1, <1>3 DEF Queue, QueueRecords
<1>5. TypeOK'
  <2>1. rem' \in [Orders -> 0 .. MaxQty]
    <3>1. rem[o] - q \in 0 .. MaxQty
      BY <1>2
    <3> QED BY <1>1, <1>2, <1>3, <3>1
  <2>2. level' \in [Levels -> [head : Pointers, tail : Pointers, total : Int, count : Int]]
    BY <1>1, <1>3
  <2>3. abstract' \in [Levels -> QueueRecords(Orders)]
    <3>1. abstract[l] \in [queue : Seq(Orders), total : Int, count : Int] /\ q \in Int
      BY <1>1 DEF QueueRecords
    <3>2. [abstract[l] EXCEPT !.total = @ - q]
              \in [queue : Seq(Orders), total : Int, count : Int]
      BY <3>1
    <3>3. [abstract[l] EXCEPT !.total = @ - q] \in QueueRecords(Orders)
      BY <3>2 DEF QueueRecords
    <3> QED BY <1>1, <1>3, <3>3
  <2> QED BY <1>3, <2>1, <2>2, <2>3 DEF IndInv, TypeOK, Pointers
<1>6. Apart'
  BY <1>4 DEF IndInv, Apart
<1>7. LinksRepresentQueue'
  BY <1>3, <1>4 DEF IndInv, LinksRepresentQueue, Represents
<1> QED BY <1>5, <1>6, <1>7 DEF IndInv

LEMMA Step == IndInv /\ [Next]_vars => IndInv'
<1> SUFFICES ASSUME IndInv, [Next]_vars PROVE IndInv'
  OBVIOUS
<1>1. CASE Next
  <2>1. ASSUME NEW l \in Levels, NEW o \in Orders, NEW q \in 0 .. MaxQty, PushBackOrder(l, o, q)
        PROVE  IndInv'
    BY <2>1, Pushes
  <2>2. ASSUME NEW l \in Levels, NEW o \in Orders, RemoveOrder(l, o) PROVE IndInv'
    BY <2>2, Removes
  <2>3. ASSUME NEW l \in Levels, NEW q \in 1 .. MaxQty, FillHead(l, q) PROVE IndInv'
    BY <2>3, Fills
  <2> QED BY <1>1, <2>1, <2>2, <2>3 DEF Next
<1>2. CASE UNCHANGED vars
  BY <1>2 DEF vars, IndInv, TypeOK, Pointers, Apart, Queue, LinksRepresentQueue, Represents
<1> QED BY <1>1, <1>2

-----------------------------------------------------------------------------
(* The totals.  A step changes the sum over one queue by what it adds to   *)
(* the total of that level, and no other level rests what it writes to.    *)

LEMMA TotalsInitially == Init => TotalsExact
<1> SUFFICES ASSUME Init, NEW l \in Levels
             PROVE  /\ level[l].total = SumFunctionOnSet(rem, Range(Queue(l)))
                    /\ level[l].count = Len(Queue(l))
  BY DEF TotalsExact
<1>1. Queue(l) = << >> /\ level[l].total = 0 /\ level[l].count = 0
  BY DEF Init, Queue, NewLevel
<1>2. Range(Queue(l)) = {} /\ Len(Queue(l)) = 0
  BY <1>1 DEF Range
<1>3. SumFunctionOnSet(rem, {}) = 0
  <2>1. IsFiniteSet({}) /\ \A x \in {} : rem[x] \in Int
    BY FS_EmptySet
  <2> QED BY <2>1, Sums
<1> QED BY <1>1, <1>2, <1>3

(* Of one level and its queue before a step: what Sums needs.              *)
LEMMA Summable ==
    ASSUME IndInv, NEW l \in Levels
    PROVE  /\ IsFiniteSet(Range(Queue(l))) /\ Range(Queue(l)) \subseteq Orders
           /\ \A o \in Range(Queue(l)) : rem[o] \in Int
<1>1. Queue(l) \in Seq(Orders)
  BY LevelFacts
<1>2. rem \in [Orders -> 0 .. MaxQty]
  BY DEF IndInv, TypeOK
<1>3. \A o \in Orders : rem[o] \in Int
  BY <1>2
<1> QED BY <1>1, <1>3, RangeFinite

(* A level is not touched by a step that writes to an order outside it.    *)
LEMMA OthersKeepTotals ==
    ASSUME IndInv, TotalsExact, NEW m \in Levels, NEW o, o \notin Range(Queue(m)), NEW q,
           rem' = [rem EXCEPT ![o] = q],
           level'[m] = level[m], Queue(m)' = Queue(m)
    PROVE  /\ level'[m].total = SumFunctionOnSet(rem', Range(Queue(m)'))
           /\ level'[m].count = Len(Queue(m)')
<1> DEFINE R == Range(Queue(m))
<1>1. IsFiniteSet(R) /\ \A x \in R : rem[x] \in Int /\ x \in Orders
  BY Summable
<1>2. \A x \in R : rem[x] = rem'[x]
  BY <1>1 DEF IndInv, TypeOK
<1>3. SumFunctionOnSet(rem, R) = SumFunctionOnSet(rem', R)
  <2> HIDE DEF R
  <2> QED BY <1>1, <1>2, SumsAgree
<1> QED BY <1>3 DEF TotalsExact

LEMMA PushTotals ==
    ASSUME IndInv, TotalsExact, NEW l \in Levels, NEW o \in Orders, NEW q \in 0 .. MaxQty,
           PushBackOrder(l, o, q)
    PROVE  TotalsExact'
<1> DEFINE R == Range(Queue(l))
<1>1. /\ o \notin Resting /\ rem' = [rem EXCEPT ![o] = q]
      /\ level'[l].total = level[l].total + q /\ level'[l].count = level[l].count + 1
      /\ \A m \in Levels : m # l => level'[m] = level[m] /\ Queue(m)' = Queue(m)
      /\ Queue(l)' = Append(Queue(l), o)
  BY DEF PushBackOrder, IndInv, TypeOK, Queue, PushBack
<1>2. o \notin R /\ \A m \in Levels : o \notin Range(Queue(m))
  BY <1>1 DEF Resting
<1>3. level'[l].total = SumFunctionOnSet(rem', R \cup {o})
  <2>1. IsFiniteSet(R) /\ \A x \in R : rem[x] \in Int /\ x \in Orders
    BY Summable
  <2>2. /\ \A x \in R : rem[x] \in Int /\ rem'[x] = rem[x]
        /\ rem'[o] = q /\ rem'[o] \in Int
    BY <1>1, <1>2, <2>1 DEF IndInv, TypeOK
  <2> HIDE DEF R
  <2>3. SumFunctionOnSet(rem', R \cup {o}) = SumFunctionOnSet(rem, R) + rem'[o]
    BY <1>2, <2>1, <2>2, SumWithOne
  <2>4. level[l].total = SumFunctionOnSet(rem, R)
    BY DEF TotalsExact, R
  <2> QED BY <1>1, <2>2, <2>3, <2>4
<1>4. Range(Queue(l)') = R \cup {o} /\ Len(Queue(l)') = Len(Queue(l)) + 1
  <2>1. Queue(l) \in Seq(Orders)
    BY LevelFacts
  <2>2. Len(Append(Queue(l), o)) = Len(Queue(l)) + 1
    BY <2>1
  <2>3. Range(Append(Queue(l), o)) = R \cup {o}
    BY <2>1, AppendedRange
  <2> QED BY <1>1, <2>2, <2>3
<1>5. level[l].count = Len(Queue(l))
  BY DEF TotalsExact
<1>6. level'[l].total = SumFunctionOnSet(rem', Range(Queue(l)'))
  BY <1>3, <1>4
<1>7. level'[l].count = Len(Queue(l)')
  BY <1>1, <1>4, <1>5
<1>8. ASSUME NEW m \in Levels, m # l
      PROVE  /\ level'[m].total = SumFunctionOnSet(rem', Range(Queue(m)'))
             /\ level'[m].count = Len(Queue(m)')
  <2>1. level'[m] = level[m] /\ Queue(m)' = Queue(m) /\ o \notin Range(Queue(m))
    BY <1>1, <1>2, <1>8
  <2> QED BY <1>1, <2>1, OthersKeepTotals
<1> QED BY <1>6, <1>7, <1>8 DEF TotalsExact

LEMMA RemoveTotals ==
    ASSUME IndInv, TotalsExact, NEW l \in Levels, NEW o \in Orders, RemoveOrder(l, o)
    PROVE  TotalsExact'
<1> DEFINE R == Range(Queue(l))
           new == RemoveFrom(abstract[l], o, rem[o]).queue
<1>1. /\ o \in R /\ rem' = [rem EXCEPT ![o] = 0]
      /\ level'[l].total = level[l].total - rem[o] /\ level'[l].count = level[l].count - 1
      /\ \A m \in Levels : m # l => level'[m] = level[m] /\ Queue(m)' = Queue(m)
      /\ Queue(l)' = new
  BY DEF RemoveOrder, IndInv, TypeOK, Queue, TotalAfter
<1>2. /\ abstract[l] \in QueueRecords(Orders) /\ rem[o] \in Int
      /\ IsInjective(abstract[l].queue) /\ o \in Range(abstract[l].queue)
  BY <1>1 DEF IndInv, TypeOK, Apart, Queue
<1>3. Range(new) = R \ {o}
  BY <1>2, RemovedRange DEF Queue
<1>4. Len(new) = Len(Queue(l)) - 1
  <2>1. MovedUp(abstract[l].queue, new, o)
    BY <1>2, Removed
  <2> HIDE DEF new
  <2> QED BY <2>1 DEF MovedUp, Queue
<1> HIDE DEF new
<1>5. level'[l].total = SumFunctionOnSet(rem', R \ {o})
  <2>1. IsFiniteSet(R) /\ \A x \in R : rem[x] \in Int /\ x \in Orders
    BY Summable
  <2>2. \A x \in R \ {o} : rem[x] \in Int /\ rem[x] = rem'[x]
    BY <1>1, <2>1 DEF IndInv, TypeOK
  <2> HIDE DEF R
  <2>3. SumFunctionOnSet(rem, R) = rem[o] + SumFunctionOnSet(rem, R \ {o})
    BY <1>1, <2>1, Sums
  <2>4. SumFunctionOnSet(rem, R \ {o}) \in Int
    BY <2>1, Sums
  <2>5. SumFunctionOnSet(rem, R \ {o}) = SumFunctionOnSet(rem', R \ {o})
    <3>1. IsFiniteSet(R \ {o})
      BY <2>1, FS_RemoveElement
    <3> QED BY <2>2, <3>1, SumsAgree
  <2>6. level[l].total = SumFunctionOnSet(rem, R)
    BY DEF TotalsExact, R
  <2> QED BY <1>1, <1>2, <2>3, <2>4, <2>5, <2>6
<1>6. level[l].count = Len(Queue(l))
  BY DEF TotalsExact
<1>7. level'[l].total = SumFunctionOnSet(rem', Range(Queue(l)'))
  BY <1>1, <1>3, <1>5
<1>8. level'[l].count = Len(Queue(l)')
  BY <1>1, <1>4, <1>6
<1>9. ASSUME NEW m \in Levels, m # l
      PROVE  /\ level'[m].total = SumFunctionOnSet(rem', Range(Queue(m)'))
             /\ level'[m].count = Len(Queue(m)')
  <2>1. level'[m] = level[m] /\ Queue(m)' = Queue(m)
    BY <1>1, <1>9
  <2>2. o \notin Range(Queue(m))
    BY <1>1, <1>9 DEF IndInv, Apart
  <2> QED BY <1>1, <2>1, <2>2, OthersKeepTotals
<1> QED BY <1>7, <1>8, <1>9 DEF TotalsExact

LEMMA FillTotals ==
    ASSUME IndInv, TotalsExact, NEW l \in Levels, NEW q \in 1 .. MaxQty, FillHead(l, q)
    PROVE  TotalsExact'
<1> DEFINE R == Range(Queue(l))
           o == level[l].head
<1>1. o \in R
  <2>1. Len(Queue(l)) # 0
    BY LevelFacts DEF FillHead
  <2>2. 1 \in 1 .. Len(Queue(l)) /\ o = Queue(l)[1]
    BY <2>1, LevelFacts DEF Represents
  <2> QED BY <2>2, LevelFacts
<1>2. /\ rem' = [rem EXCEPT ![o] = @ - q]
      /\ level'[l].total = level[l].total - q /\ level'[l].count = level[l].count
      /\ \A m \in Levels : m # l => level'[m] = level[m]
      /\ \A m \in Levels : Queue(m)' = Queue(m)
  BY DEF FillHead, IndInv, TypeOK, Queue, QueueRecords
<1>3. level'[l].total = SumFunctionOnSet(rem', R)
  <2>1. IsFiniteSet(R) /\ \A x \in R : rem[x] \in Int /\ x \in Orders
    BY Summable
  <2>2. rem'[o] = rem[o] - q /\ rem'[o] \in Int /\ \A x \in R \ {o} : rem'[x] = rem[x]
    BY <1>1, <1>2, <2>1 DEF IndInv, TypeOK
  <2>3. level[l].total = SumFunctionOnSet(rem, R) /\ SumFunctionOnSet(rem, R) \in Int
    <3>1. level[l].total = SumFunctionOnSet(rem, R)
      BY DEF TotalsExact
    <3> HIDE DEF R
    <3> QED BY <2>1, <3>1, Sums
  <2> HIDE DEF R, o
  <2>4. SumFunctionOnSet(rem', R) = SumFunctionOnSet(rem, R) - rem[o] + rem'[o]
    BY <1>1, <2>1, <2>2, SumChanges
  <2>5. rem[o] \in Int
    BY <1>1, <2>1
  <2> QED BY <1>2, <2>2, <2>3, <2>4, <2>5
<1>4. level'[l].count = Len(Queue(l)')
  BY <1>2 DEF TotalsExact
<1>5. ASSUME NEW m \in Levels, m # l
      PROVE  /\ level'[m].total = SumFunctionOnSet(rem', Range(Queue(m)'))
             /\ level'[m].count = Len(Queue(m)')
  <2>1. level'[m] = level[m] /\ Queue(m)' = Queue(m)
    BY <1>2, <1>5
  <2>2. o \notin Range(Queue(m))
    BY <1>1, <1>5 DEF IndInv, Apart
  <2> QED BY <1>2, <2>1, <2>2, OthersKeepTotals
<1> QED BY <1>2, <1>3, <1>4, <1>5 DEF TotalsExact

LEMMA TotalsStep == IndInv /\ TotalsExact /\ [Next]_vars => TotalsExact'
<1> SUFFICES ASSUME IndInv, TotalsExact, [Next]_vars PROVE TotalsExact'
  OBVIOUS
<1>1. ASSUME NEW l \in Levels, NEW o \in Orders, NEW q \in 0 .. MaxQty, PushBackOrder(l, o, q)
      PROVE  TotalsExact'
  BY <1>1, PushTotals
<1>2. ASSUME NEW l \in Levels, NEW o \in Orders, RemoveOrder(l, o) PROVE TotalsExact'
  BY <1>2, RemoveTotals
<1>3. ASSUME NEW l \in Levels, NEW q \in 1 .. MaxQty, FillHead(l, q) PROVE TotalsExact'
  BY <1>3, FillTotals
<1>4. CASE UNCHANGED vars
  BY <1>4 DEF vars, TotalsExact, Queue
<1> QED BY <1>1, <1>2, <1>3, <1>4 DEF Next

-----------------------------------------------------------------------------
(* The inductive invariant of the lists: types, orders in one place, links.*)
THEOREM Invariance == Spec => []IndInv
<1> QED BY Initially, Step, PTL DEF Spec

(* Links lead to orders or nowhere, and remaining quantities never wrap,   *)
(* whatever is pushed, filled and removed (price_level.hpp:24-64).         *)
THEOREM TypeCorrect == Spec => []TypeOK
<1> QED BY Invariance, PTL DEF IndInv

(* For any number of levels and orders, the links of a level lead through  *)
(* the orders of its queue in order of arrival, both ways, although a slot *)
(* takes its old links along (price_level.hpp:32-64).                      *)
THEOREM LinksSound == Spec => []LinksRepresentQueue
<1> QED BY Invariance, PTL DEF IndInv

(* The totals of a level are those of the orders that its links reach,     *)
(* however often a slot was filled in part, freed and used again           *)
(* (price_level.hpp:43-44, 62-63, matching_engine.cpp:83).                 *)
THEOREM TotalsCorrect == Spec => []TotalsExact
<1> QED BY Invariance, TotalsInitially, TotalsStep, PTL DEF Spec
=============================================================================
