--------------------------- MODULE OrderBookProofs --------------------------
(***************************************************************************)
(* Theorems about OrderBook and Recovery, for every pool size, price range *)
(* and set of ids, proved with TLAPS, in this order:                       *)
(*   the pool, the levels and the id map are sound (IndInv);               *)
(*   queues are in the order of time, and the iterators fresh (PriorityInv);*)
(*   the totals of a level are those of its orders (AccountInv);           *)
(*   the book implements price-time priority;                              *)
(*   a book that is lost is rebuilt from the journal (RecoveryInv).        *)
(***************************************************************************)
EXTENDS Recovery, DataLemmas

USE BookAssumption

-----------------------------------------------------------------------------
(* A set of prices has a best one, because prices are bounded. *)

LEMMA BestExists ==
    ASSUME NEW side \in Sides, NEW D, D \subseteq Prices, D # {}
    PROVE  \E p \in D : \A q \in D : ~ Better(side, q, p)
<1>0. D \subseteq Int /\ \A p \in D : MinPrice <= p /\ p <= MaxPrice
  BY DEF Prices
<1>1. CASE side = "Buy"
  <2> DEFINE T == {n \in Nat : MaxPrice - n \in D}
  <2>1. T # {}
    <3>1. PICK p \in D : TRUE
      OBVIOUS
    <3>2. MaxPrice - p \in Nat /\ MaxPrice - (MaxPrice - p) = p
      BY <1>0
    <3> QED BY <3>1, <3>2
  <2>2. PICK m \in T : \A n \in T : ~ (n < m)
    <3> HIDE DEF T
    <3>1. T \subseteq Nat
      BY DEF T
    <3> QED BY <2>1, <3>1, LeastNat
  <2>3. ASSUME NEW q \in D PROVE ~ (q > MaxPrice - m)
    <3>1. MaxPrice - q \in T
      BY <1>0
    <3> QED BY <1>0, <2>2, <3>1
  <2> QED BY <1>1, <2>2, <2>3 DEF Better
<1>2. CASE side # "Buy"
  <2> DEFINE T == {n \in Nat : MinPrice + n \in D}
  <2>1. T # {}
    <3>1. PICK p \in D : TRUE
      OBVIOUS
    <3>2. p - MinPrice \in Nat /\ MinPrice + (p - MinPrice) = p
      BY <1>0
    <3> QED BY <3>1, <3>2
  <2>2. PICK m \in T : \A n \in T : ~ (n < m)
    <3> HIDE DEF T
    <3>1. T \subseteq Nat
      BY DEF T
    <3> QED BY <2>1, <3>1, LeastNat
  <2>3. ASSUME NEW q \in D PROVE ~ (q < MinPrice + m)
    <3>1. q - MinPrice \in T
      BY <1>0
    <3> QED BY <1>0, <2>2, <3>1
  <2> QED BY <1>2, <2>2, <2>3 DEF Better
<1> QED BY <1>1, <1>2

(* begin() is end() of an empty map, and the best price of any other.      *)
LEMMA BeginIsBest ==
    ASSUME NEW side \in Sides, NEW levels, DOMAIN levels \subseteq Prices
    PROVE  /\ DOMAIN levels = {} => Begin(side, levels) = End
           /\ DOMAIN levels # {} =>
                 /\ Begin(side, levels) \in DOMAIN levels
                 /\ \A q \in DOMAIN levels : ~ Better(side, q, Begin(side, levels))
BY BestExists DEF Begin

-----------------------------------------------------------------------------
(* A level's queue. *)

LEMMA PushBackQueue ==
    ASSUME NEW lv \in LevelRecords, NEW s \in Slots, NEW q \in Int,
           IsInjective(lv.queue), s \notin Range(lv.queue)
    PROVE  LET new == PushBack(lv, s, q)
           IN  /\ new \in LevelRecords
               /\ new.queue # <<>>
               /\ IsInjective(new.queue)
               /\ Range(new.queue) = Range(lv.queue) \cup {s}
<1>1. LevelRecords = QueueRecords(Slots)
  BY DEF LevelRecords, QueueRecords
<1>2. lv \in QueueRecords(Slots)
  BY <1>1
<1>3. PushBack(lv, s, q) \in QueueRecords(Slots) /\ PushBack(lv, s, q).queue # <<>>
  BY <1>2, PushedBack
<1>4. IsInjective(PushBack(lv, s, q).queue)
  BY <1>2, PushedBack
<1>5. Range(PushBack(lv, s, q).queue) = Range(lv.queue) \cup {s}
  BY <1>2, PushedRange
<1> QED BY <1>1, <1>3, <1>4, <1>5

LEMMA RemoveQueue ==
    ASSUME NEW lv \in LevelRecords, NEW s \in Range(lv.queue), NEW q \in Int,
           IsInjective(lv.queue)
    PROVE  LET new == RemoveFrom(lv, s, q)
           IN  /\ new \in LevelRecords
               /\ IsInjective(new.queue)
               /\ Range(new.queue) = Range(lv.queue) \ {s}
<1>1. LevelRecords = QueueRecords(Slots)
  BY DEF LevelRecords, QueueRecords
<1>2. lv \in QueueRecords(Slots)
  BY <1>1
<1>3. RemoveFrom(lv, s, q) \in QueueRecords(Slots)
  BY <1>2, Removed
<1>4. IsInjective(RemoveFrom(lv, s, q).queue)
  BY <1>2, Removed
<1>5. Range(RemoveFrom(lv, s, q).queue) = Range(lv.queue) \ {s}
  BY <1>2, RemovedRange
<1> QED BY <1>1, <1>3, <1>4, <1>5

-----------------------------------------------------------------------------
(* Operations on a book.  Each keeps Sound, for the slots it says are held.*)

LEMMA BookFields ==
    ASSUME NEW b, IsBook(b)
    PROVE  /\ DOMAIN b = {"free", "used", "ord", "levels", "map", "best"}
           /\ DOMAIN b.levels = Sides
           /\ b.used \in Nat /\ b.used <= PoolSize
           /\ \A side \in Sides : \A p \in DOMAIN b.levels[side] :
                  /\ p \in Prices
                  /\ b.levels[side][p] \in LevelRecords
                  /\ InLevel(b, side, p) \subseteq Slots
<1>1. DOMAIN b = {"free", "used", "ord", "levels", "map", "best"}
  BY DEF IsBook
<1>2. DOMAIN b.levels = Sides
  BY DEF IsBook
<1>3. ASSUME NEW side \in Sides, NEW p \in DOMAIN b.levels[side]
      PROVE  /\ p \in Prices
             /\ b.levels[side][p] \in LevelRecords
             /\ InLevel(b, side, p) \subseteq Slots
  <2>1. p \in Prices /\ b.levels[side][p] \in LevelRecords
    BY DEF IsBook, IsMap
  <2>2. b.levels[side][p].queue \in Seq(Slots)
    BY <2>1 DEF LevelRecords
  <2> QED BY <2>1, <2>2 DEF InLevel, Range
<1> QED BY <1>1, <1>2, <1>3 DEF IsBook

(* Writing a level: the map has it, or has lost it if it is empty. *)
LEMMA SetLevelBook ==
    ASSUME NEW b, IsBook(b), NEW side \in Sides, NEW p \in Prices, NEW lv \in LevelRecords
    PROVE  LET new == SetLevel(b, side, p, lv)
           IN  /\ IsBook(new)
               /\ new.free = b.free /\ new.used = b.used /\ new.ord = b.ord /\ new.map = b.map
               /\ \A sd \in Sides : sd # side => new.levels[sd] = b.levels[sd]
               /\ new.levels[side] = IF lv.queue = <<>> THEN Drop(b.levels[side], p)
                                     ELSE Put(b.levels[side], p, lv)
<1> USE BookFields
<1>1. IsMap(Drop(b.levels[side], p), Prices, LevelRecords)
  BY DEF IsBook, IsMap, Drop
<1>2. IsMap(Put(b.levels[side], p, lv), Prices, LevelRecords)
  BY DEF IsBook, IsMap, Put
<1>3. CASE lv.queue = <<>>
  <2> DEFINE new == [b EXCEPT !.levels[side] = Drop(@, p),
                              !.best[side] = IF @ = p THEN Dangling ELSE @]
  <2>1. SetLevel(b, side, p, lv) = new
    BY <1>3 DEF SetLevel
  <2> DEFINE L == [b.levels EXCEPT ![side] = Drop(@, p)]
             B == [b.best EXCEPT ![side] = IF @ = p THEN Dangling ELSE @]
  <2>2. new = [b EXCEPT !.levels = L, !.best = B]
    OBVIOUS
  <2>3. new = [free |-> b.free, used |-> b.used, ord |-> b.ord, levels |-> L,
               map |-> b.map, best |-> B]
    <3> HIDE DEF new, L, B
    <3> QED BY <2>2 DEF IsBook
  <2>4. /\ L = [sd \in Sides |-> L[sd]]
        /\ L[side] = Drop(b.levels[side], p)
        /\ \A sd \in Sides : sd # side => L[sd] = b.levels[sd]
        /\ B \in [Sides -> Prices \cup {End, Dangling}]
    BY DEF IsBook
  <2> HIDE DEF new, L, B
  <2> QED BY <1>1, <1>3, <2>1, <2>3, <2>4 DEF IsBook
<1>4. CASE lv.queue # <<>>
  <2> DEFINE new == [b EXCEPT !.levels[side] = Put(@, p, lv)]
  <2>1. SetLevel(b, side, p, lv) = new
    BY <1>4 DEF SetLevel
  <2>2. /\ new = [free |-> b.free, used |-> b.used, ord |-> b.ord, levels |-> new.levels,
                  map |-> b.map, best |-> b.best]
        /\ new.levels = [b.levels EXCEPT ![side] = Put(@, p, lv)]
    BY DEF IsBook
  <2> HIDE DEF new
  <2> QED BY <1>2, <1>4, <2>1, <2>2 DEF IsBook
<1> QED BY <1>3, <1>4

(* A queued order is in the level of its side and price and in no other.   *)
LEMMA Home ==
    ASSUME NEW b, NEW held, Sound(b, held), NEW s \in Queued(b)
    PROVE  /\ s \in Slots /\ b.ord[s] \in OrderRecords
           /\ b.ord[s].side \in Sides /\ b.ord[s].price \in Prices
           /\ b.ord[s].price \in DOMAIN b.levels[b.ord[s].side]
           /\ s \in InLevel(b, b.ord[s].side, b.ord[s].price)
           /\ \A sd \in Sides : \A p \in DOMAIN b.levels[sd] :
                  s \in InLevel(b, sd, p) => sd = b.ord[s].side /\ p = b.ord[s].price
<1>1. s \in Slots /\ b.ord[s] \in OrderRecords
  BY DEF Queued, Sound, Occupied
<1>2. b.ord[s].side \in Sides /\ b.ord[s].price \in Prices
  BY <1>1 DEF OrderRecords
<1>3. \A sd \in Sides : \A p \in DOMAIN b.levels[sd] :
          s \in InLevel(b, sd, p) => sd = b.ord[s].side /\ p = b.ord[s].price
  BY DEF Sound, LevelShape, InLevel
<1> QED BY <1>1, <1>2, <1>3 DEF Queued

(* Orders may change in place, except for their side and price. *)
LEMMA UpdateOrders ==
    ASSUME NEW b, NEW held, Sound(b, held),
           NEW f \in [Slots -> OrderRecords \cup {NoOrder}],
           \A s \in Queued(b) \cup held :
               f[s] \in OrderRecords /\ f[s].side = b.ord[s].side /\ f[s].price = b.ord[s].price
    PROVE  LET new == [b EXCEPT !.ord = f]
           IN  /\ Sound(new, held)
               /\ Queued(new) = Queued(b) /\ Available(new) = Available(b)
               /\ new.ord = f /\ new.map = b.map /\ new.levels = b.levels
<1> DEFINE new == [b EXCEPT !.ord = f]
<1>1. IsBook(b)
  BY DEF Sound
<1>2. /\ new = [free |-> b.free, used |-> b.used, ord |-> f, levels |-> b.levels,
                map |-> b.map, best |-> b.best]
  BY <1>1, BookFields DEF IsBook
<1> HIDE DEF new
<1>3. IsBook(new)
  BY <1>1, <1>2 DEF IsBook
<1>4. Queued(new) = Queued(b) /\ Available(new) = Available(b)
  BY <1>2 DEF Queued, InLevel, Available
<1>5. Partition(new, held)
  BY <1>2, <1>4 DEF Sound, Partition
<1>6. LevelShape(new)
  <2> SUFFICES ASSUME NEW side \in Sides, NEW p \in DOMAIN b.levels[side]
               PROVE  /\ b.levels[side][p].queue # <<>>
                      /\ IsInjective(b.levels[side][p].queue)
                      /\ \A s \in Range(b.levels[side][p].queue) :
                             f[s].side = side /\ f[s].price = p
    BY <1>2 DEF LevelShape
  <2>1. \A s \in Range(b.levels[side][p].queue) : s \in Queued(b)
    BY <1>1, BookFields DEF Queued, InLevel
  <2> QED BY <2>1 DEF Sound, LevelShape
<1>7. Occupied(new, held)
  BY <1>2, <1>4 DEF Occupied
<1> QED BY <1>2, <1>3, <1>4, <1>5, <1>6, <1>7 DEF new, Sound

(* lv is the level of the order in slot s without that order. *)
Without(b, s, lv) ==
    /\ lv \in LevelRecords /\ IsInjective(lv.queue)
    /\ Range(lv.queue) = InLevel(b, b.ord[s].side, b.ord[s].price) \ {s}

Unlinked(b, new, held, s) ==
    /\ Sound(new, held \cup {s})
    /\ Queued(new) = Queued(b) \ {s}
    /\ new.ord = b.ord /\ new.map = b.map

(* Taking an order out of its level: it is held instead of queued. *)
LEMMA Unlink ==
    ASSUME NEW b, NEW held, Sound(b, held), NEW s \in Queued(b), NEW lv, Without(b, s, lv)
    PROVE  Unlinked(b, SetLevel(b, b.ord[s].side, b.ord[s].price, lv), held, s)
<1> DEFINE side == b.ord[s].side
           p == b.ord[s].price
           new == SetLevel(b, side, p, lv)
<1>0. /\ lv \in LevelRecords /\ IsInjective(lv.queue)
      /\ Range(lv.queue) = InLevel(b, side, p) \ {s}
  BY DEF Without
<1>1. IsBook(b) /\ side \in Sides /\ p \in Prices /\ p \in DOMAIN b.levels[side]
  BY Home DEF Sound
<1>2. /\ IsBook(new)
      /\ new.free = b.free /\ new.used = b.used /\ new.ord = b.ord /\ new.map = b.map
      /\ \A sd \in Sides : sd # side => new.levels[sd] = b.levels[sd]
      /\ new.levels[side] = IF lv.queue = <<>> THEN Drop(b.levels[side], p)
                            ELSE Put(b.levels[side], p, lv)
  BY <1>0, <1>1, SetLevelBook
<1> HIDE DEF new, side, p
<1>3. ASSUME NEW sd \in Sides, NEW q \in DOMAIN new.levels[sd]
      PROVE  /\ q \in DOMAIN b.levels[sd]
             /\ new.levels[sd][q] = IF sd = side /\ q = p THEN lv ELSE b.levels[sd][q]
             /\ sd = side /\ q = p => lv.queue # <<>>
             /\ InLevel(new, sd, q) = InLevel(b, sd, q) \ {s}
  <2>1. /\ q \in DOMAIN b.levels[sd]
        /\ new.levels[sd][q] = IF sd = side /\ q = p THEN lv ELSE b.levels[sd][q]
        /\ sd = side /\ q = p => lv.queue # <<>>
    BY <1>1, <1>2 DEF Drop, Put
  <2>2. CASE sd = side /\ q = p
    BY <1>0, <2>1, <2>2 DEF InLevel
  <2>3. CASE ~ (sd = side /\ q = p)
    <3>1. s \notin InLevel(b, sd, q)
      BY <2>1, <2>3, Home DEF side, p
    <3> QED BY <2>1, <2>3, <3>1 DEF InLevel
  <2> QED BY <2>1, <2>2, <2>3
<1>4. ASSUME NEW sd \in Sides, NEW q \in DOMAIN b.levels[sd], NEW x \in InLevel(b, sd, q), x # s
      PROVE  q \in DOMAIN new.levels[sd] /\ x \in InLevel(new, sd, q)
  <2>1. q \in DOMAIN new.levels[sd]
    <3>1. CASE sd = side /\ q = p
      <4>1. x \in Range(lv.queue)
        BY <1>0, <1>4, <3>1
      <4>2. lv.queue # <<>>
        BY <4>1 DEF Range
      <4> QED BY <1>2, <3>1, <4>2 DEF Put
    <3>2. CASE ~ (sd = side /\ q = p)
      BY <1>2, <3>2 DEF Put, Drop
    <3> QED BY <3>1, <3>2
  <2> QED BY <1>3, <1>4, <2>1
<1>5. Queued(new) = Queued(b) \ {s}
  BY <1>3, <1>4 DEF Queued
<1>6. Available(new) = Available(b)
  BY <1>2 DEF Available
<1>7. s \in Slots /\ b.ord[s] \in OrderRecords
  BY Home
<1>8. Partition(new, held \cup {s})
  <2>1. Partition(b, held)
    BY DEF Sound
  <2>2. \A i, j \in b.used .. PoolSize - 1 : b.free[i] = b.free[j] => i = j
    BY <2>1 DEF Partition
  <2>3. /\ Available(b) \cap Queued(b) = {}
        /\ held \cap (Available(b) \cup Queued(b)) = {}
        /\ Available(b) \cup Queued(b) \cup held = Slots
    BY <2>1 DEF Partition
  <2> QED BY <1>2, <1>5, <1>6, <1>7, <2>2, <2>3 DEF Partition
<1>9. LevelShape(new)
  <2> SUFFICES ASSUME NEW sd \in Sides, NEW q \in DOMAIN new.levels[sd]
               PROVE  /\ new.levels[sd][q].queue # <<>>
                      /\ IsInjective(new.levels[sd][q].queue)
                      /\ \A x \in InLevel(new, sd, q) : b.ord[x].side = sd /\ b.ord[x].price = q
    BY <1>2 DEF LevelShape, InLevel
  <2>1. /\ b.levels[sd][q].queue # <<>>
        /\ IsInjective(b.levels[sd][q].queue)
        /\ \A x \in InLevel(b, sd, q) : b.ord[x].side = sd /\ b.ord[x].price = q
    BY <1>3 DEF Sound, LevelShape, InLevel
  <2> QED BY <1>0, <1>3, <2>1
<1>10. Occupied(new, held \cup {s})
  BY <1>2, <1>5, <1>7 DEF Sound, Occupied
<1> QED BY <1>2, <1>5, <1>8, <1>9, <1>10 DEF Sound, Unlinked, new, side, p

(* A free list with nothing handed out holds every slot: as many entries as*)
(* slots and no two alike.                                                 *)
LEMMA FullPool ==
    ASSUME NEW b, NEW held, Sound(b, held), b.used = 0
    PROVE  Available(b) = Slots
<1>1. b.free \in [Slots -> Slots] /\ \A i, j \in Slots : b.free[i] = b.free[j] => i = j
  BY DEF Sound, IsBook, Partition, Slots
<1>2. b.free \in Injection(Slots, Slots)
  BY <1>1 DEF Injection, IsInjective
<1>3. IsFiniteSet(Slots)
  BY FS_Interval DEF Slots
<1>4. b.free \in Surjection(Slots, Slots)
  BY <1>2, <1>3, FS_Injection
<1>5. \A s \in Slots : \E i \in Slots : b.free[i] = s
  BY <1>4 DEF Surjection
<1>6. b.used .. PoolSize - 1 = Slots
  BY DEF Slots
<1>7. Available(b) = {b.free[i] : i \in Slots}
  BY <1>6 DEF Available
<1> QED BY <1>1, <1>5, <1>7

(* Giving a held slot back. *)
LEMMA Release ==
    ASSUME NEW b, NEW held, NEW s \in Slots, s \notin held, Sound(b, held \cup {s})
    PROVE  LET new == Deallocate(b, s)
           IN  /\ Sound(new, held)
               /\ Queued(new) = Queued(b)
               /\ new.ord = b.ord /\ new.map = b.map /\ new.levels = b.levels
<1> DEFINE new == Deallocate(b, s)
<1>1. IsBook(b) /\ b.used \in Nat /\ b.used <= PoolSize
  BY BookFields DEF Sound
<1>2. /\ Available(b) \cap Queued(b) = {}
      /\ s \notin Available(b) /\ s \notin Queued(b)
      /\ held \cap (Available(b) \cup Queued(b)) = {}
      /\ Available(b) \cup Queued(b) \cup held \cup {s} = Slots
      /\ \A i, j \in b.used .. PoolSize - 1 : b.free[i] = b.free[j] => i = j
  BY DEF Sound, Partition
<1>3. b.used > 0
  BY <1>1, <1>2, FullPool
<1>4. new = [free |-> [b.free EXCEPT ![b.used - 1] = s], used |-> b.used - 1, ord |-> b.ord,
             levels |-> b.levels, map |-> b.map, best |-> b.best]
  BY <1>1, <1>3, BookFields DEF Deallocate, IsBook
<1> HIDE DEF new
<1>5. b.used - 1 \in Slots /\ b.used - 1 \in 0 .. PoolSize /\ b.free \in [Slots -> Slots]
  BY <1>1, <1>3 DEF Slots, IsBook
<1>6. IsBook(new)
  BY <1>1, <1>4, <1>5 DEF IsBook
<1>7. /\ new.free[b.used - 1] = s
      /\ \A i \in b.used .. PoolSize - 1 : new.free[i] = b.free[i]
      /\ \A i \in new.used .. PoolSize - 1 : i = b.used - 1 \/ i \in b.used .. PoolSize - 1
  <2>1. new.free = [b.free EXCEPT ![b.used - 1] = s] /\ new.used = b.used - 1
    BY <1>4
  <2> DEFINE u == b.used
  <2>2. u \in Nat /\ u > 0 /\ u - 1 \in Slots
    BY <1>1, <1>3, <1>5
  <2>3. \A i \in u .. PoolSize - 1 : i \in Slots /\ i # u - 1
    BY <2>2 DEF Slots
  <2>4. \A i \in u - 1 .. PoolSize - 1 : i = u - 1 \/ i \in u .. PoolSize - 1
    BY <2>2
  <2> QED BY <1>5, <2>1, <2>2, <2>3, <2>4
<1>8. Available(new) = Available(b) \cup {s}
  <2>1. b.used - 1 \in new.used .. PoolSize - 1
    BY <1>1, <1>3, <1>4
  <2>2. \A i \in b.used .. PoolSize - 1 : i \in new.used .. PoolSize - 1
    BY <1>1, <1>3, <1>4
  <2> QED BY <1>7, <2>1, <2>2 DEF Available
<1>9. \A i, j \in new.used .. PoolSize - 1 : new.free[i] = new.free[j] => i = j
  <2>1. \A i \in b.used .. PoolSize - 1 : b.free[i] # s
    BY <1>2 DEF Available
  <2> QED BY <1>2, <1>7, <2>1
<1>10. Queued(new) = Queued(b)
  BY <1>4 DEF Queued, InLevel
<1>11. Partition(new, held)
  BY <1>2, <1>8, <1>9, <1>10 DEF Partition
<1>12. LevelShape(new) /\ Occupied(new, held)
  BY <1>4, <1>10 DEF Sound, LevelShape, Occupied
<1> QED BY <1>4, <1>6, <1>10, <1>11, <1>12 DEF Sound, new

(* Taking a slot from the pool and writing an order into it. *)
LEMMA Construction ==
    ASSUME NEW b, Sound(b, {}), ~ Exhausted(b), NEW o \in OrderRecords
    PROVE  LET new == Construct(b, o)
               s == NextSlot(b)
           IN  /\ Sound(new, {s})
               /\ Queued(new) = Queued(b)
               /\ s \in Slots /\ s \notin Queued(b)
               /\ new.ord = [b.ord EXCEPT ![s] = o]
               /\ new.map = b.map /\ new.levels = b.levels
<1> DEFINE new == Construct(b, o)
           s == NextSlot(b)
<1>1. IsBook(b) /\ b.used \in Nat /\ b.used < PoolSize /\ b.free \in [Slots -> Slots]
  BY BookFields DEF Sound, Exhausted, IsBook
<1>2. /\ Available(b) \cap Queued(b) = {}
      /\ Available(b) \cup Queued(b) = Slots
      /\ \A i, j \in b.used .. PoolSize - 1 : b.free[i] = b.free[j] => i = j
  BY DEF Sound, Partition
<1>3. s \in Slots /\ s \in Available(b)
  <2>1. b.used \in Slots /\ b.used \in b.used .. PoolSize - 1
    BY <1>1, BookAssumption DEF Slots
  <2>2. s = b.free[b.used]
    BY DEF NextSlot
  <2> HIDE DEF s
  <2>3. s \in Slots
    BY <1>1, <2>1, <2>2
  <2> QED BY <2>1, <2>2, <2>3 DEF Available
<1>4. new = [free |-> b.free, used |-> b.used + 1, ord |-> [b.ord EXCEPT ![s] = o],
             levels |-> b.levels, map |-> b.map, best |-> b.best]
  <2>1. Allocate(b) = [free |-> b.free, used |-> b.used + 1, ord |-> b.ord,
                       levels |-> b.levels, map |-> b.map, best |-> b.best]
    BY <1>1, BookFields DEF Allocate, IsBook
  <2>2. new = [Allocate(b) EXCEPT !.ord = [b.ord EXCEPT ![s] = o]]
    BY <2>1 DEF Construct
  <2> HIDE DEF new, s
  <2> QED BY <2>1, <2>2
<1> HIDE DEF new
<1>5. IsBook(new)
  BY <1>1, <1>3, <1>4 DEF IsBook
<1>6. Available(new) = Available(b) \ {s}
  <2>1. \A i \in b.used + 1 .. PoolSize - 1 : i \in b.used .. PoolSize - 1 /\ i # b.used
    BY <1>1
  <2>2. \A i \in b.used .. PoolSize - 1 : i = b.used \/ i \in b.used + 1 .. PoolSize - 1
    BY <1>1
  <2>3. b.used \in b.used .. PoolSize - 1
    BY <1>1
  <2> QED BY <1>2, <1>4, <2>1, <2>2, <2>3 DEF Available, NextSlot
<1>7. Queued(new) = Queued(b)
  BY <1>4 DEF Queued, InLevel
<1>8. Partition(new, {s})
  <2>1. \A i, j \in new.used .. PoolSize - 1 : new.free[i] = new.free[j] => i = j
    BY <1>1, <1>2, <1>4
  <2> QED BY <1>2, <1>3, <1>6, <1>7, <2>1 DEF Partition
<1>9. \A x \in Queued(b) : new.ord[x] = b.ord[x]
  BY <1>2, <1>3, <1>4
<1>10. LevelShape(new)
  <2>1. \A side \in Sides : \A p \in DOMAIN b.levels[side] : \A x \in InLevel(b, side, p) :
            x \in Queued(b)
    BY <1>1, BookFields DEF Queued
  <2> QED BY <1>4, <1>9, <2>1 DEF Sound, LevelShape, InLevel
<1>11. Occupied(new, {s})
  <2>1. new.ord[s] = o
    BY <1>1, <1>3, <1>4 DEF IsBook
  <2> QED BY <1>7, <1>9, <2>1 DEF Sound, Occupied
<1> QED BY <1>2, <1>3, <1>4, <1>5, <1>7, <1>8, <1>10, <1>11 DEF Sound, new

(* The cached iterators matter to no one else. *)
LEMMA NewBest ==
    ASSUME NEW b, NEW held, Sound(b, held), NEW c \in [Sides -> Prices \cup {End, Dangling}]
    PROVE  LET new == [b EXCEPT !.best = c]
           IN  /\ Sound(new, held)
               /\ Queued(new) = Queued(b)
               /\ new.ord = b.ord /\ new.map = b.map /\ new.levels = b.levels
<1> DEFINE new == [b EXCEPT !.best = c]
<1>1. IsBook(b)
  BY DEF Sound
<1>2. new = [free |-> b.free, used |-> b.used, ord |-> b.ord, levels |-> b.levels,
             map |-> b.map, best |-> c]
  BY <1>1, BookFields DEF IsBook
<1> HIDE DEF new
<1>3. IsBook(new)
  BY <1>1, <1>2 DEF IsBook
<1>4. Queued(new) = Queued(b) /\ Available(new) = Available(b)
  BY <1>2 DEF Queued, InLevel, Available
<1>5. Partition(new, held) /\ LevelShape(new) /\ Occupied(new, held)
  BY <1>2, <1>4 DEF Sound, Partition, LevelShape, Occupied
<1> QED BY <1>2, <1>3, <1>4, <1>5 DEF Sound, new

LEMMA BeginType ==
    ASSUME NEW b, IsBook(b), NEW side \in Sides
    PROVE  Begin(side, b.levels[side]) \in Prices \cup {End}
<1>1. DOMAIN b.levels[side] \subseteq Prices
  BY DEF IsBook, IsMap
<1> QED BY <1>1, BeginIsBest

LEMMA Refresh ==
    ASSUME NEW b, NEW held, Sound(b, held)
    PROVE  LET new == RefreshBoth(b)
           IN  /\ Sound(new, held)
               /\ Queued(new) = Queued(b)
               /\ new.ord = b.ord /\ new.map = b.map /\ new.levels = b.levels
<1>1. [side \in Sides |-> Begin(side, b.levels[side])] \in [Sides -> Prices \cup {End, Dangling}]
  BY BeginType DEF Sound
<1> QED BY <1>1, NewBest DEF RefreshBoth

LEMMA RefreshOne ==
    ASSUME NEW b, NEW held, Sound(b, held), NEW side \in Sides, NEW p
    PROVE  LET new == RefreshSide(b, side, p)
           IN  /\ Sound(new, held)
               /\ Queued(new) = Queued(b)
               /\ new.ord = b.ord /\ new.map = b.map /\ new.levels = b.levels
<1>1. CASE RefreshSide(b, side, p) = b
  BY <1>1
<1>2. CASE RefreshSide(b, side, p) = [b EXCEPT !.best[side] = Begin(side, b.levels[side])]
  <2> DEFINE c == [b.best EXCEPT ![side] = Begin(side, b.levels[side])]
  <2>1. c \in [Sides -> Prices \cup {End, Dangling}]
    BY BeginType DEF Sound, IsBook
  <2>2. RefreshSide(b, side, p) = [b EXCEPT !.best = c]
    BY <1>2
  <2> HIDE DEF c
  <2> QED BY <2>1, <2>2, NewBest
<1> QED BY <1>1, <1>2 DEF RefreshSide

(* Putting the held order at the back of its level. *)
LEMMA Rests ==
    ASSUME NEW b, NEW s \in Slots, Sound(b, {s}), MapLeadsToQueued(b),
           b.ord[s].state \in {"New", "PartFill"}
    PROVE  LET new == AddResting(b, s)
           IN  Sound(new, {}) /\ MapLeadsToQueued(new) /\ Queued(new) = Queued(b) \cup {s}
<1> DEFINE o == b.ord[s]
           side == o.side
           p == o.price
           old == LevelAt(b, side, p)
           lv == PushBack(old, s, o.rem)
           m == Put(b.map, o.id, s)
           ls == [b.levels EXCEPT ![side] = Put(@, p, lv)]
           b1 == [b EXCEPT !.map = Put(@, o.id, s), !.levels[side] = Put(@, p, lv)]
<1>1. IsBook(b) /\ o \in OrderRecords
  BY DEF Sound, Occupied
<1>2. side \in Sides /\ p \in Prices /\ o.id \in Ids /\ o.rem \in Int
  BY <1>1 DEF OrderRecords, Quantities
<1>3. /\ Available(b) \cap Queued(b) = {}
      /\ s \notin Available(b) /\ s \notin Queued(b)
      /\ Available(b) \cup Queued(b) \cup {s} = Slots
      /\ \A i, j \in b.used .. PoolSize - 1 : b.free[i] = b.free[j] => i = j
  BY DEF Sound, Partition
<1>4. /\ old \in LevelRecords /\ IsInjective(old.queue) /\ s \notin Range(old.queue)
      /\ Range(old.queue) = IF p \in DOMAIN b.levels[side] THEN InLevel(b, side, p) ELSE {}
      /\ \A x \in Range(old.queue) : b.ord[x].side = side /\ b.ord[x].price = p
  <2>1. CASE p \in DOMAIN b.levels[side]
    <3>1. old = b.levels[side][p] /\ old \in LevelRecords
      BY <1>1, <1>2, <2>1, BookFields DEF LevelAt
    <3>2. s \notin InLevel(b, side, p)
      BY <1>1, <1>2, <1>3, <2>1 DEF Queued
    <3> HIDE DEF old, side, p
    <3> QED BY <1>2, <2>1, <3>1, <3>2 DEF InLevel, Sound, LevelShape
  <2>2. CASE p \notin DOMAIN b.levels[side]
    <3>1. old = NewLevel
      BY <2>2 DEF LevelAt
    <3>2. NewLevel \in LevelRecords
      BY DEF NewLevel, LevelRecords
    <3>3. Range(NewLevel.queue) = {} /\ IsInjective(NewLevel.queue)
      BY DEF NewLevel, Range, IsInjective
    <3> HIDE DEF old, side, p
    <3> QED BY <2>2, <3>1, <3>2, <3>3
  <2> QED BY <2>1, <2>2
<1>5. /\ lv \in LevelRecords /\ lv.queue # <<>> /\ IsInjective(lv.queue)
      /\ Range(lv.queue) = Range(old.queue) \cup {s}
  <2> HIDE DEF old, o
  <2> QED BY <1>2, <1>4, PushBackQueue DEF o
<1> HIDE DEF old, lv
<1>6. b1 = [free |-> b.free, used |-> b.used, ord |-> b.ord, levels |-> ls,
            map |-> m, best |-> b.best]
  <2>1. b1 = [b EXCEPT !.map = m, !.levels = ls]
    OBVIOUS
  <2> HIDE DEF b1, m, ls
  <2> QED BY <1>1, <2>1 DEF IsBook
<1>7. /\ ls = [sd \in Sides |-> ls[sd]]
      /\ ls[side] = Put(b.levels[side], p, lv)
      /\ \A sd \in Sides : sd # side => ls[sd] = b.levels[sd]
  BY <1>1, <1>2 DEF IsBook
<1> HIDE DEF b1, m, ls, side, p
<1>8. IsBook(b1)
  <2>1. IsMap(m, Ids, Slots)
    BY <1>1, <1>2 DEF IsBook, IsMap, Put, m
  <2>2. IsMap(Put(b.levels[side], p, lv), Prices, LevelRecords)
    BY <1>1, <1>2, <1>5 DEF IsBook, IsMap, Put
  <2> QED BY <1>1, <1>6, <1>7, <2>1, <2>2 DEF IsBook
<1>9. /\ \A sd \in Sides : \A q \in DOMAIN b1.levels[sd] :
             \/ sd = side /\ q = p /\ b1.levels[sd][q] = lv
             \/ ~ (sd = side /\ q = p) /\ q \in DOMAIN b.levels[sd]
                    /\ b1.levels[sd][q] = b.levels[sd][q]
      /\ \A sd \in Sides : \A q \in DOMAIN b.levels[sd] : q \in DOMAIN b1.levels[sd]
      /\ p \in DOMAIN b1.levels[side] /\ b1.levels[side][p] = lv
  BY <1>2, <1>6, <1>7 DEF Put
<1>10. Queued(b1) = Queued(b) \cup {s}
  <2>1. ASSUME NEW x \in Queued(b1) PROVE x \in Queued(b) \cup {s}
    <3>1. PICK sd \in Sides : \E q \in DOMAIN b1.levels[sd] : x \in InLevel(b1, sd, q)
      BY <2>1 DEF Queued
    <3>2. PICK q \in DOMAIN b1.levels[sd] : x \in InLevel(b1, sd, q)
      BY <3>1
    <3>3. x \in Slots
      BY <2>1 DEF Queued
    <3>4. CASE sd = side /\ q = p
      <4>1. x \in Range(old.queue) \cup {s}
        BY <1>5, <1>9, <3>2, <3>4 DEF InLevel
      <4>2. CASE x \in Range(old.queue)
        <5>1. p \in DOMAIN b.levels[side] /\ x \in InLevel(b, side, p)
          BY <1>4, <4>2 DEF side, p
        <5> QED BY <1>2, <3>3, <5>1 DEF Queued
      <4> QED BY <4>1, <4>2
    <3>5. CASE ~ (sd = side /\ q = p)
      <4>1. q \in DOMAIN b.levels[sd] /\ x \in InLevel(b, sd, q)
        BY <1>9, <3>2, <3>5 DEF InLevel
      <4> QED BY <3>3, <4>1 DEF Queued
    <3> QED BY <3>4, <3>5
  <2>2. ASSUME NEW x \in Queued(b) PROVE x \in Queued(b1)
    <3>1. PICK sd \in Sides : \E q \in DOMAIN b.levels[sd] : x \in InLevel(b, sd, q)
      BY <2>2 DEF Queued
    <3>2. PICK q \in DOMAIN b.levels[sd] : x \in InLevel(b, sd, q)
      BY <3>1
    <3>3. x \in Slots
      BY <2>2 DEF Queued
    <3>4. q \in DOMAIN b1.levels[sd]
      BY <1>9
    <3>5. x \in InLevel(b1, sd, q)
      <4>1. CASE sd = side /\ q = p
        <5>1. x \in Range(old.queue)
          BY <1>4, <3>2, <4>1
        <5> QED BY <1>5, <1>9, <4>1, <5>1 DEF InLevel
      <4>2. CASE ~ (sd = side /\ q = p)
        BY <1>9, <3>2, <3>4, <4>2 DEF InLevel
      <4> QED BY <4>1, <4>2
    <3> QED BY <3>3, <3>4, <3>5 DEF Queued
  <2>3. s \in Queued(b1)
    <3>1. s \in InLevel(b1, side, p)
      BY <1>5, <1>9 DEF InLevel
    <3> QED BY <1>2, <1>9, <3>1 DEF Queued
  <2> QED BY <2>1, <2>2, <2>3
<1>11. Partition(b1, {})
  <2>1. Available(b1) = Available(b) /\ b1.used = b.used /\ b1.free = b.free
    BY <1>6 DEF Available
  <2> QED BY <1>3, <1>10, <2>1 DEF Partition
<1>12. LevelShape(b1)
  <2> SUFFICES ASSUME NEW sd \in Sides, NEW q \in DOMAIN b1.levels[sd]
               PROVE  /\ b1.levels[sd][q].queue # <<>>
                      /\ IsInjective(b1.levels[sd][q].queue)
                      /\ \A x \in Range(b1.levels[sd][q].queue) :
                             b.ord[x].side = sd /\ b.ord[x].price = q
    BY <1>6 DEF LevelShape
  <2>1. CASE sd = side /\ q = p
    <3>1. b1.levels[sd][q] = lv
      BY <1>9, <2>1
    <3>2. \A x \in Range(lv.queue) : b.ord[x].side = sd /\ b.ord[x].price = q
      BY <1>4, <1>5, <2>1 DEF side, p
    <3> QED BY <1>5, <3>1, <3>2
  <2>2. CASE ~ (sd = side /\ q = p)
    BY <1>9, <2>2 DEF Sound, LevelShape
  <2> QED BY <2>1, <2>2
<1>13. Occupied(b1, {})
  BY <1>1, <1>6, <1>10 DEF Sound, Occupied
<1>14. Sound(b1, {})
  BY <1>8, <1>11, <1>12, <1>13 DEF Sound
<1>15. MapLeadsToQueued(b1)
  <2> SUFFICES ASSUME NEW id \in DOMAIN m
               PROVE  /\ m[id] \in Queued(b) \cup {s}
                      /\ b.ord[m[id]].id = id
                      /\ b.ord[m[id]].state \in {"New", "PartFill"}
    BY <1>6, <1>10 DEF MapLeadsToQueued
  <2>1. CASE id = o.id
    BY <2>1 DEF m, Put
  <2>2. CASE id # o.id
    BY <2>2 DEF m, Put, MapLeadsToQueued
  <2> QED BY <2>1, <2>2
<1>16. AddResting(b, s) = RefreshSide(b1, side, p)
  BY DEF AddResting, b1, lv, old, side, p
<1> DEFINE new == RefreshSide(b1, side, p)
<1>17. Sound(new, {}) /\ Queued(new) = Queued(b1) /\ new.ord = b1.ord /\ new.map = b1.map
  BY <1>2, <1>14, RefreshOne
<1> HIDE DEF new
<1>18. MapLeadsToQueued(new)
  BY <1>15, <1>17 DEF MapLeadsToQueued
<1> QED BY <1>10, <1>16, <1>17, <1>18 DEF new

(* Forgetting an id. *)
LEMMA Forget ==
    ASSUME NEW b, NEW held, Sound(b, held), NEW id
    PROVE  LET new == [b EXCEPT !.map = Drop(@, id)]
           IN  /\ Sound(new, held)
               /\ Queued(new) = Queued(b)
               /\ new.ord = b.ord /\ new.map = Drop(b.map, id) /\ new.levels = b.levels
<1> DEFINE new == [b EXCEPT !.map = Drop(@, id)]
<1>1. IsBook(b)
  BY DEF Sound
<1>2. new = [free |-> b.free, used |-> b.used, ord |-> b.ord, levels |-> b.levels,
             map |-> Drop(b.map, id), best |-> b.best]
  BY <1>1, BookFields DEF IsBook
<1> HIDE DEF new
<1>3. IsMap(Drop(b.map, id), Ids, Slots)
  BY <1>1 DEF IsBook, IsMap, Drop
<1>4. IsBook(new)
  BY <1>1, <1>2, <1>3 DEF IsBook
<1>5. Queued(new) = Queued(b) /\ Available(new) = Available(b)
  BY <1>2 DEF Queued, InLevel, Available
<1>6. Partition(new, held) /\ LevelShape(new) /\ Occupied(new, held)
  BY <1>2, <1>5 DEF Sound, Partition, LevelShape, Occupied
<1> QED BY <1>2, <1>4, <1>5, <1>6 DEF Sound, new

(* An order that has been unlinked leaves the id map and the pool: nothing *)
(* is left that leads to its slot.                                         *)
LEMMA Retirement ==
    ASSUME NEW b, NEW held, NEW s \in Slots, s \notin held, Sound(b, held \cup {s}),
           NEW id, id = b.ord[s].id,
           \A x \in DOMAIN b.map : /\ b.map[x] \in Queued(b) \cup {s}
                                   /\ b.ord[b.map[x]].id = x
                                   /\ b.map[x] # s => b.ord[b.map[x]].state \in {"New", "PartFill"}
    PROVE  LET new == Retire(b, s, id)
           IN  /\ Sound(new, held) /\ MapLeadsToQueued(new)
               /\ Queued(new) = Queued(b) /\ new.ord = b.ord
<1> DEFINE b1 == [b EXCEPT !.map = Drop(@, id)]
           new == Deallocate(b1, s)
<1>1. /\ Sound(b1, held \cup {s}) /\ Queued(b1) = Queued(b)
      /\ b1.ord = b.ord /\ b1.map = Drop(b.map, id)
  BY Forget
<1> HIDE DEF b1
<1>2. /\ Sound(new, held) /\ Queued(new) = Queued(b1)
      /\ new.ord = b1.ord /\ new.map = b1.map
  BY <1>1, Release
<1> HIDE DEF new
<1>3. MapLeadsToQueued(new)
  <2> SUFFICES ASSUME NEW x \in DOMAIN b.map, x # id
               PROVE  /\ b.map[x] \in Queued(b)
                      /\ b.ord[b.map[x]].id = x
                      /\ b.ord[b.map[x]].state \in {"New", "PartFill"}
    BY <1>1, <1>2 DEF MapLeadsToQueued, Drop
  <2> DEFINE t == b.map[x]
  <2>1. /\ t \in Queued(b) \cup {s} /\ b.ord[t].id = x
        /\ t # s => b.ord[t].state \in {"New", "PartFill"}
    OBVIOUS
  <2> HIDE DEF t
  <2>2. t # s
    BY <2>1
  <2>3. t \in Queued(b) /\ b.ord[t].id = x /\ b.ord[t].state \in {"New", "PartFill"}
    BY <2>1, <2>2
  <2> QED BY <2>3 DEF t
<1>4. new = Retire(b, s, id)
  BY DEF Retire, b1, new
<1> QED BY <1>1, <1>2, <1>3, <1>4

(* cancel *)
LEMMA Cancels ==
    ASSUME NEW b, Sound(b, {}), MapLeadsToQueued(b), NEW id, Cancellable(b, id)
    PROVE  LET new == CancelOrder(b, id)
           IN  /\ Sound(new, {}) /\ MapLeadsToQueued(new)
               /\ Queued(new) = Queued(b) \ {b.map[id]}
<1> DEFINE s == b.map[id]
           o == b.ord[s]
           f == [b.ord EXCEPT ![s].state = "Cancelled"]
           b1 == [b EXCEPT !.ord[s].state = "Cancelled"]
           lv == RemoveFrom(b.levels[o.side][o.price], s, o.rem)
           b2 == SetLevel(b1, o.side, o.price, lv)
           b3 == Retire(b2, s, id)
           none == {}
<1>1. s \in Queued(b) /\ o.id = id
  BY DEF Cancellable, MapLeadsToQueued
<1>2. IsBook(b)
  BY DEF Sound
<1>3. /\ s \in Slots /\ o \in OrderRecords /\ o.side \in Sides /\ o.price \in Prices
      /\ o.price \in DOMAIN b.levels[o.side] /\ s \in InLevel(b, o.side, o.price)
  BY <1>1, Home
<1>4. /\ f \in [Slots -> OrderRecords \cup {NoOrder}]
      /\ f[s] = [o EXCEPT !.state = "Cancelled"] /\ f[s] \in OrderRecords
      /\ f[s].side = o.side /\ f[s].price = o.price /\ f[s].id = o.id
      /\ \A x \in Slots : x # s => f[x] = b.ord[x]
  BY <1>2, <1>3 DEF IsBook, OrderRecords
<1>5. b1 = [b EXCEPT !.ord = f]
  BY <1>2
<1> HIDE DEF b1, f
<1>6. /\ Sound(b1, {}) /\ Queued(b1) = Queued(b)
      /\ b1.ord = f /\ b1.map = b.map /\ b1.levels = b.levels
  <2>1. \A x \in Queued(b) \cup {} :
            f[x] \in OrderRecords /\ f[x].side = b.ord[x].side /\ f[x].price = b.ord[x].price
    BY <1>3, <1>4 DEF Sound, Occupied, Queued
  <2> QED BY <1>4, <1>5, <2>1, UpdateOrders
<1>7. /\ lv \in LevelRecords /\ IsInjective(lv.queue)
      /\ Range(lv.queue) = InLevel(b, o.side, o.price) \ {s}
  <2>1. b.levels[o.side][o.price] \in LevelRecords
    BY <1>2, <1>3, BookFields
  <2>2. IsInjective(b.levels[o.side][o.price].queue)
    BY <1>3 DEF Sound, LevelShape
  <2> HIDE DEF o, s
  <2>3. s \in Range(b.levels[o.side][o.price].queue)
    BY <1>3 DEF InLevel
  <2>4. o.rem \in Quantities
    BY <1>3 DEF OrderRecords
  <2>5. o.rem \in Int
    BY <2>4, BookAssumption DEF Quantities
  <2> QED BY <2>1, <2>2, <2>3, <2>5, RemoveQueue DEF InLevel
<1> HIDE DEF lv
<1>8. /\ Sound(b2, none \cup {s}) /\ Queued(b2) = Queued(b) \ {s}
      /\ b2.ord = f /\ b2.map = b.map
  <2>1. s \in Queued(b1) /\ b1.ord[s].side = o.side /\ b1.ord[s].price = o.price
    BY <1>1, <1>4, <1>6
  <2>2. Without(b1, s, lv)
    BY <1>6, <1>7, <2>1 DEF InLevel, Without
  <2> DEFINE c == SetLevel(b1, b1.ord[s].side, b1.ord[s].price, lv)
  <2>0. Sound(b1, none)
    BY <1>6
  <2>3. b2 = c
    BY <2>1
  <2> HIDE DEF b2, o, s, none
  <2>4. /\ Sound(c, none \cup {s}) /\ Queued(c) = Queued(b1) \ {s}
        /\ c.ord = b1.ord /\ c.map = b1.map
    <3>1. Unlinked(b1, c, none, s)
      BY <2>0, <2>1, <2>2, Unlink
    <3> HIDE DEF c
    <3> QED BY <3>1 DEF Unlinked
  <2> HIDE DEF c
  <2> QED BY <1>6, <2>3, <2>4
<1> HIDE DEF b2
<1>9. Sound(b3, {}) /\ MapLeadsToQueued(b3) /\ Queued(b3) = Queued(b2)
  <2>1. ASSUME NEW x \in DOMAIN b2.map
        PROVE  /\ b2.map[x] \in Queued(b2) \cup {s}
               /\ b2.ord[b2.map[x]].id = x
               /\ b2.map[x] # s => b2.ord[b2.map[x]].state \in {"New", "PartFill"}
    <3>1. x \in DOMAIN b.map /\ b2.map[x] = b.map[x]
      BY <1>8
    <3>2. /\ b.map[x] \in Queued(b) /\ b.ord[b.map[x]].id = x
          /\ b.ord[b.map[x]].state \in {"New", "PartFill"}
      BY <3>1 DEF MapLeadsToQueued
    <3>3. b.map[x] \in Slots
      BY <3>2 DEF Queued
    <3>4. CASE b.map[x] = s
      BY <1>4, <1>8, <3>1, <3>2, <3>4
    <3>5. CASE b.map[x] # s
      BY <1>4, <1>8, <3>1, <3>2, <3>3, <3>5
    <3> QED BY <3>4, <3>5
  <2>2. id = b2.ord[s].id
    BY <1>1, <1>4, <1>8
  <2>3. s \in Slots /\ s \notin none
    BY <1>3
  <2> HIDE DEF s, none
  <2>4. /\ Sound(Retire(b2, s, id), none) /\ MapLeadsToQueued(Retire(b2, s, id))
        /\ Queued(Retire(b2, s, id)) = Queued(b2)
    BY <1>8, <2>1, <2>2, <2>3, Retirement
  <2> QED BY <2>4 DEF none
<1>10. CancelOrder(b, id) = RefreshBoth(b3)
  BY <1>3 DEF CancelOrder, b1, b2, lv
<1> HIDE DEF b3
<1>11. /\ Sound(RefreshBoth(b3), {}) /\ Queued(RefreshBoth(b3)) = Queued(b3)
       /\ RefreshBoth(b3).ord = b3.ord /\ RefreshBoth(b3).map = b3.map
  BY <1>9, Refresh
<1>12. MapLeadsToQueued(RefreshBoth(b3))
  BY <1>9, <1>11 DEF MapLeadsToQueued
<1> QED BY <1>8, <1>9, <1>10, <1>11, <1>12

(* Writing a level whose queue has not changed. *)
LEMMA SameQueue ==
    ASSUME NEW b, NEW held, Sound(b, held), NEW side \in Sides,
           NEW p \in DOMAIN b.levels[side],
           NEW lv \in LevelRecords, lv.queue = b.levels[side][p].queue
    PROVE  LET new == SetLevel(b, side, p, lv)
           IN  /\ Sound(new, held)
               /\ Queued(new) = Queued(b)
               /\ new.ord = b.ord /\ new.map = b.map
<1> DEFINE new == SetLevel(b, side, p, lv)
<1>1. IsBook(b) /\ p \in Prices /\ lv.queue # <<>>
  BY BookFields DEF Sound, LevelShape
<1>2. /\ IsBook(new)
      /\ new.free = b.free /\ new.used = b.used /\ new.ord = b.ord /\ new.map = b.map
      /\ \A sd \in Sides : sd # side => new.levels[sd] = b.levels[sd]
      /\ new.levels[side] = Put(b.levels[side], p, lv)
  BY <1>1, SetLevelBook
<1> HIDE DEF new
<1>3. \A sd \in Sides :
          /\ DOMAIN new.levels[sd] = DOMAIN b.levels[sd]
          /\ \A q \in DOMAIN b.levels[sd] : new.levels[sd][q].queue = b.levels[sd][q].queue
  <2> TAKE sd \in Sides
  <2>1. CASE sd # side
    BY <1>2, <2>1
  <2>2. CASE sd = side
    <3> DEFINE f == b.levels[side]
    <3>1. DOMAIN Put(f, p, lv) = DOMAIN f /\ \A q \in DOMAIN f : Put(f, p, lv)[q].queue = f[q].queue
      BY DEF Put
    <3> QED BY <1>2, <2>2, <3>1
  <2> QED BY <2>1, <2>2
<1>4. Queued(new) = Queued(b) /\ Available(new) = Available(b)
  BY <1>2, <1>3 DEF Queued, InLevel, Available
<1>5. Partition(new, held) /\ Occupied(new, held)
  BY <1>2, <1>4 DEF Sound, Partition, Occupied
<1>6. LevelShape(new)
  <2> SUFFICES ASSUME NEW sd \in Sides, NEW q \in DOMAIN b.levels[sd]
               PROVE  LET queue == b.levels[sd][q].queue
                      IN  /\ queue # <<>>
                          /\ IsInjective(queue)
                          /\ \A s \in Range(queue) : b.ord[s].side = sd /\ b.ord[s].price = q
    BY <1>2, <1>3 DEF LevelShape
  <2> QED BY DEF Sound, LevelShape
<1> QED BY <1>2, <1>4, <1>5, <1>6 DEF Sound, new

(* The order that match() finds at the head of the best opposite level. *)
LEMMA Opposite ==
    ASSUME NEW b, NEW s \in Slots, Sound(b, {s}), CanFill(b, s)
    PROVE  LET side == Other(b.ord[s].side)
               p == Begin(side, b.levels[side])
               old == b.levels[side][p]
               r == Passive(b, s)
           IN  /\ side \in Sides /\ side # b.ord[s].side
               /\ p \in DOMAIN b.levels[side] /\ p \in Prices
               /\ old \in LevelRecords /\ old.queue \in Seq(Slots) /\ old.queue # <<>>
               /\ IsInjective(old.queue)
               /\ r = old.queue[1] /\ r \in Range(old.queue) /\ r \in InLevel(b, side, p)
               /\ r \in Slots /\ r \in Queued(b) /\ r # s
               /\ b.ord[r] \in OrderRecords /\ b.ord[r].side = side /\ b.ord[r].price = p
<1> DEFINE o == b.ord[s]
           side == Other(o.side)
           p == Begin(side, b.levels[side])
           r == Passive(b, s)
           old == b.levels[side][p]
           held == {s}
<1>1. IsBook(b) /\ side \in Sides /\ side # o.side
  BY DEF Sound, Occupied, OrderRecords, Other, Sides
<1>2. p \in DOMAIN b.levels[side] /\ p \in Prices
  <2>1. DOMAIN b.levels[side] \subseteq Prices
    BY <1>1 DEF IsBook, IsMap
  <2>2. p # End
    BY DEF CanFill
  <2> HIDE DEF side
  <2> QED BY <1>1, <2>1, <2>2, BeginIsBest
<1>3. /\ old \in LevelRecords /\ old.queue \in Seq(Slots) /\ old.queue # <<>>
      /\ IsInjective(old.queue)
  <2> HIDE DEF side, p
  <2>1. old \in LevelRecords
    BY <1>1, <1>2, BookFields
  <2>2. old.queue # <<>> /\ IsInjective(old.queue)
    BY <1>1, <1>2 DEF Sound, LevelShape
  <2> QED BY <2>1, <2>2 DEF LevelRecords
<1>4. r = old.queue[1] /\ r \in Range(old.queue) /\ r \in InLevel(b, side, p)
  <2>1. r = old.queue[1]
    BY DEF Passive
  <2> HIDE DEF r, old
  <2>2. 1 \in DOMAIN old.queue
    BY <1>3
  <2>3. r \in Range(old.queue)
    BY <2>1, <2>2 DEF Range
  <2> QED BY <2>1, <2>3 DEF InLevel, old
<1> HIDE DEF r, side, p
<1>5. r \in Slots /\ r \in Queued(b)
  BY <1>1, <1>2, <1>4, BookFields DEF Queued
<1>6. r # s
  BY <1>5 DEF Sound, Partition
<1>7. b.ord[r] \in OrderRecords /\ b.ord[r].side = side /\ b.ord[r].price = p
  <2>1. Sound(b, held)
    OBVIOUS
  <2> HIDE DEF held
  <2>2. /\ b.ord[r] \in OrderRecords
        /\ \A sd \in Sides : \A q \in DOMAIN b.levels[sd] :
               r \in InLevel(b, sd, q) => sd = b.ord[r].side /\ q = b.ord[r].price
    BY <1>5, <2>1, Home
  <2> QED BY <1>1, <1>2, <1>4, <2>2
<1> HIDE DEF old
<1> QED BY <1>1, <1>2, <1>3, <1>4, <1>5, <1>6, <1>7 DEF old, r, side, p

(* One iteration of match(). *)
LEMMA Fills ==
    ASSUME NEW b, NEW s \in Slots, Sound(b, {s}), MapLeadsToQueued(b), CanFill(b, s)
    PROVE  LET new == Fill(b, s)
               r == Passive(b, s)
           IN  /\ Sound(new, {s}) /\ MapLeadsToQueued(new)
               /\ Queued(new) = IF b.ord[r].rem - FillQty(b, s) = 0 THEN Queued(b) \ {r}
                                ELSE Queued(b)
<1> DEFINE o == b.ord[s]
           side == Other(o.side)
           p == Begin(side, b.levels[side])
           r == Passive(b, s)
           qty == FillQty(b, s)
           left == b.ord[r].rem - qty
           f == [b.ord EXCEPT ![s].rem = @ - qty, ![r].rem = left,
                              ![r].state = IF left = 0 THEN "Filled" ELSE "PartFill"]
           b1 == [b EXCEPT !.ord[s].rem = @ - qty, !.ord[r].rem = left,
                           !.ord[r].state = IF left = 0 THEN "Filled" ELSE "PartFill"]
           old == b.levels[side][p]
           lv == FilledLevel(old, r, qty, left)
           b2 == SetLevel(b1, side, p, lv)
           held == {s}
<1>1. /\ IsBook(b) /\ o \in OrderRecords /\ side \in Sides
      /\ b.ord \in [Slots -> OrderRecords \cup {NoOrder}]
  BY DEF Sound, Occupied, IsBook, OrderRecords, Other, Sides
<1>2. p \in DOMAIN b.levels[side] /\ p \in Prices
  BY Opposite
<1>3. /\ old \in LevelRecords /\ old.queue \in Seq(Slots) /\ old.queue # <<>>
      /\ IsInjective(old.queue)
  BY Opposite
<1>4. r = old.queue[1] /\ r \in Range(old.queue) /\ r \in InLevel(b, side, p)
  BY Opposite
<1>5. r \in Slots /\ r \in Queued(b)
  BY Opposite
<1>6. r # s
  BY Opposite
<1>7. b.ord[r] \in OrderRecords /\ b.ord[r].side = side /\ b.ord[r].price = p
  BY Opposite
<1> HIDE DEF r, side, p
<1>8. qty \in 0 .. MaxQty /\ left \in 0 .. MaxQty /\ o.rem - qty \in 0 .. MaxQty
  <2>1. o.rem \in 0 .. MaxQty /\ b.ord[r].rem \in 0 .. MaxQty
    BY <1>1, <1>7 DEF OrderRecords, Quantities
  <2>2. qty = Lesser(o.rem, b.ord[r].rem)
    BY DEF FillQty, r
  <2> HIDE DEF qty, o
  <2> QED BY <2>1, <2>2 DEF Lesser
<1> HIDE DEF qty, left
<1>9. /\ f[s] = [o EXCEPT !.rem = @ - qty]
      /\ f[r] = [b.ord[r] EXCEPT !.rem = left,
                                 !.state = IF left = 0 THEN "Filled" ELSE "PartFill"]
      /\ \A x \in Slots : x # s /\ x # r => f[x] = b.ord[x]
      /\ DOMAIN f = Slots
  BY <1>1, <1>5, <1>6
<1>10. /\ f[s] \in OrderRecords /\ f[s].side = o.side /\ f[s].price = o.price
       /\ f[r] \in OrderRecords /\ f[r].side = side /\ f[r].price = p
       /\ f[r].id = b.ord[r].id
       /\ f[r].state = IF left = 0 THEN "Filled" ELSE "PartFill"
  <2>1. f[s] \in OrderRecords /\ f[s].side = o.side /\ f[s].price = o.price
    <3> HIDE DEF f, o
    <3> QED BY <1>1, <1>8, <1>9 DEF OrderRecords, Quantities
  <2>2. /\ f[r] \in OrderRecords /\ f[r].side = side /\ f[r].price = p
        /\ f[r].id = b.ord[r].id
        /\ f[r].state = IF left = 0 THEN "Filled" ELSE "PartFill"
    <3> HIDE DEF f
    <3> QED BY <1>7, <1>8, <1>9 DEF OrderRecords, Quantities
  <2> QED BY <2>1, <2>2
<1>11. f \in [Slots -> OrderRecords \cup {NoOrder}]
  <2>1. \A x \in Slots : f[x] \in OrderRecords \cup {NoOrder}
    BY <1>1, <1>9, <1>10
  <2>2. f = [x \in Slots |-> f[x]]
    BY <1>1
  <2> HIDE DEF f
  <2> QED BY <2>1, <2>2
<1>12. b1 = [b EXCEPT !.ord = f]
  BY <1>1
<1> HIDE DEF b1, f
<1>13. /\ Sound(b1, held) /\ Queued(b1) = Queued(b)
       /\ b1.ord = f /\ b1.map = b.map /\ b1.levels = b.levels
  <2>1. \A x \in Queued(b) \cup {s} :
            f[x] \in OrderRecords /\ f[x].side = b.ord[x].side /\ f[x].price = b.ord[x].price
    BY <1>5, <1>7, <1>9, <1>10 DEF Sound, Occupied, Queued
  <2> QED BY <1>11, <1>12, <2>1, UpdateOrders
<1>14. \A x \in DOMAIN b.map :
           /\ b.map[x] \in Queued(b) /\ f[b.map[x]].id = x
           /\ b.map[x] # r => f[b.map[x]].state \in {"New", "PartFill"}
  <2> SUFFICES ASSUME NEW x \in DOMAIN b.map
               PROVE  /\ b.map[x] \in Queued(b) /\ f[b.map[x]].id = x
                      /\ b.map[x] # r => f[b.map[x]].state \in {"New", "PartFill"}
    OBVIOUS
  <2>1. /\ b.map[x] \in Queued(b) /\ b.ord[b.map[x]].id = x
        /\ b.ord[b.map[x]].state \in {"New", "PartFill"}
    BY DEF MapLeadsToQueued
  <2>2. b.map[x] \in Slots /\ b.map[x] # s
    BY <2>1 DEF Sound, Partition, Queued
  <2>3. CASE b.map[x] = r
    BY <1>10, <2>1, <2>3
  <2>4. CASE b.map[x] # r
    BY <1>9, <2>1, <2>2, <2>4
  <2> QED BY <2>3, <2>4
<1>15. [old EXCEPT !.total = @ - qty] \in LevelRecords
  <2> HIDE DEF old
  <2>1. old \in LevelRecords /\ qty \in Int
    BY <1>3, <1>8
  <2> QED BY <2>1 DEF LevelRecords
<1>16. /\ [old EXCEPT !.total = @ - qty].queue = old.queue
  <2> HIDE DEF old
  <2> QED BY <1>3 DEF LevelRecords
<1>17. CASE left = 0
  <2>1. Without(b1, r, lv)
    <3> DEFINE lv1 == [old EXCEPT !.total = @ - qty]
    <3>1. lv = RemoveFrom(lv1, r, left)
      BY <1>17 DEF FilledLevel
    <3>2. left \in Int /\ r \in Range(lv1.queue) /\ IsInjective(lv1.queue) /\ lv1 \in LevelRecords
      BY <1>3, <1>4, <1>8, <1>15, <1>16
    <3>3. Range(lv1.queue) = InLevel(b1, b1.ord[r].side, b1.ord[r].price)
      BY <1>10, <1>13, <1>16 DEF InLevel
    <3> HIDE DEF lv, lv1
    <3> QED BY <3>1, <3>2, <3>3, RemoveQueue DEF Without
  <2> DEFINE c == SetLevel(b1, b1.ord[r].side, b1.ord[r].price, lv)
  <2>2. c = b2
    BY <1>10, <1>13
  <2>a. Sound(b1, held) /\ r \in Queued(b1)
    BY <1>5, <1>13
  <2> HIDE DEF lv, b2, held
  <2>3. /\ Sound(c, held \cup {r}) /\ Queued(c) = Queued(b1) \ {r}
        /\ c.ord = b1.ord /\ c.map = b1.map
    <3>1. Unlinked(b1, c, held, r)
      BY <2>1, <2>a, Unlink
    <3> HIDE DEF c
    <3> QED BY <3>1 DEF Unlinked
  <2> HIDE DEF c
  <2>4. ASSUME NEW x \in DOMAIN b2.map
        PROVE  /\ b2.map[x] \in Queued(b2) \cup {r}
               /\ b2.ord[b2.map[x]].id = x
               /\ b2.map[x] # r => b2.ord[b2.map[x]].state \in {"New", "PartFill"}
    BY <1>13, <1>14, <2>2, <2>3
  <2>5. r \in Slots /\ r \notin held
    BY <1>5, <1>6 DEF held
  <2>6. b2.ord[r].id = b.ord[r].id
    BY <1>10, <1>13, <2>2, <2>3
  <2> DEFINE id == b.ord[r].id
             d == Retire(b2, r, id)
  <2>7. Sound(b2, held \cup {r})
    BY <2>2, <2>3
  <2>8. Sound(d, held) /\ MapLeadsToQueued(d) /\ Queued(d) = Queued(b) \ {r}
    <3> HIDE DEF id
    <3> QED BY <1>13, <2>2, <2>3, <2>4, <2>5, <2>6, <2>7, Retirement DEF id
  <2>9. Fill(b, s) = d
    BY <1>17 DEF Fill, b1, b2, lv, old, left, qty, r, side, p
  <2> HIDE DEF d
  <2> QED BY <1>17, <2>8, <2>9 DEF held, left, qty, r
<1>18. CASE left # 0
  <2>1. lv = [old EXCEPT !.total = @ - qty]
    BY <1>18 DEF FilledLevel
  <2>2. lv \in LevelRecords /\ lv.queue = b1.levels[side][p].queue /\ p \in DOMAIN b1.levels[side]
    BY <1>2, <1>13, <1>15, <1>16, <2>1
  <2> HIDE DEF lv, held
  <2>3. /\ Sound(b2, held) /\ Queued(b2) = Queued(b1)
        /\ b2.ord = b1.ord /\ b2.map = b1.map
    BY <1>1, <1>13, <2>2, SameQueue
  <2> HIDE DEF b2
  <2>4. MapLeadsToQueued(b2)
    <3>1. f[r].state \in {"New", "PartFill"}
      BY <1>10, <1>18
    <3> QED BY <1>13, <1>14, <2>3, <3>1 DEF MapLeadsToQueued
  <2>5. Fill(b, s) = b2
    BY <1>18 DEF Fill, b1, b2, lv, old, left, qty, r, side, p
  <2> QED BY <1>13, <1>18, <2>3, <2>4, <2>5 DEF held, left, qty, r
<1> QED BY <1>17, <1>18

(* The end of match(): the order rests or is released. *)
LEMMA Finishes ==
    ASSUME NEW b, NEW s \in Slots, Sound(b, {s}), MapLeadsToQueued(b)
    PROVE  LET new == Finish(b, s)
           IN  /\ Sound(new, {}) /\ MapLeadsToQueued(new)
               /\ Queued(new) = IF b.ord[s].rem = 0 THEN Queued(b) ELSE Queued(b) \cup {s}
<1> DEFINE o == b.ord[s]
           done == o.rem = 0
           f == [b.ord EXCEPT ![s].state = IF done THEN "Filled" ELSE "PartFill"]
           b1 == [b EXCEPT !.ord[s].state = IF done THEN "Filled" ELSE "PartFill"]
           b2 == IF done THEN Deallocate(b1, s) ELSE AddResting(b1, s)
           held == {s}
           none == {}
<1>1. IsBook(b) /\ o \in OrderRecords
  BY DEF Sound, Occupied
<1>2. /\ f \in [Slots -> OrderRecords \cup {NoOrder}]
      /\ f[s] = [o EXCEPT !.state = IF done THEN "Filled" ELSE "PartFill"]
      /\ f[s] \in OrderRecords /\ f[s].side = o.side /\ f[s].price = o.price
      /\ f[s].state = IF done THEN "Filled" ELSE "PartFill"
      /\ \A x \in Slots : x # s => f[x] = b.ord[x]
  BY <1>1 DEF IsBook, OrderRecords
<1>3. b1 = [b EXCEPT !.ord = f]
  BY <1>1
<1> HIDE DEF b1, f
<1>4. s \notin Queued(b) /\ Queued(b) \subseteq Slots
  BY DEF Sound, Partition, Queued
<1>5. /\ Sound(b1, {s}) /\ Queued(b1) = Queued(b)
      /\ b1.ord = f /\ b1.map = b.map /\ b1.levels = b.levels
  <2>1. \A x \in Queued(b) \cup {s} :
            f[x] \in OrderRecords /\ f[x].side = b.ord[x].side /\ f[x].price = b.ord[x].price
    BY <1>2, <1>4 DEF Sound, Occupied
  <2> QED BY <1>2, <1>3, <2>1, UpdateOrders
<1>6. MapLeadsToQueued(b1)
  BY <1>2, <1>4, <1>5 DEF MapLeadsToQueued
<1>7. /\ Sound(b2, {}) /\ MapLeadsToQueued(b2)
      /\ Queued(b2) = IF done THEN Queued(b) ELSE Queued(b) \cup {s}
  <2>1. CASE done
    <3> DEFINE c == Deallocate(b1, s)
    <3>1. Sound(b1, none \cup {s}) /\ s \notin none
      BY <1>5
    <3> HIDE DEF none, done
    <3>2. /\ Sound(c, none) /\ Queued(c) = Queued(b1)
          /\ c.ord = b1.ord /\ c.map = b1.map
      BY <3>1, Release
    <3>3. b2 = c
      BY <2>1
    <3> HIDE DEF c, b2
    <3> QED BY <1>5, <1>6, <2>1, <3>2, <3>3 DEF MapLeadsToQueued, none
  <2>2. CASE ~ done
    <3>1. b1.ord[s].state \in {"New", "PartFill"}
      BY <1>2, <1>5, <2>2
    <3>2. /\ Sound(AddResting(b1, s), {}) /\ MapLeadsToQueued(AddResting(b1, s))
          /\ Queued(AddResting(b1, s)) = Queued(b1) \cup {s}
      BY <1>5, <1>6, <3>1, Rests
    <3> QED BY <1>5, <2>2, <3>2
  <2> QED BY <2>1, <2>2
<1>8. Finish(b, s) = RefreshBoth(b2)
  BY DEF Finish, b1
<1> HIDE DEF b2
<1>9. /\ Sound(RefreshBoth(b2), {}) /\ Queued(RefreshBoth(b2)) = Queued(b2)
      /\ RefreshBoth(b2).ord = b2.ord /\ RefreshBoth(b2).map = b2.map
  BY <1>7, Refresh
<1> QED BY <1>7, <1>8, <1>9 DEF MapLeadsToQueued

(* OrderBook::add *)
LEMMA Adds ==
    ASSUME NEW b, Sound(b, {}), MapLeadsToQueued(b), NEW o \in OrderRecords, o.state = "New"
    PROVE  LET new == AddOrder(b, o)
           IN  Sound(new, {}) /\ MapLeadsToQueued(new)
<1>1. CASE Exhausted(b)
  BY <1>1 DEF AddOrder
<1>2. CASE ~ Exhausted(b)
  <2> DEFINE s == NextSlot(b)
             c == Construct(b, o)
  <2>1. /\ Sound(c, {s}) /\ Queued(c) = Queued(b)
        /\ s \in Slots /\ s \notin Queued(b)
        /\ c.ord = [b.ord EXCEPT ![s] = o] /\ c.map = b.map
    BY <1>2, Construction
  <2>2. b.ord \in [Slots -> OrderRecords \cup {NoOrder}]
    BY DEF Sound, IsBook
  <2>3. AddOrder(b, o) = AddResting(c, s)
    BY <1>2 DEF AddOrder
  <2> HIDE DEF c, s
  <2>4. MapLeadsToQueued(c)
    BY <2>1, <2>2 DEF MapLeadsToQueued, Queued
  <2>5. c.ord[s].state \in {"New", "PartFill"}
    BY <2>1, <2>2
  <2>6. Sound(AddResting(c, s), {}) /\ MapLeadsToQueued(AddResting(c, s))
    BY <2>1, <2>4, <2>5, Rests
  <2> QED BY <2>3, <2>6
<1> QED BY <1>1, <1>2

-----------------------------------------------------------------------------
(* The invariant is inductive. *)

LEMMA InitialBook == Init => IndInv
<1> SUFFICES ASSUME Init PROVE IndInv
  OBVIOUS
<1>1. /\ book.free = [i \in Slots |-> i] /\ book.used = 0
      /\ book.ord = [s \in Slots |-> NoOrder]
      /\ book.levels = [side \in Sides |-> EmptyMap]
      /\ book.map = EmptyMap
      /\ book.best = [side \in Sides |-> End]
      /\ book = [free |-> book.free, used |-> book.used, ord |-> book.ord,
                 levels |-> book.levels, map |-> book.map, best |-> book.best]
      /\ aggressive = NoSlot /\ clock = 0
  BY DEF Init, EmptyBook
<1>2. IsMap(EmptyMap, Ids, Slots) /\ IsMap(EmptyMap, Prices, LevelRecords)
  BY DEF EmptyMap, IsMap
<1>3. IsBook(book)
  <2>1. book.used \in 0 .. PoolSize
    BY <1>1
  <2> QED BY <1>1, <1>2, <2>1 DEF IsBook
<1>4. Queued(book) = {} /\ DOMAIN book.map = {} /\ \A sd \in Sides : DOMAIN book.levels[sd] = {}
  BY <1>1 DEF Queued, EmptyMap
<1>5. InMatch = {}
  BY <1>1 DEF InMatch, Idle
<1>6. Available(book) = Slots
  <2>1. book.used .. PoolSize - 1 = Slots
    BY <1>1 DEF Slots
  <2>2. Available(book) = {book.free[i] : i \in Slots}
    BY <2>1 DEF Available
  <2>3. \A i \in Slots : book.free[i] = i
    BY <1>1
  <2> QED BY <2>2, <2>3
<1>7. Partition(book, {})
  <2>1. \A i, j \in book.used .. PoolSize - 1 : book.free[i] = book.free[j] => i = j
    BY <1>1 DEF Slots
  <2> QED BY <1>4, <1>6, <2>1 DEF Partition
<1>8. LevelShape(book) /\ Occupied(book, {}) /\ MapLeadsToQueued(book)
  BY <1>4 DEF LevelShape, Occupied, MapLeadsToQueued
<1>9. TypeOK
  BY <1>1, <1>3 DEF TypeOK
<1> QED BY <1>3, <1>5, <1>7, <1>8, <1>9 DEF IndInv, Sound

(* Every step keeps it: one case per action. *)
LEMMA Step == IndInv /\ [Next]_vars => IndInv'
<1> SUFFICES ASSUME IndInv, [Next]_vars PROVE IndInv'
  OBVIOUS
<1>1. /\ IsBook(book) /\ Sound(book, InMatch) /\ MapLeadsToQueued(book)
      /\ aggressive \in Slots \cup {NoSlot} /\ clock \in 0 .. MaxClock
  BY DEF IndInv, TypeOK
<1>2. /\ Idle => Sound(book, {})
      /\ ~ Idle => aggressive \in Slots /\ Sound(book, {aggressive})
  BY <1>1 DEF InMatch, Idle
<1>3. ASSUME Sound(book', {}), MapLeadsToQueued(book'), aggressive' = NoSlot,
             clock' \in 0 .. MaxClock
      PROVE  IndInv'
  <2>1. InMatch' = {}
    BY <1>3 DEF InMatch, Idle
  <2> QED BY <1>3, <2>1 DEF IndInv, TypeOK, Sound
<1>4. ASSUME NEW s \in Slots, Sound(book', {s}), MapLeadsToQueued(book'), aggressive' = s,
             clock' \in 0 .. MaxClock
      PROVE  IndInv'
  <2>1. s # NoSlot
    BY DEF Slots
  <2>2. InMatch' = {s}
    BY <1>4, <2>1 DEF InMatch, Idle
  <2> QED BY <1>4, <2>2 DEF IndInv, TypeOK, Sound
<1>5. ASSUME NEW id \in Ids, NEW side \in Sides, NEW p \in Prices, NEW q \in Quantities,
             clock < MaxClock
      PROVE  /\ Order(id, side, p, q, clock + 1) \in OrderRecords
             /\ Order(id, side, p, q, clock + 1).state = "New"
             /\ clock + 1 \in 0 .. MaxClock
  BY <1>1, <1>5 DEF Order, OrderRecords
<1>6. ASSUME NEW id \in Ids, NEW side \in Sides, NEW p \in Prices, NEW q \in Quantities,
             NewOrder(id, side, p, q)
      PROVE  IndInv'
  <2> DEFINE o == Order(id, side, p, q, clock + 1)
             s == NextSlot(book)
             new == Construct(book, o)
  <2>1. /\ Idle /\ ~ Exhausted(book) /\ clock < MaxClock
        /\ book' = new /\ aggressive' = s /\ clock' = clock + 1
    BY <1>6 DEF NewOrder
  <2>2. o \in OrderRecords /\ clock' \in 0 .. MaxClock
    BY <1>5, <2>1
  <2>3. Sound(book, {})
    BY <1>2, <2>1
  <2> HIDE DEF o
  <2>4. /\ Sound(new, {s}) /\ Queued(new) = Queued(book)
        /\ s \in Slots /\ s \notin Queued(book)
        /\ new.ord = [book.ord EXCEPT ![s] = o] /\ new.map = book.map
    BY <2>1, <2>2, <2>3, Construction
  <2>5. book.ord \in [Slots -> OrderRecords \cup {NoOrder}]
    BY <1>1 DEF IsBook
  <2> HIDE DEF new, s
  <2>6. MapLeadsToQueued(new)
    BY <1>1, <2>4, <2>5 DEF MapLeadsToQueued, Queued
  <2> QED BY <1>4, <2>1, <2>2, <2>4, <2>6
<1>7. CASE FillStep
  <2>1. ~ Idle /\ CanFill(book, aggressive) /\ book' = Fill(book, aggressive)
        /\ aggressive' = aggressive /\ clock' = clock
    BY <1>7 DEF FillStep
  <2>2. aggressive \in Slots /\ Sound(book, {aggressive})
    BY <1>2, <2>1
  <2>3. Sound(Fill(book, aggressive), {aggressive}) /\ MapLeadsToQueued(Fill(book, aggressive))
    BY <1>1, <2>1, <2>2, Fills
  <2> QED BY <1>1, <1>4, <2>1, <2>2, <2>3
<1>8. CASE FinishMatch
  <2>1. ~ Idle /\ book' = Finish(book, aggressive) /\ aggressive' = NoSlot /\ clock' = clock
    BY <1>8 DEF FinishMatch
  <2>2. Sound(Finish(book, aggressive), {}) /\ MapLeadsToQueued(Finish(book, aggressive))
    BY <1>1, <1>2, <2>1, Finishes
  <2> QED BY <1>1, <1>3, <2>1, <2>2
<1>9. ASSUME NEW id \in Ids, Cancel(id) PROVE IndInv'
  <2>1. /\ Idle /\ Cancellable(book, id) /\ book' = CancelOrder(book, id)
        /\ aggressive' = aggressive /\ clock' = clock
    BY <1>9 DEF Cancel
  <2>2. Sound(CancelOrder(book, id), {}) /\ MapLeadsToQueued(CancelOrder(book, id))
    BY <1>1, <1>2, <2>1, Cancels
  <2> QED BY <1>1, <1>3, <2>1, <2>2 DEF Idle
<1>10. ASSUME NEW id \in Ids, NEW q \in Quantities, Modify(id, q) PROVE IndInv'
  <2> DEFINE old == book.ord[book.map[id]]
             o == Order(id, old.side, old.price, q, clock + 1)
             c == CancelOrder(book, id)
  <2>1. /\ Idle /\ Cancellable(book, id) /\ clock < MaxClock /\ book' = AddOrder(c, o)
        /\ aggressive' = aggressive /\ clock' = clock + 1
    BY <1>10 DEF Modify
  <2>2. Sound(c, {}) /\ MapLeadsToQueued(c)
    BY <1>1, <1>2, <2>1, Cancels
  <2>3. old.side \in Sides /\ old.price \in Prices
    <3>1. book.map[id] \in Queued(book)
      BY <1>1, <2>1 DEF Cancellable, MapLeadsToQueued
    <3>2. Sound(book, {})
      BY <1>2, <2>1
    <3> QED BY <3>1, <3>2, Home
  <2> HIDE DEF c, old
  <2>4. o \in OrderRecords /\ o.state = "New" /\ clock' \in 0 .. MaxClock
    BY <1>5, <2>1, <2>3
  <2> HIDE DEF o
  <2>5. Sound(AddOrder(c, o), {}) /\ MapLeadsToQueued(AddOrder(c, o))
    BY <2>2, <2>4, Adds
  <2> QED BY <1>3, <2>1, <2>4, <2>5 DEF Idle
<1>11. ASSUME NEW id \in Ids, NEW side \in Sides, NEW p \in Prices, NEW q \in Quantities,
              Add(id, side, p, q)
       PROVE  IndInv'
  <2> DEFINE o == Order(id, side, p, q, clock + 1)
  <2>1. /\ Idle /\ clock < MaxClock /\ book' = AddOrder(book, o)
        /\ aggressive' = aggressive /\ clock' = clock + 1
    BY <1>11 DEF Add
  <2>2. o \in OrderRecords /\ o.state = "New" /\ clock' \in 0 .. MaxClock
    BY <1>5, <2>1
  <2>3. Sound(book, {})
    BY <1>2, <2>1
  <2> HIDE DEF o
  <2>4. Sound(AddOrder(book, o), {}) /\ MapLeadsToQueued(AddOrder(book, o))
    BY <1>1, <2>2, <2>3, Adds
  <2> QED BY <1>3, <2>1, <2>2, <2>4 DEF Idle
<1>12. CASE UNCHANGED vars
  BY <1>12 DEF vars, IndInv, TypeOK, InMatch, Idle
<1> QED BY <1>6, <1>7, <1>8, <1>9, <1>10, <1>11, <1>12 DEF Next

(* The engine and the book together keep the invariant. *)
THEOREM Invariance == Spec => []IndInv
<1>1. Init => IndInv
  BY InitialBook
<1>2. IndInv /\ [Next]_vars => IndInv'
  BY Step
<1> QED BY <1>1, <1>2, PTL DEF Spec

(* The fields of the book, the pool and the orders keep to their types:    *)
(* no fill takes more from an order than it has left.                      *)
THEOREM TypeCorrect == Spec => []TypeOK
<1>1. IndInv => TypeOK
  BY DEF IndInv
<1> QED BY <1>1, Invariance, PTL

(* The pool neither leaks an order nor frees one twice or while it is      *)
(* queued.                                                                 *)
THEOREM PoolSafe == Spec => []PoolPartition
<1>1. IndInv => PoolPartition
  BY DEF IndInv, Sound, PoolPartition
<1> QED BY <1>1, Invariance, PTL

(* No level of the book is empty or holds a foreign order. *)
THEOREM LevelsSafe == Spec => []LevelsWellFormed
<1>1. IndInv => LevelsWellFormed
  BY DEF IndInv, Sound, LevelsWellFormed
<1> QED BY <1>1, Invariance, PTL

(* The id map leads to live orders only, so cancel() never follows it to   *)
(* memory that the pool has taken back.                                    *)
THEOREM MapSafe == Spec => []MapSound
<1>1. IndInv => MapSound
  BY DEF IndInv, MapSound
<1> QED BY <1>1, Invariance, PTL

HIDE BookAssumption

-----------------------------------------------------------------------------
(* Queues in the order of time. *)

Ascends(ord, queue) ==
    \A i, j \in 1 .. Len(queue) : i < j => ord[queue[i]].stamp < ord[queue[j]].stamp

LEMMA PushAscends ==
    ASSUME NEW lv \in LevelRecords, NEW s \in Slots, NEW q \in Int, NEW ord,
           IsInjective(lv.queue), Ascends(ord, lv.queue),
           \A x \in Range(lv.queue) : x # s /\ ord[x].stamp < ord[s].stamp
    PROVE  Ascends(ord, PushBack(lv, s, q).queue)
<1> DEFINE old == lv.queue
           n == Len(old)
           new == PushBack(lv, s, q).queue
<1>1. lv \in QueueRecords(Slots) /\ s \notin Range(lv.queue)
  BY DEF LevelRecords, QueueRecords
<1>2. old \in Seq(Slots) /\ n \in Nat /\ DOMAIN old = 1 .. n
  BY DEF LevelRecords
<1>3. /\ Len(new) = n + 1 /\ new[n + 1] = s
      /\ \A i \in 1 .. n : new[i] = old[i]
  <2>1. Extended(old, new, s)
    BY <1>1, PushedBack
  <2> HIDE DEF old, new
  <2> QED BY <2>1 DEF Extended
<1> HIDE DEF n, old, new
<1>4. \A i \in 1 .. n : old[i] \in Range(old)
  BY <1>2 DEF Range
<1> SUFFICES ASSUME NEW i \in 1 .. n + 1, NEW j \in 1 .. n + 1, i < j
             PROVE  ord[new[i]].stamp < ord[new[j]].stamp
  BY <1>3 DEF Ascends, new
<1>5. i \in 1 .. n
  BY <1>2
<1>6. CASE j = n + 1
  BY <1>3, <1>4, <1>5, <1>6 DEF old
<1>7. CASE j # n + 1
  <2>1. j \in 1 .. n
    BY <1>2, <1>7
  <2> QED BY <1>3, <1>5, <2>1 DEF Ascends, old, n
<1> QED BY <1>6, <1>7

LEMMA RemoveAscends ==
    ASSUME NEW lv \in LevelRecords, NEW s \in Range(lv.queue), NEW q \in Int, NEW ord,
           IsInjective(lv.queue), Ascends(ord, lv.queue)
    PROVE  Ascends(ord, RemoveFrom(lv, s, q).queue)
<1> DEFINE old == lv.queue
           n == Len(old)
           new == RemoveFrom(lv, s, q).queue
<1>1. lv \in QueueRecords(Slots)
  BY DEF LevelRecords, QueueRecords
<1>2. n \in Nat
  BY DEF LevelRecords
<1>3. PICK k \in 1 .. n :
          /\ Len(new) = n - 1
          /\ \A j \in 1 .. n - 1 : new[j] = IF j < k THEN old[j] ELSE old[j + 1]
  <2>1. MovedUp(old, new, s)
    BY <1>1, Removed
  <2> HIDE DEF old, new
  <2> QED BY <2>1 DEF MovedUp
<1> HIDE DEF n, old, new
<1> SUFFICES ASSUME NEW i \in 1 .. n - 1, NEW j \in 1 .. n - 1, i < j
             PROVE  ord[new[i]].stamp < ord[new[j]].stamp
  BY <1>3 DEF Ascends, new
<1>4. \E a, b \in 1 .. n : a < b /\ new[i] = old[a] /\ new[j] = old[b]
  <2>1. /\ i \in 1 .. n /\ i + 1 \in 1 .. n /\ j \in 1 .. n /\ j + 1 \in 1 .. n
        /\ i < j /\ i < j + 1 /\ i + 1 < j + 1 /\ (k <= i => k <= j)
    BY <1>2
  <2> QED BY <1>3, <2>1
<1> QED BY <1>4 DEF Ascends, old, n

(* Only the stamps of the queue's own orders matter. *)
LEMMA SameStamps ==
    ASSUME NEW queue \in Seq(Slots), NEW ord, NEW new, Ascends(ord, queue),
           \A x \in Range(queue) : new[x].stamp = ord[x].stamp
    PROVE  Ascends(new, queue)
<1>1. \A i \in 1 .. Len(queue) : queue[i] \in Range(queue)
  BY DEF Range
<1> QED BY <1>1 DEF Ascends
-----------------------------------------------------------------------------
(* What each operation changes of the book, field by field. *)

IsRecord(b) ==
    b = [free |-> b.free, used |-> b.used, ord |-> b.ord,
         levels |-> b.levels, map |-> b.map, best |-> b.best]

LEMMA DeallocateFields ==
    ASSUME NEW b, IsRecord(b), NEW s
    PROVE  LET new == Deallocate(b, s)
           IN  /\ IsRecord(new)
               /\ new.ord = b.ord /\ new.levels = b.levels /\ new.map = b.map
               /\ new.best = b.best
BY DEF IsRecord, Deallocate

LEMMA RetireFields ==
    ASSUME NEW b, IsRecord(b), NEW s, NEW id
    PROVE  LET new == Retire(b, s, id)
           IN  /\ IsRecord(new)
               /\ new.ord = b.ord /\ new.levels = b.levels /\ new.map = Drop(b.map, id)
               /\ new.best = b.best
<1> DEFINE b1 == [b EXCEPT !.map = Drop(@, id)]
<1>1. /\ IsRecord(b1)
      /\ b1.ord = b.ord /\ b1.levels = b.levels /\ b1.map = Drop(b.map, id)
      /\ b1.best = b.best
  BY DEF IsRecord
<1> HIDE DEF b1
<1> QED BY <1>1, DeallocateFields DEF Retire, b1

LEMMA RefreshFields ==
    ASSUME NEW b, IsRecord(b)
    PROVE  LET new == RefreshBoth(b)
           IN  /\ new.ord = b.ord /\ new.levels = b.levels /\ new.map = b.map
               /\ new.best = [side \in Sides |-> Begin(side, b.levels[side])]
BY DEF IsRecord, RefreshBoth

OneLevel(levels, side, p, lv) ==
    [levels EXCEPT ![side] = IF lv.queue = <<>> THEN Drop(@, p) ELSE Put(@, p, lv)]

LEMMA SetLevelFields ==
    ASSUME NEW b, IsRecord(b), NEW side, NEW p, NEW lv
    PROVE  LET new == SetLevel(b, side, p, lv)
           IN  /\ IsRecord(new)
               /\ new.ord = b.ord /\ new.map = b.map
               /\ new.levels = OneLevel(b.levels, side, p, lv)
               /\ \A sd \in DOMAIN b.best : sd # side => new.best[sd] = b.best[sd]
BY DEF IsRecord, SetLevel, OneLevel

LEMMA ConstructFields ==
    ASSUME NEW b, IsRecord(b), NEW o
    PROVE  LET new == Construct(b, o)
           IN  /\ IsRecord(new)
               /\ new.ord = [b.ord EXCEPT ![NextSlot(b)] = o]
               /\ new.levels = b.levels /\ new.map = b.map /\ new.best = b.best
<1> DEFINE b1 == Allocate(b)
           s == NextSlot(b)
<1>1. /\ IsRecord(b1) /\ b1.ord = b.ord
      /\ b1.levels = b.levels /\ b1.map = b.map /\ b1.best = b.best
  BY DEF IsRecord, Allocate
<1> HIDE DEF b1, s
<1>2. Construct(b, o) = [b1 EXCEPT !.ord = [@ EXCEPT ![s] = o]]
  BY DEF Construct, b1, s
<1>3. LET new == [b1 EXCEPT !.ord = [@ EXCEPT ![s] = o]]
      IN  /\ IsRecord(new) /\ new.ord = [b1.ord EXCEPT ![s] = o]
          /\ new.levels = b1.levels /\ new.map = b1.map /\ new.best = b1.best
  BY <1>1 DEF IsRecord
<1> QED BY <1>1, <1>2, <1>3 DEF s

LEMMA AddRestingFields ==
    ASSUME NEW b, IsRecord(b), NEW s
    PROVE  LET o == b.ord[s]
               lv == PushBack(LevelAt(b, o.side, o.price), s, o.rem)
               ls == [b.levels EXCEPT ![o.side] = Put(@, o.price, lv)]
               new == AddResting(b, s)
           IN  /\ IsRecord(new)
               /\ new.ord = b.ord /\ new.map = Put(b.map, o.id, s) /\ new.levels = ls
               /\ new.best = IF \/ b.best[o.side] = End
                                \/ b.best[o.side] # Dangling /\ Better(o.side, o.price, b.best[o.side])
                             THEN [b.best EXCEPT ![o.side] = Begin(o.side, ls[o.side])]
                             ELSE b.best
<1> DEFINE o == b.ord[s]
           lv == PushBack(LevelAt(b, o.side, o.price), s, o.rem)
           ls == [b.levels EXCEPT ![o.side] = Put(@, o.price, lv)]
           m == Put(b.map, o.id, s)
           b1 == [b EXCEPT !.map = Put(@, o.id, s), !.levels[o.side] = Put(@, o.price, lv)]
<1>1. AddResting(b, s) = RefreshSide(b1, o.side, o.price)
  BY DEF AddResting
<1>2. b1 = [free |-> b.free, used |-> b.used, ord |-> b.ord,
            levels |-> ls, map |-> m, best |-> b.best]
  <2>1. b1 = [b EXCEPT !.map = m, !.levels = ls]
    OBVIOUS
  <2> HIDE DEF b1, ls, m
  <2> QED BY <2>1 DEF IsRecord
<1> HIDE DEF b1, ls, lv, o
<1>3. /\ b1.ord = b.ord /\ b1.map = m /\ b1.levels = ls /\ b1.best = b.best
      /\ IsRecord(b1)
  BY <1>2 DEF IsRecord
<1>4. LET new == RefreshSide(b1, o.side, o.price)
      IN  /\ IsRecord(new)
          /\ new.ord = b1.ord /\ new.map = b1.map /\ new.levels = b1.levels
          /\ new.best = IF \/ b1.best[o.side] = End
                           \/ b1.best[o.side] # Dangling /\ Better(o.side, o.price, b1.best[o.side])
                        THEN [b1.best EXCEPT ![o.side] = Begin(o.side, b1.levels[o.side])]
                        ELSE b1.best
  BY <1>3 DEF RefreshSide, IsRecord
<1> QED BY <1>1, <1>3, <1>4 DEF o, ls, lv, m

-----------------------------------------------------------------------------
(* Every queue of the book is in the order of time. *)
InTime(ord, levels) ==
    \A sd \in Sides : \A q \in DOMAIN levels[sd] : Ascends(ord, levels[sd][q].queue)

(* Only the stamps of the queued orders matter. *)
LEMMA SameInTime ==
    ASSUME NEW b, IsBook(b), InTime(b.ord, b.levels), NEW ord,
           \A x \in Queued(b) : ord[x].stamp = b.ord[x].stamp
    PROVE  InTime(ord, b.levels)
<1> SUFFICES ASSUME NEW sd \in Sides, NEW q \in DOMAIN b.levels[sd]
             PROVE  Ascends(ord, b.levels[sd][q].queue)
  BY DEF InTime
<1> DEFINE queue == b.levels[sd][q].queue
<1>1. queue \in Seq(Slots) /\ InLevel(b, sd, q) \subseteq Slots
  BY BookFields DEF LevelRecords
<1>2. Range(queue) \subseteq Queued(b)
  BY <1>1 DEF Queued, InLevel
<1>3. Ascends(b.ord, queue)
  BY DEF InTime
<1> HIDE DEF queue
<1>4. \A x \in Range(queue) : ord[x].stamp = b.ord[x].stamp
  BY <1>2
<1> QED BY <1>1, <1>3, <1>4, SameStamps DEF queue

(* An operation that writes one level keeps the others in time if it does  *)
(* not touch the stamps of what they hold.                                 *)
LEMMA LevelInTime ==
    ASSUME NEW b, IsBook(b), InTime(b.ord, b.levels),
           NEW side \in Sides, NEW p \in Prices, NEW lv, NEW ord,
           \A x \in Queued(b) : ord[x].stamp = b.ord[x].stamp,
           Ascends(ord, lv.queue)
    PROVE  InTime(ord, OneLevel(b.levels, side, p, lv))
<1> DEFINE new == OneLevel(b.levels, side, p, lv)
<1>1. /\ DOMAIN b.levels = Sides
      /\ new[side] = IF lv.queue = <<>> THEN Drop(b.levels[side], p)
                     ELSE Put(b.levels[side], p, lv)
      /\ \A sd \in Sides : sd # side => new[sd] = b.levels[sd]
  BY BookFields DEF OneLevel
<1> HIDE DEF new
<1> SUFFICES ASSUME NEW sd \in Sides, NEW q \in DOMAIN new[sd]
             PROVE  Ascends(ord, new[sd][q].queue)
  BY DEF InTime, new
<1>2. \/ new[sd][q] = lv
      \/ q \in DOMAIN b.levels[sd] /\ new[sd][q] = b.levels[sd][q]
  BY <1>1 DEF Drop, Put
<1>3. q \in DOMAIN b.levels[sd] => Ascends(ord, b.levels[sd][q].queue)
  BY SameInTime DEF InTime
<1> QED BY <1>2, <1>3

(* Both iterators are begin(). *)
AllFresh(levels, best) == \A sd \in Sides : best[sd] = Begin(sd, levels[sd])

LEMMA OneBest ==
    ASSUME NEW side \in Sides, NEW levels, DOMAIN levels \subseteq Prices,
           NEW p \in DOMAIN levels, \A q \in DOMAIN levels : ~ Better(side, q, p)
    PROVE  Begin(side, levels) = p
<1>1. /\ Begin(side, levels) \in DOMAIN levels
      /\ \A q \in DOMAIN levels : ~ Better(side, q, Begin(side, levels))
  BY BeginIsBest
<1>2. \A x, y \in Prices : ~ Better(side, x, y) /\ ~ Better(side, y, x) => x = y
  BY DEF Better, Prices
<1> QED BY <1>1, <1>2

(* add_resting renews an iterator only when its side is empty or the price *)
(* is a better one; in every other case it already is begin().             *)
LEMMA StillFresh ==
    ASSUME NEW side \in Sides, NEW p \in Prices, NEW lv, NEW f, DOMAIN f \subseteq Prices,
           Begin(side, f) # End, ~ Better(side, p, Begin(side, f))
    PROVE  Begin(side, Put(f, p, lv)) = Begin(side, f)
<1> DEFINE best == Begin(side, f)
           new == Put(f, p, lv)
<1>1. best \in DOMAIN f /\ \A q \in DOMAIN f : ~ Better(side, q, best)
  BY BeginIsBest
<1>2. DOMAIN new = DOMAIN f \cup {p}
  BY DEF Put
<1> HIDE DEF best, new
<1>3. best \in DOMAIN new /\ DOMAIN new \subseteq Prices
  BY <1>1, <1>2
<1>4. \A q \in DOMAIN new : ~ Better(side, q, best)
  BY <1>1, <1>2 DEF best
<1>5. Begin(side, new) = best
  BY <1>3, <1>4, OneBest
<1> QED BY <1>5 DEF best, new

-----------------------------------------------------------------------------
(* What each operation of the book does. *)

LEMMA SoundRecord ==
    ASSUME NEW b, NEW held, Sound(b, held)
    PROVE  /\ IsBook(b) /\ IsRecord(b)
           /\ b.ord \in [Slots -> OrderRecords \cup {NoOrder}]
           /\ \A side \in Sides : DOMAIN b.levels[side] \subseteq Prices
           /\ DOMAIN b.levels = Sides /\ b.best \in [Sides -> Prices \cup {End, Dangling}]
           /\ \A x \in Queued(b) \cup held : b.ord[x] \in OrderRecords
BY BookFields DEF Sound, Occupied, IsBook, IsRecord, IsMap

LEMMA CancelEffect ==
    ASSUME NEW b, Sound(b, {}), MapLeadsToQueued(b), InTime(b.ord, b.levels),
           NEW id, Cancellable(b, id)
    PROVE  LET new == CancelOrder(b, id)
               s == b.map[id]
               o == b.ord[s]
           IN  /\ new.ord = [b.ord EXCEPT ![s].state = "Cancelled"]
               /\ new.map = Drop(b.map, id)
               /\ AllFresh(new.levels, new.best)
               /\ InTime(new.ord, new.levels)
               /\ new.levels = OneLevel(b.levels, o.side, o.price,
                                        RemoveFrom(b.levels[o.side][o.price], s, o.rem))
<1> DEFINE s == b.map[id]
           o == b.ord[s]
           f == [b.ord EXCEPT ![s].state = "Cancelled"]
           b1 == [b EXCEPT !.ord[s].state = "Cancelled"]
           old == b.levels[o.side][o.price]
           lv == RemoveFrom(old, s, o.rem)
           b2 == SetLevel(b1, o.side, o.price, lv)
           b3 == Retire(b2, s, id)
<1>1. s \in Queued(b)
  BY DEF Cancellable, MapLeadsToQueued
<1>2. /\ s \in Slots /\ o \in OrderRecords /\ o.side \in Sides /\ o.price \in Prices
      /\ o.price \in DOMAIN b.levels[o.side] /\ s \in InLevel(b, o.side, o.price)
  BY <1>1, Home
<1>3. IsBook(b) /\ IsRecord(b) /\ b.ord \in [Slots -> OrderRecords \cup {NoOrder}]
  BY SoundRecord
<1>4. CancelOrder(b, id) = RefreshBoth(b3)
  BY <1>2 DEF CancelOrder
<1>5. /\ IsRecord(b1) /\ b1.ord = f /\ b1.map = b.map /\ b1.levels = b.levels
  <2>1. b1 = [b EXCEPT !.ord = f]
    OBVIOUS
  <2> HIDE DEF b1, f
  <2> QED BY <1>3, <2>1 DEF IsRecord
<1>6. Ascends(f, lv.queue)
  <2>1. old \in LevelRecords /\ IsInjective(old.queue) /\ s \in Range(old.queue)
    BY <1>2, <1>3, BookFields DEF InLevel, Sound, LevelShape
  <2>2. Ascends(b.ord, old.queue)
    BY <1>2 DEF InTime
  <2>3. o.rem \in Int
    BY <1>2 DEF OrderRecords, Quantities
  <2> HIDE DEF old, s, o
  <2>4. Ascends(b.ord, lv.queue)
    BY <2>1, <2>2, <2>3, RemoveAscends
  <2>5. lv \in LevelRecords /\ Range(lv.queue) = Range(old.queue) \ {s}
    BY <2>1, <2>3, RemoveQueue
  <2> HIDE DEF lv
  <2>6. Range(old.queue) \subseteq Slots
    BY <2>1 DEF LevelRecords, Range
  <2>7. \A x \in Range(lv.queue) : f[x].stamp = b.ord[x].stamp
    BY <1>3, <2>5, <2>6
  <2>8. lv.queue \in Seq(Slots)
    BY <2>5 DEF LevelRecords
  <2> QED BY <2>4, <2>7, <2>8, SameStamps
<1>7. \A x \in Queued(b) : f[x].stamp = b.ord[x].stamp
  BY <1>1, <1>2, <1>3 DEF Queued, OrderRecords
<1> HIDE DEF b1, f, lv, old, s, o
<1>8. InTime(f, OneLevel(b.levels, o.side, o.price, lv))
  BY <1>2, <1>3, <1>6, <1>7, LevelInTime
<1>9. /\ IsRecord(b2) /\ b2.ord = f /\ b2.map = b.map
      /\ b2.levels = OneLevel(b.levels, o.side, o.price, lv)
  <2> DEFINE c == SetLevel(b1, o.side, o.price, lv)
  <2>1. /\ IsRecord(c) /\ c.ord = b1.ord /\ c.map = b1.map
        /\ c.levels = OneLevel(b1.levels, o.side, o.price, lv)
    BY <1>5, SetLevelFields
  <2> HIDE DEF c
  <2> QED BY <1>5, <2>1 DEF c
<1> HIDE DEF b2
<1>10. /\ IsRecord(b3) /\ b3.ord = f /\ b3.map = Drop(b.map, id) /\ b3.levels = b2.levels
  BY <1>9, RetireFields
<1> HIDE DEF b3
<1>11. /\ RefreshBoth(b3).ord = f /\ RefreshBoth(b3).map = Drop(b.map, id)
       /\ RefreshBoth(b3).levels = b2.levels
       /\ AllFresh(RefreshBoth(b3).levels, RefreshBoth(b3).best)
  <2> DEFINE c == RefreshBoth(b3)
  <2>1. /\ c.ord = b3.ord /\ c.levels = b3.levels /\ c.map = b3.map
        /\ c.best = [side \in Sides |-> Begin(side, b3.levels[side])]
    BY <1>10, RefreshFields
  <2> HIDE DEF c
  <2> QED BY <1>10, <2>1 DEF AllFresh, c
<1> QED BY <1>4, <1>8, <1>9, <1>11 DEF f, lv, old, o, s

(* The level an order will rest in. *)
LEMMA HomeLevel ==
    ASSUME NEW b, NEW s \in Slots, Sound(b, {s}), InTime(b.ord, b.levels),
           \A x \in Queued(b) : b.ord[x].stamp < b.ord[s].stamp
    PROVE  LET o == b.ord[s]
               lv == PushBack(LevelAt(b, o.side, o.price), s, o.rem)
           IN  lv.queue # <<>> /\ Ascends(b.ord, lv.queue)
<1> DEFINE o == b.ord[s]
           old == LevelAt(b, o.side, o.price)
           lv == PushBack(old, s, o.rem)
<1>1. /\ IsBook(b) /\ o \in OrderRecords /\ o.side \in Sides /\ o.price \in Prices
      /\ o.rem \in Int /\ s \notin Queued(b)
  BY DEF Sound, Occupied, Partition, OrderRecords, Quantities
<1> HIDE DEF o
<1>2. /\ old \in LevelRecords /\ IsInjective(old.queue) /\ Ascends(b.ord, old.queue)
      /\ Range(old.queue) \subseteq Queued(b)
  <2>1. CASE o.price \in DOMAIN b.levels[o.side]
    <3>1. old = b.levels[o.side][o.price]
      BY <2>1 DEF LevelAt
    <3>2. /\ old \in LevelRecords /\ InLevel(b, o.side, o.price) \subseteq Slots
          /\ Range(old.queue) = InLevel(b, o.side, o.price)
      BY <1>1, <2>1, <3>1, BookFields DEF InLevel
    <3>3. IsInjective(old.queue) /\ Ascends(b.ord, old.queue)
      BY <1>1, <2>1, <3>1 DEF Sound, LevelShape, InTime
    <3> QED BY <1>1, <2>1, <3>2, <3>3 DEF Queued
  <2>2. CASE o.price \notin DOMAIN b.levels[o.side]
    <3>1. old = NewLevel
      BY <2>2 DEF LevelAt
    <3>2. NewLevel \in LevelRecords /\ IsInjective(NewLevel.queue) /\ Range(NewLevel.queue) = {}
      BY DEF NewLevel, LevelRecords, IsInjective, Range
    <3>3. Ascends(b.ord, NewLevel.queue)
      BY DEF NewLevel, Ascends
    <3> QED BY <3>1, <3>2, <3>3
  <2> QED BY <2>1, <2>2
<1>3. \A x \in Range(old.queue) : x # s /\ b.ord[x].stamp < b.ord[s].stamp
  BY <1>1, <1>2
<1>4. s \notin Range(old.queue)
  BY <1>3
<1> HIDE DEF old
<1>5. lv.queue # <<>>
  BY <1>1, <1>2, <1>4, PushBackQueue
<1>6. Ascends(b.ord, lv.queue)
  BY <1>1, <1>2, <1>3, PushAscends
<1> QED BY <1>5, <1>6 DEF lv, old, o

(* The levels of b when s is at the back of the queue where o belongs.     *)
Joined(b, o, s) ==
    OneLevel(b.levels, o.side, o.price, PushBack(LevelAt(b, o.side, o.price), s, o.rem))

LEMMA RestsEffect ==
    ASSUME NEW b, NEW s \in Slots, Sound(b, {s}), InTime(b.ord, b.levels),
           \A x \in Queued(b) : b.ord[x].stamp < b.ord[s].stamp
    PROVE  LET new == AddResting(b, s)
           IN  /\ IsRecord(new)
               /\ new.ord = b.ord /\ new.map = Put(b.map, b.ord[s].id, s)
               /\ new.levels = Joined(b, b.ord[s], s)
               /\ InTime(new.ord, new.levels)
               /\ AllFresh(b.levels, b.best) => AllFresh(new.levels, new.best)
<1> DEFINE o == b.ord[s]
           side == o.side
           p == o.price
           lv == PushBack(LevelAt(b, side, p), s, o.rem)
           ls == [b.levels EXCEPT ![side] = Put(@, p, lv)]
           new == AddResting(b, s)
<1>1. /\ IsBook(b) /\ IsRecord(b) /\ side \in Sides /\ p \in Prices
      /\ \A sd \in Sides : DOMAIN b.levels[sd] \subseteq Prices
      /\ DOMAIN b.levels = Sides /\ b.best \in [Sides -> Prices \cup {End, Dangling}]
  BY SoundRecord DEF OrderRecords
<1>2. lv.queue # <<>> /\ Ascends(b.ord, lv.queue)
  BY HomeLevel
<1>3. /\ IsRecord(new) /\ new.ord = b.ord /\ new.map = Put(b.map, o.id, s) /\ new.levels = ls
      /\ new.best = IF \/ b.best[side] = End
                       \/ b.best[side] # Dangling /\ Better(side, p, b.best[side])
                    THEN [b.best EXCEPT ![side] = Begin(side, ls[side])]
                    ELSE b.best
  BY <1>1, AddRestingFields
<1> HIDE DEF new, lv, side, p
<1>4. ls = OneLevel(b.levels, side, p, lv)
  BY <1>2 DEF OneLevel
<1>5. InTime(b.ord, OneLevel(b.levels, side, p, lv))
  BY <1>1, <1>2, LevelInTime
<1>6. /\ ls[side] = Put(b.levels[side], p, lv)
      /\ \A sd \in Sides : sd # side => ls[sd] = b.levels[sd]
  BY <1>1
<1> HIDE DEF ls
<1>7. ASSUME AllFresh(b.levels, b.best), NEW sd \in Sides
      PROVE  new.best[sd] = Begin(sd, new.levels[sd])
  <2>1. b.best[sd] = Begin(sd, b.levels[sd]) /\ b.best[side] = Begin(side, b.levels[side])
    BY <1>1, <1>7 DEF AllFresh
  <2>2. b.best[side] # Dangling
    BY <1>1, <2>1, BeginType, ValuesApart DEF Prices
  <2>3. CASE sd # side
    BY <1>1, <1>3, <1>6, <2>1, <2>3
  <2>4. CASE sd = side
    <3>1. CASE b.best[side] = End \/ Better(side, p, b.best[side])
      BY <1>1, <1>3, <2>2, <2>4, <3>1
    <3>2. CASE ~ (b.best[side] = End \/ Better(side, p, b.best[side]))
      <4>1. Begin(side, Put(b.levels[side], p, lv)) = Begin(side, b.levels[side])
        BY <1>1, <2>1, <3>2, StillFresh
      <4>2. new.best = b.best
        BY <1>3, <3>2
      <4> QED BY <1>3, <1>6, <2>1, <2>4, <4>1, <4>2
    <3> QED BY <3>1, <3>2
  <2> QED BY <2>3, <2>4
<1> QED BY <1>3, <1>4, <1>5, <1>7 DEF AllFresh, Joined, new, lv, side, p

LEMMA FinishEffect ==
    ASSUME NEW b, NEW s \in Slots, Sound(b, {s}), InTime(b.ord, b.levels),
           \A x \in Queued(b) : b.ord[x].stamp < b.ord[s].stamp
    PROVE  LET new == Finish(b, s)
               done == b.ord[s].rem = 0
           IN  /\ new.ord = [b.ord EXCEPT ![s].state = IF done THEN "Filled" ELSE "PartFill"]
               /\ new.map = IF done THEN b.map ELSE Put(b.map, b.ord[s].id, s)
               /\ new.levels = IF done THEN b.levels ELSE Joined(b, b.ord[s], s)
               /\ AllFresh(new.levels, new.best)
               /\ InTime(new.ord, new.levels)
<1> DEFINE o == b.ord[s]
           done == o.rem = 0
           f == [b.ord EXCEPT ![s].state = IF done THEN "Filled" ELSE "PartFill"]
           b1 == [b EXCEPT !.ord[s].state = IF done THEN "Filled" ELSE "PartFill"]
           b2 == IF done THEN Deallocate(b1, s) ELSE AddResting(b1, s)
<1>1. /\ IsBook(b) /\ IsRecord(b) /\ o \in OrderRecords
      /\ b.ord \in [Slots -> OrderRecords \cup {NoOrder}]
      /\ \A x \in Queued(b) : b.ord[x] \in OrderRecords
      /\ s \notin Queued(b) /\ Queued(b) \subseteq Slots
  BY SoundRecord DEF Sound, Partition, Queued
<1>2. /\ f \in [Slots -> OrderRecords \cup {NoOrder}]
      /\ f[s] \in OrderRecords /\ f[s].side = o.side /\ f[s].price = o.price
      /\ f[s].stamp = o.stamp /\ f[s].id = o.id /\ f[s].rem = o.rem
      /\ \A x \in Slots : x # s => f[x] = b.ord[x]
  BY <1>1 DEF OrderRecords
<1>3. b1 = [b EXCEPT !.ord = f]
  OBVIOUS
<1>4. Finish(b, s) = RefreshBoth(b2)
  BY DEF Finish
<1> HIDE DEF b1, f
<1>5. /\ Sound(b1, {s}) /\ Queued(b1) = Queued(b)
      /\ b1.ord = f /\ b1.map = b.map /\ b1.levels = b.levels
  <2>1. \A x \in Queued(b) \cup {s} :
            f[x] \in OrderRecords /\ f[x].side = b.ord[x].side /\ f[x].price = b.ord[x].price
    BY <1>1, <1>2
  <2> QED BY <1>2, <1>3, <2>1, UpdateOrders
<1>6. InTime(b1.ord, b1.levels)
  <2>1. \A x \in Queued(b) : f[x].stamp = b.ord[x].stamp
    BY <1>1, <1>2
  <2> QED BY <1>1, <1>5, <2>1, SameInTime
<1>7. /\ IsRecord(b2) /\ b2.ord = f
      /\ b2.map = IF done THEN b.map ELSE Put(b.map, o.id, s)
      /\ b2.levels = IF done THEN b.levels ELSE Joined(b, o, s)
      /\ InTime(b2.ord, b2.levels)
  <2>1. IsRecord(b1)
    BY <1>5, SoundRecord
  <2>2. CASE done
    <3> DEFINE c == Deallocate(b1, s)
    <3>1. /\ IsRecord(c) /\ c.ord = b1.ord /\ c.levels = b1.levels /\ c.map = b1.map
      BY <2>1, DeallocateFields
    <3>2. b2 = c
      BY <2>2
    <3> HIDE DEF c, b2
    <3> QED BY <1>5, <1>6, <2>2, <3>1, <3>2
  <2>3. CASE ~ done
    <3> DEFINE c == AddResting(b1, s)
    <3>1. \A x \in Queued(b1) : b1.ord[x].stamp < b1.ord[s].stamp
      BY <1>1, <1>2, <1>5
    <3>2. /\ IsRecord(c) /\ c.ord = b1.ord /\ c.map = Put(b1.map, b1.ord[s].id, s)
          /\ InTime(c.ord, c.levels) /\ c.levels = Joined(b1, b1.ord[s], s)
      BY <1>5, <1>6, <3>1, RestsEffect
    <3>3. b2 = c
      BY <2>3
    <3>4. Joined(b1, b1.ord[s], s) = Joined(b, o, s)
      BY <1>2, <1>5 DEF Joined, LevelAt
    <3> HIDE DEF c, b2
    <3> QED BY <1>2, <1>5, <2>3, <3>2, <3>3, <3>4
  <2> QED BY <2>2, <2>3
<1> HIDE DEF b2
<1>8. LET c == RefreshBoth(b2)
      IN  /\ c.ord = b2.ord /\ c.levels = b2.levels /\ c.map = b2.map
          /\ AllFresh(c.levels, c.best)
  <2> DEFINE c == RefreshBoth(b2)
  <2>1. /\ c.ord = b2.ord /\ c.levels = b2.levels /\ c.map = b2.map
        /\ c.best = [side \in Sides |-> Begin(side, b2.levels[side])]
    BY <1>7, RefreshFields
  <2> HIDE DEF c
  <2> QED BY <2>1 DEF AllFresh, c
<1> QED BY <1>4, <1>7, <1>8 DEF f

(* OrderBook::add into a pool with a free slot. *)
LEMMA AddEffect ==
    ASSUME NEW b, Sound(b, {}), MapLeadsToQueued(b), InTime(b.ord, b.levels), ~ Exhausted(b),
           NEW o \in OrderRecords, o.state = "New",
           \A x \in Queued(b) : b.ord[x].stamp < o.stamp
    PROVE  LET new == AddOrder(b, o)
               s == NextSlot(b)
           IN  /\ s \in Slots /\ s \notin Queued(b)
               /\ Queued(new) = Queued(b) \cup {s}
               /\ new.ord = [b.ord EXCEPT ![s] = o]
               /\ new.map = Put(b.map, o.id, s)
               /\ new.levels = Joined(b, o, s)
               /\ InTime(new.ord, new.levels)
               /\ AllFresh(b.levels, b.best) => AllFresh(new.levels, new.best)
<1> DEFINE s == NextSlot(b)
           c == Construct(b, o)
           new == AddResting(c, s)
<1>1. AddOrder(b, o) = new
  BY DEF AddOrder
<1>2. /\ Sound(c, {s}) /\ Queued(c) = Queued(b)
      /\ s \in Slots /\ s \notin Queued(b)
      /\ c.ord = [b.ord EXCEPT ![s] = o] /\ c.map = b.map /\ c.levels = b.levels
  BY Construction
<1>3. IsRecord(b) /\ b.ord \in [Slots -> OrderRecords \cup {NoOrder}]
  BY SoundRecord
<1>4. c.best = b.best
  BY <1>3, ConstructFields
<1> HIDE DEF c, s
<1>5. /\ c.ord[s] = o
      /\ \A x \in Queued(b) : x \in Slots /\ c.ord[x] = b.ord[x]
  BY <1>2, <1>3 DEF Queued
<1>6. MapLeadsToQueued(c)
  BY <1>2, <1>5 DEF MapLeadsToQueued
<1>7. InTime(c.ord, c.levels)
  <2>1. IsBook(b) /\ \A x \in Queued(b) : c.ord[x].stamp = b.ord[x].stamp
    BY <1>5 DEF Sound
  <2> QED BY <1>2, <2>1, SameInTime
<1>8. Queued(new) = Queued(c) \cup {s}
  BY <1>2, <1>5, <1>6, Rests
<1>9. \A x \in Queued(c) : c.ord[x].stamp < c.ord[s].stamp
  BY <1>2, <1>5
<1>10. /\ new.ord = c.ord /\ new.map = Put(c.map, c.ord[s].id, s)
       /\ new.levels = Joined(c, c.ord[s], s)
       /\ InTime(new.ord, new.levels)
       /\ AllFresh(c.levels, c.best) => AllFresh(new.levels, new.best)
  BY <1>2, <1>7, <1>9, RestsEffect
<1>11. Joined(c, c.ord[s], s) = Joined(b, o, s)
  BY <1>2, <1>5 DEF Joined, LevelAt
<1> HIDE DEF new
<1> QED BY <1>1, <1>2, <1>4, <1>5, <1>8, <1>10, <1>11 DEF s

(* What a fill does: two quantities, perhaps an id gone, and nothing on the *)
(* side of the incoming order.                                             *)
FillChanges(b, s, new) ==
    LET r == Passive(b, s)
        left == b.ord[r].rem - FillQty(b, s)
        side == b.ord[s].side
    IN  /\ new.ord = [b.ord EXCEPT ![s].rem = @ - FillQty(b, s), ![r].rem = left,
                                   ![r].state = IF left = 0 THEN "Filled" ELSE "PartFill"]
        /\ new.map = IF left = 0 THEN Drop(b.map, b.ord[r].id) ELSE b.map
        /\ new.levels[side] = b.levels[side] /\ new.best[side] = b.best[side]
        /\ InTime(new.ord, new.levels)
        /\ LET p == Begin(Other(side), b.levels[Other(side)])
           IN  new.levels = OneLevel(b.levels, Other(side), p,
                                     FilledLevel(b.levels[Other(side)][p], r, FillQty(b, s), left))

LEMMA FillEffect ==
    ASSUME NEW b, NEW s \in Slots, Sound(b, {s}), InTime(b.ord, b.levels), CanFill(b, s)
    PROVE  FillChanges(b, s, Fill(b, s))
<1> DEFINE o == b.ord[s]
           side == Other(o.side)
           p == Begin(side, b.levels[side])
           r == Passive(b, s)
           qty == FillQty(b, s)
           left == b.ord[r].rem - qty
           f == [b.ord EXCEPT ![s].rem = @ - qty, ![r].rem = left,
                              ![r].state = IF left = 0 THEN "Filled" ELSE "PartFill"]
           b1 == [b EXCEPT !.ord[s].rem = @ - qty, !.ord[r].rem = left,
                           !.ord[r].state = IF left = 0 THEN "Filled" ELSE "PartFill"]
           old == b.levels[side][p]
           cut == [old EXCEPT !.total = @ - qty]
           lv == FilledLevel(old, r, qty, left)
           b2 == SetLevel(b1, side, p, lv)
           b3 == Retire(b2, r, b.ord[r].id)
<1>1. /\ IsBook(b) /\ IsRecord(b) /\ o \in OrderRecords /\ o.side \in Sides
      /\ b.ord \in [Slots -> OrderRecords \cup {NoOrder}]
      /\ \A x \in Queued(b) : x \in Slots /\ b.ord[x] \in OrderRecords
      /\ DOMAIN b.levels = Sides /\ b.best \in [Sides -> Prices \cup {End, Dangling}]
  BY SoundRecord DEF Queued, OrderRecords
<1>2. /\ side \in Sides /\ side # o.side /\ p \in DOMAIN b.levels[side] /\ p \in Prices
      /\ old \in LevelRecords /\ IsInjective(old.queue) /\ r \in Range(old.queue)
      /\ r \in Slots /\ r \in Queued(b) /\ r # s /\ b.ord[r] \in OrderRecords
  BY Opposite
<1>3. Fill(b, s) = IF left = 0 THEN b3 ELSE b2
  BY DEF Fill
<1>4. /\ IsRecord(b1) /\ b1.ord = f /\ b1.map = b.map /\ b1.levels = b.levels
      /\ b1.best = b.best
  <2>1. b1 = [b EXCEPT !.ord = f]
    OBVIOUS
  <2> HIDE DEF b1, f
  <2> QED BY <1>1, <2>1 DEF IsRecord
<1> HIDE DEF r, side, p, qty
<1>5. \A x \in Slots : b.ord[x] \in OrderRecords => f[x].stamp = b.ord[x].stamp
  BY <1>1, <1>2 DEF OrderRecords
<1> HIDE DEF b1, f, old, left
<1>6. Ascends(f, lv.queue)
  <2>1. Ascends(b.ord, old.queue)
    BY <1>2 DEF InTime, old
  <2>2. old.total \in Int /\ qty \in Int /\ left \in Int
    BY <1>1, <1>2 DEF LevelRecords, OrderRecords, Quantities, qty, left, r, FillQty, Lesser
  <2>3. cut \in LevelRecords /\ cut.queue = old.queue
    BY <1>2, <2>2 DEF LevelRecords
  <2> HIDE DEF cut
  <2>4. lv = IF left = 0 THEN RemoveFrom(cut, r, left) ELSE cut
    BY DEF FilledLevel, cut
  <2> HIDE DEF lv
  <2>5. lv \in LevelRecords /\ Ascends(b.ord, lv.queue) /\ Range(lv.queue) \subseteq Range(old.queue)
    <3>1. CASE left # 0
      BY <2>1, <2>3, <2>4, <3>1
    <3>2. CASE left = 0
      <4> DEFINE c == RemoveFrom(cut, r, left)
      <4>1. c \in LevelRecords /\ Range(c.queue) = Range(cut.queue) \ {r}
        BY <1>2, <2>2, <2>3, RemoveQueue
      <4>2. Ascends(b.ord, c.queue)
        BY <1>2, <2>1, <2>2, <2>3, RemoveAscends
      <4>3. lv = c
        BY <2>4, <3>2
      <4> HIDE DEF c
      <4> QED BY <2>3, <4>1, <4>2, <4>3
    <3> QED BY <3>1, <3>2
  <2>6. Range(old.queue) \subseteq Queued(b)
    <3>1. InLevel(b, side, p) \subseteq Slots
      BY <1>1, <1>2, BookFields
    <3> QED BY <1>2, <3>1 DEF Queued, InLevel, old
  <2>7. \A x \in Range(lv.queue) : f[x].stamp = b.ord[x].stamp
    BY <1>1, <1>5, <2>5, <2>6
  <2>8. lv.queue \in Seq(Slots)
    BY <2>5 DEF LevelRecords
  <2> QED BY <2>5, <2>7, <2>8, SameStamps
<1> HIDE DEF lv
<1>7. InTime(f, OneLevel(b.levels, side, p, lv))
  <2>1. \A x \in Queued(b) : f[x].stamp = b.ord[x].stamp
    BY <1>1, <1>5
  <2> QED BY <1>1, <1>2, <1>6, <2>1, LevelInTime
<1>8. /\ IsRecord(b2) /\ b2.ord = f /\ b2.map = b.map
      /\ b2.levels = OneLevel(b.levels, side, p, lv)
      /\ b2.best[o.side] = b.best[o.side]
  BY <1>1, <1>2, <1>4, SetLevelFields
<1> HIDE DEF b2
<1>9. b2.levels[o.side] = b.levels[o.side]
  BY <1>1, <1>2, <1>8 DEF OneLevel
<1>10. /\ b3.ord = b2.ord /\ b3.map = Drop(b2.map, b.ord[r].id)
       /\ b3.levels = b2.levels /\ b3.best = b2.best
  BY <1>8, RetireFields
<1> HIDE DEF b3, o
<1> QED BY <1>3, <1>7, <1>8, <1>9, <1>10 DEF FillChanges, f, left, qty, r, o, lv, old, side, p

-----------------------------------------------------------------------------
(* The invariant.  The orders in the book are in the order of time, the    *)
(* order in match() is the youngest, and, if ids are not reused, every     *)
(* resting order is the one its id leads to.                               *)

Stamped(b, held, now) ==
    /\ \A x \in Queued(b) \cup held : b.ord[x].stamp <= now
    /\ \A x, y \in Queued(b) : x # y => b.ord[x].stamp # b.ord[y].stamp
    /\ \A x \in Queued(b), y \in held : b.ord[x].stamp < b.ord[y].stamp

Found(b, held) ==
    UniqueIds => /\ \A x \in Queued(b) : b.ord[x].id \in DOMAIN b.map /\ b.map[b.ord[x].id] = x
                 /\ \A y \in held : b.ord[y].id \notin DOMAIN b.map

Kept(b, held, now) ==
    /\ Sound(b, held) /\ MapLeadsToQueued(b)
    /\ InTime(b.ord, b.levels)
    /\ Stamped(b, held, now)
    /\ Found(b, held)

LEMMA CancelKeeps ==
    ASSUME NEW b, NEW now, Kept(b, {}, now), NEW id, Cancellable(b, id)
    PROVE  Kept(CancelOrder(b, id), {}, now)
<1> DEFINE new == CancelOrder(b, id)
           s == b.map[id]
<1>0. Sound(b, {}) /\ MapLeadsToQueued(b) /\ InTime(b.ord, b.levels)
  BY DEF Kept
<1>1. /\ Sound(new, {}) /\ MapLeadsToQueued(new)
      /\ Queued(new) = Queued(b) \ {s}
  BY <1>0, Cancels
<1>2. /\ new.ord = [b.ord EXCEPT ![s].state = "Cancelled"]
      /\ new.map = Drop(b.map, id) /\ InTime(new.ord, new.levels)
  BY <1>0, CancelEffect
<1>3. s \in Queued(b) /\ b.ord[s].id = id
  BY DEF Cancellable, MapLeadsToQueued, Kept
<1>4. b.ord \in [Slots -> OrderRecords \cup {NoOrder}]
  BY SoundRecord DEF Kept
<1> HIDE DEF new, s
<1>5. \A x \in Queued(new) : x \in Queued(b) /\ x # s /\ new.ord[x] = b.ord[x]
  BY <1>1, <1>2, <1>4 DEF Queued
<1>6. Stamped(new, {}, now)
  BY <1>5 DEF Stamped, Kept
<1>7. Found(new, {})
  BY <1>2, <1>3, <1>5 DEF Found, Kept, Drop
<1> QED BY <1>1, <1>2, <1>6, <1>7 DEF Kept, new

LEMMA FillKeeps ==
    ASSUME NEW b, NEW s \in Slots, NEW now, Kept(b, {s}, now), CanFill(b, s)
    PROVE  LET new == Fill(b, s)
               side == b.ord[s].side
           IN  /\ Kept(new, {s}, now)
               /\ new.ord[s].side = side
               /\ new.levels[side] = b.levels[side] /\ new.best[side] = b.best[side]
<1> DEFINE new == Fill(b, s)
           r == Passive(b, s)
           left == b.ord[r].rem - FillQty(b, s)
           side == b.ord[s].side
<1>0. Sound(b, {s}) /\ MapLeadsToQueued(b) /\ InTime(b.ord, b.levels)
  BY DEF Kept
<1>1. /\ Sound(new, {s}) /\ MapLeadsToQueued(new)
      /\ Queued(new) = IF left = 0 THEN Queued(b) \ {r} ELSE Queued(b)
  BY <1>0, Fills
<1>2. /\ new.ord = [b.ord EXCEPT ![s].rem = @ - FillQty(b, s), ![r].rem = left,
                                 ![r].state = IF left = 0 THEN "Filled" ELSE "PartFill"]
      /\ new.map = IF left = 0 THEN Drop(b.map, b.ord[r].id) ELSE b.map
      /\ InTime(new.ord, new.levels)
      /\ new.levels[side] = b.levels[side] /\ new.best[side] = b.best[side]
  <2>1. FillChanges(b, s, new)
    BY <1>0, FillEffect
  <2> HIDE DEF new
  <2> QED BY <2>1 DEF FillChanges
<1>3. r \in Slots /\ r \in Queued(b) /\ r # s /\ b.ord[r] \in OrderRecords
  BY <1>0, Opposite
<1>4. /\ b.ord \in [Slots -> OrderRecords \cup {NoOrder}]
      /\ \A x \in Queued(b) \cup {s} : b.ord[x] \in OrderRecords
  BY SoundRecord DEF Kept
<1> HIDE DEF new, r, left, side
<1>5. \A x \in Queued(b) \cup {s} :
          new.ord[x].stamp = b.ord[x].stamp /\ new.ord[x].id = b.ord[x].id
  <2>1. Queued(b) \subseteq Slots
    BY DEF Queued
  <2> QED BY <1>2, <1>3, <1>4, <2>1 DEF OrderRecords
<1>6. Queued(new) \subseteq Queued(b)
  BY <1>1
<1>7. Stamped(new, {s}, now)
  BY <1>5, <1>6 DEF Stamped, Kept
<1>8. Found(new, {s})
  <2>1. /\ new.map = IF left = 0 THEN Drop(b.map, b.ord[r].id) ELSE b.map
        /\ Queued(new) = IF left = 0 THEN Queued(b) \ {r} ELSE Queued(b)
    BY <1>1, <1>2
  <2>2. Found(b, {s}) /\ r \in Queued(b)
    BY <1>3 DEF Kept
  <2>3. CASE left = 0
    <3>1. new.map = Drop(b.map, b.ord[r].id) /\ Queued(new) = Queued(b) \ {r}
      BY <2>1, <2>3
    <3>2. \A x \in Queued(b) : new.ord[x].id = b.ord[x].id
      BY <1>5
    <3> SUFFICES ASSUME UniqueIds
                 PROVE  /\ \A x \in Queued(b) \ {r} : new.ord[x].id \in DOMAIN new.map
                                                     /\ new.map[new.ord[x].id] = x
                        /\ \A y \in {s} : new.ord[y].id \notin DOMAIN new.map
      BY <3>1 DEF Found
    <3>3. /\ \A x \in Queued(b) : b.ord[x].id \in DOMAIN b.map /\ b.map[b.ord[x].id] = x
          /\ b.ord[s].id \notin DOMAIN b.map
      BY <2>2 DEF Found
    <3>4. DOMAIN new.map = DOMAIN b.map \ {b.ord[r].id}
          /\ \A k \in DOMAIN new.map : new.map[k] = b.map[k]
      BY <3>1 DEF Drop
    <3>5. new.ord[s].id = b.ord[s].id
      BY <1>5
    <3>6. \A x \in Queued(b) \ {r} : b.ord[x].id # b.ord[r].id
      BY <2>2, <3>3
    <3> QED BY <3>2, <3>3, <3>4, <3>5, <3>6
  <2>4. CASE left # 0
    BY <1>5, <2>1, <2>2, <2>4 DEF Found
  <2> QED BY <2>3, <2>4
<1>9. new.ord[s].side = side
  <2>1. b.ord[s] \in OrderRecords /\ DOMAIN b.ord = Slots /\ s # r
    BY <1>3, <1>4
  <2>2. new.ord[s] = [b.ord[s] EXCEPT !.rem = @ - FillQty(b, s)]
    BY <1>2, <2>1
  <2> QED BY <2>1, <2>2 DEF OrderRecords, side
<1> QED BY <1>1, <1>2, <1>7, <1>8, <1>9 DEF Kept, new, side

LEMMA FinishKeeps ==
    ASSUME NEW b, NEW s \in Slots, NEW now, Kept(b, {s}, now)
    PROVE  /\ Kept(Finish(b, s), {}, now)
           /\ AllFresh(Finish(b, s).levels, Finish(b, s).best)
<1> DEFINE new == Finish(b, s)
           done == b.ord[s].rem = 0
<1>0. /\ Sound(b, {s}) /\ MapLeadsToQueued(b) /\ InTime(b.ord, b.levels)
      /\ \A x \in Queued(b) : b.ord[x].stamp < b.ord[s].stamp
  BY DEF Kept, Stamped
<1>1. /\ Sound(new, {}) /\ MapLeadsToQueued(new)
      /\ Queued(new) = IF done THEN Queued(b) ELSE Queued(b) \cup {s}
  BY <1>0, Finishes
<1>2. /\ new.ord = [b.ord EXCEPT ![s].state = IF done THEN "Filled" ELSE "PartFill"]
      /\ new.map = IF done THEN b.map ELSE Put(b.map, b.ord[s].id, s)
      /\ AllFresh(new.levels, new.best)
      /\ InTime(new.ord, new.levels)
  BY <1>0, FinishEffect
<1>3. /\ b.ord \in [Slots -> OrderRecords \cup {NoOrder}]
      /\ \A x \in Queued(b) \cup {s} : b.ord[x] \in OrderRecords
  BY <1>0, SoundRecord
<1> HIDE DEF new, done
<1>4. \A x \in Queued(b) \cup {s} :
          new.ord[x].stamp = b.ord[x].stamp /\ new.ord[x].id = b.ord[x].id
  <2>1. Queued(b) \subseteq Slots
    BY DEF Queued
  <2> QED BY <1>2, <1>3, <2>1 DEF OrderRecords
<1>5. Stamped(new, {}, now)
  <2>1. \A x \in Queued(b) \cup {s} : b.ord[x].stamp \in Int /\ b.ord[x].stamp <= now
    BY <1>3 DEF Kept, Stamped, OrderRecords
  <2>2. Queued(new) \subseteq Queued(b) \cup {s}
    BY <1>1
  <2>3. \A x, y \in Queued(b) \cup {s} : x # y => b.ord[x].stamp # b.ord[y].stamp
    BY <1>0, <2>1 DEF Kept, Stamped
  <2> QED BY <1>4, <2>1, <2>2, <2>3 DEF Stamped
<1>6. Found(new, {})
  <2>1. Found(b, {s})
    BY DEF Kept
  <2>2. CASE done
    <3>1. new.map = b.map /\ Queued(new) = Queued(b)
      BY <1>1, <1>2, <2>2
    <3> QED BY <1>4, <2>1, <3>1 DEF Found
  <2>3. CASE ~ done
    <3>1. new.map = Put(b.map, b.ord[s].id, s) /\ Queued(new) = Queued(b) \cup {s}
      BY <1>1, <1>2, <2>3
    <3> SUFFICES ASSUME UniqueIds
                 PROVE  \A x \in Queued(b) \cup {s} : new.ord[x].id \in DOMAIN new.map
                                                      /\ new.map[new.ord[x].id] = x
      BY <3>1 DEF Found
    <3>2. /\ \A x \in Queued(b) : b.ord[x].id \in DOMAIN b.map /\ b.map[b.ord[x].id] = x
          /\ b.ord[s].id \notin DOMAIN b.map
      BY <2>1 DEF Found
    <3>3. /\ DOMAIN new.map = DOMAIN b.map \cup {b.ord[s].id} /\ new.map[b.ord[s].id] = s
          /\ \A k \in DOMAIN b.map : k # b.ord[s].id => new.map[k] = b.map[k]
      BY <3>1 DEF Put
    <3>4. \A x \in Queued(b) \cup {s} : new.ord[x].id = b.ord[x].id
      BY <1>4
    <3> QED BY <3>2, <3>3, <3>4
  <2> QED BY <2>2, <2>3
<1> QED BY <1>1, <1>2, <1>5, <1>6 DEF Kept, new

LEMMA ConstructKeeps ==
    ASSUME NEW b, NEW now \in Nat, Kept(b, {}, now), ~ Exhausted(b),
           NEW o \in OrderRecords, o.stamp = now + 1, UniqueIds => o.id \notin DOMAIN b.map
    PROVE  Kept(Construct(b, o), {NextSlot(b)}, now + 1)
<1> DEFINE new == Construct(b, o)
           s == NextSlot(b)
<1>1. /\ Sound(new, {s}) /\ Queued(new) = Queued(b)
      /\ s \in Slots /\ s \notin Queued(b)
      /\ new.ord = [b.ord EXCEPT ![s] = o]
      /\ new.map = b.map /\ new.levels = b.levels
  BY Construction DEF Kept
<1>2. /\ IsBook(b) /\ b.ord \in [Slots -> OrderRecords \cup {NoOrder}]
      /\ \A x \in Queued(b) : b.ord[x] \in OrderRecords
  BY SoundRecord DEF Kept
<1> HIDE DEF new, s
<1>3. new.ord[s] = o /\ \A x \in Queued(b) : new.ord[x] = b.ord[x]
  BY <1>1, <1>2 DEF Queued
<1>4. MapLeadsToQueued(new)
  BY <1>1, <1>3 DEF MapLeadsToQueued, Kept
<1>5. InTime(new.ord, new.levels)
  BY <1>1, <1>2, <1>3, SameInTime DEF Kept
<1>6. Stamped(new, {s}, now + 1)
  <2>1. \A x \in Queued(b) : b.ord[x].stamp \in Int /\ b.ord[x].stamp <= now
    BY <1>2 DEF Kept, Stamped, OrderRecords
  <2>2. \A x \in Queued(b) : b.ord[x].stamp <= now + 1 /\ b.ord[x].stamp < now + 1
    BY <2>1
  <2>3. now + 1 <= now + 1
    OBVIOUS
  <2> QED BY <1>1, <1>3, <2>2, <2>3 DEF Stamped, Kept
<1>7. Found(new, {s})
  <2>1. new.map = b.map /\ Queued(new) = Queued(b)
    BY <1>1
  <2>2. Found(b, {})
    BY DEF Kept
  <2>3. UniqueIds => new.ord[s].id \notin DOMAIN new.map
    BY <1>3, <2>1
  <2>4. UniqueIds => \A x \in Queued(new) :
            new.ord[x].id \in DOMAIN new.map /\ new.map[new.ord[x].id] = x
    BY <1>3, <2>1, <2>2 DEF Found
  <2> QED BY <2>3, <2>4 DEF Found
<1> QED BY <1>1, <1>4, <1>5, <1>6, <1>7 DEF Kept, new, s

LEMMA AddKeeps ==
    ASSUME NEW b, NEW now \in Nat, Kept(b, {}, now), ~ Exhausted(b),
           NEW o \in OrderRecords, o.state = "New", o.stamp = now + 1,
           UniqueIds => o.id \notin DOMAIN b.map
    PROVE  Kept(AddOrder(b, o), {}, now + 1)
<1> DEFINE new == AddOrder(b, o)
           s == NextSlot(b)
<1>0. /\ IsBook(b) /\ b.ord \in [Slots -> OrderRecords \cup {NoOrder}]
      /\ \A x \in Queued(b) : b.ord[x] \in OrderRecords
  BY SoundRecord DEF Kept
<1>1. \A x \in Queued(b) : b.ord[x].stamp \in Int /\ b.ord[x].stamp <= now
  BY <1>0 DEF Kept, Stamped, OrderRecords
<1>2. \A x \in Queued(b) : b.ord[x].stamp <= now + 1 /\ b.ord[x].stamp < now + 1
  BY <1>1
<1>3. \A x \in Queued(b) : b.ord[x].stamp < o.stamp
  BY <1>2
<1>4. /\ s \in Slots /\ s \notin Queued(b)
      /\ Queued(new) = Queued(b) \cup {s}
      /\ new.ord = [b.ord EXCEPT ![s] = o]
      /\ new.map = Put(b.map, o.id, s)
      /\ InTime(new.ord, new.levels)
  BY <1>3, AddEffect DEF Kept
<1>5. Sound(new, {}) /\ MapLeadsToQueued(new)
  BY Adds DEF Kept
<1> HIDE DEF new, s
<1>6. new.ord[s] = o /\ \A x \in Queued(b) : new.ord[x] = b.ord[x]
  BY <1>0, <1>4 DEF Queued
<1>7. Stamped(new, {}, now + 1)
  <2>1. now + 1 <= now + 1
    OBVIOUS
  <2>2. \A x \in Queued(b) : b.ord[x].stamp # now + 1
    BY <1>1
  <2>3. \A x, y \in Queued(b) : x # y => b.ord[x].stamp # b.ord[y].stamp
    BY DEF Kept, Stamped
  <2> QED BY <1>2, <1>4, <1>6, <2>1, <2>2, <2>3 DEF Stamped
<1>8. Found(new, {})
  BY <1>4, <1>6 DEF Found, Kept, Put
<1> QED BY <1>4, <1>5, <1>7, <1>8 DEF Kept, new

(* A cancelled order leaves a free slot for the one that replaces it.      *)
LEMMA CancelFrees ==
    ASSUME NEW b, Sound(b, {}), MapLeadsToQueued(b), NEW id, Cancellable(b, id)
    PROVE  ~ Exhausted(CancelOrder(b, id))
<1> DEFINE new == CancelOrder(b, id)
           s == b.map[id]
<1>1. Sound(new, {}) /\ Queued(new) = Queued(b) \ {s}
  BY Cancels
<1>2. s \in Queued(b)
  BY DEF Cancellable, MapLeadsToQueued
<1> HIDE DEF new, s
<1>3. s \in Available(new)
  BY <1>1, <1>2 DEF Sound, Partition, Queued
<1>4. \E i \in new.used .. PoolSize - 1 : TRUE
  BY <1>3 DEF Available
<1>5. new.used \in Nat
  BY <1>1, BookFields DEF Sound
<1>6. ~ (new.used >= PoolSize)
  BY <1>4, <1>5, BookAssumption
<1> QED BY <1>6 DEF Exhausted, new

PriorityInv == IndInv /\ Kept(book, InMatch, clock) /\ BestFresh

LEMMA PriorityInit == Init => PriorityInv
<1> SUFFICES ASSUME Init PROVE PriorityInv
  OBVIOUS
<1>1. IndInv
  BY InitialBook
<1>2. /\ book.levels = [side \in Sides |-> EmptyMap] /\ book.map = EmptyMap
      /\ book.best = [side \in Sides |-> End]
      /\ Idle /\ InMatch = {}
  BY DEF Init, EmptyBook, Idle, InMatch
<1>3. DOMAIN EmptyMap = {}
  BY DEF EmptyMap
<1>4. Queued(book) = {}
  BY <1>2, <1>3 DEF Queued
<1>5. InTime(book.ord, book.levels)
  BY <1>2, <1>3 DEF InTime
<1>6. Stamped(book, {}, clock) /\ Found(book, {})
  BY <1>4 DEF Stamped, Found
<1>7. BestFresh
  BY <1>2, <1>3 DEF BestFresh, Begin
<1> QED BY <1>1, <1>2, <1>5, <1>6, <1>7 DEF PriorityInv, IndInv, Kept

LEMMA PriorityStep == PriorityInv /\ [Next]_vars => PriorityInv'
<1> SUFFICES ASSUME PriorityInv, [Next]_vars
             PROVE  Kept(book', InMatch', clock') /\ BestFresh'
  BY Step DEF PriorityInv
<1>1. /\ Kept(book, InMatch, clock) /\ BestFresh
      /\ aggressive \in Slots \cup {NoSlot} /\ clock \in Nat
  BY DEF PriorityInv, IndInv, TypeOK
<1>2. /\ Idle => Kept(book, {}, clock) /\ AllFresh(book.levels, book.best)
      /\ ~ Idle => aggressive \in Slots /\ Kept(book, {aggressive}, clock)
  BY <1>1 DEF InMatch, Idle, BestFresh, AllFresh
<1>3. ASSUME Kept(book', {}, clock'), AllFresh(book'.levels, book'.best), aggressive' = NoSlot
      PROVE  Kept(book', InMatch', clock') /\ BestFresh'
  BY <1>3 DEF InMatch, Idle, BestFresh, AllFresh
<1>4. ASSUME NEW s \in Slots, Kept(book', {s}, clock'), aggressive' = s,
             LET side == book'.ord[s].side
             IN  book'.best[side] = Begin(side, book'.levels[side])
      PROVE  Kept(book', InMatch', clock') /\ BestFresh'
  <2>1. s # NoSlot
    BY BookAssumption DEF Slots
  <2> QED BY <1>4, <2>1 DEF InMatch, Idle, BestFresh
<1>5. ASSUME NEW id \in Ids, NEW side \in Sides, NEW p \in Prices, NEW q \in Quantities,
             clock < MaxClock
      PROVE  LET o == Order(id, side, p, q, clock + 1)
             IN  o \in OrderRecords /\ o.state = "New" /\ o.stamp = clock + 1
                 /\ o.id = id /\ o.side = side
  BY <1>1, <1>5, BookAssumption DEF Order, OrderRecords
<1>6. ASSUME NEW id \in Ids, NEW side \in Sides, NEW p \in Prices, NEW q \in Quantities,
             NewOrder(id, side, p, q)
      PROVE  Kept(book', InMatch', clock') /\ BestFresh'
  <2> DEFINE o == Order(id, side, p, q, clock + 1)
             s == NextSlot(book)
             new == Construct(book, o)
  <2>1. /\ Idle /\ ~ Exhausted(book) /\ clock < MaxClock /\ Usable(id)
        /\ book' = new /\ aggressive' = s /\ clock' = clock + 1
    BY <1>6 DEF NewOrder
  <2>2. o \in OrderRecords /\ o.stamp = clock + 1 /\ o.id = id /\ o.side = side
    BY <1>5, <2>1
  <2>3. Kept(book, {}, clock) /\ AllFresh(book.levels, book.best)
    BY <1>2, <2>1
  <2> HIDE DEF o
  <2>4. Kept(new, {s}, clock + 1)
    BY <1>1, <2>1, <2>2, <2>3, ConstructKeeps DEF Usable
  <2>5. /\ s \in Slots /\ new.ord = [book.ord EXCEPT ![s] = o] /\ new.levels = book.levels
    BY <2>1, <2>2, <2>3, Construction DEF Kept
  <2>6. book.ord \in [Slots -> OrderRecords \cup {NoOrder}] /\ new.best = book.best
    BY <2>3, SoundRecord, ConstructFields DEF Kept
  <2> HIDE DEF new, s
  <2>7. new.ord[s].side \in Sides /\ AllFresh(new.levels, new.best)
    BY <2>2, <2>3, <2>5, <2>6
  <2>8. LET sd == new.ord[s].side IN new.best[sd] = Begin(sd, new.levels[sd])
    BY <2>7 DEF AllFresh
  <2> QED BY <1>4, <2>1, <2>4, <2>5, <2>8
<1>7. CASE FillStep
  <2> DEFINE s == aggressive
             side == book.ord[s].side
             new == Fill(book, s)
  <2>1. /\ ~ Idle /\ CanFill(book, s) /\ book' = new /\ s' = s /\ clock' = clock
    BY <1>7 DEF FillStep
  <2>2. s \in Slots /\ Kept(book, {s}, clock)
    BY <1>2, <2>1
  <2>3. /\ Kept(new, {s}, clock) /\ new.ord[s].side = side
        /\ new.levels[side] = book.levels[side] /\ new.best[side] = book.best[side]
    BY <2>1, <2>2, FillKeeps
  <2>4. book.best[side] = Begin(side, book.levels[side])
    BY <1>1, <2>1 DEF BestFresh
  <2> HIDE DEF new
  <2> QED BY <1>4, <2>1, <2>2, <2>3, <2>4
<1>8. CASE FinishMatch
  <2>1. ~ Idle /\ book' = Finish(book, aggressive) /\ aggressive' = NoSlot /\ clock' = clock
    BY <1>8 DEF FinishMatch
  <2>2. /\ Kept(Finish(book, aggressive), {}, clock)
        /\ AllFresh(Finish(book, aggressive).levels, Finish(book, aggressive).best)
    BY <1>2, <2>1, FinishKeeps
  <2> QED BY <1>3, <2>1, <2>2
<1>9. ASSUME NEW id \in Ids, Cancel(id) PROVE Kept(book', InMatch', clock') /\ BestFresh'
  <2>1. /\ Idle /\ Cancellable(book, id) /\ book' = CancelOrder(book, id)
        /\ aggressive' = NoSlot /\ clock' = clock
    BY <1>9 DEF Cancel, Idle
  <2>2. Kept(CancelOrder(book, id), {}, clock)
    BY <1>2, <2>1, CancelKeeps
  <2>3. AllFresh(CancelOrder(book, id).levels, CancelOrder(book, id).best)
    BY <1>2, <2>1, CancelEffect DEF Kept
  <2> QED BY <1>3, <2>1, <2>2, <2>3
<1>10. ASSUME NEW id \in Ids, NEW q \in Quantities, Modify(id, q)
       PROVE  Kept(book', InMatch', clock') /\ BestFresh'
  <2> DEFINE old == book.ord[book.map[id]]
             o == Order(id, old.side, old.price, q, clock + 1)
             c == CancelOrder(book, id)
             new == AddOrder(c, o)
  <2>1. /\ Idle /\ Cancellable(book, id) /\ clock < MaxClock /\ book' = new
        /\ aggressive' = NoSlot /\ clock' = clock + 1
    BY <1>10 DEF Modify, Idle
  <2>2. Kept(book, {}, clock)
    BY <1>2, <2>1
  <2>3. Kept(c, {}, clock)
    BY <2>1, <2>2, CancelKeeps
  <2>4. AllFresh(c.levels, c.best) /\ c.map = Drop(book.map, id)
    BY <2>1, <2>2, CancelEffect DEF Kept
  <2>5. ~ Exhausted(c)
    BY <2>1, <2>2, CancelFrees DEF Kept
  <2>6. old.side \in Sides /\ old.price \in Prices
    <3>1. book.map[id] \in Queued(book)
      BY <2>1, <2>2 DEF Cancellable, MapLeadsToQueued, Kept
    <3> QED BY <2>2, <3>1, Home DEF Kept
  <2> HIDE DEF c, old
  <2>7. o \in OrderRecords /\ o.state = "New" /\ o.stamp = clock + 1 /\ o.id = id
    BY <1>5, <2>1, <2>6
  <2> HIDE DEF o
  <2>8. o.id \notin DOMAIN c.map
    BY <2>4, <2>7 DEF Drop
  <2>9. Kept(new, {}, clock + 1)
    BY <1>1, <2>3, <2>5, <2>7, <2>8, AddKeeps
  <2>10. \A x \in Queued(c) : c.ord[x].stamp < o.stamp
    <3>1. \A x \in Queued(c) : c.ord[x].stamp \in Int /\ c.ord[x].stamp <= clock
      BY <2>3, SoundRecord DEF Kept, Stamped, OrderRecords
    <3> QED BY <1>1, <2>7, <3>1
  <2>11. AllFresh(new.levels, new.best)
    BY <2>3, <2>4, <2>5, <2>7, <2>10, AddEffect DEF Kept
  <2> HIDE DEF new
  <2> QED BY <1>3, <2>1, <2>9, <2>11
<1>11. ASSUME NEW id \in Ids, NEW side \in Sides, NEW p \in Prices, NEW q \in Quantities,
              Add(id, side, p, q)
       PROVE  Kept(book', InMatch', clock') /\ BestFresh'
  <2> DEFINE o == Order(id, side, p, q, clock + 1)
             new == AddOrder(book, o)
  <2>1. /\ Idle /\ clock < MaxClock /\ book' = new /\ Usable(id) /\ ~ Exhausted(book)
        /\ aggressive' = NoSlot /\ clock' = clock + 1
    BY <1>11 DEF Add, Idle
  <2>2. o \in OrderRecords /\ o.state = "New" /\ o.stamp = clock + 1 /\ o.id = id
    BY <1>5, <2>1
  <2>3. Kept(book, {}, clock) /\ AllFresh(book.levels, book.best)
    BY <1>2, <2>1
  <2> HIDE DEF o
  <2>4. Kept(new, {}, clock + 1)
    BY <1>1, <2>1, <2>2, <2>3, AddKeeps DEF Usable
  <2>5. \A x \in Queued(book) : book.ord[x].stamp < o.stamp
    <3>1. \A x \in Queued(book) : book.ord[x].stamp \in Int /\ book.ord[x].stamp <= clock
      BY <2>3, SoundRecord DEF Kept, Stamped, OrderRecords
    <3> QED BY <1>1, <2>2, <3>1
  <2>6. AllFresh(new.levels, new.best)
    BY <2>1, <2>2, <2>3, <2>5, AddEffect DEF Kept
  <2> HIDE DEF new
  <2> QED BY <1>3, <2>1, <2>4, <2>6
<1>12. CASE UNCHANGED vars
  <2>1. /\ book' = book /\ aggressive' = aggressive /\ clock' = clock
    BY <1>12 DEF vars
  <2> QED BY <1>1, <2>1 DEF InMatch, Idle, BestFresh
<1> QED BY <1>6, <1>7, <1>8, <1>9, <1>10, <1>11, <1>12 DEF Next

LEMMA Priority == Spec => []PriorityInv
<1>1. PriorityInv /\ [Next]_vars => PriorityInv'
  BY PriorityStep
<1> QED BY <1>1, PriorityInit, PTL DEF Spec

(* The iterators that add_resting and best_bid() read are the first        *)
(* elements of their maps whenever they are read; none is dangling.        *)
THEOREM IteratorsFresh == Spec => []BestFresh
<1>1. PriorityInv => BestFresh
  BY DEF PriorityInv
<1> QED BY <1>1, Priority, PTL

(* If no client reuses the id of a live order, every resting order can be  *)
(* found and cancelled by its id.                                          *)
THEOREM RestingFound ==
    ASSUME UniqueIds
    PROVE  Spec => []RestingInMap
<1>1. PriorityInv => RestingInMap
  BY DEF PriorityInv, Kept, Found, RestingInMap, Range
<1> QED BY <1>1, Priority, PTL

-----------------------------------------------------------------------------
(* The totals of the levels.  An operation changes the total and the orders*)
(* of the one level it writes alike, and no quantity in another level.     *)

RemOf(ord) == [x \in Slots |-> ord[x].rem]

Balanced(ord, lv) ==
    /\ lv.count = Len(lv.queue)
    /\ lv.total = SumFunctionOnSet(RemOf(ord), Range(lv.queue))

AllBalanced(ord, levels) ==
    \A sd \in Sides : \A q \in DOMAIN levels[sd] : Balanced(ord, levels[sd][q])

(* The orders of a queue have quantities, and are finitely many.           *)
HasQuantities(ord, lv) ==
    /\ lv \in LevelRecords /\ IsInjective(lv.queue)
    /\ \A x \in Range(lv.queue) : ord[x].rem \in Int

LEMMA QueueSummable ==
    ASSUME NEW lv, NEW ord, HasQuantities(ord, lv)
    PROVE  /\ IsFiniteSet(Range(lv.queue)) /\ Range(lv.queue) \subseteq Slots
           /\ lv.queue \in Seq(Slots) /\ Len(lv.queue) \in Nat /\ lv.total \in Int
           /\ \A x \in Range(lv.queue) : RemOf(ord)[x] = ord[x].rem /\ RemOf(ord)[x] \in Int
<1>1. lv.queue \in Seq(Slots) /\ lv.total \in Int
  BY DEF HasQuantities, LevelRecords
<1>2. IsFiniteSet(Range(lv.queue)) /\ Range(lv.queue) \subseteq Slots
  BY <1>1, RangeFinite
<1>3. \A x \in Range(lv.queue) : RemOf(ord)[x] = ord[x].rem /\ RemOf(ord)[x] \in Int
  BY <1>2 DEF RemOf, HasQuantities
<1> QED BY <1>1, <1>2, <1>3

LEMMA SameBalanced ==
    ASSUME NEW lv, NEW ord, NEW new, HasQuantities(ord, lv), Balanced(ord, lv),
           \A x \in Range(lv.queue) : new[x].rem = ord[x].rem
    PROVE  Balanced(new, lv)
<1> DEFINE R == Range(lv.queue)
           f == RemOf(ord)
           g == RemOf(new)
<1>1. IsFiniteSet(R) /\ \A x \in R : f[x] \in Int /\ f[x] = g[x]
  BY QueueSummable DEF RemOf
<1>2. SumFunctionOnSet(f, R) = SumFunctionOnSet(g, R)
  <2> HIDE DEF R, f, g
  <2> QED BY <1>1, SumsAgree
<1> QED BY <1>2 DEF Balanced

LEMMA PushBalanced ==
    ASSUME NEW lv, NEW ord, HasQuantities(ord, lv), Balanced(ord, lv),
           NEW s \in Slots, s \notin Range(lv.queue), ord[s].rem \in Int
    PROVE  Balanced(ord, PushBack(lv, s, ord[s].rem))
<1> DEFINE R == Range(lv.queue)
           f == RemOf(ord)
           new == PushBack(lv, s, ord[s].rem)
<1>1. /\ IsFiniteSet(R) /\ \A x \in R : f[x] \in Int
      /\ Len(lv.queue) \in Nat /\ lv.total \in Int /\ lv.queue \in Seq(Slots)
  BY QueueSummable
<1>2. f[s] = ord[s].rem
  BY DEF RemOf
<1>3. new.total = lv.total + ord[s].rem /\ new.count = lv.count + 1
  BY DEF PushBack
<1>4. Range(new.queue) = R \cup {s}
  <2>1. lv \in LevelRecords /\ IsInjective(lv.queue)
    BY DEF HasQuantities
  <2> QED BY <2>1, PushBackQueue
<1>5. Len(new.queue) = Len(lv.queue) + 1
  <2>1. new.queue = Append(lv.queue, s)
    BY DEF PushBack
  <2> HIDE DEF new
  <2> QED BY <1>1, <2>1
<1>6. SumFunctionOnSet(f, R \cup {s}) = SumFunctionOnSet(f, R) + f[s]
  <2> HIDE DEF R, f
  <2>1. s \notin R /\ f[s] \in Int
    BY <1>2 DEF R
  <2> QED BY <1>1, <2>1, SumWithOne
<1>7. lv.total = SumFunctionOnSet(f, R) /\ lv.count = Len(lv.queue)
  BY DEF Balanced
<1> HIDE DEF f, R, new
<1>8. new.total = SumFunctionOnSet(f, Range(new.queue)) /\ new.count = Len(new.queue)
  BY <1>2, <1>3, <1>4, <1>5, <1>6, <1>7
<1> QED BY <1>8 DEF Balanced, new, f

LEMMA RemoveBalanced ==
    ASSUME NEW lv, NEW ord, HasQuantities(ord, lv), Balanced(ord, lv),
           NEW s \in Range(lv.queue)
    PROVE  Balanced(ord, RemoveFrom(lv, s, ord[s].rem))
<1> DEFINE R == Range(lv.queue)
           f == RemOf(ord)
           new == RemoveFrom(lv, s, ord[s].rem)
<1>1. /\ IsFiniteSet(R) /\ \A x \in R : f[x] \in Int
      /\ lv.total \in Int /\ f[s] = ord[s].rem /\ ord[s].rem \in Int
  BY QueueSummable
<1>2. lv \in QueueRecords(Slots) /\ IsInjective(lv.queue)
  BY DEF HasQuantities, LevelRecords, QueueRecords
<1>3. new.total = lv.total - ord[s].rem /\ new.count = lv.count - 1
  BY DEF RemoveFrom
<1>4. Range(new.queue) = R \ {s}
  BY <1>1, <1>2, RemovedRange
<1>5. Len(new.queue) = Len(lv.queue) - 1
  <2>1. MovedUp(lv.queue, new.queue, s)
    BY <1>1, <1>2, Removed
  <2> HIDE DEF new
  <2> QED BY <2>1 DEF MovedUp
<1>6. /\ SumFunctionOnSet(f, R) = f[s] + SumFunctionOnSet(f, R \ {s})
      /\ SumFunctionOnSet(f, R \ {s}) \in Int
  <2> HIDE DEF f
  <2> QED BY <1>1, Sums
<1>7. lv.total = SumFunctionOnSet(f, R) /\ lv.count = Len(lv.queue)
  BY DEF Balanced
<1> HIDE DEF f, R, new
<1>8. new.total = SumFunctionOnSet(f, Range(new.queue)) /\ new.count = Len(new.queue)
  BY <1>1, <1>3, <1>4, <1>5, <1>6, <1>7
<1> QED BY <1>8 DEF Balanced, new, f

(* A fill takes as much from the total as from the order; an order with    *)
(* nothing left takes nothing along when it leaves.                        *)
LEMMA FillBalanced ==
    ASSUME NEW lv, NEW ord, HasQuantities(ord, lv), Balanced(ord, lv),
           NEW s \in Range(lv.queue), NEW qty \in Int, NEW new,
           new[s].rem = ord[s].rem - qty,
           \A x \in Range(lv.queue) \ {s} : new[x].rem = ord[x].rem
    PROVE  Balanced(new, FilledLevel(lv, s, qty, new[s].rem))
<1> DEFINE R == Range(lv.queue)
           f == RemOf(ord)
           g == RemOf(new)
           cut == [lv EXCEPT !.total = @ - qty]
<1>1. /\ IsFiniteSet(R) /\ \A x \in R : f[x] \in Int
      /\ lv.total \in Int /\ f[s] = ord[s].rem /\ ord[s].rem \in Int
      /\ R \subseteq Slots
  BY QueueSummable
<1>2. /\ cut \in LevelRecords /\ cut.queue = lv.queue /\ cut.count = lv.count
      /\ cut.total = lv.total - qty
  <2>1. lv \in LevelRecords /\ lv.total - qty \in Int
    BY <1>1 DEF HasQuantities
  <2> QED BY <2>1 DEF LevelRecords
<1>3. HasQuantities(new, cut)
  <2>1. \A x \in R : new[x].rem \in Int
    BY <1>1 DEF HasQuantities
  <2> HIDE DEF cut
  <2> QED BY <1>2, <2>1 DEF HasQuantities
<1>4. Balanced(new, cut)
  <2>1. g[s] = ord[s].rem - qty /\ \A x \in R \ {s} : g[x] = f[x]
    BY <1>1 DEF RemOf
  <2>2. lv.total = SumFunctionOnSet(f, R) /\ lv.count = Len(lv.queue)
    BY DEF Balanced
  <2> HIDE DEF f, g, R, cut
  <2>3. /\ IsFiniteSet(R) /\ s \in R /\ g[s] \in Int
        /\ \A x \in R : f[x] \in Int
        /\ \A x \in R \ {s} : g[x] = f[x]
    BY <1>1, <2>1 DEF R
  <2>4. SumFunctionOnSet(g, R) = SumFunctionOnSet(f, R) - f[s] + g[s]
    BY <2>3, SumChanges
  <2>5. cut.total = SumFunctionOnSet(g, R)
    BY <1>1, <1>2, <2>1, <2>2, <2>4
  <2> QED BY <1>2, <2>2, <2>5 DEF Balanced, g, R
<1>5. s \in Range(cut.queue)
  BY <1>2
<1> HIDE DEF cut
<1>6. Balanced(new, RemoveFrom(cut, s, new[s].rem))
  BY <1>3, <1>4, <1>5, RemoveBalanced
<1> QED BY <1>4, <1>6 DEF FilledLevel, cut

(* The levels of a sound book hold different orders.                       *)
LEMMA OneLevelBalanced ==
    ASSUME NEW b, NEW held, Sound(b, held), AllBalanced(b.ord, b.levels), NEW ord,
           NEW side \in Sides, NEW p \in Prices, NEW lv,
           \A x \in Queued(b) : ord[x].rem = b.ord[x].rem
                                \/ (b.ord[x].side = side /\ b.ord[x].price = p),
           Balanced(ord, lv)
    PROVE  AllBalanced(ord, OneLevel(b.levels, side, p, lv))
<1> DEFINE new == OneLevel(b.levels, side, p, lv)
<1>1. /\ DOMAIN b.levels = Sides
      /\ new[side] = IF lv.queue = <<>> THEN Drop(b.levels[side], p)
                     ELSE Put(b.levels[side], p, lv)
      /\ \A sd \in Sides : sd # side => new[sd] = b.levels[sd]
  BY BookFields DEF OneLevel, Sound
<1> HIDE DEF new
<1> SUFFICES ASSUME NEW sd \in Sides, NEW q \in DOMAIN new[sd]
             PROVE  Balanced(ord, new[sd][q])
  BY DEF AllBalanced, new
<1>2. \/ new[sd][q] = lv
      \/ q \in DOMAIN b.levels[sd] /\ new[sd][q] = b.levels[sd][q] /\ ~ (sd = side /\ q = p)
  BY <1>1 DEF Drop, Put
<1>3. ASSUME q \in DOMAIN b.levels[sd], ~ (sd = side /\ q = p)
      PROVE  Balanced(ord, b.levels[sd][q])
  <2> DEFINE old == b.levels[sd][q]
  <2>1. old \in LevelRecords /\ InLevel(b, sd, q) \subseteq Slots
    BY <1>3, BookFields DEF Sound
  <2>2. IsInjective(old.queue) /\ \A x \in Range(old.queue) : b.ord[x].side = sd /\ b.ord[x].price = q
    BY <1>3 DEF Sound, LevelShape
  <2>3. Range(old.queue) \subseteq Queued(b)
    BY <1>3, <2>1 DEF Queued, InLevel
  <2>4. \A x \in Range(old.queue) : b.ord[x].rem \in Int
    BY <2>3 DEF Sound, Occupied, OrderRecords, Quantities
  <2>5. Balanced(b.ord, old)
    BY <1>3 DEF AllBalanced
  <2> HIDE DEF old
  <2>6. HasQuantities(b.ord, old)
    BY <2>1, <2>2, <2>4 DEF HasQuantities
  <2>7. \A x \in Range(old.queue) : ord[x].rem = b.ord[x].rem
    BY <1>3, <2>2, <2>3
  <2>8. Balanced(ord, old)
    BY <2>5, <2>6, <2>7, SameBalanced
  <2> QED BY <2>8 DEF old
<1> QED BY <1>2, <1>3

(* Of a queue of a sound book.                                             *)
LEMMA QueueFacts ==
    ASSUME NEW b, NEW held, Sound(b, held), NEW sd \in Sides, NEW q \in DOMAIN b.levels[sd]
    PROVE  /\ HasQuantities(b.ord, b.levels[sd][q])
           /\ Range(b.levels[sd][q].queue) \subseteq Queued(b)
<1> DEFINE old == b.levels[sd][q]
<1>1. old \in LevelRecords /\ InLevel(b, sd, q) \subseteq Slots
  BY BookFields DEF Sound
<1>2. IsInjective(old.queue)
  BY DEF Sound, LevelShape
<1>3. Range(old.queue) \subseteq Queued(b)
  BY <1>1 DEF Queued, InLevel
<1>4. \A x \in Range(old.queue) : b.ord[x].rem \in Int
  BY <1>3 DEF Sound, Occupied, OrderRecords, Quantities
<1> HIDE DEF old
<1> QED BY <1>1, <1>2, <1>3, <1>4 DEF HasQuantities, old

LEMMA CancelBalanced ==
    ASSUME NEW b, Sound(b, {}), MapLeadsToQueued(b), InTime(b.ord, b.levels),
           AllBalanced(b.ord, b.levels), NEW id, Cancellable(b, id)
    PROVE  LET new == CancelOrder(b, id) IN AllBalanced(new.ord, new.levels)
<1> DEFINE new == CancelOrder(b, id)
           s == b.map[id]
           o == b.ord[s]
           old == b.levels[o.side][o.price]
           lv == RemoveFrom(old, s, o.rem)
<1>1. /\ new.ord = [b.ord EXCEPT ![s].state = "Cancelled"]
      /\ new.levels = OneLevel(b.levels, o.side, o.price, lv)
  BY CancelEffect
<1>2. s \in Queued(b)
  BY DEF Cancellable, MapLeadsToQueued
<1>3. /\ s \in Slots /\ o \in OrderRecords /\ o.side \in Sides /\ o.price \in Prices
      /\ o.price \in DOMAIN b.levels[o.side] /\ s \in Range(old.queue)
  BY <1>2, Home DEF InLevel
<1>4. b.ord \in [Slots -> OrderRecords \cup {NoOrder}] /\ Queued(b) \subseteq Slots
  BY SoundRecord DEF Queued
<1> HIDE DEF new, s
<1>5. \A x \in Queued(b) : new.ord[x].rem = b.ord[x].rem
  <2>1. DOMAIN b.ord = Slots /\ b.ord[s] \in OrderRecords /\ s \in Slots
    BY <1>3, <1>4
  <2>2. new.ord[s].rem = b.ord[s].rem
    BY <1>1, <2>1 DEF OrderRecords
  <2>3. ASSUME NEW x \in Queued(b), x # s PROVE new.ord[x] = b.ord[x]
    <3>1. x \in Slots
      BY <1>4
    <3> QED BY <1>1, <2>1, <2>3, <3>1
  <2> QED BY <2>2, <2>3
<1>6. HasQuantities(b.ord, old) /\ Range(old.queue) \subseteq Queued(b) /\ Balanced(b.ord, old)
  BY <1>3, QueueFacts DEF AllBalanced
<1> HIDE DEF old, o
<1>7. HasQuantities(new.ord, old)
  <2>1. \A x \in Range(old.queue) : new.ord[x].rem \in Int
    BY <1>5, <1>6 DEF HasQuantities
  <2> QED BY <1>6, <2>1 DEF HasQuantities
<1>8. Balanced(new.ord, old)
  BY <1>5, <1>6, SameBalanced
<1>9. new.ord[s].rem = o.rem
  BY <1>2, <1>5 DEF o
<1> HIDE DEF lv
<1>10. Balanced(new.ord, lv)
  <2>1. Balanced(new.ord, RemoveFrom(old, s, new.ord[s].rem))
    BY <1>3, <1>7, <1>8, RemoveBalanced
  <2> QED BY <1>9, <2>1 DEF lv
<1>11. AllBalanced(new.ord, OneLevel(b.levels, o.side, o.price, lv))
  BY <1>3, <1>5, <1>10, OneLevelBalanced
<1> QED BY <1>1, <1>11 DEF new

(* An order joins the level where it belongs.                              *)
LEMMA JoinBalanced ==
    ASSUME NEW b, NEW held, Sound(b, held), AllBalanced(b.ord, b.levels),
           NEW s \in Slots, s \notin Queued(b), NEW ord, ord[s] \in OrderRecords,
           \A x \in Queued(b) : ord[x].rem = b.ord[x].rem
    PROVE  AllBalanced(ord, Joined(b, ord[s], s))
<1> DEFINE o == ord[s]
           old == LevelAt(b, o.side, o.price)
           lv == PushBack(old, s, o.rem)
<1>1. o.side \in Sides /\ o.price \in Prices /\ o.rem \in Int
  BY DEF OrderRecords, Quantities
<1> HIDE DEF o
<1>2. HasQuantities(b.ord, old) /\ Range(old.queue) \subseteq Queued(b) /\ Balanced(b.ord, old)
  <2>1. CASE o.price \in DOMAIN b.levels[o.side]
    BY <1>1, <2>1, QueueFacts DEF LevelAt, AllBalanced
  <2>2. CASE o.price \notin DOMAIN b.levels[o.side]
    <3>1. old = NewLevel
      BY <2>2 DEF LevelAt
    <3>2. NewLevel \in LevelRecords /\ IsInjective(NewLevel.queue) /\ Range(NewLevel.queue) = {}
      BY DEF NewLevel, LevelRecords, IsInjective, Range
    <3>3. SumFunctionOnSet(RemOf(b.ord), {}) = 0
      <4>1. IsFiniteSet({}) /\ \A x \in {} : RemOf(b.ord)[x] \in Int
        BY FS_EmptySet
      <4> QED BY <4>1, Sums
    <3>4. NewLevel.total = 0 /\ NewLevel.count = 0 /\ Len(NewLevel.queue) = 0
      BY DEF NewLevel
    <3>5. Balanced(b.ord, NewLevel)
      BY <3>2, <3>3, <3>4 DEF Balanced
    <3> HIDE DEF old
    <3> QED BY <3>1, <3>2, <3>5 DEF HasQuantities
  <2> QED BY <2>1, <2>2
<1> HIDE DEF old
<1>3. HasQuantities(ord, old)
  <2>1. \A x \in Range(old.queue) : ord[x].rem \in Int
    BY <1>2 DEF HasQuantities
  <2> QED BY <1>2, <2>1 DEF HasQuantities
<1>4. Balanced(ord, old)
  BY <1>2, SameBalanced
<1>5. s \notin Range(old.queue) /\ ord[s].rem \in Int
  BY <1>1, <1>2 DEF o
<1> HIDE DEF lv
<1>6. Balanced(ord, lv)
  <2>1. Balanced(ord, PushBack(old, s, ord[s].rem))
    BY <1>3, <1>4, <1>5, PushBalanced
  <2> QED BY <2>1 DEF lv, o
<1>7. AllBalanced(ord, OneLevel(b.levels, o.side, o.price, lv))
  BY <1>1, <1>6, OneLevelBalanced
<1> QED BY <1>7 DEF Joined, lv, old, o

LEMMA FillKeepsBalanced ==
    ASSUME NEW b, NEW s \in Slots, Sound(b, {s}), InTime(b.ord, b.levels), CanFill(b, s),
           AllBalanced(b.ord, b.levels)
    PROVE  LET new == Fill(b, s) IN AllBalanced(new.ord, new.levels)
<1> DEFINE new == Fill(b, s)
           side == Other(b.ord[s].side)
           p == Begin(side, b.levels[side])
           r == Passive(b, s)
           qty == FillQty(b, s)
           left == b.ord[r].rem - qty
           old == b.levels[side][p]
           lv == FilledLevel(old, r, qty, left)
<1>1. /\ new.ord = [b.ord EXCEPT ![s].rem = @ - qty, ![r].rem = left,
                                 ![r].state = IF left = 0 THEN "Filled" ELSE "PartFill"]
      /\ new.levels = OneLevel(b.levels, side, p, lv)
  <2>1. FillChanges(b, s, new)
    BY FillEffect
  <2> HIDE DEF new
  <2> QED BY <2>1 DEF FillChanges
<1>2. /\ side \in Sides /\ p \in DOMAIN b.levels[side] /\ p \in Prices
      /\ r \in Range(old.queue) /\ r \in Slots /\ r \in Queued(b) /\ r # s
      /\ b.ord[r] \in OrderRecords /\ b.ord[r].side = side /\ b.ord[r].price = p
  BY Opposite
<1>3. /\ b.ord \in [Slots -> OrderRecords \cup {NoOrder}] /\ b.ord[s] \in OrderRecords
      /\ \A x \in Queued(b) : x \in Slots /\ b.ord[x] \in OrderRecords
      /\ s \notin Queued(b)
  BY SoundRecord DEF Queued, Sound, Partition
<1>4. qty \in Int
  <2>1. b.ord[s].rem \in Int /\ b.ord[r].rem \in Int
    BY <1>2, <1>3 DEF OrderRecords, Quantities
  <2> QED BY <2>1 DEF FillQty, Lesser
<1>5. HasQuantities(b.ord, old) /\ Range(old.queue) \subseteq Queued(b) /\ Balanced(b.ord, old)
  BY <1>2, QueueFacts DEF AllBalanced
<1> HIDE DEF new, side, p, r, qty, left, old
<1>6. new.ord[r].rem = left /\ \A x \in Queued(b) \ {r} : new.ord[x] = b.ord[x]
  <2>1. DOMAIN b.ord = Slots /\ DOMAIN new.ord = Slots
    BY <1>1, <1>3
  <2>2. \A x \in Queued(b) \ {r} : x \in Slots /\ x # s /\ x # r
    BY <1>3
  <2>3. \A x \in Queued(b) \ {r} : new.ord[x] = b.ord[x]
    BY <1>1, <2>1, <2>2
  <2>4. new.ord[r].rem = left
    BY <1>1, <1>2, <1>3, <2>1 DEF OrderRecords
  <2> QED BY <2>3, <2>4
<1>7. new.ord[r].rem = b.ord[r].rem - qty
  BY <1>6 DEF left
<1>8. Balanced(new.ord, FilledLevel(old, r, qty, new.ord[r].rem))
  <2>1. \A x \in Range(old.queue) \ {r} : new.ord[x].rem = b.ord[x].rem
    BY <1>5, <1>6
  <2> QED BY <1>2, <1>4, <1>5, <1>7, <2>1, FillBalanced
<1>9. Balanced(new.ord, lv)
  BY <1>6, <1>8
<1> HIDE DEF lv
<1>10. \A x \in Queued(b) : \/ new.ord[x].rem = b.ord[x].rem
                            \/ b.ord[x].side = side /\ b.ord[x].price = p
  BY <1>2, <1>6
<1>11. AllBalanced(new.ord, OneLevel(b.levels, side, p, lv))
  BY <1>2, <1>9, <1>10, OneLevelBalanced
<1> QED BY <1>1, <1>11 DEF new

LEMMA SameAllBalanced ==
    ASSUME NEW b, NEW held, Sound(b, held), AllBalanced(b.ord, b.levels), NEW ord,
           \A x \in Queued(b) : ord[x].rem = b.ord[x].rem
    PROVE  AllBalanced(ord, b.levels)
<1> SUFFICES ASSUME NEW sd \in Sides, NEW q \in DOMAIN b.levels[sd]
             PROVE  Balanced(ord, b.levels[sd][q])
  BY DEF AllBalanced
<1> DEFINE old == b.levels[sd][q]
<1>1. HasQuantities(b.ord, old) /\ Range(old.queue) \subseteq Queued(b)
  BY QueueFacts
<1>2. Balanced(b.ord, old)
  BY DEF AllBalanced
<1> HIDE DEF old
<1>3. Balanced(ord, old)
  BY <1>1, <1>2, SameBalanced
<1> QED BY <1>3 DEF old

LEMMA FinishBalanced ==
    ASSUME NEW b, NEW s \in Slots, NEW now, Kept(b, {s}, now), AllBalanced(b.ord, b.levels)
    PROVE  LET new == Finish(b, s) IN AllBalanced(new.ord, new.levels)
<1> DEFINE new == Finish(b, s)
           done == b.ord[s].rem = 0
<1>1. /\ Sound(b, {s}) /\ InTime(b.ord, b.levels) /\ s \notin Queued(b)
      /\ \A x \in Queued(b) : b.ord[x].stamp < b.ord[s].stamp
  BY DEF Kept, Stamped, Sound, Partition
<1>2. /\ new.ord = [b.ord EXCEPT ![s].state = IF done THEN "Filled" ELSE "PartFill"]
      /\ new.levels = IF done THEN b.levels ELSE Joined(b, b.ord[s], s)
  BY <1>1, FinishEffect
<1>3. /\ b.ord \in [Slots -> OrderRecords \cup {NoOrder}] /\ b.ord[s] \in OrderRecords
      /\ Queued(b) \subseteq Slots
  BY <1>1, SoundRecord DEF Queued
<1> HIDE DEF new
<1>4. /\ new.ord[s] \in OrderRecords /\ new.ord[s].side = b.ord[s].side
      /\ new.ord[s].price = b.ord[s].price /\ new.ord[s].rem = b.ord[s].rem
      /\ \A x \in Queued(b) : new.ord[x] = b.ord[x]
  BY <1>1, <1>2, <1>3 DEF OrderRecords
<1> HIDE DEF done
<1>5. CASE done
  <2>1. AllBalanced(new.ord, b.levels)
    BY <1>1, <1>4, SameAllBalanced
  <2> QED BY <1>2, <1>5, <2>1 DEF new
<1>6. CASE ~ done
  <2>1. AllBalanced(new.ord, Joined(b, new.ord[s], s))
    BY <1>1, <1>4, JoinBalanced
  <2>2. Joined(b, new.ord[s], s) = Joined(b, b.ord[s], s)
    BY <1>4 DEF Joined
  <2> QED BY <1>2, <1>6, <2>1, <2>2 DEF new
<1> QED BY <1>5, <1>6

LEMMA ConstructBalanced ==
    ASSUME NEW b, Sound(b, {}), AllBalanced(b.ord, b.levels), ~ Exhausted(b),
           NEW o \in OrderRecords
    PROVE  LET new == Construct(b, o) IN AllBalanced(new.ord, new.levels)
<1> DEFINE new == Construct(b, o)
           s == NextSlot(b)
<1>1. /\ s \in Slots /\ s \notin Queued(b) /\ new.levels = b.levels
      /\ new.ord = [b.ord EXCEPT ![s] = o]
  BY Construction
<1>2. b.ord \in [Slots -> OrderRecords \cup {NoOrder}] /\ Queued(b) \subseteq Slots
  BY SoundRecord DEF Queued
<1> HIDE DEF new, s
<1>3. \A x \in Queued(b) : new.ord[x].rem = b.ord[x].rem
  BY <1>1, <1>2
<1>4. AllBalanced(new.ord, b.levels)
  BY <1>3, SameAllBalanced
<1> QED BY <1>1, <1>4 DEF new

LEMMA AddBalanced ==
    ASSUME NEW b, NEW now \in Nat, Kept(b, {}, now), AllBalanced(b.ord, b.levels), ~ Exhausted(b),
           NEW o \in OrderRecords, o.state = "New", o.stamp = now + 1
    PROVE  LET new == AddOrder(b, o) IN AllBalanced(new.ord, new.levels)
<1> DEFINE new == AddOrder(b, o)
           s == NextSlot(b)
<1>1. Sound(b, {}) /\ MapLeadsToQueued(b) /\ InTime(b.ord, b.levels)
  BY DEF Kept
<1>2. \A x \in Queued(b) : b.ord[x].stamp < o.stamp
  <2>1. \A x \in Queued(b) : b.ord[x].stamp \in Int /\ b.ord[x].stamp <= now
    BY <1>1, SoundRecord DEF Kept, Stamped, OrderRecords
  <2> QED BY <2>1
<1>3. /\ s \in Slots /\ s \notin Queued(b)
      /\ new.ord = [b.ord EXCEPT ![s] = o]
      /\ new.levels = Joined(b, o, s)
  BY <1>1, <1>2, AddEffect
<1>4. b.ord \in [Slots -> OrderRecords \cup {NoOrder}] /\ Queued(b) \subseteq Slots
  BY <1>1, SoundRecord DEF Queued
<1> HIDE DEF new, s
<1>5. new.ord[s] = o /\ \A x \in Queued(b) : new.ord[x].rem = b.ord[x].rem
  BY <1>3, <1>4
<1>6. AllBalanced(new.ord, Joined(b, new.ord[s], s))
  BY <1>1, <1>3, <1>5, JoinBalanced
<1> QED BY <1>3, <1>5, <1>6 DEF new

AccountInv == PriorityInv /\ AllBalanced(book.ord, book.levels)

LEMMA AccountStep == AccountInv /\ [Next]_vars => AccountInv'
<1> SUFFICES ASSUME AccountInv, [Next]_vars PROVE AllBalanced(book'.ord, book'.levels)
  BY PriorityStep DEF AccountInv
<1>1. /\ AllBalanced(book.ord, book.levels) /\ clock \in Nat
      /\ Idle => Kept(book, {}, clock)
      /\ ~ Idle => aggressive \in Slots /\ Kept(book, {aggressive}, clock)
  BY DEF AccountInv, PriorityInv, IndInv, TypeOK, InMatch, Idle
<1>2. ASSUME NEW id \in Ids, NEW side \in Sides, NEW p \in Prices, NEW q \in Quantities,
             clock < MaxClock
      PROVE  LET o == Order(id, side, p, q, clock + 1)
             IN  o \in OrderRecords /\ o.state = "New" /\ o.stamp = clock + 1
  BY <1>1, <1>2, BookAssumption DEF Order, OrderRecords
<1>3. ASSUME NEW id \in Ids, NEW side \in Sides, NEW p \in Prices, NEW q \in Quantities,
             NewOrder(id, side, p, q)
      PROVE  AllBalanced(book'.ord, book'.levels)
  <2> DEFINE o == Order(id, side, p, q, clock + 1)
  <2>1. Idle /\ ~ Exhausted(book) /\ clock < MaxClock /\ book' = Construct(book, o)
    BY <1>3 DEF NewOrder
  <2>2. o \in OrderRecords
    BY <1>2, <2>1
  <2> HIDE DEF o
  <2>3. Sound(book, {})
    BY <1>1, <2>1 DEF Kept
  <2> QED BY <1>1, <2>1, <2>2, <2>3, ConstructBalanced
<1>4. CASE FillStep
  <2>1. ~ Idle /\ CanFill(book, aggressive) /\ book' = Fill(book, aggressive)
    BY <1>4 DEF FillStep
  <2>2. aggressive \in Slots /\ Sound(book, {aggressive}) /\ InTime(book.ord, book.levels)
    BY <1>1, <2>1 DEF Kept
  <2> QED BY <1>1, <2>1, <2>2, FillKeepsBalanced
<1>5. CASE FinishMatch
  <2>1. ~ Idle /\ book' = Finish(book, aggressive)
    BY <1>5 DEF FinishMatch
  <2>2. aggressive \in Slots /\ Kept(book, {aggressive}, clock)
    BY <1>1, <2>1
  <2> QED BY <1>1, <2>1, <2>2, FinishBalanced
<1>6. ASSUME NEW id \in Ids, Cancel(id) PROVE AllBalanced(book'.ord, book'.levels)
  <2>1. Idle /\ Cancellable(book, id) /\ book' = CancelOrder(book, id)
    BY <1>6 DEF Cancel
  <2>2. Sound(book, {}) /\ MapLeadsToQueued(book) /\ InTime(book.ord, book.levels)
    BY <1>1, <2>1 DEF Kept
  <2> QED BY <1>1, <2>1, <2>2, CancelBalanced
<1>7. ASSUME NEW id \in Ids, NEW q \in Quantities, Modify(id, q)
      PROVE  AllBalanced(book'.ord, book'.levels)
  <2> DEFINE old == book.ord[book.map[id]]
             o == Order(id, old.side, old.price, q, clock + 1)
             c == CancelOrder(book, id)
  <2>1. /\ Idle /\ Cancellable(book, id) /\ clock < MaxClock /\ book' = AddOrder(c, o)
    BY <1>7 DEF Modify
  <2>2. Kept(book, {}, clock)
    BY <1>1, <2>1
  <2>3. Sound(book, {}) /\ MapLeadsToQueued(book) /\ InTime(book.ord, book.levels)
    BY <2>2 DEF Kept
  <2>4. Kept(c, {}, clock) /\ ~ Exhausted(c)
    BY <2>1, <2>2, <2>3, CancelKeeps, CancelFrees
  <2>5. AllBalanced(c.ord, c.levels)
    BY <1>1, <2>1, <2>3, CancelBalanced
  <2>6. old.side \in Sides /\ old.price \in Prices
    <3>1. book.map[id] \in Queued(book)
      BY <2>1, <2>3 DEF Cancellable, MapLeadsToQueued
    <3> QED BY <2>3, <3>1, Home
  <2> HIDE DEF c, old
  <2>7. o \in OrderRecords /\ o.state = "New" /\ o.stamp = clock + 1
    BY <1>2, <2>1, <2>6
  <2> HIDE DEF o
  <2> QED BY <1>1, <2>1, <2>4, <2>5, <2>7, AddBalanced
<1>8. ASSUME NEW id \in Ids, NEW side \in Sides, NEW p \in Prices, NEW q \in Quantities,
             Add(id, side, p, q)
      PROVE  AllBalanced(book'.ord, book'.levels)
  <2> DEFINE o == Order(id, side, p, q, clock + 1)
  <2>1. Idle /\ clock < MaxClock /\ ~ Exhausted(book) /\ book' = AddOrder(book, o)
    BY <1>8 DEF Add
  <2>2. o \in OrderRecords /\ o.state = "New" /\ o.stamp = clock + 1
    BY <1>2, <2>1
  <2>3. Kept(book, {}, clock)
    BY <1>1, <2>1
  <2> HIDE DEF o
  <2> QED BY <1>1, <2>1, <2>2, <2>3, AddBalanced
<1>9. CASE UNCHANGED vars
  <2>1. book' = book
    BY <1>9 DEF vars
  <2> QED BY <1>1, <2>1
<1> QED BY <1>3, <1>4, <1>5, <1>6, <1>7, <1>8, <1>9 DEF Next

LEMMA AccountInit == Init => AccountInv
<1>1. Init => AllBalanced(book.ord, book.levels)
  BY DEF Init, EmptyBook, EmptyMap, AllBalanced
<1> QED BY <1>1, PriorityInit DEF AccountInv

(* The totals of every level are those of the orders in its queue, through *)
(* partial fills, cancels from the middle and reused slots: for any        *)
(* prices, quantities, ids and pool (price_level.hpp:43-44, 62-63,         *)
(* matching_engine.cpp:83).                                                *)
THEOREM TotalsKept == Spec => []LevelAccounting
<1>1. AccountInv => LevelAccounting
  <2> SUFFICES ASSUME AccountInv, NEW side \in Sides, NEW p \in DOMAIN book.levels[side]
               PROVE  LET lv == book.levels[side][p]
                      IN  /\ lv.count = Len(lv.queue)
                          /\ lv.total = SumFunction([s \in Range(lv.queue) |-> book.ord[s].rem])
    BY DEF LevelAccounting
  <2> DEFINE lv == book.levels[side][p]
             R == Range(lv.queue)
             f == RemOf(book.ord)
             g == [s \in R |-> book.ord[s].rem]
  <2>1. HasQuantities(book.ord, lv) /\ Balanced(book.ord, lv)
    BY QueueFacts DEF AccountInv, PriorityInv, Kept, AllBalanced
  <2> HIDE DEF lv
  <2>2. IsFiniteSet(R) /\ \A x \in R : f[x] \in Int /\ f[x] = book.ord[x].rem
    BY <2>1, QueueSummable
  <2>3. \A x \in R : f[x] \in Int /\ f[x] = g[x]
    BY <2>2
  <2>4. SumFunctionOnSet(f, R) = SumFunctionOnSet(g, R)
    <3> HIDE DEF R, f, g
    <3> QED BY <2>2, <2>3, SumsAgree
  <2>5. SumFunction(g) = SumFunctionOnSet(g, R)
    BY DEF SumFunction
  <2> HIDE DEF g
  <2>6. lv.count = Len(lv.queue) /\ lv.total = SumFunction(g)
    BY <2>1, <2>4, <2>5 DEF Balanced
  <2> QED BY <2>6 DEF lv, g
<1>2. AccountInv /\ [Next]_vars => AccountInv'
  BY AccountStep
<1> QED BY <1>1, <1>2, AccountInit, PTL DEF Spec

-----------------------------------------------------------------------------
(* The book as a trader sees it. *)

ViewOf(o) ==
    [id |-> o.id, side |-> o.side, price |-> o.price, rem |-> o.rem, stamp |-> o.stamp]

Views(b) == {ViewOf(b.ord[x]) : x \in Queued(b)}

(* No two orders in the book look the same. *)
LEMMA OneView ==
    ASSUME NEW b, NEW held, NEW now, Stamped(b, held, now), NEW r \in Queued(b)
    PROVE  {ViewOf(b.ord[x]) : x \in Queued(b) \ {r}} = Views(b) \ {ViewOf(b.ord[r])}
<1>1. \A x \in Queued(b) \ {r} : ViewOf(b.ord[x]) # ViewOf(b.ord[r])
  <2>1. \A o, d : ViewOf(o) = ViewOf(d) => o.stamp = d.stamp
    BY DEF ViewOf
  <2> QED BY <2>1 DEF Stamped
<1> QED BY <1>1 DEF Views

LEMMA CancelViews ==
    ASSUME NEW b, NEW now, Kept(b, {}, now), NEW id, Cancellable(b, id)
    PROVE  LET r == ViewOf(b.ord[b.map[id]])
           IN  r \in Views(b) /\ Views(CancelOrder(b, id)) = Views(b) \ {r}
<1> DEFINE new == CancelOrder(b, id)
           s == b.map[id]
<1>0. Sound(b, {}) /\ MapLeadsToQueued(b) /\ InTime(b.ord, b.levels)
  BY DEF Kept
<1>1. Queued(new) = Queued(b) \ {s} /\ s \in Queued(b)
  BY <1>0, Cancels DEF Cancellable, MapLeadsToQueued
<1>2. new.ord = [b.ord EXCEPT ![s].state = "Cancelled"]
  BY <1>0, CancelEffect
<1>3. b.ord \in [Slots -> OrderRecords \cup {NoOrder}]
  BY SoundRecord DEF Kept
<1> HIDE DEF new, s
<1>4. \A x \in Queued(b) \ {s} : new.ord[x] = b.ord[x]
  BY <1>2, <1>3 DEF Queued
<1>5. Views(new) = {ViewOf(b.ord[x]) : x \in Queued(b) \ {s}}
  BY <1>1, <1>4 DEF Views
<1>6. Stamped(b, {}, now)
  BY DEF Kept
<1>7. Views(new) = Views(b) \ {ViewOf(b.ord[s])}
  BY <1>1, <1>5, <1>6, OneView
<1>8. ViewOf(b.ord[s]) \in Views(b)
  BY <1>1 DEF Views
<1> QED BY <1>7, <1>8 DEF new, s

LEMMA AddViews ==
    ASSUME NEW b, NEW now \in Nat, Kept(b, {}, now), ~ Exhausted(b),
           NEW o \in OrderRecords, o.state = "New", o.stamp = now + 1
    PROVE  Views(AddOrder(b, o)) = Views(b) \cup {ViewOf(o)}
<1> DEFINE new == AddOrder(b, o)
           s == NextSlot(b)
<1>1. /\ b.ord \in [Slots -> OrderRecords \cup {NoOrder}]
      /\ \A x \in Queued(b) : x \in Slots /\ b.ord[x] \in OrderRecords
  BY SoundRecord DEF Kept, Queued
<1>2. \A x \in Queued(b) : b.ord[x].stamp \in Int /\ b.ord[x].stamp <= now
  BY <1>1 DEF Kept, Stamped, OrderRecords
<1>3. \A x \in Queued(b) : b.ord[x].stamp < o.stamp
  BY <1>2
<1>4. /\ s \in Slots /\ s \notin Queued(b)
      /\ Queued(new) = Queued(b) \cup {s}
      /\ new.ord = [b.ord EXCEPT ![s] = o]
  BY <1>3, AddEffect DEF Kept
<1> HIDE DEF new, s
<1>5. new.ord[s] = o /\ \A x \in Queued(b) : new.ord[x] = b.ord[x]
  BY <1>1, <1>4
<1> QED BY <1>4, <1>5 DEF Views, new

LEMMA FinishViews ==
    ASSUME NEW b, NEW s \in Slots, NEW now, Kept(b, {s}, now)
    PROVE  Views(Finish(b, s)) = Views(b) \cup IF b.ord[s].rem = 0 THEN {} ELSE {ViewOf(b.ord[s])}
<1> DEFINE new == Finish(b, s)
           done == b.ord[s].rem = 0
<1>0. /\ Sound(b, {s}) /\ MapLeadsToQueued(b) /\ InTime(b.ord, b.levels)
      /\ \A x \in Queued(b) : b.ord[x].stamp < b.ord[s].stamp
  BY DEF Kept, Stamped
<1>1. Queued(new) = IF done THEN Queued(b) ELSE Queued(b) \cup {s}
  BY <1>0, Finishes
<1>2. new.ord = [b.ord EXCEPT ![s].state = IF done THEN "Filled" ELSE "PartFill"]
  BY <1>0, FinishEffect
<1>3. /\ b.ord \in [Slots -> OrderRecords \cup {NoOrder}]
      /\ \A x \in Queued(b) \cup {s} : x \in Slots /\ b.ord[x] \in OrderRecords
  BY <1>0, SoundRecord DEF Queued
<1> HIDE DEF new, done
<1>4. \A x \in Queued(b) \cup {s} : ViewOf(new.ord[x]) = ViewOf(b.ord[x])
  BY <1>2, <1>3 DEF OrderRecords, ViewOf
<1>5. CASE done
  BY <1>1, <1>4, <1>5 DEF Views, new, done
<1>6. CASE ~ done
  BY <1>1, <1>4, <1>6 DEF Views, new, done
<1> QED BY <1>5, <1>6

LEMMA FillViews ==
    ASSUME NEW b, NEW s \in Slots, NEW now, Kept(b, {s}, now), CanFill(b, s)
    PROVE  LET new == Fill(b, s)
               v == ViewOf(b.ord[Passive(b, s)])
               left == b.ord[Passive(b, s)].rem - FillQty(b, s)
           IN  /\ v \in Views(b)
               /\ Views(new) = (Views(b) \ {v}) \cup IF left = 0 THEN {} ELSE {[v EXCEPT !.rem = left]}
               /\ ViewOf(new.ord[s]) = [ViewOf(b.ord[s]) EXCEPT !.rem = b.ord[s].rem - FillQty(b, s)]
<1> DEFINE new == Fill(b, s)
           r == Passive(b, s)
           qty == FillQty(b, s)
           left == b.ord[r].rem - qty
           v == ViewOf(b.ord[r])
           rest == Queued(b) \ {r}
<1>0. Sound(b, {s}) /\ MapLeadsToQueued(b) /\ InTime(b.ord, b.levels)
  BY DEF Kept
<1>1. Queued(new) = IF left = 0 THEN Queued(b) \ {r} ELSE Queued(b)
  BY <1>0, Fills
<1>2. new.ord = [b.ord EXCEPT ![s].rem = @ - qty, ![r].rem = left,
                              ![r].state = IF left = 0 THEN "Filled" ELSE "PartFill"]
  <2>1. FillChanges(b, s, new)
    BY <1>0, FillEffect
  <2> HIDE DEF new
  <2> QED BY <2>1 DEF FillChanges
<1>3. r \in Slots /\ r \in Queued(b) /\ r # s /\ b.ord[r] \in OrderRecords /\ s \notin Queued(b)
  BY Opposite DEF Kept, Sound, Partition
<1>4. /\ b.ord \in [Slots -> OrderRecords \cup {NoOrder}]
      /\ b.ord[s] \in OrderRecords /\ Queued(b) \subseteq Slots
  BY SoundRecord DEF Kept, Queued
<1> HIDE DEF new, r, left, qty
<1>5. /\ new.ord[s] = [b.ord[s] EXCEPT !.rem = b.ord[s].rem - qty]
      /\ new.ord[r].id = b.ord[r].id /\ new.ord[r].side = b.ord[r].side
      /\ new.ord[r].price = b.ord[r].price /\ new.ord[r].stamp = b.ord[r].stamp
      /\ new.ord[r].rem = left
      /\ \A x \in rest : new.ord[x] = b.ord[x]
  BY <1>2, <1>3, <1>4 DEF OrderRecords
<1>6. ViewOf(new.ord[s]) = [ViewOf(b.ord[s]) EXCEPT !.rem = b.ord[s].rem - qty]
  BY <1>4, <1>5 DEF ViewOf, OrderRecords
<1>7. ViewOf(new.ord[r]) = [v EXCEPT !.rem = left]
  BY <1>5 DEF ViewOf
<1>8. {ViewOf(new.ord[x]) : x \in rest} = Views(b) \ {v}
  <2>1. Stamped(b, {s}, now)
    BY DEF Kept
  <2>2. {ViewOf(b.ord[x]) : x \in rest} = Views(b) \ {v}
    BY <1>3, <2>1, OneView
  <2> QED BY <1>5, <2>2
<1>9. Views(new) = {ViewOf(new.ord[x]) : x \in rest} \cup
                       IF left = 0 THEN {} ELSE {ViewOf(new.ord[r])}
  BY <1>1, <1>3 DEF Views
<1>10. v \in Views(b)
  BY <1>3 DEF Views
<1> HIDE DEF v, rest
<1> QED BY <1>6, <1>7, <1>8, <1>9, <1>10 DEF new, left, qty, r, v

(* match() trades with the order that has priority, and one that it meets. *)
LEMMA FillPriority ==
    ASSUME NEW b, NEW s \in Slots, NEW now, Kept(b, {s}, now), CanFill(b, s)
    PROVE  LET v == ViewOf(b.ord[Passive(b, s)])
           IN  /\ Abstract!Crosses(ViewOf(b.ord[s]), v)
               /\ \A x \in Queued(b) : ~ Abstract!Precedes(ViewOf(b.ord[x]), v)
<1> DEFINE o == b.ord[s]
           side == Other(o.side)
           p == Begin(side, b.levels[side])
           old == b.levels[side][p]
           r == Passive(b, s)
<1>1. /\ side \in Sides /\ side # o.side /\ p \in DOMAIN b.levels[side] /\ p \in Prices
      /\ old \in LevelRecords /\ old.queue # <<>> /\ r = old.queue[1]
      /\ r \in Queued(b) /\ b.ord[r] \in OrderRecords
      /\ b.ord[r].side = side /\ b.ord[r].price = p
  <2>1. s \in Slots /\ Sound(b, {s})
    BY DEF Kept
  <2> QED BY <2>1, Opposite
<1>2. ~ Better(side, o.price, p)
  BY DEF CanFill
<1>3. DOMAIN b.levels[side] \subseteq Prices
  BY <1>1, SoundRecord DEF Kept
<1>4. \A q \in DOMAIN b.levels[side] : ~ Better(side, q, p)
  BY <1>1, <1>3, BeginIsBest
<1> HIDE DEF r, side, p
<1>5. Abstract!Crosses(ViewOf(o), ViewOf(b.ord[r]))
  BY <1>1, <1>2 DEF Abstract!Crosses, Abstract!Better, Better, ViewOf
<1>6. ASSUME NEW x \in Queued(b), Abstract!Precedes(ViewOf(b.ord[x]), ViewOf(b.ord[r]))
      PROVE  FALSE
  <2>1. /\ b.ord[x].side = side
        /\ \/ Better(side, b.ord[x].price, p)
           \/ b.ord[x].price = p /\ b.ord[x].stamp < b.ord[r].stamp
    BY <1>1, <1>6 DEF Abstract!Precedes, Abstract!Better, Better, ViewOf
  <2>2. /\ b.ord[x] \in OrderRecords
        /\ b.ord[x].price \in DOMAIN b.levels[side]
        /\ x \in InLevel(b, side, b.ord[x].price)
    BY <2>1, Home DEF Kept
  <2>3. b.ord[x].price = p /\ b.ord[x].stamp < b.ord[r].stamp
    BY <1>4, <2>1, <2>2
  <2>4. x \in Range(old.queue)
    BY <2>2, <2>3 DEF InLevel
  <2>5. Ascends(b.ord, old.queue)
    BY <1>1 DEF Kept, InTime
  <2>6. old.queue \in Seq(Slots)
    BY <1>1 DEF LevelRecords
  <2> HIDE DEF old
  <2>7. PICK i \in 1 .. Len(old.queue) : x = old.queue[i]
    BY <2>4, <2>6 DEF Range
  <2>8. Len(old.queue) \in Nat /\ 1 \in 1 .. Len(old.queue)
    BY <2>6, <2>7
  <2>9. b.ord[x].stamp \in Int /\ b.ord[r].stamp \in Int
    BY <1>1, <2>2 DEF OrderRecords
  <2>10. CASE i = 1
    BY <1>1, <2>3, <2>7, <2>9, <2>10
  <2>11. CASE i # 1
    <3>1. 1 < i
      BY <2>7, <2>8, <2>11
    <3>2. b.ord[old.queue[1]].stamp < b.ord[old.queue[i]].stamp
      BY <2>5, <2>8, <3>1 DEF Ascends
    <3> QED BY <1>1, <2>3, <2>7, <2>9, <3>2
  <2> QED BY <2>10, <2>11
<1> QED BY <1>5, <1>6 DEF r

(* An order rests only when nothing is left that it would trade with.      *)
LEMMA FinishCrosses ==
    ASSUME NEW b, NEW s \in Slots, NEW now, Kept(b, {s}, now), ~ CanFill(b, s),
           b.ord[s].rem > 0, NEW x \in Queued(b)
    PROVE  ~ Abstract!Crosses(ViewOf(b.ord[s]), ViewOf(b.ord[x]))
<1> DEFINE o == b.ord[s]
           side == Other(o.side)
           p == Begin(side, b.levels[side])
<1> SUFFICES ASSUME Abstract!Crosses(ViewOf(o), ViewOf(b.ord[x])) PROVE FALSE
  OBVIOUS
<1>1. b.ord[x].side # o.side /\ ~ Better(b.ord[x].side, o.price, b.ord[x].price)
  BY DEF Abstract!Crosses, Abstract!Better, Better, ViewOf
<1>2. o \in OrderRecords
  BY DEF Kept, Sound, Occupied
<1>3. /\ b.ord[x] \in OrderRecords
      /\ b.ord[x].price \in DOMAIN b.levels[b.ord[x].side]
  BY Home DEF Kept
<1>4. b.ord[x].side = side /\ side \in Sides
  BY <1>1, <1>2, <1>3 DEF OrderRecords, Other, Sides
<1>5. DOMAIN b.levels[side] \subseteq Prices
  BY <1>4, SoundRecord DEF Kept
<1>6. p \in DOMAIN b.levels[side] /\ ~ Better(side, b.ord[x].price, p)
  BY <1>3, <1>4, <1>5, BeginIsBest
<1>7. p # End
  BY <1>5, <1>6, ValuesApart DEF Prices
<1>8. Better(side, o.price, p)
  BY <1>7 DEF CanFill
<1> HIDE DEF p, side
<1>9. o.price \in Int /\ p \in Int /\ b.ord[x].price \in Int
  BY <1>2, <1>3, <1>5, <1>6 DEF OrderRecords, Prices
<1> QED BY <1>1, <1>4, <1>6, <1>8, <1>9 DEF Better

LEMMA Amended ==
    ASSUME NEW o, NEW d, d.id = o.id, d.side = o.side, d.price = o.price
    PROVE  ViewOf(d) = [ViewOf(o) EXCEPT !.rem = d.rem, !.stamp = d.stamp]
<1> DEFINE v == ViewOf(o)
           v1 == [v EXCEPT !.rem = d.rem]
<1>1. v1 = [id |-> d.id, side |-> d.side, price |-> d.price, rem |-> d.rem, stamp |-> o.stamp]
  BY DEF ViewOf
<1>2. [v EXCEPT !.rem = d.rem, !.stamp = d.stamp] = [v1 EXCEPT !.stamp = d.stamp]
  <2> HIDE DEF v
  <2> QED OBVIOUS
<1> HIDE DEF v1
<1>3. [v1 EXCEPT !.stamp = d.stamp] = ViewOf(d)
  BY <1>1 DEF ViewOf
<1> QED BY <1>2, <1>3

(* Every step of the book is a step of price-time priority. *)
LEMMA PriceTimeStep ==
    ASSUME PriorityInv, [Next]_vars
    PROVE  [Abstract!Next]_(Abstract!vars)
<1> DEFINE Resting == {View(s) : s \in Queued(book)}
           Incoming == IF Idle THEN NoOrder ELSE View(aggressive)
<1>0. /\ Resting = Views(book) /\ Resting' = Views(book')
      /\ \A s : View(s) = ViewOf(book.ord[s])
  BY DEF Views, View, ViewOf
<1>1. /\ aggressive \in Slots \cup {NoSlot} /\ clock \in Nat /\ NoSlot \notin Slots
      /\ Idle => Kept(book, {}, clock) /\ Incoming = NoOrder
      /\ ~ Idle => /\ aggressive \in Slots /\ Kept(book, {aggressive}, clock)
                   /\ Incoming = ViewOf(book.ord[aggressive])
  BY <1>0, BookAssumption DEF PriorityInv, IndInv, TypeOK, InMatch, Idle, Slots
<1>2. aggressive' = NoSlot => Incoming' = NoOrder
  BY DEF Idle
<1>3. aggressive' \in Slots => Incoming' = ViewOf(book'.ord[aggressive'])
  BY <1>1 DEF Idle, View, ViewOf
<1> SUFFICES ASSUME Next
             PROVE  \/ Abstract!Next
                    \/ /\ Resting' = Resting /\ Incoming' = Incoming
                       /\ trade' = trade /\ clock' = clock
  BY DEF vars, Abstract!vars, Idle, View, Queued, InLevel
<1> HIDE DEF Resting, Incoming
<1>4. ASSUME NEW id \in Ids, NEW side \in Sides, NEW p \in Prices, NEW q \in Quantities,
             clock < MaxClock
      PROVE  LET o == Order(id, side, p, q, clock + 1)
             IN  /\ o \in OrderRecords /\ o.state = "New" /\ o.stamp = clock + 1 /\ o.id = id
                 /\ ViewOf(o) = [id |-> id, side |-> side, price |-> p, rem |-> q,
                                 stamp |-> clock + 1]
                 /\ ViewOf(o) \in Abstract!NewOrders
  BY <1>1, <1>4, BookAssumption
     DEF Order, OrderRecords, ViewOf, Abstract!NewOrders, Abstract!Sides, Sides, Quantities
<1>5. ASSUME NEW id \in Ids, NEW side \in Sides, NEW p \in Prices, NEW q \in Quantities,
             NewOrder(id, side, p, q)
      PROVE  Abstract!Submit
  <2> DEFINE o == Order(id, side, p, q, clock + 1)
             s == NextSlot(book)
             new == Construct(book, o)
  <2>1. /\ Idle /\ ~ Exhausted(book) /\ clock < MaxClock
        /\ book' = new /\ aggressive' = s /\ clock' = clock + 1 /\ trade' = trade
    BY <1>5 DEF NewOrder
  <2>2. o \in OrderRecords /\ ViewOf(o) \in Abstract!NewOrders
    BY <1>4, <2>1
  <2>3. Sound(book, {}) /\ Incoming = NoOrder
    BY <1>1, <2>1 DEF Kept
  <2> HIDE DEF o
  <2>4. /\ Queued(new) = Queued(book) /\ s \in Slots /\ s \notin Queued(book)
        /\ new.ord = [book.ord EXCEPT ![s] = o]
    BY <2>1, <2>2, <2>3, Construction
  <2>5. book.ord \in [Slots -> OrderRecords \cup {NoOrder}]
    BY <2>3, SoundRecord
  <2> HIDE DEF new, s
  <2>6. new.ord[s] = o /\ \A x \in Queued(book) : new.ord[x] = book.ord[x]
    BY <2>4, <2>5 DEF Queued
  <2>7. Views(new) = Views(book)
    BY <2>4, <2>6 DEF Views
  <2>8. Resting' = Resting /\ Incoming' = ViewOf(o)
    BY <1>0, <1>3, <2>1, <2>4, <2>6, <2>7
  <2> QED BY <2>1, <2>2, <2>3, <2>8 DEF Abstract!Submit, Resting, Incoming
<1>6. CASE FillStep
  <2> DEFINE s == aggressive
             r == Passive(book, s)
             v == ViewOf(book.ord[r])
             qty == FillQty(book, s)
             left == book.ord[r].rem - qty
             new == Fill(book, s)
  <2>1. /\ ~ Idle /\ CanFill(book, s) /\ book' = new /\ s' = s /\ clock' = clock
        /\ trade' = TradeOf(book, s)
    BY <1>6 DEF FillStep
  <2>2. s \in Slots /\ Kept(book, {s}, clock) /\ Incoming = ViewOf(book.ord[s])
    BY <1>1, <2>1
  <2>3. /\ v \in Views(book)
        /\ Views(new) = (Views(book) \ {v}) \cup IF left = 0 THEN {} ELSE {[v EXCEPT !.rem = left]}
        /\ ViewOf(new.ord[s]) = [ViewOf(book.ord[s]) EXCEPT !.rem = book.ord[s].rem - qty]
    BY <2>1, <2>2, FillViews
  <2>4. /\ Abstract!Crosses(ViewOf(book.ord[s]), v)
        /\ \A x \in Queued(book) : ~ Abstract!Precedes(ViewOf(book.ord[x]), v)
    BY <2>1, <2>2, FillPriority
  <2>5. /\ book.ord[r] \in OrderRecords /\ book.ord[s] \in OrderRecords
        /\ book.ord[r].price = Begin(Other(book.ord[s].side), book.levels[Other(book.ord[s].side)])
    BY <2>1, <2>2, Opposite, SoundRecord DEF Kept
  <2>6. /\ qty = Abstract!Lesser(Incoming.rem, v.rem)
        /\ Incoming.rem = book.ord[s].rem /\ v.rem = book.ord[r].rem
        /\ v.rem \in Int /\ qty \in Int /\ (qty = v.rem <=> left = 0)
    BY <2>2, <2>5, BookAssumption
       DEF FillQty, Lesser, Abstract!Lesser, ViewOf, OrderRecords, Quantities
  <2>7. trade' = [aggressive |-> Incoming.id, passive |-> v.id, price |-> v.price, qty |-> qty]
    BY <2>1, <2>2, <2>5 DEF TradeOf, ViewOf
  <2>8. Incoming # NoOrder /\ Incoming.rem > 0
    <3>1. Incoming \in [id : Ids, side : {"Buy", "Sell"}, price : MinPrice .. MaxPrice,
                        rem : 0 .. MaxQty, stamp : Nat]
      BY <2>2, <2>5, BookAssumption DEF ViewOf, OrderRecords, Sides, Prices, Quantities
    <3>2. Incoming.rem > 0
      BY <2>1, <2>6 DEF CanFill
    <3> QED BY <3>1, <3>2, ValuesApart
  <2>9. /\ Resting = Views(book) /\ Resting' = Views(new)
        /\ Incoming' = [Incoming EXCEPT !.rem = @ - qty]
    <3>1. Incoming' = ViewOf(new.ord[s])
      BY <1>3, <2>1, <2>2
    <3> QED BY <1>0, <2>1, <2>2, <2>3, <2>6, <3>1
  <2> HIDE DEF v, qty, left, new, r
  <2>10. \A x \in Resting : ~ Abstract!Precedes(x, v)
    BY <2>4, <2>9 DEF Views
  <2>11. Resting' = (Resting \ {v}) \cup
                       IF qty = v.rem THEN {} ELSE {[v EXCEPT !.rem = @ - qty]}
    BY <2>3, <2>6, <2>9 DEF left, v
  <2>12. Abstract!Trade(v) /\ v \in Resting
    BY <2>1, <2>2, <2>3, <2>4, <2>6, <2>7, <2>8, <2>9, <2>10, <2>11
       DEF Abstract!Trade, Resting, Incoming
  <2> QED BY <2>12 DEF Abstract!Next, Resting
<1>7. CASE FinishMatch
  <2> DEFINE s == aggressive
             new == Finish(book, s)
  <2>1. /\ ~ Idle /\ ~ CanFill(book, s) /\ book' = new /\ aggressive' = NoSlot
        /\ clock' = clock /\ trade' = trade
    BY <1>7 DEF FinishMatch
  <2>2. s \in Slots /\ Kept(book, {s}, clock) /\ Incoming = ViewOf(book.ord[s])
    BY <1>1, <2>1
  <2>3. Views(new) = Views(book) \cup IF book.ord[s].rem = 0 THEN {} ELSE {ViewOf(book.ord[s])}
    BY <2>2, FinishViews
  <2>4. book.ord[s].rem > 0 =>
            \A x \in Queued(book) : ~ Abstract!Crosses(ViewOf(book.ord[s]), ViewOf(book.ord[x]))
    BY <2>1, <2>2, FinishCrosses
  <2>5. Incoming # NoOrder /\ Incoming.rem = book.ord[s].rem
    <3>1. book.ord[s] \in OrderRecords
      BY <2>2, SoundRecord DEF Kept
    <3>2. Incoming \in [id : Ids, side : {"Buy", "Sell"}, price : MinPrice .. MaxPrice,
                        rem : 0 .. MaxQty, stamp : Nat]
      BY <2>2, <3>1, BookAssumption DEF ViewOf, OrderRecords, Sides, Prices, Quantities
    <3> QED BY <2>2, <3>2, ValuesApart DEF ViewOf
  <2> HIDE DEF new
  <2>6. Incoming.rem > 0 => \A x \in Resting : ~ Abstract!Crosses(Incoming, x)
    BY <1>0, <2>2, <2>4, <2>5 DEF Views
  <2>7. /\ Resting' = Resting \cup IF Incoming.rem = 0 THEN {} ELSE {Incoming}
        /\ Incoming' = NoOrder
    BY <1>0, <1>2, <2>1, <2>2, <2>3, <2>5
  <2>8. Abstract!Rest
    BY <2>1, <2>5, <2>6, <2>7 DEF Abstract!Rest, Resting, Incoming
  <2> QED BY <2>8 DEF Abstract!Next
<1>8. ASSUME NEW id \in Ids, Cancel(id) PROVE Abstract!Next
  <2> DEFINE v == ViewOf(book.ord[book.map[id]])
  <2>1. /\ Idle /\ Cancellable(book, id) /\ book' = CancelOrder(book, id)
        /\ aggressive' = NoSlot /\ clock' = clock /\ trade' = trade
    BY <1>8 DEF Cancel, Idle
  <2>2. Kept(book, {}, clock) /\ Incoming = NoOrder /\ Incoming' = NoOrder
    BY <1>1, <1>2, <2>1
  <2>3. v \in Views(book) /\ Views(CancelOrder(book, id)) = Views(book) \ {v}
    BY <2>1, <2>2, CancelViews
  <2> HIDE DEF v
  <2>4. v \in Resting /\ Resting' = Resting \ {v}
    BY <1>0, <2>1, <2>3
  <2>5. Abstract!Cancel(v)
    BY <2>1, <2>2, <2>4 DEF Abstract!Cancel, Resting, Incoming
  <2> QED BY <2>4, <2>5 DEF Abstract!Next, Resting
<1>9. ASSUME NEW id \in Ids, NEW q \in Quantities, Modify(id, q) PROVE Abstract!Next
  <2> DEFINE old == book.ord[book.map[id]]
             v == ViewOf(old)
             o == Order(id, old.side, old.price, q, clock + 1)
             c == CancelOrder(book, id)
             new == AddOrder(c, o)
  <2>1. /\ Idle /\ Cancellable(book, id) /\ clock < MaxClock /\ book' = new
        /\ aggressive' = NoSlot /\ clock' = clock + 1 /\ trade' = trade
    BY <1>9 DEF Modify, Idle
  <2>2. Kept(book, {}, clock) /\ Incoming = NoOrder /\ Incoming' = NoOrder
    BY <1>1, <1>2, <2>1
  <2>3. v \in Views(book) /\ Views(c) = Views(book) \ {v}
    BY <2>1, <2>2, CancelViews
  <2>4. Kept(c, {}, clock)
    BY <2>1, <2>2, CancelKeeps
  <2>5. ~ Exhausted(c)
    BY <2>1, <2>2, CancelFrees DEF Kept
  <2>6. old.side \in Sides /\ old.price \in Prices /\ old.id = id
    <3>1. book.map[id] \in Queued(book) /\ old.id = id
      BY <2>1, <2>2 DEF Cancellable, MapLeadsToQueued, Kept
    <3> QED BY <2>2, <3>1, Home DEF Kept
  <2> HIDE DEF c, old
  <2>7. /\ o \in OrderRecords /\ o.state = "New" /\ o.stamp = clock + 1
        /\ o.id = id /\ o.side = old.side /\ o.price = old.price /\ o.rem = q
    BY <1>4, <2>1, <2>6 DEF Order
  <2> HIDE DEF o
  <2>8. ViewOf(o) = [v EXCEPT !.rem = q, !.stamp = clock + 1]
    <3>1. o.id = old.id /\ o.side = old.side /\ o.price = old.price
      BY <2>6, <2>7
    <3>2. ViewOf(o) = [ViewOf(old) EXCEPT !.rem = o.rem, !.stamp = o.stamp]
      BY <3>1, Amended
    <3> QED BY <2>7, <3>2
  <2> HIDE DEF v
  <2>9. Views(new) = Views(c) \cup {ViewOf(o)}
    BY <1>1, <2>4, <2>5, <2>7, AddViews
  <2> HIDE DEF new
  <2>10. v \in Resting /\ Resting' = (Resting \ {v}) \cup {[v EXCEPT !.rem = q, !.stamp = clock + 1]}
    BY <1>0, <2>1, <2>3, <2>8, <2>9
  <2>11. Abstract!Amend(v, q)
    BY <2>1, <2>2, <2>10 DEF Abstract!Amend, Resting, Incoming
  <2> QED BY <2>10, <2>11 DEF Abstract!Next, Resting, Quantities
<1>10. ASSUME NEW id \in Ids, NEW side \in Sides, NEW p \in Prices, NEW q \in Quantities,
              Add(id, side, p, q)
       PROVE  Abstract!Place
  <2> DEFINE o == Order(id, side, p, q, clock + 1)
             new == AddOrder(book, o)
  <2>1. /\ Idle /\ clock < MaxClock /\ book' = new /\ ~ Exhausted(book)
        /\ aggressive' = NoSlot /\ clock' = clock + 1 /\ trade' = trade
    BY <1>10 DEF Add, Idle
  <2>2. /\ o \in OrderRecords /\ o.state = "New" /\ o.stamp = clock + 1
        /\ ViewOf(o) \in Abstract!NewOrders
    BY <1>4, <2>1
  <2>3. Kept(book, {}, clock) /\ Incoming = NoOrder /\ Incoming' = NoOrder
    BY <1>1, <1>2, <2>1
  <2> HIDE DEF o
  <2>4. Views(new) = Views(book) \cup {ViewOf(o)}
    BY <1>1, <2>1, <2>2, <2>3, AddViews
  <2> HIDE DEF new
  <2>5. Resting' = Resting \cup {ViewOf(o)}
    BY <1>0, <2>1, <2>4
  <2> QED BY <2>1, <2>2, <2>3, <2>5 DEF Abstract!Place, Resting, Incoming
<1> QED BY <1>5, <1>6, <1>7, <1>8, <1>9, <1>10 DEF Next, Abstract!Next

(* For any prices, quantities, ids and pool, the engine and its book       *)
(* implement price-time priority: every trade is with the oldest order at  *)
(* the best price and at its price, an order rests only when nothing is    *)
(* left that it meets, and cancel and modify touch the one they name.      *)
THEOREM PriceTime == Spec => ImplementsPriceTime
<1>1. Init => Abstract!Init
  <2> SUFFICES ASSUME Init PROVE Abstract!Init
    OBVIOUS
  <2>1. book.levels = [side \in Sides |-> EmptyMap] /\ Idle
    BY DEF Init, EmptyBook, Idle
  <2>2. Queued(book) = {}
    BY <2>1 DEF Queued, EmptyMap
  <2> QED BY <2>1, <2>2 DEF Init, Abstract!Init
<1>2. PriorityInv /\ [Next]_vars => [Abstract!Next]_(Abstract!vars)
  BY PriceTimeStep
<1> QED BY <1>1, <1>2, Priority, PTL DEF ImplementsPriceTime, Abstract!Spec, Spec

-----------------------------------------------------------------------------
(* Replay stamps the orders anew, so its book is the live one but for the  *)
(* stamps.  No operation of the book looks at them.                        *)
Bare(o) == [id |-> o.id, side |-> o.side, price |-> o.price, rem |-> o.rem, state |-> o.state]
Plain(b) == [b EXCEPT !.ord = [s \in Slots |-> Bare(b.ord[s])]]

LEMMA PlainFields ==
    ASSUME NEW b, IsRecord(b)
    PROVE  /\ IsRecord(Plain(b))
           /\ Plain(b) = [free |-> b.free, used |-> b.used,
                          ord |-> [s \in Slots |-> Bare(b.ord[s])],
                          levels |-> b.levels, map |-> b.map, best |-> b.best]
           /\ Plain(b).free = b.free /\ Plain(b).used = b.used
           /\ Plain(b).levels = b.levels /\ Plain(b).map = b.map /\ Plain(b).best = b.best
           /\ Plain(b).ord = [s \in Slots |-> Bare(b.ord[s])]
<1> DEFINE f == [s \in Slots |-> Bare(b.ord[s])]
<1>1. Plain(b) = [b EXCEPT !.ord = f]
  BY DEF Plain
<1> HIDE DEF f
<1>2. Plain(b) = [free |-> b.free, used |-> b.used, ord |-> f,
                  levels |-> b.levels, map |-> b.map, best |-> b.best]
  BY <1>1 DEF IsRecord
<1> QED BY <1>2 DEF IsRecord, f

LEMMA PlainOrder ==
    ASSUME NEW b, IsRecord(b), NEW s \in Slots
    PROVE  /\ Plain(b).ord[s] = Bare(b.ord[s])
           /\ Plain(b).ord[s].id = b.ord[s].id /\ Plain(b).ord[s].side = b.ord[s].side
           /\ Plain(b).ord[s].price = b.ord[s].price /\ Plain(b).ord[s].rem = b.ord[s].rem
<1>1. Plain(b).ord[s] = Bare(b.ord[s])
  <2> DEFINE f == [x \in Slots |-> Bare(b.ord[x])]
  <2>1. Plain(b).ord = f
    BY PlainFields
  <2>2. f[s] = Bare(b.ord[s])
    OBVIOUS
  <2> HIDE DEF f
  <2> QED BY <2>1, <2>2
<1> QED BY <1>1 DEF Bare

(* Two books are the same book if their fields are.                        *)
LEMMA SameBook ==
    ASSUME NEW b, NEW c, IsRecord(b), IsRecord(c),
           b.free = c.free, b.used = c.used, b.ord = c.ord,
           b.levels = c.levels, b.map = c.map, b.best = c.best
    PROVE  b = c
  BY DEF IsRecord

LEMMA PlainSetLevel ==
    ASSUME NEW b, IsRecord(b), NEW side, NEW p, NEW lv
    PROVE  /\ IsRecord(SetLevel(b, side, p, lv))
           /\ Plain(SetLevel(b, side, p, lv)) = SetLevel(Plain(b), side, p, lv)
<1> DEFINE P == Plain(b)
           new == SetLevel(b, side, p, lv)
           onP == SetLevel(P, side, p, lv)
<1>1. /\ IsRecord(P) /\ P.free = b.free /\ P.used = b.used /\ P.levels = b.levels
      /\ P.map = b.map /\ P.best = b.best /\ P.ord = [s \in Slots |-> Bare(b.ord[s])]
  BY PlainFields
<1> HIDE DEF P
<1>2. \A c : IsRecord(c) =>
          LET d == SetLevel(c, side, p, lv)
          IN  /\ IsRecord(d) /\ d.free = c.free /\ d.used = c.used /\ d.ord = c.ord /\ d.map = c.map
              /\ d.levels = OneLevel(c.levels, side, p, lv)
              /\ d.best = IF lv.queue = <<>>
                          THEN [c.best EXCEPT ![side] = IF @ = p THEN Dangling ELSE @]
                          ELSE c.best
  BY DEF IsRecord, SetLevel, OneLevel
<1>3. /\ IsRecord(new) /\ new.free = b.free /\ new.used = b.used /\ new.ord = b.ord
      /\ new.map = b.map /\ new.levels = OneLevel(b.levels, side, p, lv)
      /\ new.best = IF lv.queue = <<>>
                    THEN [b.best EXCEPT ![side] = IF @ = p THEN Dangling ELSE @] ELSE b.best
  BY <1>2
<1>4. /\ IsRecord(onP) /\ onP.free = P.free /\ onP.used = P.used /\ onP.ord = P.ord
      /\ onP.map = P.map /\ onP.levels = OneLevel(P.levels, side, p, lv)
      /\ onP.best = IF lv.queue = <<>>
                    THEN [P.best EXCEPT ![side] = IF @ = p THEN Dangling ELSE @] ELSE P.best
  BY <1>1, <1>2
<1> HIDE DEF new, onP
<1>5. /\ IsRecord(Plain(new)) /\ Plain(new).free = new.free /\ Plain(new).used = new.used
      /\ Plain(new).levels = new.levels /\ Plain(new).map = new.map
      /\ Plain(new).best = new.best /\ Plain(new).ord = [s \in Slots |-> Bare(new.ord[s])]
  BY <1>3, PlainFields
<1>6. Plain(new) = onP
  BY <1>1, <1>3, <1>4, <1>5, SameBook
<1> QED BY <1>3, <1>6 DEF new, onP, P

LEMMA PlainDeallocate ==
    ASSUME NEW b, IsRecord(b), NEW s
    PROVE  /\ IsRecord(Deallocate(b, s))
           /\ Plain(Deallocate(b, s)) = Deallocate(Plain(b), s)
<1> DEFINE P == Plain(b)
           new == Deallocate(b, s)
           onP == Deallocate(P, s)
<1>1. /\ IsRecord(P) /\ P.free = b.free /\ P.used = b.used /\ P.levels = b.levels
      /\ P.map = b.map /\ P.best = b.best /\ P.ord = [x \in Slots |-> Bare(b.ord[x])]
  BY PlainFields
<1> HIDE DEF P
<1>2. \A c : IsRecord(c) =>
          LET d == Deallocate(c, s)
          IN  /\ IsRecord(d) /\ d.ord = c.ord /\ d.levels = c.levels /\ d.map = c.map
              /\ d.best = c.best
              /\ d.free = IF c.used > 0 THEN [c.free EXCEPT ![c.used - 1] = s] ELSE c.free
              /\ d.used = IF c.used > 0 THEN c.used - 1 ELSE c.used
  BY DEF IsRecord, Deallocate
<1>3. /\ IsRecord(new) /\ new.ord = b.ord /\ new.levels = b.levels /\ new.map = b.map
      /\ new.best = b.best
      /\ new.free = IF b.used > 0 THEN [b.free EXCEPT ![b.used - 1] = s] ELSE b.free
      /\ new.used = IF b.used > 0 THEN b.used - 1 ELSE b.used
  BY <1>2
<1>4. /\ IsRecord(onP) /\ onP.ord = P.ord /\ onP.levels = P.levels /\ onP.map = P.map
      /\ onP.best = P.best
      /\ onP.free = IF P.used > 0 THEN [P.free EXCEPT ![P.used - 1] = s] ELSE P.free
      /\ onP.used = IF P.used > 0 THEN P.used - 1 ELSE P.used
  BY <1>1, <1>2
<1> HIDE DEF new, onP
<1>5. /\ IsRecord(Plain(new)) /\ Plain(new).free = new.free /\ Plain(new).used = new.used
      /\ Plain(new).levels = new.levels /\ Plain(new).map = new.map
      /\ Plain(new).best = new.best /\ Plain(new).ord = [x \in Slots |-> Bare(new.ord[x])]
  BY <1>3, PlainFields
<1>6. Plain(new) = onP
  BY <1>1, <1>3, <1>4, <1>5, SameBook
<1> QED BY <1>3, <1>6 DEF new, onP, P

(* What changes only the id map, the iterators or the orders.              *)
LEMMA PlainWrites ==
    ASSUME NEW b, IsRecord(b), NEW x
    PROVE  /\ IsRecord([b EXCEPT !.map = x]) /\ IsRecord([b EXCEPT !.best = x])
           /\ Plain([b EXCEPT !.map = x]) = [Plain(b) EXCEPT !.map = x]
           /\ Plain([b EXCEPT !.best = x]) = [Plain(b) EXCEPT !.best = x]
<1>1. IsRecord([b EXCEPT !.map = x]) /\ Plain([b EXCEPT !.map = x]) = [Plain(b) EXCEPT !.map = x]
  <2> DEFINE c == [b EXCEPT !.map = x]
  <2>1. c = [free |-> b.free, used |-> b.used, ord |-> b.ord,
             levels |-> b.levels, map |-> x, best |-> b.best]
    BY DEF IsRecord
  <2> HIDE DEF c
  <2>2. IsRecord(c)
    BY <2>1 DEF IsRecord
  <2>3. Plain(c) = [free |-> b.free, used |-> b.used, ord |-> [s \in Slots |-> Bare(b.ord[s])],
                    levels |-> b.levels, map |-> x, best |-> b.best]
    BY <2>1, <2>2, PlainFields
  <2>4. Plain(b) = [free |-> b.free, used |-> b.used, ord |-> [s \in Slots |-> Bare(b.ord[s])],
                    levels |-> b.levels, map |-> b.map, best |-> b.best]
    BY PlainFields
  <2>5. Plain(c) = [Plain(b) EXCEPT !.map = x]
    BY <2>3, <2>4
  <2> QED BY <2>2, <2>5 DEF c
<1>2. IsRecord([b EXCEPT !.best = x]) /\ Plain([b EXCEPT !.best = x]) = [Plain(b) EXCEPT !.best = x]
  <2> DEFINE c == [b EXCEPT !.best = x]
  <2>1. c = [free |-> b.free, used |-> b.used, ord |-> b.ord,
             levels |-> b.levels, map |-> b.map, best |-> x]
    BY DEF IsRecord
  <2> HIDE DEF c
  <2>2. IsRecord(c)
    BY <2>1 DEF IsRecord
  <2>3. Plain(c) = [free |-> b.free, used |-> b.used, ord |-> [s \in Slots |-> Bare(b.ord[s])],
                    levels |-> b.levels, map |-> b.map, best |-> x]
    BY <2>1, <2>2, PlainFields
  <2>4. Plain(b) = [free |-> b.free, used |-> b.used, ord |-> [s \in Slots |-> Bare(b.ord[s])],
                    levels |-> b.levels, map |-> b.map, best |-> b.best]
    BY PlainFields
  <2>5. Plain(c) = [Plain(b) EXCEPT !.best = x]
    BY <2>3, <2>4
  <2> QED BY <2>2, <2>5 DEF c
<1> QED BY <1>1, <1>2

LEMMA PlainOrders ==
    ASSUME NEW b, IsRecord(b), NEW f, NEW g, g = [s \in Slots |-> Bare(f[s])]
    PROVE  IsRecord([b EXCEPT !.ord = f]) /\ Plain([b EXCEPT !.ord = f]) = [Plain(b) EXCEPT !.ord = g]
<1> DEFINE c == [b EXCEPT !.ord = f]
<1>1. c = [free |-> b.free, used |-> b.used, ord |-> f,
           levels |-> b.levels, map |-> b.map, best |-> b.best]
  BY DEF IsRecord
<1> HIDE DEF c
<1>2. IsRecord(c)
  BY <1>1 DEF IsRecord
<1>3. Plain(c) = [free |-> b.free, used |-> b.used, ord |-> [s \in Slots |-> Bare(f[s])],
                  levels |-> b.levels, map |-> b.map, best |-> b.best]
  BY <1>1, <1>2, PlainFields
<1>4. Plain(b) = [free |-> b.free, used |-> b.used, ord |-> [s \in Slots |-> Bare(b.ord[s])],
                  levels |-> b.levels, map |-> b.map, best |-> b.best]
  BY PlainFields
<1>5. Plain(c) = [Plain(b) EXCEPT !.ord = g]
  BY <1>3, <1>4
<1> QED BY <1>2, <1>5 DEF c

LEMMA PlainRefresh ==
    ASSUME NEW b, IsRecord(b)
    PROVE  IsRecord(RefreshBoth(b)) /\ Plain(RefreshBoth(b)) = RefreshBoth(Plain(b))
<1> DEFINE begins == [side \in Sides |-> Begin(side, b.levels[side])]
<1>1. RefreshBoth(b) = [b EXCEPT !.best = begins]
  BY DEF RefreshBoth
<1>2. Plain(b).levels = b.levels
  BY PlainFields
<1>3. RefreshBoth(Plain(b)) = [Plain(b) EXCEPT !.best = begins]
  BY <1>2 DEF RefreshBoth
<1> HIDE DEF begins
<1>4. /\ IsRecord([b EXCEPT !.best = begins])
      /\ Plain([b EXCEPT !.best = begins]) = [Plain(b) EXCEPT !.best = begins]
  BY PlainWrites
<1> QED BY <1>1, <1>3, <1>4

LEMMA PlainConstruct ==
    ASSUME NEW b, IsRecord(b), NextSlot(b) \in Slots, DOMAIN b.ord = Slots, NEW o
    PROVE  /\ IsRecord(Construct(b, o)) /\ NextSlot(Plain(b)) = NextSlot(b)
           /\ (Exhausted(Plain(b)) <=> Exhausted(b))
           /\ Plain(Construct(b, o)) = Construct(Plain(b), Bare(o))
<1> DEFINE P == Plain(b)
           s == NextSlot(b)
           new == Construct(b, o)
           onP == Construct(P, Bare(o))
<1>1. /\ IsRecord(P) /\ P.free = b.free /\ P.used = b.used /\ P.levels = b.levels
      /\ P.map = b.map /\ P.best = b.best /\ P.ord = [x \in Slots |-> Bare(b.ord[x])]
  BY PlainFields
<1>2. NextSlot(P) = s /\ (Exhausted(P) <=> Exhausted(b))
  <2> HIDE DEF P
  <2> QED BY <1>1 DEF NextSlot, Exhausted
<1> HIDE DEF P, s
<1>3. \A c, d : IsRecord(c) =>
          LET e == Construct(c, d)
          IN  /\ e.free = c.free /\ e.used = c.used + 1
  BY DEF IsRecord, Construct, Allocate
<1>4. /\ IsRecord(new) /\ new.free = b.free /\ new.used = b.used + 1
      /\ new.ord = [b.ord EXCEPT ![s] = o]
      /\ new.levels = b.levels /\ new.map = b.map /\ new.best = b.best
  BY <1>3, ConstructFields DEF s
<1>5. /\ IsRecord(onP) /\ onP.free = P.free /\ onP.used = P.used + 1
      /\ onP.ord = [P.ord EXCEPT ![s] = Bare(o)]
      /\ onP.levels = P.levels /\ onP.map = P.map /\ onP.best = P.best
  BY <1>1, <1>2, <1>3, ConstructFields
<1> HIDE DEF new, onP
<1>6. /\ IsRecord(Plain(new)) /\ Plain(new).free = new.free /\ Plain(new).used = new.used
      /\ Plain(new).levels = new.levels /\ Plain(new).map = new.map
      /\ Plain(new).best = new.best /\ Plain(new).ord = [x \in Slots |-> Bare(new.ord[x])]
  BY <1>4, PlainFields
<1>7. Plain(new).ord = onP.ord
  <2>1. \A x \in Slots : Bare(new.ord[x]) = IF x = s THEN Bare(o) ELSE Bare(b.ord[x])
    BY <1>4 DEF s
  <2>2. onP.ord = [x \in Slots |-> IF x = s THEN Bare(o) ELSE Bare(b.ord[x])]
    BY <1>1, <1>5
  <2> QED BY <1>6, <2>1, <2>2
<1>8. Plain(new) = onP
  BY <1>1, <1>4, <1>5, <1>6, <1>7, SameBook
<1> QED BY <1>2, <1>4, <1>8 DEF new, onP, P, s

RestsIn(b, s, new) ==
    LET o == b.ord[s]
        lv == PushBack(LevelAt(b, o.side, o.price), s, o.rem)
        ls == [b.levels EXCEPT ![o.side] = Put(@, o.price, lv)]
    IN  /\ IsRecord(new)
        /\ new.ord = b.ord /\ new.map = Put(b.map, o.id, s) /\ new.levels = ls
        /\ new.best = IF \/ b.best[o.side] = End
                         \/ b.best[o.side] # Dangling /\ Better(o.side, o.price, b.best[o.side])
                      THEN [b.best EXCEPT ![o.side] = Begin(o.side, ls[o.side])]
                      ELSE b.best

LEMMA AddRestingIs ==
    ASSUME NEW b, IsRecord(b), NEW s
    PROVE  RestsIn(b, s, AddResting(b, s))
  BY AddRestingFields DEF RestsIn

LEMMA PlainAddResting ==
    ASSUME NEW b, IsRecord(b), NEW s \in Slots
    PROVE  /\ IsRecord(AddResting(b, s))
           /\ Plain(AddResting(b, s)) = AddResting(Plain(b), s)
<1> DEFINE P == Plain(b)
           new == AddResting(b, s)
           onP == AddResting(P, s)
           o == b.ord[s]
           lv == PushBack(LevelAt(b, o.side, o.price), s, o.rem)
           ls == [b.levels EXCEPT ![o.side] = Put(@, o.price, lv)]
           best == IF \/ b.best[o.side] = End
                      \/ b.best[o.side] # Dangling /\ Better(o.side, o.price, b.best[o.side])
                   THEN [b.best EXCEPT ![o.side] = Begin(o.side, ls[o.side])]
                   ELSE b.best
<1>1. /\ IsRecord(P) /\ P.free = b.free /\ P.used = b.used /\ P.levels = b.levels
      /\ P.map = b.map /\ P.best = b.best /\ P.ord = [x \in Slots |-> Bare(b.ord[x])]
      /\ P.ord[s].id = o.id /\ P.ord[s].side = o.side
      /\ P.ord[s].price = o.price /\ P.ord[s].rem = o.rem
  BY PlainFields, PlainOrder
<1> HIDE DEF P
<1>2. \A c : IsRecord(c) => AddResting(c, s).free = c.free /\ AddResting(c, s).used = c.used
  BY DEF IsRecord, AddResting, RefreshSide
<1>3. /\ IsRecord(new) /\ new.free = b.free /\ new.used = b.used /\ new.ord = b.ord
      /\ new.map = Put(b.map, o.id, s) /\ new.levels = ls /\ new.best = best
  BY <1>2, AddRestingFields
<1>4. LevelAt(P, o.side, o.price) = LevelAt(b, o.side, o.price)
  BY <1>1 DEF LevelAt
<1>5. /\ IsRecord(onP) /\ onP.free = P.free /\ onP.used = P.used /\ onP.ord = P.ord
      /\ onP.map = Put(b.map, o.id, s) /\ onP.levels = ls /\ onP.best = best
  <2> DEFINE q == P.ord[s]
             lvP == PushBack(LevelAt(P, q.side, q.price), s, q.rem)
             lsP == [P.levels EXCEPT ![q.side] = Put(@, q.price, lvP)]
  <2>1. /\ IsRecord(onP) /\ onP.ord = P.ord /\ onP.map = Put(P.map, q.id, s) /\ onP.levels = lsP
        /\ onP.best = IF \/ P.best[q.side] = End
                         \/ P.best[q.side] # Dangling /\ Better(q.side, q.price, P.best[q.side])
                      THEN [P.best EXCEPT ![q.side] = Begin(q.side, lsP[q.side])]
                      ELSE P.best
    <3>1. RestsIn(P, s, onP)
      BY <1>1, AddRestingIs
    <3> HIDE DEF onP
    <3> QED BY <3>1 DEF RestsIn
  <2>2. q.id = o.id /\ q.side = o.side /\ q.price = o.price /\ q.rem = o.rem
    BY <1>1
  <2> HIDE DEF q, o
  <2>3. lvP = lv
    BY <1>4, <2>2
  <2> HIDE DEF lv, lvP
  <2>4. lsP = ls
    BY <1>1, <2>2, <2>3
  <2> HIDE DEF ls, lsP, onP
  <2>5. onP.map = Put(b.map, o.id, s) /\ onP.best = best
    BY <1>1, <2>1, <2>2, <2>4
  <2> QED BY <1>1, <1>2, <2>1, <2>4, <2>5 DEF onP
<1> HIDE DEF new, onP, ls, best, o, lv
<1>6. /\ IsRecord(Plain(new)) /\ Plain(new).free = new.free /\ Plain(new).used = new.used
      /\ Plain(new).levels = new.levels /\ Plain(new).map = new.map
      /\ Plain(new).best = new.best /\ Plain(new).ord = [x \in Slots |-> Bare(new.ord[x])]
  BY <1>3, PlainFields
<1>7. Plain(new) = onP
  BY <1>1, <1>3, <1>5, <1>6, SameBook
<1> QED BY <1>3, <1>7 DEF new, onP, P

LEMMA PlainRetire ==
    ASSUME NEW b, IsRecord(b), NEW s, NEW id
    PROVE  /\ IsRecord(Retire(b, s, id))
           /\ Plain(Retire(b, s, id)) = Retire(Plain(b), s, id)
<1> DEFINE m == Drop(b.map, id)
           b1 == [b EXCEPT !.map = m]
<1>1. Retire(b, s, id) = Deallocate(b1, s)
  BY DEF Retire
<1>2. Plain(b).map = b.map
  BY PlainFields
<1>3. Retire(Plain(b), s, id) = Deallocate([Plain(b) EXCEPT !.map = m], s)
  BY <1>2 DEF Retire
<1>4. IsRecord(b1) /\ Plain(b1) = [Plain(b) EXCEPT !.map = m]
  <2> HIDE DEF m
  <2> QED BY PlainWrites
<1> HIDE DEF b1
<1>5. IsRecord(Deallocate(b1, s)) /\ Plain(Deallocate(b1, s)) = Deallocate(Plain(b1), s)
  BY <1>4, PlainDeallocate
<1> QED BY <1>1, <1>3, <1>4, <1>5

LEMMA PlainMatch ==
    ASSUME NEW b, NEW s \in Slots, Sound(b, {s})
    PROVE  /\ IsRecord(b) /\ DOMAIN b.ord = Slots
           /\ (CanFill(Plain(b), s) <=> CanFill(b, s))
           /\ CanFill(b, s) => /\ Passive(Plain(b), s) = Passive(b, s)
                               /\ Passive(b, s) \in Slots
                               /\ FillQty(Plain(b), s) = FillQty(b, s)
                               /\ TradeOf(Plain(b), s) = TradeOf(b, s)
<1> DEFINE P == Plain(b)
           o == b.ord[s]
<1>1. IsRecord(b) /\ DOMAIN b.ord = Slots
  BY DEF Sound, IsBook, IsRecord
<1>2. /\ P.levels = b.levels /\ \A x \in Slots : P.ord[x] = Bare(b.ord[x])
      /\ \A x \in Slots : /\ P.ord[x].id = b.ord[x].id /\ P.ord[x].side = b.ord[x].side
                          /\ P.ord[x].price = b.ord[x].price /\ P.ord[x].rem = b.ord[x].rem
  <2>1. P.levels = b.levels
    BY <1>1, PlainFields
  <2>2. \A x \in Slots : P.ord[x] = Bare(b.ord[x])
    BY <1>1, PlainOrder
  <2>3. \A x \in Slots : P.ord[x].id = b.ord[x].id /\ P.ord[x].side = b.ord[x].side
    BY <1>1, PlainOrder
  <2>4. \A x \in Slots : P.ord[x].price = b.ord[x].price /\ P.ord[x].rem = b.ord[x].rem
    BY <1>1, PlainOrder
  <2> HIDE DEF P
  <2> QED BY <2>1, <2>2, <2>3, <2>4
<1> HIDE DEF P
<1>3. CanFill(P, s) <=> CanFill(b, s)
  BY <1>2 DEF CanFill
<1>4. ASSUME CanFill(b, s)
      PROVE  /\ Passive(P, s) = Passive(b, s) /\ Passive(b, s) \in Slots
             /\ FillQty(P, s) = FillQty(b, s) /\ TradeOf(P, s) = TradeOf(b, s)
  <2>1. Passive(b, s) \in Slots
    BY <1>4, Opposite
  <2>2. Passive(P, s) = Passive(b, s)
    BY <1>2 DEF Passive
  <2>3. FillQty(P, s) = FillQty(b, s)
    BY <1>2, <2>1, <2>2 DEF FillQty
  <2>4. TradeOf(P, s) = TradeOf(b, s)
    BY <1>2, <2>1, <2>2, <2>3 DEF TradeOf
  <2> QED BY <2>1, <2>2, <2>3, <2>4
<1> QED BY <1>1, <1>3, <1>4 DEF P

(* One order after a fill, and the orders.                                 *)
LEMMA BareTaken ==
    ASSUME NEW o \in OrderRecords, NEW q,
           NEW d, d = [o EXCEPT !.rem = @ - q], NEW e, e = [Bare(o) EXCEPT !.rem = @ - q]
    PROVE  e = Bare(d)
  BY DEF Bare, OrderRecords

Traded(o, left, st) == [o EXCEPT !.rem = left, !.state = st]

LEMMA BareTraded ==
    ASSUME NEW o \in OrderRecords, NEW left, NEW st
    PROVE  Traded(Bare(o), left, st) = Bare(Traded(o, left, st))
<1> DEFINE d == Traded(o, left, st)
           e == Traded(Bare(o), left, st)
<1>0. d = [o EXCEPT !.rem = left, !.state = st] /\ e = [Bare(o) EXCEPT !.rem = left, !.state = st]
  BY DEF Traded
<1> HIDE DEF d, e
<1>1. d.id = o.id /\ d.side = o.side /\ d.price = o.price /\ d.rem = left /\ d.state = st
  BY <1>0 DEF OrderRecords
<1>2. Bare(d) = [id |-> o.id, side |-> o.side, price |-> o.price, rem |-> left, state |-> st]
  BY <1>1 DEF Bare
<1>3. Bare(o) = [id |-> o.id, side |-> o.side, price |-> o.price, rem |-> o.rem, state |-> o.state]
  BY DEF Bare
<1> DEFINE c == [id |-> o.id, side |-> o.side, price |-> o.price, rem |-> left, state |-> o.state]
<1>4. [Bare(o) EXCEPT !.rem = left] = c
  BY <1>3
<1>5. [c EXCEPT !.state = st]
        = [id |-> o.id, side |-> o.side, price |-> o.price, rem |-> left, state |-> st]
  OBVIOUS
<1>6. e = [[Bare(o) EXCEPT !.rem = left] EXCEPT !.state = st]
  BY <1>0
<1> HIDE DEF c
<1>7. e = Bare(d)
  BY <1>2, <1>4, <1>5, <1>6
<1> QED BY <1>7 DEF d, e

LEMMA BareDone ==
    ASSUME NEW o \in OrderRecords, NEW st,
           NEW d, d = [o EXCEPT !.state = st], NEW e, e = [Bare(o) EXCEPT !.state = st]
    PROVE  e = Bare(d)
  BY DEF Bare, OrderRecords

FilledOrders(f, s, r, q, left, st) ==
    [f EXCEPT ![s].rem = @ - q, ![r].rem = left, ![r].state = st]

LEMMA BareFill ==
    ASSUME NEW f, DOMAIN f = Slots, NEW s \in Slots, NEW r \in Slots, r # s,
           f[s] \in OrderRecords, f[r] \in OrderRecords, NEW q, NEW left, NEW st,
           NEW g, g = [x \in Slots |-> Bare(f[x])]
    PROVE  FilledOrders(g, s, r, q, left, st)
             = [x \in Slots |-> Bare(FilledOrders(f, s, r, q, left, st)[x])]
<1> DEFINE new == FilledOrders(f, s, r, q, left, st)
           after == FilledOrders(g, s, r, q, left, st)
<1>0. /\ new = [f EXCEPT ![s].rem = @ - q, ![r].rem = left, ![r].state = st]
      /\ after = [g EXCEPT ![s].rem = @ - q, ![r].rem = left, ![r].state = st]
  BY DEF FilledOrders
<1> HIDE DEF new, after
<1> DEFINE os == [f[s] EXCEPT !.rem = @ - q]
           or == [f[r] EXCEPT !.rem = left, !.state = st]
           ps == [g[s] EXCEPT !.rem = @ - q]
           pr == [g[r] EXCEPT !.rem = left, !.state = st]
<1>1. g[s] = Bare(f[s]) /\ g[r] = Bare(f[r])
  OBVIOUS
<1>2. ps = Bare(os)
  <2> DEFINE o == f[s]
  <2>1. o \in OrderRecords /\ os = [o EXCEPT !.rem = @ - q] /\ ps = [Bare(o) EXCEPT !.rem = @ - q]
    BY <1>1
  <2> HIDE DEF o, os, ps
  <2> QED BY <2>1, BareTaken
<1>3. pr = Bare(or)
  <2>1. or = Traded(f[r], left, st) /\ pr = Traded(Bare(f[r]), left, st)
    BY <1>1 DEF Traded
  <2> HIDE DEF or, pr
  <2> QED BY <2>1, BareTraded
<1>4. new[s] = os /\ new[r] = or /\ \A x \in Slots \ {s, r} : new[x] = f[x]
  BY <1>0
<1>5. after[s] = ps /\ after[r] = pr /\ \A x \in Slots \ {s, r} : after[x] = g[x]
  BY <1>0
<1>6. DOMAIN after = Slots /\ after = [x \in Slots |-> after[x]]
  BY <1>0
<1> HIDE DEF os, or, ps, pr
<1>7. \A x \in Slots : after[x] = Bare(new[x])
  BY <1>2, <1>3, <1>4, <1>5
<1>8. after = [x \in Slots |-> Bare(new[x])]
  BY <1>6, <1>7
<1> QED BY <1>8 DEF new, after

LEMMA PlainFill ==
    ASSUME NEW b, NEW s \in Slots, Sound(b, {s}), CanFill(b, s)
    PROVE  Plain(Fill(b, s)) = Fill(Plain(b), s)
<1> DEFINE P == Plain(b)
           o == b.ord[s]
           side == Other(o.side)
           p == Begin(side, b.levels[side])
           r == Passive(b, s)
           qty == FillQty(b, s)
           left == b.ord[r].rem - qty
           st == IF left = 0 THEN "Filled" ELSE "PartFill"
           f == [b.ord EXCEPT ![s].rem = @ - qty, ![r].rem = left, ![r].state = st]
           g == [P.ord EXCEPT ![s].rem = @ - qty, ![r].rem = left, ![r].state = st]
           lv == FilledLevel(b.levels[side][p], r, qty, left)
           b1 == [b EXCEPT !.ord[s].rem = @ - qty, !.ord[r].rem = left, !.ord[r].state = st]
           P1 == [P EXCEPT !.ord[s].rem = @ - qty, !.ord[r].rem = left, !.ord[r].state = st]
           b2 == SetLevel(b1, side, p, lv)
           P2 == SetLevel(P1, side, p, lv)
<1>1. /\ IsRecord(b) /\ DOMAIN b.ord = Slots /\ r \in Slots /\ r # s
      /\ Passive(P, s) = r /\ FillQty(P, s) = qty
      /\ o \in OrderRecords /\ b.ord[r] \in OrderRecords
  <2>1. s \in {s} /\ b.ord[s] \in OrderRecords
    BY DEF Sound, Occupied
  <2> QED BY <2>1, PlainMatch, Opposite
<1>2. /\ IsRecord(P) /\ P.levels = b.levels
      /\ P.ord = [x \in Slots |-> Bare(b.ord[x])]
      /\ P.ord[s].side = o.side /\ P.ord[r].id = b.ord[r].id /\ P.ord[r].rem = b.ord[r].rem
  BY <1>1, PlainFields, PlainOrder
<1> HIDE DEF P
<1>3. Fill(b, s) = IF left = 0 THEN Retire(b2, r, b.ord[r].id) ELSE b2
  BY DEF Fill
<1>4. Fill(P, s) = IF left = 0 THEN Retire(P2, r, b.ord[r].id) ELSE P2
  <2> DEFINE sideP == Other(P.ord[s].side)
             pP == Begin(sideP, P.levels[sideP])
             rP == Passive(P, s)
             qP == FillQty(P, s)
             leftP == P.ord[rP].rem - qP
             c1 == [P EXCEPT !.ord[s].rem = @ - qP, !.ord[rP].rem = leftP,
                             !.ord[rP].state = IF leftP = 0 THEN "Filled" ELSE "PartFill"]
             c2 == SetLevel(c1, sideP, pP, FilledLevel(P.levels[sideP][pP], rP, qP, leftP))
  <2>1. Fill(P, s) = IF leftP = 0 THEN Retire(c2, rP, P.ord[rP].id) ELSE c2
    BY DEF Fill
  <2>2. sideP = side /\ pP = p /\ rP = r /\ qP = qty
    BY <1>1, <1>2
  <2> HIDE DEF sideP, pP, rP, qP, side, p, r, qty
  <2>3. leftP = left
    BY <1>2, <2>2
  <2> HIDE DEF left, leftP
  <2>4. c1 = P1
    BY <2>2, <2>3
  <2> HIDE DEF c1, P1
  <2>5. c2 = P2
    BY <1>2, <2>2, <2>3, <2>4
  <2> HIDE DEF c2, P2
  <2> QED BY <1>2, <2>1, <2>2, <2>3, <2>5
<1>5. b1 = [b EXCEPT !.ord = f] /\ P1 = [P EXCEPT !.ord = g]
  OBVIOUS
<1> HIDE DEF b1, P1, lv
<1>6. g = [x \in Slots |-> Bare(f[x])]
  <2>1. /\ DOMAIN b.ord = Slots /\ r \in Slots /\ r # s
        /\ b.ord[s] \in OrderRecords /\ b.ord[r] \in OrderRecords
    BY <1>1
  <2> DEFINE h == b.ord
             k == P.ord
  <2>2. DOMAIN h = Slots /\ h[s] \in OrderRecords /\ h[r] \in OrderRecords
        /\ k = [x \in Slots |-> Bare(h[x])]
    BY <1>2, <2>1
  <2> HIDE DEF P, side, p, r, qty, left, st, h, k
  <2> DEFINE new == [h EXCEPT ![s].rem = @ - qty, ![r].rem = left, ![r].state = st]
             after == [k EXCEPT ![s].rem = @ - qty, ![r].rem = left, ![r].state = st]
  <2>3. /\ new = [h EXCEPT ![s].rem = @ - qty, ![r].rem = left, ![r].state = st]
        /\ after = [k EXCEPT ![s].rem = @ - qty, ![r].rem = left, ![r].state = st]
    OBVIOUS
  <2> HIDE DEF new, after
  <2>4. after = FilledOrders(k, s, r, qty, left, st) /\ new = FilledOrders(h, s, r, qty, left, st)
    BY <2>3 DEF FilledOrders
  <2>5. after = [x \in Slots |-> Bare(new[x])]
    BY <2>1, <2>2, <2>4, BareFill
  <2> QED BY <2>5 DEF h, k, new, after
<1> HIDE DEF f, g, left, qty, r, p, side
<1>7. IsRecord(b1) /\ Plain(b1) = P1
  <2> HIDE DEF P
  <2>1. /\ IsRecord([b EXCEPT !.ord = f])
        /\ Plain([b EXCEPT !.ord = f]) = [Plain(b) EXCEPT !.ord = g]
    BY <1>1, <1>6, PlainOrders
  <2> QED BY <1>5, <2>1 DEF P
<1>8. IsRecord(b2) /\ Plain(b2) = P2
  BY <1>7, PlainSetLevel
<1> HIDE DEF b2, P2
<1>9. Plain(Retire(b2, r, b.ord[r].id)) = Retire(P2, r, b.ord[r].id)
  BY <1>8, PlainRetire
<1>10. CASE left = 0
  BY <1>3, <1>4, <1>9, <1>10 DEF P
<1>11. CASE left # 0
  BY <1>3, <1>4, <1>8, <1>11 DEF P
<1> QED BY <1>10, <1>11

LEMMA PlainFinish ==
    ASSUME NEW b, NEW s \in Slots, Sound(b, {s})
    PROVE  Plain(Finish(b, s)) = Finish(Plain(b), s)
<1> DEFINE P == Plain(b)
           o == b.ord[s]
           done == o.rem = 0
           st == IF done THEN "Filled" ELSE "PartFill"
           f == [b.ord EXCEPT ![s] = [o EXCEPT !.state = st]]
           fP == [x \in Slots |-> Bare(f[x])]
           b1 == [b EXCEPT !.ord = f]
           b2 == IF done THEN Deallocate(b1, s) ELSE AddResting(b1, s)
<1>1. IsRecord(b) /\ DOMAIN b.ord = Slots /\ o \in OrderRecords
  <2>1. s \in {s} /\ b.ord[s] \in OrderRecords
    BY DEF Sound, Occupied
  <2> QED BY <2>1, PlainMatch
<1>2. /\ IsRecord(P) /\ P.ord = [x \in Slots |-> Bare(b.ord[x])]
      /\ P.ord[s] = Bare(o) /\ P.ord[s].rem = o.rem
  BY <1>1, PlainFields, PlainOrder
<1> HIDE DEF P
<1>3. Finish(b, s) = RefreshBoth(b2)
  <2>1. [b EXCEPT !.ord[s].state = st] = b1
    OBVIOUS
  <2> QED BY <2>1 DEF Finish
<1>4. Finish(P, s) = RefreshBoth(IF done THEN Deallocate([P EXCEPT !.ord = fP], s)
                                 ELSE AddResting([P EXCEPT !.ord = fP], s))
  <2>1. [P EXCEPT !.ord[s].state = st] = [P EXCEPT !.ord = fP]
    <3>1. [P.ord EXCEPT ![s].state = st] = fP
      <4>1. [Bare(o) EXCEPT !.state = st] = Bare([o EXCEPT !.state = st])
        <5> DEFINE d == [o EXCEPT !.state = st]
                   e == [Bare(o) EXCEPT !.state = st]
        <5>1. d = [o EXCEPT !.state = st] /\ e = [Bare(o) EXCEPT !.state = st]
          OBVIOUS
        <5> HIDE DEF d, e, o, st
        <5>2. e = Bare(d)
          BY <1>1, <5>1, BareDone
        <5> QED BY <5>2 DEF d, e
      <4>2. [P.ord EXCEPT ![s].state = st] = [P.ord EXCEPT ![s] = Bare([o EXCEPT !.state = st])]
        BY <1>2, <4>1
      <4>3. f[s] = [o EXCEPT !.state = st] /\ \A x \in Slots \ {s} : f[x] = b.ord[x]
        BY <1>1
      <4> DEFINE new == [o EXCEPT !.state = st]
      <4> HIDE DEF f, new
      <4>4. [P.ord EXCEPT ![s] = Bare(new)] = fP
        BY <1>1, <1>2, <4>3 DEF new
      <4> QED BY <4>2, <4>4 DEF new
    <3> QED BY <3>1
  <2> HIDE DEF fP
  <2> QED BY <1>2, <2>1 DEF Finish
<1> HIDE DEF f, st
<1>5. IsRecord(b1) /\ Plain(b1) = [P EXCEPT !.ord = fP]
  <2>0. fP = [x \in Slots |-> Bare(f[x])]
    OBVIOUS
  <2> HIDE DEF fP
  <2>1. /\ IsRecord([b EXCEPT !.ord = f])
        /\ Plain([b EXCEPT !.ord = f]) = [Plain(b) EXCEPT !.ord = fP]
    BY <1>1, <2>0, PlainOrders
  <2> QED BY <2>1 DEF P
<1> HIDE DEF b1, fP
<1>6. /\ IsRecord(b2)
      /\ Plain(b2) = IF done THEN Deallocate([P EXCEPT !.ord = fP], s)
                     ELSE AddResting([P EXCEPT !.ord = fP], s)
  <2>1. CASE done
    BY <1>5, <2>1, PlainDeallocate
  <2>2. CASE ~ done
    BY <1>5, <2>2, PlainAddResting
  <2> QED BY <2>1, <2>2
<1> HIDE DEF b2
<1>7. Plain(RefreshBoth(b2)) = RefreshBoth(Plain(b2))
  BY <1>6, PlainRefresh
<1> QED BY <1>3, <1>4, <1>6, <1>7 DEF P

(* The depth of the book, too, says nothing of the stamps.                 *)
LEMMA PlainDepth ==
    ASSUME NEW b, IsBook(b)
    PROVE  Depth(Plain(b)) = Depth(b)
<1> DEFINE P == Plain(b)
           Seen(c, side, p) ==
               [k \in DOMAIN b.levels[side][p].queue |->
                    <<c.ord[b.levels[side][p].queue[k]].id, c.ord[b.levels[side][p].queue[k]].rem>>]
<1>1. /\ IsRecord(b) /\ P.levels = b.levels
      /\ \A x \in Slots : P.ord[x].id = b.ord[x].id /\ P.ord[x].rem = b.ord[x].rem
  <2>1. IsRecord(b)
    BY DEF IsBook, IsRecord
  <2> QED BY <2>1, PlainFields, PlainOrder
<1> HIDE DEF P
<1>2. ASSUME NEW side \in Sides, NEW p \in DOMAIN b.levels[side]
      PROVE  Seen(P, side, p) = Seen(b, side, p)
  <2> DEFINE queue == b.levels[side][p].queue
  <2>1. \A k \in DOMAIN queue : queue[k] \in Slots
    <3>1. queue \in Seq(Slots)
      BY BookFields DEF LevelRecords
    <3> HIDE DEF queue
    <3> QED BY <3>1
  <2> HIDE DEF queue
  <2>2. \A k \in DOMAIN queue : /\ P.ord[queue[k]].id = b.ord[queue[k]].id
                                /\ P.ord[queue[k]].rem = b.ord[queue[k]].rem
    BY <1>1, <2>1
  <2> QED BY <2>2 DEF queue
<1>3. Depth(b) = [side \in Sides |-> [p \in DOMAIN b.levels[side] |-> Seen(b, side, p)]]
  BY DEF Depth
<1>4. Depth(P) = [side \in Sides |-> [p \in DOMAIN b.levels[side] |-> Seen(P, side, p)]]
  BY <1>1 DEF Depth
<1> HIDE DEF Seen
<1> QED BY <1>2, <1>3, <1>4 DEF P

-----------------------------------------------------------------------------
(* Counting the records of one kind.                                       *)
LEMMA CountNext ==
    ASSUME NEW T, NEW records \in Seq(T), NEW kind, NEW n \in Nat, n <= Len(records)
    PROVE  /\ Count(records, kind, n) \in 0 .. n
           /\ n + 1 <= Len(records) =>
                  Count(records, kind, n + 1)
                      = Count(records, kind, n) + (IF records[n + 1].kind = kind THEN 1 ELSE 0)
<1> DEFINE A == {i \in 1 .. n : records[i].kind = kind}
           B == {i \in 1 .. n + 1 : records[i].kind = kind}
<1>1. IsFiniteSet(1 .. n) /\ Cardinality(1 .. n) = n
  BY FS_Interval
<1>2. IsFiniteSet(A) /\ Cardinality(A) <= n /\ Cardinality(A) \in Nat
  <2>1. A \subseteq 1 .. n
    OBVIOUS
  <2> HIDE DEF A
  <2>2. IsFiniteSet(A) /\ Cardinality(A) <= Cardinality(1 .. n)
    BY <1>1, <2>1, FS_Subset
  <2> QED BY <1>1, <2>2, FS_CardinalityType
<1>3. n + 1 \notin A /\ B = IF records[n + 1].kind = kind THEN A \cup {n + 1} ELSE A
  OBVIOUS
<1>4. Count(records, kind, n) = Cardinality(A) /\ Count(records, kind, n + 1) = Cardinality(B)
  BY DEF Count
<1> HIDE DEF A, B
<1>5. Cardinality(A \cup {n + 1}) = Cardinality(A) + 1
  BY <1>2, <1>3, FS_AddElement
<1> QED BY <1>2, <1>3, <1>4, <1>5

LEMMA CountNone == \A records, kind : Count(records, kind, 0) = 0
<1> SUFFICES ASSUME NEW records, NEW kind PROVE Count(records, kind, 0) = 0
  OBVIOUS
<1>1. {i \in 1 .. 0 : records[i].kind = kind} = {}
  OBVIOUS
<1> QED BY <1>1, FS_EmptySet DEF Count

LEMMA CountAgrees ==
    ASSUME NEW r, NEW t, NEW kind, NEW n \in Nat, \A i \in 1 .. n : r[i] = t[i]
    PROVE  Count(r, kind, n) = Count(t, kind, n)
<1>1. {i \in 1 .. n : r[i].kind = kind} = {i \in 1 .. n : t[i].kind = kind}
  OBVIOUS
<1> QED BY <1>1 DEF Count

LEMMA CountGrows ==
    ASSUME NEW T, NEW records \in Seq(T), NEW kind,
           NEW m \in Nat, NEW n \in Nat, m <= n, n <= Len(records)
    PROVE  Count(records, kind, m) <= Count(records, kind, n)
<1> DEFINE A == {i \in 1 .. m : records[i].kind = kind}
           B == {i \in 1 .. n : records[i].kind = kind}
<1>1. IsFiniteSet(1 .. n) /\ B \subseteq 1 .. n /\ A \subseteq B
  BY FS_Interval
<1>2. Count(records, kind, m) = Cardinality(A) /\ Count(records, kind, n) = Cardinality(B)
  BY DEF Count
<1> HIDE DEF A, B
<1>3. IsFiniteSet(B)
  BY <1>1, FS_Subset
<1> QED BY <1>1, <1>2, <1>3, FS_Subset

(* After a run of records of one kind. *)
AllFrom(records, n, kind) == \A i \in n + 1 .. Len(records) : records[i].kind = kind

CountsRun(records, kind, other, n) ==
    \A i \in n .. Len(records) :
        /\ Count(records, kind, i) = Count(records, kind, n) + (i - n)
        /\ Count(records, other, i) = Count(records, other, n)

LEMMA CountRun ==
    ASSUME NEW T, NEW records \in Seq(T), NEW kind, NEW other, other # kind,
           NEW n \in Nat, n <= Len(records), AllFrom(records, n, kind)
    PROVE  CountsRun(records, kind, other, n)
<1> DEFINE F == {k \in Nat : n + k <= Len(records) =>
                     /\ Count(records, kind, n + k) = Count(records, kind, n) + k
                     /\ Count(records, other, n + k) = Count(records, other, n)}
<1>0. Len(records) \in Nat
  OBVIOUS
<1>1. 0 \in F
  <2>1. Count(records, kind, n) \in Nat
    BY CountNext
  <2>2. n + 0 = n
    OBVIOUS
  <2> QED BY <2>1, <2>2
<1>2. ASSUME NEW k \in Nat, k \in F PROVE k + 1 \in F
  <2> SUFFICES ASSUME n + (k + 1) <= Len(records)
               PROVE  /\ Count(records, kind, n + (k + 1)) = Count(records, kind, n) + (k + 1)
                      /\ Count(records, other, n + (k + 1)) = Count(records, other, n)
    OBVIOUS
  <2> DEFINE m == n + k
  <2>1. m \in Nat /\ m <= Len(records) /\ m + 1 <= Len(records) /\ n + (k + 1) = m + 1
        /\ m + 1 \in n + 1 .. Len(records)
    BY <1>0
  <2>2. Count(records, kind, m) = Count(records, kind, n) + k
        /\ Count(records, other, m) = Count(records, other, n)
    BY <1>2, <2>1
  <2>3. records[m + 1].kind = kind
    BY <2>1 DEF AllFrom
  <2> HIDE DEF m
  <2>4. Count(records, kind, m + 1)
          = Count(records, kind, m) + (IF records[m + 1].kind = kind THEN 1 ELSE 0)
    BY <2>1, CountNext
  <2>5. Count(records, other, m + 1)
          = Count(records, other, m) + (IF records[m + 1].kind = other THEN 1 ELSE 0)
    BY <2>1, CountNext
  <2>6. Count(records, kind, n) \in Nat /\ Count(records, other, n) \in Nat
    BY CountNext
  <2>7. Count(records, kind, m + 1) = Count(records, kind, m) + 1
    BY <2>3, <2>4
  <2>8. Count(records, other, m + 1) = Count(records, other, m) + 0
    BY <2>3, <2>5
  <2>9. Count(records, kind, m + 1) = Count(records, kind, n) + (k + 1)
        /\ Count(records, other, m + 1) = Count(records, other, n)
    <3> HIDE DEF F
    <3> QED BY <2>2, <2>6, <2>7, <2>8
  <2> QED BY <2>1, <2>9
<1>3. Nat \subseteq F
  <2> HIDE DEF F
  <2> QED BY <1>1, <1>2, NatSteps
<1>4. ASSUME NEW i \in n .. Len(records)
      PROVE  /\ Count(records, kind, i) = Count(records, kind, n) + (i - n)
             /\ Count(records, other, i) = Count(records, other, n)
  <2>1. i - n \in Nat /\ n + (i - n) = i /\ i <= Len(records)
    BY <1>0
  <2>2. i - n \in F
    BY <1>3, <2>1
  <2> QED BY <2>1, <2>2
<1> QED BY <1>4 DEF CountsRun

-----------------------------------------------------------------------------
(* What both processes go through.  A moment of matching is a plain book,  *)
(* the slot in match() or NoSlot, how many orders have been taken, and all *)
(* the trades made.  A moment decides the next one, but for the order that *)
(* is taken next.                                                          *)
TradeRecords == [aggressive : Ids, passive : Ids, price : Prices, qty : Quantities]
OrderFrames == [kind : {"order"}, id : Ids, side : Sides, price : Prices, qty : Quantities]
TradeFrames == [kind : {"trade"}, trade : TradeRecords]

Framed(r) == [id |-> r.id, side |-> r.side, price |-> r.price, rem |-> r.qty, state |-> "New"]

Moment(b, at, taken, trades) == [book |-> b, at |-> at, taken |-> taken, made |-> trades]
FirstMoment == Moment(Plain(EmptyBook), NoSlot, 0, <<>>)

AfterTaking(m, r) ==
    Moment(Construct(m.book, Framed(r)), NextSlot(m.book), m.taken + 1, m.made)
AfterTrading(m) ==
    Moment(Fill(m.book, m.at), m.at, m.taken, Append(m.made, TradeOf(m.book, m.at)))
AfterEnding(m) == Moment(Finish(m.book, m.at), NoSlot, m.taken, m.made)

Begins(s, t) == Len(s) <= Len(t) /\ \A i \in 1 .. Len(s) : s[i] = t[i]

(* C has the moment after m, os being the orders. *)
Leads(C, m, os) ==
    /\ m.at = NoSlot =>
           /\ m.taken < Len(os) /\ ~ Exhausted(m.book)
           /\ AfterTaking(m, os[m.taken + 1]) \in C
    /\ m.at # NoSlot /\ CanFill(m.book, m.at) => AfterTrading(m) \in C
    /\ m.at # NoSlot /\ ~ CanFill(m.book, m.at) => AfterEnding(m) \in C

(* The moments of C are those of a process that took the orders os and is  *)
(* at last.                                                                *)
Course(C, last, os) ==
    /\ os \in Seq(OrderFrames)
    /\ FirstMoment \in C /\ last \in C /\ last.taken = Len(os)
    /\ \A m \in C : m.taken \in 0 .. Len(os) /\ m.made \in Seq(TradeRecords)
    /\ \A m \in C : Begins(m.made, last.made)
    /\ \A m \in C \ {last} : Leads(C, m, os)
    /\ \A m, n \in C : n.at = NoSlot /\ m.taken <= n.taken => Begins(m.made, n.made)

LEMMA MomentFields ==
    ASSUME NEW b, NEW at, NEW taken, NEW trades
    PROVE  /\ Moment(b, at, taken, trades).book = b
           /\ Moment(b, at, taken, trades).at = at
           /\ Moment(b, at, taken, trades).taken = taken
           /\ Moment(b, at, taken, trades).made = trades
  BY DEF Moment

LEMMA BeginsFacts ==
    ASSUME NEW T, NEW s \in Seq(T), NEW t \in Seq(T), Begins(s, t)
    PROVE  /\ \A u \in Seq(T) : Begins(t, u) => Begins(s, u)
           /\ \A x \in T : Begins(s, Append(t, x)) /\ Begins(t, Append(t, x))
           /\ Begins(s, s) /\ Begins(t, t)
<1>1. Len(s) \in Nat /\ Len(t) \in Nat /\ Len(s) <= Len(t)
  BY DEF Begins
<1>2. \A i \in 1 .. Len(s) : s[i] = t[i]
  BY DEF Begins
<1>3. ASSUME NEW u \in Seq(T), Begins(t, u) PROVE Begins(s, u)
  <2>1. Len(u) \in Nat /\ Len(t) <= Len(u) /\ \A i \in 1 .. Len(t) : t[i] = u[i]
    BY <1>3 DEF Begins
  <2>2. ASSUME NEW i \in 1 .. Len(s) PROVE s[i] = u[i]
    <3>1. i \in 1 .. Len(t)
      BY <1>1
    <3> QED BY <1>2, <2>1, <3>1
  <2>3. Len(s) <= Len(u)
    BY <1>1, <2>1
  <2> QED BY <2>2, <2>3 DEF Begins
<1>4. ASSUME NEW x \in T PROVE Begins(t, Append(t, x)) /\ Begins(s, Append(t, x))
  <2>1. /\ Append(t, x) \in Seq(T) /\ Len(Append(t, x)) = Len(t) + 1
        /\ \A i \in 1 .. Len(t) : Append(t, x)[i] = t[i]
    OBVIOUS
  <2>2. Begins(t, Append(t, x))
    BY <1>1, <2>1 DEF Begins
  <2> QED BY <1>3, <2>1, <2>2
<1>5. Begins(s, s) /\ Begins(t, t)
  BY <1>1 DEF Begins
<1> QED BY <1>3, <1>4, <1>5

LEMMA CourseStart == Course({FirstMoment}, FirstMoment, <<>>)
<1>1. /\ FirstMoment.taken = 0 /\ FirstMoment.made = <<>> /\ FirstMoment.at = NoSlot
  BY MomentFields DEF FirstMoment
<1>2. <<>> \in Seq(OrderFrames) /\ <<>> \in Seq(TradeRecords) /\ Len(<<>>) = 0
  OBVIOUS
<1>3. Begins(<<>>, <<>>)
  BY <1>2 DEF Begins
<1>4. 0 \in 0 .. 0
  OBVIOUS
<1> DEFINE s == FirstMoment
<1> HIDE DEF s
<1>5. /\ \A m \in {s} : m.taken \in 0 .. 0 /\ m.made \in Seq(TradeRecords)
      /\ \A m \in {s} : Begins(m.made, s.made)
      /\ \A m, n \in {s} : Begins(m.made, n.made)
  BY <1>1, <1>2, <1>3, <1>4 DEF s
<1>6. {s} \ {s} = {}
  OBVIOUS
<1>7. Course({s}, s, <<>>)
  BY <1>1, <1>2, <1>5, <1>6 DEF Course, s
<1> QED BY <1>7 DEF s

LEMMA TakingExtends ==
    ASSUME NEW C, NEW last, NEW os, Course(C, last, os), last.at = NoSlot,
           ~ Exhausted(last.book), NextSlot(last.book) # NoSlot, NEW r \in OrderFrames
    PROVE  Course(C \cup {AfterTaking(last, r)}, AfterTaking(last, r), Append(os, r))
<1> DEFINE next == AfterTaking(last, r)
           D == C \cup {next}
           more == Append(os, r)
<1>1. /\ os \in Seq(OrderFrames) /\ FirstMoment \in C /\ last \in C /\ last.taken = Len(os)
      /\ \A m \in C : m.taken \in 0 .. Len(os) /\ m.made \in Seq(TradeRecords)
      /\ \A m \in C : Begins(m.made, last.made)
      /\ \A m \in C \ {last} : Leads(C, m, os)
      /\ \A m, n \in C : n.at = NoSlot /\ m.taken <= n.taken => Begins(m.made, n.made)
  BY DEF Course
<1>2. /\ next.at # NoSlot /\ next.taken = last.taken + 1 /\ next.made = last.made
  BY MomentFields DEF AfterTaking
<1>3. /\ more \in Seq(OrderFrames) /\ Len(more) = Len(os) + 1 /\ more[Len(os) + 1] = r
      /\ \A i \in 1 .. Len(os) : more[i] = os[i]
      /\ Len(os) \in Nat
  BY <1>1
<1>4. next \in D /\ C \subseteq D /\ FirstMoment \in D
  BY <1>1
<1>5. AfterTaking(last, r) = next
  OBVIOUS
<1> HIDE DEF next, more
<1>6. next.taken = Len(more)
  BY <1>1, <1>2, <1>3
<1>7. ASSUME NEW m \in D PROVE m.taken \in 0 .. Len(more) /\ m.made \in Seq(TradeRecords)
  <2>1. CASE m = next
    BY <1>1, <1>2, <1>3, <1>6, <2>1
  <2>2. CASE m \in C
    <3>1. m.taken \in 0 .. Len(os) /\ m.made \in Seq(TradeRecords)
      BY <1>1, <2>2
    <3> QED BY <1>3, <3>1
  <2> QED BY <2>1, <2>2
<1>8. ASSUME NEW m \in D PROVE Begins(m.made, next.made)
  <2>1. Begins(last.made, last.made)
    BY <1>1
  <2> QED BY <1>1, <1>2, <2>1
<1>9. ASSUME NEW m \in D \ {next} PROVE Leads(D, m, more)
  <2>1. CASE m = last
    <3>1. m.taken < Len(more) /\ more[m.taken + 1] = r
      BY <1>1, <1>3, <2>1
    <3> QED BY <1>4, <1>5, <2>1, <3>1 DEF Leads
  <2>2. CASE m # last
    <3>1. m \in C /\ Leads(C, m, os) /\ m.taken \in 0 .. Len(os)
      BY <1>1, <2>2
    <3>2. m.at = NoSlot => m.taken < Len(os) /\ m.taken + 1 \in 1 .. Len(os)
      BY <1>3, <3>1 DEF Leads
    <3>3. m.at = NoSlot => m.taken < Len(more) /\ more[m.taken + 1] = os[m.taken + 1]
      BY <1>3, <3>1, <3>2
    <3> HIDE DEF D
    <3> QED BY <1>4, <3>1, <3>3 DEF Leads
  <2> QED BY <2>1, <2>2
<1>10. ASSUME NEW m \in D, NEW n \in D, n.at = NoSlot, m.taken <= n.taken
       PROVE  Begins(m.made, n.made)
  <2>1. n \in C /\ n.taken \in 0 .. Len(os)
    BY <1>1, <1>2, <1>10
  <2>2. m # next
    BY <1>1, <1>2, <1>3, <1>10, <2>1
  <2> QED BY <1>1, <1>10, <2>1, <2>2
<1> HIDE DEF D
<1>11. Course(D, next, more)
  BY <1>3, <1>4, <1>6, <1>7, <1>8, <1>9, <1>10 DEF Course
<1> QED BY <1>11 DEF D, next, more

(* The last moment is in a match: what follows it is the same course. *)
LEMMA MatchExtends ==
    ASSUME NEW C, NEW last, NEW os, Course(C, last, os), last.at # NoSlot, NEW next,
           \/ /\ CanFill(last.book, last.at) /\ next = AfterTrading(last)
              /\ TradeOf(last.book, last.at) \in TradeRecords
           \/ /\ ~ CanFill(last.book, last.at) /\ next = AfterEnding(last)
    PROVE  /\ Course(C \cup {next}, next, os)
           /\ \A m \in C : m.at = NoSlot => m.taken < Len(os)
<1> DEFINE D == C \cup {next}
<1>1. /\ os \in Seq(OrderFrames) /\ FirstMoment \in C /\ last \in C /\ last.taken = Len(os)
      /\ \A m \in C : m.taken \in 0 .. Len(os) /\ m.made \in Seq(TradeRecords)
      /\ \A m \in C : Begins(m.made, last.made)
      /\ \A m \in C \ {last} : Leads(C, m, os)
      /\ \A m, n \in C : n.at = NoSlot /\ m.taken <= n.taken => Begins(m.made, n.made)
  BY DEF Course
<1>2. /\ next.taken = last.taken
      /\ \/ next.made = last.made
         \/ /\ TradeOf(last.book, last.at) \in TradeRecords
            /\ next.made = Append(last.made, TradeOf(last.book, last.at))
  <2>1. ASSUME next = AfterTrading(last)
        PROVE  next.taken = last.taken /\ next.made = Append(last.made, TradeOf(last.book, last.at))
    BY <2>1 DEF AfterTrading, Moment
  <2>2. ASSUME next = AfterEnding(last)
        PROVE  next.taken = last.taken /\ next.made = last.made
    BY <2>2 DEF AfterEnding, Moment
  <2> QED BY <2>1, <2>2
<1>3. next \in D /\ C \subseteq D /\ FirstMoment \in D /\ Len(os) \in Nat
  BY <1>1
<1>4. next.made \in Seq(TradeRecords) /\ Begins(last.made, next.made)
      /\ \A m \in C : Begins(m.made, next.made)
  <2>1. last.made \in Seq(TradeRecords) /\ Begins(last.made, last.made)
    BY <1>1
  <2>2. next.made \in Seq(TradeRecords) /\ Begins(last.made, next.made)
    <3> DEFINE x == TradeOf(last.book, last.at)
    <3>1. CASE next.made = last.made
      BY <2>1, <3>1
    <3>2. CASE x \in TradeRecords /\ next.made = Append(last.made, x)
      <4> HIDE DEF x
      <4>1. Append(last.made, x) \in Seq(TradeRecords)
        BY <2>1, <3>2
      <4>2. Begins(last.made, Append(last.made, x))
        BY <2>1, <3>2, BeginsFacts
      <4> QED BY <3>2, <4>1, <4>2
    <3> QED BY <1>2, <3>1, <3>2
  <2>3. ASSUME NEW m \in C PROVE Begins(m.made, next.made)
    <3>1. m.made \in Seq(TradeRecords) /\ Begins(m.made, last.made)
      BY <1>1
    <3> QED BY <2>1, <2>2, <3>1, BeginsFacts
  <2> QED BY <2>2, <2>3
<1>5. ASSUME NEW m \in C, m.at = NoSlot PROVE m.taken < Len(os)
  <2>1. m # last /\ Leads(C, m, os)
    BY <1>1, <1>5
  <2> QED BY <1>5, <2>1 DEF Leads
<1>6. ASSUME NEW m \in D PROVE m.taken \in 0 .. Len(os) /\ m.made \in Seq(TradeRecords)
  BY <1>1, <1>2, <1>3, <1>4
<1>7. ASSUME NEW m \in D PROVE Begins(m.made, next.made)
  <2>1. Begins(next.made, next.made)
    BY <1>1, <1>4, BeginsFacts
  <2> QED BY <1>4, <2>1
<1>8. ASSUME NEW m \in D \ {next} PROVE Leads(D, m, os)
  <2>1. CASE m = last
    BY <1>3, <2>1 DEF Leads
  <2>2. CASE m # last
    <3>1. m \in C /\ Leads(C, m, os)
      BY <1>1, <2>2
    <3> HIDE DEF D
    <3> QED BY <1>3, <3>1 DEF Leads
  <2> QED BY <2>1, <2>2
<1>9. ASSUME NEW m \in D, NEW n \in D, n.at = NoSlot, m.taken <= n.taken
      PROVE  Begins(m.made, n.made)
  <2>1. CASE n = next
    BY <1>7, <2>1
  <2>2. CASE n \in C
    <3>1. n.taken < Len(os) /\ n.taken \in 0 .. Len(os)
      BY <1>1, <1>5, <1>9, <2>2
    <3>2. m # next
      BY <1>1, <1>2, <1>3, <1>9, <3>1
    <3> QED BY <1>1, <1>9, <2>2, <3>2
  <2> QED BY <2>1, <2>2
<1> HIDE DEF D
<1>10. Course(D, next, os)
  BY <1>1, <1>2, <1>3, <1>6, <1>7, <1>8, <1>9 DEF Course
<1> QED BY <1>5, <1>10 DEF D

-----------------------------------------------------------------------------
(* The records, against the course.                                        *)
Frames == OrderFrames \cup TradeFrames

(* The order records are the orders taken, from the first. *)
SameOrders(records, os) ==
    \A i \in DOMAIN records : records[i].kind = "order" =>
        /\ Count(records, "order", i) \in DOMAIN os
        /\ os[Count(records, "order", i)] = records[i]

(* A trade on record was made by the end of the matches of the orders that *)
(* are on record before it.                                                *)
SeenBy(records, i, m) ==
    /\ m.at = NoSlot /\ m.taken <= Count(records, "order", i)
    /\ Count(records, "trade", i) \in DOMAIN m.made
    /\ m.made[Count(records, "trade", i)] = records[i].trade

SeenTrades(records, C) ==
    \A i \in DOMAIN records : records[i].kind = "trade" => \E m \in C : SeenBy(records, i, m)

LEMMA FrameKinds ==
    ASSUME NEW records \in Seq(Frames), NEW i \in 1 .. Len(records)
    PROVE  /\ records[i].kind \in {"order", "trade"}
           /\ records[i].kind = "order" => records[i] \in OrderFrames
           /\ records[i].kind = "trade" => records[i].trade \in TradeRecords
<1>1. records[i] \in Frames
  OBVIOUS
<1> QED BY <1>1 DEF Frames, OrderFrames, TradeFrames

(* What holds of the records that two journals share. *)
Shares(r, t, n) == n <= Len(r) /\ n <= Len(t) /\ \A i \in 1 .. n : r[i] = t[i]

OnRecord(records, i, os, C) ==
    /\ records[i].kind = "order" => /\ Count(records, "order", i) \in DOMAIN os
                                    /\ os[Count(records, "order", i)] = records[i]
    /\ records[i].kind = "trade" => \E m \in C : SeenBy(records, i, m)

LEMMA SharedRecords ==
    ASSUME NEW r \in Seq(Frames), NEW t \in Seq(Frames), NEW n \in Nat, Shares(r, t, n),
           NEW os, NEW C, SameOrders(r, os), SeenTrades(r, C)
    PROVE  /\ \A i \in 1 .. n : OnRecord(t, i, os, C)
           /\ \A i \in 0 .. n : /\ Count(t, "order", i) = Count(r, "order", i)
                                /\ Count(t, "trade", i) = Count(r, "trade", i)
<1>1. ASSUME NEW i \in 0 .. n
      PROVE  /\ Count(t, "order", i) = Count(r, "order", i)
             /\ Count(t, "trade", i) = Count(r, "trade", i)
  <2>1. i \in Nat /\ \A j \in 1 .. i : t[j] = r[j]
    BY DEF Shares
  <2> QED BY <2>1, CountAgrees
<1>2. ASSUME NEW i \in 1 .. n PROVE OnRecord(t, i, os, C)
  <2>1. i \in 0 .. n /\ r[i] = t[i] /\ i \in DOMAIN r
    BY DEF Shares
  <2>2. /\ Count(t, "order", i) = Count(r, "order", i)
        /\ Count(t, "trade", i) = Count(r, "trade", i)
    BY <1>1, <2>1
  <2>3. r[i].kind = "order" => /\ Count(r, "order", i) \in DOMAIN os
                               /\ os[Count(r, "order", i)] = r[i]
    BY <2>1 DEF SameOrders
  <2>4. r[i].kind = "trade" => \E m \in C : SeenBy(r, i, m)
    BY <2>1 DEF SeenTrades
  <2>5. \A m : SeenBy(r, i, m) <=> SeenBy(t, i, m)
    BY <2>1, <2>2 DEF SeenBy
  <2> QED BY <2>1, <2>2, <2>3, <2>4, <2>5 DEF OnRecord
<1> QED BY <1>1, <1>2

LEMMA OrderOnRecord ==
    ASSUME NEW records \in Seq(Frames), NEW r \in OrderFrames, NEW os \in Seq(OrderFrames),
           Count(records, "order", Len(records)) = Len(os),
           NEW C, SameOrders(records, os), SeenTrades(records, C)
    PROVE  LET more == Append(records, r)
           IN  /\ more \in Seq(Frames)
               /\ SameOrders(more, Append(os, r)) /\ SeenTrades(more, C)
               /\ Count(more, "order", Len(more)) = Len(os) + 1
               /\ Count(more, "trade", Len(more)) = Count(records, "trade", Len(records))
<1> DEFINE n == Len(records)
           more == Append(records, r)
<1>1. /\ n \in Nat /\ r \in Frames /\ more \in Seq(Frames) /\ Len(more) = n + 1
      /\ more[n + 1] = r /\ \A i \in 1 .. n : more[i] = records[i]
  BY DEF Frames
<1>2. r.kind = "order"
  BY DEF OrderFrames
<1> HIDE DEF n, more
<1>3. Count(more, "order", n) = Count(records, "order", n)
      /\ Count(more, "trade", n) = Count(records, "trade", n)
  BY <1>1, CountAgrees
<1>15. n \in Nat /\ n <= Len(more) /\ n + 1 <= Len(more)
  BY <1>1
<1>4. /\ Count(more, "order", n + 1)
           = Count(more, "order", n) + (IF more[n + 1].kind = "order" THEN 1 ELSE 0)
      /\ Count(more, "trade", n + 1)
           = Count(more, "trade", n) + (IF more[n + 1].kind = "trade" THEN 1 ELSE 0)
      /\ Count(more, "trade", n) \in 0 .. n
  BY <1>1, <1>15, CountNext
<1>5. Count(more, "order", n + 1) = Len(os) + 1
  BY <1>1, <1>2, <1>3, <1>4 DEF n
<1>6. Count(more, "trade", n + 1) = Count(records, "trade", n)
  <2>1. Count(more, "trade", n + 1) = Count(more, "trade", n) + 0
    BY <1>1, <1>2, <1>4
  <2> QED BY <1>3, <1>4, <2>1
<1>7. /\ Append(os, r) \in Seq(OrderFrames) /\ Len(Append(os, r)) = Len(os) + 1
      /\ Append(os, r)[Len(os) + 1] = r /\ \A i \in 1 .. Len(os) : Append(os, r)[i] = os[i]
      /\ Len(os) \in Nat
  OBVIOUS
<1>8. Shares(records, more, n)
  BY <1>1 DEF n, Shares
<1>9. \A i \in 1 .. n : OnRecord(more, i, os, C)
  BY <1>1, <1>8, SharedRecords
<1>10. ASSUME NEW i \in DOMAIN more, more[i].kind = "order"
       PROVE  /\ Count(more, "order", i) \in DOMAIN Append(os, r)
              /\ Append(os, r)[Count(more, "order", i)] = more[i]
  <2>1. CASE i = n + 1
    <3>1. Len(os) + 1 \in DOMAIN Append(os, r)
      BY <1>7
    <3> QED BY <1>1, <1>5, <1>7, <2>1, <3>1
  <2>2. CASE i # n + 1
    <3>1. i \in 1 .. n
      BY <1>1, <2>2
    <3>2. Count(more, "order", i) \in DOMAIN os /\ os[Count(more, "order", i)] = more[i]
      BY <1>9, <1>10, <3>1 DEF OnRecord
    <3>3. Count(more, "order", i) \in 1 .. Len(os)
      BY <3>2
    <3>4. Count(more, "order", i) \in DOMAIN Append(os, r)
      BY <1>7, <3>3
    <3> QED BY <1>7, <3>2, <3>3, <3>4
  <2> QED BY <2>1, <2>2
<1>11. ASSUME NEW i \in DOMAIN more, more[i].kind = "trade"
       PROVE  \E m \in C : SeenBy(more, i, m)
  <2>1. i \in 1 .. n
    <3>1. i \in 1 .. n + 1 /\ i # n + 1
      BY <1>1, <1>2, <1>11
    <3> QED BY <1>1, <3>1
  <2> QED BY <1>9, <1>11, <2>1 DEF OnRecord
<1> QED BY <1>1, <1>5, <1>6, <1>10, <1>11 DEF SameOrders, SeenTrades, n, more

EndsWith(long, n, short) ==
    Len(long) = n + Len(short) /\ \A j \in 1 .. Len(short) : long[n + j] = short[j]

(* The trades of a match are journaled at its end, the moment m. *)
LEMMA TradesOnRecord ==
    ASSUME NEW records \in Seq(Frames), NEW trades \in Seq(TradeRecords),
           NEW os, NEW C, SameOrders(records, os), SeenTrades(records, C),
           NEW m, m.at = NoSlot, m.taken = Count(records, "order", Len(records)),
           m.made \in Seq(TradeRecords),
           EndsWith(m.made, Count(records, "trade", Len(records)), trades)
    PROVE  LET more == records \o EncodeTrades(trades)
           IN  /\ more \in Seq(Frames)
               /\ SameOrders(more, os) /\ SeenTrades(more, C \cup {m})
               /\ Count(more, "order", Len(more)) = Count(records, "order", Len(records))
               /\ Count(more, "trade", Len(more)) = Len(m.made)
<1> DEFINE more == records \o EncodeTrades(trades)
<1> DEFINE n == Len(records)
           framed == EncodeTrades(trades)
           before == Count(records, "trade", n)
<1>1. /\ framed \in Seq(Frames) /\ Len(framed) = Len(trades)
      /\ \A j \in 1 .. Len(trades) : /\ framed[j].kind = "trade" /\ framed[j].trade = trades[j]
  <2>1. /\ framed = [i \in 1 .. Len(trades) |-> [kind |-> "trade", trade |-> trades[i]]]
    BY DEF EncodeTrades
  <2>2. ASSUME NEW i \in 1 .. Len(trades)
        PROVE  /\ [kind |-> "trade", trade |-> trades[i]] \in Frames
               /\ [kind |-> "trade", trade |-> trades[i]].kind = "trade"
               /\ [kind |-> "trade", trade |-> trades[i]].trade = trades[i]
    <3>1. trades[i] \in TradeRecords
      OBVIOUS
    <3> QED BY <3>1 DEF Frames, TradeFrames
  <2>3. Len(trades) \in Nat
    OBVIOUS
  <2> HIDE DEF framed
  <2> QED BY <2>1, <2>2, <2>3
<1> HIDE DEF framed
<1>2. /\ more = records \o framed
  BY DEF framed
<1> HIDE DEF more
<1>3. /\ n \in Nat /\ Len(trades) \in Nat /\ more \in Seq(Frames)
      /\ Len(more) = n + Len(trades)
      /\ \A i \in 1 .. n : more[i] = records[i]
      /\ \A i \in n + 1 .. Len(more) : more[i] = framed[i - n]
  <2>1. framed \in Seq(Frames) /\ Len(framed) = Len(trades)
    BY <1>1
  <2>2. /\ records \o framed \in Seq(Frames)
        /\ Len(records \o framed) = n + Len(framed)
        /\ \A i \in 1 .. n + Len(framed) :
               (records \o framed)[i] = IF i <= n THEN records[i] ELSE framed[i - n]
    <3> DEFINE a == records
               b == framed
    <3>1. a \in Seq(Frames) /\ b \in Seq(Frames)
      BY <2>1
    <3> HIDE DEF a, b
    <3>2. /\ a \o b \in Seq(Frames) /\ Len(a \o b) = Len(a) + Len(b)
          /\ \A i \in 1 .. Len(a) + Len(b) :
                 (a \o b)[i] = IF i <= Len(a) THEN a[i] ELSE b[i - Len(a)]
      BY <3>1, ConcatProperties
    <3> QED BY <3>2 DEF a, b
  <2>3. n \in Nat /\ Len(framed) \in Nat
    BY <2>1
  <2> HIDE DEF n
  <2>4. \A i \in 1 .. n : i \in 1 .. n + Len(framed) /\ i <= n
    BY <2>3
  <2>5. \A i \in n + 1 .. n + Len(framed) : i \in 1 .. n + Len(framed) /\ ~ (i <= n)
    BY <2>3
  <2> QED BY <1>2, <2>1, <2>2, <2>3, <2>4, <2>5
<1>4. ASSUME NEW i \in n + 1 .. Len(more)
      PROVE  /\ i - n \in 1 .. Len(trades) /\ more[i].kind = "trade"
             /\ more[i].trade = trades[i - n]
  <2>1. i - n \in 1 .. Len(trades)
    BY <1>3
  <2>2. more[i] = framed[i - n]
    BY <1>3
  <2> QED BY <1>1, <2>1, <2>2
<1> HIDE DEF n
<1>5. n <= Len(records) /\ n <= Len(more) /\ Shares(records, more, n)
  BY <1>3 DEF n, Shares
<1>6. /\ Count(more, "order", n) = Count(records, "order", n)
      /\ Count(more, "trade", n) = before
  BY <1>3, CountAgrees
<1>7. CountsRun(more, "trade", "order", n)
  <2>1. "order" # "trade" /\ AllFrom(more, n, "trade")
    BY <1>4 DEF AllFrom
  <2>2. n \in Nat /\ n <= Len(more) /\ more \in Seq(Frames)
    BY <1>3, <1>5
  <2> QED BY <2>1, <2>2, CountRun
<1>8. before \in Nat
  <2>1. n \in Nat /\ n <= Len(records)
    BY <1>3, <1>5
  <2>2. Count(records, "trade", n) \in 0 .. n
    BY <2>1, CountNext
  <2> QED BY <2>1, <2>2
<1> HIDE DEF before
<1>9. ASSUME NEW i \in n + 1 .. Len(more) PROVE SeenBy(more, i, m)
  <2>1. i \in n .. Len(more) /\ i - n \in 1 .. Len(trades)
    BY <1>3, <1>4
  <2>2. Count(more, "trade", i) = before + (i - n)
        /\ Count(more, "order", i) = Count(records, "order", n)
    BY <1>6, <1>7, <2>1 DEF CountsRun
  <2>3. m.taken <= Count(more, "order", i)
    <3>1. Count(records, "order", n) \in Nat
      <4>1. n \in Nat /\ n <= Len(records)
        BY <1>3, <1>5
      <4>2. Count(records, "order", n) \in 0 .. n
        BY <4>1, CountNext
      <4> QED BY <4>1, <4>2
    <3>2. m.taken = Count(records, "order", n)
      BY DEF n
    <3> QED BY <2>2, <3>1, <3>2
  <2>4. Len(m.made) = before + Len(trades)
    BY DEF before, n, EndsWith
  <2>5. before + (i - n) \in 1 .. Len(m.made)
    <3>1. \A a, b \in Nat : \A c \in 1 .. b : a + c \in 1 .. a + b
      OBVIOUS
    <3> QED BY <1>3, <1>8, <2>1, <2>4, <3>1
  <2>6. m.made[before + (i - n)] = trades[i - n]
    BY <2>1 DEF before, n, EndsWith
  <2>7. Count(more, "trade", i) \in DOMAIN m.made
    BY <2>2, <2>5
  <2>8. m.made[Count(more, "trade", i)] = more[i].trade
    BY <1>4, <2>2, <2>6
  <2> QED BY <2>3, <2>7, <2>8 DEF SeenBy
<1>10. \A i \in 1 .. n : OnRecord(more, i, os, C)
  BY <1>3, <1>5, SharedRecords
<1>11. \A i \in DOMAIN more : i \in 1 .. n \/ i \in n + 1 .. Len(more)
  BY <1>3
<1>12. SameOrders(more, os)
  BY <1>4, <1>10, <1>11 DEF SameOrders, OnRecord
<1>13. SeenTrades(more, C \cup {m})
  BY <1>9, <1>10, <1>11 DEF SeenTrades, OnRecord
<1>14. Count(more, "order", Len(more)) = Count(records, "order", n)
       /\ Count(more, "trade", Len(more)) = Len(m.made)
  <2>1. Len(more) \in n .. Len(more) /\ Len(more) - n = Len(trades)
    BY <1>3
  <2>2. Count(more, "trade", Len(more)) = before + Len(trades)
        /\ Count(more, "order", Len(more)) = Count(records, "order", n)
    BY <1>6, <1>7, <2>1 DEF CountsRun
  <2> QED BY <2>2 DEF before, n, EndsWith
<1> QED BY <1>3, <1>12, <1>13, <1>14 DEF n, more

LEMMA CutShort ==
    ASSUME NEW records \in Seq(Frames), NEW n \in 0 .. Len(records),
           NEW os, NEW C, SameOrders(records, os), SeenTrades(records, C)
    PROVE  LET less == SubSeq(records, 1, n)
           IN  /\ less \in Seq(Frames) /\ SameOrders(less, os) /\ SeenTrades(less, C)
               /\ Count(less, "order", Len(less)) <= Count(records, "order", Len(records))
<1> DEFINE less == SubSeq(records, 1, n)
<1>1. /\ n \in Nat /\ Len(records) \in Nat /\ n <= Len(records)
      /\ less \in Seq(Frames) /\ Len(less) = n /\ \A i \in 1 .. n : records[i] = less[i]
  OBVIOUS
<1> HIDE DEF less
<1>2. Shares(records, less, n) /\ DOMAIN less = 1 .. n /\ n \in 0 .. n
  BY <1>1 DEF Shares
<1>3. \A i \in 1 .. n : OnRecord(less, i, os, C)
  BY <1>1, <1>2, SharedRecords
<1>4. Count(less, "order", n) = Count(records, "order", n)
  BY <1>1, <1>2, SharedRecords
<1>5. Count(records, "order", n) <= Count(records, "order", Len(records))
  <2>1. Len(records) <= Len(records)
    BY <1>1
  <2> QED BY <1>1, <2>1, CountGrows
<1> QED BY <1>1, <1>2, <1>3, <1>4, <1>5 DEF SameOrders, SeenTrades, OnRecord, less

(* What rested after each order is on record too. *)
Remembered(hist, C) ==
    \A m \in C : m.at = NoSlot /\ m.taken \in DOMAIN hist => Depth(m.book) = hist[m.taken]

Traced(C, last, os, S, records, hist) ==
    /\ Course(C, last, os)
    /\ Count(records, "order", Len(records)) <= Len(os)
    /\ SameOrders(records, os) /\ SeenTrades(records, C)
    /\ hist \in Seq(S) /\ Len(hist) <= Len(os) /\ Remembered(hist, C)
    /\ last.at # NoSlot => Len(hist) < Len(os)

LEMMA SeenByMore ==
    ASSUME NEW records, NEW C, NEW D, C \subseteq D, SeenTrades(records, C)
    PROVE  SeenTrades(records, D)
  BY DEF SeenTrades

(* The process takes an order and puts it on record. *)
LEMMA TracedTaking ==
    ASSUME NEW C, NEW last, NEW os, NEW S, NEW records \in Seq(Frames), NEW hist,
           Traced(C, last, os, S, records, hist),
           last.at = NoSlot, ~ Exhausted(last.book), NextSlot(last.book) # NoSlot,
           Count(records, "order", Len(records)) = Len(os),
           NEW r \in OrderFrames
    PROVE  LET more == Append(records, r)
               next == AfterTaking(last, r)
           IN  /\ Traced(C \cup {next}, next, Append(os, r), S, more, hist)
               /\ more \in Seq(Frames)
               /\ Count(more, "order", Len(more)) = Len(os) + 1
               /\ Count(more, "trade", Len(more)) = Count(records, "trade", Len(records))
               /\ Len(Append(os, r)) = Len(os) + 1 /\ Len(os) \in Nat
<1> DEFINE next == AfterTaking(last, r)
           D == C \cup {next}
           longer == Append(os, r)
           more == Append(records, r)
<1>1. /\ Course(C, last, os) /\ SameOrders(records, os) /\ SeenTrades(records, C)
      /\ hist \in Seq(S) /\ Len(hist) <= Len(os) /\ Remembered(hist, C)
      /\ os \in Seq(OrderFrames)
  BY DEF Traced, Course
<1>2. Course(D, next, longer)
  BY <1>1, TakingExtends
<1>3. next.at # NoSlot
  BY MomentFields DEF AfterTaking
<1>4. /\ Len(longer) = Len(os) + 1 /\ Len(os) \in Nat /\ Len(hist) \in Nat
  BY <1>1
<1>5. /\ more \in Seq(Frames)
      /\ SameOrders(more, longer) /\ SeenTrades(more, C)
      /\ Count(more, "order", Len(more)) = Len(os) + 1
      /\ Count(more, "trade", Len(more)) = Count(records, "trade", Len(records))
  BY <1>1, OrderOnRecord
<1>6. C \subseteq D
  OBVIOUS
<1> HIDE DEF next, more
<1>7. Remembered(hist, D)
  BY <1>1, <1>3 DEF Remembered
<1> HIDE DEF D, longer
<1>8. SeenTrades(more, D)
  BY <1>5, <1>6, SeenByMore
<1>9. Len(hist) < Len(longer) /\ Len(hist) <= Len(longer) /\ Len(os) + 1 <= Len(longer)
  BY <1>1, <1>4
<1>10. Traced(D, next, longer, S, more, hist)
  BY <1>1, <1>2, <1>5, <1>7, <1>8, <1>9 DEF Traced
<1> QED BY <1>4, <1>5, <1>10 DEF D, next, longer, more

(* The moment after m, which is in a match. *)
Follows(next, m) ==
    \/ /\ CanFill(m.book, m.at) /\ next = AfterTrading(m)
       /\ TradeOf(m.book, m.at) \in TradeRecords
    \/ /\ ~ CanFill(m.book, m.at) /\ next = AfterEnding(m)

LEMMA FollowsLast ==
    ASSUME NEW C, NEW last, NEW os, NEW S, NEW records, NEW hist,
           Traced(C, last, os, S, records, hist), last.at # NoSlot, NEW next,
           Follows(next, last)
    PROVE  /\ Course(C \cup {next}, next, os) /\ next.taken = Len(os)
           /\ SeenTrades(records, C \cup {next})
           /\ Remembered(hist, C \cup {next})
           /\ \A m \in C : m.at = NoSlot => m.taken < Len(os)
           /\ Len(hist) \in Nat /\ Len(os) \in Nat /\ Len(hist) < Len(os)
<1> DEFINE D == C \cup {next}
<1>1. /\ Course(C, last, os) /\ SeenTrades(records, C) /\ os \in Seq(OrderFrames)
      /\ hist \in Seq(S) /\ Len(hist) < Len(os) /\ Remembered(hist, C)
  BY DEF Traced, Course
<1>2. Course(D, next, os) /\ \A m \in C : m.at = NoSlot => m.taken < Len(os)
  BY <1>1, MatchExtends DEF Follows
<1>3. C \subseteq D
  OBVIOUS
<1>4. SeenTrades(records, D)
  <2> HIDE DEF D
  <2> QED BY <1>1, <1>3, SeenByMore
<1>5. next.taken = Len(os)
  BY <1>2 DEF Course
<1>6. Len(hist) \in Nat /\ Len(os) \in Nat /\ DOMAIN hist = 1 .. Len(hist)
  BY <1>1
<1>7. next.taken \notin DOMAIN hist
  BY <1>1, <1>5, <1>6
<1>8. Remembered(hist, D)
  BY <1>1, <1>7 DEF Remembered
<1> QED BY <1>1, <1>2, <1>4, <1>5, <1>6, <1>8

(* In replay: the moment after one of the course is one of a course that   *)
(* is as long or longer.                                                   *)
LEMMA TracedMatching ==
    ASSUME NEW C, NEW last, NEW os, NEW S, NEW records, NEW hist,
           Traced(C, last, os, S, records, hist),
           NEW m \in C, m.at # NoSlot, NEW next, Follows(next, m)
    PROVE  \E D, end : Traced(D, end, os, S, records, hist) /\ next \in D
<1>1. CASE m # last
  <2>1. Leads(C, m, os)
    BY <1>1 DEF Traced, Course
  <2>2. next \in C
    BY <2>1 DEF Leads, Follows
  <2> QED BY <2>2
<1>2. CASE m = last
  <2> DEFINE D == C \cup {next}
  <2>1. /\ Course(D, next, os) /\ SeenTrades(records, D) /\ Remembered(hist, D)
        /\ Len(hist) < Len(os)
    BY <1>2, FollowsLast
  <2>2. next \in D
    OBVIOUS
  <2> HIDE DEF D
  <2>3. Traced(D, next, os, S, records, hist)
    BY <2>1 DEF Traced
  <2> QED BY <2>2, <2>3
<1> QED BY <1>1, <1>2

(* The live process, at the end of a match. *)
TracedAtEnd(C, last, os, S, records, hist, trades) ==
    LET next == AfterEnding(last)
        more == records \o EncodeTrades(trades)
        x == Depth(next.book)
    IN  /\ Traced(C \cup {next}, next, os, S \cup {x}, more, Append(hist, x))
        /\ more \in Seq(Frames)
        /\ Count(more, "order", Len(more)) = Len(os)
        /\ Count(more, "trade", Len(more)) = Len(last.made)
        /\ Len(Append(hist, x)) = Len(os)

LEMMA TracedJournaling ==
    ASSUME NEW C, NEW last, NEW os, NEW S, NEW records \in Seq(Frames), NEW hist,
           Traced(C, last, os, S, records, hist), last.at # NoSlot,
           ~ CanFill(last.book, last.at),
           NEW trades \in Seq(TradeRecords),
           Count(records, "order", Len(records)) = Len(os),
           EndsWith(last.made, Count(records, "trade", Len(records)), trades),
           Len(hist) = Len(os) - 1
    PROVE  TracedAtEnd(C, last, os, S, records, hist, trades)
<1> DEFINE next == AfterEnding(last)
           D == C \cup {next}
           more == records \o EncodeTrades(trades)
           x == Depth(next.book)
           T == S \cup {x}
           longer == Append(hist, x)
<1>1. Follows(next, last)
  BY DEF Follows
<1>2. /\ Course(D, next, os) /\ next.taken = Len(os) /\ Remembered(hist, D)
      /\ (\A m \in C : m.at = NoSlot => m.taken < Len(os))
      /\ Len(hist) \in Nat /\ Len(os) \in Nat
  BY <1>1, FollowsLast
<1>3. next.at = NoSlot /\ next.made = last.made
  BY DEF AfterEnding, Moment
<1> HIDE DEF next
<1>4. /\ SameOrders(records, os) /\ SeenTrades(records, C) /\ hist \in Seq(S)
      /\ last \in C /\ last.made \in Seq(TradeRecords)
  BY DEF Traced, Course
<1>5. /\ more \in Seq(Frames) /\ SameOrders(more, os) /\ SeenTrades(more, D)
      /\ Count(more, "order", Len(more)) = Count(records, "order", Len(records))
      /\ Count(more, "trade", Len(more)) = Len(next.made)
  <2>1. /\ next.made \in Seq(TradeRecords)
        /\ next.taken = Count(records, "order", Len(records))
        /\ EndsWith(next.made, Count(records, "trade", Len(records)), trades)
    BY <1>2, <1>3, <1>4
  <2> QED BY <1>3, <1>4, <2>1, TradesOnRecord
<1> HIDE DEF more, x
<1>6. /\ longer \in Seq(T) /\ Len(longer) = Len(hist) + 1 /\ longer[Len(hist) + 1] = x
      /\ (\A i \in 1 .. Len(hist) : longer[i] = hist[i]) /\ DOMAIN longer = 1 .. Len(hist) + 1
      /\ DOMAIN hist = 1 .. Len(hist)
  <2>1. hist \in Seq(T) /\ x \in T
    BY <1>4
  <2> HIDE DEF T
  <2> QED BY <2>1
<1> HIDE DEF longer, T
<1>7. Len(hist) + 1 = Len(os)
  BY <1>2
<1>8. ASSUME NEW m \in D, m.at = NoSlot, m.taken \in DOMAIN longer
      PROVE  Depth(m.book) = longer[m.taken]
  <2>1. CASE m = next
    BY <1>2, <1>6, <1>7, <2>1 DEF x
  <2>2. CASE m \in C
    <3>1. m.taken < Len(hist) + 1 /\ m.taken \in 1 .. Len(hist) + 1
      BY <1>2, <1>6, <1>7, <1>8, <2>2
    <3>2. m.taken \in 1 .. Len(hist)
      BY <1>2, <3>1
    <3> QED BY <1>2, <1>6, <1>8, <3>2 DEF Remembered
  <2> QED BY <2>1, <2>2
<1> HIDE DEF D
<1>9. Remembered(longer, D)
  BY <1>8 DEF Remembered
<1>10. Len(longer) <= Len(os) /\ Count(more, "order", Len(more)) <= Len(os)
  BY <1>2, <1>5, <1>6, <1>7
<1>11. Traced(D, next, os, T, more, longer)
  BY <1>2, <1>3, <1>5, <1>6, <1>9, <1>10 DEF Traced
<1> QED BY <1>3, <1>5, <1>6, <1>7, <1>11 DEF D, T, longer, x, more, next, TracedAtEnd

LEMMA TracedCut ==
    ASSUME NEW C, NEW last, NEW os, NEW S, NEW records \in Seq(Frames), NEW hist,
           Traced(C, last, os, S, records, hist),
           NEW n \in 0 .. Len(records)
    PROVE  /\ SubSeq(records, 1, n) \in Seq(Frames)
           /\ Traced(C, last, os, S, SubSeq(records, 1, n), hist)
<1> DEFINE less == SubSeq(records, 1, n)
<1>1. /\ SameOrders(records, os) /\ SeenTrades(records, C) /\ os \in Seq(OrderFrames)
      /\ Count(records, "order", Len(records)) <= Len(os)
  BY DEF Traced, Course
<1>2. /\ less \in Seq(Frames) /\ SameOrders(less, os) /\ SeenTrades(less, C)
      /\ Count(less, "order", Len(less)) <= Count(records, "order", Len(records))
  BY <1>1, CutShort
<1> HIDE DEF less
<1>3. /\ Count(less, "order", Len(less)) \in Nat /\ Count(records, "order", Len(records)) \in Nat
      /\ Len(os) \in Nat
  <2>1. Len(less) \in Nat /\ Len(records) \in Nat /\ Len(os) \in Nat
    BY <1>1, <1>2
  <2>2. Len(less) <= Len(less) /\ Len(records) <= Len(records)
    BY <2>1
  <2>3. /\ Count(less, "order", Len(less)) \in 0 .. Len(less)
        /\ Count(records, "order", Len(records)) \in 0 .. Len(records)
    BY <1>2, <2>1, <2>2, CountNext
  <2> QED BY <2>1, <2>3
<1>4. Count(less, "order", Len(less)) <= Len(os)
  BY <1>1, <1>2, <1>3
<1>5. Traced(C, last, os, S, less, hist)
  BY <1>2, <1>4 DEF Traced
<1> QED BY <1>2, <1>5 DEF less

-----------------------------------------------------------------------------
(* The steps of the processes are those of the course.                     *)
LEMMA TradeTyped ==
    ASSUME NEW b, NEW s \in Slots, Sound(b, {s}), CanFill(b, s)
    PROVE  TradeOf(b, s) \in TradeRecords
<1> DEFINE o == b.ord[s]
           side == Other(o.side)
           p == Begin(side, b.levels[side])
           r == Passive(b, s)
<1>1. p \in Prices /\ r \in Slots /\ b.ord[r] \in OrderRecords /\ b.ord[s] \in OrderRecords
  <2>1. s \in {s} /\ b.ord[s] \in OrderRecords
    BY DEF Sound, Occupied
  <2> QED BY <2>1, PlainMatch, Opposite
<1>2. /\ o.id \in Ids /\ b.ord[r].id \in Ids
      /\ o.rem \in Quantities /\ b.ord[r].rem \in Quantities
  BY <1>1 DEF OrderRecords
<1>3. FillQty(b, s) \in Quantities
  BY <1>2 DEF FillQty, Lesser
<1>4. TradeOf(b, s) = [aggressive |-> o.id, passive |-> b.ord[r].id, price |-> p, qty |-> FillQty(b, s)]
  BY DEF TradeOf
<1> HIDE DEF o, side, p, r
<1> QED BY <1>1, <1>2, <1>3, <1>4 DEF TradeRecords

LEMMA MatchMoment ==
    ASSUME NEW b, NEW s \in Slots, Sound(b, {s}), NEW m, m.book = Plain(b), m.at = s
    PROVE  /\ CanFill(b, s) => LET next == Moment(Plain(Fill(b, s)), s, m.taken,
                                                 Append(m.made, TradeOf(b, s)))
                               IN  /\ Follows(next, m) /\ next = AfterTrading(m)
                                   /\ TradeOf(b, s) \in TradeRecords
           /\ ~ CanFill(b, s) => LET next == Moment(Plain(Finish(b, s)), NoSlot, m.taken, m.made)
                                 IN  /\ Follows(next, m) /\ next = AfterEnding(m)
                                     /\ ~ CanFill(m.book, m.at)
<1>1. CanFill(m.book, m.at) <=> CanFill(b, s)
  BY PlainMatch
<1>2. ASSUME CanFill(b, s)
      PROVE  LET next == Moment(Plain(Fill(b, s)), s, m.taken, Append(m.made, TradeOf(b, s)))
             IN  /\ Follows(next, m) /\ next = AfterTrading(m)
                 /\ TradeOf(b, s) \in TradeRecords
  <2>1. Fill(m.book, m.at) = Plain(Fill(b, s))
    BY <1>2, PlainFill
  <2>2. TradeOf(m.book, m.at) = TradeOf(b, s) /\ TradeOf(b, s) \in TradeRecords
    BY <1>2, PlainMatch, TradeTyped
  <2>3. AfterTrading(m) = Moment(Plain(Fill(b, s)), s, m.taken, Append(m.made, TradeOf(b, s)))
    BY <2>1, <2>2 DEF AfterTrading
  <2> QED BY <1>1, <1>2, <2>2, <2>3 DEF Follows
<1>3. ASSUME ~ CanFill(b, s)
      PROVE  LET next == Moment(Plain(Finish(b, s)), NoSlot, m.taken, m.made)
             IN  /\ Follows(next, m) /\ next = AfterEnding(m)
                 /\ ~ CanFill(m.book, m.at)
  <2>1. Finish(m.book, m.at) = Plain(Finish(b, s))
    BY PlainFinish
  <2>2. AfterEnding(m) = Moment(Plain(Finish(b, s)), NoSlot, m.taken, m.made)
    BY <2>1 DEF AfterEnding
  <2> QED BY <1>1, <1>3, <2>2 DEF Follows
<1> QED BY <1>2, <1>3

LEMMA TakeMoment ==
    ASSUME NEW b, IsBook(b), ~ Exhausted(b), NEW m, m.book = Plain(b),
           NEW o, NEW r, Bare(o) = Framed(r)
    PROVE  /\ NextSlot(b) \in Slots /\ NextSlot(b) # NoSlot
           /\ ~ Exhausted(m.book) /\ NextSlot(m.book) = NextSlot(b)
           /\ AfterTaking(m, r) = Moment(Plain(Construct(b, o)), NextSlot(b), m.taken + 1, m.made)
<1>1. NextSlot(b) \in Slots /\ NextSlot(b) # NoSlot
  <2>1. b.used \in Slots
    BY BookAssumption DEF BookAssumption, IsBook, Exhausted, Slots
  <2>2. b.free \in [Slots -> Slots]
    BY DEF IsBook
  <2>3. NoSlot \notin Slots
    BY BookAssumption DEF BookAssumption, Slots
  <2> QED BY <2>1, <2>2, <2>3 DEF NextSlot
<1>2. IsRecord(b) /\ DOMAIN b.ord = Slots
  BY DEF IsBook, IsRecord
<1>3. /\ NextSlot(Plain(b)) = NextSlot(b) /\ (Exhausted(Plain(b)) <=> Exhausted(b))
      /\ Plain(Construct(b, o)) = Construct(Plain(b), Bare(o))
  BY <1>1, <1>2, PlainConstruct
<1> QED BY <1>1, <1>3 DEF AfterTaking

-----------------------------------------------------------------------------
LiveAt(last, os) ==
    /\ last.book = Plain(book) /\ last.at = aggressive
    /\ Count(journal, "order", Len(journal)) = Len(os)
    /\ EndsWith(last.made, Count(journal, "trade", Len(journal)), made)
    /\ Len(history) = IF aggressive = NoSlot THEN Len(os) ELSE Len(os) - 1
    /\ cursor = 0

ReplayAt(C) == Moment(Plain(book), aggressive, OrdersRead, made) \in C

FilesTyped ==
    /\ mode \in {"live", "replay"} /\ journal \in Seq(Frames) /\ made \in Seq(TradeRecords)
    /\ cursor \in 0 .. Len(journal)

(* The live process is at the end of a course that its journal records,    *)
(* and replay is somewhere on it.                                          *)
Recovered(C, last, os, S) ==
    /\ Traced(C, last, os, S, journal, history)
    /\ mode = "live" => LiveAt(last, os)
    /\ mode = "replay" => ReplayAt(C)

RecoveryInv ==
    /\ IndInv /\ FilesTyped
    /\ \E C, last, os, S : Recovered(C, last, os, S)

LEMMA BookNow ==
    ASSUME IndInv
    PROVE  /\ IsBook(book)
           /\ aggressive # NoSlot => aggressive \in Slots /\ Sound(book, {aggressive})
           /\ clock \in 0 .. MaxClock
  BY DEF IndInv, TypeOK, InMatch, Idle

LEMMA RecoveryInit == Init /\ StartLive => RecoveryInv
<1> SUFFICES ASSUME Init, StartLive PROVE RecoveryInv
  OBVIOUS
<1>1. IndInv
  BY InitialBook
<1>2. /\ mode = "live" /\ journal = <<>> /\ made = <<>> /\ history = <<>> /\ cursor = 0
      /\ book = EmptyBook /\ aggressive = NoSlot
  BY DEF Init, StartLive
<1>3. FilesTyped
  BY <1>2 DEF FilesTyped
<1> DEFINE C == {FirstMoment}
<1>4. Course(C, FirstMoment, <<>>)
  BY CourseStart
<1>5. /\ FirstMoment.book = Plain(book) /\ FirstMoment.at = NoSlot
      /\ FirstMoment.taken = 0 /\ FirstMoment.made = <<>>
  BY <1>2, MomentFields DEF FirstMoment
<1>6. /\ Count(<<>>, "order", 0) = 0 /\ Count(<<>>, "trade", 0) = 0 /\ Len(<<>>) = 0
      /\ DOMAIN <<>> = {}
  BY CountNone
<1>7. SameOrders(<<>>, <<>>) /\ SeenTrades(<<>>, C)
  BY <1>6 DEF SameOrders, SeenTrades
<1>8. Remembered(<<>>, C)
  BY <1>6 DEF Remembered
<1>9. EndsWith(<<>>, 0, <<>>)
  BY DEF EndsWith
<1>10. <<>> \in Seq({})
  OBVIOUS
<1> HIDE DEF C
<1>11. Traced(C, FirstMoment, <<>>, {}, <<>>, <<>>)
  BY <1>4, <1>5, <1>6, <1>7, <1>8, <1>10 DEF Traced
<1>12. LiveAt(FirstMoment, <<>>)
  BY <1>2, <1>5, <1>6, <1>9 DEF LiveAt
<1>13. Recovered(C, FirstMoment, <<>>, {})
  BY <1>2, <1>11, <1>12 DEF Recovered
<1> QED BY <1>1, <1>3, <1>13 DEF RecoveryInv

LEMMA ReceiveStep ==
    ASSUME RecoveryInv, NEW side \in Sides, NEW p \in Prices, NEW q \in Quantities,
           Receive(side, p, q)
    PROVE  RecoveryInv'
<1> DEFINE n == clock + 1
           o == Order(n, side, p, q, n)
<1>0. PICK r : r = EncodeOrder(o)
  OBVIOUS
<1>1. PICK C, last, os, S : Recovered(C, last, os, S)
  BY DEF RecoveryInv
<1>2. /\ mode = "live" /\ mode' = mode /\ made' = made /\ history' = history /\ cursor' = cursor
      /\ NewOrder(n, side, p, q)
      /\ journal' = journal \o Journaled(book, o)
  BY DEF Receive
<1>3. /\ aggressive = NoSlot /\ ~ Exhausted(book) /\ clock < MaxClock
      /\ book' = Construct(book, o) /\ aggressive' = NextSlot(book)
  BY <1>2 DEF NewOrder, Idle
<1>4. n \in Ids
  <2>1. clock \in 0 .. MaxClock /\ MaxClock \in Nat
    BY BookNow, BookAssumption DEF BookAssumption, RecoveryInv
  <2>2. n \in 1 .. MaxClock
    BY <1>3, <2>1
  <2> QED BY <2>2, NumberedOrders DEF NumberedOrders
<1>5. IndInv'
  <2>1. Next
    BY <1>2, <1>4 DEF Next
  <2> QED BY <2>1, Step DEF RecoveryInv
<1>6. r \in OrderFrames /\ Bare(o) = Framed(r)
  <2> HIDE DEF n
  <2>1. o = [id |-> n, side |-> side, price |-> p, rem |-> q, state |-> "New", stamp |-> n]
    BY DEF Order
  <2>2. r = [kind |-> "order", id |-> n, side |-> side, price |-> p, qty |-> q]
    BY <1>0, <2>1 DEF EncodeOrder
  <2> QED BY <1>4, <2>1, <2>2 DEF OrderFrames, Bare, Framed
<1> HIDE DEF n, o
<1>7. journal' = Append(journal, r)
  <2>1. journal \in Seq(Frames)
    BY DEF RecoveryInv, FilesTyped
  <2>2. journal' = journal \o <<r>>
    BY <1>0, <1>2, <1>3 DEF Journaled
  <2> QED BY <2>1, <2>2, AppendIsConcat
<1>8. /\ Traced(C, last, os, S, journal, history) /\ LiveAt(last, os)
      /\ journal \in Seq(Frames) /\ last.book = Plain(book) /\ last.at = NoSlot
      /\ Count(journal, "order", Len(journal)) = Len(os)
      /\ EndsWith(last.made, Count(journal, "trade", Len(journal)), made)
      /\ Len(history) = Len(os) /\ cursor = 0 /\ cursor \in 0 .. Len(journal)
      /\ made \in Seq(TradeRecords)
  BY <1>1, <1>2, <1>3 DEF Recovered, LiveAt, RecoveryInv, FilesTyped
<1>16. PICK next : next = AfterTaking(last, r)
  OBVIOUS
<1>9. /\ NextSlot(book) # NoSlot /\ ~ Exhausted(last.book) /\ NextSlot(last.book) = NextSlot(book)
      /\ next = Moment(Plain(Construct(book, o)), NextSlot(book), last.taken + 1, last.made)
  <2>1. IsBook(book)
    BY BookNow DEF RecoveryInv
  <2> QED BY <1>3, <1>6, <1>8, <1>16, <2>1, TakeMoment
<1>10. /\ next.book = Plain(book') /\ next.at = aggressive' /\ next.made = last.made
       /\ aggressive' # NoSlot
  BY <1>3, <1>9, MomentFields
<1>11. /\ Traced(C \cup {next}, next, Append(os, r), S, journal', history)
       /\ journal' \in Seq(Frames)
       /\ Count(journal', "order", Len(journal')) = Len(os) + 1
       /\ Count(journal', "trade", Len(journal')) = Count(journal, "trade", Len(journal))
       /\ Len(Append(os, r)) = Len(os) + 1 /\ Len(os) \in Nat
  <2> DEFINE records == journal
             hist == history
             more == Append(records, r)
             longer == Append(os, r)
  <2>1. /\ Traced(C, last, os, S, records, hist) /\ records \in Seq(Frames)
        /\ Count(records, "order", Len(records)) = Len(os) /\ NextSlot(last.book) # NoSlot
    BY <1>8, <1>9
  <2> HIDE DEF records, hist
  <2>2. /\ Traced(C \cup {AfterTaking(last, r)}, AfterTaking(last, r), longer, S, more, hist)
        /\ more \in Seq(Frames)
        /\ Count(more, "order", Len(more)) = Len(os) + 1
        /\ Count(more, "trade", Len(more)) = Count(records, "trade", Len(records))
        /\ Len(longer) = Len(os) + 1 /\ Len(os) \in Nat
    BY <1>6, <1>8, <1>9, <2>1, TracedTaking
  <2> QED BY <1>7, <1>16, <2>2 DEF records, hist
<1>12. Len(history) = Len(Append(os, r)) - 1
  BY <1>8, <1>11
<1>13. LiveAt(next, Append(os, r))'
  BY <1>2, <1>8, <1>10, <1>11, <1>12 DEF LiveAt
<1>14. Recovered(C \cup {next}, next, Append(os, r), S)'
  BY <1>2, <1>11, <1>13 DEF Recovered
<1>15. FilesTyped'
  <2>1. Len(journal') \in Nat
    BY <1>11
  <2>2. cursor' \in 0 .. Len(journal')
    BY <1>2, <1>8, <2>1
  <2> QED BY <1>2, <1>8, <1>11, <2>2 DEF FilesTyped
<1> QED BY <1>5, <1>14, <1>15 DEF RecoveryInv

LEMMA DropStep ==
    ASSUME RecoveryInv, NEW side \in Sides, NEW p \in Prices, NEW q \in Quantities,
           DropOrder(side, p, q)
    PROVE  RecoveryInv'
<1>1. /\ Exhausted(book) /\ clock < MaxClock /\ clock' = clock + 1
      /\ UNCHANGED <<book, aggressive, trade, mode, made, history, cursor>>
      /\ journal' = journal \o <<>> /\ journal \in Seq(Frames)
  BY DEF DropOrder, Journaled, RecoveryInv, FilesTyped
<1>2. journal' = journal
  BY <1>1, ConcatEmptySeq
<1>3. IndInv'
  <2>1. clock' \in 0 .. MaxClock
    <3>1. clock \in 0 .. MaxClock /\ MaxClock \in Nat
      BY BookNow, BookAssumption DEF BookAssumption, RecoveryInv
    <3> QED BY <1>1, <3>1
  <2> QED BY <1>1, <2>1 DEF RecoveryInv, IndInv, TypeOK, InMatch, Idle
<1>4. FilesTyped'
  BY <1>1, <1>2 DEF RecoveryInv, FilesTyped
<1>5. PICK C, last, os, S : Recovered(C, last, os, S)
  BY DEF RecoveryInv
<1>6. Recovered(C, last, os, S)'
  BY <1>1, <1>2, <1>5 DEF Recovered, LiveAt, ReplayAt, OrdersRead
<1> QED BY <1>3, <1>4, <1>6 DEF RecoveryInv

(* The match goes on, in either process. *)
LEMMA TradeStep == ASSUME RecoveryInv, MakeTrade PROVE RecoveryInv'
<1>0. PICK x : x = TradeOf(book, aggressive)
  OBVIOUS
<1>1. /\ aggressive # NoSlot /\ CanFill(book, aggressive)
      /\ book' = Fill(book, aggressive) /\ aggressive' = aggressive
      /\ made' = Append(made, x)
      /\ mode' = mode /\ journal' = journal /\ history' = history /\ cursor' = cursor
  BY <1>0 DEF MakeTrade, FillStep, Idle
<1>2. aggressive \in Slots /\ Sound(book, {aggressive})
  BY <1>1, BookNow DEF RecoveryInv
<1>3. IndInv'
  <2>1. Next
    BY DEF MakeTrade, Next
  <2> QED BY <2>1, Step DEF RecoveryInv
<1>4. x \in TradeRecords
  BY <1>0, <1>1, <1>2, TradeTyped
<1>5. /\ journal \in Seq(Frames) /\ made \in Seq(TradeRecords) /\ made' \in Seq(TradeRecords)
      /\ Len(made') = Len(made) + 1 /\ made'[Len(made) + 1] = x
      /\ Len(made) \in Nat /\ \A j \in 1 .. Len(made) : made'[j] = made[j]
  <2>1. journal \in Seq(Frames) /\ made \in Seq(TradeRecords)
    BY DEF RecoveryInv, FilesTyped
  <2> QED BY <1>1, <1>4, <2>1
<1>6. FilesTyped'
  BY <1>1, <1>5 DEF RecoveryInv, FilesTyped
<1>7. PICK C, last, os, S : Recovered(C, last, os, S)
  BY DEF RecoveryInv
<1>8. Traced(C, last, os, S, journal, history)
  BY <1>7 DEF Recovered
<1>9. CASE mode = "live"
  <2>1. PICK next : next = AfterTrading(last)
    OBVIOUS
  <2>2. /\ last.book = Plain(book) /\ last.at = aggressive
        /\ Count(journal, "order", Len(journal)) = Len(os)
        /\ EndsWith(last.made, Count(journal, "trade", Len(journal)), made)
        /\ Len(history) = Len(os) - 1 /\ cursor = 0
    BY <1>1, <1>7, <1>9 DEF Recovered, LiveAt
  <2>3. /\ Follows(next, last)
        /\ next = Moment(Plain(Fill(book, aggressive)), aggressive, last.taken,
                         Append(last.made, TradeOf(book, aggressive)))
    BY <1>1, <1>2, <2>1, <2>2, MatchMoment
  <2>4. /\ next.book = Plain(book') /\ next.at = aggressive /\ next.made = Append(last.made, x)
    <3>1. next = Moment(Plain(book'), aggressive, last.taken, Append(last.made, x))
      BY <1>0, <1>1, <2>3
    <3> QED BY <3>1 DEF Moment
  <2>5. /\ Course(C \cup {next}, next, os) /\ SeenTrades(journal, C \cup {next})
        /\ Remembered(history, C \cup {next}) /\ Len(history) < Len(os)
    BY <1>1, <1>8, <2>2, <2>3, FollowsLast
  <2>6. Traced(C \cup {next}, next, os, S, journal, history)
    BY <1>8, <2>5 DEF Traced
  <2>7. EndsWith(next.made, Count(journal, "trade", Len(journal)), made')
    <3> DEFINE before == Count(journal, "trade", Len(journal))
               old == last.made
    <3>1. before \in Nat
      <4>1. Len(journal) \in Nat /\ Len(journal) <= Len(journal)
        BY <1>5
      <4>2. before \in 0 .. Len(journal)
        BY <1>5, <4>1, CountNext
      <4> QED BY <4>1, <4>2
    <3>2. old \in Seq(TradeRecords)
      BY <1>8 DEF Traced, Course
    <3>3. Len(old) = before + Len(made) /\ \A j \in 1 .. Len(made) : old[before + j] = made[j]
      BY <2>2 DEF EndsWith
    <3> HIDE DEF before, old
    <3>4. /\ Len(Append(old, x)) = Len(old) + 1 /\ Append(old, x)[Len(old) + 1] = x
          /\ \A i \in 1 .. Len(old) : Append(old, x)[i] = old[i]
      BY <1>4, <3>2
    <3>5. Len(old) + 1 = before + (Len(made) + 1)
      BY <1>5, <3>1, <3>3
    <3>6. ASSUME NEW j \in 1 .. Len(made')
          PROVE  Append(old, x)[before + j] = made'[j]
      <4>1. CASE j = Len(made) + 1
        BY <1>5, <3>4, <3>5, <4>1
      <4>2. CASE j # Len(made) + 1
        <5>1. j \in 1 .. Len(made) /\ j \in Nat
          BY <1>5, <4>2
        <5>2. before + j \in 1 .. before + Len(made)
          BY <1>5, <3>1, <5>1
        <5>3. before + j \in 1 .. Len(old)
          BY <3>3, <5>2
        <5>4. Append(old, x)[before + j] = old[before + j]
          BY <3>4, <5>3
        <5>5. old[before + j] = made[j] /\ made'[j] = made[j]
          BY <1>5, <3>3, <5>1
        <5> QED BY <5>4, <5>5
      <4> QED BY <4>1, <4>2
    <3>7. Len(Append(old, x)) = before + Len(made')
      BY <1>5, <3>4, <3>5
    <3> QED BY <2>4, <3>6, <3>7 DEF EndsWith, before, old
  <2>8. LiveAt(next, os)'
    BY <1>1, <2>2, <2>4, <2>7 DEF LiveAt
  <2>9. Recovered(C \cup {next}, next, os, S)'
    BY <1>1, <1>9, <2>6, <2>8 DEF Recovered
  <2> QED BY <1>3, <1>6, <2>9 DEF RecoveryInv
<1>10. CASE mode = "replay"
  <2>1. PICK m : m = Moment(Plain(book), aggressive, OrdersRead, made)
    OBVIOUS
  <2>2. PICK next : next = Moment(Plain(book'), aggressive', OrdersRead, made')
    OBVIOUS
  <2>3. /\ m \in C /\ m.book = Plain(book) /\ m.at = aggressive
        /\ m.taken = OrdersRead /\ m.made = made
    BY <1>7, <1>10, <2>1, MomentFields DEF Recovered, ReplayAt
  <2>4. Follows(next, m)
    <3>1. LET after == Moment(Plain(Fill(book, aggressive)), aggressive, m.taken,
                              Append(m.made, TradeOf(book, aggressive)))
          IN  Follows(after, m)
      BY <1>1, <1>2, <2>3, MatchMoment
    <3> QED BY <1>0, <1>1, <2>2, <2>3, <3>1
  <2>5. PICK D, end : Traced(D, end, os, S, journal, history) /\ next \in D
    BY <1>1, <1>8, <2>3, <2>4, TracedMatching
  <2>6. ReplayAt(D)'
    BY <1>1, <2>2, <2>5 DEF ReplayAt, OrdersRead
  <2>7. Recovered(D, end, os, S)'
    BY <1>1, <1>10, <2>5, <2>6 DEF Recovered
  <2> QED BY <1>3, <1>6, <2>7 DEF RecoveryInv
<1> QED BY <1>9, <1>10 DEF RecoveryInv, FilesTyped

LEMMA ReturnStep == ASSUME RecoveryInv, ReturnFromMatch PROVE RecoveryInv'
<1>1. /\ aggressive # NoSlot /\ ~ CanFill(book, aggressive)
      /\ book' = Finish(book, aggressive) /\ aggressive' = NoSlot
      /\ mode = "replay" /\ mode' = mode /\ journal' = journal /\ made' = made
      /\ history' = history /\ cursor' = cursor
  BY DEF ReturnFromMatch, FinishMatch, Idle, files
<1>2. aggressive \in Slots /\ Sound(book, {aggressive})
  BY <1>1, BookNow DEF RecoveryInv
<1>3. IndInv'
  <2>1. Next
    BY DEF ReturnFromMatch, Next
  <2> QED BY <2>1, Step DEF RecoveryInv
<1>4. FilesTyped'
  BY <1>1 DEF RecoveryInv, FilesTyped
<1>5. PICK C, last, os, S : Recovered(C, last, os, S)
  BY DEF RecoveryInv
<1>6. PICK m : m = Moment(Plain(book), aggressive, OrdersRead, made)
  OBVIOUS
<1>7. PICK next : next = Moment(Plain(book'), aggressive', OrdersRead, made')
  OBVIOUS
<1>8. /\ Traced(C, last, os, S, journal, history)
      /\ m \in C /\ m.book = Plain(book) /\ m.at = aggressive
      /\ m.taken = OrdersRead /\ m.made = made
  BY <1>1, <1>5, <1>6, MomentFields DEF Recovered, ReplayAt
<1>9. Follows(next, m)
  <2>1. LET after == Moment(Plain(Finish(book, aggressive)), NoSlot, m.taken, m.made)
        IN  Follows(after, m)
    BY <1>1, <1>2, <1>8, MatchMoment
  <2> QED BY <1>1, <1>7, <1>8, <2>1
<1>10. PICK D, end : Traced(D, end, os, S, journal, history) /\ next \in D
  BY <1>1, <1>8, <1>9, TracedMatching
<1>11. ReplayAt(D)'
  BY <1>1, <1>7, <1>10 DEF ReplayAt, OrdersRead
<1>12. Recovered(D, end, os, S)'
  BY <1>1, <1>10, <1>11 DEF Recovered
<1> QED BY <1>3, <1>4, <1>12 DEF RecoveryInv

LEMMA JournalStep == ASSUME RecoveryInv, JournalTrades PROVE RecoveryInv'
<1>0. PICK x : x = Depth(book')
  OBVIOUS
<1>1. /\ aggressive # NoSlot /\ ~ CanFill(book, aggressive)
      /\ book' = Finish(book, aggressive) /\ aggressive' = NoSlot
      /\ mode = "live" /\ mode' = mode /\ journal' = journal \o EncodeTrades(made)
      /\ made' = <<>> /\ history' = Append(history, x) /\ cursor' = cursor
  BY <1>0 DEF JournalTrades, FinishMatch, Idle
<1>2. aggressive \in Slots /\ Sound(book, {aggressive})
  BY <1>1, BookNow DEF RecoveryInv
<1>3. IndInv'
  <2>1. Next
    BY DEF JournalTrades, Next
  <2> QED BY <2>1, Step DEF RecoveryInv
<1>4. PICK C, last, os, S : Recovered(C, last, os, S)
  BY DEF RecoveryInv
<1>5. PICK next : next = AfterEnding(last)
  OBVIOUS
<1>6. /\ Traced(C, last, os, S, journal, history) /\ journal \in Seq(Frames)
      /\ made \in Seq(TradeRecords)
      /\ last.book = Plain(book) /\ last.at = aggressive
      /\ Count(journal, "order", Len(journal)) = Len(os)
      /\ EndsWith(last.made, Count(journal, "trade", Len(journal)), made)
      /\ Len(history) = Len(os) - 1 /\ cursor = 0
  BY <1>1, <1>4 DEF Recovered, LiveAt, RecoveryInv, FilesTyped
<1>7. /\ next = Moment(Plain(Finish(book, aggressive)), NoSlot, last.taken, last.made)
      /\ ~ CanFill(last.book, last.at)
  BY <1>1, <1>2, <1>5, <1>6, MatchMoment
<1>8. next.book = Plain(book') /\ next.at = NoSlot /\ next.made = last.made
  BY <1>1, <1>7, MomentFields
<1>9. Depth(next.book) = x
  <2>1. IsBook(book')
    BY <1>3 DEF IndInv, TypeOK
  <2>2. Depth(Plain(book')) = Depth(book')
    BY <2>1, PlainDepth
  <2> QED BY <1>0, <1>8, <2>2
<1>10. /\ Traced(C \cup {next}, next, os, S \cup {x}, journal', history')
       /\ journal' \in Seq(Frames)
       /\ Count(journal', "order", Len(journal')) = Len(os)
       /\ Count(journal', "trade", Len(journal')) = Len(last.made)
       /\ Len(history') = Len(os)
  <2> DEFINE records == journal
             hist == history
             trades == made
             more == records \o EncodeTrades(trades)
  <2>1. /\ Traced(C, last, os, S, records, hist) /\ records \in Seq(Frames)
        /\ trades \in Seq(TradeRecords) /\ last.at # NoSlot /\ ~ CanFill(last.book, last.at)
        /\ Count(records, "order", Len(records)) = Len(os)
        /\ EndsWith(last.made, Count(records, "trade", Len(records)), trades)
        /\ Len(hist) = Len(os) - 1
    BY <1>1, <1>6, <1>7
  <2>2. journal' = more /\ history' = Append(hist, x)
    BY <1>1
  <2> HIDE DEF records, hist, trades
  <2> DEFINE after == AfterEnding(last)
  <2>3. /\ Traced(C \cup {after}, after, os, S \cup {Depth(after.book)}, more,
                  Append(hist, Depth(after.book)))
        /\ more \in Seq(Frames)
        /\ Count(more, "order", Len(more)) = Len(os)
        /\ Count(more, "trade", Len(more)) = Len(last.made)
        /\ Len(Append(hist, Depth(after.book))) = Len(os)
    <3>1. TracedAtEnd(C, last, os, S, records, hist, trades)
      BY <2>1, TracedJournaling
    <3> QED BY <3>1 DEF TracedAtEnd
  <2>4. after = next
    BY <1>5
  <2> HIDE DEF more, after
  <2> QED BY <1>9, <2>2, <2>3, <2>4
<1>11. EndsWith(next.made, Count(journal', "trade", Len(journal')), made')
  <2>1. last.made \in Seq(TradeRecords)
    BY <1>6 DEF Traced, Course
  <2>2. Len(last.made) \in Nat /\ Len(<<>>) = 0
    BY <2>1
  <2> QED BY <1>1, <1>8, <1>10, <2>2 DEF EndsWith
<1>12. LiveAt(next, os)'
  BY <1>1, <1>6, <1>8, <1>10, <1>11 DEF LiveAt
<1>13. Recovered(C \cup {next}, next, os, S \cup {x})'
  BY <1>1, <1>10, <1>12 DEF Recovered
<1>14. FilesTyped'
  <2>1. Len(journal') \in Nat
    BY <1>10
  <2>2. cursor' \in 0 .. Len(journal')
    BY <1>1, <1>6, <2>1
  <2>3. <<>> \in Seq(TradeRecords)
    OBVIOUS
  <2> QED BY <1>1, <1>10, <2>2, <2>3 DEF FilesTyped
<1> QED BY <1>3, <1>13, <1>14 DEF RecoveryInv

LEMMA CrashStep == ASSUME RecoveryInv, Crash PROVE RecoveryInv'
<1>1. /\ mode = "live" /\ mode' = "replay"
      /\ book' = EmptyBook /\ aggressive' = NoSlot /\ trade' = NoTrade /\ clock' = 0
      /\ made' = <<>> /\ history' = history /\ cursor' = cursor
  BY DEF Crash
<1>2. PICK n \in 0 .. Len(journal) : journal' = SubSeq(journal, 1, n)
  BY DEF Crash
<1>3. IndInv'
  <2>1. Init'
    BY <1>1 DEF Init
  <2>2. Init' => IndInv'
    BY InitialBook, PTL
  <2> QED BY <2>1, <2>2
<1>4. PICK C, last, os, S : Recovered(C, last, os, S)
  BY DEF RecoveryInv
<1>5. Traced(C, last, os, S, journal, history) /\ cursor = 0 /\ journal \in Seq(Frames)
  BY <1>1, <1>4 DEF Recovered, LiveAt, RecoveryInv, FilesTyped
<1>6. journal' \in Seq(Frames) /\ Traced(C, last, os, S, journal', history)
  <2> DEFINE records == journal
             hist == history
  <2>1. Traced(C, last, os, S, records, hist) /\ records \in Seq(Frames) /\ n \in 0 .. Len(records)
    BY <1>2, <1>5
  <2> HIDE DEF records, hist
  <2>2. /\ SubSeq(records, 1, n) \in Seq(Frames)
        /\ Traced(C, last, os, S, SubSeq(records, 1, n), hist)
    BY <2>1, TracedCut
  <2> QED BY <1>2, <2>2 DEF records, hist
<1>7. OrdersRead' = 0
  BY <1>1, <1>5, CountNone DEF OrdersRead
<1>8. ReplayAt(C)'
  BY <1>1, <1>5, <1>7 DEF ReplayAt, FirstMoment, Traced, Course
<1>9. Recovered(C, last, os, S)'
  BY <1>1, <1>6, <1>8 DEF Recovered
<1>10. FilesTyped'
  <2>1. Len(journal') \in Nat
    BY <1>6
  <2>2. cursor' \in 0 .. Len(journal') /\ <<>> \in Seq(TradeRecords)
    BY <1>1, <1>5, <2>1
  <2> QED BY <1>1, <1>6, <2>2 DEF FilesTyped
<1> QED BY <1>3, <1>9, <1>10 DEF RecoveryInv

(* The next record, in replay. *)
LEMMA NextRead ==
    ASSUME RecoveryInv, Unread
    PROVE  /\ cursor \in Nat /\ cursor + 1 \in 1 .. Len(journal) /\ Len(journal) \in Nat
           /\ journal \in Seq(Frames)
           /\ NextRecord.kind = "order" => NextRecord \in OrderFrames
           /\ OrdersRead \in Nat
           /\ Count(journal, "order", cursor + 1)
                = OrdersRead + (IF NextRecord.kind = "order" THEN 1 ELSE 0)
           /\ Count(journal, "order", cursor + 1) <= Count(journal, "order", Len(journal))
<1>1. journal \in Seq(Frames) /\ cursor \in 0 .. Len(journal) /\ cursor < Len(journal)
  BY DEF RecoveryInv, FilesTyped, Unread
<1>2. /\ cursor \in Nat /\ cursor + 1 \in Nat /\ cursor + 1 \in 1 .. Len(journal)
      /\ Len(journal) \in Nat /\ cursor <= Len(journal) /\ cursor + 1 <= Len(journal)
      /\ Len(journal) <= Len(journal)
  BY <1>1
<1>3. OrdersRead \in 0 .. cursor
  BY <1>1, <1>2, CountNext DEF OrdersRead
<1>4. Count(journal, "order", cursor + 1)
        = OrdersRead + (IF NextRecord.kind = "order" THEN 1 ELSE 0)
  BY <1>1, <1>2, CountNext DEF OrdersRead, NextRecord
<1>5. Count(journal, "order", cursor + 1) <= Count(journal, "order", Len(journal))
  BY <1>1, <1>2, CountGrows
<1>6. NextRecord.kind = "order" => NextRecord \in OrderFrames
  BY <1>1, <1>2, FrameKinds DEF NextRecord
<1> QED BY <1>1, <1>2, <1>3, <1>4, <1>5, <1>6

(* There is a slot for it, as there was in the live process, and the next  *)
(* moment of the course is the one in which it has been taken.             *)
LEMMA RoomForOrder ==
    ASSUME RecoveryInv, Unread, NextRecord.kind = "order",
           NEW C, NEW last, NEW os, NEW S, Recovered(C, last, os, S)
    PROVE  LET m == Moment(Plain(book), aggressive, OrdersRead, made)
           IN  /\ ~ Exhausted(m.book)
               /\ AfterTaking(m, NextRecord) \in C
<1> DEFINE m == Moment(Plain(book), aggressive, OrdersRead, made)
<1>1. /\ mode = "replay" /\ aggressive = NoSlot
      /\ Traced(C, last, os, S, journal, history) /\ m \in C
  BY DEF Unread, Idle, Recovered, ReplayAt
<1>2. m.at = NoSlot /\ m.taken = OrdersRead
  BY <1>1, MomentFields
<1> HIDE DEF m
<1>3. /\ os \in Seq(OrderFrames) /\ last.taken = Len(os) /\ SameOrders(journal, os)
      /\ m # last => Leads(C, m, os)
  BY <1>1 DEF Traced, Course
<1>4. /\ cursor + 1 \in 1 .. Len(journal) /\ DOMAIN journal = 1 .. Len(journal)
      /\ OrdersRead \in Nat /\ Count(journal, "order", cursor + 1) = OrdersRead + 1
  BY NextRead
<1>5. /\ OrdersRead + 1 \in DOMAIN os /\ os[OrdersRead + 1] = NextRecord
  BY <1>3, <1>4 DEF SameOrders, NextRecord
<1>6. OrdersRead < Len(os)
  <2>1. Len(os) \in Nat /\ DOMAIN os = 1 .. Len(os)
    BY <1>3
  <2> QED BY <1>4, <1>5, <2>1
<1>7. m # last
  <2>1. Len(os) \in Nat
    BY <1>3
  <2> QED BY <1>2, <1>3, <1>4, <1>6, <2>1
<1> QED BY <1>2, <1>3, <1>5, <1>7 DEF Leads, m

LEMMA ReplayOrderStep == ASSUME RecoveryInv, ReplayOrder PROVE RecoveryInv'
<1>0. PICK r : r = NextRecord
  OBVIOUS
<1> DEFINE n == clock + 1
           o == Order(r.id, r.side, r.price, r.qty, n)
<1>1. /\ Unread /\ r.kind = "order" /\ mode = "replay" /\ aggressive = NoSlot
      /\ NewOrder(r.id, r.side, r.price, r.qty)
      /\ mode' = mode /\ journal' = journal /\ made' = made /\ history' = history
      /\ cursor' = cursor + 1
  BY <1>0 DEF ReplayOrder, Unread, Idle, DecodeRemaining
<1>2. /\ ~ Exhausted(book) /\ book' = Construct(book, o) /\ aggressive' = NextSlot(book)
  BY <1>1 DEF NewOrder
<1>3. /\ cursor \in Nat /\ cursor + 1 \in 1 .. Len(journal) /\ Len(journal) \in Nat
      /\ journal \in Seq(Frames) /\ r \in OrderFrames
      /\ Count(journal, "order", cursor + 1) = OrdersRead + 1
  BY <1>0, <1>1, NextRead
<1>4. r.id \in Ids /\ r.side \in Sides /\ r.price \in Prices /\ r.qty \in Quantities
  BY <1>3 DEF OrderFrames
<1>5. IndInv'
  <2>1. Next
    BY <1>1, <1>4 DEF Next
  <2> QED BY <2>1, Step DEF RecoveryInv
<1>6. Bare(o) = Framed(r)
  BY DEF Bare, Framed, Order
<1> HIDE DEF n, o
<1>7. PICK C, last, os, S : Recovered(C, last, os, S)
  BY DEF RecoveryInv
<1>8. PICK m : m = Moment(Plain(book), aggressive, OrdersRead, made)
  OBVIOUS
<1>9. m.book = Plain(book) /\ m.taken = OrdersRead /\ m.made = made
  BY <1>8 DEF Moment
<1>10. AfterTaking(m, r) \in C
  BY <1>0, <1>1, <1>7, <1>8, RoomForOrder
<1>11. AfterTaking(m, r)
         = Moment(Plain(Construct(book, o)), NextSlot(book), m.taken + 1, m.made)
  <2>1. IsBook(book)
    BY BookNow DEF RecoveryInv
  <2> QED BY <1>2, <1>6, <1>9, <2>1, TakeMoment
<1>12. OrdersRead' = OrdersRead + 1
  BY <1>1, <1>3 DEF OrdersRead
<1>13. ReplayAt(C)'
  <2>1. AfterTaking(m, r) = Moment(Plain(book'), aggressive', OrdersRead', made')
    BY <1>1, <1>2, <1>9, <1>11, <1>12
  <2> QED BY <1>10, <2>1 DEF ReplayAt
<1>14. Recovered(C, last, os, S)'
  BY <1>1, <1>7, <1>13 DEF Recovered
<1>15. FilesTyped'
  <2>1. cursor' \in 0 .. Len(journal')
    BY <1>1, <1>3
  <2> QED BY <1>1, <2>1 DEF RecoveryInv, FilesTyped
<1> QED BY <1>5, <1>14, <1>15 DEF RecoveryInv

LEMMA SkipStep == ASSUME RecoveryInv, SkipTrade PROVE RecoveryInv'
<1>1. /\ Unread /\ NextRecord.kind = "trade" /\ UNCHANGED vars
      /\ mode' = mode /\ journal' = journal /\ made' = made /\ history' = history
      /\ cursor' = cursor + 1 /\ mode = "replay"
  BY DEF SkipTrade, Unread
<1>2. IndInv'
  BY <1>1, Step DEF RecoveryInv
<1>3. /\ cursor \in Nat /\ cursor + 1 \in 1 .. Len(journal) /\ Len(journal) \in Nat
      /\ Count(journal, "order", cursor + 1) = OrdersRead
  BY <1>1, NextRead
<1>4. OrdersRead' = OrdersRead
  BY <1>1, <1>3 DEF OrdersRead
<1>5. PICK C, last, os, S : Recovered(C, last, os, S)
  BY DEF RecoveryInv
<1>6. Recovered(C, last, os, S)'
  <2>1. book' = book /\ aggressive' = aggressive
    BY <1>1 DEF vars
  <2>2. ReplayAt(C)'
    BY <1>1, <1>4, <1>5, <2>1 DEF Recovered, ReplayAt
  <2> QED BY <1>1, <1>5, <2>2 DEF Recovered
<1>7. FilesTyped'
  <2>1. cursor' \in 0 .. Len(journal')
    BY <1>1, <1>3
  <2> QED BY <1>1, <2>1 DEF RecoveryInv, FilesTyped
<1> QED BY <1>2, <1>6, <1>7 DEF RecoveryInv

LEMMA RecoverySteps == RecoveryInv /\ [RecoveryNext]_<<vars, files>> => RecoveryInv'
<1> SUFFICES ASSUME RecoveryInv, [RecoveryNext]_<<vars, files>> PROVE RecoveryInv'
  OBVIOUS
<1>1. ASSUME NEW side \in Sides, NEW p \in Prices, NEW q \in Quantities, Receive(side, p, q)
      PROVE  RecoveryInv'
  BY <1>1, ReceiveStep
<1>2. ASSUME NEW side \in Sides, NEW p \in Prices, NEW q \in Quantities, DropOrder(side, p, q)
      PROVE  RecoveryInv'
  BY <1>2, DropStep
<1>3. CASE MakeTrade
  BY <1>3, TradeStep
<1>4. CASE JournalTrades
  BY <1>4, JournalStep
<1>5. CASE Crash
  BY <1>5, CrashStep
<1>6. CASE ReplayOrder
  BY <1>6, ReplayOrderStep
<1>7. CASE SkipTrade
  BY <1>7, SkipStep
<1>8. CASE ReturnFromMatch
  BY <1>8, ReturnStep
<1>9. CASE UNCHANGED <<vars, files>>
  <2>1. /\ UNCHANGED vars
        /\ book' = book /\ aggressive' = aggressive
        /\ mode' = mode /\ journal' = journal /\ made' = made /\ history' = history
        /\ cursor' = cursor
    BY <1>9 DEF vars, files
  <2>2. IndInv'
    BY <2>1, Step DEF RecoveryInv
  <2>3. FilesTyped'
    BY <2>1 DEF RecoveryInv, FilesTyped
  <2>4. PICK C, last, os, S : Recovered(C, last, os, S)
    BY DEF RecoveryInv
  <2>5. Recovered(C, last, os, S)'
    BY <2>1, <2>4 DEF Recovered, LiveAt, ReplayAt, OrdersRead
  <2> QED BY <2>2, <2>3, <2>5 DEF RecoveryInv
<1> QED BY <1>1, <1>2, <1>3, <1>4, <1>5, <1>6, <1>7, <1>8, <1>9 DEF RecoveryNext

(* The live process and the replay of what it left on disk go through the  *)
(* same moments, and the book is sound in both.                            *)
THEOREM RecoveryInvariance == RecoverySpec => []RecoveryInv
<1>1. Init /\ StartLive => RecoveryInv
  BY RecoveryInit
<1>2. RecoveryInv /\ [RecoveryNext]_<<vars, files>> => RecoveryInv'
  BY RecoverySteps
<1> QED BY <1>1, <1>2, PTL DEF RecoverySpec

(* Wherever the process died, replay rebuilds the book: after each order it*)
(* has matched, the ids and quantities that the live book held then, in    *)
(* the same places (engine.cpp:94-111, replay_test.cpp:71-82).             *)
THEOREM BookComesBack == RecoverySpec => []BookRebuilt
<1>1. RecoveryInv => BookRebuilt
  <2> SUFFICES ASSUME RecoveryInv, mode = "replay", aggressive = NoSlot,
                      OrdersRead \in DOMAIN history
               PROVE  Depth(book) = history[OrdersRead]
    BY DEF BookRebuilt, Idle
  <2>1. PICK C, last, os, S : Recovered(C, last, os, S)
    BY DEF RecoveryInv
  <2>2. PICK m : m = Moment(Plain(book), aggressive, OrdersRead, made)
    OBVIOUS
  <2>3. m \in C /\ Remembered(history, C)
    BY <2>1, <2>2 DEF Recovered, ReplayAt, Traced
  <2>4. m.book = Plain(book) /\ m.at = NoSlot /\ m.taken = OrdersRead
    BY <2>2 DEF Moment
  <2>5. Depth(Plain(book)) = Depth(book)
    BY BookNow, PlainDepth DEF RecoveryInv
  <2> QED BY <2>3, <2>4, <2>5 DEF Remembered
<1> QED BY <1>1, RecoveryInvariance, PTL

(* Replay makes the trades that are on disk and in that order, and all of  *)
(* them by the end (engine.cpp:104-111).                                   *)
THEOREM TradesComeBack == RecoverySpec => []TradesReproduced
<1>1. RecoveryInv => TradesReproduced
  <2> SUFFICES ASSUME RecoveryInv, mode = "replay", NEW i \in DOMAIN journal,
                      journal[i].kind = "trade"
               PROVE  LET n == Count(journal, "trade", i)
                      IN  /\ n \in DOMAIN made => made[n] = journal[i].trade
                          /\ (Idle /\ cursor = Len(journal)) => n \in DOMAIN made
    BY DEF TradesReproduced
  <2> DEFINE n == Count(journal, "trade", i)
  <2>1. PICK C, last, os, S : Recovered(C, last, os, S)
    BY DEF RecoveryInv
  <2>2. PICK m : m = Moment(Plain(book), aggressive, OrdersRead, made)
    OBVIOUS
  <2>3. m \in C /\ Traced(C, last, os, S, journal, history)
    BY <2>1, <2>2 DEF Recovered, ReplayAt
  <2>4. m.at = aggressive /\ m.taken = OrdersRead /\ m.made = made
    BY <2>2 DEF Moment
  <2>5. PICK k \in C : /\ k.at = NoSlot /\ k.taken <= Count(journal, "order", i)
                       /\ n \in DOMAIN k.made /\ k.made[n] = journal[i].trade
    BY <2>3 DEF Traced, SeenTrades, SeenBy
  <2>6. /\ k.made \in Seq(TradeRecords) /\ m.made \in Seq(TradeRecords)
        /\ last.made \in Seq(TradeRecords)
        /\ Begins(k.made, last.made) /\ Begins(m.made, last.made)
        /\ k.taken \in Nat /\ m.taken \in Nat
        /\ m.at = NoSlot /\ k.taken <= m.taken => Begins(k.made, m.made)
    BY <2>3 DEF Traced, Course
  <2>7. /\ Len(k.made) \in Nat /\ Len(m.made) \in Nat
        /\ n \in 1 .. Len(k.made) /\ DOMAIN made = 1 .. Len(m.made)
    BY <2>4, <2>5, <2>6
  <2> HIDE DEF n
  <2>8. ASSUME n \in DOMAIN made PROVE made[n] = journal[i].trade
    <3>1. k.made[n] = last.made[n]
      BY <2>6, <2>7 DEF Begins
    <3>2. m.made[n] = last.made[n]
      BY <2>6, <2>7, <2>8 DEF Begins
    <3> QED BY <2>4, <2>5, <3>1, <3>2
  <2>9. ASSUME Idle, cursor = Len(journal) PROVE n \in DOMAIN made
    <3>1. journal \in Seq(Frames) /\ i \in Nat /\ i <= Len(journal) /\ Len(journal) \in Nat
          /\ Len(journal) <= Len(journal)
      <4>1. journal \in Seq(Frames)
        BY DEF RecoveryInv, FilesTyped
      <4> QED BY <4>1
    <3>2. Count(journal, "order", i) <= OrdersRead
      BY <2>9, <3>1, CountGrows DEF OrdersRead
    <3>3. Count(journal, "order", i) \in 0 .. i
      BY <3>1, CountNext
    <3>4. k.taken <= m.taken
      <4>1. Count(journal, "order", i) \in Nat /\ OrdersRead \in Nat
        BY <2>4, <2>6, <3>1, <3>3
      <4> QED BY <2>4, <2>5, <2>6, <3>2, <4>1
    <3>5. Begins(k.made, m.made)
      BY <2>4, <2>6, <2>9, <3>4 DEF Idle
    <3>6. Len(k.made) <= Len(m.made)
      BY <3>5 DEF Begins
    <3> QED BY <2>7, <3>6
  <2> QED BY <2>8, <2>9 DEF n
<1> QED BY <1>1, RecoveryInvariance, PTL

(* Replay has a slot of the pool for every order it reads, although it     *)
(* does not look (replay_test.cpp:77-78): the live process had one.        *)
THEOREM RoomInReplay == RecoverySpec => []ReplayHasRoom
<1>1. RecoveryInv => ReplayHasRoom
  <2> SUFFICES ASSUME RecoveryInv, Unread, NextRecord.kind = "order" PROVE ~ Exhausted(book)
    BY DEF ReplayHasRoom
  <2>1. PICK C, last, os, S : Recovered(C, last, os, S)
    BY DEF RecoveryInv
  <2>2. ~ Exhausted(Moment(Plain(book), aggressive, OrdersRead, made).book)
    BY <2>1, RoomForOrder
  <2>3. Moment(Plain(book), aggressive, OrdersRead, made).book = Plain(book)
    BY MomentFields
  <2>4. Plain(book).used = book.used
    <3>1. IsRecord(book)
      BY BookNow DEF RecoveryInv, IsBook, IsRecord
    <3> QED BY <3>1, PlainFields
  <2> QED BY <2>2, <2>3, <2>4 DEF Exhausted
<1> QED BY <1>1, RecoveryInvariance, PTL
=============================================================================
