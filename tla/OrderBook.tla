------------------------------ MODULE OrderBook -----------------------------
(***************************************************************************)
(* order::OrderBook, engine::MatchingEngine and the ObjectPool of orders   *)
(* they share (order_book.cpp, matching_engine.cpp, memory.hpp), as the    *)
(* engine thread runs them.                                                *)
(*                                                                         *)
(* The book is one record: the pool's free list, the orders in their slots *)
(* (a freed slot keeps its bytes), the two price maps, the id map and the  *)
(* two cached iterators.  Each operation of the C++ class is an operator   *)
(* from a book to a book; an action applies one to the variable.  match()  *)
(* is a step per loop iteration, so its intermediate states are states.    *)
(*                                                                         *)
(* A level's intrusive list is the sequence of its slots (LevelQueue, which*)
(* PriceLevel implements with pointers).  Prices and quantities are small  *)
(* integers, so totals do not wrap.                                        *)
(***************************************************************************)
EXTENDS Integers, Sequences, FiniteSetsExt, Functions, LevelQueue

CONSTANTS Ids,         \* client order ids
          MinPrice, MaxPrice,   \* the ticks in use: a signed integer in the code
          MaxQty,      \* largest quantity of an order; zero is a quantity too
          PoolSize,    \* Capacity of the ObjectPool, 65536 in the code
          UniqueIds,   \* TRUE if clients do not reuse the id of a live order
          DirectAdd,   \* TRUE if OrderBook::add is called by itself
          MaxClock,    \* bound on the orders ever placed
          NoOrder, NoTrade, NoSlot,
          End, Dangling   \* an iterator at end(), one whose level was erased

ASSUME BookAssumption ==
    /\ MinPrice \in Int /\ MaxPrice \in Int
    /\ MaxQty \in Nat
    /\ PoolSize \in Nat \ {0}
    /\ MaxClock \in Nat
    /\ UniqueIds \in BOOLEAN /\ DirectAdd \in BOOLEAN
    /\ NoSlot \notin 0 .. PoolSize - 1

(* The values that stand for no order and for iterators are not orders or prices. *)
ASSUME ValuesApart ==
    /\ End \notin MinPrice .. MaxPrice /\ Dangling \notin MinPrice .. MaxPrice
    /\ End # Dangling
    /\ NoOrder \notin [id : Ids, side : {"Buy", "Sell"}, price : MinPrice .. MaxPrice,
                        rem : 0 .. MaxQty, stamp : Nat]

VARIABLES book,         \* the OrderBook object
          aggressive,   \* match()'s argument, or NoSlot outside match()
          trade,        \* the trade emitted last
          clock         \* MonotonicClock, a tick per order

vars == <<book, aggressive, trade, clock>>

Sides == {"Buy", "Sell"}
Other(side) == IF side = "Buy" THEN "Sell" ELSE "Buy"
Slots == 0 .. PoolSize - 1
Prices == MinPrice .. MaxPrice
Quantities == 0 .. MaxQty
Lesser(m, n) == IF m < n THEN m ELSE n

-----------------------------------------------------------------------------
(* std::map and std::unordered_map as functions with a finite domain. *)

EmptyMap == [x \in {} |-> x]
Put(f, k, v) == [x \in DOMAIN f \cup {k} |-> IF x = k THEN v ELSE f[x]]
Drop(f, k) == [x \in DOMAIN f \ {k} |-> f[x]]

(* Bids are ordered from the highest price, asks from the lowest. *)
Better(side, p, q) == IF side = "Buy" THEN p > q ELSE p < q

(* begin() of a price map: its first price, or end() of an empty map.      *)
Begin(side, levels) ==
    IF DOMAIN levels = {} THEN End
    ELSE CHOOSE p \in DOMAIN levels : \A q \in DOMAIN levels : ~ Better(side, q, p)

-----------------------------------------------------------------------------
(* ObjectPool: slots free[used] .. free[PoolSize - 1] are available. *)

Exhausted(b) == b.used >= PoolSize
NextSlot(b) == b.free[b.used]
Allocate(b) == [b EXCEPT !.used = @ + 1]
Deallocate(b, s) ==
    IF b.used > 0 THEN [b EXCEPT !.used = @ - 1, !.free[b.used - 1] = s] ELSE b

-----------------------------------------------------------------------------
(* OrderBook *)

SetLevelKeepEmpty(b, side, p, lv) ==          (* faulty: empty level not erased *)
    [b EXCEPT !.levels[side] = Put(@, p, lv)]

(* Erasing a level invalidates the cached iterator that points to it. *)
SetLevel(b, side, p, lv) ==
    IF lv.queue = <<>>
    THEN [b EXCEPT !.levels[side] = Drop(@, p),
                   !.best[side] = IF @ = p THEN Dangling ELSE @]
    ELSE [b EXCEPT !.levels[side] = Put(@, p, lv)]

RefreshNeither(b) == b                        (* faulty: refresh forgotten *)

RefreshBoth(b) == [b EXCEPT !.best = [side \in Sides |-> Begin(side, b.levels[side])]]

(* Compares with the price under the cached iterator: undefined if that is *)
(* dangling, which BestFresh excludes.                                     *)
RefreshSide(b, side, p) ==
    IF \/ b.best[side] = End
       \/ b.best[side] # Dangling /\ Better(side, p, b.best[side])
    THEN [b EXCEPT !.best[side] = Begin(side, b.levels[side])]
    ELSE b

LevelAt(b, side, p) ==
    IF p \in DOMAIN b.levels[side] THEN b.levels[side][p] ELSE NewLevel

AddRestingUnmapped(b, s) ==                   (* faulty: order_map_ not updated *)
    LET o == b.ord[s]
        lv == PushBack(LevelAt(b, o.side, o.price), s, o.rem)
    IN  RefreshSide([b EXCEPT !.levels[o.side] = Put(@, o.price, lv)], o.side, o.price)

AddResting(b, s) ==
    LET o == b.ord[s]
        lv == PushBack(LevelAt(b, o.side, o.price), s, o.rem)
    IN  RefreshSide([b EXCEPT !.map = Put(@, o.id, s),
                              !.levels[o.side] = Put(@, o.price, lv)],
                    o.side, o.price)

Order(id, side, p, q, stamp) ==
    [id |-> id, side |-> side, price |-> p, rem |-> q, state |-> "New", stamp |-> stamp]

Construct(b, o) == [Allocate(b) EXCEPT !.ord[NextSlot(b)] = o]

AddOrder(b, o) == IF Exhausted(b) THEN b ELSE AddResting(Construct(b, o), NextSlot(b))

(* An order that has left its queue leaves the id map and the pool. *)
RetireKeepId(b, s, id) == Deallocate(b, s)    (* faulty: order_map_ keeps the id *)
Retire(b, s, id) == Deallocate([b EXCEPT !.map = Drop(@, id)], s)

Cancellable(b, id) ==
    id \in DOMAIN b.map /\ b.ord[b.map[id]].state \notin {"Cancelled", "Filled"}

CancelOrder(b, id) ==
    LET s == b.map[id]
        o == b.ord[s]
        b1 == [b EXCEPT !.ord[s].state = "Cancelled"]
        b2 == IF o.price \in DOMAIN b.levels[o.side]
              THEN SetLevel(b1, o.side, o.price,
                            RemoveFrom(b.levels[o.side][o.price], s, o.rem))
              ELSE b1
    IN  RefreshBoth(Retire(b2, s, id))

-----------------------------------------------------------------------------
(* MatchingEngine::match *)

(* The loop goes on: something is left, and the best opposite price is met.*)
CanFill(b, s) ==
    LET o == b.ord[s]
        best == Begin(Other(o.side), b.levels[Other(o.side)])
    IN  o.rem > 0 /\ best # End /\ ~ Better(Other(o.side), o.price, best)

(* The resting order one iteration trades with: the oldest at the best     *)
(* price.                                                                  *)
Passive(b, s) ==
    LET side == Other(b.ord[s].side)
    IN  b.levels[side][Begin(side, b.levels[side])].queue[1]

FillQtyAll(b, s) == b.ord[s].rem              (* faulty: no minimum *)
FillQty(b, s) == Lesser(b.ord[s].rem, b.ord[Passive(b, s)].rem)

TradeOf(b, s) ==
    [aggressive |-> b.ord[s].id, passive |-> b.ord[Passive(b, s)].id,
     price |-> Begin(Other(b.ord[s].side), b.levels[Other(b.ord[s].side)]),
     qty |-> FillQty(b, s)]

(* total_qty is reduced by the fill; an order with nothing left is removed.*)
FilledLevelTwice(lv, s, qty, left) ==         (* faulty: the fill subtracted twice *)
    LET lv1 == [lv EXCEPT !.total = @ - qty]
    IN  IF left = 0 THEN RemoveFrom(lv1, s, qty) ELSE lv1

FilledLevel(lv, s, qty, left) ==
    LET lv1 == [lv EXCEPT !.total = @ - qty]
    IN  IF left = 0 THEN RemoveFrom(lv1, s, left) ELSE lv1

Fill(b, s) ==
    LET side == Other(b.ord[s].side)
        p == Begin(side, b.levels[side])
        r == Passive(b, s)
        left == b.ord[r].rem - FillQty(b, s)
        b1 == [b EXCEPT !.ord[s].rem = @ - FillQty(b, s),
                        !.ord[r].rem = left,
                        !.ord[r].state = IF left = 0 THEN "Filled" ELSE "PartFill"]
        b2 == SetLevel(b1, side, p, FilledLevel(b.levels[side][p], r, FillQty(b, s), left))
    IN  IF left = 0 THEN Retire(b2, r, b.ord[r].id) ELSE b2

FinishLeak(b, s) ==                           (* faulty: never deallocated *)
    LET done == b.ord[s].rem = 0
        b1 == [b EXCEPT !.ord[s].state = IF done THEN "Filled" ELSE "PartFill"]
    IN  RefreshBoth(IF done THEN b1 ELSE AddResting(b1, s))

(* After the loop: what is left rests, and both iterators are renewed. *)
Finish(b, s) ==
    LET done == b.ord[s].rem = 0
        b1 == [b EXCEPT !.ord[s].state = IF done THEN "Filled" ELSE "PartFill"]
    IN  RefreshBoth(IF done THEN Deallocate(b1, s) ELSE AddResting(b1, s))

-----------------------------------------------------------------------------
EmptyBook ==
    [free |-> [i \in Slots |-> i], used |-> 0,
     ord |-> [s \in Slots |-> NoOrder],
     levels |-> [side \in Sides |-> EmptyMap],
     map |-> EmptyMap,
     best |-> [side \in Sides |-> End]]

Init ==
    /\ book = EmptyBook
    /\ aggressive = NoSlot /\ trade = NoTrade /\ clock = 0

Idle == aggressive = NoSlot

(* An id the clients may use for a new order. *)
Usable(id) == UniqueIds => id \notin DOMAIN book.map

(* process_new_order, or Engine::run from its own allocate: up to the call *)
(* of match.  On an exhausted pool both return and nothing changes.        *)
NewOrder(id, side, p, q) ==
    /\ Idle /\ Usable(id) /\ clock < MaxClock
    /\ ~ Exhausted(book)
    /\ book' = Construct(book, Order(id, side, p, q, clock + 1))
    /\ aggressive' = NextSlot(book)
    /\ clock' = clock + 1
    /\ UNCHANGED trade

FillStep ==
    /\ ~ Idle /\ CanFill(book, aggressive)
    /\ book' = Fill(book, aggressive)
    /\ trade' = TradeOf(book, aggressive)
    /\ UNCHANGED <<aggressive, clock>>

FinishMatch ==
    /\ ~ Idle /\ ~ CanFill(book, aggressive)
    /\ book' = Finish(book, aggressive)
    /\ aggressive' = NoSlot
    /\ UNCHANGED <<trade, clock>>

Cancel(id) ==
    /\ Idle /\ Cancellable(book, id)
    /\ book' = CancelOrder(book, id)
    /\ UNCHANGED <<aggressive, trade, clock>>

(* Cancel, then add: the order loses its place. *)
Modify(id, q) ==
    /\ Idle /\ Cancellable(book, id) /\ clock < MaxClock
    /\ LET o == book.ord[book.map[id]]
       IN  book' = AddOrder(CancelOrder(book, id), Order(id, o.side, o.price, q, clock + 1))
    /\ clock' = clock + 1
    /\ UNCHANGED <<aggressive, trade>>

(* OrderBook::add called by itself: rests the order without matching it.   *)
Add(id, side, p, q) ==
    /\ DirectAdd /\ Idle /\ Usable(id) /\ clock < MaxClock
    /\ ~ Exhausted(book)
    /\ book' = AddOrder(book, Order(id, side, p, q, clock + 1))
    /\ clock' = clock + 1
    /\ UNCHANGED <<aggressive, trade>>

Next ==
    \/ \E id \in Ids, side \in Sides, p \in Prices, q \in Quantities : NewOrder(id, side, p, q)
    \/ FillStep
    \/ FinishMatch
    \/ \E id \in Ids : Cancel(id)
    \/ \E id \in Ids, q \in Quantities : Modify(id, q)
    \/ \E id \in Ids, side \in Sides, p \in Prices, q \in Quantities : Add(id, side, p, q)

Spec == Init /\ [][Next]_vars

-----------------------------------------------------------------------------
(* Views of the book. *)

Available(b) == {b.free[i] : i \in b.used .. PoolSize - 1}
InLevel(b, side, p) == Range(b.levels[side][p].queue)
Queued(b) ==
    {s \in Slots : \E side \in Sides : \E p \in DOMAIN b.levels[side] : s \in InLevel(b, side, p)}
InMatch == IF Idle THEN {} ELSE {aggressive}

OrderRecords ==
    [id : Ids, side : Sides, price : Prices, rem : Quantities,
     state : {"New", "PartFill", "Filled", "Cancelled"}, stamp : 1 .. MaxClock]
LevelRecords == [queue : Seq(Slots), total : Int, count : Int]
IsMap(f, S, T) == DOMAIN f \subseteq S /\ f \in [DOMAIN f -> T]

IsBook(b) ==
    /\ b = [free |-> b.free, used |-> b.used, ord |-> b.ord,
            levels |-> b.levels, map |-> b.map, best |-> b.best]
    /\ b.free \in [Slots -> Slots] /\ b.used \in 0 .. PoolSize
    /\ b.ord \in [Slots -> OrderRecords \cup {NoOrder}]
    /\ b.levels = [side \in Sides |-> b.levels[side]]
    /\ \A side \in Sides : IsMap(b.levels[side], Prices, LevelRecords)
    /\ IsMap(b.map, Ids, Slots)
    /\ b.best \in [Sides -> Prices \cup {End, Dangling}]

(* The fields keep to their types; in particular no quantity of an order   *)
(* wraps below zero (matching_engine.cpp:81-82).                           *)
TypeOK ==
    /\ IsBook(book)
    /\ aggressive \in Slots \cup {NoSlot}
    /\ clock \in 0 .. MaxClock

(* A slot of the pool is available, queued, or the order in match(), and   *)
(* only one of them: no order is freed twice, freed while queued, or leaked*)
(* (memory.hpp:31-52, order_book.cpp:105, matching_engine.cpp:93 and 112). *)
Partition(b, held) ==
    /\ \A i, j \in b.used .. PoolSize - 1 : b.free[i] = b.free[j] => i = j
    /\ Available(b) \cap Queued(b) = {}
    /\ held \cap (Available(b) \cup Queued(b)) = {}
    /\ Available(b) \cup Queued(b) \cup held = Slots

PoolPartition == Partition(book, InMatch)

(* A level in the map is not empty and holds, once each, orders of its side*)
(* and price: match() reads head without a test (matching_engine.cpp:67),  *)
(* and cancel() finds the level by the order's price (order_book.cpp:87).  *)
LevelShape(b) ==
    \A side \in Sides : \A p \in DOMAIN b.levels[side] :
        LET queue == b.levels[side][p].queue
        IN  /\ queue # <<>>
            /\ IsInjective(queue)
            /\ \A s \in Range(queue) : b.ord[s].side = side /\ b.ord[s].price = p

LevelsWellFormed == LevelShape(book)

(* The totals a level keeps are those of its orders (price_level.hpp:43-44,*)
(* 62-63, matching_engine.cpp:83).                                         *)
LevelAccounting ==
    \A side \in Sides : \A p \in DOMAIN book.levels[side] :
        LET lv == book.levels[side][p]
        IN  /\ lv.count = Len(lv.queue)
            /\ lv.total = SumFunction([s \in Range(lv.queue) |-> book.ord[s].rem])

(* An entry of order_map_ leads to a live resting order with that id, even *)
(* when ids are reused: cancel() follows it to memory that is not free     *)
(* (order_book.cpp:77).                                                    *)
MapLeadsToQueued(b) ==
    \A id \in DOMAIN b.map :
        /\ b.map[id] \in Queued(b)
        /\ b.ord[b.map[id]].id = id
        /\ b.ord[b.map[id]].state \in {"New", "PartFill"}

MapSound == MapLeadsToQueued(book)

(* Every resting order can be found by its id and cancelled                *)
(* (order_book.hpp:49, matching_engine.hpp:19).                            *)
RestingInMap == Queued(book) \subseteq Range(book.map)

(* What makes these inductive: a slot in use holds an order.               *)
Occupied(b, held) == \A s \in Queued(b) \cup held : b.ord[s] \in OrderRecords

Sound(b, held) ==
    /\ IsBook(b)
    /\ Partition(b, held)
    /\ LevelShape(b)
    /\ Occupied(b, held)

IndInv == TypeOK /\ Sound(book, InMatch) /\ MapLeadsToQueued(book)

(* The cached iterators are begin() between operations; during match() the *)
(* aggressive side's still is, so the one that add_resting compares with   *)
(* never points to an erased level (order_book.cpp:15 and 19).             *)
BestFresh ==
    LET fresh(side) == book.best[side] = Begin(side, book.levels[side])
    IN  IF Idle THEN \A side \in Sides : fresh(side)
        ELSE fresh(book.ord[aggressive].side)

(* Price-time priority. *)
View(s) == [id |-> book.ord[s].id, side |-> book.ord[s].side, price |-> book.ord[s].price,
            rem |-> book.ord[s].rem, stamp |-> book.ord[s].stamp]

Abstract == INSTANCE PriceTimeBook
    WITH resting <- {View(s) : s \in Queued(book)},
         incoming <- IF Idle THEN NoOrder ELSE View(aggressive)

(* The queues, levels and maps implement price-time priority: every trade  *)
(* is with the order that has priority, at its price, and what rests,      *)
(* leaves or is amended is what the caller named                           *)
(* (matching_engine.cpp:32-117, order_book.cpp:59-127).                    *)
ImplementsPriceTime == Abstract!Spec
=============================================================================
