----------------------------- MODULE PriceLevel -----------------------------
(***************************************************************************)
(* order::PriceLevel (price_level.hpp): an intrusive doubly linked list.   *)
(* The links are fields of the orders themselves, so all levels write to   *)
(* the same memory, and an order that left one level may be pushed to      *)
(* another, or its slot given to a new order.                              *)
(*                                                                         *)
(* Beside each list runs the sequence that OrderBook takes the level to be *)
(* (LevelQueue); the invariants say that the pointers represent it.  The   *)
(* caller's part of the contract is in the guards: match() and cancel()    *)
(* remove only what is in the level, and push only what is in none, which  *)
(* PoolPartition of OrderBook shows that they do.                          *)
(***************************************************************************)
EXTENDS FiniteSetsExt, LevelQueue

CONSTANTS Levels,      \* the price levels, of both sides
          Orders,      \* the slots of the pool
          MaxQty,      \* bound: quantity of an order
          Null         \* nullptr

ASSUME PriceLevelAssumption == MaxQty \in Nat /\ Null \notin Orders

VARIABLES prev, next,  \* Order::prev and next
          rem,         \* Order::remaining_qty; zero in a slot not in use
          level,       \* the PriceLevel objects
          abstract     \* what OrderBook takes each of them to be

vars == <<prev, next, rem, level, abstract>>

Pointers == Orders \cup {Null}
Queue(l) == abstract[l].queue
Resting == UNION {Range(Queue(l)) : l \in Levels}

-----------------------------------------------------------------------------
(* The list of one level, with the links of all orders: what push_back and *)
(* remove make of [prev, next, head, tail].                                *)

List(l) == [prev |-> prev, next |-> next, head |-> level[l].head, tail |-> level[l].tail]

LinkBackOneWay(x, o) ==                       (* faulty: o->prev not set *)
    [prev |-> x.prev,
     next |-> IF x.tail # Null THEN [x.next EXCEPT ![o] = Null, ![x.tail] = o]
              ELSE [x.next EXCEPT ![o] = Null],
     head |-> IF x.tail # Null THEN x.head ELSE o,
     tail |-> o]

LinkBack(x, o) ==
    [prev |-> [x.prev EXCEPT ![o] = x.tail],
     next |-> IF x.tail # Null THEN [x.next EXCEPT ![o] = Null, ![x.tail] = o]
              ELSE [x.next EXCEPT ![o] = Null],
     head |-> IF x.tail # Null THEN x.head ELSE o,
     tail |-> o]

(* o->prev->next = o->next, or head = o->next; o->next->prev = o->prev, or *)
(* tail = o->prev; then both links of o are cleared.                       *)
Unlink(x, o) ==
    LET before == x.prev[o]
        after == x.next[o]
    IN  [prev |-> IF after # Null THEN [x.prev EXCEPT ![after] = before, ![o] = Null]
                  ELSE [x.prev EXCEPT ![o] = Null],
         next |-> IF before # Null THEN [x.next EXCEPT ![before] = after, ![o] = Null]
                  ELSE [x.next EXCEPT ![o] = Null],
         head |-> IF before # Null THEN x.head ELSE after,
         tail |-> IF after # Null THEN x.tail ELSE before]

TotalKept(total, o) == total                  (* faulty: still counts o *)
TotalAfter(total, o) == total - rem[o]

AnyFills(o) == 1 .. MaxQty                    (* faulty: no minimum *)
PartialFills(o) == 1 .. rem[o] - 1            (* what leaves o something *)

-----------------------------------------------------------------------------
Init ==
    /\ prev = [o \in Orders |-> Null] /\ next = [o \in Orders |-> Null]
    /\ rem = [o \in Orders |-> 0]
    /\ level = [l \in Levels |-> [head |-> Null, tail |-> Null, total |-> 0, count |-> 0]]
    /\ abstract = [l \in Levels |-> NewLevel]

(* push_back of an order that is in no level, with q remaining. *)
PushBackOrder(l, o, q) ==
    /\ o \notin Resting
    /\ LET x == LinkBack(List(l), o)
       IN  /\ prev' = x.prev /\ next' = x.next
           /\ level' = [level EXCEPT ![l] = [head |-> x.head, tail |-> x.tail,
                                             total |-> @.total + q, count |-> @.count + 1]]
    /\ rem' = [rem EXCEPT ![o] = q]
    /\ abstract' = [abstract EXCEPT ![l] = PushBack(@, o, q)]

(* remove of an order anywhere in the level. *)
RemoveOrder(l, o) ==
    /\ o \in Range(Queue(l))
    /\ LET x == Unlink(List(l), o)
       IN  /\ prev' = x.prev /\ next' = x.next
           /\ level' = [level EXCEPT ![l] = [head |-> x.head, tail |-> x.tail,
                                             total |-> TotalAfter(@.total, o),
                                             count |-> @.count - 1]]
    /\ rem' = [rem EXCEPT ![o] = 0]
    /\ abstract' = [abstract EXCEPT ![l] = RemoveFrom(@, o, rem[o])]

(* match() fills part of the order it finds at head. *)
FillHead(l, q) ==
    LET o == level[l].head
    IN  /\ Queue(l) # <<>> /\ q \in PartialFills(o)
        /\ rem' = [rem EXCEPT ![o] = @ - q]
        /\ level' = [level EXCEPT ![l].total = @ - q]
        /\ abstract' = [abstract EXCEPT ![l].total = @ - q]
        /\ UNCHANGED <<prev, next>>

Next ==
    \/ \E l \in Levels, o \in Orders, q \in 0 .. MaxQty : PushBackOrder(l, o, q)
    \/ \E l \in Levels, o \in Orders : RemoveOrder(l, o)
    \/ \E l \in Levels, q \in 1 .. MaxQty : FillHead(l, q)

Spec == Init /\ [][Next]_vars

-----------------------------------------------------------------------------
(* Links lead to orders or nowhere, and nothing remaining wraps.           *)
TypeOK ==
    /\ prev \in [Orders -> Pointers] /\ next \in [Orders -> Pointers]
    /\ rem \in [Orders -> 0 .. MaxQty]
    /\ level \in [Levels -> [head : Pointers, tail : Pointers, total : Int, count : Int]]
    /\ abstract \in [Levels -> QueueRecords(Orders)]

(* An order is in at most one level, and there once.                       *)
Apart ==
    /\ \A l \in Levels : IsInjective(Queue(l))
    /\ \A l, m \in Levels : l # m => Range(Queue(l)) \cap Range(Queue(m)) = {}

(* From head along next, and from tail along prev, one finds the orders of *)
(* the queue and no other, whatever the orders' links were used for before *)
(* (price_level.hpp:32-64): match() reads head as the oldest order, and    *)
(* cancel() unlinks from the middle without a search.                      *)
Represents(l) ==
    LET queue == Queue(l)
        n == Len(queue)
    IN  /\ level[l].head = IF n = 0 THEN Null ELSE queue[1]
        /\ level[l].tail = IF n = 0 THEN Null ELSE queue[n]
        /\ \A i \in 1 .. n :
               /\ next[queue[i]] = IF i = n THEN Null ELSE queue[i + 1]
               /\ prev[queue[i]] = IF i = 1 THEN Null ELSE queue[i - 1]

LinksRepresentQueue == \A l \in Levels : Represents(l)

(* The totals of a level are those of the orders one reaches, after partial*)
(* fills as well (price_level.hpp:43-44, 62-63, matching_engine.cpp:83).   *)
TotalsExact ==
    \A l \in Levels :
        /\ level[l].total = SumFunctionOnSet(rem, Range(Queue(l)))
        /\ level[l].count = Len(Queue(l))

IndInv == TypeOK /\ Apart /\ LinksRepresentQueue
=============================================================================
