---------------------------- MODULE PriceTimeBook ---------------------------
(***************************************************************************)
(* What the matching engine promises a trader: price-time priority.  The   *)
(* book is a set of resting orders; the incoming order trades, while it    *)
(* crosses, with the resting order no other has priority over, at that     *)
(* order's price, and what is left of it rests.  No queues, no levels, no  *)
(* caches: OrderBook.tla implements this specification with them.          *)
(***************************************************************************)
EXTENDS Integers

CONSTANTS Ids, Prices, MaxQty, NoOrder, NoTrade

VARIABLES resting,    \* the orders in the book
          incoming,   \* the order being matched, or NoOrder
          trade,      \* the last trade
          clock       \* the last timestamp given to an order

vars == <<resting, incoming, trade, clock>>

Sides == {"Buy", "Sell"}

Better(side, p, q) == IF side = "Buy" THEN p > q ELSE p < q

(* r rests on the other side of o at a price o accepts. *)
Crosses(o, r) == r.side # o.side /\ ~ Better(r.side, o.price, r.price)

(* Price, then time. *)
Precedes(q, r) ==
    /\ q.side = r.side
    /\ \/ Better(q.side, q.price, r.price)
       \/ q.price = r.price /\ q.stamp < r.stamp

Lesser(m, n) == IF m < n THEN m ELSE n

Init ==
    /\ resting = {}
    /\ incoming = NoOrder /\ trade = NoTrade /\ clock = 0

(* The orders that may come next. *)
NewOrders ==
    [id : Ids, side : Sides, price : Prices, rem : 0 .. MaxQty, stamp : {clock + 1}]

Submit ==
    /\ incoming = NoOrder
    /\ incoming' \in NewOrders
    /\ clock' = clock + 1
    /\ UNCHANGED <<resting, trade>>

(* An order put into the book as it is, whatever it meets there. *)
Place ==
    /\ incoming = NoOrder
    /\ clock' = clock + 1
    /\ UNCHANGED <<incoming, trade>>
    /\ \E o \in resting' : o \in NewOrders /\ resting' = resting \cup {o}

Trade(r) ==
    LET o == incoming
        q == Lesser(o.rem, r.rem)
    IN  /\ o # NoOrder /\ o.rem > 0
        /\ r \in resting /\ Crosses(o, r)
        /\ \A s \in resting : ~ Precedes(s, r)
        /\ trade' = [aggressive |-> o.id, passive |-> r.id, price |-> r.price, qty |-> q]
        /\ incoming' = [o EXCEPT !.rem = @ - q]
        /\ resting' = (resting \ {r}) \cup
                          IF q = r.rem THEN {} ELSE {[r EXCEPT !.rem = @ - q]}
        /\ UNCHANGED clock

(* Nothing is left of the incoming order, or nothing it can trade with. *)
Rest ==
    LET o == incoming
    IN  /\ o # NoOrder
        /\ o.rem > 0 => \A r \in resting : ~ Crosses(o, r)
        /\ incoming' = NoOrder
        /\ resting' = resting \cup IF o.rem = 0 THEN {} ELSE {o}
        /\ UNCHANGED <<trade, clock>>

Cancel(r) ==
    /\ incoming = NoOrder /\ r \in resting
    /\ resting' = resting \ {r}
    /\ UNCHANGED <<incoming, trade, clock>>

(* A new quantity at the same price costs the order its place in time. *)
Amend(r, q) ==
    /\ incoming = NoOrder /\ r \in resting
    /\ clock' = clock + 1
    /\ UNCHANGED <<incoming, trade>>
    /\ resting' = (resting \ {r}) \cup {[r EXCEPT !.rem = q, !.stamp = clock + 1]}

Next ==
    \/ Submit
    \/ Place
    \/ \E r \in resting : Trade(r)
    \/ Rest
    \/ \E r \in resting : Cancel(r)
    \/ \E r \in resting, q \in 0 .. MaxQty : Amend(r, q)

Spec == Init /\ [][Next]_vars
=============================================================================
