------------------------------- MODULE Ingress ------------------------------
(***************************************************************************)
(* Orders on their way in: clients' messages (OrderEntry) and the quotes of*)
(* the market feed (MarketFeed) meet in the inbound ring, from which the   *)
(* engine thread takes them.  A full ring holds both threads up, each with *)
(* its order in hand.                                                      *)
(*                                                                         *)
(* The ring is the bounded queue of BoundedQueue; what happens when both   *)
(* threads push at once is the matter of RingBuffer.  Match() is that the  *)
(* order rests or not, and takes resting orders with it.                   *)
(***************************************************************************)
EXTENDS OrderEntry, MarketFeed

CONSTANT Capacity        \* of the inbound ring

ASSUME IngressAssumption == Capacity \in Nat \ {0}

VARIABLES inbound,       \* the ring
          popped         \* the orders the engine thread has taken

Item(src, n) == [src |-> src, n |-> n]

PushDropping(item, pushed) ==                 (* faulty: drops what does not fit *)
    /\ pushed
    /\ inbound' = IF Len(inbound) < Capacity THEN Append(inbound, item) ELSE inbound
Push(item, pushed) ==
    /\ pushed /\ Len(inbound) < Capacity
    /\ inbound' = Append(inbound, item)

(* Engine::run: the pop, and the slot of the pool that the order has until *)
(* it is filled.  What rests in the book may be filled, and freed, by it.  *)
Pop ==
    /\ ~ failed /\ inbound # <<>>
    /\ inbound' = Tail(inbound) /\ popped' = Append(popped, Head(inbound))
    /\ resting' \in IF Exhausted THEN {resting} ELSE 0 .. resting + 1
    /\ UNCHANGED <<sent, read, order, leaked, failed, whole, feed>>

Init == EntryInit /\ FeedInit /\ inbound = <<>> /\ popped = <<>>

Next ==
    \/ ClientSends /\ UNCHANGED <<feed, inbound, popped>>
    \/ \E k \in 1 .. BufParts : Recv(k) /\ UNCHANGED <<feed, inbound, popped>>
    \/ Reconnect /\ UNCHANGED <<feed, inbound, popped>>
    \/ Push(Item("recv", order), EntryPushed) /\ UNCHANGED <<feed, popped>>
    \/ \E s \in Datagrams : ~ failed /\ Datagram(s) /\ UNCHANGED <<entry, inbound, popped>>
    \/ ~ failed /\ Push(Item("feed", feedOrder), FeedPushed) /\ UNCHANGED <<entry, popped>>
    \/ Pop

Spec == Init /\ [][Next]_<<entry, feed, inbound, popped>>

-----------------------------------------------------------------------------
(* The orders in the ring and those the engine has taken, oldest first.    *)
Pushed == popped \o inbound
ByClient(k) == Pushed[k].src = "recv"

(* However the stream is cut into pieces, what reaches the engine, and the *)
(* one in hand after it, are messages that clients have sent to the end, in*)
(* the order they sent them and none twice                                 *)
(* (engine.cpp:221-242, codec.hpp:67-94).                                  *)
OrdersGenuine ==
    /\ \A k \in DOMAIN Pushed : ByClient(k) => Parts * Pushed[k].n <= sent
    /\ \A i, k \in DOMAIN Pushed :
           (i < k /\ ByClient(i) /\ ByClient(k)) => Pushed[i].n < Pushed[k].n
    /\ order # NoMessage =>
           /\ Parts * order <= sent
           /\ \A k \in DOMAIN Pushed : ByClient(k) => Pushed[k].n < order

(* The messages that recv_loop took for orders, wherever they are now.     *)
ClientOrders == {Pushed[k].n : k \in {i \in DOMAIN Pushed : ByClient(i)}}
FromClients == ClientOrders \cup ({order} \ {NoMessage})

(* A client whose messages are read one at a time loses none, whatever the *)
(* ring and the feed do meanwhile, as long as the pool has slots; that they*)
(* stay in order, none twice, is OrdersGenuine (engine.cpp:234-238).       *)
WholeReadsKept == whole => FromClients = 1 .. read \div Parts
=============================================================================
