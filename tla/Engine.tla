------------------------------- MODULE Engine -------------------------------
(***************************************************************************)
(* engine::Engine (engine.cpp): the threads that start() creates, the rings*)
(* and the order pool between them, the journal as a log of which a prefix *)
(* is on disk, and stop(), which joins the threads one after another.      *)
(*                                                                         *)
(* A ring is the bounded queue that RingBuffer implements for one producer *)
(* (what several producers do to it is a run of RingBuffer); the journal's *)
(* buffer, which Journal models, is the records not yet flushed, and       *)
(* match(), which OrderBook models, is any trades with the orders that rest:*)
(* prices are left out.  ObjectPool is not synchronised, so its index is   *)
(* read and written in separate steps by the two threads that use it.      *)
(*                                                                         *)
(* What follows once two orders share a slot, or two producers a ring slot,*)
(* is undefined in the code; the runs that show it is reachable are those  *)
(* of SlotsNotShared here and of NoSlotRace in RingBuffer.                 *)
(* Not covered: a socket that cannot be bound (its thread ends at once), a *)
(* journal that cannot be opened, the heartbeat (a stub), and the session, *)
(* which is active for as long as the engine thread runs.                  *)
(***************************************************************************)
EXTENDS Integers, FiniteSets, SequencesExt

CONSTANTS Sources,       \* the threads that are given orders to push
          InCapacity,    \* of the inbound ring, 4096 in the code
          OutCapacity,   \* of the outbound ring, 4096 in the code
          PoolSize,      \* of the pool, 65536 in the code
          MaxQty,        \* bound: quantity of an order
          MaxLong,       \* max_long_position
          MaxShort,      \* - max_short_position
          MaxOrders,     \* bound: orders that arrive
          NoOrder, NoSlot

Producers == {"recv", "feed", "synth"}
PoolUsers == {"recv", "engine"}
Threads == Producers \cup {"send", "http", "engine"}
Slots == 0 .. PoolSize - 1

ASSUME EngineAssumption ==
    /\ Sources \subseteq Producers
    /\ InCapacity \in Nat \ {0} /\ OutCapacity \in Nat \ {0}
    /\ PoolSize \in Nat /\ MaxQty \in Nat \ {0} /\ MaxOrders \in Nat
    /\ MaxLong \in Nat /\ MaxShort \in Nat
    /\ NoSlot \notin Slots

VARIABLES
    flag,         \* Engine's, FeedHandler's and HttpServer's running_
    stop,         \* the thread stop() waits for; "no" before it, "done" after it
    pc,           \* where each thread is
    item,         \* the order a producer is about to push, the engine's inbound_order
    arrived,      \* how many orders arrived
    inbound, outbound,
    journal,      \* the records written
    flushed,      \* how many of them are on disk
    delivered,    \* the trade reports sent to a client
    net,          \* RiskState::net_position
    freeList, freeIndex,                 \* ObjectPool
    seen,         \* the value of freeIndex a thread has read
    slot,         \* the slot a thread got from allocate()
    resting,      \* the slots of orders in the book
    trades,       \* of the last match(), those still to be pushed
    discarded     \* of the last match(), the slots still to be deallocated

input == <<item, arrived, inbound>>
output == <<outbound, delivered>>
log == <<journal, flushed>>
pool == <<freeList, freeIndex, seen, slot>>
result == <<resting, trades, discarded>>
data == <<input, output, log, net, pool, result>>
vars == <<flag, stop, pc, data>>

Sides == {"Buy", "Sell"}
Order == [n : 1 .. MaxOrders, src : Sources, side : Sides, qty : 1 .. MaxQty]

At(t, label) == pc[t] = label
Go(t, label) == pc' = [pc EXCEPT ![t] = label]

-----------------------------------------------------------------------------
(* The loops: each thread tests its flag before it goes round again. *)

Up(t) == flag[IF t \in {"feed", "http"} THEN t ELSE "engine"]

Exit(t) ==
    /\ At(t, "poll") /\ ~ Up(t) /\ Go(t, "done")
    /\ UNCHANGED <<flag, stop, data>>

(* Engine::stop: one join after another. *)
Stop ==
    /\ stop = "no" /\ stop' = "recv"
    /\ flag' = [flag EXCEPT !["engine"] = FALSE]
    /\ UNCHANGED <<pc, data>>

Joined == <<"recv", "send", "feed", "http", "synth", "engine", "done">>
After(t) == Joined[1 + CHOOSE i \in 1 .. 6 : Joined[i] = t]

Join(t) ==
    /\ stop = t /\ At(t, "done") /\ stop' = After(t)
    /\ flag' = [f \in DOMAIN flag |-> flag[f] /\ f # stop']
    /\ UNCHANGED <<pc, data>>

(* HttpServer::run sits in accept() until somebody connects. *)
HttpVisit ==
    /\ At("http", "accept") /\ Go("http", IF Up("http") THEN "accept" ELSE "done")
    /\ UNCHANGED <<flag, stop, data>>

-----------------------------------------------------------------------------
(* ObjectPool: free_index_ is read, and written one step later. *)

WhenExhaustedRetry == "allocate"                           (* faulty *)
WhenExhausted == "poll"                                    (* the order is dropped *)

AllocateLoad(t) ==
    /\ At(t, "allocate")
    /\ IF freeIndex >= PoolSize
       THEN Go(t, WhenExhausted) /\ UNCHANGED seen
       ELSE Go(t, "allocated") /\ seen' = [seen EXCEPT ![t] = freeIndex]
    /\ UNCHANGED <<freeList, freeIndex, slot>>

AllocateStore(t, next) ==
    /\ At(t, "allocated") /\ Go(t, next)
    /\ freeIndex' = seen[t] + 1
    /\ slot' = [slot EXCEPT ![t] = freeList[seen[t]]]
    /\ seen' = [seen EXCEPT ![t] = 0]
    /\ UNCHANGED freeList

DeallocateLoad(t, next) ==
    /\ At(t, "deallocate")
    /\ IF freeIndex = 0
       THEN Go(t, next) /\ UNCHANGED seen
       ELSE Go(t, "deallocated") /\ seen' = [seen EXCEPT ![t] = freeIndex]
    /\ UNCHANGED <<freeList, freeIndex, slot>>

DeallocateStore(t, s, next) ==
    /\ At(t, "deallocated") /\ Go(t, next)
    /\ freeIndex' = seen[t] - 1
    /\ freeList' = [freeList EXCEPT ![seen[t] - 1] = s]
    /\ seen' = [seen EXCEPT ![t] = 0]
    /\ slot' = [slot EXCEPT ![t] = NoSlot]

-----------------------------------------------------------------------------
(* The producers.  A client's message goes to recv_loop, which decodes it  *)
(* into a slot of the pool; a quote becomes a buy order; the generator     *)
(* makes batches of orders.                                                *)
Arrive(o) ==
    /\ arrived < MaxOrders /\ o.n = arrived + 1
    /\ \/ o.src = "recv" /\ At("recv", "poll") /\ Up("recv") /\ Go("recv", "allocate")
       \/ o.src = "feed" /\ At("feed", "poll") /\ Up("feed") /\ Go("feed", "push")
             /\ o.side = "Buy"
       \/ o.src = "synth" /\ At("synth", "batch") /\ Go("synth", "push")
    /\ arrived' = o.n
    /\ item' = [item EXCEPT ![o.src] = o]
    /\ UNCHANGED <<flag, stop, inbound, output, log, net, pool, result>>

(* The slot is given back only if decoding fails. *)
RecvPool ==
    /\ \/ AllocateLoad("recv")
       \/ AllocateStore("recv", "decode")
       \/ DeallocateLoad("recv", "poll")
       \/ DeallocateStore("recv", slot["recv"], "poll")
    /\ item' = IF At("recv", "poll")' THEN [item EXCEPT !["recv"] = NoOrder] ELSE item
    /\ UNCHANGED <<flag, stop, arrived, inbound, output, log, net, result>>

RecvDecode ==
    /\ At("recv", "decode")
    /\ Go("recv", "push") \/ Go("recv", "deallocate")
    /\ UNCHANGED <<flag, stop, data>>

SynthWake ==
    /\ At("synth", "poll") /\ Up("synth") /\ Go("synth", "batch")
    /\ UNCHANGED <<flag, stop, data>>

SynthSleep ==
    /\ At("synth", "batch") /\ Go("synth", "poll")
    /\ UNCHANGED <<flag, stop, data>>

(* Pushing to a full ring, a thread spins; the generator, only for as long *)
(* as the engine is up: then it drops the order.                           *)
GivesUpNever(t) == FALSE                                   (* faulty *)
GivesUp(t) == t = "synth" /\ ~ Up(t)

Push(t) ==
    /\ At(t, "push")
    /\ \/ Len(inbound) < InCapacity /\ inbound' = Append(inbound, item[t])
       \/ Len(inbound) >= InCapacity /\ GivesUp(t) /\ UNCHANGED inbound
    /\ item' = [item EXCEPT ![t] = NoOrder]
    /\ slot' = IF t = "recv" THEN [slot EXCEPT ![t] = NoSlot] ELSE slot
    /\ Go(t, IF t = "synth" THEN "batch" ELSE "poll")
    /\ UNCHANGED <<flag, stop, arrived, output, log, net, freeList, freeIndex, seen, result>>

-----------------------------------------------------------------------------
(* Engine::run *)

WithoutNone(ring) == ring                  (* faulty: the tail is not moved *)
WithoutFirst(ring) == Tail(ring)

EnginePop ==
    /\ At("engine", "poll") /\ Up("engine") /\ inbound # <<>>
    /\ item' = [item EXCEPT !["engine"] = Head(inbound)]
    /\ inbound' = WithoutFirst(inbound)
    /\ Go("engine", "risk")
    /\ UNCHANGED <<flag, stop, arrived, output, log, net, pool, result>>

Signed(side, q) == IF side = "Buy" THEN q ELSE - q

PassesNow(o) == net \in - MaxShort .. MaxLong     (* faulty: without the order *)
Passes(o) == net + Signed(o.side, o.qty) \in - MaxShort .. MaxLong

EngineRisk ==
    /\ At("engine", "risk")
    /\ IF Passes(item["engine"])
       THEN Go("engine", "allocate") /\ UNCHANGED item
       ELSE Go("engine", "poll") /\ item' = [item EXCEPT !["engine"] = NoOrder]
    /\ UNCHANGED <<flag, stop, arrived, inbound, output, log, net, pool, result>>

EnginePool ==
    /\ AllocateLoad("engine") \/ AllocateStore("engine", "journal")
    /\ item' = IF At("engine", "poll")' THEN [item EXCEPT !["engine"] = NoOrder] ELSE item
    /\ UNCHANGED <<flag, stop, arrived, inbound, output, log, net, result>>

(* What the journal says of an order, or of one of its trades. *)
Entry(o, trade, qty) == [n |-> o.n, src |-> o.src, trade |-> trade, qty |-> qty]

(* Journal::write: it may have put the records before on disk first. *)
OnDisk(more) == {flushed} \cup (Len(journal) .. Len(journal) + more - 1)

WriteFirst(records) ==                               (* faulty: one of several *)
    /\ journal' = journal \o (IF records = <<>> THEN <<>> ELSE <<Head(records)>>)
    /\ flushed' = flushed

WriteBackwards(records) ==                           (* faulty: the last first *)
    journal' = journal \o Reverse(records) /\ flushed' \in OnDisk(Len(records))

Write(records) ==
    journal' = journal \o records /\ flushed' \in OnDisk(Len(records))

EngineJournal ==
    /\ At("engine", "journal") /\ Go("engine", "match")
    /\ Write(<<Entry(item["engine"], 0, item["engine"].qty)>>)
    /\ UNCHANGED <<flag, stop, input, output, net, pool, result>>

(* remaining_qty, which the feed handler leaves at zero. *)
Remaining(o) == IF o.src = "feed" THEN 0 ELSE o.qty

Total(qtys) == FoldLeft(+, 0, qtys)

(* match(): trades of the quantities qtys, each with another order that    *)
(* rests; those in filled leave the book, which are all but perhaps the    *)
(* last.  What is left of the order rests.                                 *)
EngineMatch(qtys, filled) ==
    LET o == item["engine"]
        s == slot["engine"]
        rests == IF Total(qtys) < Remaining(o) THEN {s} ELSE {}
    IN  /\ At("engine", "match")
        /\ Total(qtys) \in 0 .. Remaining(o)
        /\ \/ Cardinality(filled) = Len(qtys)
           \/ Cardinality(filled) = Len(qtys) - 1 /\ rests = {} /\ filled # resting
        /\ resting' = (resting \ filled) \cup rests
        /\ trades' = [i \in 1 .. Len(qtys) |-> Entry(o, i, qtys[i])]
        /\ discarded' = filled \cup ({s} \ rests)
        /\ slot' = [slot EXCEPT !["engine"] = NoSlot]
        /\ Go("engine", IF discarded' = {} THEN "report" ELSE "deallocate")
        /\ UNCHANGED <<flag, stop, input, output, log, net, freeList, freeIndex, seen>>

EngineDeallocate ==
    /\ \/ DeallocateLoad("engine", "report") /\ UNCHANGED discarded
       \/ \E s \in discarded :
              /\ DeallocateStore("engine", s, IF discarded = {s} THEN "report" ELSE "deallocate")
              /\ discarded' = discarded \ {s}
    /\ UNCHANGED <<flag, stop, input, output, log, net, resting, trades>>

(* on_fill and the trade's record in the journal, for each trade. *)
EngineReport ==
    /\ At("engine", "report") /\ Go("engine", "emit")
    /\ net' = net + Signed(item["engine"].side, Total([i \in DOMAIN trades |-> trades[i].qty]))
    /\ Write(trades)
    /\ UNCHANGED <<flag, stop, input, output, pool, result>>

OfferAlways(t) == Append(outbound, t)                      (* faulty *)
Offer(t) == IF Len(outbound) < OutCapacity THEN Append(outbound, t) ELSE outbound

(* A trade that finds the outbound ring full is dropped. *)
EngineEmit ==
    /\ At("engine", "emit") /\ trades # <<>>
    /\ outbound' = Offer(Head(trades))
    /\ trades' = Tail(trades)
    /\ UNCHANGED <<flag, stop, pc, input, delivered, log, net, pool, resting, discarded>>

(* The end of the iteration, with a checkpoint every so many orders. *)
EngineNext ==
    /\ At("engine", "emit") /\ trades = <<>> /\ Go("engine", "poll")
    /\ flushed' \in {flushed, Len(journal)}
    /\ item' = [item EXCEPT !["engine"] = NoOrder]
    /\ UNCHANGED <<flag, stop, arrived, inbound, output, journal, net, pool, result>>

(* send_loop reads the ring only while a client is connected, and what is  *)
(* sent to a client that has gone is lost.                                 *)
SendPop(received) ==
    /\ At("send", "poll") /\ Up("send") /\ outbound # <<>>
    /\ delivered' = IF received THEN Append(delivered, Head(outbound)) ELSE delivered
    /\ outbound' = Tail(outbound)
    /\ UNCHANGED <<flag, stop, pc, input, log, net, pool, result>>

-----------------------------------------------------------------------------
Init ==
    /\ flag = [f \in {"engine", "feed", "http"} |-> TRUE] /\ stop = "no"
    /\ pc = [t \in Threads |-> IF t = "http" THEN "accept" ELSE "poll"]
    /\ item = [t \in Producers \cup {"engine"} |-> NoOrder]
    /\ arrived = 0 /\ inbound = <<>> /\ outbound = <<>>
    /\ journal = <<>> /\ flushed = 0 /\ delivered = <<>> /\ net = 0
    /\ freeList = [i \in Slots |-> i] /\ freeIndex = 0
    /\ seen = [t \in PoolUsers |-> 0] /\ slot = [t \in PoolUsers |-> NoSlot]
    /\ resting = {} /\ trades = <<>> /\ discarded = {}

Quantities == UNION {[1 .. k -> 1 .. MaxQty] : k \in 0 .. MaxQty}

(* What a thread does whenever it is scheduled. *)
Runs(t) ==
    \/ Exit(t)
    \/ t \in Producers /\ Push(t)
    \/ t = "recv" /\ (RecvPool \/ RecvDecode)
    \/ t = "synth" /\ (SynthWake \/ SynthSleep)
    \/ /\ t = "engine"
       /\ \/ EnginePop \/ EngineRisk \/ EnginePool \/ EngineJournal
          \/ \E qtys \in Quantities, filled \in SUBSET resting : EngineMatch(qtys, filled)
          \/ EngineDeallocate \/ EngineReport \/ EngineEmit \/ EngineNext

Next ==
    \/ \E t \in Threads : Runs(t) \/ Join(t)
    \/ \E o \in Order : Arrive(o)
    \/ \E received \in BOOLEAN : SendPop(received)
    \/ HttpVisit
    \/ Stop

(* Each thread keeps running and somebody always visits the dashboard, but *)
(* no client needs to send or to read, and stop() may never be called.     *)
Fairness ==
    /\ \A t \in Threads : WF_vars(Runs(t)) /\ WF_vars(Join(t))
    /\ WF_vars(HttpVisit)

Spec == Init /\ [][Next]_vars /\ Fairness

-----------------------------------------------------------------------------
Entries == [n : 1 .. MaxOrders, src : Sources, trade : 0 .. MaxQty, qty : 1 .. MaxQty]
Labels == {"poll", "allocate", "allocated", "decode", "push", "deallocate", "deallocated",
           "batch", "risk", "journal", "match", "report", "emit", "accept", "done"}

(* The state keeps to its types, the rings to their capacities, the pool's *)
(* index to its array, and what is on disk to what was written.            *)
TypeOK ==
    /\ flag \in [{"engine", "feed", "http"} -> BOOLEAN]
    /\ stop \in {"no"} \cup Range(Joined) /\ pc \in [Threads -> Labels]
    /\ item \in [Producers \cup {"engine"} -> Order \cup {NoOrder}]
    /\ arrived \in 0 .. MaxOrders
    /\ inbound \in Seq(Order) /\ Len(inbound) <= InCapacity
    /\ {outbound, delivered, trades, journal} \subseteq Seq(Entries)
    /\ Len(outbound) <= OutCapacity /\ flushed \in 0 .. Len(journal)
    /\ net \in Int
    /\ freeList \in [Slots -> Slots] /\ freeIndex \in 0 .. PoolSize
    /\ seen \in [PoolUsers -> 0 .. PoolSize]
    /\ slot \in [PoolUsers -> Slots \cup {NoSlot}]
    /\ resting \subseteq Slots /\ discarded \subseteq Slots

Reported == delivered \o outbound

(* No trade is on its way to a client, or with it, that the journal does   *)
(* not have, after the order that caused it (engine.cpp:94-115).           *)
JournalBeforeReport ==
    \A e \in Range(Reported) :
        \E i, j \in DOMAIN journal :
            i < j /\ journal[i].n = e.n /\ journal[i].trade = 0 /\ journal[j] = e

(* Trades reach clients in the order of the journal and never twice, even  *)
(* if some are dropped or lost on the way (engine.cpp:104-115, 270-277).   *)
ReportsOrdered ==
    \A i, j \in DOMAIN Reported :
        i < j => \E k, l \in DOMAIN journal :
                     k < l /\ journal[k] = Reported[i] /\ journal[l] = Reported[j]

(* The journal has each order at most once, and those of one thread in the *)
(* order in which they arrived (engine.cpp:65, 94-99).                     *)
OrdersOnce ==
    \A i, j \in DOMAIN journal :
        (i < j /\ journal[i].trade = 0 /\ journal[j].trade = 0) =>
            /\ journal[i].n # journal[j].n
            /\ journal[i].src = journal[j].src => journal[i].n < journal[j].n

(* The net position stays within the limits at every step, though an order *)
(* is checked before it trades and by its whole quantity (risk.hpp:35-39). *)
RiskBounded == net \in - MaxShort .. MaxLong

(* A slot is never with two orders: one that recv_loop decodes, one that   *)
(* the engine is about to match, those in the book (memory.hpp:75-76).     *)
SlotsNotShared ==
    /\ slot["recv"] # NoSlot => slot["recv"] \notin resting \cup discarded \cup {slot["engine"]}
    /\ slot["engine"] # NoSlot => slot["engine"] \notin resting

InFlight(n) == \E o \in Range(inbound) \cup {item["engine"]} : o # NoOrder /\ o.n = n

(* An order that has entered the ring is dealt with while the engine runs, *)
(* whoever else reads, sends or visits, and with the pool exhausted        *)
(* (README.md:23, engine.cpp:89-91, 115).                                  *)
EngineNeverStalls == \A n \in 1 .. MaxOrders : InFlight(n) ~> (~ Up("engine") \/ ~ InFlight(n))

(* stop() returns, if somebody visits the dashboard.                       *)
StopReturns == (stop # "no") ~> (stop = "done")

(* stop() returns, unless the order entry or the feed handler waits for    *)
(* room in the ring (engine.cpp:163-188, 236, feed_handler.hpp:85).        *)
StopReturnsOrFull ==
    (stop # "no") ~>
        \/ stop = "done"
        \/ Len(inbound) >= InCapacity /\ (At("recv", "push") \/ At("feed", "push"))
=============================================================================
