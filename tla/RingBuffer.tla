----------------------------- MODULE RingBuffer -----------------------------
(***************************************************************************)
(* core::RingBuffer (include/core/ring_buffer.hpp): the ring of slots and  *)
(* two free-running indices that carries orders to the engine thread and   *)
(* trades away from it.                                                    *)
(*                                                                         *)
(* Each atomic load or store and each slot access is a step of its own, so *)
(* a push and a pop interleave as the two threads do.  Indices are         *)
(* size_t: they wrap at IndexMod, a multiple of Capacity as 2^64 is of a   *)
(* power of two.  An acquire load returns any value the other thread has   *)
(* stored since the one last seen (the modification order of one atomic).  *)
(*                                                                         *)
(* Covered: push, pop, and the two ways callers treat a full ring: to spin *)
(* (engine.cpp:163 and 236, feed_handler.hpp:85) or to give up             *)
(* (engine.cpp:115).  Not covered: size() and empty(), which only the      *)
(* tests call.                                                             *)
(***************************************************************************)
EXTENDS Integers, Sequences

CONSTANTS Producers,   \* threads that call push
          Spinners,    \* those of them that retry when the ring is full
          Items,       \* what is pushed
          NoItem,      \* an item variable or a slot before its first write
          Capacity,    \* number of slots
          Laps         \* IndexMod = Capacity * Laps stands for 2^64

IndexMod == Capacity * Laps

ASSUME RingAssumption ==
    /\ Spinners \subseteq Producers
    /\ NoItem \notin Items
    /\ Capacity \in Nat \ {0}
    /\ Laps \in Nat
    /\ IndexMod > Capacity + 1

VARIABLES
    head, tail,   \* the two atomics
    buffer,       \* the slots
    ppc,          \* where each producer is in push: idle, check, write, publish
    pitem,        \* the argument of its push
    ptail,        \* its current_tail
    headSeen,     \* the last value of head its acquire load returned
    cpc,          \* where the consumer is in pop: check, read, release
    citem,        \* the consumer's item, assigned by pop
    tailSeen      \* the last value of tail its acquire load returned

producerVars == <<ppc, pitem, ptail, headSeen>>
consumerVars == <<cpc, citem, tailSeen>>
vars == <<head, tail, buffer, producerVars, consumerVars>>

-----------------------------------------------------------------------------
(* Unsigned arithmetic on indices, and the mask that selects a slot. *)

Index == 0 .. IndexMod - 1
IncNoWrap(i) == i + 1                                   (* faulty: no wrap *)
Inc(i) == IF i + 1 = IndexMod THEN 0 ELSE i + 1
Diff(i, j) == IF i >= j THEN i - j ELSE i - j + IndexMod
Plus(i, k) == IF i + k < IndexMod THEN i + k ELSE i + k - IndexMod
Slot(i) == i % Capacity

HasRoomOneLate(t, h) == Diff(Inc(t), h) <= Capacity + 1 (* faulty: off by one *)

(* Room for one more: the guard of push, on the head the caller has seen.  *)
HasRoom(t, h) == Diff(Inc(t), h) <= Capacity

(* The values of an index, once at old, that a load may return now.        *)
SeenSince(old, now) == {Plus(old, k) : k \in 0 .. Diff(now, old)}

-----------------------------------------------------------------------------
Init ==
    /\ head = 0 /\ tail = 0
    /\ buffer = [s \in 0 .. Capacity - 1 |-> NoItem]
    /\ ppc = [p \in Producers |-> "idle"]
    /\ pitem = [p \in Producers |-> NoItem]
    /\ ptail = [p \in Producers |-> 0]
    /\ headSeen = [p \in Producers |-> 0]
    /\ cpc = "check" /\ citem = NoItem /\ tailSeen = 0

(* push(x) is called. *)
PushStart(p, x) ==
    /\ ppc[p] = "idle"
    /\ ppc' = [ppc EXCEPT ![p] = "check"]
    /\ pitem' = [pitem EXCEPT ![p] = x]
    /\ UNCHANGED <<head, tail, buffer, ptail, headSeen, consumerVars>>

(* Faulty: push keeps using the head it first saw. *)
PushCheckCached(p, h) ==
    /\ ppc[p] = "check" /\ h = headSeen[p]
    /\ ptail' = [ptail EXCEPT ![p] = tail]
    /\ ppc' = [ppc EXCEPT ![p] = IF HasRoom(tail, h) THEN "write" ELSE "check"]
    /\ UNCHANGED <<head, tail, buffer, pitem, headSeen, consumerVars>>

(* The loads of tail and head and the test for a full ring.  On a full ring*)
(* push returns false and its caller calls again or drops the item.        *)
PushCheck(p, h) ==
    /\ ppc[p] = "check"
    /\ h \in SeenSince(headSeen[p], head)
    /\ ptail' = [ptail EXCEPT ![p] = tail]
    /\ headSeen' = [headSeen EXCEPT ![p] = h]
    /\ ppc' = [ppc EXCEPT ![p] = IF HasRoom(tail, h) THEN "write"
                                 ELSE IF p \in Spinners THEN "check" ELSE "idle"]
    /\ UNCHANGED <<head, tail, buffer, pitem, consumerVars>>

PushWrite(p) ==
    /\ ppc[p] = "write"
    /\ buffer' = [buffer EXCEPT ![Slot(ptail[p])] = pitem[p]]
    /\ ppc' = [ppc EXCEPT ![p] = "publish"]
    /\ UNCHANGED <<head, tail, pitem, ptail, headSeen, consumerVars>>

(* The release store of next_tail: the item becomes visible to the consumer.*)
PushPublish(p) ==
    /\ ppc[p] = "publish"
    /\ tail' = Inc(ptail[p])
    /\ ppc' = [ppc EXCEPT ![p] = "idle"]
    /\ UNCHANGED <<head, buffer, pitem, ptail, headSeen, consumerVars>>

(* Faulty: pop keeps using the tail it first saw. *)
PopCheckCached(t) ==
    /\ cpc = "check" /\ t = tailSeen
    /\ cpc' = IF head = t THEN "check" ELSE "read"
    /\ UNCHANGED <<head, tail, buffer, producerVars, citem, tailSeen>>

(* The loads of head and tail and the test for an empty ring.  The engine  *)
(* polls: a pop that returns false is called again (engine.cpp:65-66).     *)
PopCheck(t) ==
    /\ cpc = "check"
    /\ t \in SeenSince(tailSeen, tail)
    /\ tailSeen' = t
    /\ cpc' = IF head = t THEN "check" ELSE "read"
    /\ UNCHANGED <<head, tail, buffer, producerVars, citem>>

PopRead ==
    /\ cpc = "read"
    /\ citem' = buffer[Slot(head)]
    /\ cpc' = "release"
    /\ UNCHANGED <<head, tail, buffer, producerVars, tailSeen>>

(* Faulty: releases everything the consumer has seen. *)
PopReleaseAll ==
    /\ cpc = "release"
    /\ head' = tailSeen
    /\ cpc' = "check"
    /\ UNCHANGED <<tail, buffer, producerVars, citem, tailSeen>>

(* The release store of head: the slot may be overwritten. *)
PopRelease ==
    /\ cpc = "release"
    /\ head' = Inc(head)
    /\ cpc' = "check"
    /\ UNCHANGED <<tail, buffer, producerVars, citem, tailSeen>>

Push(p) ==
    \/ \E x \in Items : PushStart(p, x)
    \/ \E h \in Index : PushCheck(p, h)
    \/ PushWrite(p)
    \/ PushPublish(p)

Pop == (\E t \in Index : PopCheck(t)) \/ PopRead \/ PopRelease

Next == (\E p \in Producers : Push(p)) \/ Pop

(* A thread inside push or pop keeps running, and a store becomes visible  *)
(* to a thread that keeps loading (C++ asks implementations for both); that*)
(* anything is pushed at all is not assumed.                               *)
Fairness ==
    /\ \A p \in Producers : /\ WF_vars(PushCheck(p, head))
                            /\ WF_vars(PushWrite(p) \/ PushPublish(p))
    /\ WF_vars(PopCheck(tail))
    /\ WF_vars(PopRead \/ PopRelease)

Spec == Init /\ [][Next]_vars
FairSpec == Spec /\ Fairness

-----------------------------------------------------------------------------
(* Every variable keeps to the values of its C++ type, and no index leaves *)
(* its range.                                                              *)
TypeOK ==
    /\ head \in Index /\ tail \in Index
    /\ buffer \in [0 .. Capacity - 1 -> Items \cup {NoItem}]
    /\ ppc \in [Producers -> {"idle", "check", "write", "publish"}]
    /\ pitem \in [Producers -> Items \cup {NoItem}]
    /\ ptail \in [Producers -> Index]
    /\ headSeen \in [Producers -> Index]
    /\ cpc \in {"check", "read", "release"}
    /\ citem \in Items \cup {NoItem}
    /\ tailSeen \in Index

(* No data race on a slot: while a producer assigns buffer_[current_tail & *)
(* kMask] no other thread is assigning or copying that slot                *)
(* (ring_buffer.hpp:38 against 38 and 56).                                 *)
NoSlotRace ==
    \A p \in Producers : ppc[p] = "write" =>
        /\ \A q \in Producers \ {p} :
               ppc[q] = "write" => Slot(ptail[q]) # Slot(ptail[p])
        /\ cpc = "read" => Slot(head) # Slot(ptail[p])

(* The slots hold a FIFO queue: the items between head and tail, except the*)
(* one the consumer has copied and not yet released.                       *)
Front == IF cpc = "release" THEN Inc(head) ELSE head
Queue == [k \in 1 .. Diff(tail, Front) |-> buffer[Slot(Plus(Front, k - 1))]]

Abstract == INSTANCE BoundedQueue WITH queue <- Queue, popped <- citem

(* Why it holds, for one producer: an index a thread has seen lies between *)
(* the other thread's index and its own, the two are never more than       *)
(* Capacity apart, and a written slot waits for its store of tail.         *)
IndicesOK ==
    /\ Diff(tail, head) <= Capacity
    /\ Diff(tail, tailSeen) <= Diff(tail, head)
    /\ cpc # "check" => tailSeen # head

ProducerOK(p) ==
    /\ Diff(tail, headSeen[p]) <= Capacity
    /\ Diff(tail, head) <= Diff(tail, headSeen[p])
    /\ ppc[p] # "idle" => pitem[p] \in Items
    /\ ppc[p] \in {"write", "publish"} =>
           ptail[p] = tail /\ HasRoom(tail, headSeen[p])
    /\ ppc[p] = "publish" => buffer[Slot(tail)] = pitem[p]

IndInv ==
    /\ TypeOK
    /\ IndicesOK
    /\ \A p \in Producers : ProducerOK(p)

(* push and pop behave as the push and pop of a bounded FIFO queue, taking *)
(* effect at the store of tail and at the copy out of the slot: nothing is *)
(* lost, duplicated, reordered or read before it is written.               *)
ImplementsQueue == Abstract!Spec

(* A producer that spins on a full ring gets its item in, because the      *)
(* consumer frees a slot and the producer sees it (engine.cpp:236).        *)
PushCompletes ==
    \A p \in Spinners : ppc[p] = "check" ~> ppc[p] = "idle"

(* Everything that is published is taken: head reaches every value that    *)
(* tail has had (engine.cpp:65).                                           *)
EverythingConsumed ==
    \A i \in Index : tail = i ~> head = i
=============================================================================
