---------------------------- MODULE EngineProofs ----------------------------
(***************************************************************************)
(* The safety of the engine's threads, for any number of orders, sizes of  *)
(* the rings and of the pool, and limits: types, the journal before the    *)
(* reports, the order of the reports, each order once in the journal, and  *)
(* the position within its limits.                                         *)
(***************************************************************************)
EXTENDS Engine, TLAPS

(* Where a producer has an order, and the engine one.                      *)
Carries(t) ==
    \/ At(t, "push")
    \/ t = "recv" /\ pc[t] \in {"allocate", "allocated", "decode"}
Unjournaled == pc["engine"] \in {"risk", "allocate", "allocated", "journal"}
Matched == pc["engine"] \in {"deallocate", "deallocated", "report"}
Works == Unjournaled \/ At("engine", "match") \/ Matched

Control ==
    /\ flag \in [{"engine", "feed", "http"} -> BOOLEAN]
    /\ stop \in {"no"} \cup Range(Joined) /\ pc \in [Threads -> Labels]

Hands ==
    /\ item \in [Producers \cup {"engine"} -> Order \cup {NoOrder}]
    /\ arrived \in 0 .. MaxOrders
    /\ inbound \in Seq(Order) /\ Len(inbound) <= InCapacity
    /\ \A t \in Producers : Carries(t) => item[t] \in Order
    /\ Works => item["engine"] \in Order

Lists ==
    /\ outbound \in Seq(Entries) /\ delivered \in Seq(Entries)
    /\ trades \in Seq(Entries) /\ journal \in Seq(Entries)
    /\ Len(outbound) <= OutCapacity /\ flushed \in 0 .. Len(journal)

PoolInBounds ==
    /\ freeList \in [Slots -> Slots] /\ freeIndex \in 0 .. PoolSize
    /\ seen \in [PoolUsers -> 0 .. PoolSize]
    /\ slot \in [PoolUsers -> Slots \cup {NoSlot}]
    /\ resting \subseteq Slots /\ discarded \subseteq Slots
    /\ \A t \in PoolUsers : /\ At(t, "allocated") => seen[t] < PoolSize
                            /\ At(t, "deallocated") => seen[t] > 0
    /\ pc["recv"] \in {"decode", "deallocate", "deallocated"} => slot["recv"] \in Slots
    /\ pc["engine"] \in {"journal", "match"} => slot["engine"] \in Slots

(* The orders a trade adds up to, and the limits they are checked against. *)
WithinLimits ==
    /\ RiskBounded
    /\ Works /\ ~ At("engine", "risk") => Passes(item["engine"])
    /\ Matched => Total([i \in DOMAIN trades |-> trades[i].qty]) \in 0 .. item["engine"].qty

TypeInv == Control /\ Hands /\ Lists /\ PoolInBounds

USE EngineAssumption

-----------------------------------------------------------------------------
LEMMA Afterwards == \A t \in Threads : After(t) \in Range(Joined)
<1> TAKE t \in Threads
<1>1. \E i \in 1 .. 6 : Joined[i] = t
  <2>1. /\ Joined[1] = "recv" /\ Joined[2] = "send" /\ Joined[3] = "feed"
        /\ Joined[4] = "http" /\ Joined[5] = "synth" /\ Joined[6] = "engine"
    BY DEF Joined
  <2>2. t \in {"recv", "send", "feed", "http", "synth", "engine"}
    BY DEF Threads, Producers
  <2> QED BY <2>1, <2>2
<1> DEFINE k == CHOOSE i \in 1 .. 6 : Joined[i] = t
<1>2. k \in 1 .. 6
  BY <1>1
<1> HIDE DEF k
<1>3. 1 + k \in DOMAIN Joined
  BY <1>2 DEF Joined
<1>4. After(t) = Joined[1 + k]
  BY DEF After, k
<1> QED BY <1>3, <1>4 DEF Range

LEMMA ControlKept ==
    ASSUME Control, [Next]_vars
    PROVE  Control'
<1> USE DEF Control, Go, Labels
<1>1. ASSUME NEW t \in Threads, Exit(t) PROVE Control'
  BY <1>1 DEF Exit
<1>2. CASE Stop
  <2>1. "recv" \in Range(Joined)
    BY DEF Joined, Range
  <2> QED BY <1>2, <2>1 DEF Stop
<1>3. ASSUME NEW t \in Threads, Join(t) PROVE Control'
  <2>1. stop' \in Range(Joined)
    BY <1>3, Afterwards DEF Join
  <2> QED BY <1>3, <2>1 DEF Join
<1>4. CASE HttpVisit
  BY <1>4 DEF HttpVisit
<1>5. ASSUME NEW o \in Order, Arrive(o) PROVE Control'
  BY <1>5 DEF Arrive
<1>6. CASE RecvPool
  BY <1>6 DEF RecvPool, AllocateLoad, AllocateStore, DeallocateLoad, DeallocateStore, WhenExhausted
<1>7. CASE RecvDecode \/ SynthWake \/ SynthSleep
  BY <1>7 DEF RecvDecode, SynthWake, SynthSleep
<1>8. ASSUME NEW t \in Producers, Push(t) PROVE Control'
  BY <1>8 DEF Push
<1>9. CASE EnginePop \/ EngineRisk \/ EngineJournal \/ EngineReport \/ EngineEmit \/ EngineNext
  BY <1>9 DEF EnginePop, EngineRisk, EngineJournal, EngineReport, EngineEmit, EngineNext
<1>10. CASE EnginePool
  BY <1>10 DEF EnginePool, AllocateLoad, AllocateStore, WhenExhausted
<1>11. ASSUME NEW qtys \in Quantities, NEW filled \in SUBSET resting, EngineMatch(qtys, filled)
       PROVE Control'
  <2>1. /\ flag' = flag /\ stop' = stop
        /\ Go("engine", "report") \/ Go("engine", "deallocate")
    BY <1>11 DEF EngineMatch
  <2> QED BY <2>1
<1>12. CASE EngineDeallocate
  BY <1>12 DEF EngineDeallocate, DeallocateLoad, DeallocateStore
<1>13. ASSUME NEW received \in BOOLEAN, SendPop(received) PROVE Control'
  BY <1>13 DEF SendPop
<1>14. CASE UNCHANGED vars
  BY <1>14 DEF vars
<1> QED
  BY <1>1, <1>2, <1>3, <1>4, <1>5, <1>6, <1>7, <1>8, <1>9, <1>10, <1>11, <1>12, <1>13, <1>14
     DEF Next, Runs

LEMMA HandsKept ==
    ASSUME Control, Hands, [Next]_vars
    PROVE  Hands'
<1> USE DEF Control, Hands, Go, At, Carries, Works, Unjournaled, Matched
<1>0. Threads = {"recv", "feed", "synth", "send", "http", "engine"} /\ Producers \subseteq Threads
  BY DEF Threads, Producers
<1>1. ASSUME NEW t \in Threads, Exit(t) PROVE Hands'
  BY <1>0, <1>1 DEF Exit, data, input, Producers
<1>2. CASE Stop
  BY <1>2 DEF Stop, data, input
<1>3. ASSUME NEW t \in Threads, Join(t) PROVE Hands'
  BY <1>3 DEF Join, data, input
<1>4. CASE HttpVisit
  BY <1>0, <1>4 DEF HttpVisit, data, input, Producers
<1>5. ASSUME NEW o \in Order, Arrive(o) PROVE Hands'
  <2>1. /\ o.src \in Producers /\ item' = [item EXCEPT ![o.src] = o]
        /\ \E label \in {"allocate", "push"} : Go(o.src, label)
        /\ arrived' = o.n /\ o.n \in 1 .. MaxOrders /\ inbound' = inbound
    BY <1>5 DEF Arrive, Producers, Order
  <2> QED BY <1>0, <1>5, <2>1 DEF Producers
<1>6. CASE RecvPool
  <2>1. /\ arrived' = arrived /\ inbound' = inbound
        /\ item' = IF At("recv", "poll")' THEN [item EXCEPT !["recv"] = NoOrder] ELSE item
    BY <1>6 DEF RecvPool
  <2>2. \/ At("recv", "allocate") /\ (Go("recv", "poll") \/ Go("recv", "allocated"))
        \/ At("recv", "allocated") /\ Go("recv", "decode")
        \/ Go("recv", "poll") \/ Go("recv", "deallocated")
    BY <1>6 DEF RecvPool, AllocateLoad, AllocateStore, DeallocateLoad, DeallocateStore, WhenExhausted
  <2> QED BY <1>0, <2>1, <2>2 DEF Producers
<1>7. CASE RecvDecode \/ SynthWake \/ SynthSleep
  BY <1>0, <1>7 DEF RecvDecode, SynthWake, SynthSleep, data, input, Producers
<1>8. ASSUME NEW t \in Producers, Push(t) PROVE Hands'
  <2>1. /\ At(t, "push") /\ item' = [item EXCEPT ![t] = NoOrder] /\ arrived' = arrived
        /\ Go(t, IF t = "synth" THEN "batch" ELSE "poll")
        /\ \/ Len(inbound) < InCapacity /\ inbound' = Append(inbound, item[t])
           \/ inbound' = inbound
    BY <1>8 DEF Push
  <2>2. item[t] \in Order
    BY <1>8, <2>1
  <2>3. inbound' \in Seq(Order) /\ Len(inbound') <= InCapacity
    BY <2>1, <2>2
  <2> QED BY <1>0, <1>8, <2>1, <2>3 DEF Producers
<1>9. CASE EnginePop
  <2>1. Head(inbound) \in Order /\ Tail(inbound) \in Seq(Order) /\ Len(Tail(inbound)) <= InCapacity
    BY <1>9 DEF EnginePop
  <2> QED BY <1>0, <1>9, <2>1 DEF EnginePop, WithoutFirst, Producers
<1>10. CASE EngineRisk
  BY <1>0, <1>10 DEF EngineRisk, Producers
<1>11. CASE EnginePool
  BY <1>0, <1>11 DEF EnginePool, AllocateLoad, AllocateStore, WhenExhausted, Producers
<1>12. CASE EngineJournal \/ EngineReport \/ EngineEmit \/ EngineNext
  BY <1>0, <1>12 DEF EngineJournal, EngineReport, EngineEmit, EngineNext, input, Producers
<1>13. ASSUME NEW qtys \in Quantities, NEW filled \in SUBSET resting, EngineMatch(qtys, filled)
       PROVE Hands'
  <2>1. /\ UNCHANGED input /\ At("engine", "match")
        /\ Go("engine", "report") \/ Go("engine", "deallocate")
    BY <1>13 DEF EngineMatch
  <2> QED BY <1>0, <2>1 DEF input, Producers
<1>14. CASE EngineDeallocate
  BY <1>0, <1>14 DEF EngineDeallocate, DeallocateLoad, DeallocateStore, input, Producers
<1>15. ASSUME NEW received \in BOOLEAN, SendPop(received) PROVE Hands'
  BY <1>15 DEF SendPop, input
<1>16. CASE UNCHANGED vars
  BY <1>16 DEF vars, data, input
<1> QED
  BY <1>1, <1>2, <1>3, <1>4, <1>5, <1>6, <1>7, <1>8, <1>9, <1>10, <1>11, <1>12, <1>13, <1>14,
     <1>15, <1>16 DEF Next, Runs

LEMMA ListsKept ==
    ASSUME Control, Hands, Lists, [Next]_vars
    PROVE  Lists'
<1> USE DEF Lists
<1> DEFINE Still == UNCHANGED <<outbound, delivered, trades, journal, flushed>>
<1>0. Still => Lists'
  OBVIOUS
<1>1. ASSUME NEW t \in Threads, Exit(t) \/ Join(t) PROVE Lists'
  BY <1>0, <1>1 DEF Exit, Join, data, output, log, result
<1>2. CASE Stop \/ HttpVisit \/ RecvDecode \/ SynthWake \/ SynthSleep
  BY <1>0, <1>2 DEF Stop, HttpVisit, RecvDecode, SynthWake, SynthSleep, data, output, log, result
<1>3. ASSUME NEW o \in Order, Arrive(o) PROVE Lists'
  BY <1>0, <1>3 DEF Arrive, output, log, result
<1>4. CASE RecvPool \/ EnginePool \/ EngineRisk \/ EnginePop
  BY <1>0, <1>4 DEF RecvPool, EnginePool, EngineRisk, EnginePop, output, log, result
<1>5. ASSUME NEW t \in Producers, Push(t) PROVE Lists'
  BY <1>0, <1>5 DEF Push, output, log, result
<1>6. ASSUME NEW records \in Seq(Entries), Write(records), UNCHANGED <<outbound, delivered, trades>>
      PROVE Lists'
  <2>1. journal' \in Seq(Entries) /\ Len(journal') = Len(journal) + Len(records)
    BY <1>6 DEF Write
  <2>2. flushed' = flushed \/ flushed' \in Len(journal) .. Len(journal) + Len(records) - 1
    BY <1>6 DEF Write, OnDisk
  <2>3. Len(journal) \in Nat /\ Len(records) \in Nat
    BY <1>6
  <2> HIDE <1>6
  <2>4. flushed' \in 0 .. Len(journal')
    BY <2>1, <2>2, <2>3
  <2> QED BY <1>6, <2>1, <2>4
<1>7. CASE EngineJournal
  <2> DEFINE e == Entry(item["engine"], 0, item["engine"].qty)
  <2>1. item["engine"] \in Order
    BY <1>7 DEF EngineJournal, Hands, Works, Unjournaled, At
  <2>2. e \in Entries
    BY <2>1 DEF Entry, Entries, Order
  <2>3. Write(<<e>>) /\ UNCHANGED <<outbound, delivered, trades>>
    BY <1>7 DEF EngineJournal, output, result
  <2> HIDE DEF e, Lists
  <2>4. <<e>> \in Seq(Entries)
    BY <2>2
  <2> QED BY <1>6, <2>3, <2>4
<1>8. CASE EngineReport
  BY <1>6, <1>8 DEF EngineReport, output, result
<1>9. CASE EngineNext
  BY <1>9 DEF EngineNext, output, result
<1>10. CASE EngineEmit
  <2>1. /\ Head(trades) \in Entries /\ Tail(trades) \in Seq(Entries)
        /\ trades' = Tail(trades) /\ outbound' = Offer(Head(trades))
        /\ UNCHANGED <<delivered, journal, flushed>>
    BY <1>10 DEF EngineEmit, log
  <2>2. outbound' \in Seq(Entries) /\ Len(outbound') <= OutCapacity
    BY <2>1 DEF Offer
  <2> QED BY <2>1, <2>2
<1>11. ASSUME NEW qtys \in Quantities, NEW filled \in SUBSET resting, EngineMatch(qtys, filled)
       PROVE Lists'
  <2>1. item["engine"] \in Order
    BY <1>11 DEF EngineMatch, Hands, Works, At
  <2>2. PICK k \in 0 .. MaxQty : qtys \in [1 .. k -> 1 .. MaxQty]
    BY DEF Quantities
  <2>3. /\ UNCHANGED <<outbound, delivered, journal, flushed>>
        /\ trades' = [i \in 1 .. Len(qtys) |-> Entry(item["engine"], i, qtys[i])]
    BY <1>11 DEF EngineMatch, output, log
  <2>4. Len(qtys) = k
    BY <2>2
  <2>5. \A i \in 1 .. k : Entry(item["engine"], i, qtys[i]) \in Entries
    BY <2>1, <2>2 DEF Entry, Entries, Order
  <2>6. trades' \in Seq(Entries)
    BY <2>2, <2>3, <2>4, <2>5
  <2> QED BY <2>3, <2>6
<1>12. CASE EngineDeallocate
  BY <1>0, <1>12 DEF EngineDeallocate, output, log
<1>13. ASSUME NEW received \in BOOLEAN, SendPop(received) PROVE Lists'
  <2>1. /\ Head(outbound) \in Entries /\ Tail(outbound) \in Seq(Entries)
        /\ Len(Tail(outbound)) <= OutCapacity
    BY <1>13 DEF SendPop
  <2> QED BY <1>13, <2>1 DEF SendPop, log, result
<1>14. CASE UNCHANGED vars
  BY <1>0, <1>14 DEF vars, data, output, log, result
<1> QED
  BY <1>1, <1>2, <1>3, <1>4, <1>5, <1>7, <1>8, <1>9, <1>10, <1>11, <1>12, <1>13, <1>14
     DEF Next, Runs

(* The two users of the pool take steps that keep its index in bounds.     *)
LEMMA PoolKept ==
    ASSUME Control, Hands, PoolInBounds, [Next]_vars
    PROVE  PoolInBounds'
<1> USE DEF PoolInBounds, Control, Go, At
<1>0. /\ Threads = {"recv", "feed", "synth", "send", "http", "engine"}
      /\ Producers = {"recv", "feed", "synth"} /\ PoolUsers = {"recv", "engine"}
  BY DEF Threads, Producers, PoolUsers
<1>1. ASSUME NEW t \in Threads, Exit(t) PROVE PoolInBounds'
  BY <1>0, <1>1 DEF Exit, data, pool, result
<1>2. ASSUME NEW t \in Threads, Stop \/ Join(t) PROVE PoolInBounds'
  BY <1>2 DEF Join, Stop, data, pool, result
<1>3. CASE HttpVisit \/ SynthWake \/ SynthSleep \/ RecvDecode
  BY <1>0, <1>3 DEF HttpVisit, SynthWake, SynthSleep, RecvDecode, data, pool, result
<1>4. ASSUME NEW o \in Order, Arrive(o) PROVE PoolInBounds'
  BY <1>0, <1>4 DEF Arrive, pool, result
<1>5. ASSUME NEW t \in {"recv", "engine"}, NEW next \in {"decode", "journal"},
             AllocateLoad(t) \/ AllocateStore(t, next), UNCHANGED <<resting, discarded>>,
             t = "recv" \/ next = "journal", t = "engine" \/ next = "decode"
      PROVE PoolInBounds'
  <2>1. CASE AllocateLoad(t)
    BY <1>0, <1>5, <2>1 DEF AllocateLoad, WhenExhausted
  <2>2. CASE AllocateStore(t, next)
    <3>1. seen[t] \in Slots /\ seen[t] + 1 \in 0 .. PoolSize /\ freeList[seen[t]] \in Slots
      BY <1>0, <1>5, <2>2 DEF AllocateStore, Slots
    <3> QED BY <1>0, <1>5, <2>2, <3>1 DEF AllocateStore
  <2> QED BY <1>5, <2>1, <2>2
<1>6. CASE EnginePool
  BY <1>5, <1>6 DEF EnginePool, result
<1>7. CASE RecvPool
  <2>1. UNCHANGED <<resting, discarded>>
    BY <1>7 DEF RecvPool, result
  <2>2. CASE AllocateLoad("recv") \/ AllocateStore("recv", "decode")
    BY <1>5, <2>1, <2>2
  <2>3. CASE DeallocateLoad("recv", "poll")
    BY <1>0, <2>1, <2>3 DEF DeallocateLoad
  <2>4. CASE DeallocateStore("recv", slot["recv"], "poll")
    <3>1. seen["recv"] - 1 \in Slots /\ slot["recv"] \in Slots /\ seen["recv"] - 1 \in 0 .. PoolSize
      BY <1>0, <2>4 DEF DeallocateStore, Slots
    <3> QED BY <1>0, <2>1, <2>4, <3>1 DEF DeallocateStore
  <2> QED BY <1>7, <2>2, <2>3, <2>4 DEF RecvPool
<1>8. ASSUME NEW t \in Producers, Push(t) PROVE PoolInBounds'
  <2>1. /\ UNCHANGED <<freeList, freeIndex, seen, resting, discarded>>
        /\ Go(t, IF t = "synth" THEN "batch" ELSE "poll")
        /\ slot' = IF t = "recv" THEN [slot EXCEPT ![t] = NoSlot] ELSE slot
    BY <1>8 DEF Push, result
  <2> QED BY <1>0, <1>8, <2>1
<1>9. CASE EnginePop \/ EngineRisk \/ EngineReport \/ EngineNext
  BY <1>0, <1>9 DEF EnginePop, EngineRisk, EngineReport, EngineNext, pool, result
<1>10. CASE EngineJournal
  BY <1>0, <1>10 DEF EngineJournal, pool, result
<1>11. CASE EngineEmit
  BY <1>11 DEF EngineEmit, pool
<1>12. ASSUME NEW qtys \in Quantities, NEW filled \in SUBSET resting, EngineMatch(qtys, filled)
       PROVE PoolInBounds'
  <2> DEFINE s == slot["engine"]
             rests == IF Total(qtys) < Remaining(item["engine"]) THEN {s} ELSE {}
  <2>1. /\ resting' = (resting \ filled) \cup rests /\ discarded' = filled \cup ({s} \ rests)
        /\ slot' = [slot EXCEPT !["engine"] = NoSlot]
        /\ Go("engine", "report") \/ Go("engine", "deallocate")
        /\ UNCHANGED <<freeList, freeIndex, seen>> /\ s \in Slots
    BY <1>12 DEF EngineMatch
  <2>2. rests \subseteq {s}
    OBVIOUS
  <2> HIDE DEF rests
  <2> QED BY <1>0, <2>1, <2>2
<1>13. CASE EngineDeallocate
  <2>1. resting' = resting
    BY <1>13 DEF EngineDeallocate
  <2>2. CASE DeallocateLoad("engine", "report") /\ UNCHANGED discarded
    BY <1>0, <2>1, <2>2 DEF DeallocateLoad
  <2>3. ASSUME NEW s \in discarded, NEW next \in {"report", "deallocate"},
               DeallocateStore("engine", s, next), discarded' = discarded \ {s}
        PROVE PoolInBounds'
    <3>1. At("engine", "deallocated") /\ s \in Slots
      BY <2>3 DEF DeallocateStore
    <3>2. seen["engine"] - 1 \in Slots /\ seen["engine"] - 1 \in 0 .. PoolSize
      <4>0. "engine" \in PoolUsers /\ seen \in [PoolUsers -> 0 .. PoolSize] /\ seen["engine"] > 0
        BY <1>0, <3>1
      <4> DEFINE m == seen["engine"]
      <4>1. m \in 0 .. PoolSize /\ m > 0
        BY <4>0
      <4>2. PoolSize \in Nat
        BY EngineAssumption
      <4> HIDE DEF m
      <4>3. m - 1 \in 0 .. PoolSize - 1 /\ m - 1 \in 0 .. PoolSize
        BY <4>1, <4>2
      <4> QED BY <4>3 DEF m, Slots
    <3>3. /\ freeList' = [freeList EXCEPT ![seen["engine"] - 1] = s]
          /\ freeIndex' = seen["engine"] - 1
          /\ pc' = [pc EXCEPT !["engine"] = next]
          /\ seen' = [seen EXCEPT !["engine"] = 0] /\ slot' = [slot EXCEPT !["engine"] = NoSlot]
      BY <2>3 DEF DeallocateStore
    <3> QED BY <1>0, <2>1, <2>3, <3>1, <3>2, <3>3
  <2> QED BY <1>13, <2>2, <2>3 DEF EngineDeallocate
<1>14. ASSUME NEW received \in BOOLEAN, SendPop(received) PROVE PoolInBounds'
  BY <1>14 DEF SendPop, pool, result
<1>15. CASE UNCHANGED vars
  BY <1>15 DEF vars, data, pool, result
<1>16. "recv" \in Threads
  BY <1>0
<1> QED
  BY <1>1, <1>2, <1>3, <1>4, <1>6, <1>7, <1>8, <1>9, <1>10, <1>11, <1>12, <1>13, <1>14, <1>15, <1>16
     DEF Next, Runs

LEMMA TypesInitially == Init => TypeInv
<1> SUFFICES ASSUME Init PROVE TypeInv
  OBVIOUS
<1>1. /\ pc \in [Threads -> Labels] /\ \A t \in Threads : pc[t] \in {"poll", "accept"}
      /\ pc["engine"] = "poll" /\ pc["recv"] = "poll"
  BY DEF Init, Labels, Threads, Producers
<1>2. Control
  BY <1>1 DEF Init, Control
<1>3. Hands
  BY <1>1 DEF Init, Hands, Carries, Works, Unjournaled, Matched, At, Threads
<1>4. Lists
  BY DEF Init, Lists
<1>5. PoolInBounds
  <2>1. \A t \in PoolUsers : pc[t] = "poll"
    BY <1>1 DEF PoolUsers
  <2> QED BY <1>1, <2>1 DEF Init, PoolInBounds, At, Slots
<1> QED BY <1>2, <1>3, <1>4, <1>5 DEF TypeInv

LEMMA TypesKept == TypeInv /\ [Next]_vars => TypeInv'
  BY ControlKept, HandsKept, ListsKept, PoolKept DEF TypeInv

(* Types, with what a thread has in hand where its program counter is: an  *)
(* order to push or to match, a slot, a pool index that is within bounds.  *)
THEOREM Types == Spec => []TypeInv
<1>1. Init => TypeInv
  BY TypesInitially
<1>2. TypeInv /\ [Next]_vars => TypeInv'
  BY TypesKept
<1> QED BY <1>1, <1>2, PTL DEF Spec

-----------------------------------------------------------------------------
(* What the other threads leave alone.                                     *)
Idle ==
    /\ pc'["engine"] \in {pc["engine"], "done"} /\ item'["engine"] = item["engine"]
    /\ UNCHANGED <<net, trades, journal, outbound, delivered>>

LEMMA EngineSteps ==
    ASSUME TypeInv, [Next]_vars
    PROVE  \/ Idle
           \/ \E received \in BOOLEAN : SendPop(received)
           \/ EnginePop \/ EngineRisk \/ EnginePool \/ EngineJournal
           \/ \E qtys \in Quantities, filled \in SUBSET resting : EngineMatch(qtys, filled)
           \/ EngineDeallocate \/ EngineReport \/ EngineEmit \/ EngineNext
<1> USE DEF Idle, Go, At
<1>0. /\ Threads = {"recv", "feed", "synth", "send", "http", "engine"}
      /\ Producers = {"recv", "feed", "synth"}
      /\ pc \in [Threads -> Labels]
      /\ item \in [Producers \cup {"engine"} -> Order \cup {NoOrder}]
  BY DEF Threads, Producers, TypeInv, Control, Hands
<1>1. ASSUME NEW t \in Threads, Exit(t) PROVE Idle
  BY <1>0, <1>1 DEF Exit, data, input, output, log, result
<1>2. ASSUME NEW t \in Threads, Stop \/ Join(t) PROVE Idle
  BY <1>2 DEF Stop, Join, data, input, output, log, result
<1>3. CASE HttpVisit \/ RecvDecode \/ SynthWake \/ SynthSleep
  BY <1>0, <1>3 DEF HttpVisit, RecvDecode, SynthWake, SynthSleep, data, input, output, log, result
<1>4. ASSUME NEW o \in Order, Arrive(o) PROVE Idle
  <2>1. /\ o.src \in {"recv", "feed", "synth"} /\ item' = [item EXCEPT ![o.src] = o]
        /\ \E label \in {"allocate", "push"} : Go(o.src, label)
        /\ UNCHANGED <<output, log, net, result>>
    BY <1>4 DEF Arrive
  <2> QED BY <1>0, <2>1 DEF output, log, result
<1>5. CASE RecvPool
  <2>1. /\ item' = IF At("recv", "poll")' THEN [item EXCEPT !["recv"] = NoOrder] ELSE item
        /\ UNCHANGED <<output, log, net, result>>
    BY <1>5 DEF RecvPool
  <2>2. \E label \in Labels : Go("recv", label)
    BY <1>5 DEF RecvPool, AllocateLoad, AllocateStore, DeallocateLoad, DeallocateStore, WhenExhausted, Labels
  <2> QED BY <1>0, <2>1, <2>2 DEF output, log, result
<1>6. ASSUME NEW t \in Producers, Push(t) PROVE Idle
  <2>1. /\ item' = [item EXCEPT ![t] = NoOrder]
        /\ Go(t, IF t = "synth" THEN "batch" ELSE "poll")
        /\ UNCHANGED <<output, log, net, result>>
    BY <1>6 DEF Push
  <2> QED BY <1>0, <1>6, <2>1 DEF output, log, result
<1>7. CASE UNCHANGED vars
  BY <1>7 DEF vars, data, input, output, log, result
<1>8. "recv" \in Threads
  BY <1>0
<1> QED BY <1>1, <1>2, <1>3, <1>4, <1>5, <1>6, <1>7, <1>8 DEF Next, Runs

LEMMA LimitsKept ==
    ASSUME TypeInv, WithinLimits, [Next]_vars
    PROVE  WithinLimits'
<1> DEFINE o == item["engine"]
<1> USE DEF WithinLimits, RiskBounded, Works, Unjournaled, Matched, Go, At
<1>0. /\ pc \in [Threads -> Labels] /\ "engine" \in Threads
      /\ item \in [Producers \cup {"engine"} -> Order \cup {NoOrder}]
      /\ Works => o \in Order
      /\ net \in Int
  BY DEF TypeInv, Control, Hands, Threads
<1>1. CASE Idle
  BY <1>1 DEF Idle, Passes
<1>2. ASSUME NEW received \in BOOLEAN, SendPop(received) PROVE WithinLimits'
  BY <1>2 DEF SendPop, input, result, Passes
<1>3. CASE EnginePop
  BY <1>0, <1>3 DEF EnginePop, Passes
<1>4. CASE EngineRisk
  BY <1>0, <1>4 DEF EngineRisk, Passes
<1>5. CASE EnginePool
  BY <1>0, <1>5 DEF EnginePool, AllocateLoad, AllocateStore, WhenExhausted, Passes
<1>6. CASE EngineJournal
  BY <1>0, <1>6 DEF EngineJournal, Passes, input
<1>7. ASSUME NEW qtys \in Quantities, NEW filled \in SUBSET resting, EngineMatch(qtys, filled)
      PROVE WithinLimits'
  <2>1. /\ At("engine", "match") /\ Total(qtys) \in 0 .. Remaining(o)
        /\ trades' = [i \in 1 .. Len(qtys) |-> Entry(o, i, qtys[i])]
        /\ item' = item /\ net' = net
        /\ Go("engine", "report") \/ Go("engine", "deallocate")
    BY <1>7 DEF EngineMatch, input
  <2>2. qtys = [i \in 1 .. Len(qtys) |-> qtys[i]]
    BY DEF Quantities
  <2>3. [i \in DOMAIN trades' |-> trades'[i].qty] = qtys
    BY <2>1, <2>2 DEF Entry
  <2>4. Total(qtys) \in 0 .. o.qty
    BY <1>0, <2>1 DEF Remaining, Order
  <2> QED BY <1>0, <2>1, <2>3, <2>4 DEF Passes
<1>8. CASE EngineDeallocate
  BY <1>0, <1>8 DEF EngineDeallocate, DeallocateLoad, DeallocateStore, Passes, input
<1>9. CASE EngineReport
  <2> DEFINE sum == Total([i \in DOMAIN trades |-> trades[i].qty])
  <2>1. /\ sum \in 0 .. o.qty /\ o \in Order
        /\ net' = net + Signed(o.side, sum) /\ Passes(o)
        /\ Go("engine", "emit")
    BY <1>0, <1>9 DEF EngineReport
  <2> HIDE DEF sum, o
  <2>2. net \in - MaxShort .. MaxLong
    OBVIOUS
  <2>3. o.side \in Sides /\ o.qty \in Nat
    BY <2>1 DEF Order
  <2>4. net' \in - MaxShort .. MaxLong
    BY <2>1, <2>2, <2>3 DEF Passes, Signed, Sides
  <2> QED BY <1>0, <2>1, <2>4
<1>10. CASE EngineEmit
  BY <1>0, <1>10 DEF EngineEmit, Passes, input
<1>11. CASE EngineNext
  BY <1>0, <1>11 DEF EngineNext, Passes
<1> QED
  BY <1>1, <1>2, <1>3, <1>4, <1>5, <1>6, <1>7, <1>8, <1>9, <1>10, <1>11, EngineSteps

(* The net position never leaves its limits, although it moves only when   *)
(* all trades of an order are booked (risk.hpp:35-39, engine.cpp:104-107). *)
THEOREM PositionBounded == Spec => []RiskBounded
<1>1. Init => WithinLimits
  BY DEF Init, WithinLimits, RiskBounded, Works, Unjournaled, Matched, At, Threads
<1>2. TypeInv /\ WithinLimits /\ [Next]_vars => WithinLimits'
  BY LimitsKept
<1>3. WithinLimits => RiskBounded
  BY DEF WithinLimits
<1> QED BY <1>1, <1>2, <1>3, Types, PTL DEF Spec

(* The state keeps to its types, the rings to their capacities, the pool's *)
(* index to its array and the disk to what was written (engine.cpp:49-139).*)
THEOREM TypeCorrect == Spec => []TypeOK
<1>1. ASSUME TypeInv, RiskBounded PROVE TypeOK
  <2>1. /\ flag \in [{"engine", "feed", "http"} -> BOOLEAN]
        /\ stop \in {"no"} \cup Range(Joined) /\ pc \in [Threads -> Labels]
    BY <1>1 DEF TypeInv, Control
  <2>2. /\ item \in [Producers \cup {"engine"} -> Order \cup {NoOrder}]
        /\ arrived \in 0 .. MaxOrders
        /\ inbound \in Seq(Order) /\ Len(inbound) <= InCapacity
    BY <1>1 DEF TypeInv, Hands
  <2>3. /\ {outbound, delivered, trades, journal} \subseteq Seq(Entries)
        /\ Len(outbound) <= OutCapacity /\ flushed \in 0 .. Len(journal)
    BY <1>1 DEF TypeInv, Lists
  <2>4. net \in Int
    BY <1>1 DEF RiskBounded
  <2>5. /\ freeList \in [Slots -> Slots] /\ freeIndex \in 0 .. PoolSize
        /\ seen \in [PoolUsers -> 0 .. PoolSize]
        /\ slot \in [PoolUsers -> Slots \cup {NoSlot}]
        /\ resting \subseteq Slots /\ discarded \subseteq Slots
    BY <1>1 DEF TypeInv, PoolInBounds
  <2> QED BY <2>1, <2>2, <2>3, <2>4, <2>5 DEF TypeOK
<1> QED BY <1>1, Types, PositionBounded, PTL

-----------------------------------------------------------------------------
(* The trades on their way to a client, in the terms of a journal j.       *)

Explained(j, e) ==
    \E i, k \in DOMAIN j : i < k /\ j[i].n = e.n /\ j[i].trade = 0 /\ j[k] = e

Precedes(j, d, e) == \E i, k \in DOMAIN j : i < k /\ j[i] = d /\ j[k] = e

Ordered(j, s) == \A i, k \in DOMAIN s : i < k => Precedes(j, s[i], s[k])

Before(j, s, u) == \A i \in DOMAIN s, k \in DOMAIN u : Precedes(j, s[i], u[k])

AllExplained(j, s) == \A i \in DOMAIN s : Explained(j, s[i])

LEMMA LogGrows ==
    ASSUME NEW j \in Seq(Entries), NEW more \in Seq(Entries)
    PROVE  /\ \A e : Explained(j, e) => Explained(j \o more, e)
           /\ \A d, e : Precedes(j, d, e) => Precedes(j \o more, d, e)
<1>1. \A i \in DOMAIN j : i \in DOMAIN (j \o more) /\ (j \o more)[i] = j[i]
  OBVIOUS
<1> QED BY <1>1 DEF Explained, Precedes

LEMMA ListsGrow ==
    ASSUME NEW j \in Seq(Entries), NEW more \in Seq(Entries),
           NEW s \in Seq(Entries), NEW u \in Seq(Entries)
    PROVE  /\ Ordered(j, s) => Ordered(j \o more, s)
           /\ Before(j, s, u) => Before(j \o more, s, u)
           /\ AllExplained(j, s) => AllExplained(j \o more, s)
  BY LogGrows DEF Ordered, Before, AllExplained

(* What precedes both a and b still does when the head of b has gone to a. *)
LEMMA TransferBehind ==
    ASSUME NEW j, NEW a \in Seq(Entries), NEW b \in Seq(Entries), b # <<>>,
           NEW a2 \in {a, Append(a, Head(b))},
           NEW c, Before(j, c, a), Before(j, c, b)
    PROVE  Before(j, c, a2) /\ Before(j, c, Tail(b))
<1>1. /\ 1 \in DOMAIN b /\ Head(b) = b[1]
      /\ \A i \in DOMAIN Tail(b) : i + 1 \in DOMAIN b /\ Tail(b)[i] = b[i + 1]
  OBVIOUS
<1>2. \A i \in DOMAIN a2 : \/ i \in DOMAIN a /\ a2[i] = a[i]
                           \/ a2[i] = b[1]
  BY <1>1
<1>3. Before(j, c, a2)
  BY <1>1, <1>2 DEF Before
<1>4. Before(j, c, Tail(b))
  BY <1>1 DEF Before
<1> QED BY <1>3, <1>4

(* The head of b goes to the end of a, or is lost.                         *)
LEMMA Transfer ==
    ASSUME NEW j, NEW a \in Seq(Entries), NEW b \in Seq(Entries), b # <<>>,
           Ordered(j, a), Ordered(j, b), Before(j, a, b),
           AllExplained(j, a), AllExplained(j, b),
           NEW a2 \in {a, Append(a, Head(b))}
    PROVE  /\ Ordered(j, a2) /\ Ordered(j, Tail(b)) /\ Before(j, a2, Tail(b))
           /\ AllExplained(j, a2) /\ AllExplained(j, Tail(b))
           /\ \A c \in Seq(Entries) :
                  /\ Before(j, c, b) => Before(j, c, Tail(b))
                  /\ Before(j, b, c) => Before(j, Tail(b), c)
                  /\ Before(j, c, a) /\ Before(j, c, b) => Before(j, c, a2)
                  /\ Before(j, a, c) /\ Before(j, b, c) => Before(j, a2, c)
<1>1. /\ 1 \in DOMAIN b /\ Head(b) = b[1]
      /\ \A i \in DOMAIN Tail(b) : i \in Nat /\ i + 1 \in DOMAIN b /\ Tail(b)[i] = b[i + 1] /\ 1 < i + 1
      /\ \A i, k \in DOMAIN Tail(b) : i < k => i + 1 < k + 1
  OBVIOUS
<1>2. \A i \in DOMAIN a2 : \/ i \in DOMAIN a /\ a2[i] = a[i]
                           \/ i = Len(a) + 1 /\ a2[i] = b[1]
  BY <1>1
<1>3. \A i \in DOMAIN a : i < Len(a) + 1
  OBVIOUS
<1>4. Ordered(j, Tail(b)) /\ AllExplained(j, Tail(b))
  BY <1>1 DEF Ordered, AllExplained
<1>5. Before(j, a2, Tail(b))
  BY <1>1, <1>2 DEF Ordered, Before
<1>6. AllExplained(j, a2)
  BY <1>1, <1>2 DEF AllExplained
<1>7. Ordered(j, a2)
  <2> SUFFICES ASSUME NEW i \in DOMAIN a2, NEW k \in DOMAIN a2, i < k
               PROVE  Precedes(j, a2[i], a2[k])
    BY DEF Ordered
  <2>1. i \in DOMAIN a /\ a2[i] = a[i]
    <3>1. i # Len(a) + 1
      <4>1. k <= Len(a) + 1 /\ i \in Nat /\ k \in Nat /\ Len(a) \in Nat
        BY <1>2, <1>3
      <4> QED BY <4>1
    <3> QED BY <1>2, <3>1
  <2> QED BY <1>1, <1>2, <2>1 DEF Ordered, Before
<1>8. ASSUME NEW c \in Seq(Entries)
      PROVE  /\ Before(j, c, b) => Before(j, c, Tail(b))
             /\ Before(j, b, c) => Before(j, Tail(b), c)
             /\ Before(j, c, a) /\ Before(j, c, b) => Before(j, c, a2)
             /\ Before(j, a, c) /\ Before(j, b, c) => Before(j, a2, c)
  <2>1. /\ Before(j, c, b) => Before(j, c, Tail(b))
        /\ Before(j, b, c) => Before(j, Tail(b), c)
    BY <1>1 DEF Before
  <2>2. /\ Before(j, c, a) /\ Before(j, c, b) => Before(j, c, a2)
        /\ Before(j, a, c) /\ Before(j, b, c) => Before(j, a2, c)
    BY <1>1, <1>2 DEF Before
  <2> QED BY <2>1, <2>2
<1> QED BY <1>4, <1>5, <1>6, <1>7, <1>8

(* What is on its way is in the journal, in the order in which it goes;    *)
(* the trades still to be pushed, once they have been written.             *)
ReportInv ==
    /\ Ordered(journal, delivered) /\ AllExplained(journal, delivered)
    /\ Ordered(journal, outbound) /\ AllExplained(journal, outbound)
    /\ Before(journal, delivered, outbound)
    /\ At("engine", "emit") =>
           /\ Ordered(journal, trades) /\ AllExplained(journal, trades)
           /\ Before(journal, delivered, trades) /\ Before(journal, outbound, trades)
    /\ At("engine", "match") \/ Matched =>
           \E i \in DOMAIN journal : journal[i].n = item["engine"].n /\ journal[i].trade = 0
    /\ Matched => \A i \in DOMAIN trades : trades[i].n = item["engine"].n

LEMMA ReportsInitially == Init => ReportInv
<1> SUFFICES ASSUME Init PROVE ReportInv
  OBVIOUS
<1>1. pc["engine"] = "poll"
  BY DEF Init, Threads
<1>2. delivered = <<>> /\ outbound = <<>>
  BY DEF Init
<1> QED BY <1>1, <1>2 DEF ReportInv, Ordered, Before, AllExplained, Matched, At

LEMMA ReportsKept ==
    ASSUME TypeInv, ReportInv, [Next]_vars
    PROVE  ReportInv'
<1> DEFINE o == item["engine"]
<1> USE DEF Matched, Go, At
<1>0. /\ pc \in [Threads -> Labels] /\ "engine" \in Threads
      /\ outbound \in Seq(Entries) /\ delivered \in Seq(Entries)
      /\ trades \in Seq(Entries) /\ journal \in Seq(Entries)
  BY DEF TypeInv, Control, Lists, Threads
<1>1. CASE Idle
  BY <1>1 DEF ReportInv, Idle
<1>2. ASSUME NEW received \in BOOLEAN, SendPop(received) PROVE ReportInv'
  <2>1. /\ outbound # <<>> /\ outbound' = Tail(outbound)
        /\ delivered' \in {delivered, Append(delivered, Head(outbound))}
        /\ UNCHANGED <<pc, item, journal, trades>>
    BY <1>2 DEF SendPop, input, log, result
  <2>2. /\ Ordered(journal, delivered') /\ Ordered(journal, Tail(outbound))
        /\ Before(journal, delivered', Tail(outbound))
        /\ AllExplained(journal, delivered') /\ AllExplained(journal, Tail(outbound))
    BY <1>0, <2>1, Transfer DEF ReportInv
  <2>3. ASSUME At("engine", "emit")
        PROVE  Before(journal, delivered', trades) /\ Before(journal, Tail(outbound), trades)
    BY <1>0, <2>1, <2>3, Transfer DEF ReportInv
  <2> QED BY <2>1, <2>2, <2>3 DEF ReportInv
<1>3. CASE EnginePop \/ EngineRisk
  BY <1>0, <1>3 DEF ReportInv, EnginePop, EngineRisk, output, log, result
<1>4. CASE EnginePool
  BY <1>0, <1>4 DEF ReportInv, EnginePool, AllocateLoad, AllocateStore, WhenExhausted, output, log
<1>5. CASE EngineJournal
  <2> DEFINE e == Entry(o, 0, o.qty)
  <2>1. o \in Order
    BY <1>5 DEF EngineJournal, TypeInv, Hands, Works, Unjournaled
  <2>2. e \in Entries /\ e.n = o.n /\ e.trade = 0
    BY <2>1 DEF Entry, Entries, Order
  <2>3. /\ At("engine", "journal") /\ Go("engine", "match")
        /\ journal' = journal \o <<e>> /\ UNCHANGED <<item, outbound, delivered, trades>>
    BY <1>5 DEF EngineJournal, Write, input, output, result
  <2> HIDE DEF e
  <2>4. /\ Ordered(journal', delivered) /\ AllExplained(journal', delivered)
        /\ Ordered(journal', outbound) /\ AllExplained(journal', outbound)
        /\ Before(journal', delivered, outbound)
    <3> DEFINE more == <<e>>
    <3>1. more \in Seq(Entries) /\ journal' = journal \o more
      BY <2>2, <2>3
    <3> HIDE DEF more
    <3> QED BY <1>0, <3>1, ListsGrow DEF ReportInv
  <2>5. \E i \in DOMAIN journal' : journal'[i].n = o.n /\ journal'[i].trade = 0
    <3>1. Len(journal) + 1 \in DOMAIN journal' /\ journal'[Len(journal) + 1] = e
      BY <1>0, <2>2, <2>3
    <3> QED BY <2>2, <3>1
  <2> QED BY <1>0, <2>3, <2>4, <2>5 DEF ReportInv
<1>6. ASSUME NEW qtys \in Quantities, NEW filled \in SUBSET resting, EngineMatch(qtys, filled)
      PROVE ReportInv'
  <2>1. /\ At("engine", "match") /\ UNCHANGED <<item, journal, outbound, delivered>>
        /\ trades' = [i \in 1 .. Len(qtys) |-> Entry(o, i, qtys[i])]
        /\ Go("engine", "report") \/ Go("engine", "deallocate")
    BY <1>6 DEF EngineMatch, input, output, log
  <2>2. \A i \in DOMAIN trades' : trades'[i].n = o.n
    BY <2>1 DEF Entry
  <2> QED BY <1>0, <2>1, <2>2 DEF ReportInv
<1>7. CASE EngineDeallocate
  BY <1>0, <1>7 DEF ReportInv, EngineDeallocate, DeallocateLoad, DeallocateStore, input, output, log
<1>8. CASE EngineReport
  <2> DEFINE n == Len(journal)
  <2>1. /\ At("engine", "report") /\ Go("engine", "emit") /\ journal' = journal \o trades
        /\ UNCHANGED <<item, outbound, delivered, trades>>
    BY <1>8 DEF EngineReport, Write, input, output, result
  <2>2. /\ Ordered(journal', delivered) /\ AllExplained(journal', delivered)
        /\ Ordered(journal', outbound) /\ AllExplained(journal', outbound)
        /\ Before(journal', delivered, outbound)
    BY <1>0, <2>1, ListsGrow DEF ReportInv
  <2>3. /\ \A i \in DOMAIN journal : i \in DOMAIN journal' /\ journal'[i] = journal[i] /\ i <= n
        /\ \A i \in DOMAIN trades : n + i \in DOMAIN journal' /\ journal'[n + i] = trades[i]
        /\ \A i \in DOMAIN journal, k \in DOMAIN trades : i < n + k
        /\ \A i, k \in DOMAIN trades : i < k => n + i < n + k
    BY <1>0, <2>1
  <2> HIDE DEF n
  <2>4. Ordered(journal', trades)
    BY <2>3 DEF Ordered, Precedes
  <2>5. Before(journal', delivered, trades) /\ Before(journal', outbound, trades)
    BY <2>3 DEF ReportInv, AllExplained, Explained, Before, Precedes
  <2>6. AllExplained(journal', trades)
    <3>1. PICK i \in DOMAIN journal : journal[i].n = o.n /\ journal[i].trade = 0
      BY <2>1 DEF ReportInv
    <3>2. \A k \in DOMAIN trades : trades[k].n = o.n
      BY <2>1 DEF ReportInv
    <3>3. \A k \in DOMAIN trades : /\ i \in DOMAIN journal' /\ n + k \in DOMAIN journal' /\ i < n + k
                                   /\ journal'[i] = journal[i] /\ journal'[n + k] = trades[k]
      BY <2>3
    <3> QED BY <3>1, <3>2, <3>3 DEF AllExplained, Explained
  <2> QED BY <1>0, <2>1, <2>2, <2>4, <2>5, <2>6 DEF ReportInv
<1>9. CASE EngineEmit
  <2>1. /\ At("engine", "emit") /\ trades # <<>> /\ trades' = Tail(trades)
        /\ outbound' \in {outbound, Append(outbound, Head(trades))}
        /\ UNCHANGED <<pc, item, journal, delivered>>
    BY <1>9 DEF EngineEmit, Offer, input, log
  <2>0. /\ Ordered(journal, outbound) /\ Ordered(journal, trades)
        /\ Before(journal, outbound, trades)
        /\ AllExplained(journal, outbound) /\ AllExplained(journal, trades)
        /\ Before(journal, delivered, outbound) /\ Before(journal, delivered, trades)
    BY <2>1 DEF ReportInv
  <2>2. /\ Ordered(journal, outbound') /\ Ordered(journal, Tail(trades))
        /\ Before(journal, outbound', Tail(trades))
        /\ AllExplained(journal, outbound') /\ AllExplained(journal, Tail(trades))
    BY <1>0, <2>0, <2>1, Transfer
  <2>3. Before(journal, delivered, outbound') /\ Before(journal, delivered, Tail(trades))
    <3>1. /\ outbound \in Seq(Entries) /\ trades \in Seq(Entries) /\ trades # <<>>
          /\ outbound' \in {outbound, Append(outbound, Head(trades))}
      BY <1>0, <2>1
    <3>2. Before(journal, delivered, outbound) /\ Before(journal, delivered, trades)
      BY <2>0
    <3> QED BY <3>1, <3>2, TransferBehind
  <2> QED BY <2>1, <2>2, <2>3 DEF ReportInv
<1>10. CASE EngineNext
  BY <1>0, <1>10 DEF ReportInv, EngineNext, output, result
<1> QED
  BY <1>1, <1>2, <1>3, <1>4, <1>5, <1>6, <1>7, <1>8, <1>9, <1>10, EngineSteps

LEMMA ReportsAlways == Spec => [](TypeInv /\ ReportInv)
<1>1. TypeInv /\ ReportInv /\ [Next]_vars => ReportInv'
  BY ReportsKept
<1> QED BY <1>1, ReportsInitially, Types, PTL DEF Spec

(* Where the reports come from.                                            *)
LEMMA ReportedParts ==
    ASSUME Lists
    PROVE  \A i \in DOMAIN Reported :
               \/ i \in DOMAIN delivered /\ Reported[i] = delivered[i]
               \/ /\ i - Len(delivered) \in DOMAIN outbound
                  /\ Reported[i] = outbound[i - Len(delivered)] /\ i > Len(delivered)
  BY DEF Lists, Reported

(* No trade is on its way to a client, or with it, that the journal does   *)
(* not have, after the order that caused it (engine.cpp:94-115).           *)
THEOREM Journaled == Spec => []JournalBeforeReport
<1>1. ASSUME TypeInv, ReportInv PROVE JournalBeforeReport
  <2>1. \A i \in DOMAIN Reported : Explained(journal, Reported[i])
    BY <1>1, ReportedParts DEF TypeInv, ReportInv, AllExplained
  <2> QED BY <2>1 DEF JournalBeforeReport, Explained, Range
<1> QED BY <1>1, ReportsAlways, PTL

(* Trades reach clients in the order of the journal and never twice, even  *)
(* if some are dropped or lost on the way (engine.cpp:104-115, 270-277).   *)
THEOREM InOrder == Spec => []ReportsOrdered
<1>1. ASSUME TypeInv, ReportInv PROVE ReportsOrdered
  <2> SUFFICES ASSUME NEW i \in DOMAIN Reported, NEW k \in DOMAIN Reported, i < k
               PROVE  Precedes(journal, Reported[i], Reported[k])
    BY DEF ReportsOrdered, Precedes
  <2> DEFINE n == Len(delivered)
  <2>1. i \in Int /\ k \in Int /\ n \in Int /\ \A x \in DOMAIN delivered : x <= n
    BY <1>1 DEF TypeInv, Lists, Reported
  <2>2. /\ \/ i \in DOMAIN delivered /\ Reported[i] = delivered[i]
           \/ i - n \in DOMAIN outbound /\ Reported[i] = outbound[i - n] /\ i > n
        /\ \/ k \in DOMAIN delivered /\ Reported[k] = delivered[k]
           \/ k - n \in DOMAIN outbound /\ Reported[k] = outbound[k - n] /\ k > n
    BY <1>1, ReportedParts DEF TypeInv
  <2> HIDE DEF n
  <2>3. i > n => k > n /\ i - n < k - n
    BY <2>1
  <2>4. k > n => k \notin DOMAIN delivered
    BY <2>1
  <2> QED BY <1>1, <2>2, <2>3, <2>4 DEF ReportInv, Ordered, Before
<1> QED BY <1>1, ReportsAlways, PTL

-----------------------------------------------------------------------------
(* Each order once in the journal.  An order is in the journal before those*)
(* the engine has in hand, then those in the ring, then those a producer   *)
(* is about to push; two of one producer are in the order of arrival.      *)

Follows(a, b) == a.n # b.n /\ (a.src = b.src => a.n < b.n)

OfOrder(i) == journal[i].trade = 0

Numbered ==
    /\ \A i \in DOMAIN journal : OfOrder(i) => journal[i].n <= arrived
    /\ \A i \in DOMAIN inbound : inbound[i].n <= arrived
    /\ \A t \in Producers : Carries(t) => item[t].n <= arrived /\ item[t].src = t
    /\ Unjournaled => item["engine"].n <= arrived
    /\ \A t, u \in Producers : Carries(t) /\ Carries(u) /\ t # u => item[t].n # item[u].n

InLine ==
    /\ OrdersOnce
    /\ \A i \in DOMAIN journal : OfOrder(i) =>
           /\ \A k \in DOMAIN inbound : Follows(journal[i], inbound[k])
           /\ \A t \in Producers : Carries(t) => Follows(journal[i], item[t])
           /\ Unjournaled => Follows(journal[i], item["engine"])
    /\ Unjournaled =>
           /\ \A k \in DOMAIN inbound : Follows(item["engine"], inbound[k])
           /\ \A t \in Producers : Carries(t) => Follows(item["engine"], item[t])
    /\ \A i \in DOMAIN inbound :
           /\ \A k \in DOMAIN inbound : i < k => Follows(inbound[i], inbound[k])
           /\ \A t \in Producers : Carries(t) => Follows(inbound[i], item[t])

OnceInv ==
    /\ Numbered /\ InLine
    /\ Matched => \A i \in DOMAIN trades : trades[i].trade # 0

(* A step that brings no order nearer to the journal, though it may drop it.*)
Quiet ==
    /\ UNCHANGED <<inbound, journal, arrived>>
    /\ \A t \in Producers : Carries(t)' => Carries(t) /\ item'[t] = item[t]
    /\ Unjournaled' => Unjournaled /\ item'["engine"] = item["engine"]
    /\ Matched' => Matched /\ trades' = trades

LEMMA QuietSteps ==
    ASSUME TypeInv, [Next]_vars
    PROVE  \/ Quiet
           \/ \E o \in Order : Arrive(o)
           \/ \E t \in Producers : At(t, "push") /\ Push(t) /\ inbound' = Append(inbound, item[t])
           \/ EnginePop \/ EngineJournal \/ EngineReport
           \/ \E qtys \in Quantities, filled \in SUBSET resting : EngineMatch(qtys, filled)
<1> USE DEF Quiet, Go, At, Carries, Unjournaled, Matched
<1>0. /\ Threads = {"recv", "feed", "synth", "send", "http", "engine"}
      /\ Producers = {"recv", "feed", "synth"}
      /\ pc \in [Threads -> Labels]
      /\ item \in [Producers \cup {"engine"} -> Order \cup {NoOrder}]
  BY DEF Threads, Producers, TypeInv, Control, Hands
<1>1. ASSUME NEW t \in Threads, Exit(t) PROVE Quiet
  BY <1>0, <1>1 DEF Exit, data, input, log, result
<1>2. ASSUME NEW t \in Threads, Stop \/ Join(t) PROVE Quiet
  BY <1>2 DEF Stop, Join, data, input, log, result
<1>3. CASE HttpVisit \/ RecvDecode \/ SynthWake \/ SynthSleep
  BY <1>0, <1>3 DEF HttpVisit, RecvDecode, SynthWake, SynthSleep, data, input, log, result
<1>4. CASE RecvPool
  <2>1. /\ item' = IF At("recv", "poll")' THEN [item EXCEPT !["recv"] = NoOrder] ELSE item
        /\ UNCHANGED <<arrived, inbound, journal, trades>>
    BY <1>4 DEF RecvPool, log, result
  <2>2. \/ At("recv", "allocate") /\ (Go("recv", "poll") \/ Go("recv", "allocated"))
        \/ At("recv", "allocated") /\ Go("recv", "decode")
        \/ Go("recv", "poll") \/ Go("recv", "deallocated")
    BY <1>4 DEF RecvPool, AllocateLoad, AllocateStore, DeallocateLoad, DeallocateStore, WhenExhausted
  <2> QED BY <1>0, <2>1, <2>2
<1>5. ASSUME NEW t \in Producers, Push(t), inbound' # Append(inbound, item[t]) PROVE Quiet
  <2>1. /\ item' = [item EXCEPT ![t] = NoOrder]
        /\ Go(t, IF t = "synth" THEN "batch" ELSE "poll")
        /\ UNCHANGED <<arrived, inbound, journal, trades>>
    BY <1>5 DEF Push, log, result
  <2> QED BY <1>0, <1>5, <2>1
<1>6. CASE EngineRisk
  BY <1>0, <1>6 DEF EngineRisk, log, result
<1>7. CASE EnginePool
  BY <1>0, <1>7 DEF EnginePool, AllocateLoad, AllocateStore, WhenExhausted, log, result
<1>8. CASE EngineDeallocate
  BY <1>0, <1>8 DEF EngineDeallocate, DeallocateLoad, DeallocateStore, input, log
<1>9. CASE EngineEmit
  BY <1>0, <1>9 DEF EngineEmit, input, log
<1>10. CASE EngineNext
  BY <1>0, <1>10 DEF EngineNext, result
<1>11. ASSUME NEW received \in BOOLEAN, SendPop(received) PROVE Quiet
  BY <1>11 DEF SendPop, input, log, result
<1>12. CASE UNCHANGED vars
  BY <1>12 DEF vars, data, input, log, result
<1>13. "recv" \in Threads /\ \A t \in Producers : Push(t) => At(t, "push")
  BY <1>0 DEF Push
<1> HIDE DEF Quiet, At
<1> QED
  BY <1>1, <1>2, <1>3, <1>4, <1>5, <1>6, <1>7, <1>8, <1>9, <1>10, <1>11, <1>12, <1>13
     DEF Next, Runs

LEMMA OnceInitially == Init => OnceInv
<1> SUFFICES ASSUME Init PROVE OnceInv
  OBVIOUS
<1>1. /\ pc["engine"] = "poll" /\ \A t \in Producers : pc[t] = "poll"
      /\ journal = <<>> /\ inbound = <<>>
  BY DEF Init, Threads, Producers
<1> QED
  BY <1>1 DEF OnceInv, Numbered, InLine, OrdersOnce, OfOrder, Carries, Unjournaled, Matched, At

LEMMA OnceKept ==
    ASSUME TypeInv, OnceInv, [Next]_vars
    PROVE  OnceInv'
<1> DEFINE e == item["engine"]
<1>0. /\ Threads = {"recv", "feed", "synth", "send", "http", "engine"}
      /\ Producers = {"recv", "feed", "synth"}
      /\ pc \in [Threads -> Labels]
      /\ item \in [Producers \cup {"engine"} -> Order \cup {NoOrder}]
      /\ inbound \in Seq(Order) /\ journal \in Seq(Entries) /\ trades \in Seq(Entries)
      /\ \A t \in Producers : Carries(t) => item[t] \in Order
      /\ Unjournaled => e \in Order
      /\ arrived \in Nat
  BY DEF Threads, Producers, TypeInv, Control, Hands, Lists, Works
<1>1. CASE Quiet
  <2>1. Numbered'
    BY <1>1 DEF OnceInv, Numbered, Quiet, OfOrder
  <2>2. InLine'
    BY <1>1 DEF OnceInv, InLine, OrdersOnce, Quiet, OfOrder
  <2> QED BY <1>1, <2>1, <2>2 DEF OnceInv, Quiet
<1>2. ASSUME NEW o \in Order, Arrive(o) PROVE OnceInv'
  <2>1. /\ o.src \in Producers /\ item' = [item EXCEPT ![o.src] = o]
        /\ \E label \in {"allocate", "push"} : Go(o.src, label)
        /\ o.n = arrived + 1 /\ arrived' = o.n
        /\ UNCHANGED <<inbound, journal, trades>>
    BY <1>0, <1>2 DEF Arrive, log, result
  <2>2. /\ item'[o.src] = o /\ \A t \in Producers : t # o.src => item'[t] = item[t] /\ (Carries(t)' <=> Carries(t))
        /\ item'["engine"] = e /\ (Unjournaled' <=> Unjournaled) /\ (Matched' <=> Matched)
    BY <1>0, <2>1 DEF Go, Carries, At, Unjournaled, Matched
  <2>3. /\ \A i \in DOMAIN journal : journal[i].n \in Int
        /\ \A i \in DOMAIN inbound : inbound[i].n \in Int
        /\ \A t \in Producers : Carries(t) => item[t].n \in Int
        /\ Unjournaled => e.n \in Int
    <3>1. (\A x \in Order : x.n \in Int) /\ (\A x \in Entries : x.n \in Int)
      BY DEF Order, Entries
    <3>2. /\ \A i \in DOMAIN journal : journal[i] \in Entries
          /\ \A i \in DOMAIN inbound : inbound[i] \in Order
      BY <1>0
    <3> QED BY <1>0, <3>1, <3>2
  <2>4. \A x : x.n \in Int /\ x.n <= arrived => Follows(x, o) /\ x.n <= arrived'
    BY <1>0, <2>1 DEF Follows
  <2>5. o.n <= arrived' /\ \A n \in Int : n <= arrived => n # o.n
    BY <1>0, <2>1
  <2>6. Numbered'
    BY <2>1, <2>2, <2>3, <2>4, <2>5 DEF OnceInv, Numbered, OfOrder
  <2>7. InLine'
    BY <2>1, <2>2, <2>3, <2>4 DEF OnceInv, InLine, Numbered, OrdersOnce, OfOrder
  <2> QED BY <2>1, <2>2, <2>6, <2>7 DEF OnceInv
<1>3. ASSUME NEW t \in Producers, At(t, "push"), Push(t), inbound' = Append(inbound, item[t])
      PROVE OnceInv'
  <2>1. /\ item' = [item EXCEPT ![t] = NoOrder]
        /\ Go(t, IF t = "synth" THEN "batch" ELSE "poll")
        /\ UNCHANGED <<arrived, journal, trades>>
    BY <1>3 DEF Push, log, result
  <2>2. /\ Carries(t) /\ ~ Carries(t)'
        /\ \A u \in Producers : Carries(u)' => u # t /\ Carries(u) /\ item'[u] = item[u]
        /\ item'["engine"] = e /\ (Unjournaled' <=> Unjournaled) /\ (Matched' <=> Matched)
    BY <1>0, <1>3, <2>1 DEF Go, Carries, At, Unjournaled, Matched
  <2>3. \A i \in DOMAIN inbound' : \/ i \in DOMAIN inbound /\ inbound'[i] = inbound[i]
                                   \/ i = Len(inbound) + 1 /\ inbound'[i] = item[t]
    BY <1>0, <1>3, <2>2
  <2>4. \A i, k \in DOMAIN inbound' : i < k => i \in DOMAIN inbound
    BY <1>0, <1>3, <2>2
  <2>5. Numbered'
    BY <1>3, <2>1, <2>2, <2>3 DEF OnceInv, Numbered, OfOrder
  <2>6. \A u \in Producers : Carries(u)' => Follows(item[t], item[u])
    BY <1>3, <2>2 DEF OnceInv, Numbered, Follows
  <2>7. \A i, k \in DOMAIN inbound' : i < k => Follows(inbound'[i], inbound'[k])
    <3> SUFFICES ASSUME NEW i \in DOMAIN inbound', NEW k \in DOMAIN inbound', i < k
                 PROVE  Follows(inbound'[i], inbound'[k])
      OBVIOUS
    <3>1. i \in DOMAIN inbound /\ inbound'[i] = inbound[i]
      <4>1. i \in DOMAIN inbound
        BY <2>4
      <4>2. i # Len(inbound) + 1
        BY <1>0, <4>1
      <4> QED BY <2>3, <4>1, <4>2
    <3> QED BY <1>3, <2>2, <2>3, <3>1 DEF OnceInv, InLine
  <2>8. InLine'
    BY <1>3, <2>1, <2>2, <2>3, <2>6, <2>7 DEF OnceInv, InLine, OrdersOnce, OfOrder
  <2> QED BY <2>1, <2>2, <2>5, <2>8 DEF OnceInv
<1>4. CASE EnginePop
  <2>1. /\ inbound # <<>> /\ inbound' = Tail(inbound) /\ item' = [item EXCEPT !["engine"] = Head(inbound)]
        /\ At("engine", "poll") /\ Go("engine", "risk")
        /\ UNCHANGED <<arrived, journal, trades>>
    BY <1>4 DEF EnginePop, WithoutFirst, log, result
  <2>2. /\ item'["engine"] = inbound[1] /\ 1 \in DOMAIN inbound
        /\ \A i \in DOMAIN inbound' : i + 1 \in DOMAIN inbound /\ inbound'[i] = inbound[i + 1] /\ 1 < i + 1
        /\ \A i, k \in DOMAIN inbound' : i < k => i + 1 < k + 1
    BY <1>0, <2>1
  <2>3. /\ \A u \in Producers : (Carries(u)' <=> Carries(u)) /\ item'[u] = item[u]
        /\ ~ Matched'
    BY <1>0, <2>1 DEF Go, Carries, At, Matched
  <2>4. Numbered'
    BY <2>1, <2>2, <2>3 DEF OnceInv, Numbered, OfOrder
  <2>5. InLine'
    BY <2>1, <2>2, <2>3 DEF OnceInv, InLine, OrdersOnce, OfOrder
  <2> QED BY <2>3, <2>4, <2>5 DEF OnceInv
<1>5. CASE EngineJournal
  <2> DEFINE r == Entry(e, 0, e.qty)
  <2>1. /\ Unjournaled /\ Go("engine", "match") /\ journal' = Append(journal, r)
        /\ UNCHANGED <<item, inbound, arrived>>
    <3>1. journal \o <<r>> = Append(journal, r)
      BY <1>0
    <3> QED BY <1>5, <3>1 DEF EngineJournal, Write, Unjournaled, At, input
  <2>2. /\ ~ Unjournaled' /\ ~ Matched'
        /\ \A u \in Producers : Carries(u)' <=> Carries(u)
    BY <1>0, <2>1 DEF Go, Carries, At, Unjournaled, Matched
  <2>3. r.n = e.n /\ r.src = e.src /\ r \in Entries
    BY <1>0, <2>1 DEF Entry, Entries, Order
  <2> HIDE DEF r
  <2>4. \A i \in DOMAIN journal' : \/ i \in DOMAIN journal /\ journal'[i] = journal[i]
                                   \/ i = Len(journal) + 1 /\ journal'[i] = r
    BY <1>0, <2>1, <2>3
  <2>5. \A i, k \in DOMAIN journal' : i < k => i \in DOMAIN journal /\ i # Len(journal) + 1
    BY <1>0, <2>1, <2>3
  <2>6. Numbered'
    BY <2>1, <2>2, <2>3, <2>4 DEF OnceInv, Numbered, OfOrder
  <2>7. OrdersOnce'
    BY <2>1, <2>3, <2>4, <2>5 DEF OnceInv, InLine, OrdersOnce, OfOrder, Follows
  <2>8. InLine'
    BY <2>1, <2>2, <2>3, <2>4, <2>7 DEF OnceInv, InLine, OfOrder, Follows
  <2> QED BY <2>2, <2>6, <2>8 DEF OnceInv
<1>6. CASE EngineReport
  <2>1. /\ At("engine", "report") /\ Go("engine", "emit") /\ journal' = journal \o trades
        /\ UNCHANGED <<item, inbound, arrived>>
    BY <1>6 DEF EngineReport, Write, input
  <2>2. /\ Matched /\ ~ Unjournaled' /\ ~ Matched'
        /\ \A u \in Producers : Carries(u)' <=> Carries(u)
    BY <1>0, <2>1 DEF Go, Carries, At, Unjournaled, Matched
  <2>3. \A i \in DOMAIN journal' : OfOrder(i)' => i \in DOMAIN journal /\ journal'[i] = journal[i]
    <3> SUFFICES ASSUME NEW i \in DOMAIN journal', journal'[i].trade = 0
                 PROVE  i \in DOMAIN journal /\ journal'[i] = journal[i]
      BY DEF OfOrder
    <3>1. \/ i \in DOMAIN journal /\ journal'[i] = journal[i]
          \/ i - Len(journal) \in DOMAIN trades /\ journal'[i] = trades[i - Len(journal)]
      BY <1>0, <2>1
    <3> QED BY <2>2, <3>1 DEF OnceInv
  <2>4. Numbered'
    BY <2>1, <2>2, <2>3 DEF OnceInv, Numbered, OfOrder
  <2>5. InLine'
    BY <2>1, <2>2, <2>3 DEF OnceInv, InLine, OrdersOnce, OfOrder
  <2> QED BY <2>2, <2>4, <2>5 DEF OnceInv
<1>7. ASSUME NEW qtys \in Quantities, NEW filled \in SUBSET resting, EngineMatch(qtys, filled)
      PROVE OnceInv'
  <2>1. /\ UNCHANGED <<item, inbound, arrived, journal>>
        /\ trades' = [i \in 1 .. Len(qtys) |-> Entry(e, i, qtys[i])]
        /\ Go("engine", "report") \/ Go("engine", "deallocate")
    BY <1>7 DEF EngineMatch, input, log
  <2>2. /\ ~ Unjournaled' /\ \A u \in Producers : Carries(u)' <=> Carries(u)
    BY <1>0, <2>1 DEF Go, Carries, At, Unjournaled
  <2>3. \A i \in DOMAIN trades' : trades'[i].trade # 0
    BY <2>1 DEF Entry
  <2>4. Numbered' /\ InLine'
    BY <2>1, <2>2 DEF OnceInv, Numbered, InLine, OrdersOnce, OfOrder
  <2> QED BY <2>3, <2>4 DEF OnceInv
<1> QED BY <1>1, <1>2, <1>3, <1>4, <1>5, <1>6, <1>7, QuietSteps

(* The journal has each order at most once, and those of one thread in the *)
(* order in which they arrived (engine.cpp:65, 94-99).                     *)
THEOREM OnceInOrder == Spec => []OrdersOnce
<1>1. TypeInv /\ OnceInv /\ [Next]_vars => OnceInv'
  BY OnceKept
<1>2. OnceInv => OrdersOnce
  BY DEF OnceInv, InLine
<1> QED BY <1>1, <1>2, OnceInitially, Types, PTL DEF Spec
=============================================================================
