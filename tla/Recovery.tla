------------------------------- MODULE Recovery -----------------------------
(***************************************************************************)
(* What the journal is for: a book that is lost in a crash is rebuilt by   *)
(* replaying the records that had reached the file, as replay_test.cpp     *)
(* does.  A live process journals an order before it matches it, and its   *)
(* trades after (engine.cpp); it may die at any point, with any part of    *)
(* the journal on disk that is a prefix, which is what Journal shows.      *)
(* Replay gives each order record to a new book and passes over the trades.*)
(*                                                                         *)
(* The orders are those of clients and of the generator, which come with   *)
(* remaining_qty equal to qty.  Orders of the market feed do not (see      *)
(* Remaining in Engine), and replay is not faithful to them.               *)
(***************************************************************************)
EXTENDS OrderBook, SequencesExt

ASSUME NumberedOrders == 1 .. MaxClock \subseteq Ids     \* an order has its number for an id

VARIABLES mode,      \* "live", or "replay" after the crash
          journal,   \* the records; after the crash, those that were on disk
          made,      \* live, the trades of the match in hand; in replay, all trades so far
          history,   \* what rested after each order of the live process
          cursor     \* how many records replay has read

files == <<mode, journal, made, history, cursor>>

-----------------------------------------------------------------------------
(* net::Codec, by what it keeps of an order and of a trade. *)

EncodeOrder(o) ==
    [kind |-> "order", id |-> o.id, side |-> o.side, price |-> o.price, qty |-> o.rem]

EncodeTradesBackwards(trades) ==              (* faulty: the last first *)
    [i \in DOMAIN trades |-> [kind |-> "trade", trade |-> trades[Len(trades) + 1 - i]]]
EncodeTrades(trades) == [i \in DOMAIN trades |-> [kind |-> "trade", trade |-> trades[i]]]

DecodeNoRemaining(r) == 0                     (* faulty: left as allocated *)
DecodeRemaining(r) == r.qty                   (* remaining_qty = qty *)

(* What is journaled of an order that needs a slot of the pool: an order   *)
(* that is dropped for want of one is not.                                 *)
JournaledFirst(b, o) == <<EncodeOrder(o)>>    (* faulty: before allocate() *)
Journaled(b, o) == IF Exhausted(b) THEN <<>> ELSE <<EncodeOrder(o)>>

(* The ids and quantities that rest at each price, oldest first.           *)
Depth(b) ==
    [side \in Sides |-> [p \in DOMAIN b.levels[side] |->
        LET queue == b.levels[side][p].queue
        IN  [i \in DOMAIN queue |-> <<b.ord[queue[i]].id, b.ord[queue[i]].rem>>]]]

-----------------------------------------------------------------------------
StartLive ==
    /\ mode = "live" /\ journal = <<>> /\ made = <<>> /\ history = <<>> /\ cursor = 0

(* Engine::run has taken an order that passes the risk check. *)
Receive(side, p, q) ==
    /\ mode = "live"
    /\ NewOrder(clock + 1, side, p, q)
    /\ journal' = journal \o Journaled(book, Order(clock + 1, side, p, q, clock + 1))
    /\ UNCHANGED <<mode, made, history, cursor>>

(* The pool is exhausted: the order is dropped. *)
DropOrder(side, p, q) ==
    /\ mode = "live" /\ Idle /\ Exhausted(book) /\ clock < MaxClock
    /\ journal' = journal \o Journaled(book, Order(clock + 1, side, p, q, clock + 1))
    /\ clock' = clock + 1
    /\ UNCHANGED <<book, aggressive, trade, mode, made, history, cursor>>

(* A trade of match(), in either process. *)
MakeTrade ==
    /\ FillStep
    /\ made' = Append(made, trade')
    /\ UNCHANGED <<mode, journal, history, cursor>>

(* match() returns, and Engine::run journals the trades. *)
JournalTrades ==
    /\ mode = "live" /\ FinishMatch
    /\ journal' = journal \o EncodeTrades(made) /\ made' = <<>>
    /\ history' = Append(history, Depth(book'))
    /\ UNCHANGED <<mode, cursor>>

(* The process dies, and replay starts on an empty book with what was on   *)
(* disk.  stop() is the same with all of the journal on disk.              *)
Crash ==
    /\ mode = "live" /\ mode' = "replay"
    /\ \E n \in 0 .. Len(journal) : journal' = SubSeq(journal, 1, n)
    /\ book' = EmptyBook
    /\ aggressive' = NoSlot /\ trade' = NoTrade /\ clock' = 0
    /\ made' = <<>> /\ UNCHANGED <<history, cursor>>

Unread == mode = "replay" /\ Idle /\ cursor < Len(journal)
NextRecord == journal[cursor + 1]

ReplayOrder ==
    /\ Unread /\ NextRecord.kind = "order"
    /\ NewOrder(NextRecord.id, NextRecord.side, NextRecord.price, DecodeRemaining(NextRecord))
    /\ cursor' = cursor + 1
    /\ UNCHANGED <<mode, journal, made, history>>

SkipTrade ==
    /\ Unread /\ NextRecord.kind = "trade"
    /\ cursor' = cursor + 1
    /\ UNCHANGED <<vars, mode, journal, made, history>>

ReturnFromMatch ==
    /\ mode = "replay" /\ FinishMatch
    /\ UNCHANGED files

RecoveryNext ==
    \/ \E side \in Sides, p \in Prices, q \in Quantities :
           Receive(side, p, q) \/ DropOrder(side, p, q)
    \/ MakeTrade
    \/ JournalTrades
    \/ Crash
    \/ ReplayOrder
    \/ SkipTrade
    \/ ReturnFromMatch

RecoverySpec == Init /\ StartLive /\ [][RecoveryNext]_<<vars, files>>

-----------------------------------------------------------------------------
(* How many of the first n records are of that kind. *)
Count(records, kind, n) == Cardinality({i \in 1 .. n : records[i].kind = kind})

OrdersRead == Count(journal, "order", cursor)

(* After each order that replay has matched, the book holds at every price *)
(* the ids and quantities that the live book held after that order, in the *)
(* same places, wherever the live process died                             *)
(* (engine.cpp:94-111, replay_test.cpp:71-82, README.md:32).               *)
BookRebuilt ==
    (mode = "replay" /\ Idle /\ OrdersRead \in DOMAIN history) =>
        Depth(book) = history[OrdersRead]

(* Replay makes the trades that were journaled, in that order: it never    *)
(* contradicts a trade on disk, and at its end has made them all           *)
(* (engine.cpp:104-111).                                                   *)
TradesReproduced ==
    mode = "replay" =>
        \A i \in DOMAIN journal : journal[i].kind = "trade" =>
            LET n == Count(journal, "trade", i)
            IN  /\ n \in DOMAIN made => made[n] = journal[i].trade
                /\ (Idle /\ cursor = Len(journal)) => n \in DOMAIN made

(* Replay has a slot for every order it reads: it writes to what allocate()*)
(* returns without a test (replay_test.cpp:77-78).                         *)
ReplayHasRoom == (Unread /\ NextRecord.kind = "order") => ~ Exhausted(book)
=============================================================================
