----------------------------- MODULE LevelQueue -----------------------------
(***************************************************************************)
(* What the order book takes a price level to be: the sequence of the slots*)
(* whose orders rest at one price, oldest first, with the two totals that  *)
(* order::PriceLevel keeps.  PriceLevel.tla shows that the pointers of the *)
(* intrusive list implement it.                                            *)
(***************************************************************************)
EXTENDS Integers, Sequences, Functions

QueueRecords(S) == [queue : Seq(S), total : Int, count : Int]

NewLevel == [queue |-> <<>>, total |-> 0, count |-> 0]

PushFront(lv, s, q) ==                        (* faulty: newest first *)
    [queue |-> <<s>> \o lv.queue, total |-> lv.total + q, count |-> lv.count + 1]

PushBack(lv, s, q) ==
    [queue |-> Append(lv.queue, s), total |-> lv.total + q, count |-> lv.count + 1]

RemoveFrom(lv, s, q) ==
    LET i == CHOOSE i \in DOMAIN lv.queue : lv.queue[i] = s
    IN  [queue |-> SubSeq(lv.queue, 1, i - 1) \o SubSeq(lv.queue, i + 1, Len(lv.queue)),
         total |-> lv.total - q, count |-> lv.count - 1]
=============================================================================
