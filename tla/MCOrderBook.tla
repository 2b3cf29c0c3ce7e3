----------------------------- MODULE MCOrderBook ----------------------------
(* OrderBook for TLC: ids are only compared for equality.                  *)
EXTENDS OrderBook, TLC

IdSymmetry == Permutations(Ids)
=============================================================================
