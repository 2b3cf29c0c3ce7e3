------------------------------ MODULE MarketFeed ----------------------------
(***************************************************************************)
(* market::FeedHandler (feed_handler.hpp): a thread takes datagrams of a   *)
(* market data feed from a UDP socket, watches their sequence numbers, and *)
(* keeps the best bid and offer of the last quote.  Each quote becomes an  *)
(* order for the engine, which the thread pushes before it reads on.       *)
(*                                                                         *)
(* The network may lose, repeat and reorder datagrams: any of those sent   *)
(* may be the next to arrive.  A quote is named by its sequence number.    *)
(* Datagrams too short for a sequence number are ignored, and left out.    *)
(***************************************************************************)
EXTENDS Integers, Sequences

CONSTANTS Datagrams,     \* the sequence numbers that the feed sends
          Quotes,        \* those of datagrams long enough for a quote
          MaxHandled,    \* bound: datagrams that arrive
          NoQuote

ASSUME FeedAssumption ==
    /\ Datagrams \subseteq Nat /\ Quotes \subseteq Datagrams
    /\ MaxHandled \in Nat
    /\ NoQuote \notin Datagrams

VARIABLES expected,      \* expected_seq_, zero before the first datagram
          gaps,          \* gap_count_
          bbo,           \* bbo_: which quote it shows, and valid
          feedOrder,     \* the order being pushed, or NoQuote
          handled        \* the datagrams handled so far

feed == <<expected, gaps, bbo, feedOrder, handled>>

FeedInit ==
    /\ expected = 0 /\ gaps = 0
    /\ bbo = [quote |-> NoQuote, valid |-> FALSE]
    /\ feedOrder = NoQuote
    /\ handled = <<>>

GapAhead(s) == expected # 0 /\ s > expected   (* faulty: only what is missing *)
Gap(s) == expected # 0 /\ s # expected

StillValidAlways(s) == bbo.valid              (* faulty: a gap leaves it *)
StillValid(s) == bbo.valid /\ ~ Gap(s)

(* One round of run(), with update_bbo. *)
Datagram(s) ==
    /\ feedOrder = NoQuote /\ Len(handled) < MaxHandled
    /\ gaps' = IF Gap(s) THEN gaps + 1 ELSE gaps
    /\ expected' = s + 1
    /\ bbo' = IF s \in Quotes THEN [quote |-> s, valid |-> TRUE]
              ELSE [bbo EXCEPT !.valid = StillValid(s)]
    /\ feedOrder' = IF s \in Quotes THEN s ELSE NoQuote
    /\ handled' = Append(handled, s)

(* The end of update_bbo: the push has found room. *)
FeedPushed ==
    /\ feedOrder # NoQuote /\ feedOrder' = NoQuote
    /\ UNCHANGED <<expected, gaps, bbo, handled>>

-----------------------------------------------------------------------------
Consecutive(s) == \A k \in 1 .. Len(s) - 1 : s[k + 1] = s[k] + 1

(* Nothing between two datagrams is missed, repeated or overtaken without  *)
(* being counted: while gap_count_ is zero, those handled follow one       *)
(* another (feed_handler.hpp:47-52).                                       *)
NoSilentLoss == gaps = 0 => Consecutive(handled)

(* While bbo_ says valid, no datagram has been missed since the quote it   *)
(* shows: what was handled from that quote on is consecutive, up to the    *)
(* datagram expected next (feed_handler.hpp:49, 74).                       *)
BboCurrent ==
    bbo.valid =>
        \E k \in 1 .. Len(handled) :
            /\ handled[k] = bbo.quote
            /\ \A j \in k .. Len(handled) : handled[j] = bbo.quote + (j - k)
            /\ \A j \in k + 1 .. Len(handled) : handled[j] \notin Quotes
            /\ expected = bbo.quote + (Len(handled) - k) + 1

(* What makes it inductive. *)
FeedTypeOK ==
    /\ expected \in Nat /\ gaps \in Nat
    /\ bbo.valid \in BOOLEAN
    /\ bbo = [quote |-> bbo.quote, valid |-> bbo.valid]
    /\ handled \in Seq(Datagrams)
    /\ Len(handled) > 0 => expected = handled[Len(handled)] + 1
    /\ Len(handled) = 0 => expected = 0 /\ ~ bbo.valid

FeedInv == FeedTypeOK /\ NoSilentLoss /\ BboCurrent
=============================================================================
