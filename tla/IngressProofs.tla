---------------------------- MODULE IngressProofs ---------------------------
(***************************************************************************)
(* What the feed handler says of gaps and of its BBO is true, whatever the *)
(* network does, for any set of datagrams; and of a client's stream only   *)
(* whole messages become orders, and if it is read one by one, all of them.*)
(***************************************************************************)
EXTENDS Ingress, TLAPS

USE EntryAssumption, FeedAssumption, IngressAssumption

LEMMA Initially == Init => FeedInv
<1> SUFFICES ASSUME Init PROVE FeedInv
  OBVIOUS
<1>1. /\ expected = 0 /\ gaps = 0 /\ handled = <<>>
      /\ bbo = [quote |-> NoQuote, valid |-> FALSE]
  BY DEF Init, FeedInit
<1>2. FeedTypeOK
  BY <1>1 DEF FeedTypeOK
<1>3. NoSilentLoss /\ BboCurrent
  BY <1>1 DEF NoSilentLoss, Consecutive, BboCurrent
<1> QED BY <1>2, <1>3 DEF FeedInv

(* A datagram is last of those handled, and expected is its successor.  If *)
(* it is not the one expected a gap is counted, and bbo_ stays valid only  *)
(* if it brings a quote.                                                   *)
LEMMA Arrives ==
    ASSUME FeedInv, NEW s \in Datagrams, Datagram(s)
    PROVE  FeedInv'
<1> DEFINE n == Len(handled)
<1>1. /\ handled \in Seq(Datagrams) /\ n \in Nat /\ s \in Nat
      /\ handled' = Append(handled, s)
      /\ expected' = s + 1 /\ expected \in Nat /\ gaps \in Nat
      /\ gaps' = (IF Gap(s) THEN gaps + 1 ELSE gaps)
      /\ bbo' = IF s \in Quotes THEN [quote |-> s, valid |-> TRUE]
                ELSE [bbo EXCEPT !.valid = StillValid(s)]
      /\ bbo = [quote |-> bbo.quote, valid |-> bbo.valid] /\ bbo.valid \in BOOLEAN
  BY DEF FeedInv, FeedTypeOK, Datagram
<1>2. /\ handled' \in Seq(Datagrams) /\ Len(handled') = n + 1
      /\ \A k \in 1 .. n : handled'[k] = handled[k] /\ handled[k] \in Nat
      /\ handled'[n + 1] = s
  BY <1>1
<1>3. n > 0 => expected = handled[n] + 1 /\ expected # 0
  BY <1>1 DEF FeedInv, FeedTypeOK
<1>4. n > 0 /\ ~ Gap(s) => s = expected
  BY <1>3 DEF Gap
<1>5. /\ s \in Quotes => bbo'.quote = s /\ bbo'.valid = TRUE
      /\ s \notin Quotes => bbo'.quote = bbo.quote /\ bbo'.valid = (bbo.valid /\ ~ Gap(s))
      /\ bbo' = [quote |-> bbo'.quote, valid |-> bbo'.valid]
  <2>1. CASE s \in Quotes
    BY <1>1, <2>1
  <2>2. CASE s \notin Quotes
    <3>1. bbo' = [quote |-> bbo.quote, valid |-> StillValid(s)]
      BY <1>1, <2>2
    <3> QED BY <2>2, <3>1 DEF StillValid
  <2> QED BY <2>1, <2>2
<1>6. /\ n \in Nat /\ Len(handled') = n + 1 /\ s \in Nat
      /\ \A k \in 1 .. n : handled'[k] = handled[k] /\ handled[k] \in Nat
      /\ handled'[n + 1] = s
  BY <1>1, <1>2
<1>7. n \in Nat /\ Len(handled') = n + 1 /\ s \in Nat
  BY <1>6
<1> HIDE DEF n
<1>8. FeedTypeOK'
  <2>1. bbo'.valid \in BOOLEAN
    BY <1>1, <1>6, <1>5 DEF Gap
  <2>2. expected' \in Nat /\ gaps' \in Nat
    BY <1>1
  <2>3. /\ Len(handled') > 0 => expected' = handled'[Len(handled')] + 1
        /\ Len(handled') # 0
    BY <1>1, <1>6
  <2> QED BY <1>2, <1>5, <2>1, <2>2, <2>3 DEF FeedTypeOK
<1>9. NoSilentLoss'
  <2> SUFFICES ASSUME gaps' = 0, NEW k \in 1 .. Len(handled') - 1
               PROVE  handled'[k + 1] = handled'[k] + 1
    BY DEF NoSilentLoss, Consecutive
  <2>1. gaps = 0 /\ ~ Gap(s)
    <3>1. gaps \in Nat /\ gaps' = (IF Gap(s) THEN gaps + 1 ELSE gaps)
      BY <1>1
    <3> QED BY <3>1
  <2>2. CASE k = n
    <3>1. n > 0 /\ n \in 1 .. n
      BY <1>1, <1>6, <2>2
    <3> QED BY <1>6, <1>3, <1>4, <2>1, <2>2, <3>1
  <2>3. CASE k # n
    <3>1. k \in 1 .. n - 1 /\ k \in 1 .. n /\ k + 1 \in 1 .. n
      BY <1>7, <2>3
    <3>2. handled[k + 1] = handled[k] + 1
      BY <2>1, <3>1 DEF FeedInv, NoSilentLoss, Consecutive, n
    <3> QED BY <1>6, <3>1, <3>2
  <2> QED BY <2>2, <2>3
<1>10. BboCurrent'
  <2> SUFFICES ASSUME bbo'.valid
               PROVE  \E k \in 1 .. Len(handled') :
                          /\ handled'[k] = bbo'.quote
                          /\ \A j \in k .. Len(handled') : handled'[j] = bbo'.quote + (j - k)
                          /\ \A j \in k + 1 .. Len(handled') : handled'[j] \notin Quotes
                          /\ expected' = bbo'.quote + (Len(handled') - k) + 1
    BY DEF BboCurrent
  <2>1. CASE s \in Quotes
    <3>1. n + 1 \in 1 .. Len(handled') /\ Len(handled') = n + 1
      BY <1>1, <1>6
    <3>2. /\ \A j \in n + 1 .. n + 1 : j = n + 1 /\ s + (j - (n + 1)) = s
          /\ \A j \in n + 1 + 1 .. n + 1 : FALSE
      BY <1>7
    <3>3. handled'[n + 1] = bbo'.quote /\ bbo'.quote = s /\ expected' = s + 1
      BY <1>1, <1>6, <1>5, <2>1
    <3>4. \A j \in n + 1 .. n + 1 : handled'[j] = bbo'.quote + (j - (n + 1))
      BY <3>2, <3>3
    <3>5. expected' = bbo'.quote + ((n + 1) - (n + 1)) + 1
      BY <1>1, <1>6, <3>3
    <3> QED BY <3>1, <3>2, <3>3, <3>4, <3>5
  <2>2. CASE s \notin Quotes
    <3>1. bbo.valid /\ ~ Gap(s) /\ bbo'.quote = bbo.quote
      BY <1>5, <2>2
    <3>2. PICK k \in 1 .. n :
              /\ handled[k] = bbo.quote
              /\ \A j \in k .. n : handled[j] = bbo.quote + (j - k)
              /\ \A j \in k + 1 .. n : handled[j] \notin Quotes
              /\ expected = bbo.quote + (n - k) + 1
      BY <3>1 DEF FeedInv, BboCurrent, n
    <3>3. n > 0 /\ k \in Nat
      BY <1>7
    <3>4. s = expected
      BY <1>4, <3>1, <3>3
    <3>5. bbo.quote \in Nat
      BY <1>6, <3>2
    <3>6. s = bbo.quote + ((n + 1) - k) /\ s + 1 = bbo.quote + ((n + 1) - k) + 1
      BY <1>7, <3>2, <3>3, <3>4, <3>5
    <3>7. k \in 1 .. Len(handled') /\ handled'[k] = bbo.quote
      BY <1>1, <1>6, <3>2
    <3>8. ASSUME NEW j \in k .. n + 1 PROVE handled'[j] = bbo.quote + (j - k)
      <4>1. CASE j = n + 1
        BY <1>6, <3>6, <4>1
      <4>2. CASE j # n + 1
        <5>1. j \in k .. n /\ j \in 1 .. n
          BY <1>7, <4>2
        <5> QED BY <1>6, <3>2, <5>1
      <4> QED BY <4>1, <4>2
    <3>9. ASSUME NEW j \in k + 1 .. n + 1 PROVE handled'[j] \notin Quotes
      <4>1. CASE j = n + 1
        BY <1>6, <2>2, <4>1
      <4>2. CASE j # n + 1
        <5>1. j \in k + 1 .. n /\ j \in 1 .. n
          BY <1>7, <4>2
        <5> QED BY <1>6, <3>2, <5>1
      <4> QED BY <4>1, <4>2
    <3>10. expected' = bbo.quote + ((n + 1) - k) + 1
      BY <1>1, <3>6
    <3> QED BY <1>6, <3>1, <3>7, <3>8, <3>9, <3>10
  <2> QED BY <2>1, <2>2
<1> QED BY <1>8, <1>9, <1>10 DEF FeedInv

LEMMA Step == FeedInv /\ [Next]_<<entry, feed, inbound, popped>> => FeedInv'
<1> SUFFICES ASSUME FeedInv, [Next]_<<entry, feed, inbound, popped>> PROVE FeedInv'
  OBVIOUS
<1>1. CASE UNCHANGED <<expected, gaps, bbo, handled>>
  BY <1>1 DEF FeedInv, FeedTypeOK, NoSilentLoss, Consecutive, BboCurrent
<1>2. ASSUME NEW s \in Datagrams, Datagram(s) PROVE FeedInv'
  BY <1>2, Arrives
<1>3. \/ \E s \in Datagrams : Datagram(s)
      \/ UNCHANGED <<expected, gaps, bbo, handled>>
  BY DEF Next, Pop, Push, FeedPushed, feed
<1> QED BY <1>1, <1>2, <1>3

(* Whatever the network does, the gap count and the BBO's validity tell.   *)
THEOREM FeedInvariance == Spec => []FeedInv
<1> QED BY Initially, Step, PTL DEF Spec

(* While no gap has been counted, the datagrams handled follow one another *)
(* (feed_handler.hpp:47-52).                                               *)
THEOREM GapsCounted == Spec => []NoSilentLoss
<1> QED BY FeedInvariance, PTL DEF FeedInv

(* While bbo_ is valid, nothing has been missed since the quote it shows   *)
(* (feed_handler.hpp:49, 74).                                              *)
THEOREM ValidBboCurrent == Spec => []BboCurrent
<1> QED BY FeedInvariance, PTL DEF FeedInv

-----------------------------------------------------------------------------
(* The stream.  Whatever has been taken for an order lies wholly in what   *)
(* has been read, so the next message is a later one.                      *)

Items == [src : {"recv", "feed"}, n : Nat]

EntryInv ==
    /\ sent \in Nat /\ read \in Nat /\ read <= sent
    /\ order \in Nat \cup {NoMessage} /\ feedOrder \in Nat \cup {NoQuote}
    /\ popped \in Seq(Items) /\ inbound \in Seq(Items)
    /\ \A k \in DOMAIN Pushed : ByClient(k) => Parts * Pushed[k].n <= read
    /\ order # NoMessage => Parts * order <= read
    /\ OrdersGenuine

LEMMA MessageAhead ==
    ASSUME read \in Nat, AtStart
    PROVE  /\ Message(read) \in Nat /\ Parts * Message(read) = read + Parts
           /\ \A n \in Nat : Parts * n <= read => n < Message(read)
<1> DEFINE q == read \div Parts
<1>1. q \in Nat /\ read = Parts * q
  BY DEF AtStart
<1> HIDE DEF q
<1>2. Parts * (q + 1) = Parts * q + Parts
  BY <1>1
<1>3. ASSUME NEW n \in Nat, n >= q + 1 PROVE Parts * n >= Parts * (q + 1)
  BY <1>1, <1>3
<1>4. ASSUME NEW n \in Nat, Parts * n <= read PROVE n < q + 1
  <2>1. CASE n >= q + 1
    <3>1. Parts * n >= Parts * (q + 1)
      BY <1>3, <2>1
    <3>2. Parts * n \in Int /\ Parts * q \in Int
      BY <1>1
    <3> QED BY <1>1, <1>2, <1>4, <3>1, <3>2
  <2> QED BY <1>1, <2>1
<1> QED BY <1>1, <1>2, <1>4 DEF Message, q

LEMMA NextMessage ==
    ASSUME sent \in Nat
    PROVE  LET up == Parts * ((sent + Parts - 1) \div Parts) IN up \in Nat /\ sent <= up
<1> DEFINE q == (sent + Parts - 1) \div Parts
<1>1. q \in Nat /\ sent + Parts - 1 < Parts * q + Parts
  OBVIOUS
<1> QED BY <1>1

LEMMA PopMoves ==
    ASSUME NEW p \in Seq(Items), NEW q \in Seq(Items), q # <<>>
    PROVE  /\ Append(p, Head(q)) \o Tail(q) = p \o q
           /\ Append(p, Head(q)) \in Seq(Items) /\ Tail(q) \in Seq(Items)
  OBVIOUS

LEMMA PushAppends ==
    ASSUME NEW p \in Seq(Items), NEW q \in Seq(Items), NEW e \in Items
    PROVE  p \o Append(q, e) = Append(p \o q, e)
  OBVIOUS

LEMMA EntryInitially == Init => EntryInv
<1> SUFFICES ASSUME Init PROVE EntryInv
  OBVIOUS
<1>1. Pushed = <<>> /\ popped = <<>> /\ inbound = <<>>
  BY DEF Init, Pushed
<1> QED BY <1>1 DEF Init, EntryInit, FeedInit, EntryInv, OrdersGenuine

(* More is written or read, and the orders stay: what they need only grows.*)
LEMMA StreamGrows ==
    ASSUME EntryInv, UNCHANGED <<popped, inbound>>, feedOrder' \in Nat \cup {NoQuote},
           sent' \in Nat, read' \in Nat, read' <= sent', sent <= sent', read <= read',
           order' = order \/ order' = NoMessage
    PROVE  EntryInv'
<1>1. /\ Pushed' = Pushed /\ Pushed \in Seq(Items)
      /\ \A k : ByClient(k)' <=> ByClient(k)
  BY DEF EntryInv, Pushed, ByClient
<1>2. \A n \in Nat : /\ Parts * n <= read => Parts * n <= read'
                     /\ Parts * n <= sent => Parts * n <= sent'
  <2> TAKE n \in Nat
  <2> DEFINE m == Parts * n
  <2>1. m \in Int /\ read \in Int /\ sent \in Int /\ read' \in Int /\ sent' \in Int
    BY DEF EntryInv
  <2> HIDE DEF m
  <2>2. (m <= read => m <= read') /\ (m <= sent => m <= sent')
    BY <2>1
  <2> QED BY <2>2 DEF m
<1>3. \A k \in DOMAIN Pushed : Pushed[k].n \in Nat
  <2>1. \A k \in DOMAIN Pushed : Pushed[k] \in Items
    BY <1>1
  <2>2. \A x \in Items : x.n \in Nat
    BY DEF Items
  <2> QED BY <2>1, <2>2
<1>4. order' # NoMessage => order' = order /\ order \in Nat
  BY DEF EntryInv
<1> QED BY <1>1, <1>2, <1>3, <1>4 DEF EntryInv, OrdersGenuine

(* A message decoded: it is the one at which the reading stood.            *)
LEMMA Decoded ==
    ASSUME EntryInv, NEW k \in Nat, k >= Parts, AtStart, read + k <= sent,
           read' = read + k, order' = Message(read),
           UNCHANGED <<sent, feedOrder, popped, inbound>>
    PROVE  EntryInv'
<1>1. /\ Pushed' = Pushed /\ Pushed \in Seq(Items)
      /\ \A i : ByClient(i)' <=> ByClient(i)
  BY DEF EntryInv, Pushed, ByClient
<1>2. /\ Message(read) \in Nat /\ Parts * Message(read) = read + Parts
      /\ \A n \in Nat : Parts * n <= read => n < Message(read)
  BY MessageAhead DEF EntryInv
<1>3. read' \in Nat /\ read' <= sent /\ read + Parts <= read' /\ read + Parts <= sent /\ read <= read'
  BY DEF EntryInv
<1>4. \A i \in DOMAIN Pushed : Pushed[i].n \in Nat
  <2>1. \A i \in DOMAIN Pushed : Pushed[i] \in Items
    BY <1>1
  <2>2. \A x \in Items : x.n \in Nat
    BY DEF Items
  <2> QED BY <2>1, <2>2
<1>5. \A n \in Nat : Parts * n <= read => Parts * n <= read'
  <2> TAKE n \in Nat
  <2> DEFINE m == Parts * n
  <2>1. m \in Int /\ read \in Int /\ read' \in Int
    BY DEF EntryInv
  <2> HIDE DEF m
  <2>2. m <= read => m <= read'
    BY <1>3, <2>1
  <2> QED BY <2>2 DEF m
<1>6. Parts * order' <= read' /\ Parts * order' <= sent' /\ order' \in Nat
  BY <1>2, <1>3
<1>7. \A i \in DOMAIN Pushed : ByClient(i) => Pushed[i].n < order'
  BY <1>2, <1>4 DEF EntryInv
<1>8. OrdersGenuine'
  BY <1>1, <1>6, <1>7 DEF EntryInv, OrdersGenuine
<1> QED BY <1>1, <1>3, <1>4, <1>5, <1>6, <1>8 DEF EntryInv

(* An order enters the ring: a client's is the one that was in hand.       *)
LEMMA Enters ==
    ASSUME EntryInv, NEW e \in Items, inbound' = Append(inbound, e),
           e.src = "recv" => order # NoMessage /\ e.n = order /\ order' = NoMessage,
           order' = order \/ order' = NoMessage,
           feedOrder' \in Nat \cup {NoQuote}, UNCHANGED <<sent, read, popped>>
    PROVE  EntryInv'
<1>1. /\ popped \in Seq(Items) /\ inbound \in Seq(Items) /\ Pushed \in Seq(Items)
      /\ inbound' \in Seq(Items)
  BY DEF EntryInv, Pushed
<1>2. Pushed' = Append(Pushed, e)
  BY <1>1, PushAppends DEF Pushed
<1>3. \A k \in DOMAIN Pushed' : \/ k \in DOMAIN Pushed /\ Pushed'[k] = Pushed[k]
                                \/ k = Len(Pushed) + 1 /\ Pushed'[k] = e
  BY <1>1, <1>2
<1>4. \A i, k \in DOMAIN Pushed' : i < k => i \in DOMAIN Pushed /\ Pushed'[i] = Pushed[i]
  BY <1>1, <1>2
<1>5. \A k \in DOMAIN Pushed' : ByClient(k)' =>
          Parts * Pushed'[k].n <= read' /\ Parts * Pushed'[k].n <= sent'
  BY <1>3 DEF EntryInv, OrdersGenuine, ByClient
<1>6. \A i, k \in DOMAIN Pushed' :
          (i < k /\ ByClient(i)' /\ ByClient(k)') => Pushed'[i].n < Pushed'[k].n
  BY <1>3, <1>4 DEF EntryInv, OrdersGenuine, ByClient
<1>7. order' # NoMessage => /\ order' = order /\ Parts * order' <= read' /\ Parts * order' <= sent'
                            /\ \A k \in DOMAIN Pushed' : ByClient(k)' => Pushed'[k].n < order'
  BY <1>3 DEF EntryInv, OrdersGenuine, ByClient
<1>8. OrdersGenuine'
  BY <1>5, <1>6, <1>7 DEF OrdersGenuine
<1> QED BY <1>1, <1>5, <1>7, <1>8 DEF EntryInv

LEMMA EntryKept ==
    ASSUME EntryInv, [Next]_<<entry, feed, inbound, popped>>
    PROVE  EntryInv'
<1>0. /\ sent \in Nat /\ read \in Nat /\ read <= sent /\ feedOrder \in Nat \cup {NoQuote}
      /\ popped \in Seq(Items) /\ inbound \in Seq(Items)
  BY DEF EntryInv
<1>1. CASE ClientSends /\ UNCHANGED <<feed, inbound, popped>>
  <2>1. sent' = sent + 1 /\ UNCHANGED <<read, order, feedOrder, inbound, popped>>
    BY <1>1 DEF ClientSends, feed
  <2>2. sent' \in Nat /\ sent <= sent' /\ read <= sent'
    BY <1>0, <2>1
  <2> QED BY <1>0, <2>1, <2>2, StreamGrows
<1>2. ASSUME NEW k \in 1 .. BufParts, Recv(k), UNCHANGED <<feed, inbound, popped>>
      PROVE EntryInv'
  <2>1. /\ read + k <= sent /\ read' = read + k /\ sent' = sent /\ order = NoMessage
        /\ UNCHANGED <<feedOrder, inbound, popped>>
    BY <1>2 DEF Recv, feed
  <2>2. k \in Nat /\ read' \in Nat /\ read' <= sent' /\ read <= read' /\ sent <= sent'
    BY <1>0, <2>1
  <2>3. CASE order' = NoMessage
    BY <1>0, <2>1, <2>2, <2>3, StreamGrows
  <2>4. CASE order' # NoMessage
    <3>1. AtStart /\ k >= Parts /\ order' = Message(read)
      BY <1>2, <2>1, <2>4 DEF Recv, Decode
    <3> QED BY <2>1, <2>2, <3>1, Decoded
  <2> QED BY <2>3, <2>4
<1>3. CASE Reconnect /\ UNCHANGED <<feed, inbound, popped>>
  <2>1. /\ sent' = Parts * ((sent + Parts - 1) \div Parts) /\ read' = sent' /\ order' = order
        /\ UNCHANGED <<feedOrder, inbound, popped>>
    BY <1>3 DEF Reconnect, feed
  <2>2. sent' \in Nat /\ sent <= sent'
    BY <1>0, <2>1, NextMessage
  <2>3. read' \in Nat /\ read' <= sent' /\ read <= read'
    BY <1>0, <2>1, <2>2
  <2> QED BY <1>0, <2>1, <2>2, <2>3, StreamGrows
<1>4. CASE Push(Item("recv", order), EntryPushed) /\ UNCHANGED <<feed, popped>>
  <2> DEFINE e == Item("recv", order)
  <2>1. /\ inbound' = Append(inbound, e) /\ order # NoMessage /\ order' = NoMessage
        /\ UNCHANGED <<sent, read, feedOrder, popped>>
    BY <1>4 DEF Push, EntryPushed, feed
  <2>2. e \in Items /\ e.n = order /\ e.src = "recv"
    BY <2>1 DEF Item, Items, EntryInv
  <2> HIDE DEF e
  <2> QED BY <1>0, <2>1, <2>2, Enters
<1>5. CASE Push(Item("feed", feedOrder), FeedPushed) /\ UNCHANGED <<entry, popped>>
  <2> DEFINE e == Item("feed", feedOrder)
  <2>1. /\ inbound' = Append(inbound, e) /\ feedOrder # NoQuote /\ feedOrder' = NoQuote
        /\ UNCHANGED <<sent, read, order, popped>>
    BY <1>5 DEF Push, FeedPushed, entry
  <2>2. e \in Items /\ e.src = "feed"
    BY <1>0, <2>1 DEF Item, Items
  <2> HIDE DEF e
  <2> QED BY <2>1, <2>2, Enters
<1>6. ASSUME NEW s \in Datagrams, Datagram(s), UNCHANGED <<entry, inbound, popped>>
      PROVE EntryInv'
  <2>1. feedOrder' \in Nat \cup {NoQuote} /\ UNCHANGED <<sent, read, order, inbound, popped>>
    BY <1>6 DEF Datagram, entry
  <2> QED BY <1>0, <2>1, StreamGrows
<1>7. CASE Pop
  <2>1. /\ inbound # <<>> /\ inbound' = Tail(inbound) /\ popped' = Append(popped, Head(inbound))
        /\ UNCHANGED <<sent, read, order, feedOrder>>
    BY <1>7 DEF Pop, feed
  <2>2. Pushed' = Pushed /\ inbound' \in Seq(Items) /\ popped' \in Seq(Items)
    BY <1>0, <2>1, PopMoves DEF Pushed
  <2> QED BY <2>1, <2>2 DEF EntryInv, OrdersGenuine, ByClient
<1>8. CASE UNCHANGED <<entry, feed, inbound, popped>>
  BY <1>8, <1>0, StreamGrows DEF entry, feed
<1> QED BY <1>1, <1>2, <1>3, <1>4, <1>5, <1>6, <1>7, <1>8 DEF Next

(* However the stream is cut, only whole messages reach the engine, in the *)
(* order in which they were sent and none twice                            *)
(* (engine.cpp:221-242, codec.hpp:67-94).                                  *)
THEOREM StreamGenuine == Spec => []OrdersGenuine
<1>1. EntryInv => OrdersGenuine
  BY DEF EntryInv
<1>2. EntryInv /\ [Next]_<<entry, feed, inbound, popped>> => EntryInv'
  BY EntryKept
<1> QED BY <1>1, <1>2, EntryInitially, PTL DEF Spec

-----------------------------------------------------------------------------
(* Reading one message at a time.  The reading then stands between two     *)
(* messages, and all before it are in hand or have been pushed.            *)

KeptInv ==
    /\ EntryInv /\ sent <= Parts * MaxMessages
    /\ whole => AtStart /\ FromClients = 1 .. read \div Parts

(* The message at which the reading stands is one that a client began. *)
LEMMA OneMessage ==
    ASSUME read \in Nat, sent \in Nat, AtStart, read + Parts <= sent,
           sent <= Parts * MaxMessages
    PROVE  /\ Message(read) # NoMessage
           /\ (read + Parts) % Parts = 0
           /\ (read + Parts) \div Parts = Message(read)
           /\ 1 .. Message(read) = (1 .. read \div Parts) \cup {Message(read)}
<1> DEFINE q == read \div Parts
<1>1. q \in Nat /\ read = Parts * q
  BY DEF AtStart
<1> HIDE DEF q
<1>2. Parts * (q + 1) = Parts * q + Parts
  BY <1>1
<1>3. (Parts * (q + 1)) \div Parts = q + 1 /\ (Parts * (q + 1)) % Parts = 0
  BY <1>1
<1>4. q + 1 <= MaxMessages
  <2>1. CASE MaxMessages < q + 1
    <3>1. Parts * MaxMessages <= Parts * q
      BY <1>1, <2>1
    <3>2. Parts * MaxMessages \in Int /\ Parts * q \in Int
      BY <1>1
    <3> QED BY <1>1, <3>1, <3>2
  <2> QED BY <1>1, <2>1
<1>5. 1 .. q + 1 = (1 .. q) \cup {q + 1}
  BY <1>1
<1>6. Message(read) = q + 1
  BY DEF Message, q
<1>7. q + 1 \in 1 .. MaxMessages
  BY <1>1, <1>4
<1> QED BY <1>1, <1>2, <1>3, <1>5, <1>6, <1>7 DEF q

(* A message is not begun beyond the bound. *)
LEMMA WithinBound ==
    ASSUME sent \in Nat, sent <= Parts * MaxMessages
    PROVE  Parts * ((sent + Parts - 1) \div Parts) <= Parts * MaxMessages
<1> DEFINE q == (sent + Parts - 1) \div Parts
<1>1. q \in Nat /\ Parts * q <= sent + Parts - 1
  OBVIOUS
<1> HIDE DEF q
<1>2. q <= MaxMessages
  <2>1. CASE MaxMessages + 1 <= q
    <3>1. Parts * (MaxMessages + 1) <= Parts * q
      BY <1>1, <2>1
    <3>2. Parts * (MaxMessages + 1) = Parts * MaxMessages + Parts
      OBVIOUS
    <3>3. Parts * MaxMessages \in Int /\ Parts * q \in Int
      BY <1>1
    <3> QED BY <1>1, <3>1, <3>2, <3>3
  <2> QED BY <1>1, <2>1
<1>3. Parts * q <= Parts * MaxMessages
  BY <1>1, <1>2
<1> QED BY <1>3 DEF q

LEMMA PushedOrders ==
    ASSUME popped \in Seq(Items), inbound \in Seq(Items), NEW e \in Items,
           inbound' = Append(inbound, e), popped' = popped
    PROVE  ClientOrders' = IF e.src = "recv" THEN ClientOrders \cup {e.n} ELSE ClientOrders
<1> DEFINE n == Len(Pushed)
<1>1. Pushed \in Seq(Items) /\ Pushed' = Append(Pushed, e)
  BY PushAppends DEF Pushed
<1>2. /\ n \in Nat /\ DOMAIN Pushed = 1 .. n /\ DOMAIN Pushed' = 1 .. n + 1
      /\ \A k \in 1 .. n : Pushed'[k] = Pushed[k]
      /\ Pushed'[n + 1] = e
  BY <1>1
<1> HIDE DEF n
<1>3. 1 .. n + 1 = (1 .. n) \cup {n + 1}
  BY <1>2
<1>4. ClientOrders = {Pushed[k].n : k \in {i \in 1 .. n : Pushed[i].src = "recv"}}
  BY <1>2 DEF ClientOrders, ByClient
<1>5. ClientOrders' = {Pushed'[k].n : k \in {i \in 1 .. n + 1 : Pushed'[i].src = "recv"}}
  BY <1>2 DEF ClientOrders, ByClient
<1> QED BY <1>2, <1>3, <1>4, <1>5

LEMMA KeptInitially == Init => KeptInv
<1> SUFFICES ASSUME Init PROVE KeptInv
  OBVIOUS
<1>1. EntryInv
  BY EntryInitially
<1>2. sent = 0 /\ read = 0 /\ order = NoMessage /\ popped = <<>> /\ inbound = <<>>
  BY DEF Init, EntryInit
<1>3. ClientOrders = {}
  BY <1>2 DEF ClientOrders, Pushed
<1>4. 0 <= Parts * MaxMessages /\ 0 % Parts = 0 /\ 0 \div Parts = 0 /\ 1 .. 0 = {}
  OBVIOUS
<1>5. FromClients = 1 .. read \div Parts /\ AtStart
  BY <1>2, <1>3, <1>4 DEF FromClients, AtStart
<1> QED BY <1>1, <1>2, <1>4, <1>5 DEF KeptInv

LEMMA KeptStep ==
    ASSUME KeptInv, [Next]_<<entry, feed, inbound, popped>>
    PROVE  KeptInv'
<1>0. /\ EntryInv' /\ sent \in Nat /\ read \in Nat /\ sent <= Parts * MaxMessages
      /\ popped \in Seq(Items) /\ inbound \in Seq(Items)
      /\ whole => AtStart /\ FromClients = 1 .. read \div Parts
      /\ order \in Nat \cup {NoMessage}
  BY EntryKept DEF KeptInv, EntryInv
<1>1. ASSUME UNCHANGED <<read, order, whole>>, ClientOrders' = ClientOrders,
             sent' <= Parts * MaxMessages
      PROVE  KeptInv'
  BY <1>0, <1>1 DEF KeptInv, FromClients, AtStart
<1>2. ASSUME UNCHANGED <<popped, inbound>> PROVE ClientOrders' = ClientOrders
  BY <1>2 DEF ClientOrders, ByClient, Pushed
<1>3. CASE ClientSends /\ UNCHANGED <<feed, inbound, popped>>
  <2>1. sent' = sent + 1 /\ sent < Parts * MaxMessages /\ UNCHANGED <<read, order, whole>>
    BY <1>3 DEF ClientSends
  <2>2. sent' <= Parts * MaxMessages
    <3> DEFINE m == Parts * MaxMessages
    <3>1. m \in Int
      OBVIOUS
    <3> HIDE DEF m
    <3>2. sent < m => sent + 1 <= m
      BY <1>0, <3>1
    <3> QED BY <2>1, <3>2 DEF m
  <2> QED BY <1>1, <1>2, <1>3, <2>1, <2>2
<1>4. ASSUME NEW k \in 1 .. BufParts, Recv(k), UNCHANGED <<feed, inbound, popped>>
      PROVE KeptInv'
  <2>1. sent' = sent /\ order = NoMessage /\ read' = read + k /\ read + k <= sent
    BY <1>4 DEF Recv
  <2>2. CASE ~ whole'
    BY <1>0, <2>1, <2>2 DEF KeptInv
  <2>3. CASE whole'
    <3>1. whole /\ AtStart /\ k = Parts /\ ~ Exhausted
      BY <1>4, <2>3 DEF Recv
    <3>2. Decode(k) = {"order"}
      BY <3>1 DEF Decode
    <3>3. order' = Message(read)
      BY <1>4, <3>1, <3>2 DEF Recv
    <3>4. /\ Message(read) # NoMessage
          /\ (read + Parts) % Parts = 0
          /\ (read + Parts) \div Parts = Message(read)
          /\ 1 .. Message(read) = (1 .. read \div Parts) \cup {Message(read)}
      BY <1>0, <2>1, <3>1, OneMessage
    <3>5. ClientOrders = 1 .. read \div Parts
      BY <1>0, <2>1, <3>1 DEF FromClients
    <3>6. FromClients' = (1 .. read \div Parts) \cup {Message(read)}
      BY <1>2, <1>4, <3>3, <3>4, <3>5 DEF FromClients
    <3>7. AtStart' /\ FromClients' = 1 .. read' \div Parts
      BY <2>1, <3>1, <3>4, <3>6 DEF AtStart
    <3> QED BY <1>0, <2>1, <3>7 DEF KeptInv
  <2> QED BY <2>2, <2>3
<1>5. CASE Reconnect /\ UNCHANGED <<feed, inbound, popped>>
  <2>1. sent' = Parts * ((sent + Parts - 1) \div Parts) /\ ~ whole'
    BY <1>5 DEF Reconnect
  <2> QED BY <1>0, <2>1, WithinBound DEF KeptInv
<1>6. CASE Push(Item("recv", order), EntryPushed) /\ UNCHANGED <<feed, popped>>
  <2> DEFINE e == Item("recv", order)
  <2>1. /\ inbound' = Append(inbound, e) /\ order # NoMessage /\ order' = NoMessage
        /\ UNCHANGED <<sent, read, whole, popped>>
    BY <1>6 DEF Push, EntryPushed
  <2>2. e \in Items /\ e.n = order /\ e.src = "recv"
    BY <1>0, <2>1 DEF Item, Items
  <2> HIDE DEF e
  <2>3. ClientOrders' = ClientOrders \cup {order}
    BY <1>0, <2>1, <2>2, PushedOrders
  <2>4. FromClients' = FromClients
    BY <2>1, <2>3 DEF FromClients
  <2> QED BY <1>0, <2>1, <2>4 DEF KeptInv, AtStart
<1>7. CASE Push(Item("feed", feedOrder), FeedPushed) /\ UNCHANGED <<entry, popped>>
  <2> DEFINE e == Item("feed", feedOrder)
  <2>1. /\ inbound' = Append(inbound, e) /\ feedOrder # NoQuote
        /\ UNCHANGED <<sent, read, order, whole, popped>>
    BY <1>7 DEF Push, FeedPushed, entry
  <2>2. e \in Items /\ e.src # "recv"
    BY <2>1 DEF Item, Items, KeptInv, EntryInv
  <2> HIDE DEF e
  <2>3. ClientOrders' = ClientOrders
    BY <1>0, <2>1, <2>2, PushedOrders
  <2> QED BY <1>0, <1>1, <2>1, <2>3
<1>8. ASSUME NEW s \in Datagrams, Datagram(s), UNCHANGED <<entry, inbound, popped>>
      PROVE KeptInv'
  <2>1. UNCHANGED <<sent, read, order, whole, popped, inbound>>
    BY <1>8 DEF entry
  <2> QED BY <1>0, <1>1, <1>2, <2>1
<1>9. CASE Pop
  <2>1. /\ inbound # <<>> /\ inbound' = Tail(inbound) /\ popped' = Append(popped, Head(inbound))
        /\ UNCHANGED <<sent, read, order, whole>>
    BY <1>9 DEF Pop
  <2>2. Pushed' = Pushed
    BY <1>0, <2>1, PopMoves DEF Pushed
  <2>3. ClientOrders' = ClientOrders
    BY <2>2 DEF ClientOrders, ByClient
  <2> QED BY <1>0, <1>1, <2>1, <2>3
<1>10. CASE UNCHANGED <<entry, feed, inbound, popped>>
  <2>1. UNCHANGED <<sent, read, order, whole, popped, inbound>>
    BY <1>10 DEF entry
  <2> QED BY <1>0, <1>1, <1>2, <2>1
<1> QED BY <1>3, <1>4, <1>5, <1>6, <1>7, <1>8, <1>9, <1>10 DEF Next

(* A client whose messages are read one at a time loses none, whatever the *)
(* ring and the feed do meanwhile, as long as the pool has slots, for any  *)
(* number of messages and sizes of the pool and the ring                   *)
(* (engine.cpp:234-238).                                                   *)
THEOREM NothingLost == Spec => []WholeReadsKept
<1>1. KeptInv => WholeReadsKept
  BY DEF KeptInv, WholeReadsKept
<1>2. KeptInv /\ [Next]_<<entry, feed, inbound, popped>> => KeptInv'
  BY KeptStep
<1> QED BY <1>1, <1>2, KeptInitially, PTL DEF Spec
=============================================================================
