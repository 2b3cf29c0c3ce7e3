---------------------------- MODULE LatencyProofs ---------------------------
(***************************************************************************)
(* The answers of the latency tracker, for any number of buckets, any sets *)
(* of percentiles and any number of samples that come in meanwhile.        *)
(*                                                                         *)
(* The counters only grow, so what the walk has read of the buckets that   *)
(* are behind it is at least what the sum had read of them, and no more    *)
(* than they hold: the walk's count is always between the two.             *)
(***************************************************************************)
EXTENDS Latency, DataLemmas

Percentiles == 1 .. 1000
Counts == [Indices -> Nat]

Typed ==
    /\ count \in Counts /\ first \in Counts /\ second \in Counts
    /\ pc \in {"idle", "sum", "walk", "returned"}
    /\ i \in 0 .. Buckets
    /\ total \in Nat
    /\ asked \in Seq(Percentiles) /\ targets \in Seq(Nat) /\ answers \in Seq(Indices)

(* Neither pass has read what is not there, and the total is what the      *)
(* first has read.                                                         *)
Read ==
    /\ \A b \in Indices : first[b] <= count[b] /\ second[b] <= count[b]
    /\ total = SumUpTo(first, Buckets - 1)
    /\ \A t, u \in DOMAIN asked : t < u => asked[t] < asked[u]

Summing ==
    /\ pc = "idle" => i = 0
    /\ \A b \in Indices : b >= i => first[b] = 0
    /\ second = Zeros /\ answers = <<>> /\ targets = <<>>

(* The answers so far are those for the targets that the walk has met, and *)
(* each is the bucket at which it met its target.                          *)
Answered ==
    /\ Len(answers) = IF i = 0 THEN 0 ELSE Met(SumUpTo(second, i - 1))
    /\ \A t \in DOMAIN answers :
           /\ answers[t] < i
           /\ targets[t] <= SumUpTo(second, answers[t])
           /\ targets[t] > 0 => SumUpTo(second, answers[t] - 1) < targets[t]

Walking ==
    /\ targets = Targets(total, asked)
    /\ \A b \in Indices : IF b < i THEN first[b] <= second[b] ELSE second[b] = 0
    /\ pc = "returned" => i = Buckets \/ Len(answers) = Len(targets)
    /\ Answered

TrackerInv ==
    /\ Typed /\ Read
    /\ pc \in {"idle", "sum"} => Summing
    /\ pc = "walk" => total > 0
    /\ pc \in {"walk", "returned"} =>
           IF total > 0 THEN Walking ELSE targets = <<>> /\ answers = <<>>

-----------------------------------------------------------------------------
(* Sums of the first buckets. *)

LEMMA SumsSoFar ==
    ASSUME NEW f \in Counts
    PROVE  /\ SumUpTo(f, 0 - 1) = 0
           /\ \A b \in Indices : SumUpTo(f, b) \in Int /\ SumUpTo(f, b - 1) \in Int
           /\ \A b \in Indices : SumUpTo(f, b) = SumUpTo(f, b - 1) + f[b]
<1>1. IsFiniteSet(Indices) /\ \A b \in Indices : f[b] \in Int
  <2>1. 0 \in Int /\ Buckets - 1 \in Int
    BY LatencyAssumption DEF LatencyAssumption
  <2>2. IsFiniteSet(Indices)
    BY <2>1, FS_Interval DEF Indices
  <2> QED BY <2>2 DEF Counts
<1>2. /\ SumFunctionOnSet(f, {}) = 0
      /\ \A R \in SUBSET Indices : SumFunctionOnSet(f, R) \in Int
      /\ \A R \in SUBSET Indices : \A x \in R :
             SumFunctionOnSet(f, R) = f[x] + SumFunctionOnSet(f, R \ {x})
  BY <1>1, Sums
<1>3. 0 .. 0 - 1 = {}
  OBVIOUS
<1>4. ASSUME NEW b \in Indices
      PROVE  /\ SumUpTo(f, b) \in Int /\ SumUpTo(f, b - 1) \in Int
             /\ SumUpTo(f, b) = SumUpTo(f, b - 1) + f[b]
  <2>1. 0 .. b \in SUBSET Indices /\ 0 .. b - 1 \in SUBSET Indices
    BY LatencyAssumption DEF LatencyAssumption, Indices
  <2>2. b \in 0 .. b /\ (0 .. b) \ {b} = 0 .. b - 1
    BY DEF Indices
  <2>3. SumFunctionOnSet(f, 0 .. b) = f[b] + SumFunctionOnSet(f, 0 .. b - 1)
    BY <1>2, <2>1, <2>2
  <2>4. SumFunctionOnSet(f, 0 .. b - 1) \in Int /\ f[b] \in Int
    BY <1>1, <1>2, <2>1
  <2> QED BY <2>3, <2>4 DEF SumUpTo
<1>5. SumUpTo(f, 0 - 1) = 0
  BY <1>2, <1>3 DEF SumUpTo
<1> QED BY <1>4, <1>5

(* b is a bucket, or one before it.                                        *)
LEMMA Compared ==
    ASSUME NEW f \in Counts, NEW g \in Counts, NEW b \in Int, b < Buckets,
           \A a \in Indices : a <= b => f[a] <= g[a]
    PROVE  SumUpTo(f, b) <= SumUpTo(g, b)
<1>1. 0 .. b \subseteq Indices
  BY LatencyAssumption DEF LatencyAssumption, Indices
<1>2. \A a \in 0 .. b : f[a] \in Int /\ g[a] \in Int /\ f[a] <= g[a]
  BY <1>1 DEF Counts
<1>3. IsFiniteSet(0 .. b)
  BY FS_Interval
<1> QED BY <1>2, <1>3, SumsCompare DEF SumUpTo

LEMMA Agreeing ==
    ASSUME NEW f \in Counts, NEW g \in Counts, NEW b \in Int, b < Buckets,
           \A a \in Indices : a <= b => f[a] = g[a]
    PROVE  SumUpTo(f, b) = SumUpTo(g, b)
<1>1. 0 .. b \subseteq Indices
  BY LatencyAssumption DEF LatencyAssumption, Indices
<1>2. \A a \in 0 .. b : f[a] \in Int /\ f[a] = g[a]
  BY <1>1 DEF Counts
<1>3. IsFiniteSet(0 .. b)
  BY FS_Interval
<1> QED BY <1>2, <1>3, SumsAgree DEF SumUpTo

LEMMA Updated ==
    ASSUME NEW f \in Counts, NEW b \in Indices, NEW v \in Nat
    PROVE  /\ [f EXCEPT ![b] = v] \in Counts
           /\ [f EXCEPT ![b] = v][b] = v
           /\ \A a \in Indices : a # b => [f EXCEPT ![b] = v][a] = f[a]
           /\ SumUpTo([f EXCEPT ![b] = v], Buckets - 1)
                = SumUpTo(f, Buckets - 1) - f[b] + v
<1> DEFINE g == [f EXCEPT ![b] = v]
<1>1. g \in Counts /\ g[b] = v /\ \A a \in Indices : a # b => g[a] = f[a]
  BY DEF Counts
<1>2. IsFiniteSet(Indices) /\ Indices = 0 .. Buckets - 1
  BY LatencyAssumption, FS_Interval DEF LatencyAssumption, Indices
<1>3. \A a \in Indices : f[a] \in Int
  BY DEF Counts
<1> HIDE DEF g
<1>4. SumFunctionOnSet(g, Indices) = SumFunctionOnSet(f, Indices) - f[b] + g[b]
  <2>1. \A a \in Indices \ {b} : g[a] = f[a]
    BY <1>1
  <2>2. g[b] \in Int
    BY <1>1
  <2>3. IsFiniteSet(Indices)
    BY <1>2
  <2> QED BY <1>3, <2>1, <2>2, <2>3, SumChanges
<1> QED BY <1>1, <1>2, <1>4 DEF SumUpTo, g

(* Of targets that ascend, a count meets those up to some place.           *)
LEMMA MetIs ==
    ASSUME NEW s \in Seq(Nat), \A t, u \in DOMAIN s : t < u => s[t] <= s[u],
           NEW c \in Int, NEW m, m = Cardinality({t \in DOMAIN s : c >= s[t]})
    PROVE  m \in 0 .. Len(s) /\ \A t \in DOMAIN s : c >= s[t] <=> t <= m
<1> DEFINE T == {t \in DOMAIN s : c >= s[t]}
           Bounds == {k \in Nat : \A t \in T : t <= k}
<1>1. Len(s) \in Nat /\ DOMAIN s = 1 .. Len(s) /\ \A t \in DOMAIN s : s[t] \in Nat
  OBVIOUS
<1>2. T \subseteq 1 .. Len(s) /\ Len(s) \in Bounds
  BY <1>1
<1>3. PICK k \in Bounds : \A l \in Bounds : ~ (l < k)
  <2>1. Bounds \subseteq Nat /\ Bounds # {}
    BY <1>2
  <2> HIDE DEF Bounds
  <2> QED BY <2>1, LeastNat
<1>4. k \in Nat /\ k <= Len(s) /\ \A t \in T : t <= k
  BY <1>1, <1>2, <1>3
<1>5. k = 0 \/ k \in T
  <2> SUFFICES ASSUME k # 0, k \notin T PROVE FALSE
    OBVIOUS
  <2>1. k - 1 \in Nat /\ k - 1 < k
    BY <1>4
  <2>2. \A t \in T : t <= k - 1
    BY <1>1, <1>4
  <2>3. k - 1 \in Bounds
    BY <2>1, <2>2
  <2> HIDE DEF Bounds
  <2> QED BY <1>3, <2>1, <2>3
<1>6. \A t \in 1 .. k : t \in T
  <2> SUFFICES ASSUME NEW t \in 1 .. k PROVE t \in T
    OBVIOUS
  <2>1. k \in T /\ t \in DOMAIN s /\ k \in DOMAIN s /\ c >= s[k]
    BY <1>1, <1>2, <1>4, <1>5
  <2>2. s[t] <= s[k]
    BY <1>1, <2>1
  <2> QED BY <1>1, <2>1, <2>2
<1>7. T = 1 .. k
  BY <1>1, <1>2, <1>4, <1>6
<1>8. m = k
  <2>1. m = Cardinality(T)
    OBVIOUS
  <2> HIDE DEF T
  <2>2. Cardinality(1 .. k) = k
    BY <1>4, FS_Interval
  <2> QED BY <1>7, <2>1, <2>2
<1>9. m \in 0 .. Len(s)
  BY <1>1, <1>4, <1>8
<1>10. ASSUME NEW t \in DOMAIN s PROVE c >= s[t] <=> t <= m
  <2>1. t \in T <=> c >= s[t]
    OBVIOUS
  <2>2. t \in 1 .. k <=> t <= k
    BY <1>1, <1>4
  <2> QED BY <1>7, <1>8, <2>1, <2>2
<1> QED BY <1>9, <1>10

LEMMA Elements ==
    ASSUME NEW S, NEW s \in Seq(S)
    PROVE  Len(s) \in Nat /\ DOMAIN s = 1 .. Len(s) /\ \A t \in DOMAIN s : s[t] \in S
  OBVIOUS

LEMMA Quotients ==
    ASSUME NEW n \in Nat, NEW x \in Nat, NEW y \in Nat, x <= y, x <= 1000 * n
    PROVE  /\ x \div 1000 \in Nat /\ y \div 1000 \in Nat
           /\ x \div 1000 <= y \div 1000
           /\ x \div 1000 <= n
  OBVIOUS

LEMMA Shares ==
    ASSUME NEW n \in Nat, NEW a \in Nat, NEW b \in Nat, a <= b, a <= 1000
    PROVE  /\ (n * a) \div 1000 \in Nat /\ (n * b) \div 1000 \in Nat
           /\ (n * a) \div 1000 <= (n * b) \div 1000
           /\ (n * a) \div 1000 <= n
<1> DEFINE x == n * a
           y == n * b
<1>1. x \in Nat /\ y \in Nat
  OBVIOUS
<1>2. x <= y
  OBVIOUS
<1>3. x <= 1000 * n
  OBVIOUS
<1> SUFFICES /\ x \div 1000 \in Nat /\ y \div 1000 \in Nat
             /\ x \div 1000 <= y \div 1000
             /\ x \div 1000 <= n
  OBVIOUS
<1> HIDE DEF x, y
<1> QED BY <1>1, <1>2, <1>3, Quotients

LEMMA TargetsAscend ==
    ASSUME NEW n \in Nat, NEW s \in Seq(Percentiles),
           \A t, u \in DOMAIN s : t < u => s[t] < s[u]
    PROVE  /\ Targets(n, s) \in Seq(Nat) /\ Len(Targets(n, s)) = Len(s)
           /\ \A t \in DOMAIN s : Targets(n, s)[t] <= n
           /\ \A t, u \in DOMAIN s : t < u => Targets(n, s)[t] <= Targets(n, s)[u]
<1>1. Len(s) \in Nat /\ DOMAIN s = 1 .. Len(s) /\ \A t \in DOMAIN s : s[t] \in Percentiles
  BY Elements
<1>2. \A t \in DOMAIN s : Targets(n, s)[t] = (n * s[t]) \div 1000
  BY DEF Targets
<1>3. ASSUME NEW t \in DOMAIN s
      PROVE  (n * s[t]) \div 1000 \in Nat /\ (n * s[t]) \div 1000 <= n
  <2> DEFINE a == s[t]
  <2>1. a \in Percentiles
    BY <1>1
  <2> HIDE DEF a
  <2>2. a \in Nat /\ a <= a /\ a <= 1000
    BY <2>1 DEF Percentiles
  <2>3. (n * a) \div 1000 \in Nat /\ (n * a) \div 1000 <= n
    BY <2>2, Shares
  <2> QED BY <2>3 DEF a
<1>4. ASSUME NEW t \in DOMAIN s, NEW u \in DOMAIN s, t < u
      PROVE  (n * s[t]) \div 1000 <= (n * s[u]) \div 1000
  <2> DEFINE a == s[t]
             b == s[u]
  <2>1. a \in Percentiles /\ b \in Percentiles /\ a < b
    BY <1>1, <1>4
  <2> HIDE DEF a, b
  <2>2. a \in Nat /\ b \in Nat /\ a <= b /\ a <= 1000
    BY <2>1 DEF Percentiles
  <2>3. (n * a) \div 1000 <= (n * b) \div 1000
    BY <2>2, Shares
  <2> QED BY <2>3 DEF a, b
<1>5. Targets(n, s) \in [1 .. Len(s) -> Nat]
  BY <1>1, <1>3 DEF Targets
<1>6. Targets(n, s) \in Seq(Nat) /\ Len(Targets(n, s)) = Len(s)
  BY <1>1, <1>5
<1> QED BY <1>2, <1>3, <1>4, <1>6

-----------------------------------------------------------------------------
(* Each step keeps the invariant. *)

LEMMA TargetsKnown ==
    ASSUME Typed, Read, Walking, NEW c \in Int
    PROVE  /\ targets \in Seq(Nat) /\ Len(targets) \in Nat
           /\ DOMAIN targets = 1 .. Len(targets) /\ Len(targets) = Len(asked)
           /\ \A t \in 1 .. Len(targets) : targets[t] \in Nat /\ targets[t] <= total
           /\ Met(c) \in 0 .. Len(targets)
           /\ \A t \in 1 .. Len(targets) : c >= targets[t] <=> t <= Met(c)
<1>1. total \in Nat /\ asked \in Seq(Percentiles) /\ targets = Targets(total, asked)
      /\ \A t, u \in DOMAIN asked : t < u => asked[t] < asked[u]
  BY DEF Typed, Read, Walking
<1>2. /\ targets \in Seq(Nat) /\ Len(targets) = Len(asked)
      /\ \A t \in DOMAIN asked : targets[t] <= total
      /\ \A t, u \in DOMAIN asked : t < u => targets[t] <= targets[u]
  BY <1>1, TargetsAscend
<1>3. /\ Len(targets) \in Nat /\ DOMAIN targets = 1 .. Len(targets)
      /\ \A t \in DOMAIN targets : targets[t] \in Nat
  BY <1>2, Elements
<1>4. DOMAIN asked = DOMAIN targets
  BY <1>1, <1>2, <1>3, Elements
<1>5. Met(c) \in 0 .. Len(targets) /\ \A t \in DOMAIN targets : c >= targets[t] <=> t <= Met(c)
  <2>1. Met(c) = Cardinality({t \in DOMAIN targets : c >= targets[t]})
    BY DEF Met
  <2>2. \A t, u \in DOMAIN targets : t < u => targets[t] <= targets[u]
    BY <1>2, <1>4
  <2> QED BY <1>2, <2>1, <2>2, MetIs
<1> QED BY <1>2, <1>3, <1>4, <1>5

LEMMA RecordStep ==
    ASSUME TrackerInv, NEW delta, Record(delta)
    PROVE  TrackerInv'
<1>1. /\ count' = [count EXCEPT ![Bucket(delta)] = @ + 1]
      /\ UNCHANGED <<pc, i, asked, first, second, total, targets, answers>>
  BY DEF Record
<1>2. count \in Counts
  BY DEF TrackerInv, Typed
<1>3. count' \in Counts /\ \A b \in Indices : count[b] \in Nat /\ count'[b] \in Nat /\ count[b] <= count'[b]
  <2> DEFINE x == Bucket(delta)
  <2>1. count' = [count EXCEPT ![x] = @ + 1]
    BY <1>1
  <2> HIDE DEF x
  <2>2. ASSUME NEW b \in Indices
        PROVE  count[b] \in Nat /\ count'[b] \in Nat /\ count[b] <= count'[b]
    <3>1. count[b] \in Nat
      BY <1>2 DEF Counts
    <3>2. count'[b] = count[b] \/ count'[b] = count[b] + 1
      BY <1>2, <2>1 DEF Counts
    <3> QED BY <3>1, <3>2
  <2>3. count' = [b \in Indices |-> count'[b]]
    BY <1>2, <2>1 DEF Counts
  <2> QED BY <2>2, <2>3 DEF Counts
<1>4. \A b \in Indices : first[b] \in Nat /\ second[b] \in Nat
  BY DEF TrackerInv, Typed, Counts
<1>5. \A b \in Indices : first[b] <= count'[b] /\ second[b] <= count'[b]
  BY <1>3, <1>4 DEF TrackerInv, Read
<1>6. Typed' /\ Read'
  BY <1>1, <1>3, <1>5 DEF TrackerInv, Typed, Read
<1>7. (pc' \in {"idle", "sum"}) => Summing'
  BY <1>1 DEF TrackerInv, Summing
<1>8. Walking => Walking'
  BY <1>1 DEF Walking, Answered, Met
<1> QED BY <1>1, <1>6, <1>7, <1>8 DEF TrackerInv

LEMMA EnterStep ==
    ASSUME TrackerInv, NEW report \in Reports, Enter(report)
    PROVE  TrackerInv'
<1>1. /\ pc = "idle" /\ pc' = "sum" /\ asked' \in Ascending(report)
      /\ UNCHANGED <<count, i, first, second, total, targets, answers>>
  BY DEF Enter
<1>2. report \subseteq Percentiles /\ Cardinality(report) \in Nat
  <2>1. report \subseteq Percentiles
    BY LatencyAssumption DEF LatencyAssumption, Percentiles
  <2>2. IsFiniteSet(Percentiles)
    <3> DEFINE top == 1000
    <3>1. top \in Int
      OBVIOUS
    <3> HIDE DEF top
    <3>2. IsFiniteSet(1 .. top)
      BY <3>1, FS_Interval
    <3> QED BY <3>2 DEF top, Percentiles
  <2>3. IsFiniteSet(report)
    BY <2>1, <2>2, FS_Subset
  <2> QED BY <2>1, <2>3, FS_CardinalityType
<1>3. /\ asked' \in [1 .. Cardinality(report) -> Percentiles]
      /\ \A t, u \in DOMAIN asked' : t < u => asked'[t] < asked'[u]
  BY <1>1, <1>2 DEF Ascending
<1>4. asked' \in Seq(Percentiles)
  BY <1>2, <1>3
<1>5. Typed' /\ Read'
  BY <1>1, <1>3, <1>4 DEF TrackerInv, Typed, Read
<1>6. Summing'
  BY <1>1 DEF TrackerInv, Summing
<1> QED BY <1>1, <1>5, <1>6 DEF TrackerInv

LEMMA SumBucketStep ==
    ASSUME TrackerInv, SumBucket
    PROVE  TrackerInv'
<1>1. PICK v \in 0 .. count[i] : first' = [first EXCEPT ![i] = v] /\ total' = total + v
  BY DEF SumBucket
<1>2. /\ pc = "sum" /\ i < Buckets /\ i' = i + 1
      /\ UNCHANGED <<count, pc, asked, second, targets, answers>>
  BY DEF SumBucket
<1>3. /\ count \in Counts /\ first \in Counts /\ i \in Indices /\ total \in Nat
      /\ Summing /\ Buckets \in Nat
  BY <1>2, LatencyAssumption DEF TrackerInv, Typed, LatencyAssumption, Indices
<1>4. v \in Nat /\ v <= count[i]
  BY <1>3 DEF Counts
<1>5. /\ first' \in Counts /\ first'[i] = v
      /\ \A a \in Indices : a # i => first'[a] = first[a]
      /\ SumUpTo(first', Buckets - 1) = SumUpTo(first, Buckets - 1) - first[i] + v
  <2> DEFINE new == [first EXCEPT ![i] = v]
  <2>1. /\ new \in Counts /\ new[i] = v
        /\ \A a \in Indices : a # i => new[a] = first[a]
        /\ SumUpTo(new, Buckets - 1) = SumUpTo(first, Buckets - 1) - first[i] + v
    BY <1>3, <1>4, Updated
  <2> QED BY <1>1, <2>1
<1>6. first[i] = 0 /\ total = SumUpTo(first, Buckets - 1)
  BY <1>3 DEF Summing, TrackerInv, Read, Indices
<1>7. total' = SumUpTo(first', Buckets - 1)
  BY <1>1, <1>3, <1>4, <1>5, <1>6
<1>8. \A b \in Indices : first'[b] <= count'[b] /\ second'[b] <= count'[b]
  BY <1>2, <1>4, <1>5 DEF TrackerInv, Read
<1>9. Read'
  BY <1>2, <1>7, <1>8 DEF TrackerInv, Read
<1>10. i' \in 0 .. Buckets /\ total' \in Nat
  BY <1>1, <1>2, <1>3, <1>4 DEF Indices
<1>11. Typed'
  BY <1>2, <1>5, <1>10 DEF TrackerInv, Typed
<1>12. Summing'
  <2>1. ASSUME NEW b \in Indices, b >= i' PROVE first'[b] = 0
    <3>1. b > i /\ b # i
      BY <1>2, <1>3, <2>1 DEF Indices
    <3>2. b >= i
      BY <1>3, <3>1 DEF Indices
    <3> QED BY <1>3, <1>5, <3>1, <3>2 DEF Summing
  <2>2. pc' # "idle"
    BY <1>2
  <2> QED BY <1>2, <1>3, <2>1, <2>2 DEF Summing
<1> QED BY <1>2, <1>9, <1>11, <1>12 DEF TrackerInv

LEMMA SetTargetsStep ==
    ASSUME TrackerInv, SetTargets
    PROVE  TrackerInv'
<1>1. /\ pc = "sum" /\ i = Buckets /\ Summing
      /\ UNCHANGED <<count, asked, first, second, total, answers>>
  BY DEF SetTargets, TrackerInv
<1>2. total \in Nat /\ asked \in Seq(Percentiles) /\ Buckets \in Nat
  BY LatencyAssumption DEF LatencyAssumption, TrackerInv, Typed
<1>3. Read'
  BY <1>1 DEF TrackerInv, Read
<1>4. CASE total = 0
  <2>1. pc' = "returned" /\ i' = i /\ targets' = targets
    BY <1>4 DEF SetTargets
  <2>2. targets' = <<>> /\ answers' = <<>> /\ ~ (total' > 0)
    BY <1>1, <1>4, <2>1 DEF Summing
  <2>3. Typed'
    BY <1>1, <2>1 DEF TrackerInv, Typed
  <2> QED BY <1>3, <2>1, <2>2, <2>3 DEF TrackerInv
<1>5. CASE total # 0
  <2>1. pc' = "walk" /\ i' = 0 /\ targets' = Targets(total, asked)
    BY <1>5 DEF SetTargets, FirstWalked
  <2>2. targets' \in Seq(Nat)
    <3>1. \A t, u \in DOMAIN asked : t < u => asked[t] < asked[u]
      BY DEF TrackerInv, Read
    <3> QED BY <1>2, <2>1, <3>1, TargetsAscend
  <2>3. i' \in 0 .. Buckets /\ total' > 0
    BY <1>1, <1>2, <1>5, <2>1
  <2>4. Typed'
    BY <1>1, <2>1, <2>2, <2>3 DEF TrackerInv, Typed
  <2>5. \A b \in Indices : ~ (b < i') /\ second'[b] = 0
    BY <1>1, <2>1 DEF Summing, Zeros, Indices
  <2>6. Len(answers') = 0 /\ DOMAIN answers' = {}
    BY <1>1 DEF Summing
  <2>7. Answered'
    BY <2>1, <2>6 DEF Answered
  <2>8. Walking'
    BY <1>1, <2>1, <2>5, <2>7 DEF Walking
  <2> QED BY <1>3, <2>1, <2>3, <2>4, <2>8 DEF TrackerInv
<1> QED BY <1>4, <1>5

LEMMA ReturnStep ==
    ASSUME TrackerInv, Return
    PROVE  TrackerInv'
<1>1. /\ pc = "walk" /\ (i = Buckets \/ Len(answers) = Len(targets)) /\ pc' = "returned"
      /\ UNCHANGED <<count, i, asked, first, second, total, targets, answers>>
  BY DEF Return
<1>2. total > 0 /\ Walking
  BY <1>1 DEF TrackerInv
<1>3. Typed' /\ Read'
  BY <1>1 DEF TrackerInv, Typed, Read
<1>4. Walking'
  BY <1>1, <1>2 DEF Walking, Answered, Met
<1> QED BY <1>1, <1>2, <1>3, <1>4 DEF TrackerInv

LEMMA WalkBucketStep ==
    ASSUME TrackerInv, WalkBucket
    PROVE  TrackerInv'
<1> DEFINE n == Len(answers)
           before == SumUpTo(second, i - 1)
<1>1. PICK v \in first[i] .. count[i] :
          /\ second' = [second EXCEPT ![i] = v]
          /\ LET cumulative == SumUpTo(second', i)
             IN  answers' = [t \in 1 .. Met(cumulative) |->
                                 IF t \in DOMAIN answers THEN answers[t] ELSE i]
  BY DEF WalkBucket
<1>2. /\ pc = "walk" /\ i < Buckets /\ n < Len(targets) /\ i' = i + 1
      /\ UNCHANGED <<count, pc, asked, first, total, targets>>
  BY DEF WalkBucket
<1>3. /\ Typed /\ Read /\ Walking /\ total > 0
      /\ count \in Counts /\ first \in Counts /\ second \in Counts
      /\ i \in Indices /\ Buckets \in Nat
  BY <1>2, LatencyAssumption DEF TrackerInv, Typed, LatencyAssumption, Indices
<1>4. v \in Nat /\ first[i] <= v /\ v <= count[i]
  BY <1>3 DEF Counts
<1>5. /\ second' \in Counts /\ second'[i] = v
      /\ \A a \in Indices : a # i => second'[a] = second[a]
  <2> DEFINE new == [second EXCEPT ![i] = v]
  <2>1. /\ new \in Counts /\ new[i] = v
        /\ \A a \in Indices : a # i => new[a] = second[a]
    BY <1>3, <1>4, Updated
  <2> QED BY <1>1, <2>1
<1> DEFINE c == SumUpTo(second', i)
           m == Met(c)
(* What was counted before this bucket stays as it is.                     *)
<1>6. \A b \in Int : b < i => SumUpTo(second', b) = SumUpTo(second, b)
  <2> SUFFICES ASSUME NEW b \in Int, b < i
               PROVE  SumUpTo(second', b) = SumUpTo(second, b)
    OBVIOUS
  <2>1. \A a \in Indices : a <= b => second[a] = second'[a]
    BY <1>5 DEF Indices
  <2>2. b < Buckets
    BY <1>2, <1>3 DEF Indices
  <2> QED BY <1>3, <1>5, <2>1, <2>2, Agreeing
<1>7. before \in Int /\ c \in Int /\ c = before + v
  <2>1. SumUpTo(second, i - 1) \in Int
    BY <1>3, SumsSoFar
  <2>2. SumUpTo(second', i) \in Int /\ SumUpTo(second', i) = SumUpTo(second', i - 1) + second'[i]
    BY <1>3, <1>5, SumsSoFar
  <2>3. SumUpTo(second', i - 1) = SumUpTo(second, i - 1)
    BY <1>3, <1>6 DEF Indices
  <2> QED BY <1>5, <2>1, <2>2, <2>3
<1>8. i = 0 => before = 0
  <2>1. SumUpTo(second, 0 - 1) = 0
    BY <1>3, SumsSoFar
  <2> QED BY <2>1
<1>9. /\ Len(targets) \in Nat /\ m \in 0 .. Len(targets)
      /\ \A t \in 1 .. Len(targets) : targets[t] \in Nat /\ (c >= targets[t] <=> t <= m)
  <2> HIDE DEF c
  <2> QED BY <1>3, <1>7, TargetsKnown
<1>10. answers \in Seq(Indices) /\ n \in Nat /\ DOMAIN answers = 1 .. n
  BY <1>3 DEF Typed
<1>11. i # 0 => \A t \in 1 .. Len(targets) : before >= targets[t] <=> t <= n
  <2> HIDE DEF before
  <2>1. i # 0 => n = Met(before)
    BY <1>3 DEF Walking, Answered, before
  <2>2. \A t \in 1 .. Len(targets) : before >= targets[t] <=> t <= Met(before)
    BY <1>3, <1>7, TargetsKnown
  <2> QED BY <2>1, <2>2
<1>12. i = 0 => n = 0
  BY <1>3 DEF Walking, Answered
<1>13. /\ answers' = [t \in 1 .. m |-> IF t <= n THEN answers[t] ELSE i]
  BY <1>1, <1>9, <1>10
<1> HIDE DEF c, m, before
<1>14. n <= m
  <2>1. CASE n = 0
    BY <1>9, <2>1
  <2>2. CASE n # 0
    <3>1. n \in 1 .. Len(targets) /\ i # 0
      BY <1>2, <1>9, <1>10, <1>12, <2>2
    <3>2. before >= targets[n] /\ targets[n] \in Nat
      BY <1>9, <1>10, <1>11, <3>1
    <3>3. c >= targets[n]
      BY <1>4, <1>7, <3>2
    <3> QED BY <1>9, <3>1, <3>3
  <2> QED BY <2>1, <2>2
<1>15. /\ answers' \in Seq(Indices) /\ Len(answers') = m /\ DOMAIN answers' = 1 .. m
       /\ \A t \in 1 .. m : answers'[t] = IF t <= n THEN answers[t] ELSE i
  <2>1. m \in Nat
    BY <1>9
  <2>2. \A t \in 1 .. m : (IF t <= n THEN answers[t] ELSE i) \in Indices
    BY <1>3, <1>10, <2>1
  <2>3. answers' \in [1 .. m -> Indices]
    BY <1>13, <2>2
  <2> QED BY <1>13, <2>1, <2>3
<1>16. ASSUME NEW t \in 1 .. m
       PROVE  /\ answers'[t] < i'
              /\ targets[t] <= SumUpTo(second', answers'[t])
              /\ targets[t] > 0 => SumUpTo(second', answers'[t] - 1) < targets[t]
  <2>1. t \in 1 .. Len(targets) /\ t \in Nat /\ targets[t] \in Nat /\ c >= targets[t]
    BY <1>9
  <2>2. CASE t <= n
    <3>1. answers'[t] = answers[t] /\ t \in DOMAIN answers /\ answers[t] \in Indices
      BY <1>10, <1>15, <2>1, <2>2
    <3>2. /\ answers[t] < i
          /\ targets[t] <= SumUpTo(second, answers[t])
          /\ targets[t] > 0 => SumUpTo(second, answers[t] - 1) < targets[t]
      BY <1>3, <3>1 DEF Walking, Answered
    <3>3. /\ answers[t] \in Int /\ answers[t] - 1 \in Int /\ answers[t] - 1 < i
          /\ answers[t] < i + 1
      BY <1>3, <3>1, <3>2 DEF Indices
    <3>4. /\ SumUpTo(second', answers[t]) = SumUpTo(second, answers[t])
          /\ SumUpTo(second', answers[t] - 1) = SumUpTo(second, answers[t] - 1)
      BY <1>6, <3>2, <3>3
    <3> QED BY <1>2, <3>1, <3>2, <3>3, <3>4
  <2>3. CASE ~ (t <= n)
    <3>1. answers'[t] = i /\ i < i + 1
      BY <1>3, <1>15, <2>3 DEF Indices
    <3>2. targets[t] <= SumUpTo(second', i)
      BY <1>7, <2>1 DEF c
    <3>3. SumUpTo(second', i - 1) = before
      BY <1>3, <1>6 DEF Indices, before
    <3>4. targets[t] > 0 => before < targets[t]
      <4>1. CASE i = 0
        BY <1>8, <2>1, <4>1
      <4>2. CASE i # 0
        BY <1>7, <1>11, <2>1, <2>3, <4>2
      <4> QED BY <4>1, <4>2
    <3> QED BY <1>2, <3>1, <3>2, <3>3, <3>4
  <2> QED BY <2>2, <2>3
<1>17. Answered'
  <2>1. i' # 0 /\ i' - 1 = i
    BY <1>2, <1>3 DEF Indices
  <2>2. Met(SumUpTo(second, i - 1))' = m
    BY <1>2, <2>1 DEF Met, m, c
  <2>3. Len(answers') = IF i' = 0 THEN 0 ELSE Met(SumUpTo(second, i - 1))'
    BY <1>15, <2>1, <2>2
  <2> QED BY <1>2, <1>15, <1>16, <2>3 DEF Answered
<1>18. ASSUME NEW b \in Indices
       PROVE  IF b < i' THEN first[b] <= second'[b] ELSE second'[b] = 0
  <2>1. IF b < i THEN first[b] <= second[b] ELSE second[b] = 0
    BY <1>3 DEF Walking
  <2>2. b \in Int /\ i \in Int
    BY <1>3 DEF Indices
  <2>3. CASE b = i
    BY <1>2, <1>4, <1>5, <2>2, <2>3
  <2>4. CASE b # i
    <3>1. b < i' <=> b < i
      BY <1>2, <2>2, <2>4
    <3> QED BY <1>5, <2>1, <2>4, <3>1
  <2> QED BY <2>3, <2>4
<1>19. Walking'
  BY <1>2, <1>3, <1>17, <1>18 DEF Walking
<1>20. \A b \in Indices : first'[b] <= count'[b] /\ second'[b] <= count'[b]
  BY <1>2, <1>3, <1>4, <1>5 DEF Read
<1>21. Typed' /\ Read'
  <2>1. i' \in 0 .. Buckets
    BY <1>2, <1>3 DEF Indices
  <2> QED BY <1>2, <1>3, <1>5, <1>15, <1>20, <2>1 DEF Typed, Read
<1> QED BY <1>2, <1>3, <1>19, <1>21 DEF TrackerInv

LEMMA TrackerStep ==
    ASSUME TrackerInv, [Next]_vars
    PROVE  TrackerInv'
<1>1. ASSUME NEW delta \in 0 .. 2 ^ Buckets - 1, Record(delta) PROVE TrackerInv'
  BY <1>1, RecordStep
<1>2. ASSUME NEW report \in Reports, Enter(report) PROVE TrackerInv'
  BY <1>2, EnterStep
<1>3. CASE SumBucket
  BY <1>3, SumBucketStep
<1>4. CASE SetTargets
  BY <1>4, SetTargetsStep
<1>5. CASE WalkBucket
  BY <1>5, WalkBucketStep
<1>6. CASE Return
  BY <1>6, ReturnStep
<1>7. CASE UNCHANGED vars
  <2>1. UNCHANGED <<count, pc, i, asked, first, second, total, targets, answers>>
    BY <1>7 DEF vars
  <2> QED BY <2>1 DEF TrackerInv, Typed, Read, Summing, Walking, Answered, Met
<1> QED BY <1>1, <1>2, <1>3, <1>4, <1>5, <1>6, <1>7 DEF Next

LEMMA TrackerInit ==
    ASSUME Init
    PROVE  TrackerInv
<1>1. /\ count = Zeros /\ first = Zeros /\ second = Zeros /\ pc = "idle" /\ i = 0
      /\ asked = <<>> /\ targets = <<>> /\ answers = <<>> /\ total = 0
  BY DEF Init
<1>2. Zeros \in Counts /\ \A b \in Indices : Zeros[b] = 0
  BY DEF Zeros, Counts
<1>3. SumUpTo(Zeros, Buckets - 1) = 0
  <2> DEFINE F == {b \in Nat : b < Buckets => SumUpTo(Zeros, b) = 0}
  <2>1. /\ SumUpTo(Zeros, 0 - 1) = 0
        /\ \A b \in Indices : SumUpTo(Zeros, b) = SumUpTo(Zeros, b - 1) + 0
    BY <1>2, SumsSoFar
  <2>2. Buckets \in Nat /\ Buckets > 0
    BY LatencyAssumption DEF LatencyAssumption
  <2>3. 0 \in F
    BY <2>1, <2>2 DEF Indices
  <2>4. ASSUME NEW b \in Nat, b \in F PROVE b + 1 \in F
    <3> SUFFICES ASSUME b + 1 < Buckets PROVE SumUpTo(Zeros, b + 1) = 0
      OBVIOUS
    <3>1. b + 1 \in Indices /\ (b + 1) - 1 = b /\ b < Buckets
      BY <2>2 DEF Indices
    <3>2. SumUpTo(Zeros, b) = 0
      BY <2>4, <3>1
    <3>3. SumUpTo(Zeros, b + 1) = SumUpTo(Zeros, b) + 0
      BY <2>1, <3>1
    <3> QED BY <3>2, <3>3
  <2>5. Nat \subseteq F
    <3> HIDE DEF F
    <3> QED BY <2>3, <2>4, NatSteps
  <2>6. Buckets - 1 \in Nat /\ Buckets - 1 < Buckets
    BY <2>2
  <2> QED BY <2>5, <2>6
<1>4. Typed
  <2>1. 0 \in 0 .. Buckets
    BY LatencyAssumption DEF LatencyAssumption
  <2> QED BY <1>1, <1>2, <2>1 DEF Typed
<1>5. Read
  BY <1>1, <1>2, <1>3 DEF Read
<1>6. Summing
  BY <1>1, <1>2 DEF Summing
<1> QED BY <1>1, <1>4, <1>5, <1>6 DEF TrackerInv

(* The samples and the two passes of the reader keep the invariant. *)
THEOREM Invariance == Spec => []TrackerInv
<1>1. Init => TrackerInv
  BY TrackerInit
<1>2. TrackerInv /\ [Next]_vars => TrackerInv'
  BY TrackerStep
<1> QED BY <1>1, <1>2, PTL DEF Spec

-----------------------------------------------------------------------------
(* Whatever is recorded between the two passes, a report prints every line *)
(* and get_percentile() returns from within its loop: the walk comes to at *)
(* least the total of the sum, and no target is more than that.            *)
THEOREM NoLineMissing == Spec => []EveryTargetMet
<1>1. TrackerInv => EveryTargetMet
  <2> SUFFICES ASSUME TrackerInv, pc = "returned", total > 0
               PROVE  Len(answers) = Len(asked)
    BY DEF EveryTargetMet
  <2>1. Typed /\ Read /\ Walking /\ total \in Nat
    BY DEF TrackerInv, Typed
  <2>2. Len(targets) = Len(asked)
    <3>1. 0 \in Int
      OBVIOUS
    <3> QED BY <2>1, <3>1, TargetsKnown
  <2>3. CASE Len(answers) = Len(targets)
    BY <2>2, <2>3
  <2>4. CASE Len(answers) # Len(targets)
    <3> DEFINE c == SumUpTo(second, Buckets - 1)
    <3>1. i = Buckets /\ Buckets \in Nat /\ Buckets # 0 /\ Buckets - 1 \in Indices
      BY <2>1, <2>4, LatencyAssumption DEF Walking, LatencyAssumption, Indices
    <3>2. c \in Int
      BY <2>1, <3>1, SumsSoFar DEF Typed
    <3>3. SumUpTo(first, Buckets - 1) <= c
      <4>1. \A b \in Indices : first[b] <= second[b]
        BY <2>1, <3>1 DEF Walking, Indices
      <4>2. Buckets - 1 \in Int /\ Buckets - 1 < Buckets
        BY <3>1
      <4> QED BY <2>1, <4>1, <4>2, Compared DEF Typed
    <3>4. total <= c /\ Len(answers) = Met(c)
      BY <2>1, <3>1, <3>3 DEF Read, Walking, Answered
    <3> HIDE DEF c
    <3>5. /\ Len(targets) \in Nat /\ Met(c) \in 0 .. Len(targets)
          /\ \A t \in 1 .. Len(targets) : targets[t] \in Nat /\ targets[t] <= total
          /\ \A t \in 1 .. Len(targets) : c >= targets[t] <=> t <= Met(c)
      BY <2>1, <3>2, TargetsKnown
    <3>6. ASSUME Len(targets) # 0 PROVE Len(targets) <= Met(c)
      <4>1. Len(targets) \in 1 .. Len(targets)
        BY <3>5, <3>6
      <4>2. c >= targets[Len(targets)]
        BY <2>1, <3>2, <3>4, <3>5, <4>1
      <4> QED BY <3>5, <4>1, <4>2
    <3> QED BY <2>2, <3>4, <3>5, <3>6
  <2> QED BY <2>3, <2>4
<1> QED BY <1>1, Invariance, PTL

(* A percentile that is reported was the right one at some moment of the   *)
(* call: the samples recorded by its end reach the target at its bucket,   *)
(* and those that the sum had seen do not reach it before.                 *)
THEOREM RightAtSomeMoment == Spec => []Bracketed
<1>1. TrackerInv => Bracketed
  <2> SUFFICES ASSUME TrackerInv, NEW t \in DOMAIN answers
               PROVE  /\ targets[t] <= SumUpTo(count, answers[t])
                      /\ targets[t] > 0 => SumUpTo(first, answers[t] - 1) < targets[t]
    BY DEF Bracketed
  <2> DEFINE a == answers[t]
  <2>1. Typed /\ Read /\ Walking
    <3>1. Typed /\ Read /\ pc \in {"idle", "sum", "walk", "returned"}
      BY DEF TrackerInv, Typed
    <3>2. answers # <<>>
      <4>1. DOMAIN answers # {}
        OBVIOUS
      <4>2. answers = <<>> => DOMAIN answers = {}
        OBVIOUS
      <4> QED BY <4>1, <4>2
    <3> QED BY <3>1, <3>2 DEF TrackerInv, Summing
  <2>2. /\ a \in Indices /\ a < i
        /\ targets[t] <= SumUpTo(second, a)
        /\ targets[t] > 0 => SumUpTo(second, a - 1) < targets[t]
    BY <2>1 DEF Walking, Answered, Typed
  <2>3. /\ a \in Int /\ a < Buckets /\ a - 1 \in Int /\ a - 1 < Buckets
        /\ count \in Counts /\ first \in Counts /\ second \in Counts /\ i \in Int
    BY <2>1, <2>2, LatencyAssumption DEF Typed, Indices, LatencyAssumption
  <2> HIDE DEF a
  <2>4. SumUpTo(second, a) <= SumUpTo(count, a)
    <3>1. \A b \in Indices : b <= a => second[b] <= count[b]
      BY <2>1 DEF Read
    <3> QED BY <2>3, <3>1, Compared
  <2>5. SumUpTo(first, a - 1) <= SumUpTo(second, a - 1)
    <3>1. \A b \in Indices : b <= a - 1 => b < i
      BY <2>2, <2>3 DEF Indices
    <3>2. \A b \in Indices : b <= a - 1 => first[b] <= second[b]
      BY <2>1, <3>1 DEF Walking
    <3> QED BY <2>3, <3>2, Compared
  <2>6. /\ SumUpTo(second, a) \in Int /\ SumUpTo(count, a) \in Int
        /\ SumUpTo(first, a - 1) \in Int /\ SumUpTo(second, a - 1) \in Int
    BY <2>2, <2>3, SumsSoFar
  <2>7. targets[t] \in Nat
    <3>1. t \in DOMAIN targets /\ 0 \in Int
      <4>1. i \in Nat /\ i - 1 \in Indices /\ i # 0
        <5>1. i \in 0 .. Buckets /\ a \in 0 .. Buckets - 1 /\ Buckets \in Nat
          BY <2>1, <2>2, LatencyAssumption DEF Typed, Indices, LatencyAssumption
        <5>2. i \in Nat /\ i - 1 \in 0 .. Buckets - 1 /\ i # 0
          BY <2>2, <5>1
        <5> QED BY <5>2 DEF Indices
      <4>2. SumUpTo(second, i - 1) \in Int
        BY <2>3, <4>1, SumsSoFar
      <4>3. Len(answers) = Met(SumUpTo(second, i - 1))
        BY <2>1, <4>1 DEF Walking, Answered
      <4>4. /\ DOMAIN targets = 1 .. Len(targets) /\ Len(answers) \in 0 .. Len(targets)
            /\ Len(targets) \in Nat
        BY <2>1, <4>2, <4>3, TargetsKnown
      <4>5. DOMAIN answers = 1 .. Len(answers)
        BY <2>1 DEF Typed
      <4> QED BY <4>4, <4>5
    <3>2. targets \in Seq(Nat)
      BY <2>1 DEF Typed
    <3> QED BY <3>1, <3>2
  <2>8. targets[t] <= SumUpTo(count, a)
    BY <2>2, <2>4, <2>6, <2>7
  <2>9. targets[t] > 0 => SumUpTo(first, a - 1) < targets[t]
    BY <2>2, <2>5, <2>6, <2>7
  <2> QED BY <2>8, <2>9 DEF a
<1> QED BY <1>1, Invariance, PTL
=============================================================================
