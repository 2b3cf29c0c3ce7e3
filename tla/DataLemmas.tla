----------------------------- MODULE DataLemmas -----------------------------
(***************************************************************************)
(* What the operators on data do that the proofs of several components     *)
(* need: sums over finite sets, and the queue of a price level.            *)
(***************************************************************************)
EXTENDS LevelQueue, SequencesExt, SequenceTheorems, FiniteSetTheorems,
        WellFoundedInduction, TLAPS

-----------------------------------------------------------------------------
(* Induction: over the numbers by a least counterexample, and over finite  *)
(* sets by their size.  What is proved is given as a set, not an operator. *)

LEMMA LeastNat ==
    ASSUME NEW T, T \subseteq Nat, T # {}
    PROVE  \E m \in T : \A n \in T : ~ (n < m)
<1> DEFINE R == OpToRel(<, Nat)
<1>1. IsWellFoundedOn(R, Nat)
  BY NatLessThanWellFounded
<1>2. \E m \in T : \A n \in T : ~ (<<n, m>> \in R)
  <2> HIDE DEF R
  <2> QED BY <1>1, WFMin
<1>3. \A m, n \in Nat : n < m => <<n, m>> \in R
  BY DEF OpToRel
<1> QED BY <1>2, <1>3

LEMMA NatSteps ==
    ASSUME NEW F, 0 \in F, \A n \in Nat : n \in F => n + 1 \in F
    PROVE  Nat \subseteq F
<1> DEFINE T == {n \in Nat : n \notin F}
<1> SUFFICES ASSUME T # {} PROVE FALSE
  OBVIOUS
<1>1. PICK m \in T : \A n \in T : ~ (n < m)
  <2>1. T \subseteq Nat
    OBVIOUS
  <2> HIDE DEF T
  <2> QED BY <2>1, LeastNat
<1>2. m # 0 /\ m \in Nat /\ m \notin F
  OBVIOUS
<1>3. m - 1 \in Nat /\ m - 1 < m /\ (m - 1) + 1 = m
  BY <1>2
<1>4. m - 1 \in F
  BY <1>1, <1>3
<1> QED BY <1>2, <1>3, <1>4

LEMMA SetSteps ==
    ASSUME NEW S, IsFiniteSet(S), NEW F, {} \in F,
           \A R \in SUBSET S : R # {} /\ (\A x \in R : R \ {x} \in F) => R \in F
    PROVE  SUBSET S \subseteq F
<1> DEFINE G == {n \in Nat : \A R \in SUBSET S : Cardinality(R) = n => R \in F}
<1>1. 0 \in G
  <2> SUFFICES ASSUME NEW R \in SUBSET S, Cardinality(R) = 0 PROVE R \in F
    OBVIOUS
  <2>1. IsFiniteSet(R)
    BY FS_Subset
  <2>2. R = {}
    BY <2>1, FS_EmptySet
  <2> QED BY <2>2
<1>2. ASSUME NEW n \in Nat, n \in G PROVE n + 1 \in G
  <2> SUFFICES ASSUME NEW R \in SUBSET S, Cardinality(R) = n + 1 PROVE R \in F
    OBVIOUS
  <2>1. IsFiniteSet(R)
    BY FS_Subset
  <2>2. R # {}
    <3>1. Cardinality({}) = 0
      BY FS_EmptySet
    <3>2. n + 1 # 0
      OBVIOUS
    <3> QED BY <3>1, <3>2
  <2>3. ASSUME NEW x \in R PROVE R \ {x} \in F
    <3>1. Cardinality(R \ {x}) = Cardinality(R) - 1
      BY <2>1, FS_RemoveElement
    <3>2. Cardinality(R \ {x}) = n /\ R \ {x} \in SUBSET S
      BY <3>1
    <3> QED BY <1>2, <3>2
  <2> QED BY <2>2, <2>3
<1>3. Nat \subseteq G
  <2> HIDE DEF G
  <2> QED BY <1>1, <1>2, NatSteps
<1>4. ASSUME NEW R \in SUBSET S PROVE R \in F
  <2>1. Cardinality(R) \in Nat
    <3>1. IsFiniteSet(R)
      BY FS_Subset
    <3> QED BY <3>1, FS_CardinalityType
  <2> QED BY <1>3, <2>1
<1> QED BY <1>4

-----------------------------------------------------------------------------
(* Sums over finite sets.  h gives the sum of f over each subset of S.     *)
Additive(h, f, S) ==
    /\ h \in [SUBSET S -> Int] /\ \A x \in S : f[x] \in Int
    /\ h[{}] = 0
    /\ \A R \in SUBSET S : \A x \in R : h[R] = f[x] + h[R \ {x}]

LEMMA AdditiveStep ==
    ASSUME NEW R, NEW x \in R, NEW f, f[x] \in Int, NEW g, Additive(g, f, R \ {x})
    PROVE  \E h : Additive(h, f, R)
<1> DEFINE h == [s \in SUBSET R |-> IF x \in s THEN f[x] + g[s \ {x}] ELSE g[s]]
<1>1. \A s \in SUBSET R : x \notin s => s \in SUBSET (R \ {x})
  OBVIOUS
<1>2. \A s \in SUBSET R : s \ {x} \in SUBSET (R \ {x})
  OBVIOUS
<1>3. h \in [SUBSET R -> Int] /\ h[{}] = 0
  BY <1>1, <1>2 DEF Additive
<1>4. ASSUME NEW s \in SUBSET R, NEW y \in s PROVE h[s] = f[y] + h[s \ {y}]
  <2>1. CASE y = x
    BY <2>1
  <2>2. CASE y # x /\ x \notin s
    <3>1. g[s] = f[y] + g[s \ {y}]
      BY <1>1, <2>2 DEF Additive
    <3> QED BY <2>2, <3>1
  <2>3. CASE y # x /\ x \in s
    <3>1. s \ {x} \in SUBSET (R \ {x}) /\ y \in s \ {x}
      BY <1>2, <2>3
    <3>2. g[s \ {x}] = f[y] + g[(s \ {x}) \ {y}]
      BY <3>1 DEF Additive
    <3>3. (s \ {x}) \ {y} = (s \ {y}) \ {x} /\ x \in s \ {y} /\ s \ {y} \in SUBSET R
      BY <2>3
    <3>4. h[s] = f[x] + g[s \ {x}] /\ h[s \ {y}] = f[x] + g[(s \ {x}) \ {y}]
      BY <2>3, <3>3
    <3>5. g[s \ {x}] \in Int /\ g[(s \ {x}) \ {y}] \in Int
      BY <3>1 DEF Additive
    <3>6. f[y] \in Int
      BY <3>1 DEF Additive
    <3> HIDE DEF h
    <3> QED BY <3>2, <3>4, <3>5, <3>6
  <2> QED BY <2>1, <2>2, <2>3
<1>5. \A y \in R : f[y] \in Int
  BY DEF Additive
<1> HIDE DEF h
<1> QED BY <1>3, <1>4, <1>5 DEF Additive

LEMMA AdditiveExists ==
    ASSUME NEW S, IsFiniteSet(S), NEW f, \A x \in S : f[x] \in Int
    PROVE  \E h : Additive(h, f, S)
<1> DEFINE F == {R \in SUBSET S : \E h : Additive(h, f, R)}
<1>1. {} \in F
  <2> DEFINE h == [s \in SUBSET {} |-> 0]
  <2>1. Additive(h, f, {})
    BY DEF Additive
  <2> QED BY <2>1
<1>2. ASSUME NEW R \in SUBSET S, R # {}, \A x \in R : R \ {x} \in F PROVE R \in F
  <2>1. PICK x \in R : R \ {x} \in F
    BY <1>2
  <2> QED BY <2>1, AdditiveStep
<1>3. SUBSET S \subseteq F
  <2> HIDE DEF F
  <2> QED BY <1>1, <1>2, SetSteps
<1> QED BY <1>3

(* The definition by recursion that the library's sum unfolds to.          *)
Chosen(s) == CHOOSE x \in s : TRUE
SumOf(f, S) == CHOOSE h : h = [s \in SUBSET S |->
                                  IF s = {} THEN 0 ELSE f[Chosen(s)] + h[s \ {Chosen(s)}]]

LEMMA SumUnfolds ==
    ASSUME NEW f, NEW S
    PROVE  SumFunctionOnSet(f, S) = SumOf(f, S)[S]
  BY DEF SumFunctionOnSet, FoldFunctionOnSet, MapThenFoldSet, SumOf, Chosen

LEMMA SumIsAdditive ==
    ASSUME NEW S, IsFiniteSet(S), NEW f, NEW h, Additive(h, f, S)
    PROVE  SumOf(f, S) = h
<1> DEFINE Body(g) == [s \in SUBSET S |->
                          IF s = {} THEN 0 ELSE f[Chosen(s)] + g[s \ {Chosen(s)}]]
<1>1. \A s : s # {} => Chosen(s) \in s
  BY DEF Chosen
<1>2. h = Body(h)
  BY <1>1 DEF Additive
<1>3. ASSUME NEW g, g = Body(g) PROVE g = h
  <2> DEFINE F == {s \in SUBSET S : g[s] = h[s]}
  <2>1. {} \in F
    <3>1. g[{}] = 0
      BY <1>3
    <3> QED BY <3>1 DEF Additive
  <2>2. ASSUME NEW R \in SUBSET S, R # {}, \A x \in R : R \ {x} \in F PROVE R \in F
    <3>1. Chosen(R) \in R
      BY <1>1, <2>2
    <3>2. g[R] = f[Chosen(R)] + g[R \ {Chosen(R)}]
      BY <1>3, <3>1
    <3>3. h[R] = f[Chosen(R)] + h[R \ {Chosen(R)}]
      BY <3>1 DEF Additive
    <3>4. g[R \ {Chosen(R)}] = h[R \ {Chosen(R)}]
      BY <2>2, <3>1
    <3> QED BY <3>2, <3>3, <3>4
  <2>3. SUBSET S \subseteq F
    <3> HIDE DEF F
    <3> QED BY <2>1, <2>2, SetSteps
  <2>4. \A s \in SUBSET S : g[s] = h[s]
    BY <2>3
  <2>5. g = [s \in SUBSET S |-> g[s]]
    BY <1>3
  <2>6. h = [s \in SUBSET S |-> h[s]]
    BY DEF Additive
  <2> QED BY <2>4, <2>5, <2>6
<1>4. SumOf(f, S) = CHOOSE g : g = Body(g)
  BY DEF SumOf
<1> HIDE DEF Body
<1>5. SumOf(f, S) = Body(SumOf(f, S))
  BY <1>2, <1>4
<1> QED BY <1>3, <1>5

LEMMA SumIs ==
    ASSUME NEW S, IsFiniteSet(S), NEW f, NEW h, Additive(h, f, S), NEW R \in SUBSET S
    PROVE  SumFunctionOnSet(f, R) = h[R]
<1> DEFINE k == [s \in SUBSET R |-> h[s]]
<1>1. SUBSET R \subseteq SUBSET S /\ R \subseteq S
  OBVIOUS
<1>2. Additive(k, f, R)
  <2>1. \A s \in SUBSET R : \A x \in s : s \in SUBSET S /\ s \ {x} \in SUBSET R
    BY <1>1
  <2> QED BY <1>1, <2>1 DEF Additive
<1>3. IsFiniteSet(R)
  BY FS_Subset
<1>4. k[R] = h[R]
  OBVIOUS
<1> HIDE DEF k
<1>5. SumOf(f, R) = k
  BY <1>2, <1>3, SumIsAdditive
<1> QED BY <1>4, <1>5, SumUnfolds

(* What is used of sums: the empty one, one more element, and functions    *)
(* that agree.                                                             *)
LEMMA Sums ==
    ASSUME NEW S, IsFiniteSet(S), NEW f, \A x \in S : f[x] \in Int
    PROVE  /\ SumFunctionOnSet(f, {}) = 0
           /\ \A R \in SUBSET S : SumFunctionOnSet(f, R) \in Int
           /\ \A R \in SUBSET S : \A x \in R :
                  SumFunctionOnSet(f, R) = f[x] + SumFunctionOnSet(f, R \ {x})
<1>1. PICK h : Additive(h, f, S)
  BY AdditiveExists
<1>2. \A R \in SUBSET S : SumFunctionOnSet(f, R) = h[R]
  BY <1>1, SumIs
<1>3. {} \in SUBSET S /\ \A R \in SUBSET S : \A x \in R : R \ {x} \in SUBSET S
  OBVIOUS
<1> QED BY <1>1, <1>2, <1>3 DEF Additive

LEMMA SumsAgree ==
    ASSUME NEW S, IsFiniteSet(S), NEW f, NEW g,
           \A x \in S : f[x] \in Int /\ f[x] = g[x]
    PROVE  SumFunctionOnSet(f, S) = SumFunctionOnSet(g, S)
<1>1. PICK h : Additive(h, f, S)
  BY AdditiveExists
<1>2. Additive(h, g, S)
  BY <1>1 DEF Additive
<1>3. S \in SUBSET S
  OBVIOUS
<1> QED BY <1>1, <1>2, <1>3, SumIs

(* One element of the sum changes.                                         *)
LEMMA SumChanges ==
    ASSUME NEW S, IsFiniteSet(S), NEW f, NEW g, NEW x \in S,
           \A y \in S : f[y] \in Int, \A y \in S \ {x} : g[y] = f[y], g[x] \in Int
    PROVE  SumFunctionOnSet(g, S) = SumFunctionOnSet(f, S) - f[x] + g[x]
<1>1. /\ SumFunctionOnSet(f, S) = f[x] + SumFunctionOnSet(f, S \ {x})
      /\ SumFunctionOnSet(f, S \ {x}) \in Int
  BY Sums
<1>2. SumFunctionOnSet(g, S) = g[x] + SumFunctionOnSet(g, S \ {x})
  <2>1. \A y \in S : g[y] \in Int
    OBVIOUS
  <2> QED BY <2>1, Sums
<1>3. SumFunctionOnSet(f, S \ {x}) = SumFunctionOnSet(g, S \ {x})
  <2>1. IsFiniteSet(S \ {x})
    BY FS_RemoveElement
  <2> QED BY <2>1, SumsAgree
<1> QED BY <1>1, <1>2, <1>3

LEMMA SumsCompare ==
    ASSUME NEW S, IsFiniteSet(S), NEW f, NEW g,
           \A x \in S : f[x] \in Int /\ g[x] \in Int /\ f[x] <= g[x]
    PROVE  SumFunctionOnSet(f, S) <= SumFunctionOnSet(g, S)
<1> DEFINE F == {R \in SUBSET S : SumFunctionOnSet(f, R) <= SumFunctionOnSet(g, R)}
<1>1. {} \in F
  BY Sums
<1>2. ASSUME NEW R \in SUBSET S, R # {}, \A x \in R : R \ {x} \in F PROVE R \in F
  <2>1. PICK x \in R : R \ {x} \in F
    BY <1>2
  <2>2. /\ SumFunctionOnSet(f, R) = f[x] + SumFunctionOnSet(f, R \ {x})
        /\ SumFunctionOnSet(f, R \ {x}) \in Int
    BY Sums
  <2>3. /\ SumFunctionOnSet(g, R) = g[x] + SumFunctionOnSet(g, R \ {x})
        /\ SumFunctionOnSet(g, R \ {x}) \in Int
    BY Sums
  <2>4. f[x] \in Int /\ g[x] \in Int /\ f[x] <= g[x]
    OBVIOUS
  <2> QED BY <2>1, <2>2, <2>3, <2>4
<1>3. SUBSET S \subseteq F
  <2> HIDE DEF F
  <2> QED BY <1>1, <1>2, SetSteps
<1> QED BY <1>3

LEMMA RangeFinite ==
    ASSUME NEW S, NEW s \in Seq(S)
    PROVE  IsFiniteSet(Range(s)) /\ Range(s) \subseteq S
<1>1. DOMAIN s = 1 .. Len(s) /\ Len(s) \in Nat /\ \A i \in 1 .. Len(s) : s[i] \in S
  OBVIOUS
<1>2. IsFiniteSet(1 .. Len(s))
  BY <1>1, FS_Interval
<1>3. s \in [1 .. Len(s) -> Range(s)] /\ \A x \in Range(s) : \E i \in 1 .. Len(s) : s[i] = x
  BY <1>1 DEF Range
<1>4. s \in Surjection(1 .. Len(s), Range(s))
  BY <1>3 DEF Surjection
<1>5. Range(s) \subseteq S
  BY <1>1 DEF Range
<1> QED BY <1>2, <1>4, <1>5, FS_Surjection

(* One element is added with its value, one is removed, one changes.       *)
LEMMA SumWithOne ==
    ASSUME NEW R, IsFiniteSet(R), NEW x, x \notin R, NEW f, NEW g,
           \A y \in R : f[y] \in Int /\ g[y] = f[y], g[x] \in Int
    PROVE  /\ SumFunctionOnSet(f, R) \in Int
           /\ SumFunctionOnSet(g, R \cup {x}) = SumFunctionOnSet(f, R) + g[x]
<1> DEFINE S == R \cup {x}
<1>1. IsFiniteSet(S) /\ S \in SUBSET S /\ x \in S /\ S \ {x} = R
  BY FS_AddElement
<1>2. \A y \in S : g[y] \in Int
  OBVIOUS
<1> HIDE DEF S
<1>3. /\ SumFunctionOnSet(g, S) = g[x] + SumFunctionOnSet(g, R)
      /\ SumFunctionOnSet(g, R) \in Int
  <2>1. R \in SUBSET S
    BY <1>1
  <2> QED BY <1>1, <1>2, <2>1, Sums
<1>4. SumFunctionOnSet(f, R) = SumFunctionOnSet(g, R)
  BY SumsAgree
<1> QED BY <1>3, <1>4 DEF S

-----------------------------------------------------------------------------
(* What the operations on a level's queue do to its positions, its range   *)
(* and its injectivity, for queues over any set of slots.                  *)

(* new is old with s behind it.                                            *)
Extended(old, new, s) ==
    /\ Len(new) = Len(old) + 1
    /\ \A i \in 1 .. Len(old) : new[i] = old[i]
    /\ new[Len(old) + 1] = s

(* new is old without s: those behind it have moved up by one.             *)
MovedUp(old, new, s) ==
    \E i \in 1 .. Len(old) :
        /\ old[i] = s
        /\ Len(new) = Len(old) - 1
        /\ \A j \in 1 .. Len(old) - 1 : new[j] = IF j < i THEN old[j] ELSE old[j + 1]

(* The new order is last, and the others stay where they are. *)
LEMMA PushedBack ==
    ASSUME NEW S, NEW lv \in QueueRecords(S), NEW s \in S, NEW q \in Int,
           IsInjective(lv.queue), s \notin Range(lv.queue)
    PROVE  /\ PushBack(lv, s, q) \in QueueRecords(S)
           /\ PushBack(lv, s, q).queue # <<>>
           /\ Extended(lv.queue, PushBack(lv, s, q).queue, s)
           /\ IsInjective(PushBack(lv, s, q).queue)
<1> DEFINE old == lv.queue
           new == Append(old, s)
<1>1. /\ old \in Seq(S) /\ Len(old) \in Nat /\ DOMAIN old = 1 .. Len(old)
      /\ new \in Seq(S) /\ Len(new) = Len(old) + 1 /\ DOMAIN new = 1 .. Len(old) + 1
      /\ \A i \in 1 .. Len(old) : new[i] = old[i]
      /\ new[Len(old) + 1] = s
  BY DEF QueueRecords
<1>2. new # <<>>
  <2> HIDE DEF new, old
  <2>1. Len(new) # 0
    BY <1>1
  <2> QED BY <2>1
<1>3. IsInjective(new)
  BY <1>1 DEF IsInjective, Range
<1>4. PushBack(lv, s, q) = [queue |-> new, total |-> lv.total + q, count |-> lv.count + 1]
  BY DEF PushBack
<1>5. lv.total \in Int /\ lv.count \in Int
  BY DEF QueueRecords
<1> HIDE DEF new
<1>6. Extended(old, new, s)
  BY <1>1 DEF Extended
<1>7. PushBack(lv, s, q).queue = new
  BY <1>4
<1>8. PushBack(lv, s, q) \in QueueRecords(S)
  <2> HIDE DEF old
  <2> QED BY <1>1, <1>4, <1>5 DEF QueueRecords
<1> QED BY <1>2, <1>3, <1>6, <1>7, <1>8

LEMMA AppendedRange ==
    ASSUME NEW S, NEW old \in Seq(S), NEW s \in S
    PROVE  Range(Append(old, s)) = Range(old) \cup {s}
<1> DEFINE new == Append(old, s)
<1>1. /\ Len(old) \in Nat /\ DOMAIN old = 1 .. Len(old)
      /\ DOMAIN new = 1 .. Len(old) + 1
      /\ \A i \in 1 .. Len(old) : new[i] = old[i]
      /\ new[Len(old) + 1] = s
  OBVIOUS
<1> HIDE DEF new
<1>2. ASSUME NEW x \in Range(new) PROVE x \in Range(old) \cup {s}
  BY <1>1, <1>2 DEF Range
<1>3. ASSUME NEW x \in Range(old) PROVE x \in Range(new)
  BY <1>1, <1>3 DEF Range
<1>4. s \in Range(new)
  BY <1>1 DEF Range
<1>5. Range(new) = Range(old) \cup {s}
  BY <1>2, <1>3, <1>4
<1> QED BY <1>5 DEF new

LEMMA PushedRange ==
    ASSUME NEW S, NEW lv \in QueueRecords(S), NEW s \in S, NEW q \in Int
    PROVE  Range(PushBack(lv, s, q).queue) = Range(lv.queue) \cup {s}
<1>1. lv.queue \in Seq(S) /\ PushBack(lv, s, q).queue = Append(lv.queue, s)
  BY DEF QueueRecords, PushBack
<1> QED BY <1>1, AppendedRange

(* Those behind the removed order move up by one, and nothing else moves. *)
LEMMA Removed ==
    ASSUME NEW S, NEW lv \in QueueRecords(S), NEW s \in Range(lv.queue), NEW q \in Int,
           IsInjective(lv.queue)
    PROVE  /\ RemoveFrom(lv, s, q) \in QueueRecords(S)
           /\ MovedUp(lv.queue, RemoveFrom(lv, s, q).queue, s)
           /\ IsInjective(RemoveFrom(lv, s, q).queue)
<1> DEFINE old == lv.queue
           i == CHOOSE i \in DOMAIN old : old[i] = s
           n == Len(old)
           left == SubSeq(old, 1, i - 1)
           right == SubSeq(old, i + 1, n)
           new == left \o right
<1>1. old \in Seq(S) /\ n \in Nat /\ DOMAIN old = 1 .. n /\ i \in 1 .. n /\ old[i] = s
  BY DEF QueueRecords, Range
<1>2. /\ left \in Seq(S) /\ Len(left) = i - 1
      /\ \A j \in 1 .. i - 1 : left[j] = old[j]
  <2> HIDE DEF i, old
  <2> QED BY <1>1, SubSeqProperties
<1>3. /\ right \in Seq(S) /\ Len(right) = n - i
      /\ \A j \in 1 .. n - i : right[j] = old[i + j]
  <2> HIDE DEF i, old
  <2>1. \A j \in i + 1 .. n : old[j] \in S
    BY <1>1
  <2>2. /\ right \in Seq(S)
        /\ Len(right) = IF i + 1 <= n THEN n - (i + 1) + 1 ELSE 0
        /\ \A j \in 1 .. n - (i + 1) + 1 : right[j] = old[(i + 1) + j - 1]
    BY <1>1, <2>1, SubSeqProperties
  <2> HIDE DEF n, right
  <2>3. Len(right) = n - i
    BY <1>1, <2>2
  <2>4. ASSUME NEW j \in 1 .. n - i PROVE right[j] = old[i + j]
    <3>1. j \in 1 .. n - (i + 1) + 1 /\ (i + 1) + j - 1 = i + j
      BY <1>1
    <3> QED BY <2>2, <3>1
  <2> QED BY <2>2, <2>3, <2>4
<1>4. /\ new \in Seq(S) /\ Len(new) = n - 1
      /\ \A j \in 1 .. n - 1 : new[j] = IF j < i THEN old[j] ELSE old[j + 1]
  <2> HIDE DEF i, n, old, left, right
  <2>1. /\ new \in Seq(S) /\ Len(new) = Len(left) + Len(right)
        /\ \A j \in 1 .. Len(left) + Len(right) :
               new[j] = IF j <= Len(left) THEN left[j] ELSE right[j - Len(left)]
    BY <1>2, <1>3, ConcatProperties
  <2>2. ASSUME NEW j \in 1 .. n - 1
        PROVE  new[j] = IF j < i THEN old[j] ELSE old[j + 1]
    <3> HIDE DEF new
    <3>1. Len(left) + Len(right) = n - 1 /\ Len(left) = i - 1
      BY <1>1, <1>2, <1>3
    <3>2. new[j] = IF j <= i - 1 THEN left[j] ELSE right[j - (i - 1)]
      BY <2>1, <3>1
    <3>3. CASE j < i
      <4>1. j \in 1 .. i - 1 /\ j <= i - 1
        BY <1>1, <3>3
      <4> QED BY <1>2, <3>2, <3>3, <4>1
    <3>4. CASE ~ (j < i)
      <4>1. j - (i - 1) \in 1 .. n - i /\ i + (j - (i - 1)) = j + 1 /\ ~ (j <= i - 1)
        BY <1>1, <3>4
      <4>2. right[j - (i - 1)] = old[i + (j - (i - 1))]
        BY <1>3, <4>1
      <4>3. new[j] = old[j + 1]
        BY <3>2, <4>1, <4>2
      <4> QED BY <3>4, <4>3
    <3> QED BY <3>3, <3>4
  <2>3. Len(new) = n - 1
    BY <1>1, <1>2, <1>3, <2>1
  <2> HIDE DEF new
  <2> QED BY <2>1, <2>2, <2>3
<1>5. IsInjective(new)
  <2> HIDE DEF i, n, old, new
  <2>1. \A j, k \in 1 .. n : old[j] = old[k] => j = k
    BY <1>1 DEF IsInjective, old
  <2>2. \A j \in 1 .. n - 1 : \E k \in 1 .. n : k # i /\ new[j] = old[k] /\ k = IF j < i THEN j ELSE j + 1
    BY <1>1, <1>4
  <2>3. \A j, k \in 1 .. n - 1 : new[j] = new[k] => j = k
    BY <1>1, <2>1, <2>2
  <2> QED BY <1>1, <1>4, <2>3 DEF IsInjective
<1>7. RemoveFrom(lv, s, q) = [queue |-> new, total |-> lv.total - q, count |-> lv.count - 1]
  BY DEF RemoveFrom
<1>8. lv.total \in Int /\ lv.count \in Int
  BY DEF QueueRecords
<1>9. RemoveFrom(lv, s, q) \in QueueRecords(S) /\ RemoveFrom(lv, s, q).queue = new
  <2> HIDE DEF new
  <2> QED BY <1>4, <1>7, <1>8 DEF QueueRecords
<1> HIDE DEF i, left, right, new
<1>10. MovedUp(old, new, s)
  <2> HIDE DEF old
  <2> QED BY <1>1, <1>4 DEF MovedUp
<1> QED BY <1>5, <1>9, <1>10

LEMMA RemovedRange ==
    ASSUME NEW S, NEW lv \in QueueRecords(S), NEW s \in Range(lv.queue), NEW q \in Int,
           IsInjective(lv.queue)
    PROVE  Range(RemoveFrom(lv, s, q).queue) = Range(lv.queue) \ {s}
<1> DEFINE old == lv.queue
           n == Len(old)
           new == RemoveFrom(lv, s, q).queue
<1>1. old \in Seq(S) /\ n \in Nat /\ DOMAIN old = 1 .. n
  BY DEF QueueRecords
<1>2. new \in Seq(S)
  <2>1. RemoveFrom(lv, s, q) \in QueueRecords(S)
    BY Removed
  <2> QED BY <2>1 DEF QueueRecords
<1>3. PICK i \in 1 .. n :
          /\ old[i] = s
          /\ Len(new) = n - 1
          /\ \A j \in 1 .. n - 1 : new[j] = IF j < i THEN old[j] ELSE old[j + 1]
  <2>1. MovedUp(old, new, s)
    BY Removed
  <2> HIDE DEF old, new
  <2> QED BY <2>1 DEF MovedUp
<1> HIDE DEF n, old, new
<1>4. DOMAIN new = 1 .. n - 1
  BY <1>1, <1>2, <1>3
<1>5. \A j, k \in 1 .. n : old[j] = old[k] => j = k
  BY <1>1 DEF IsInjective, old
<1>6. ASSUME NEW j \in 1 .. n - 1 PROVE new[j] \in Range(old) /\ new[j] # s
  <2>1. PICK k \in 1 .. n : k # i /\ new[j] = old[k]
    BY <1>1, <1>3
  <2>2. old[k] # s
    BY <1>3, <1>5, <2>1
  <2> QED BY <1>1, <2>1, <2>2 DEF Range
<1>7. ASSUME NEW j \in 1 .. n, old[j] # s PROVE old[j] \in Range(new)
  <2>1. CASE j < i
    <3>1. j \in 1 .. n - 1
      BY <1>1, <1>3, <2>1
    <3>2. new[j] = old[j]
      BY <1>3, <2>1, <3>1
    <3> QED BY <1>4, <3>1, <3>2 DEF Range
  <2>2. CASE j > i
    <3>1. j - 1 \in 1 .. n - 1 /\ ~ (j - 1 < i) /\ (j - 1) + 1 = j
      BY <1>1, <1>3, <2>2
    <3>2. new[j - 1] = old[j]
      BY <1>3, <3>1
    <3> QED BY <1>4, <3>1, <3>2 DEF Range
  <2> QED BY <1>1, <1>3, <1>7, <2>1, <2>2
<1>8. Range(new) = {new[j] : j \in 1 .. n - 1} /\ Range(old) = {old[j] : j \in 1 .. n}
  BY <1>1, <1>4 DEF Range
<1>9. Range(new) = Range(old) \ {s}
  BY <1>6, <1>7, <1>8
<1> QED BY <1>9 DEF new, old

-----------------------------------------------------------------------------
(* FlattenSeq.  h gives the sequences ss[1] \o ... \o ss[n], one by one.   *)
ConcatenatesTo(m, h, ss, S) ==
    /\ h \in [0 .. m -> Seq(S)]
    /\ h[0] = <<>>
    /\ \A n \in 1 .. m : h[n] = h[n - 1] \o ss[n]
Concatenates(h, ss, S) == ConcatenatesTo(Len(ss), h, ss, S)

(* The recursion that FlattenSeq unfolds to. *)
FlattenOf(t) ==
    CHOOSE g : g = [i \in 1 .. Len(t) |-> IF i = 1 THEN t[i] ELSE g[i - 1] \o t[i]]

LEMMA FlattenUnfolds ==
    ASSUME NEW t, Len(t) # 0
    PROVE  FlattenSeq(t) = FlattenOf(t)[Len(t)]
  BY DEF FlattenSeq, FlattenOf

LEMMA ConcatenationExists ==
    ASSUME NEW S, NEW ss \in Seq(Seq(S))
    PROVE  \E h : Concatenates(h, ss, S)
<1> DEFINE F == {m \in Nat : m <= Len(ss) => \E h : ConcatenatesTo(m, h, ss, S)}
<1>1. 0 \in F
  <2> DEFINE h == [n \in 0 .. 0 |-> <<>>]
  <2>1. <<>> \in Seq(S)
    OBVIOUS
  <2>2. h \in [0 .. 0 -> Seq(S)] /\ h[0] = <<>>
    BY <2>1
  <2>3. ConcatenatesTo(0, h, ss, S)
    BY <2>2 DEF ConcatenatesTo
  <2> HIDE DEF h
  <2> QED BY <2>3
<1>2. ASSUME NEW m \in Nat, m \in F PROVE m + 1 \in F
  <2> SUFFICES ASSUME m + 1 <= Len(ss) PROVE \E h : ConcatenatesTo(m + 1, h, ss, S)
    OBVIOUS
  <2>1. m <= Len(ss) /\ m + 1 \in 1 .. Len(ss)
    OBVIOUS
  <2>2. PICK h : ConcatenatesTo(m, h, ss, S)
    BY <1>2, <2>1
  <2>3. ss[m + 1] \in Seq(S) /\ h[m] \in Seq(S)
    BY <2>1, <2>2 DEF ConcatenatesTo
  <2> DEFINE k == [n \in 0 .. m + 1 |-> IF n = m + 1 THEN h[m] \o ss[m + 1] ELSE h[n]]
  <2>4. h[m] \o ss[m + 1] \in Seq(S)
    BY <2>3, ConcatProperties
  <2>5. \A n \in 0 .. m + 1 : n # m + 1 => n \in 0 .. m
    OBVIOUS
  <2>6. k \in [0 .. m + 1 -> Seq(S)] /\ k[0] = <<>>
    BY <2>2, <2>4, <2>5 DEF ConcatenatesTo
  <2>7. ASSUME NEW n \in 1 .. m + 1 PROVE k[n] = k[n - 1] \o ss[n]
    <3>1. n - 1 \in 0 .. m + 1 /\ n - 1 # m + 1 /\ n \in 0 .. m + 1
      OBVIOUS
    <3>2. k[n - 1] = h[n - 1]
      BY <3>1
    <3>3. CASE n = m + 1
      <4>1. k[n] = h[m] \o ss[m + 1]
        BY <3>1, <3>3
      <4>2. n - 1 = m
        BY <3>3
      <4> HIDE DEF k
      <4> QED BY <3>2, <3>3, <4>1, <4>2
    <3>4. CASE n # m + 1
      <4>1. n \in 1 .. m /\ k[n] = h[n]
        BY <3>1, <3>4
      <4> HIDE DEF k
      <4> QED BY <2>2, <3>2, <4>1 DEF ConcatenatesTo
    <3> QED BY <3>3, <3>4
  <2> HIDE DEF k
  <2>8. ConcatenatesTo(m + 1, k, ss, S)
    BY <2>6, <2>7 DEF ConcatenatesTo
  <2> QED BY <2>8
<1>3. Nat \subseteq F
  <2> HIDE DEF F
  <2> QED BY <1>1, <1>2, NatSteps
<1>4. Len(ss) \in F /\ Len(ss) \in Nat
  <2>1. Len(ss) \in Nat
    OBVIOUS
  <2> HIDE DEF F
  <2> QED BY <1>3, <2>1
<1>5. PICK h : ConcatenatesTo(Len(ss), h, ss, S)
  BY <1>4
<1> QED BY <1>5 DEF Concatenates

(* A concatenation answers the recursion of every part of ss, and nothing  *)
(* else does.                                                              *)
LEMMA FlattenIs ==
    ASSUME NEW S, NEW ss \in Seq(Seq(S)), NEW h, Concatenates(h, ss, S),
           NEW t \in Seq(Seq(S)), Len(t) <= Len(ss), \A i \in 1 .. Len(t) : t[i] = ss[i]
    PROVE  FlattenSeq(t) = h[Len(t)]
<1>1. Len(t) \in Nat /\ Len(ss) \in Nat /\ Len(t) <= Len(ss)
  OBVIOUS
<1>2. CASE Len(t) = 0
  <2>1. t = <<>>
    BY <1>2
  <2>2. FlattenSeq(t) = t
    BY <1>2 DEF FlattenSeq
  <2> QED BY <1>2, <2>1, <2>2 DEF Concatenates, ConcatenatesTo
<1>3. CASE Len(t) # 0
  <2> DEFINE N == Len(t)
             k == [i \in 1 .. N |-> h[i]]
             Body(g) == [i \in 1 .. N |-> IF i = 1 THEN t[i] ELSE g[i - 1] \o t[i]]
  <2>1. N \in Nat /\ N # 0 /\ N \in 1 .. N /\ 1 \in 1 .. N
    BY <1>1, <1>3
  <2>2. ASSUME NEW i \in 1 .. N PROVE h[i] = h[i - 1] \o t[i] /\ t[i] \in Seq(S)
    <3>1. i \in 1 .. Len(ss) /\ t[i] = ss[i] /\ t[i] \in Seq(S)
      BY <1>1
    <3> QED BY <3>1 DEF Concatenates, ConcatenatesTo
  <2> HIDE DEF N
  <2>3. k = Body(k)
    <3>1. ASSUME NEW i \in 1 .. N PROVE k[i] = IF i = 1 THEN t[i] ELSE k[i - 1] \o t[i]
      <4>1. CASE i = 1
        <5>1. h[i - 1] = <<>>
          BY <4>1 DEF Concatenates, ConcatenatesTo
        <5>2. <<>> \o t[i] = t[i]
          BY <2>2, ConcatEmptySeq
        <5> QED BY <2>2, <4>1, <5>1, <5>2
      <4>2. CASE i # 1
        <5>1. i - 1 \in 1 .. N
          BY <2>1, <4>2
        <5>2. k[i - 1] = h[i - 1] /\ k[i] = h[i]
          BY <5>1
        <5> HIDE DEF k
        <5> QED BY <2>2, <4>2, <5>2
      <4> QED BY <4>1, <4>2
    <3> QED BY <3>1
  <2>4. ASSUME NEW g, g = Body(g) PROVE g[N] = h[N]
    <3> DEFINE F == {n \in Nat : n \in 1 .. N => g[n] = h[n]}
    <3>1. 0 \in F
      OBVIOUS
    <3>2. ASSUME NEW n \in Nat, n \in F PROVE n + 1 \in F
      <4> SUFFICES ASSUME n + 1 \in 1 .. N PROVE g[n + 1] = h[n + 1]
        OBVIOUS
      <4>1. g[n + 1] = IF n + 1 = 1 THEN t[n + 1] ELSE g[(n + 1) - 1] \o t[n + 1]
        BY <2>4
      <4>2. k[n + 1] = IF n + 1 = 1 THEN t[n + 1] ELSE k[(n + 1) - 1] \o t[n + 1]
        <5> HIDE DEF k
        <5> QED BY <2>3
      <4>3. k[n + 1] = h[n + 1]
        OBVIOUS
      <4>4. CASE n + 1 = 1
        BY <4>1, <4>2, <4>3, <4>4
      <4>5. CASE n + 1 # 1
        <5>1. n \in 1 .. N /\ (n + 1) - 1 = n
          BY <2>1, <4>5
        <5>2. g[n] = h[n] /\ k[n] = h[n]
          BY <3>2, <5>1
        <5> HIDE DEF k
        <5> QED BY <4>1, <4>2, <4>3, <4>5, <5>1, <5>2
      <4> QED BY <4>4, <4>5
    <3>3. Nat \subseteq F
      <4> HIDE DEF F
      <4> QED BY <3>1, <3>2, NatSteps
    <3> QED BY <2>1, <3>3
  <2>5. FlattenOf(t) = CHOOSE g : g = Body(g)
    BY DEF FlattenOf, N
  <2>6. FlattenSeq(t) = FlattenOf(t)[N]
    BY <1>3, FlattenUnfolds DEF N
  <2> HIDE DEF Body
  <2>7. FlattenOf(t) = Body(FlattenOf(t))
    BY <2>3, <2>5
  <2> QED BY <2>4, <2>6, <2>7 DEF N
<1> QED BY <1>2, <1>3

(* The first n sequences of ss, one behind the other. *)
Part(ss, n) == FlattenSeq(SubSeq(ss, 1, n))

LEMMA Parts ==
    ASSUME NEW S, NEW ss \in Seq(Seq(S))
    PROVE  /\ FlattenSeq(ss) = Part(ss, Len(ss)) /\ Part(ss, 0) = <<>>
           /\ \A n \in 0 .. Len(ss) : Part(ss, n) \in Seq(S)
           /\ \A n \in 1 .. Len(ss) : Part(ss, n) = Part(ss, n - 1) \o ss[n]
<1> DEFINE N == Len(ss)
<1>1. PICK h : Concatenates(h, ss, S)
  BY ConcatenationExists
<1>2. ASSUME NEW n \in 0 .. N PROVE Part(ss, n) = h[n]
  <2> DEFINE t == SubSeq(ss, 1, n)
  <2>1. n \in Nat /\ N \in Nat /\ n <= N /\ \A i \in 1 .. n : ss[i] \in Seq(S)
    OBVIOUS
  <2>2. /\ t \in Seq(Seq(S))
        /\ Len(t) = IF 1 <= n THEN n - 1 + 1 ELSE 0
        /\ \A i \in 1 .. n - 1 + 1 : t[i] = ss[1 + i - 1]
    BY <2>1, SubSeqProperties
  <2> HIDE DEF t
  <2>3. Len(t) = n
    BY <2>1, <2>2
  <2>4. \A i \in 1 .. n : i \in 1 .. n - 1 + 1 /\ 1 + i - 1 = i
    BY <2>1
  <2>5. \A i \in 1 .. Len(t) : t[i] = ss[i]
    BY <2>2, <2>3, <2>4
  <2>6. FlattenSeq(t) = h[Len(t)]
    BY <1>1, <2>1, <2>2, <2>3, <2>5, FlattenIs
  <2> QED BY <2>3, <2>6 DEF Part, t
<1>3. SubSeq(ss, 1, N) = ss
  BY SubSeqFull
<1>4. N \in Nat /\ 0 \in 0 .. N /\ \A n \in 1 .. N : n \in 0 .. N /\ n - 1 \in 0 .. N
  OBVIOUS
<1>5. FlattenSeq(ss) = Part(ss, N)
  BY <1>3 DEF Part
<1>6. /\ h \in [0 .. N -> Seq(S)] /\ h[0] = <<>>
      /\ \A n \in 1 .. N : h[n] = h[n - 1] \o ss[n]
  BY <1>1 DEF Concatenates, ConcatenatesTo
<1> HIDE DEF N
<1>7. Part(ss, 0) = <<>> /\ \A n \in 0 .. N : Part(ss, n) \in Seq(S)
  BY <1>2, <1>4, <1>6
<1>8. ASSUME NEW n \in 1 .. N PROVE Part(ss, n) = Part(ss, n - 1) \o ss[n]
  BY <1>2, <1>4, <1>6
<1> QED BY <1>5, <1>7, <1>8 DEF N

LEMMA PrefixIs ==
    ASSUME NEW S, NEW s \in Seq(S), NEW t \in Seq(S)
    PROVE  IsPrefix(s, t) <=> Len(s) <= Len(t) /\ \A i \in 1 .. Len(s) : s[i] = t[i]
<1>1. Len(s) \in Nat /\ Len(t) \in Nat
  OBVIOUS
<1>2. SubSeq(s, 1, Len(s)) = s
  BY SubSeqFull
<1>3. ASSUME Len(s) <= Len(t)
      PROVE  SubSeq(t, 1, Len(s)) = s <=> \A i \in 1 .. Len(s) : s[i] = t[i]
  <2> DEFINE n == Len(s)
             u == SubSeq(t, 1, n)
  <2>1. n \in Nat /\ \A i \in 1 .. n : t[i] \in S
    BY <1>1, <1>3
  <2>2. /\ u \in Seq(S) /\ Len(u) = IF 1 <= n THEN n - 1 + 1 ELSE 0
        /\ \A i \in 1 .. n - 1 + 1 : u[i] = t[1 + i - 1]
    BY <2>1, SubSeqProperties
  <2> HIDE DEF u
  <2>3. Len(u) = n /\ \A i \in 1 .. n : i \in 1 .. n - 1 + 1 /\ 1 + i - 1 = i
    BY <2>1, <2>2
  <2>4. \A i \in 1 .. n : u[i] = t[i]
    BY <2>2, <2>3
  <2>5. (\A i \in 1 .. n : u[i] = s[i]) => u = s
    BY <2>2, <2>3, SeqEqual
  <2>6. u = s <=> \A i \in 1 .. n : s[i] = t[i]
    BY <2>4, <2>5
  <2> QED BY <2>6 DEF u
<1> QED BY <1>2, <1>3 DEF IsPrefix

LEMMA PartsGrow ==
    ASSUME NEW S, NEW ss \in Seq(Seq(S)), NEW n \in 0 .. Len(ss), NEW m \in n .. Len(ss)
    PROVE  IsPrefix(Part(ss, n), Part(ss, m))
<1> DEFINE N == Len(ss)
           L(k) == Len(Part(ss, k))
           F == {d \in Nat : n + d <= N =>
                     /\ L(n) <= L(n + d)
                     /\ \A i \in 1 .. L(n) : Part(ss, n)[i] = Part(ss, n + d)[i]}
<1>1. N \in Nat /\ n \in Nat /\ n <= N /\ m \in Nat /\ n <= m /\ m <= N
  OBVIOUS
<1> HIDE DEF N
<1>2. \A k \in 0 .. N : Part(ss, k) \in Seq(S) /\ L(k) \in Nat
  <2>1. \A k \in 0 .. N : Part(ss, k) \in Seq(S)
    BY Parts DEF N
  <2> QED BY <2>1
<1>3. 0 \in F
  BY <1>1, <1>2
<1>4. ASSUME NEW d \in Nat, d \in F PROVE d + 1 \in F
  <2> SUFFICES ASSUME n + (d + 1) <= N
               PROVE  /\ L(n) <= L(n + (d + 1))
                      /\ \A i \in 1 .. L(n) : Part(ss, n)[i] = Part(ss, n + (d + 1))[i]
    BY DEF F
  <2> DEFINE k == n + d
  <2>1. k \in 0 .. N /\ k + 1 \in 1 .. N /\ (k + 1) - 1 = k /\ n + (d + 1) = k + 1 /\ n \in 0 .. N
    BY <1>1
  <2>2. L(n) <= L(k) /\ \A i \in 1 .. L(n) : Part(ss, n)[i] = Part(ss, k)[i]
    BY <1>4, <2>1
  <2> HIDE DEF k
  <2>3. Part(ss, k + 1) = Part(ss, k) \o ss[k + 1] /\ ss[k + 1] \in Seq(S)
    <3>1. Part(ss, k + 1) = Part(ss, (k + 1) - 1) \o ss[k + 1]
      BY <2>1, Parts DEF N
    <3> QED BY <2>1, <3>1 DEF N
  <2>4. /\ L(k + 1) = L(k) + Len(ss[k + 1])
        /\ \A i \in 1 .. L(k) + Len(ss[k + 1]) :
               Part(ss, k + 1)[i] = IF i <= L(k) THEN Part(ss, k)[i] ELSE ss[k + 1][i - L(k)]
    BY <1>2, <2>1, <2>3, ConcatProperties
  <2>5. L(n) \in Nat /\ L(k) \in Nat /\ Len(ss[k + 1]) \in Nat
    BY <1>2, <2>1, <2>3
  <2> HIDE DEF L
  <2>6. \A i \in 1 .. L(n) : i \in 1 .. L(k) + Len(ss[k + 1]) /\ i <= L(k)
    BY <2>2, <2>5
  <2>7. L(n) <= L(k + 1)
    BY <2>2, <2>4, <2>5
  <2> QED BY <2>1, <2>2, <2>4, <2>6, <2>7
<1>5. Nat \subseteq F
  <2> HIDE DEF F
  <2> QED BY <1>3, <1>4, NatSteps
<1>6. m - n \in Nat /\ n + (m - n) = m
  BY <1>1
<1>7. L(n) <= L(m) /\ \A i \in 1 .. L(n) : Part(ss, n)[i] = Part(ss, m)[i]
  BY <1>1, <1>5, <1>6
<1> QED BY <1>1, <1>2, <1>7, PrefixIs

(* An element of s \o t is one of s or one of t, and these keep their order.*)
LEMMA ConcatRange ==
    ASSUME NEW S, NEW s \in Seq(S), NEW t \in Seq(S)
    PROVE  Range(s \o t) = Range(s) \cup Range(t)
<1> DEFINE u == s \o t
<1>1. /\ Len(s) \in Nat /\ Len(t) \in Nat
      /\ DOMAIN s = 1 .. Len(s) /\ DOMAIN t = 1 .. Len(t)
  OBVIOUS
<1>2. /\ u \in Seq(S) /\ Len(u) = Len(s) + Len(t)
      /\ \A i \in 1 .. Len(s) + Len(t) : u[i] = IF i <= Len(s) THEN s[i] ELSE t[i - Len(s)]
  BY ConcatProperties
<1> HIDE DEF u
<1>3. DOMAIN u = 1 .. Len(s) + Len(t)
  BY <1>2
<1>4. ASSUME NEW x \in Range(u) PROVE x \in Range(s) \cup Range(t)
  <2>1. PICK i \in 1 .. Len(s) + Len(t) : u[i] = x
    BY <1>3 DEF Range
  <2>2. i <= Len(s) => i \in 1 .. Len(s)
    BY <1>1
  <2>3. ~ (i <= Len(s)) => i - Len(s) \in 1 .. Len(t)
    BY <1>1
  <2> QED BY <1>1, <1>2, <2>1, <2>2, <2>3 DEF Range
<1>5. ASSUME NEW x \in Range(s) PROVE x \in Range(u)
  <2>1. PICK i \in 1 .. Len(s) : s[i] = x
    BY <1>1 DEF Range
  <2>2. i \in 1 .. Len(s) + Len(t) /\ i <= Len(s)
    BY <1>1
  <2> QED BY <1>2, <1>3, <2>1, <2>2 DEF Range
<1>6. ASSUME NEW x \in Range(t) PROVE x \in Range(u)
  <2>1. PICK i \in 1 .. Len(t) : t[i] = x
    BY <1>1 DEF Range
  <2>2. /\ i + Len(s) \in 1 .. Len(s) + Len(t) /\ ~ (i + Len(s) <= Len(s))
        /\ (i + Len(s)) - Len(s) = i
    BY <1>1
  <2>3. u[i + Len(s)] = x
    BY <1>2, <2>1, <2>2
  <2> QED BY <1>3, <2>2, <2>3 DEF Range
<1> QED BY <1>4, <1>5, <1>6 DEF u

(* r relates each element to those behind it. *)
Ordered(s, r) == \A i, j \in DOMAIN s : i < j => <<s[i], s[j]>> \in r

LEMMA ConcatOrdered ==
    ASSUME NEW S, NEW s \in Seq(S), NEW t \in Seq(S), NEW r, Ordered(s, r), Ordered(t, r),
           \A x \in Range(s), y \in Range(t) : <<x, y>> \in r
    PROVE  Ordered(s \o t, r)
<1> DEFINE u == s \o t
<1>1. /\ Len(s) \in Nat /\ Len(t) \in Nat
      /\ DOMAIN s = 1 .. Len(s) /\ DOMAIN t = 1 .. Len(t)
  OBVIOUS
<1>2. /\ u \in Seq(S) /\ Len(u) = Len(s) + Len(t)
      /\ \A i \in 1 .. Len(s) + Len(t) : u[i] = IF i <= Len(s) THEN s[i] ELSE t[i - Len(s)]
  BY ConcatProperties
<1> HIDE DEF u
<1>3. DOMAIN u = 1 .. Len(s) + Len(t)
  BY <1>2
<1>4. ASSUME NEW i \in 1 .. Len(s) + Len(t), NEW j \in 1 .. Len(s) + Len(t), i < j
      PROVE  <<u[i], u[j]>> \in r
  <2>1. CASE j <= Len(s)
    <3>1. i \in 1 .. Len(s) /\ j \in 1 .. Len(s) /\ i <= Len(s)
      BY <1>1, <1>4, <2>1
    <3>2. u[i] = s[i] /\ u[j] = s[j]
      BY <1>2, <2>1, <3>1
    <3> QED BY <1>1, <1>4, <3>1, <3>2 DEF Ordered
  <2>2. CASE i <= Len(s) /\ ~ (j <= Len(s))
    <3>1. i \in 1 .. Len(s) /\ j - Len(s) \in 1 .. Len(t)
      BY <1>1, <2>2
    <3>2. u[i] = s[i] /\ u[j] = t[j - Len(s)]
      BY <1>2, <2>2
    <3> QED BY <1>1, <3>1, <3>2 DEF Range
  <2>3. CASE ~ (i <= Len(s))
    <3>1. /\ i - Len(s) \in 1 .. Len(t) /\ j - Len(s) \in 1 .. Len(t)
          /\ i - Len(s) < j - Len(s) /\ ~ (j <= Len(s))
      BY <1>1, <1>4, <2>3
    <3>2. u[i] = t[i - Len(s)] /\ u[j] = t[j - Len(s)]
      BY <1>2, <2>3, <3>1
    <3> QED BY <1>1, <3>1, <3>2 DEF Ordered
  <2> QED BY <2>1, <2>2, <2>3
<1>5. Ordered(u, r)
  BY <1>3, <1>4 DEF Ordered
<1> QED BY <1>5 DEF u

LEMMA OneMore == \A m \in Nat : 1 .. m + 1 = (1 .. m) \cup {m + 1}
  OBVIOUS

(* The elements of a part are those of its sequences. *)
LEMMA PartRange ==
    ASSUME NEW S, NEW ss \in Seq(Seq(S)), NEW n \in 0 .. Len(ss)
    PROVE  Range(Part(ss, n)) = UNION {Range(ss[i]) : i \in 1 .. n}
<1> DEFINE N == Len(ss)
           F == {m \in Nat : m <= N => Range(Part(ss, m)) = UNION {Range(ss[i]) : i \in 1 .. m}}
<1>1. N \in Nat /\ n \in Nat /\ n <= N
  OBVIOUS
<1>2. 0 \in F
  <2>1. Part(ss, 0) = <<>>
    BY Parts
  <2>2. Range(Part(ss, 0)) = {} /\ UNION {Range(ss[i]) : i \in 1 .. 0} = {}
    BY <2>1 DEF Range
  <2> QED BY <2>2
<1>3. ASSUME NEW m \in Nat, m \in F PROVE m + 1 \in F
  <2> SUFFICES ASSUME m + 1 <= N
               PROVE  Range(Part(ss, m + 1)) = UNION {Range(ss[i]) : i \in 1 .. m + 1}
    BY DEF F
  <2>1. m <= N /\ m \in 0 .. N /\ m + 1 \in 1 .. N /\ (m + 1) - 1 = m
    BY <1>1
  <2>2. Range(Part(ss, m)) = UNION {Range(ss[i]) : i \in 1 .. m}
    BY <1>3, <2>1
  <2>3. Part(ss, m + 1) = Part(ss, m) \o ss[m + 1]
    <3>1. Part(ss, m + 1) = Part(ss, (m + 1) - 1) \o ss[m + 1]
      BY <2>1, Parts
    <3> QED BY <2>1, <3>1
  <2>4. Part(ss, m) \in Seq(S) /\ ss[m + 1] \in Seq(S)
    <3>1. Part(ss, m) \in Seq(S)
      BY <2>1, Parts
    <3> QED BY <2>1, <3>1
  <2>5. Range(Part(ss, m + 1)) = Range(Part(ss, m)) \cup Range(ss[m + 1])
    <3> DEFINE p == Part(ss, m)
               q == ss[m + 1]
    <3>1. p \in Seq(S) /\ q \in Seq(S)
      BY <2>4
    <3> HIDE DEF p, q
    <3>2. Range(p \o q) = Range(p) \cup Range(q)
      BY <3>1, ConcatRange
    <3> QED BY <2>3, <3>2 DEF p, q
  <2>6. 1 .. m + 1 = (1 .. m) \cup {m + 1}
    BY OneMore
  <2> QED BY <2>2, <2>5, <2>6
<1>4. Nat \subseteq F
  <2> HIDE DEF F
  <2> QED BY <1>2, <1>3, NatSteps
<1> QED BY <1>1, <1>4

(* Sequences in order, each of them ordered, make an ordered part. *)
LEMMA PartOrdered ==
    ASSUME NEW S, NEW ss \in Seq(Seq(S)), NEW r, NEW n \in 0 .. Len(ss),
           \A i \in 1 .. n : Ordered(ss[i], r),
           \A i, j \in 1 .. n : i < j => \A x \in Range(ss[i]), y \in Range(ss[j]) : <<x, y>> \in r
    PROVE  Ordered(Part(ss, n), r)
<1> DEFINE N == Len(ss)
           F == {m \in Nat : m <= n => Ordered(Part(ss, m), r)}
<1>1. N \in Nat /\ n \in Nat /\ n <= N
  OBVIOUS
<1>2. 0 \in F
  <2>1. Part(ss, 0) = <<>>
    BY Parts
  <2>2. Ordered(Part(ss, 0), r)
    BY <2>1 DEF Ordered
  <2> QED BY <2>2
<1>3. ASSUME NEW m \in Nat, m \in F PROVE m + 1 \in F
  <2> SUFFICES ASSUME m + 1 <= n PROVE Ordered(Part(ss, m + 1), r)
    BY DEF F
  <2>1. /\ m <= n /\ m \in 0 .. N /\ m + 1 \in 1 .. N /\ (m + 1) - 1 = m
        /\ m + 1 \in 1 .. n /\ \A i \in 1 .. m : i \in 1 .. n /\ i < m + 1
    BY <1>1
  <2>2. Ordered(Part(ss, m), r) /\ Ordered(ss[m + 1], r)
    BY <1>3, <2>1
  <2>3. Part(ss, m + 1) = Part(ss, m) \o ss[m + 1]
    <3>1. Part(ss, m + 1) = Part(ss, (m + 1) - 1) \o ss[m + 1]
      BY <2>1, Parts
    <3> QED BY <2>1, <3>1
  <2>4. Part(ss, m) \in Seq(S) /\ ss[m + 1] \in Seq(S)
    <3>1. Part(ss, m) \in Seq(S)
      BY <2>1, Parts
    <3> QED BY <2>1, <3>1
  <2>5. Range(Part(ss, m)) = UNION {Range(ss[i]) : i \in 1 .. m}
    BY <2>1, PartRange
  <2>6. \A x \in Range(Part(ss, m)), y \in Range(ss[m + 1]) : <<x, y>> \in r
    BY <2>1, <2>5
  <2> QED BY <2>2, <2>3, <2>4, <2>6, ConcatOrdered
<1>4. Nat \subseteq F
  <2> HIDE DEF F
  <2> QED BY <1>2, <1>3, NatSteps
<1> QED BY <1>1, <1>4

LEMMA PartsAgree ==
    ASSUME NEW S, NEW ss \in Seq(Seq(S)), NEW tt \in Seq(Seq(S)), NEW n \in Nat,
           n <= Len(ss), n <= Len(tt), \A i \in 1 .. n : ss[i] = tt[i]
    PROVE  Part(ss, n) = Part(tt, n)
<1> DEFINE s == SubSeq(ss, 1, n)
           t == SubSeq(tt, 1, n)
<1>1. (\A i \in 1 .. n : ss[i] \in Seq(S)) /\ (\A i \in 1 .. n : tt[i] \in Seq(S))
  OBVIOUS
<1>2. /\ s \in Seq(Seq(S)) /\ Len(s) = (IF 1 <= n THEN n - 1 + 1 ELSE 0)
      /\ \A i \in 1 .. n - 1 + 1 : s[i] = ss[1 + i - 1]
  BY <1>1, SubSeqProperties
<1>3. /\ t \in Seq(Seq(S)) /\ Len(t) = (IF 1 <= n THEN n - 1 + 1 ELSE 0)
      /\ \A i \in 1 .. n - 1 + 1 : t[i] = tt[1 + i - 1]
  BY <1>1, SubSeqProperties
<1> HIDE DEF s, t
<1>4. Len(s) = n /\ Len(t) = n /\ \A i \in 1 .. n : i \in 1 .. n - 1 + 1 /\ 1 + i - 1 = i
  BY <1>2, <1>3
<1>5. \A i \in 1 .. n : s[i] = t[i]
  BY <1>2, <1>3, <1>4
<1>6. s = t
  BY <1>2, <1>3, <1>4, <1>5, SeqEqual
<1> QED BY <1>6 DEF Part, s, t

(* What was in front stays there, and can be cut off again. *)
LEMMA FrontOfConcat ==
    ASSUME NEW S, NEW s \in Seq(S), NEW t \in Seq(S)
    PROVE  /\ IsPrefix(s, s \o t)
           /\ SubSeq(s \o t, 1, Len(s \o t) - Len(t)) = s
<1> DEFINE u == s \o t
           n == Len(s)
<1>1. n \in Nat /\ Len(t) \in Nat
  OBVIOUS
<1>2. /\ u \in Seq(S) /\ Len(u) = n + Len(t)
      /\ \A i \in 1 .. n + Len(t) : u[i] = IF i <= n THEN s[i] ELSE t[i - n]
  BY ConcatProperties
<1> HIDE DEF u
<1>3. \A i \in 1 .. n : i \in 1 .. n + Len(t) /\ i <= n
  BY <1>1
<1>4. n <= Len(u) /\ Len(u) - Len(t) = n /\ \A i \in 1 .. n : s[i] = u[i]
  BY <1>1, <1>2, <1>3
<1>5. IsPrefix(s, u)
  BY <1>2, <1>4, PrefixIs
<1>6. SubSeq(u, 1, n) = s
  <2>1. SubSeq(s, 1, Len(s)) = s
    BY SubSeqFull
  <2> QED BY <1>5, <2>1 DEF IsPrefix
<1> QED BY <1>4, <1>5, <1>6 DEF u

LEMMA MinIs ==
    ASSUME NEW T, T \subseteq Nat, T # {}
    PROVE  Min(T) \in T /\ \A n \in T : Min(T) <= n
<1>1. PICK m \in T : \A n \in T : ~ (n < m)
  BY LeastNat
<1>2. \A n \in T : m <= n
  BY <1>1
<1> QED BY <1>2 DEF Min

LEMMA PrefixTransitive ==
    ASSUME NEW S, NEW s \in Seq(S), NEW t \in Seq(S), NEW u \in Seq(S),
           IsPrefix(s, t), IsPrefix(t, u)
    PROVE  IsPrefix(s, u)
<1>1. Len(s) \in Nat /\ Len(t) \in Nat /\ Len(u) \in Nat
  OBVIOUS
<1>2. Len(s) <= Len(t) /\ \A i \in 1 .. Len(s) : s[i] = t[i]
  BY PrefixIs
<1>3. Len(t) <= Len(u) /\ \A i \in 1 .. Len(t) : t[i] = u[i]
  BY PrefixIs
<1>4. Len(s) <= Len(u) /\ \A i \in 1 .. Len(s) : i \in 1 .. Len(t)
  BY <1>1, <1>2, <1>3
<1>5. \A i \in 1 .. Len(s) : s[i] = u[i]
  BY <1>2, <1>3, <1>4
<1> QED BY <1>4, <1>5, PrefixIs
=============================================================================
