------------------------------- MODULE Latency ------------------------------
(***************************************************************************)
(* metrics::LatencyTracker (latency_tracker.hpp): the engine thread counts *)
(* samples in buckets while another thread works out percentiles from them *)
(* in two passes, one that sums the buckets and one that walks them until  *)
(* it has met each target.  get_percentile() works out one percentile,     *)
(* report() four.  Both are modelled in exact arithmetic.                  *)
(*                                                                         *)
(* All accesses are relaxed.  A load returns any value the counter has had,*)
(* but none older than the reader has seen already: that much the memory   *)
(* order promises of a single atomic.                                      *)
(***************************************************************************)
EXTENDS Integers, SequencesExt

CONSTANTS Buckets,       \* NUM_BUCKETS, 64 in the code
          Reports,       \* what is asked for: sets of percentiles, in thousandths
          MaxSamples     \* bound: samples recorded

ASSUME LatencyAssumption ==
    /\ Buckets \in Nat \ {0} /\ MaxSamples \in Nat
    /\ \A report \in Reports : report \subseteq 1 .. 1000

VARIABLES count,         \* buckets_
          pc,            \* of the reader: "idle", "sum", "walk" or "returned"
          i,             \* the bucket it reads next
          asked,         \* the percentiles it works out, in order
          first, second, \* what it has read in either pass
          total, targets,
          answers        \* the buckets it has printed or returned

vars == <<count, pc, i, asked, first, second, total, targets, answers>>

Indices == 0 .. Buckets - 1
Zeros == [b \in Indices |-> 0]

SumUpTo(f, b) == SumFunctionOnSet(f, 0 .. b)

Init ==
    /\ count = Zeros
    /\ pc = "idle" /\ i = 0 /\ asked = <<>>
    /\ first = Zeros /\ second = Zeros /\ total = 0 /\ targets = <<>> /\ answers = <<>>

-----------------------------------------------------------------------------
(* The bucket of a latency: 63 - clz(delta | 1), its highest bit. *)
Bucket(delta) == Max({0} \cup {b \in Indices : 2 ^ b <= delta})

(* The engine thread: one fetch_add. *)
Record(delta) ==
    /\ SumUpTo(count, Buckets - 1) < MaxSamples
    /\ count' = [count EXCEPT ![Bucket(delta)] = @ + 1]
    /\ UNCHANGED <<pc, i, asked, first, second, total, targets, answers>>

Ascending(report) ==
    {s \in [1 .. Cardinality(report) -> report] :
        \A t, u \in DOMAIN s : t < u => s[t] < s[u]}

(* The reader enters report() or get_percentile(). *)
Enter(report) ==
    /\ pc = "idle" /\ pc' = "sum"
    /\ asked' \in Ascending(report)
    /\ UNCHANGED <<count, i, total, first, second, targets, answers>>

(* total += buckets_[i] *)
SumBucket ==
    /\ pc = "sum" /\ i < Buckets
    /\ \E v \in 0 .. count[i] :
           first' = [first EXCEPT ![i] = v] /\ total' = total + v
    /\ i' = i + 1
    /\ UNCHANGED <<count, pc, asked, second, targets, answers>>

Targets(n, percentiles) == [t \in DOMAIN percentiles |-> (n * percentiles[t]) \div 1000]

FirstWalkedLate == 1                          (* faulty: skips bucket 0 *)
FirstWalked == 0

(* Without a sample there is nothing to report. *)
SetTargets ==
    /\ pc = "sum" /\ i = Buckets
    /\ IF total = 0
       THEN pc' = "returned" /\ UNCHANGED <<i, targets>>
       ELSE pc' = "walk" /\ i' = FirstWalked /\ targets' = Targets(total, asked)
    /\ UNCHANGED <<count, asked, first, second, total, answers>>

(* How many of the targets, which ascend, that many samples meet. *)
MetStrictly(cumulative) ==                    (* faulty: > for >= *)
    Cardinality({t \in DOMAIN targets : cumulative > targets[t]})
Met(cumulative) == Cardinality({t \in DOMAIN targets : cumulative >= targets[t]})

(* cumulative += buckets_[i], and the lines of all targets that it meets.  *)
WalkBucket ==
    /\ pc = "walk" /\ i < Buckets /\ Len(answers) < Len(targets)
    /\ \E v \in first[i] .. count[i] :
           /\ second' = [second EXCEPT ![i] = v]
           /\ LET cumulative == SumUpTo(second', i)
              IN  answers' = [t \in 1 .. Met(cumulative) |->
                                 IF t \in DOMAIN answers THEN answers[t] ELSE i]
    /\ i' = i + 1
    /\ UNCHANGED <<count, pc, asked, first, total, targets>>

Return ==
    /\ pc = "walk" /\ (i = Buckets \/ Len(answers) = Len(targets))
    /\ pc' = "returned"
    /\ UNCHANGED <<count, i, asked, first, second, total, targets, answers>>

Next ==
    \/ \E delta \in 0 .. 2 ^ Buckets - 1 : Record(delta)
    \/ \E report \in Reports : Enter(report)
    \/ SumBucket
    \/ SetTargets
    \/ WalkBucket
    \/ Return

Spec == Init /\ [][Next]_vars

-----------------------------------------------------------------------------
(* If there was a sample every percentile asked for has its answer: the    *)
(* walk cannot fall off the last bucket and return 0, or leave out lines,  *)
(* although it reads other values than the sum (latency_tracker.hpp:66-79, *)
(* 91-96).                                                                 *)
EveryTargetMet ==
    (pc = "returned" /\ total > 0) => Len(answers) = Len(asked)

(* The bucket given for m of n samples is right for some moment of the     *)
(* call: the target is reached at it, by samples that are recorded, and not*)
(* before it, by those that the sum has seen.  A target that is rounded to *)
(* zero is met by bucket 0, sample or not (latency_tracker.hpp:64, 91-95). *)
Bracketed ==
    \A t \in DOMAIN answers :
        /\ targets[t] <= SumUpTo(count, answers[t])
        /\ targets[t] > 0 => SumUpTo(first, answers[t] - 1) < targets[t]
=============================================================================
