---------------------------- MODULE JournalProofs ---------------------------
(***************************************************************************)
(* What a process has written stays in its place, and replay returns it, in*)
(* order and before anything older: for any block size, file and set of    *)
(* payload lengths, with writes that fail, crashes and restarts.           *)
(***************************************************************************)
EXTENDS Journal, DataLemmas

USE JournalAssumption

IsLog(l) == l = [file |-> l.file, pos |-> l.pos, buf |-> l.buf, seq |-> l.seq]

(* The records of the buffer are this process's; a block from the offset on*)
(* is an earlier process's or empty.                                       *)
Good(l) ==
    /\ IsLog(l) /\ l.file \in [Blocks -> Seq(Records)]
    /\ l.pos \in Nat /\ l.buf \in Seq(Records) /\ l.seq \in Nat
    /\ \A i \in DOMAIN l.buf : l.buf[i].session = session
    /\ \A i \in Blocks : l.file[i] # <<>> =>
           /\ l.file[i][1].session <= session
           /\ l.file[i][1].session = session => i < l.pos

IndInv == Good(log) /\ session \in 0 .. MaxSessions /\ (running => session > 0)

LEMMA FlushFields ==
    ASSUME NEW l, IsLog(l), NEW ok \in BOOLEAN
    PROVE  /\ IsLog(Flush(l, ok)) /\ Flush(l, ok).buf = <<>> /\ Flush(l, ok).seq = l.seq
           /\ ok => /\ Flush(l, ok).file = [l.file EXCEPT ![l.pos] = l.buf]
                    /\ Flush(l, ok).pos = l.pos + 1
           /\ ~ ok => /\ Flush(l, ok).file = [l.file EXCEPT ![l.pos] = @]
                      /\ Flush(l, ok).pos = l.pos
<1> DEFINE f == [l.file EXCEPT ![l.pos] = IF ok THEN l.buf ELSE @]
           m == [l EXCEPT !.file = f]
           n == [m EXCEPT !.pos = IF ok THEN @ + 1 ELSE @]
<1>1. Flush(l, ok) = [n EXCEPT !.buf = <<>>]
  BY DEF Flush
<1>2. m = [file |-> f, pos |-> l.pos, buf |-> l.buf, seq |-> l.seq]
  <2> HIDE DEF f
  <2> QED BY DEF IsLog
<1> HIDE DEF m
<1>3. n = [file |-> f, pos |-> IF ok THEN l.pos + 1 ELSE l.pos, buf |-> l.buf, seq |-> l.seq]
  <2> HIDE DEF f
  <2> QED BY <1>2
<1> HIDE DEF n
<1>4. Flush(l, ok) = [file |-> f, pos |-> IF ok THEN l.pos + 1 ELSE l.pos, buf |-> <<>>, seq |-> l.seq]
  <2> HIDE DEF f
  <2> QED BY <1>1, <1>3
<1>5. f = IF ok THEN [l.file EXCEPT ![l.pos] = l.buf] ELSE [l.file EXCEPT ![l.pos] = @]
  OBVIOUS
<1> HIDE DEF f
<1> QED BY <1>4, <1>5 DEF IsLog

LEMMA EnterFields ==
    ASSUME NEW l, IsLog(l), NEW len
    PROVE  /\ IsLog(Enter(l, len)) /\ Enter(l, len).file = l.file /\ Enter(l, len).pos = l.pos
           /\ Enter(l, len).buf = Append(l.buf, [session |-> session, seq |-> l.seq, len |-> len])
           /\ Enter(l, len).seq = l.seq + 1
<1> DEFINE b == Append(l.buf, [session |-> session, seq |-> l.seq, len |-> len])
           m == [l EXCEPT !.buf = b]
<1>1. Enter(l, len) = [m EXCEPT !.seq = @ + 1]
  BY DEF Enter, NextSeq
<1>2. m = [file |-> l.file, pos |-> l.pos, buf |-> b, seq |-> l.seq]
  <2> HIDE DEF b
  <2> QED BY DEF IsLog
<1> HIDE DEF m
<1>3. Enter(l, len) = [file |-> l.file, pos |-> l.pos, buf |-> b, seq |-> l.seq + 1]
  <2> HIDE DEF b
  <2> QED BY <1>1, <1>2
<1> QED BY <1>3 DEF IsLog

-----------------------------------------------------------------------------
(* Flush and Enter keep the log good.                                      *)

LEMMA FlushGood ==
    ASSUME NEW l, Good(l), l.buf # <<>>, session \in Nat, NEW ok \in BOOLEAN
    PROVE  /\ Good(Flush(l, ok))
           /\ \A i \in Blocks : l.file[i] # <<>> /\ l.file[i][1].session = session =>
                  Flush(l, ok).file[i] = l.file[i]
<1> DEFINE new == Flush(l, ok)
<1>1. /\ IsLog(new) /\ new.buf = <<>> /\ new.seq = l.seq
      /\ ok => new.file = [l.file EXCEPT ![l.pos] = l.buf] /\ new.pos = l.pos + 1
      /\ ~ ok => new.file = [l.file EXCEPT ![l.pos] = @] /\ new.pos = l.pos
  BY FlushFields DEF Good
<1>2. /\ l.file \in [Blocks -> Seq(Records)] /\ l.buf \in Seq(Records)
      /\ l.pos \in Nat /\ l.seq \in Nat
      /\ 1 \in DOMAIN l.buf /\ l.buf[1].session = session
  BY DEF Good
<1> HIDE DEF new
<1>3. /\ new.file \in [Blocks -> Seq(Records)] /\ new.pos \in Nat /\ l.pos <= new.pos
      /\ \A i \in Blocks : \/ new.file[i] = l.file[i]
                           \/ new.file[i] = l.buf /\ i = l.pos /\ new.pos = l.pos + 1
  <2>1. CASE ok
    <3>1. new.file = [l.file EXCEPT ![l.pos] = l.buf] /\ new.pos = l.pos + 1
      BY <1>1, <2>1
    <3>2. new.file \in [Blocks -> Seq(Records)]
      BY <1>2, <3>1
    <3>3. l.pos <= new.pos /\ new.pos \in Nat
      BY <1>2, <3>1
    <3>4. \A i \in Blocks : new.file[i] = l.file[i] \/ (new.file[i] = l.buf /\ i = l.pos)
      BY <1>2, <3>1
    <3> QED BY <3>1, <3>2, <3>3, <3>4
  <2>2. CASE ~ ok
    <3>1. new.file = [l.file EXCEPT ![l.pos] = @] /\ new.pos = l.pos
      BY <1>1, <2>2
    <3>2. new.file = l.file
      BY <1>2, <3>1
    <3>3. l.pos <= new.pos
      BY <1>2, <3>1
    <3> QED BY <1>2, <3>1, <3>2, <3>3
  <2> QED BY <2>1, <2>2
<1>4. \A i \in Blocks : l.file[i] # <<>> /\ l.file[i][1].session = session => i < l.pos
  BY DEF Good
<1>5. \A i \in Blocks : new.file[i] # <<>> =>
          /\ new.file[i][1].session <= session
          /\ new.file[i][1].session = session => i < new.pos
  <2> TAKE i \in Blocks
  <2>1. i \in Nat /\ l.pos \in Nat /\ new.pos \in Nat /\ l.pos <= new.pos
    BY <1>2, <1>3 DEF Blocks
  <2>2. CASE new.file[i] = l.file[i]
    <3>1. i < l.pos => i < new.pos
      BY <2>1
    <3> QED BY <2>2, <3>1 DEF Good
  <2>3. CASE new.file[i] = l.buf /\ i = l.pos /\ new.pos = l.pos + 1
    <3>1. i < new.pos
      BY <2>1, <2>3
    <3> QED BY <1>2, <2>3, <3>1
  <2> QED BY <1>3, <2>2, <2>3
<1>6. \A i \in Blocks : l.file[i] # <<>> /\ l.file[i][1].session = session => new.file[i] = l.file[i]
  <2>1. \A i \in Blocks : i < l.pos => i # l.pos
    BY <1>2 DEF Blocks
  <2> QED BY <1>3, <1>4, <2>1
<1>7. new.buf \in Seq(Records) /\ \A i \in DOMAIN new.buf : new.buf[i].session = session
  BY <1>1
<1>8. Good(new)
  BY <1>1, <1>2, <1>3, <1>5, <1>7 DEF Good
<1> QED BY <1>6, <1>8 DEF new

LEMMA EnterGood ==
    ASSUME NEW l, Good(l), session \in 1 .. MaxSessions, NEW len \in Lens
    PROVE  Good(Enter(l, len)) /\ Enter(l, len).file = l.file
<1> DEFINE new == Enter(l, len)
           r == [session |-> session, seq |-> l.seq, len |-> len]
<1>1. /\ IsLog(new) /\ new.file = l.file /\ new.pos = l.pos
      /\ new.buf = Append(l.buf, r) /\ new.seq = l.seq + 1
  BY EnterFields DEF Good
<1>2. r \in Records /\ r.session = session
  BY DEF Records, Good
<1> HIDE DEF new, r
<1>3. new.buf \in Seq(Records) /\ \A i \in DOMAIN new.buf : new.buf[i].session = session
  BY <1>1, <1>2 DEF Good
<1>4. Good(new)
  BY <1>1, <1>3 DEF Good
<1> QED BY <1>1, <1>4 DEF new

LEMMA OpenKeeps == ASSUME IndInv, Open PROVE IndInv'
<1> DEFINE l == [log EXCEPT !.pos = 1]
           m == [l EXCEPT !.buf = <<>>]
<1>1. log' = [m EXCEPT !.seq = 0] /\ running' = TRUE /\ session' = session + 1 /\ session < MaxSessions
  BY DEF Open
<1>2. l = [file |-> log.file, pos |-> 1, buf |-> log.buf, seq |-> log.seq]
  BY DEF IndInv, Good, IsLog
<1> HIDE DEF l
<1>3. m = [file |-> log.file, pos |-> 1, buf |-> <<>>, seq |-> log.seq]
  BY <1>2
<1> HIDE DEF m
<1>4. log' = [file |-> log.file, pos |-> 1, buf |-> <<>>, seq |-> 0]
  BY <1>1, <1>3
<1>5. IsLog(log') /\ log'.file = log.file /\ log'.pos = 1 /\ log'.buf = <<>> /\ log'.seq = 0
  BY <1>4 DEF IsLog
<1>6. session \in 0 .. MaxSessions /\ session' \in 0 .. MaxSessions /\ session' > 0
  BY <1>1 DEF IndInv, Good
<1>7. \A i \in Blocks : log.file[i] # <<>> =>
          log.file[i][1].session \in Int /\ log.file[i][1].session <= session
  <2> TAKE i \in Blocks
  <2> HAVE log.file[i] # <<>>
  <2>1. log.file[i] \in Seq(Records)
    BY DEF IndInv, Good
  <2>2. log.file[i][1] \in Records
    BY <2>1
  <2> QED BY <2>2 DEF IndInv, Good, Records
<1>8. \A k \in Int : k <= session => k < session'
  BY <1>1, <1>6
<1>9. \A i \in Blocks : log'.file[i] # <<>> =>
          /\ log'.file[i][1].session <= session'
          /\ log'.file[i][1].session = session' => i < log'.pos
  <2>1. \A k \in Int : k < session' => k <= session' /\ k # session'
    BY <1>6
  <2> QED BY <1>5, <1>7, <1>8, <2>1
<1> QED BY <1>5, <1>6, <1>9 DEF IndInv, Good

(* Besides keeping the invariant, a step leaves this process's blocks be.  *)
LEMMA StepKeeps ==
    ASSUME IndInv, [Next]_vars
    PROVE  /\ IndInv'
           /\ session' = session =>
                  \A i \in Blocks : log.file[i] # <<>> /\ log.file[i][1].session = session =>
                      log'.file[i] = log.file[i]
<1> DEFINE Kept == \A i \in Blocks : log.file[i] # <<>> /\ log.file[i][1].session = session =>
                       log'.file[i] = log.file[i]
<1>0. /\ Good(log) /\ session \in Nat /\ session \in 0 .. MaxSessions
      /\ running => session \in 1 .. MaxSessions
  BY DEF IndInv, Good
<1>1. CASE Open
  <2>1. session' # session
    BY <1>0, <1>1 DEF Open
  <2> QED BY <1>1, <2>1, OpenKeeps
<1>2. ASSUME running, Good(log'), session' = session, running' = running PROVE IndInv'
  BY <1>0, <1>2 DEF IndInv, Good
<1>3. ASSUME NEW len \in Lens, Write(len) PROVE IndInv' /\ Kept
  <2>1. log' = Enter(log, len) /\ session' = session /\ running' = running /\ running
    BY <1>3 DEF Write
  <2>2. Good(log') /\ log'.file = log.file
    BY <1>0, <2>1, EnterGood
  <2> QED BY <1>2, <2>1, <2>2
<1>4. ASSUME NEW len \in Lens, NEW ok \in Outcomes, WriteFlush(len, ok) PROVE IndInv' /\ Kept
  <2> DEFINE l == Flush(log, ok)
  <2>1. /\ log' = l \/ log' = Enter(l, len)
        /\ session' = session /\ running' = running /\ running /\ log.buf # <<>>
    BY <1>4 DEF WriteFlush
  <2>2. ok \in BOOLEAN
    BY DEF Outcomes
  <2>3. /\ Good(l)
        /\ \A i \in Blocks : log.file[i] # <<>> /\ log.file[i][1].session = session =>
               l.file[i] = log.file[i]
    BY <1>0, <2>1, <2>2, FlushGood
  <2> HIDE DEF l
  <2>4. Good(log') /\ log'.file = l.file
    BY <1>0, <2>1, <2>3, EnterGood
  <2> QED BY <1>2, <2>1, <2>3, <2>4
<1>5. ASSUME NEW ok \in Outcomes, Checkpoint(ok) PROVE IndInv' /\ Kept
  <2>1. /\ log' = Flush(log, ok)
        /\ session' = session /\ running' = running /\ running /\ log.buf # <<>>
    BY <1>5 DEF Checkpoint
  <2>2. ok \in BOOLEAN
    BY DEF Outcomes
  <2>3. Good(log') /\ Kept
    BY <1>0, <2>1, <2>2, FlushGood
  <2> QED BY <1>2, <2>1, <2>3
<1>6. CASE Close \/ Crash \/ UNCHANGED vars
  <2>1. log' = log /\ session' = session /\ (running' => running)
    BY <1>6 DEF Close, Crash, vars
  <2> QED BY <2>1 DEF IndInv, Good
<1> QED BY <1>1, <1>3, <1>4, <1>5, <1>6 DEF Next

(* Every block that begins with a record of this process lies before the   *)
(* offset, at every step (journal.cpp:54-86).                              *)
THEOREM Invariance == Spec => []IndInv
<1>1. Init => IndInv
  <2> SUFFICES ASSUME Init PROVE IndInv
    OBVIOUS
  <2>1. /\ log.file = [i \in Blocks |-> <<>>] /\ log.pos = 1 /\ log.buf = <<>> /\ log.seq = 0
        /\ IsLog(log) /\ session = 0 /\ running = FALSE
    BY DEF Init, IsLog
  <2> QED BY <2>1 DEF IndInv, Good
<1>2. IndInv /\ [Next]_vars => IndInv'
  BY StepKeeps
<1> QED BY <1>1, <1>2, PTL DEF Spec

(* A block that a process has written stays as it is while the process     *)
(* lives, whatever fails (journal.cpp:70-86).                              *)
THEOREM NeverOverwritten == Spec => WrittenOnce
<1>1. ASSUME IndInv, [Next]_vars
      PROVE  [\A i \in Blocks :
                 (log.file[i] # <<>> /\ log.file[i][1].session = session' /\ session = session') =>
                     log'.file[i] = log.file[i]]_vars
  BY <1>1, StepKeeps
<1> QED BY <1>1, Invariance, PTL DEF Spec, WrittenOnce

-----------------------------------------------------------------------------
(* The records: what the buffer holds, in which order they lie in the file,*)
(* and which of them replay returns.                                       *)

Before(r, s) == \/ r.session > s.session
                \/ r.session = s.session /\ r.seq < s.seq
ReplayOrder == {p \in Records \X Records : Before(p[1], p[2])}

(* From the first block to the last: the blocks before the offset are this *)
(* process's, in the order it wrote them; those behind are older, the later*)
(* process first; and the buffer comes after what this process has written.*)
Arranged(l) ==
    /\ \A i \in Blocks : i < l.pos => l.file[i] # <<>>
    /\ \A i \in Blocks : \A r \in Range(l.file[i]) :
           /\ r.session <= session /\ (r.session = session <=> i < l.pos)
           /\ i < l.pos => r.seq < l.seq /\ \A b \in Range(l.buf) : r.seq < b.seq
    /\ \A b \in Range(l.buf) : b.session = session /\ b.seq < l.seq
    /\ Ordered(l.buf, ReplayOrder)
    /\ \A i \in Blocks : Ordered(l.file[i], ReplayOrder)
    /\ \A i, j \in Blocks : i < j =>
           \A x \in Range(l.file[i]), y \in Range(l.file[j]) : <<x, y>> \in ReplayOrder

(* a is what lies before the offset and in the buffer. *)
Holds(l, a) == a = Part(l.file, l.pos - 1) \o l.buf

LEMMA FileIsSeq ==
    ASSUME NEW f \in [Blocks -> Seq(Records)]
    PROVE  f \in Seq(Seq(Records)) /\ Len(f) = FileBlocks /\ FileBlocks \in Nat \ {0}
  BY DEF Blocks

LEMMA RecordLens ==
    /\ Header \in Nat
    /\ \A r \in Records : r.len \in Nat /\ Header + r.len \in Int
<1>1. \A n \in Lens : n \in Nat
  BY JournalAssumption DEF JournalAssumption
<1>2. \A r \in Records : r.len \in Lens
  BY DEF Records
<1>3. Header \in Nat /\ \A n \in Nat : Header + n \in Int
  BY DEF Header
<1> QED BY <1>1, <1>2, <1>3

LEMMA SizeOf ==
    /\ Size(<<>>) = 0
    /\ \A b \in Seq(Records), r \in Records :
           Size(b) \in Int /\ Size(Append(b, r)) = Size(b) + Header + r.len
<1>1. Size(<<>>) = 0
  <2> DEFINE f == [i \in DOMAIN <<>> |-> Header + <<>>[i].len]
  <2>1. DOMAIN f = {} /\ IsFiniteSet({}) /\ \A x \in {} : f[x] \in Int
    BY FS_EmptySet
  <2> HIDE DEF f
  <2>2. SumFunctionOnSet(f, {}) = 0
    BY <2>1, Sums
  <2> QED BY <2>1, <2>2 DEF Size, SumFunction, f
<1>2. ASSUME NEW b \in Seq(Records), NEW r \in Records
      PROVE  Size(b) \in Int /\ Size(Append(b, r)) = Size(b) + Header + r.len
  <2> DEFINE c == Append(b, r)
             n == Len(b)
             f == [i \in DOMAIN b |-> Header + b[i].len]
             g == [i \in DOMAIN c |-> Header + c[i].len]
  <2>1. /\ n \in Nat /\ DOMAIN b = 1 .. n /\ DOMAIN c = 1 .. n + 1
        /\ \A i \in 1 .. n : b[i] \in Records /\ c[i] = b[i]
        /\ c[n + 1] = r
    OBVIOUS
  <2>2. \A s \in Records : Header + s.len \in Int
    BY RecordLens
  <2> HIDE DEF c
  <2>3. DOMAIN f = 1 .. n /\ DOMAIN g = (1 .. n) \cup {n + 1} /\ n + 1 \notin 1 .. n
    BY <2>1
  <2>4. /\ \A i \in 1 .. n : f[i] \in Int /\ g[i] = f[i]
        /\ g[n + 1] = Header + r.len /\ g[n + 1] \in Int
    BY <2>1, <2>2
  <2>5. IsFiniteSet(1 .. n)
    BY <2>1, FS_Interval
  <2> HIDE DEF f, g, n
  <2>6. /\ SumFunctionOnSet(f, 1 .. n) \in Int
        /\ SumFunctionOnSet(g, (1 .. n) \cup {n + 1}) = SumFunctionOnSet(f, 1 .. n) + g[n + 1]
    <3> DEFINE R == 1 .. n
               x == n + 1
    <3>1. IsFiniteSet(R) /\ x \notin R /\ g[x] \in Int
      BY <2>3, <2>4, <2>5
    <3>2. \A y \in R : f[y] \in Int /\ g[y] = f[y]
      BY <2>4
    <3> HIDE DEF R, x
    <3>3. /\ SumFunctionOnSet(f, R) \in Int
          /\ SumFunctionOnSet(g, R \cup {x}) = SumFunctionOnSet(f, R) + g[x]
      BY <3>1, <3>2, SumWithOne
    <3> QED BY <3>3 DEF R, x
  <2>7. Size(b) = SumFunctionOnSet(f, 1 .. n)
    BY <2>3 DEF Size, SumFunction, f
  <2>8. Size(c) = SumFunctionOnSet(g, (1 .. n) \cup {n + 1})
    BY <2>3 DEF Size, SumFunction, g
  <2>9. r.len \in Int /\ Header \in Int
    BY RecordLens
  <2> QED BY <2>4, <2>6, <2>7, <2>8, <2>9 DEF c
<1> QED BY <1>1, <1>2

(* Flush, block by block. *)
LEMMA FlushBlocks ==
    ASSUME NEW l, Good(l), l.pos \in Blocks, NEW ok \in BOOLEAN
    PROVE  /\ Flush(l, ok).buf = <<>> /\ Flush(l, ok).seq = l.seq
           /\ Flush(l, ok).pos = IF ok THEN l.pos + 1 ELSE l.pos
           /\ Flush(l, ok).file \in [Blocks -> Seq(Records)]
           /\ \A i \in Blocks :
                  Flush(l, ok).file[i] = IF ok /\ i = l.pos THEN l.buf ELSE l.file[i]
<1> DEFINE new == Flush(l, ok)
<1>1. /\ new.buf = <<>> /\ new.seq = l.seq
      /\ ok => new.file = [l.file EXCEPT ![l.pos] = l.buf] /\ new.pos = l.pos + 1
      /\ ~ ok => new.file = [l.file EXCEPT ![l.pos] = @] /\ new.pos = l.pos
  BY FlushFields DEF Good
<1>2. l.file \in [Blocks -> Seq(Records)] /\ l.buf \in Seq(Records)
  BY DEF Good
<1> HIDE DEF new
<1>3. CASE ok
  <2>1. new.file = [l.file EXCEPT ![l.pos] = l.buf] /\ new.pos = l.pos + 1
    BY <1>1, <1>3
  <2>2. new.file \in [Blocks -> Seq(Records)]
    BY <1>2, <2>1
  <2>3. \A i \in Blocks : new.file[i] = IF i = l.pos THEN l.buf ELSE l.file[i]
    BY <1>2, <2>1
  <2> QED BY <1>1, <1>3, <2>1, <2>2, <2>3 DEF new
<1>4. CASE ~ ok
  <2>1. new.file = l.file /\ new.pos = l.pos
    BY <1>1, <1>2, <1>4
  <2> QED BY <1>1, <1>2, <1>4, <2>1 DEF new
<1> QED BY <1>3, <1>4

LEMMA FlushArranged ==
    ASSUME NEW l, Good(l), Arranged(l), l.pos \in Blocks, l.buf # <<>>,
           session \in Nat, NEW ok \in BOOLEAN
    PROVE  Arranged(Flush(l, ok))
<1> DEFINE new == Flush(l, ok)
<1>1. /\ new.buf = <<>> /\ new.seq = l.seq
      /\ new.pos = IF ok THEN l.pos + 1 ELSE l.pos
      /\ new.file \in [Blocks -> Seq(Records)]
      /\ \A i \in Blocks : new.file[i] = IF ok /\ i = l.pos THEN l.buf ELSE l.file[i]
  BY FlushBlocks
<1>2. l.pos \in Nat /\ \A i \in Blocks : i \in Nat
  BY DEF Good, Blocks
<1>3. Range(new.buf) = {} /\ Ordered(new.buf, ReplayOrder)
  BY <1>1 DEF Range, Ordered
<1> HIDE DEF new
<1>4. \A i \in Blocks : \/ /\ new.file[i] = l.file[i]
                           /\ i < new.pos <=> i < l.pos
                        \/ /\ new.file[i] = l.buf /\ i = l.pos /\ i < new.pos
  <2> TAKE i \in Blocks
  <2>1. i \in Nat /\ l.pos \in Nat
    BY <1>2
  <2>2. CASE ok /\ i = l.pos
    <3>1. i < l.pos + 1
      BY <2>1, <2>2
    <3> QED BY <1>1, <2>2, <3>1
  <2>3. CASE ~ (ok /\ i = l.pos)
    <3>1. ok => (i < l.pos + 1 <=> i < l.pos)
      BY <2>1, <2>3
    <3> QED BY <1>1, <2>3, <3>1
  <2> QED BY <2>2, <2>3
<1>5. \A i \in Blocks : i < new.pos => new.file[i] # <<>>
  BY <1>4 DEF Arranged
<1>6. \A i \in Blocks : \A r \in Range(new.file[i]) :
          /\ r.session <= session /\ (r.session = session <=> i < new.pos)
          /\ i < new.pos => r.seq < l.seq
  <2> TAKE i \in Blocks
  <2>1. CASE new.file[i] = l.file[i] /\ (i < new.pos <=> i < l.pos)
    BY <2>1 DEF Arranged
  <2>2. CASE new.file[i] = l.buf /\ i < new.pos
    <3>1. \A b \in Range(l.buf) : b.session = session /\ b.seq < l.seq
      BY DEF Arranged
    <3>2. session <= session
      OBVIOUS
    <3> QED BY <2>2, <3>1, <3>2
  <2> QED BY <1>4, <2>1, <2>2
<1>7. \A i \in Blocks : Ordered(new.file[i], ReplayOrder)
  BY <1>4 DEF Arranged
<1>8. \A i \in Blocks : \A x \in Range(l.file[i]) : x \in Records
  BY DEF Good, Range
<1>9. \A x \in Range(l.buf) : x \in Records
  BY DEF Good, Range
<1>10. ASSUME NEW i \in Blocks, NEW j \in Blocks, i < j,
              NEW x \in Range(new.file[i]), NEW y \in Range(new.file[j])
       PROVE  <<x, y>> \in ReplayOrder
  <2>1. CASE new.file[i] = l.file[i] /\ new.file[j] = l.file[j]
    BY <1>10, <2>1 DEF Arranged
  <2>2. CASE new.file[i] = l.file[i] /\ new.file[j] = l.buf /\ j = l.pos
    <3>1. i < l.pos
      BY <1>10, <2>2
    <3>2. x.session = session /\ x.seq < y.seq /\ y.session = session
      BY <2>2, <3>1 DEF Arranged
    <3> QED BY <1>8, <1>9, <2>2, <3>2 DEF ReplayOrder, Before
  <2>3. CASE new.file[i] = l.buf /\ i = l.pos /\ new.file[j] = l.file[j]
    <3>1. ~ (j < l.pos)
      BY <1>2, <1>10, <2>3
    <3>2. x.session = session /\ y.session <= session /\ y.session # session
      BY <2>3, <3>1 DEF Arranged
    <3>3. x \in Records /\ y \in Records
      BY <1>8, <1>9, <2>3
    <3>4. y.session \in Int
      BY <3>3 DEF Records
    <3>5. y.session < session
      BY <3>2, <3>4
    <3> QED BY <3>2, <3>3, <3>4, <3>5 DEF ReplayOrder, Before
  <2>4. CASE i = l.pos /\ j = l.pos
    BY <1>2, <1>10, <2>4
  <2> QED BY <1>4, <2>1, <2>2, <2>3, <2>4
<1>11. Arranged(new)
  BY <1>1, <1>3, <1>5, <1>6, <1>7, <1>10 DEF Arranged
<1> QED BY <1>11 DEF new

LEMMA EnterArranged ==
    ASSUME NEW l, Good(l), Arranged(l), session \in 1 .. MaxSessions, NEW len \in Lens
    PROVE  Arranged(Enter(l, len))
<1> DEFINE new == Enter(l, len)
           r == [session |-> session, seq |-> l.seq, len |-> len]
<1>1. new.file = l.file /\ new.pos = l.pos /\ new.buf = Append(l.buf, r) /\ new.seq = l.seq + 1
  BY EnterFields DEF Good
<1>2. r \in Records /\ r.session = session /\ r.seq = l.seq /\ l.seq \in Nat
  BY DEF Records, Good
<1>3. l.file \in [Blocks -> Seq(Records)] /\ l.buf \in Seq(Records)
  BY DEF Good
<1> HIDE DEF new, r
<1>4. Range(new.buf) = Range(l.buf) \cup {r}
  BY <1>1, <1>2, <1>3, AppendedRange
<1>5. \A x \in Range(l.buf) : x \in Records /\ x.session = session /\ x.seq < l.seq /\ x.seq \in Nat
  <2>1. \A x \in Range(l.buf) : x \in Records
    BY <1>3 DEF Range
  <2> QED BY <2>1 DEF Arranged, Records
<1>6. \A b \in Range(new.buf) : b.session = session /\ b.seq < new.seq
  <2>1. \A k \in Nat : k < l.seq => k < l.seq + 1
    BY <1>2
  <2>2. l.seq < l.seq + 1
    BY <1>2
  <2> QED BY <1>1, <1>2, <1>4, <1>5, <2>1, <2>2
<1>7. ASSUME NEW i \in Blocks, NEW x \in Range(l.file[i])
      PROVE  /\ x.session <= session /\ (x.session = session <=> i < l.pos)
             /\ i < l.pos => x.seq < new.seq /\ \A b \in Range(new.buf) : x.seq < b.seq
  <2>1. x \in Records
    BY <1>3 DEF Range
  <2>2. x.seq \in Nat
    BY <2>1 DEF Records
  <2>3. /\ x.session <= session /\ (x.session = session <=> i < l.pos)
        /\ i < l.pos => x.seq < l.seq /\ \A b \in Range(l.buf) : x.seq < b.seq
    BY DEF Arranged
  <2>4. x.seq < l.seq => x.seq < l.seq + 1
    BY <1>2, <2>2
  <2> QED BY <1>1, <1>2, <1>4, <2>3, <2>4
<1>8. Ordered(new.buf, ReplayOrder)
  <2> DEFINE one == <<r>>
  <2>1. one \in Seq(Records) /\ Range(one) = {r} /\ Ordered(one, ReplayOrder)
    BY <1>2 DEF Range, Ordered
  <2>2. new.buf = l.buf \o one
    BY <1>1, <1>2, <1>3, AppendIsConcat
  <2> HIDE DEF one
  <2>3. \A x \in Range(l.buf), y \in Range(one) : <<x, y>> \in ReplayOrder
    BY <1>2, <1>5, <2>1 DEF ReplayOrder, Before
  <2>4. Ordered(l.buf, ReplayOrder)
    BY DEF Arranged
  <2> QED BY <1>3, <2>1, <2>2, <2>3, <2>4, ConcatOrdered
<1>9. Arranged(new)
  <2>1. /\ \A i \in Blocks : i < l.pos => l.file[i] # <<>>
        /\ \A i \in Blocks : Ordered(l.file[i], ReplayOrder)
        /\ \A i, j \in Blocks : i < j =>
               \A x \in Range(l.file[i]), y \in Range(l.file[j]) : <<x, y>> \in ReplayOrder
    BY DEF Arranged
  <2> QED BY <1>1, <1>6, <1>7, <1>8, <2>1 DEF Arranged
<1> QED BY <1>9 DEF new

LEMMA FlushHolds ==
    ASSUME NEW l, Good(l), l.pos \in Blocks, NEW a, Holds(l, a)
    PROVE  Holds(Flush(l, TRUE), a)
<1> DEFINE new == Flush(l, TRUE)
           n == l.pos
<1>1. /\ new.buf = <<>> /\ new.pos = n + 1
      /\ new.file \in [Blocks -> Seq(Records)]
      /\ \A i \in Blocks : new.file[i] = IF i = n THEN l.buf ELSE l.file[i]
  BY FlushBlocks
<1>2. l.file \in [Blocks -> Seq(Records)] /\ l.buf \in Seq(Records)
  BY DEF Good
<1> HIDE DEF new
<1>3. /\ l.file \in Seq(Seq(Records)) /\ Len(l.file) = FileBlocks
      /\ new.file \in Seq(Seq(Records)) /\ Len(new.file) = FileBlocks
  BY <1>1, <1>2, FileIsSeq
<1>4. /\ n \in 1 .. FileBlocks /\ FileBlocks \in Nat
      /\ n - 1 \in Nat /\ n - 1 <= FileBlocks /\ (n + 1) - 1 = n
      /\ \A i \in 1 .. n - 1 : i \in 1 .. FileBlocks /\ i # n
  BY <1>3 DEF Blocks
<1> HIDE DEF n
<1>5. \A i \in 1 .. n - 1 : new.file[i] = l.file[i]
  BY <1>1, <1>4 DEF Blocks
<1>6. Part(new.file, n - 1) = Part(l.file, n - 1)
  BY <1>3, <1>4, <1>5, PartsAgree
<1>7. Part(new.file, n) = Part(new.file, n - 1) \o new.file[n]
  BY <1>3, <1>4, Parts
<1>8. new.file[n] = l.buf
  BY <1>1, <1>4 DEF Blocks
<1>9. a = Part(l.file, n - 1) \o l.buf
  BY DEF Holds, n
<1>10. Part(new.file, new.pos - 1) = a
  BY <1>1, <1>4, <1>6, <1>7, <1>8, <1>9
<1>11. a \in Seq(Records)
  <2>1. n - 1 \in 0 .. Len(l.file)
    BY <1>3, <1>4
  <2>2. Part(l.file, n - 1) \in Seq(Records)
    BY <1>3, <2>1, Parts
  <2> QED BY <1>2, <1>9, <2>2, ConcatProperties
<1>12. a \o <<>> = a
  BY <1>11, ConcatEmptySeq
<1>13. Holds(new, a)
  BY <1>1, <1>10, <1>12 DEF Holds
<1> QED BY <1>13 DEF new

LEMMA EnterHolds ==
    ASSUME NEW l, Good(l), l.pos \in Blocks, session \in 1 .. MaxSessions, NEW len \in Lens,
           NEW a, Holds(l, a)
    PROVE  Holds(Enter(l, len), Append(a, Last(Enter(l, len).buf)))
<1> DEFINE new == Enter(l, len)
           r == [session |-> session, seq |-> l.seq, len |-> len]
           p == Part(l.file, l.pos - 1)
<1>1. new.file = l.file /\ new.pos = l.pos /\ new.buf = Append(l.buf, r)
  BY EnterFields DEF Good
<1>2. r \in Records
  BY DEF Records, Good
<1>3. l.file \in [Blocks -> Seq(Records)] /\ l.buf \in Seq(Records)
  BY DEF Good
<1>4. p \in Seq(Records)
  <2>1. l.file \in Seq(Seq(Records)) /\ Len(l.file) = FileBlocks /\ FileBlocks \in Nat
    BY <1>3, FileIsSeq
  <2>2. l.pos - 1 \in 0 .. Len(l.file)
    BY <2>1 DEF Blocks
  <2> QED BY <2>1, <2>2, Parts
<1>5. a = p \o l.buf
  BY DEF Holds
<1> HIDE DEF new, r, p
<1>6. new.buf \in Seq(Records) /\ new.buf[Len(new.buf)] = r
  BY <1>1, <1>2, <1>3
<1>7. a \in Seq(Records) /\ <<r>> \in Seq(Records)
  BY <1>2, <1>3, <1>4, <1>5, ConcatProperties
<1>8. Append(a, r) = a \o <<r>> /\ Append(l.buf, r) = l.buf \o <<r>>
  BY <1>2, <1>3, <1>7, AppendIsConcat
<1>9. (p \o l.buf) \o <<r>> = p \o (l.buf \o <<r>>)
  <2> DEFINE one == <<r>>
             b == l.buf
  <2>1. p \in Seq(Records) /\ b \in Seq(Records) /\ one \in Seq(Records)
    BY <1>3, <1>4, <1>7
  <2> HIDE DEF one, b
  <2>2. (p \o b) \o one = p \o (b \o one)
    BY <2>1, ConcatAssociative
  <2> QED BY <2>2 DEF one, b
<1>10. Append(a, r) = p \o new.buf
  BY <1>1, <1>5, <1>8, <1>9
<1>11. Part(new.file, new.pos - 1) = p
  BY <1>1 DEF p
<1> QED BY <1>6, <1>10, <1>11 DEF Holds, Last, new

-----------------------------------------------------------------------------
(* The invariant of the records, kept by each operation. *)
Stored(l, a, lost) ==
    /\ Good(l) /\ Arranged(l)
    /\ l.pos \in Blocks /\ Size(l.buf) <= BlockSize
    /\ a \in Seq(Records) /\ l.seq = Len(a) /\ Len(a) <= MaxRecords
    /\ lost \/ Holds(l, a)

StoreInv ==
    /\ session \in 0 .. MaxSessions /\ (running => session > 0)
    /\ running \in BOOLEAN /\ failed \in BOOLEAN
    /\ Stored(log, accepted, failed)

LEMMA FlushStored ==
    ASSUME NEW l, NEW a, NEW lost \in BOOLEAN, Stored(l, a, lost),
           l.buf # <<>>, l.pos < FileBlocks, session \in Nat, NEW ok \in BOOLEAN
    PROVE  Stored(Flush(l, ok), a, lost \/ ~ ok) /\ Size(Flush(l, ok).buf) = 0
<1> DEFINE new == Flush(l, ok)
<1>1. Good(l) /\ Arranged(l) /\ l.pos \in Blocks
  BY DEF Stored
<1>2. Good(new) /\ Arranged(new)
  BY <1>1, FlushGood, FlushArranged
<1>3. new.buf = <<>> /\ new.seq = l.seq /\ new.pos = IF ok THEN l.pos + 1 ELSE l.pos
  BY <1>1, FlushBlocks
<1>4. new.pos \in Blocks
  <2>1. l.pos \in Nat /\ FileBlocks \in Nat /\ l.pos >= 1
    BY <1>1, JournalAssumption DEF Blocks, JournalAssumption, Good
  <2>2. l.pos + 1 \in 1 .. FileBlocks
    BY <2>1
  <2> HIDE DEF new
  <2> QED BY <1>1, <1>3, <2>2 DEF Blocks
<1>5. Size(new.buf) = 0 /\ Size(new.buf) <= BlockSize
  <2>1. BlockSize \in Nat
    BY JournalAssumption DEF JournalAssumption
  <2> QED BY <1>3, <2>1, SizeOf
<1>6. ~ (lost \/ ~ ok) => Holds(new, a)
  <2> SUFFICES ASSUME ~ lost, ok PROVE Holds(new, a)
    OBVIOUS
  <2>1. ok = TRUE /\ Holds(l, a)
    BY DEF Stored
  <2> QED BY <1>1, <2>1, FlushHolds
<1> HIDE DEF new
<1>7. Stored(new, a, lost \/ ~ ok)
  BY <1>2, <1>3, <1>4, <1>5, <1>6 DEF Stored
<1> QED BY <1>5, <1>7 DEF new

LEMMA EnterStored ==
    ASSUME NEW l, NEW a, NEW lost \in BOOLEAN, Stored(l, a, lost),
           session \in 1 .. MaxSessions, NEW len \in Lens,
           Size(l.buf) + Header + len <= BlockSize, Len(a) < MaxRecords
    PROVE  Stored(Enter(l, len), Append(a, Last(Enter(l, len).buf)), lost)
<1> DEFINE new == Enter(l, len)
           r == [session |-> session, seq |-> l.seq, len |-> len]
           b == Append(a, Last(new.buf))
<1>1. Good(l) /\ Arranged(l) /\ l.pos \in Blocks /\ a \in Seq(Records) /\ l.seq = Len(a)
  BY DEF Stored
<1>2. Good(new) /\ Arranged(new)
  BY <1>1, EnterGood, EnterArranged
<1>3. /\ new.pos = l.pos /\ new.seq = l.seq + 1 /\ new.buf = Append(l.buf, r)
  BY <1>1, EnterFields DEF Good
<1>4. r \in Records /\ r.len = len /\ l.buf \in Seq(Records)
  BY <1>1 DEF Records, Good
<1>5. Size(new.buf) <= BlockSize
  BY <1>3, <1>4, SizeOf
<1>6. ~ lost => Holds(new, b)
  BY <1>1, EnterHolds DEF Stored
<1> HIDE DEF new, r
<1>7. Last(new.buf) = r
  BY <1>3, <1>4 DEF Last
<1>8. b \in Seq(Records) /\ Len(b) = Len(a) + 1
  BY <1>1, <1>4, <1>7
<1>9. Len(b) <= MaxRecords /\ new.seq = Len(b)
  <2>1. MaxRecords \in Nat /\ Len(a) \in Nat
    BY <1>1, JournalAssumption DEF JournalAssumption
  <2> QED BY <1>1, <1>3, <1>8, <2>1
<1> HIDE DEF b
<1>10. Stored(new, b, lost)
  BY <1>1, <1>2, <1>3, <1>5, <1>6, <1>8, <1>9 DEF Stored
<1> QED BY <1>10 DEF new, b

LEMMA InitStores == Init => StoreInv
<1> SUFFICES ASSUME Init PROVE StoreInv
  OBVIOUS
<1>1. /\ log.file = [i \in Blocks |-> <<>>] /\ log.pos = 1 /\ log.buf = <<>> /\ log.seq = 0
      /\ IsLog(log) /\ session = 0 /\ running = FALSE /\ accepted = <<>> /\ failed = FALSE
  BY DEF Init, IsLog
<1>2. log.file \in [Blocks -> Seq(Records)] /\ \A i \in Blocks : log.file[i] = <<>>
  BY <1>1
<1>3. Good(log)
  BY <1>1, <1>2 DEF Good
<1>4. Range(log.buf) = {} /\ \A i \in Blocks : Range(log.file[i]) = {}
  BY <1>1, <1>2 DEF Range
<1>5. Ordered(log.buf, ReplayOrder) /\ \A i \in Blocks : Ordered(log.file[i], ReplayOrder)
  BY <1>1, <1>2 DEF Ordered
<1>6. \A i \in Blocks : ~ (i < log.pos)
  BY <1>1 DEF Blocks
<1>7. Arranged(log)
  BY <1>4, <1>5, <1>6 DEF Arranged
<1>8. /\ BlockSize \in Nat /\ MaxRecords \in Nat /\ MaxSessions \in Nat
      /\ FileBlocks \in Nat \ {0}
  BY JournalAssumption DEF JournalAssumption
<1>9. Size(log.buf) <= BlockSize /\ log.pos \in Blocks
  BY <1>1, <1>8, SizeOf DEF Blocks
<1>10. Holds(log, accepted)
  <2>1. log.file \in Seq(Seq(Records))
    BY <1>2, FileIsSeq
  <2>2. Part(log.file, 0) = <<>>
    BY <2>1, Parts
  <2>3. log.pos - 1 = 0 /\ <<>> \o <<>> = <<>>
    BY <1>1
  <2> QED BY <1>1, <2>2, <2>3 DEF Holds
<1>11. accepted \in Seq(Records) /\ log.seq = Len(accepted) /\ Len(accepted) <= MaxRecords
  BY <1>1, <1>8
<1>12. Stored(log, accepted, failed)
  BY <1>3, <1>7, <1>9, <1>10, <1>11 DEF Stored
<1>13. session \in 0 .. MaxSessions
  BY <1>1, <1>8
<1>14. (running => session > 0) /\ running \in BOOLEAN /\ failed \in BOOLEAN
  BY <1>1
<1> QED BY <1>12, <1>13, <1>14 DEF StoreInv

(* A new process finds only older records.                                 *)
LEMMA OpenStores == ASSUME StoreInv, Open PROVE StoreInv'
<1> DEFINE l == [log EXCEPT !.pos = 1]
           m == [l EXCEPT !.buf = <<>>]
<1>1. /\ log' = [m EXCEPT !.seq = 0] /\ running' = TRUE /\ session' = session + 1
      /\ session < MaxSessions /\ accepted' = <<>> /\ failed' = FALSE
  <2>1. log' = [log EXCEPT !.pos = 1, !.buf = <<>>, !.seq = 0]
    BY DEF Open
  <2> QED BY <2>1 DEF Open
<1>2. l = [file |-> log.file, pos |-> 1, buf |-> log.buf, seq |-> log.seq]
  <2>1. IsLog(log)
    BY DEF StoreInv, Stored, Good
  <2> QED BY <2>1 DEF IsLog
<1> HIDE DEF l
<1>3. m = [file |-> log.file, pos |-> 1, buf |-> <<>>, seq |-> log.seq]
  BY <1>2
<1> HIDE DEF m
<1>4. log' = [file |-> log.file, pos |-> 1, buf |-> <<>>, seq |-> 0]
  BY <1>1, <1>3
<1>5. log'.file = log.file /\ log'.pos = 1 /\ log'.buf = <<>> /\ log'.seq = 0
  BY <1>4
<1>6. /\ session \in 0 .. MaxSessions /\ MaxSessions \in Nat
      /\ session' \in 0 .. MaxSessions /\ session' > 0
  BY <1>1, JournalAssumption DEF StoreInv, JournalAssumption
<1>7. log.file \in [Blocks -> Seq(Records)]
  BY DEF StoreInv, Stored, Good
<1>8. Good(log)'
  <2>1. IndInv
    BY DEF IndInv, StoreInv, Stored
  <2> QED BY <2>1, OpenKeeps DEF IndInv
<1>9. \A i \in Blocks : \A r \in Range(log.file[i]) :
          r.session <= session' /\ r.session # session'
  <2> TAKE i \in Blocks
  <2> TAKE r \in Range(log.file[i])
  <2>1. r \in Records
    BY <1>7 DEF Range
  <2>2. r.session \in Int /\ r.session <= session
    BY <2>1 DEF Records, StoreInv, Stored, Arranged
  <2> QED BY <1>1, <1>6, <2>2
<1>10. Range(log'.buf) = {} /\ Ordered(log'.buf, ReplayOrder)
  BY <1>5 DEF Range, Ordered
<1>11. \A i \in Blocks : ~ (i < log'.pos)
  BY <1>5 DEF Blocks
<1>12. /\ \A i \in Blocks : Ordered(log'.file[i], ReplayOrder)
       /\ \A i, j \in Blocks : i < j =>
              \A x \in Range(log'.file[i]), y \in Range(log'.file[j]) : <<x, y>> \in ReplayOrder
  BY <1>5 DEF StoreInv, Stored, Arranged
<1>13. Arranged(log)'
  BY <1>5, <1>9, <1>10, <1>11, <1>12 DEF Arranged
<1>14. BlockSize \in Nat /\ MaxRecords \in Nat /\ FileBlocks \in Nat \ {0}
  BY JournalAssumption DEF JournalAssumption
<1>15. Size(log'.buf) <= BlockSize /\ log'.pos \in Blocks
  BY <1>5, <1>14, SizeOf DEF Blocks
<1>16. Holds(log', accepted')
  <2>1. log.file \in Seq(Seq(Records))
    BY <1>7, FileIsSeq
  <2>2. Part(log.file, 0) = <<>>
    BY <2>1, Parts
  <2>3. log'.pos - 1 = 0 /\ <<>> \o <<>> = <<>>
    BY <1>5
  <2> QED BY <1>1, <1>5, <2>2, <2>3 DEF Holds
<1>17. accepted' \in Seq(Records) /\ log'.seq = Len(accepted') /\ Len(accepted') <= MaxRecords
  BY <1>1, <1>5, <1>14
<1>18. Stored(log, accepted, failed)'
  BY <1>8, <1>13, <1>15, <1>16, <1>17 DEF Stored
<1> QED BY <1>1, <1>6, <1>18 DEF StoreInv

LEMMA StepStores == ASSUME StoreInv, [Next]_vars PROVE StoreInv'
<1>0. /\ Stored(log, accepted, failed) /\ failed \in BOOLEAN /\ session \in Nat
      /\ running => session \in 1 .. MaxSessions
  BY JournalAssumption DEF StoreInv, JournalAssumption
<1>1. CASE Open
  BY <1>1, OpenStores
<1>2. ASSUME running, running' = running, session' = session,
             NEW lost \in BOOLEAN, failed' = lost, Stored(log', accepted', lost)
      PROVE  StoreInv'
  <2>1. Stored(log, accepted, failed)'
    BY <1>2 DEF Stored, Good, Arranged
  <2> QED BY <1>2, <2>1 DEF StoreInv
<1>3. ASSUME NEW len \in Lens, Write(len) PROVE StoreInv'
  <2>1. /\ log' = Enter(log, len) /\ accepted' = Append(accepted, Last(log'.buf))
        /\ session' = session /\ running' = running /\ running /\ failed' = failed
        /\ Size(log.buf) + Header + len <= BlockSize /\ Len(accepted) < MaxRecords
    BY <1>3 DEF Write, Fits
  <2>2. Stored(log', accepted', failed)
    BY <1>0, <2>1, EnterStored
  <2> QED BY <1>0, <1>2, <2>1, <2>2
<1>4. ASSUME NEW len \in Lens, NEW ok \in Outcomes, WriteFlush(len, ok) PROVE StoreInv'
  <2> DEFINE l == Flush(log, ok)
             lost == failed \/ ~ ok
  <2>1. /\ session' = session /\ running' = running /\ running /\ failed' = lost
        /\ Len(accepted) < MaxRecords /\ log.pos < FileBlocks /\ log.buf # <<>>
        /\ \/ log' = l /\ accepted' = accepted
           \/ /\ ~ (Header + len > BlockSize)
              /\ log' = Enter(l, len) /\ accepted' = Append(accepted, Last(log'.buf))
    BY <1>4 DEF WriteFlush
  <2>2. ok \in BOOLEAN
    BY DEF Outcomes
  <2>3. Stored(l, accepted, lost) /\ Size(l.buf) = 0
    BY <1>0, <2>1, <2>2, FlushStored
  <2>4. lost \in BOOLEAN
    BY <1>0
  <2> HIDE DEF l, lost
  <2>5. CASE log' = l /\ accepted' = accepted
    BY <1>2, <2>1, <2>3, <2>4, <2>5
  <2>6. CASE /\ ~ (Header + len > BlockSize)
             /\ log' = Enter(l, len) /\ accepted' = Append(accepted, Last(log'.buf))
    <3>1. Size(l.buf) + Header + len <= BlockSize
      <4>1. len \in Nat /\ BlockSize \in Nat /\ Header \in Nat
        BY JournalAssumption DEF JournalAssumption, Header
      <4> QED BY <2>3, <2>6, <4>1
    <3>2. Stored(log', accepted', lost)
      BY <1>0, <2>1, <2>3, <2>4, <2>6, <3>1, EnterStored
    <3> QED BY <1>2, <2>1, <2>4, <3>2
  <2> QED BY <2>1, <2>5, <2>6
<1>5. ASSUME NEW ok \in Outcomes, Checkpoint(ok) PROVE StoreInv'
  <2> DEFINE lost == failed \/ ~ ok
  <2>1. /\ session' = session /\ running' = running /\ running /\ failed' = lost
        /\ log' = Flush(log, ok) /\ accepted' = accepted
        /\ log.pos < FileBlocks /\ log.buf # <<>>
    BY <1>5 DEF Checkpoint
  <2>2. ok \in BOOLEAN
    BY DEF Outcomes
  <2>3. Stored(log', accepted', lost)
    BY <1>0, <2>1, <2>2, FlushStored
  <2>4. lost \in BOOLEAN
    BY <1>0
  <2> HIDE DEF lost
  <2> QED BY <1>2, <2>1, <2>3, <2>4
<1>6. CASE Close \/ Crash \/ UNCHANGED vars
  <2>0. running' = FALSE \/ running' = running
    BY <1>6 DEF Close, Crash, vars
  <2>1. log' = log /\ session' = session /\ accepted' = accepted /\ failed' = failed
    BY <1>6 DEF Close, Crash, vars
  <2>2. Stored(log, accepted, failed)'
    BY <1>0, <2>1 DEF Stored, Good, Arranged
  <2>3. (running' => session > 0) /\ running' \in BOOLEAN
    <3>1. CASE running' = FALSE
      BY <3>1
    <3>2. CASE running' = running
      BY <3>2 DEF StoreInv
    <3> QED BY <2>0, <3>1, <3>2
  <2> QED BY <2>1, <2>2, <2>3 DEF StoreInv
<1> QED BY <1>1, <1>3, <1>4, <1>5, <1>6 DEF Next

(* What the buffer and the file hold, and in which order, at every step    *)
(* (journal.cpp:54-86).                                                    *)
THEOREM StoreInvariance == Spec => []StoreInv
<1>1. Init => StoreInv
  BY InitStores
<1>2. StoreInv /\ [Next]_vars => StoreInv'
  BY StepStores
<1> QED BY <1>1, <1>2, PTL DEF Spec

(* The fields keep to their types, and the buffer never overflows, for any *)
(* block size and payload lengths (journal.cpp:54-61).                     *)
THEOREM TypeCorrect == Spec => []TypeOK
<1>1. StoreInv => TypeOK
  <2> SUFFICES ASSUME StoreInv PROVE TypeOK
    OBVIOUS
  <2>1. /\ log.seq = Len(accepted) /\ accepted \in Seq(Records) /\ Len(accepted) <= MaxRecords
        /\ MaxRecords \in Nat
    BY JournalAssumption DEF StoreInv, Stored, JournalAssumption
  <2>2. log.seq \in 0 .. MaxRecords
    BY <2>1
  <2> QED BY <2>2 DEF StoreInv, Stored, Good, TypeOK
<1> QED BY <1>1, StoreInvariance, PTL

-----------------------------------------------------------------------------
(* Replay: the blocks before the first that ends it, and that one's front. *)

LEMMA ReadableFront ==
    ASSUME NEW b \in Seq(Records)
    PROVE  /\ Readable(b) \in Seq(Records) /\ Len(Readable(b)) <= Len(b)
           /\ \A i \in 1 .. Len(Readable(b)) : Readable(b)[i] = b[i]
<1> DEFINE bad == {i \in DOMAIN b : b[i].len > MaxPayload}
           u == SubSeq(b, 1, Min(bad) - 1)
<1>1. Readable(b) = IF bad = {} THEN b ELSE u
  BY DEF Readable
<1>2. Len(b) \in Nat /\ DOMAIN b = 1 .. Len(b) /\ \A i \in 1 .. Len(b) : b[i] \in Records
  OBVIOUS
<1>3. CASE bad = {}
  <2>1. Readable(b) = b
    BY <1>1, <1>3
  <2> QED BY <1>2, <2>1
<1>4. CASE bad # {}
  <2>1. bad \subseteq Nat /\ bad \subseteq 1 .. Len(b)
    BY <1>2
  <2> DEFINE n == Min(bad) - 1
  <2>2. n \in Nat /\ n <= Len(b)
    <3>1. Min(bad) \in bad
      <4> HIDE DEF bad
      <4> QED BY <1>4, <2>1, MinIs
    <3>2. Min(bad) \in 1 .. Len(b)
      <4> HIDE DEF bad
      <4> QED BY <2>1, <3>1
    <3> HIDE DEF bad
    <3> QED BY <1>2, <3>2
  <2>3. /\ u \in Seq(Records) /\ Len(u) = (IF 1 <= n THEN n - 1 + 1 ELSE 0)
        /\ \A i \in 1 .. n - 1 + 1 : u[i] = b[1 + i - 1]
    <3> HIDE DEF bad
    <3> HIDE DEF n
    <3>1. /\ SubSeq(b, 1, n) \in Seq(Records)
          /\ Len(SubSeq(b, 1, n)) = (IF 1 <= n THEN n - 1 + 1 ELSE 0)
          /\ \A i \in 1 .. n - 1 + 1 : SubSeq(b, 1, n)[i] = b[1 + i - 1]
      <4>1. \A i \in 1 .. n : b[i] \in Records
        BY <1>2, <2>2
      <4> QED BY <2>2, <4>1, SubSeqProperties
    <3> QED BY <3>1 DEF n
  <2>4. Readable(b) = u
    BY <1>1, <1>4
  <2> HIDE DEF u, n
  <2>5. Len(u) = n /\ \A i \in 1 .. n : i \in 1 .. n - 1 + 1 /\ 1 + i - 1 = i
    BY <2>2, <2>3
  <2>6. \A i \in 1 .. n : u[i] = b[i]
    BY <2>3, <2>5
  <2> QED BY <2>2, <2>3, <2>4, <2>5, <2>6
<1> QED BY <1>3, <1>4

(* rs are the first n blocks of the file and the front of the next. *)
Reads(rs, file, n) ==
    \E t \in Seq(Records) :
        /\ rs = Part(file, n) \o t
        /\ t # <<>> => n + 1 \in Blocks /\ t = Readable(file[n + 1])

LEMMA ReplayReads ==
    ASSUME NEW file \in [Blocks -> Seq(Records)]
    PROVE  \E n \in 0 .. FileBlocks :
               /\ Reads(Replay(file), file, n)
               /\ n = FileBlocks \/ n + 1 \in Ends(file)
<1> DEFINE ends == Ends(file)
           m == Min(ends)
<1>1. /\ file \in Seq(Seq(Records)) /\ Len(file) = FileBlocks /\ FileBlocks \in Nat
  BY FileIsSeq
<1>2. ends \subseteq 1 .. FileBlocks /\ ends \subseteq Nat
  <2>1. ends \subseteq Blocks
    BY DEF Ends
  <2> QED BY <2>1 DEF Blocks
<1>3. Replay(file) = IF ends = {} THEN FlattenSeq(file)
                     ELSE FlattenSeq(SubSeq(file, 1, m - 1)) \o Readable(file[m])
  BY DEF Replay
<1> HIDE DEF ends, m
<1>4. CASE ends = {}
  <2>1. Replay(file) = Part(file, FileBlocks) /\ Part(file, FileBlocks) \in Seq(Records)
    <3>1. FileBlocks \in 0 .. Len(file)
      BY <1>1
    <3> QED BY <1>1, <1>3, <1>4, <3>1, Parts
  <2>2. Replay(file) = Part(file, FileBlocks) \o <<>> /\ <<>> \in Seq(Records)
    <3>1. Part(file, FileBlocks) \o <<>> = Part(file, FileBlocks)
      BY <2>1, ConcatEmptySeq
    <3> QED BY <2>1, <3>1
  <2>3. Reads(Replay(file), file, FileBlocks)
    BY <2>2 DEF Reads
  <2>4. FileBlocks \in 0 .. FileBlocks
    BY <1>1
  <2> QED BY <2>3, <2>4
<1>5. CASE ends # {}
  <2>1. m \in ends /\ m \in 1 .. FileBlocks
    BY <1>2, <1>5, MinIs DEF m
  <2>2. m - 1 \in 0 .. FileBlocks /\ (m - 1) + 1 = m /\ m \in Blocks
    BY <1>1, <2>1 DEF Blocks
  <2>3. Replay(file) = Part(file, m - 1) \o Readable(file[m])
    BY <1>3, <1>5 DEF Part
  <2>4. Readable(file[m]) \in Seq(Records)
    BY <2>2, ReadableFront
  <2>5. Reads(Replay(file), file, m - 1)
    BY <2>2, <2>3, <2>4 DEF Reads
  <2> QED BY <2>1, <2>2, <2>5 DEF ends
<1> QED BY <1>4, <1>5

LEMMA ReplayIsOrdered ==
    ASSUME NEW file \in [Blocks -> Seq(Records)], NEW r,
           \A i \in Blocks : Ordered(file[i], r),
           \A i, j \in Blocks : i < j =>
               \A x \in Range(file[i]), y \in Range(file[j]) : <<x, y>> \in r
    PROVE  Ordered(Replay(file), r) /\ Replay(file) \in Seq(Records)
<1>1. PICK n \in 0 .. FileBlocks : Reads(Replay(file), file, n)
  BY ReplayReads
<1>2. PICK t \in Seq(Records) :
          /\ Replay(file) = Part(file, n) \o t
          /\ t # <<>> => n + 1 \in Blocks /\ t = Readable(file[n + 1])
  BY <1>1 DEF Reads
<1>3. file \in Seq(Seq(Records)) /\ Len(file) = FileBlocks /\ FileBlocks \in Nat
  BY FileIsSeq
<1>4. n \in 0 .. Len(file) /\ \A i \in 1 .. n : i \in Blocks /\ i < n + 1
  BY <1>3 DEF Blocks
<1>5. Part(file, n) \in Seq(Records)
  BY <1>3, <1>4, Parts
<1>6. Range(Part(file, n)) = UNION {Range(file[i]) : i \in 1 .. n}
  BY <1>3, <1>4, PartRange
<1>7. Ordered(Part(file, n), r)
  BY <1>3, <1>4, PartOrdered
<1>8. Ordered(t, r) /\ \A x \in Range(Part(file, n)), y \in Range(t) : <<x, y>> \in r
  <2>1. CASE t = <<>>
    BY <2>1 DEF Ordered, Range
  <2>2. CASE t # <<>>
    <3> DEFINE b == file[n + 1]
    <3>1. n + 1 \in Blocks /\ t = Readable(b) /\ b \in Seq(Records)
      BY <1>2, <2>2
    <3> HIDE DEF b
    <3>2. /\ Len(t) <= Len(b) /\ Len(t) \in Nat /\ Len(b) \in Nat
          /\ DOMAIN t = 1 .. Len(t) /\ DOMAIN b = 1 .. Len(b)
          /\ \A i \in 1 .. Len(t) : t[i] = b[i]
      BY <3>1, ReadableFront
    <3>3. \A i \in 1 .. Len(t) : i \in 1 .. Len(b)
      BY <3>2
    <3>4. Ordered(b, r)
      BY <3>1 DEF b
    <3>5. Ordered(t, r)
      BY <3>2, <3>3, <3>4 DEF Ordered
    <3>6. \A y \in Range(t) : y \in Range(b)
      BY <3>2, <3>3 DEF Range
    <3>7. \A i \in 1 .. n : \A x \in Range(file[i]), y \in Range(b) : <<x, y>> \in r
      BY <1>4, <3>1 DEF b
    <3> QED BY <1>6, <3>5, <3>6, <3>7
  <2> QED BY <2>1, <2>2
<1>9. Ordered(Part(file, n) \o t, r)
  BY <1>5, <1>7, <1>8, ConcatOrdered
<1>10. Part(file, n) \o t \in Seq(Records)
  BY <1>5, ConcatProperties
<1> QED BY <1>2, <1>9, <1>10

(* Replay never repeats or reorders what one process wrote, for any file   *)
(* and however many processes wrote to it, even if blocks were lost        *)
(* (journal.cpp:34, 80-82).                                                *)
THEOREM ReplayInOrder == Spec => []ReplayOrdered
<1>1. StoreInv => ReplayOrdered
  <2> SUFFICES ASSUME StoreInv PROVE ReplayOrdered
    OBVIOUS
  <2> DEFINE rs == Replay(log.file)
  <2>1. /\ log.file \in [Blocks -> Seq(Records)]
        /\ \A i \in Blocks : Ordered(log.file[i], ReplayOrder)
        /\ \A i, j \in Blocks : i < j =>
               \A x \in Range(log.file[i]), y \in Range(log.file[j]) : <<x, y>> \in ReplayOrder
    BY DEF StoreInv, Stored, Good, Arranged
  <2>2. Ordered(rs, ReplayOrder)
    BY <2>1, ReplayIsOrdered
  <2> HIDE DEF rs
  <2>3. \A i, j \in DOMAIN rs : i < j => Before(rs[i], rs[j])
    BY <2>2 DEF Ordered, ReplayOrder
  <2> QED BY <2>3 DEF ReplayOrdered, Before, rs
<1> QED BY <1>1, StoreInvariance, PTL

(* Replay begins with all that this process has written to the file, up to *)
(* a crash at any point, unless a write failed or a payload was longer than*)
(* replay accepts (journal.cpp:54-61, 70-86, 103-137).                     *)
THEOREM WhatIsWrittenIsRead == Spec => []Durable
<1>1. StoreInv => Durable
  <2> DEFINE flushed == SubSeq(accepted, 1, Len(accepted) - Len(log.buf))
             file == log.file
             p == log.pos - 1
  <2> SUFFICES ASSUME StoreInv, ~ failed, \A r \in Range(flushed) : r.len <= MaxPayload
               PROVE  IsPrefix(flushed, Replay(file))
    BY DEF Durable
  <2>1. /\ file \in [Blocks -> Seq(Records)] /\ log.buf \in Seq(Records) /\ log.pos \in Blocks
        /\ accepted = Part(file, p) \o log.buf
        /\ \A i \in Blocks : i < log.pos => file[i] # <<>>
    BY DEF StoreInv, Stored, Good, Arranged, Holds
  <2>2. file \in Seq(Seq(Records)) /\ Len(file) = FileBlocks /\ FileBlocks \in Nat
    BY <2>1, FileIsSeq
  <2>3. /\ p \in 0 .. FileBlocks /\ log.pos \in Nat
        /\ \A i \in 1 .. p : i \in Blocks /\ i < log.pos
    BY <2>1, <2>2 DEF Blocks
  <2> HIDE DEF file, p
  <2>4. Part(file, p) \in Seq(Records)
    BY <2>2, <2>3, Parts
  <2>5. flushed = Part(file, p)
    BY <2>1, <2>4, FrontOfConcat
  <2> HIDE DEF flushed
  <2>6. ASSUME NEW i \in 1 .. p PROVE i \notin Ends(file)
    <3>1. Range(Part(file, p)) = UNION {Range(file[k]) : k \in 1 .. p}
      BY <2>2, <2>3, PartRange
    <3>2. \A r \in Range(file[i]) : r \in Records /\ r.len <= MaxPayload
      <4>1. \A r \in Range(file[i]) : r \in Range(flushed)
        BY <2>5, <3>1
      <4>2. \A r \in Range(file[i]) : r \in Records
        <5>1. file[i] \in Seq(Records)
          BY <2>1, <2>3
        <5> QED BY <5>1, RangeFinite
      <4> QED BY <4>1, <4>2
    <3>3. \A r \in Range(file[i]) : ~ (r.len > MaxPayload)
      <4>1. MaxPayload \in Nat
        BY JournalAssumption DEF JournalAssumption
      <4> QED BY <3>2, <4>1, RecordLens
    <3>4. file[i] # <<>>
      BY <2>1, <2>3
    <3> QED BY <3>3, <3>4 DEF Ends
  <2>7. PICK n \in 0 .. FileBlocks :
            /\ Reads(Replay(file), file, n)
            /\ n = FileBlocks \/ n + 1 \in Ends(file)
    BY <2>1, ReplayReads
  <2>8. p <= n
    <3>1. \A i \in 1 .. p : i # n + 1 \/ n = FileBlocks
      BY <2>6, <2>7
    <3> QED BY <2>2, <2>3, <2>7, <3>1
  <2>9. n \in p .. Len(file) /\ n \in 0 .. Len(file) /\ p \in 0 .. Len(file)
    BY <2>2, <2>3, <2>7, <2>8
  <2>10. IsPrefix(Part(file, p), Part(file, n)) /\ Part(file, n) \in Seq(Records)
    BY <2>2, <2>9, PartsGrow, Parts
  <2>11. PICK t \in Seq(Records) : Replay(file) = Part(file, n) \o t
    BY <2>7 DEF Reads
  <2>12. IsPrefix(Part(file, n), Replay(file)) /\ Replay(file) \in Seq(Records)
    BY <2>10, <2>11, FrontOfConcat, ConcatProperties
  <2>13. IsPrefix(Part(file, p), Replay(file))
    BY <2>4, <2>10, <2>12, PrefixTransitive
  <2> QED BY <2>5, <2>13
<1> QED BY <1>1, StoreInvariance, PTL
=============================================================================
