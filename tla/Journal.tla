------------------------------- MODULE Journal ------------------------------
(***************************************************************************)
(* persistence::Journal (journal.cpp), the write-ahead log of the engine:  *)
(* records gather in a 4 KB buffer that is written to the file block by    *)
(* block, and replay() reads the file back.  The process may die between   *)
(* any two steps and be started again on the same file; a write() to the   *)
(* file may fail, which a release build (NDEBUG) does not notice.          *)
(*                                                                         *)
(* A record is its sequence number and payload length; session, which is   *)
(* not in the file, tells apart the processes that wrote it.  A block is   *)
(* the sequence of its records and the zeros that follow them, so an empty *)
(* block is one never written.  Lengths are in units of the header's size. *)
(***************************************************************************)
EXTENDS Naturals, SequencesExt

CONSTANTS Lens,           \* payload lengths that are written
          BlockSize,      \* BUFFER_SIZE
          MaxPayload,     \* the longest payload replay accepts, 1024 in the code
          FileBlocks,     \* bound: blocks written to the file at most
          MaxRecords,     \* bound: records of a session
          MaxSessions,    \* bound: times the process is started
          DiskMayFail     \* TRUE if ::write may return an error

ASSUME JournalAssumption ==
    /\ Lens \subseteq Nat \ {0}
    /\ BlockSize \in Nat /\ MaxPayload \in Nat
    /\ FileBlocks \in Nat \ {0} /\ MaxRecords \in Nat /\ MaxSessions \in Nat
    /\ DiskMayFail \in BOOLEAN

VARIABLES log,        \* the Journal object and its file
          running,    \* the process is alive and the journal open
          session,    \* processes started so far
          accepted,   \* the records this process has put in the buffer
          failed      \* a block of this process was lost

vars == <<log, running, session, accepted, failed>>

Header == 1    \* sizeof(JournalRecord)
Records == [session : 1 .. MaxSessions, seq : Nat, len : Lens]
Blocks == 1 .. FileBlocks

Size(records) == SumFunction([i \in DOMAIN records |-> Header + records[i].len])

-----------------------------------------------------------------------------
(* Journal::flush_buffer: the whole buffer to the next block, then zeros.  *)
(* A failed write leaves the file offset, and the records are gone.        *)

FlushInPlace(l, ok) ==                    (* faulty: the offset stays *)
    [l EXCEPT !.file[l.pos] = IF ok THEN l.buf ELSE @, !.buf = <<>>]

Flush(l, ok) ==
    [l EXCEPT !.file[l.pos] = IF ok THEN l.buf ELSE @,
              !.pos = IF ok THEN @ + 1 ELSE @,
              !.buf = <<>>]

FitsPayloadOnly(l, len) == Size(l.buf) + len <= BlockSize   (* faulty: no header *)
Fits(l, len) == Size(l.buf) + Header + len <= BlockSize

NextSeqInBlock(l) == Len(l.buf)           (* faulty: starts over in each block *)
NextSeq(l) == l.seq

Enter(l, len) ==
    [l EXCEPT !.buf = Append(@, [session |-> session, seq |-> NextSeq(l), len |-> len]),
              !.seq = @ + 1]

(* Journal::replay: block after block until one with no record; a payload  *)
(* that is too long ends it.                                               *)
Ends(file) == {i \in Blocks : file[i] = <<>> \/ \E r \in Range(file[i]) : r.len > MaxPayload}

Readable(block) ==
    LET bad == {i \in DOMAIN block : block[i].len > MaxPayload}
    IN  IF bad = {} THEN block ELSE SubSeq(block, 1, Min(bad) - 1)

ReplayStopsAtPadding(file) ==             (* faulty: padding ends the replay *)
    LET ends == Ends(file) \cup {i \in Blocks : Size(file[i]) < BlockSize}
    IN  IF ends = {} THEN FlattenSeq(file)
        ELSE FlattenSeq(SubSeq(file, 1, Min(ends) - 1)) \o Readable(file[Min(ends)])

Replay(file) ==
    LET ends == Ends(file)
    IN  IF ends = {} THEN FlattenSeq(file)
        ELSE FlattenSeq(SubSeq(file, 1, Min(ends) - 1)) \o Readable(file[Min(ends)])

-----------------------------------------------------------------------------
Outcomes == IF DiskMayFail THEN BOOLEAN ELSE {TRUE}

Init ==
    /\ log = [file |-> [i \in Blocks |-> <<>>], pos |-> 1, buf |-> <<>>, seq |-> 0]
    /\ running = FALSE /\ session = 0
    /\ accepted = <<>> /\ failed = FALSE

(* A new process: a new Journal object, and Journal::open, which neither   *)
(* truncates the file nor moves to its end (the branch for Linux).         *)
Open ==
    /\ ~ running /\ session < MaxSessions
    /\ log' = [log EXCEPT !.pos = 1, !.buf = <<>>, !.seq = 0]
    /\ running' = TRUE /\ session' = session + 1
    /\ accepted' = <<>> /\ failed' = FALSE

(* Journal::write of a record that fits in the buffer as it is.            *)
Write(len) ==
    /\ running /\ Len(accepted) < MaxRecords
    /\ Fits(log, len)
    /\ log' = Enter(log, len)
    /\ accepted' = Append(accepted, Last(log'.buf))
    /\ UNCHANGED <<running, session, failed>>

(* Journal::write of a record that does not: the buffer is flushed first,  *)
(* and a record larger than the buffer is dropped.                         *)
WriteFlush(len, ok) ==
    /\ running /\ Len(accepted) < MaxRecords /\ log.pos < FileBlocks
    /\ ~ Fits(log, len) /\ log.buf # <<>>
    /\ IF Header + len > BlockSize
       THEN log' = Flush(log, ok) /\ UNCHANGED accepted
       ELSE /\ log' = Enter(Flush(log, ok), len)
            /\ accepted' = Append(accepted, Last(log'.buf))
    /\ failed' = (failed \/ ~ ok)
    /\ UNCHANGED <<running, session>>

(* Journal::checkpoint *)
Checkpoint(ok) ==
    /\ running /\ log.buf # <<>> /\ log.pos < FileBlocks
    /\ log' = Flush(log, ok)
    /\ failed' = (failed \/ ~ ok)
    /\ UNCHANGED <<running, session, accepted>>

(* Journal::close, after its checkpoint. *)
Close ==
    /\ running /\ log.buf = <<>>
    /\ running' = FALSE
    /\ UNCHANGED <<log, session, accepted, failed>>

(* The process dies: the buffer is gone with it, and nothing looks at it   *)
(* until Open clears it.                                                   *)
Crash ==
    /\ running /\ log.buf # <<>>
    /\ running' = FALSE
    /\ UNCHANGED <<log, session, accepted, failed>>

Next ==
    \/ Open
    \/ \E len \in Lens : Write(len)
    \/ \E len \in Lens, ok \in Outcomes : WriteFlush(len, ok)
    \/ \E ok \in Outcomes : Checkpoint(ok)
    \/ Close
    \/ Crash

Spec == Init /\ [][Next]_vars

-----------------------------------------------------------------------------
(* The fields keep to their types, and the buffer never overflows          *)
(* (journal.cpp:54-61).                                                    *)
TypeOK ==
    /\ log.file \in [Blocks -> Seq(Records)]
    /\ log.pos \in Blocks /\ log.seq \in 0 .. MaxRecords
    /\ log.buf \in Seq(Records) /\ Size(log.buf) <= BlockSize
    /\ running \in BOOLEAN /\ failed \in BOOLEAN /\ session \in 0 .. MaxSessions

(* Whatever happens, up to a crash at any point, replay begins with all    *)
(* that this process put in its journal, in order and once each, but for   *)
(* what is in the buffer (journal.cpp:54-61, 70-86, 103-137): unless a     *)
(* write failed, or a payload was longer than replay accepts.              *)
Durable ==
    LET flushed == SubSeq(accepted, 1, Len(accepted) - Len(log.buf))
    IN  (~ failed /\ \A r \in Range(flushed) : r.len <= MaxPayload) =>
            IsPrefix(flushed, Replay(log.file))

(* Replay never repeats or reorders what one process wrote, even if a block*)
(* was lost, and stale records of an earlier process come after those of a *)
(* later one (journal.cpp:34, 80-82).                                      *)
ReplayOrdered ==
    LET records == Replay(log.file)
    IN  \A i, j \in DOMAIN records :
            i < j => \/ records[i].session > records[j].session
                     \/ /\ records[i].session = records[j].session
                        /\ records[i].seq < records[j].seq

(* A block that a process has written stays as it is while the process     *)
(* lives, whatever fails (journal.cpp:70-86).                              *)
WrittenOnce ==
    [][\A i \in Blocks :
           (log.file[i] # <<>> /\ log.file[i][1].session = session' /\ session = session') =>
               log'.file[i] = log.file[i]]_vars
=============================================================================
