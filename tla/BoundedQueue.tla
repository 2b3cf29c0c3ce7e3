---------------------------- MODULE BoundedQueue ----------------------------
(***************************************************************************)
(* What core::RingBuffer promises its two callers: a FIFO queue of at most *)
(* Capacity items.  A push appends at the back, a pop takes the front and  *)
(* hands it to the caller, whose last item is "popped".  RingBuffer.tla    *)
(* implements this specification.                                          *)
(***************************************************************************)
EXTENDS Naturals, Sequences

CONSTANTS Items,     \* what can be queued
          NoItem,    \* what the consumer holds before its first pop
          Capacity   \* the template parameter of RingBuffer

VARIABLES queue, popped

vars == <<queue, popped>>

Init ==
    /\ queue = <<>>
    /\ popped = NoItem

(* push() returning true: include/core/ring_buffer.hpp:28-43 *)
Push(x) ==
    /\ Len(queue) < Capacity
    /\ queue' = Append(queue, x)
    /\ UNCHANGED popped

(* pop() returning true: include/core/ring_buffer.hpp:47-61 *)
Pop ==
    /\ queue # <<>>
    /\ popped' = Head(queue)
    /\ queue' = Tail(queue)

Next == (\E x \in Items : Push(x)) \/ Pop

Spec == Init /\ [][Next]_vars
=============================================================================
