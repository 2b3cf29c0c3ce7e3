------------------------------ MODULE OrderEntry ----------------------------
(***************************************************************************)
(* Engine::recv_loop (engine.cpp) and net::Codec::decode (codec.hpp): order*)
(* entry over TCP.  A client writes one message after another into a stream*)
(* of bytes, and the thread takes what one recv() returns for one message: *)
(* it decodes the start of its buffer, pushes the order, and forgets the   *)
(* rest of what it has read.                                               *)
(*                                                                         *)
(* The stream is counted in parts, Parts to a message, so that a message   *)
(* may arrive in pieces and several may arrive at once.  A buffer that does*)
(* not start with a message has bytes of its middle where the length and   *)
(* the checksum should be.  They may be anything: decode rejects them, the *)
(* checksum being trusted to tell, unless the length is below 4, for which *)
(* it is computed over a length that has wrapped and the process fails.    *)
(***************************************************************************)
EXTENDS Integers, Sequences

CONSTANTS Parts,         \* of a message, 33 bytes in the code
          BufParts,      \* parts that the buffer has room for, 1024 bytes in the code
          MaxMessages,   \* bound: messages sent
          PoolSize,      \* of the pool; two threads use it, for which see Engine
          NoMessage

ASSUME EntryAssumption ==
    /\ Parts \in Nat \ {0} /\ BufParts \in Nat \ {0}
    /\ MaxMessages \in Nat /\ PoolSize \in Nat
    /\ NoMessage \notin 1 .. MaxMessages

VARIABLES sent,          \* parts that clients have written
          read,          \* parts that recv has returned, or that were lost on the way
          order,         \* the order being pushed, or NoMessage
          leaked,        \* pool slots that recv_loop holds
          resting,       \* pool slots of orders in the book
          failed,        \* the process has failed
          whole          \* every recv so far was one message, for which there was a slot

entry == <<sent, read, order, leaked, resting, failed, whole>>

EntryInit ==
    /\ sent = 0 /\ read = 0
    /\ order = NoMessage
    /\ leaked = 0 /\ resting = 0
    /\ failed = FALSE /\ whole = TRUE

-----------------------------------------------------------------------------
Exhausted == leaked + resting >= PoolSize

AtStart == read % Parts = 0
Message(part) == part \div Parts + 1

(* What decode may make of a buffer of k parts. *)
DecodeUnchecked(k) ==                         (* faulty: len < msg_len not tested *)
    IF AtStart THEN {"order"} ELSE {"rejected", "failure"}
Decode(k) ==
    IF AtStart THEN (IF k >= Parts THEN {"order"} ELSE {"rejected"})
    ELSE {"rejected", "failure"}

(* A client writes part of a message; a message is not begun beyond the    *)
(* bound.                                                                  *)
ClientSends ==
    /\ sent < Parts * MaxMessages /\ ~ failed
    /\ sent' = sent + 1
    /\ UNCHANGED <<read, order, leaked, resting, failed, whole>>

(* recv returns k parts, and decode is given them with a slot of the pool. *)
(* A rejected buffer gives the slot back, an order keeps it for ever.      *)
Recv(k) ==
    /\ ~ failed /\ order = NoMessage
    /\ read + k <= sent
    /\ read' = read + k
    /\ whole' = (whole /\ AtStart /\ k = Parts /\ ~ Exhausted)
    /\ IF Exhausted
       THEN UNCHANGED <<order, leaked, failed>>
       ELSE \E outcome \in Decode(k) :
                /\ order' = IF outcome = "order" THEN Message(read) ELSE NoMessage
                /\ leaked' = IF outcome = "order" THEN leaked + 1 ELSE leaked
                /\ failed' = (outcome = "failure")
    /\ UNCHANGED <<sent, resting>>

(* The client has gone (recv returns 0), with what it had not finished, or *)
(* with what the thread had not read; another client starts a message.     *)
Reconnect ==
    /\ ~ failed /\ order = NoMessage
    /\ read < sent \/ ~ AtStart
    /\ sent' = Parts * ((sent + Parts - 1) \div Parts) /\ read' = sent'
    /\ whole' = FALSE
    /\ UNCHANGED <<order, leaked, resting, failed>>

(* The push has found room. *)
EntryPushed ==
    /\ ~ failed /\ order # NoMessage /\ order' = NoMessage
    /\ UNCHANGED <<sent, read, leaked, resting, failed, whole>>
=============================================================================
