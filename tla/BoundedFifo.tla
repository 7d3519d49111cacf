---------------------------- MODULE BoundedFifo ----------------------------
(***************************************************************************)
(* What buffer.h promises of a cBuffer: "The buffers are designed for FIFO *)
(* operation (first in, first out)", with a fixed maximum size.  The ring  *)
(* of buffer.c (module ByteBuffer) is shown to implement this module; the     *)
(* SPI link (module SpiLink) uses such queues, through the operators of    *)
(* module Buffers, for the two message buffers of the shield.              *)
(***************************************************************************)
EXTENDS Buffers

CONSTANTS Byte,   \* the bytes that can be stored
          Size,   \* the capacity given to bufferInit
          Counts, \* the counts and offsets a caller can pass
          Ok      \* what bufferAddToEnd returns when it stored the byte

VARIABLES queue,  \* the bytes held, oldest first
          ret     \* what the latest call returned

fifoVars == <<queue, ret>>

----------------------------------------------------------------------------
Init == queue = <<>> /\ ret = 0

\* The oldest byte leaves; an empty buffer answers 0 and stays empty.
Get ==
  \/ /\ queue # <<>>
     /\ ret' = queue[1]
     /\ queue' = SubSeq(queue, 2, Len(queue))
  \/ /\ queue = <<>>
     /\ ret' = 0
     /\ UNCHANGED queue

\* A byte joins at the end, or is refused by a full buffer.
Add(b) ==
  /\ queue' = Appended(queue, b, Size)
  /\ ret' = IF HasRoom(queue, Size) THEN Ok ELSE 0

\* The n oldest bytes leave, or all of them.
Dump(n) == queue' = Dumped(queue, n) /\ UNCHANGED ret

\* The byte at offset i is shown; beyond the end, any byte.
Peek(i) ==
  /\ UNCHANGED queue
  /\ IF i < Len(queue) THEN ret' = queue[i + 1] ELSE ret' \in Byte

Room == ret' = Size - Len(queue) /\ UNCHANGED queue

Flush == queue' = <<>> /\ UNCHANGED ret

Next ==
  \/ Get
  \/ \E b \in Byte : Add(b)
  \/ \E n \in Counts : Dump(n) \/ Peek(n)
  \/ Room
  \/ Flush

Spec == Init /\ [][Next]_fifoVars
============================================================================
