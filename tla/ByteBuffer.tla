----------------------------- MODULE ByteBuffer -----------------------------
(***************************************************************************)
(* The circular byte buffer of the AVR sketches                            *)
(* (examples/Dragrove_SPI_Test/avr/buffer/buffer.c): an array, the index   *)
(* of the oldest byte and the number of bytes held.  Every operation runs  *)
(* in a critical section (cli ... SREG), so it is one step here however    *)
(* interrupt handlers and the main loop interleave their calls.            *)
(*                                                                         *)
(* dataindex, datalength and size are unsigned short, and the sums of them *)
(* are computed in the 16-bit unsigned int of the AVR: WordSize is 2^16.   *)
(***************************************************************************)
EXTENDS Naturals, Sequences

CONSTANTS Byte,      \* the values of an unsigned char, 0 .. 255 in the code
          Size,      \* the size given to bufferInit
          WordSize,  \* 2^16: an unsigned short counts modulo WordSize
          Ok         \* (unsigned char) -1, the success of bufferAddToEnd

\* A buffer of at most half the range of its counters: beyond that the sum
\* of dataindex and datalength wraps before it is reduced modulo size.
ASSUME SizeAssumption ==
  /\ Size \in Nat \ {0}
  /\ WordSize \in Nat
  /\ 2 * Size <= WordSize

ASSUME ByteAssumption ==
  /\ Byte \subseteq Nat
  /\ 0 \in Byte
  /\ Ok \in Nat \ {0}

VARIABLES slots,       \* the bytes at dataptr
          dataindex,   \* where the oldest byte is
          datalength,  \* how many bytes are held
          ret          \* what the latest call returned

vars == <<slots, dataindex, datalength, ret>>

Index == 0 .. Size - 1
Word == 0 .. WordSize - 1

\* The array position k slots after start, and k bytes behind the oldest one.
SlotFrom(start, k) == ((start + k) % WordSize) % Size
Slot(k) == SlotFrom(dataindex, k)

\* Mutant: ">" for ">=" in the test after dataindex++.
AdvancedPastEnd(k) ==
  LET moved == (dataindex + k) % WordSize
  IN  IF moved > Size THEN moved - Size ELSE moved

\* dataindex += k, and the one subtraction that brings it back in range.
Advanced(k) ==
  LET moved == (dataindex + k) % WordSize
  IN  IF moved >= Size THEN moved - Size ELSE moved

----------------------------------------------------------------------------
bufferInit ==
  /\ slots = [i \in Index |-> 0]
  /\ dataindex = 0
  /\ datalength = 0
  /\ ret = 0

bufferGetFromFront ==
  \/ /\ datalength > 0
     /\ ret' = slots[dataindex]
     /\ dataindex' = Advanced(1)
     /\ datalength' = datalength - 1
     /\ UNCHANGED slots
  \/ /\ datalength = 0
     /\ ret' = 0
     /\ UNCHANGED <<slots, dataindex, datalength>>

bufferDumpFromFront(numbytes) ==
  \/ /\ numbytes < datalength
     /\ dataindex' = Advanced(numbytes)
     /\ datalength' = datalength - numbytes
     /\ UNCHANGED <<slots, ret>>
  \/ /\ numbytes >= datalength
     /\ datalength' = 0
     /\ UNCHANGED <<slots, dataindex, ret>>

\* No check of the index against datalength: past the end it shows whatever
\* the array holds there.
bufferGetAtIndex(index) ==
  /\ ret' = slots[Slot(index)]
  /\ UNCHANGED <<slots, dataindex, datalength>>

\* Mutant: no check of datalength, the ring overwrites its oldest byte.
AddOverwriting(data) ==
  /\ slots' = [slots EXCEPT ![Slot(datalength)] = data]
  /\ datalength' = IF datalength < Size THEN datalength + 1 ELSE datalength
  /\ ret' = Ok
  /\ UNCHANGED dataindex

bufferAddToEnd(data) ==
  \/ /\ datalength < Size
     /\ slots' = [slots EXCEPT ![Slot(datalength)] = data]
     /\ datalength' = datalength + 1
     /\ ret' = Ok
     /\ UNCHANGED dataindex
  \/ /\ datalength >= Size
     /\ ret' = 0
     /\ UNCHANGED <<slots, dataindex, datalength>>

bufferIsNotFull ==
  /\ ret' = Size - datalength
  /\ UNCHANGED <<slots, dataindex, datalength>>

bufferFlush ==
  /\ datalength' = 0
  /\ UNCHANGED <<slots, dataindex, ret>>

Next ==
  \/ bufferGetFromFront
  \/ \E n \in Word : bufferDumpFromFront(n) \/ bufferGetAtIndex(n)
  \/ \E b \in Byte : bufferAddToEnd(b)
  \/ bufferIsNotFull
  \/ bufferFlush

Spec == bufferInit /\ [][Next]_vars

----------------------------------------------------------------------------
\* Every field stays in the range the array access relies on: dataindex is
\* a valid position and the length never exceeds the capacity.
TypeOK ==
  /\ slots \in [Index -> Byte]
  /\ dataindex \in Index
  /\ datalength \in 0 .. Size
  /\ ret \in Nat

\* The bytes held, oldest first: the refinement mapping.
Contents == [i \in 1 .. datalength |-> slots[Slot(i - 1)]]

Fifo == INSTANCE BoundedFifo WITH queue <- Contents, Counts <- Word

\* The ring is a bounded first-in first-out queue: whatever the position of
\* the ring, bytes come out in the order they were added, a full buffer
\* refuses without overwriting, an empty one answers 0, and every value
\* returned is the queue's (buffer.h, "first in, first out").
IsFifo == Fifo!Spec
=============================================================================
