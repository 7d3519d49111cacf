-------------------------- MODULE ByteBufferProofs --------------------------
(***************************************************************************)
(* For every capacity up to half the range of the counters: the fields of  *)
(* a buffer stay in range, and the ring implements the bounded queue.      *)
(***************************************************************************)
EXTENDS ByteBuffer, SequenceTheorems, TLAPS

\* Below twice the size, the remainder of a division by the size is at most
\* one subtraction away: what "% buffer->size" and "-= buffer->size" share.
LEMMA SmallModulus ==
  ASSUME NEW m \in Nat \ {0}, NEW x \in 0 .. 2 * m - 1
  PROVE  x % m = IF x < m THEN x ELSE x - m
OBVIOUS

\* The arithmetic on 16-bit counters never wraps within a buffer.
LEMMA NoWrap ==
  ASSUME NEW x \in 0 .. 2 * Size - 1
  PROVE  x % WordSize = x
<1>1. WordSize \in Nat \ {0} /\ x \in 0 .. 2 * WordSize - 1 /\ x < WordSize
  BY SizeAssumption
<1>2. x % WordSize = IF x < WordSize THEN x ELSE x - WordSize
  BY ONLY <1>1, SmallModulus
<1> QED
  BY <1>1, <1>2

\* The position k slots further, written without remainders ...
LEMMA SlotFromValue ==
  ASSUME NEW d \in Index, NEW k \in 0 .. Size
  PROVE  /\ SlotFrom(d, k) \in Index
         /\ SlotFrom(d, k) = IF d + k < Size THEN d + k ELSE d + k - Size
<1> DEFINE x == d + k
<1>1. x \in 0 .. 2 * Size - 1 /\ Size \in Nat \ {0}
  BY SizeAssumption DEF Index
<1>2. SlotFrom(d, k) = x % Size
  BY <1>1, NoWrap DEF SlotFrom
<1>3. x % Size = IF x < Size THEN x ELSE x - Size
  <2> HIDE DEF x
  <2> QED
    BY ONLY <1>1, SmallModulus
<1>4. SlotFrom(d, k) = IF x < Size THEN x ELSE x - Size
  BY <1>2, <1>3
<1>5. SlotFrom(d, k) \in Index
  <2> HIDE DEF x
  <2> QED
    BY <1>1, <1>4 DEF Index
<1> QED
  BY <1>1, <1>4, <1>5 DEF Index

\* ... so moving twice is moving by the sum ...
LEMMA SlotFromSlot ==
  ASSUME NEW d \in Index, NEW j \in 0 .. Size, NEW k \in 0 .. Size - j
  PROVE  SlotFrom(SlotFrom(d, j), k) = SlotFrom(d, j + k)
<1> DEFINE i == j + k
<1>1. k \in 0 .. Size /\ i \in 0 .. Size
  BY SizeAssumption
<1>2. SlotFrom(d, j) \in Index
  BY SlotFromValue
<1>3. SlotFrom(d, j) = IF d + j < Size THEN d + j ELSE d + j - Size
  BY SlotFromValue
<1>4. SlotFrom(d, i) = IF d + i < Size THEN d + i ELSE d + i - Size
  <2> HIDE DEF i
  <2> QED
    BY <1>1, SlotFromValue
<1> DEFINE e == SlotFrom(d, j)
<1>5. SlotFrom(e, k) = IF e + k < Size THEN e + k ELSE e + k - Size
  BY <1>1, <1>2, SlotFromValue
<1> QED
  BY <1>3, <1>4, <1>5, SizeAssumption DEF Index

\* ... different distances below the size reach different slots ...
LEMMA SlotFromInjective ==
  ASSUME NEW d \in Index, NEW j \in Index, NEW k \in Index, j # k
  PROVE  SlotFrom(d, j) # SlotFrom(d, k)
<1>1. j \in 0 .. Size /\ k \in 0 .. Size
  BY SizeAssumption DEF Index
<1>2. /\ SlotFrom(d, j) = IF d + j < Size THEN d + j ELSE d + j - Size
      /\ SlotFrom(d, k) = IF d + k < Size THEN d + k ELSE d + k - Size
  BY <1>1, SlotFromValue
<1> QED
  BY <1>2, SizeAssumption DEF Index

\* ... and the one subtraction that moves dataindex agrees with the remainder.
LEMMA AdvancedValue ==
  ASSUME TypeOK, NEW k \in 0 .. Size
  PROVE  Advanced(k) = Slot(k) /\ Slot(k) \in Index
<1>1. dataindex + k \in 0 .. 2 * Size - 1
  BY SizeAssumption DEF TypeOK, Index
<1>2. (dataindex + k) % WordSize = dataindex + k
  BY <1>1, NoWrap
<1>3. /\ Slot(k) \in Index
      /\ Slot(k) = IF dataindex + k < Size THEN dataindex + k
                                           ELSE dataindex + k - Size
  BY SlotFromValue DEF Slot, TypeOK
<1> QED
  BY <1>1, <1>2, <1>3, SizeAssumption DEF Advanced, Slot, TypeOK, Index

----------------------------------------------------------------------------
\* Every field of the buffer stays in range: dataindex is a position of the
\* array and datalength never exceeds the capacity (buffer.c, every call).
THEOREM TypeCorrect == Spec => []TypeOK
<1>1. bufferInit => TypeOK
  BY SizeAssumption, ByteAssumption DEF bufferInit, TypeOK, Index
<1>2. TypeOK /\ [Next]_vars => TypeOK'
  <2> SUFFICES ASSUME TypeOK, [Next]_vars PROVE TypeOK'
    OBVIOUS
  <2> USE SizeAssumption, ByteAssumption DEF TypeOK
  <2>1. CASE bufferGetFromFront
    <3>1. Advanced(1) \in Index
      BY AdvancedValue
    <3>2. slots[dataindex] \in Nat
      OBVIOUS
    <3> QED
      BY <2>1, <3>1, <3>2 DEF bufferGetFromFront
  <2>2. ASSUME NEW n \in Word, bufferDumpFromFront(n) PROVE TypeOK'
    <3>1. CASE n < datalength
      <4>1. n \in 0 .. Size
        BY <3>1 DEF Word
      <4>2. Advanced(n) \in Index
        BY <4>1, AdvancedValue
      <4> QED
        BY <2>2, <3>1, <4>2 DEF bufferDumpFromFront, Word
    <3>2. CASE ~(n < datalength)
      BY <2>2, <3>2 DEF bufferDumpFromFront, Word
    <3> QED
      BY <3>1, <3>2
  <2>3. ASSUME NEW n \in Word, bufferGetAtIndex(n) PROVE TypeOK'
    <3>1. Slot(n) \in Index
      BY DEF Slot, SlotFrom, Word, Index
    <3> QED
      BY <2>3, <3>1 DEF bufferGetAtIndex
  <2>4. ASSUME NEW b \in Byte, bufferAddToEnd(b) PROVE TypeOK'
    <3>1. Slot(datalength) \in Index
      BY AdvancedValue
    <3> QED
      BY <2>4, <3>1 DEF bufferAddToEnd
  <2>5. CASE bufferIsNotFull
    BY <2>5 DEF bufferIsNotFull
  <2>6. CASE bufferFlush
    BY <2>6 DEF bufferFlush
  <2>7. CASE UNCHANGED vars
    BY <2>7 DEF vars
  <2> QED
    BY <2>1, <2>2, <2>3, <2>4, <2>5, <2>6, <2>7 DEF Next
<1> QED
  BY <1>1, <1>2, PTL DEF Spec
----------------------------------------------------------------------------
\* The queue a state stands for: its length and its elements.
LEMMA ContentsFacts ==
  ASSUME TypeOK
  PROVE  /\ Contents \in Seq(Byte)
         /\ Len(Contents) = datalength
         /\ \A i \in 1 .. datalength : Contents[i] = slots[Slot(i - 1)]
<1>1. \A i \in 1 .. datalength : slots[Slot(i - 1)] \in Byte
  <2> TAKE i \in 1 .. datalength
  <2>1. i - 1 \in 0 .. Size
    BY SizeAssumption DEF TypeOK
  <2> QED
    BY <2>1, AdvancedValue DEF TypeOK
<1>2. datalength \in Nat
  BY SizeAssumption DEF TypeOK
<1> QED
  BY <1>1, <1>2 DEF Contents

\* When the oldest byte or n of them leave, the rest moves up unchanged.
LEMMA Shifted ==
  ASSUME TypeOK, TypeOK', NEW n \in 0 .. datalength,
         slots' = slots,
         dataindex' = Slot(n),
         datalength' = datalength - n
  PROVE  Contents' = SubSeq(Contents, n + 1, Len(Contents))
<1>1. \A i \in 1 .. datalength - n : Slot(i - 1)' = Slot(n + i - 1)
  <2> TAKE i \in 1 .. datalength - n
  <2>1. n \in 0 .. Size /\ i - 1 \in 0 .. Size - n
    BY SizeAssumption DEF TypeOK
  <2>2. dataindex \in Index
    BY DEF TypeOK
  <2> DEFINE k == i - 1
  <2>3. SlotFrom(SlotFrom(dataindex, n), k) = SlotFrom(dataindex, n + k)
    <3> HIDE DEF k
    <3> QED
      BY <2>1, <2>2, SlotFromSlot DEF k
  <2>4. n + k = n + i - 1
    BY <2>1
  <2> QED
    BY <2>3, <2>4 DEF Slot
<1>2. /\ Contents \in Seq(Byte)
      /\ Len(Contents) = datalength
      /\ datalength \in Nat
      /\ \A i \in 1 .. datalength : Contents[i] = slots[Slot(i - 1)]
  BY ContentsFacts DEF TypeOK
<1>3. Contents' = [i \in 1 .. datalength - n |-> slots[Slot(n + i - 1)]]
  BY <1>1 DEF Contents
<1>4. SubSeq(Contents, n + 1, datalength)
        = [i \in 1 .. datalength - n |-> Contents[n + i]]
  BY <1>2
<1>5. \A i \in 1 .. datalength - n : Contents[n + i] = slots[Slot(n + i - 1)]
  BY <1>2
<1> QED
  BY <1>2, <1>3, <1>4, <1>5

----------------------------------------------------------------------------
\* The ring of buffer.c is the bounded first-in first-out queue buffer.h
\* describes: every call on the ring is a call on the queue of its contents
\* that returns the same value.
THEOREM RingImplementsFifo == Spec => IsFifo
<1>1. bufferInit => Fifo!Init
  BY DEF bufferInit, Fifo!Init, Contents
<1>2. ASSUME TypeOK, TypeOK', [Next]_vars
      PROVE  [Fifo!Next]_<<Contents, ret>>
  <2> USE <1>2
  <2>0. /\ Contents \in Seq(Byte)
        /\ Len(Contents) = datalength
        /\ datalength \in 0 .. Size
        /\ Size \in Nat \ {0}
        /\ \A i \in 1 .. datalength : Contents[i] = slots[Slot(i - 1)]
    BY ContentsFacts, SizeAssumption DEF TypeOK
  <2>1. CASE bufferGetFromFront
    <3>1. CASE datalength > 0
      <4>1. 1 \in 0 .. datalength /\ 1 \in 0 .. Size
        BY <3>1, <2>0 DEF TypeOK
      <4>2. /\ slots' = slots
            /\ dataindex' = Slot(1)
            /\ datalength' = datalength - 1
            /\ ret' = slots[dataindex]
        BY <2>1, <3>1, <4>1, AdvancedValue DEF bufferGetFromFront
      <4>3. Contents' = SubSeq(Contents, 2, Len(Contents))
        BY <4>1, <4>2, Shifted
      <4>4. Slot(0) = dataindex
        BY SlotFromValue, SizeAssumption DEF Slot, TypeOK, Index
      <4>5. ret' = Contents[1] /\ Contents # <<>>
        BY <2>0, <3>1, <4>2, <4>4
      <4> QED
        BY <4>3, <4>5 DEF Fifo!Next, Fifo!Get
    <3>2. CASE datalength = 0
      BY <2>0, <2>1, <3>2 DEF bufferGetFromFront, Contents, Fifo!Next, Fifo!Get
    <3> QED
      BY <2>0, <3>1, <3>2
  <2>2. ASSUME NEW n \in Word, bufferDumpFromFront(n)
        PROVE  Fifo!Next
    <3>1. CASE n < datalength
      <4>1. n \in 0 .. datalength /\ n \in 0 .. Size
        BY <3>1, <2>0 DEF TypeOK, Word
      <4>2. /\ slots' = slots
            /\ dataindex' = Slot(n)
            /\ datalength' = datalength - n
            /\ ret' = ret
        <5>1. ~(n >= datalength)
          BY <2>0, <3>1, <4>1
        <5>2. Advanced(n) = Slot(n)
          BY <4>1, AdvancedValue
        <5> QED
          BY <2>2, <5>1, <5>2 DEF bufferDumpFromFront
      <4>3. Contents' = SubSeq(Contents, n + 1, Len(Contents))
        BY <4>1, <4>2, Shifted
      <4>4. Fifo!Dump(n)
        BY <2>0, <3>1, <4>2, <4>3 DEF Fifo!Dump, Fifo!Dumped
      <4> QED
        BY <4>4 DEF Fifo!Next
    <3>2. CASE ~(n < datalength)
      <4>1. datalength' = 0 /\ ret' = ret
        BY <2>0, <2>2, <3>2 DEF bufferDumpFromFront, Word
      <4>2. Contents' = <<>>
        BY <4>1 DEF Contents
      <4>3. Fifo!Dump(n)
        BY <2>0, <3>2, <4>1, <4>2 DEF Fifo!Dump, Fifo!Dumped
      <4> QED
        BY <4>3 DEF Fifo!Next
    <3> QED
      BY <3>1, <3>2
  <2>3. ASSUME NEW n \in Word, bufferGetAtIndex(n)
        PROVE  Fifo!Next
    <3>1. Contents' = Contents /\ ret' = slots[Slot(n)]
      BY <2>3 DEF bufferGetAtIndex, Contents, Slot
    <3>2. ret' \in Byte
      <4>1. Slot(n) \in Index
        BY SizeAssumption DEF Slot, SlotFrom, Word, Index, TypeOK
      <4> QED
        BY <3>1, <4>1 DEF TypeOK
    <3>3. n < datalength => ret' = Contents[n + 1]
      BY <2>0, <3>1 DEF Word
    <3>4. Fifo!Peek(n)
      BY <2>0, <3>1, <3>2, <3>3 DEF Fifo!Peek
    <3> QED
      BY <3>4 DEF Fifo!Next
  <2>4. ASSUME NEW b \in Byte, bufferAddToEnd(b)
        PROVE  Fifo!Next
    <3>1. CASE datalength < Size
      <4>1. /\ slots' = [slots EXCEPT ![Slot(datalength)] = b]
            /\ dataindex' = dataindex
            /\ datalength' = datalength + 1
            /\ ret' = Ok
        BY <2>0, <2>4, <3>1 DEF bufferAddToEnd
      <4>2. \A i \in 1 .. datalength : slots'[Slot(i - 1)] = slots[Slot(i - 1)]
        <5> TAKE i \in 1 .. datalength
        <5> DEFINE k == i - 1
        <5>1. k \in Index /\ datalength \in Index /\ k # datalength
          BY <2>0, <3>1 DEF Index, TypeOK
        <5>2. Slot(k) # Slot(datalength)
          <6> HIDE DEF k
          <6> QED
            BY <5>1, SlotFromInjective DEF Slot, TypeOK
        <5> QED
          BY <4>1, <5>2
      <4>3. slots'[Slot(datalength)] = b
        BY <4>1, AdvancedValue DEF TypeOK
      <4>4. Contents' = [i \in 1 .. datalength + 1 |-> slots'[Slot(i - 1)]]
        BY <4>1 DEF Contents, Slot
      <4>5. Contents' = Append(Contents, b)
        <5>1. /\ Append(Contents, b) \in Seq(Byte)
              /\ Len(Append(Contents, b)) = datalength + 1
              /\ \A i \in 1 .. datalength : Append(Contents, b)[i] = Contents[i]
              /\ Append(Contents, b)[datalength + 1] = b
          BY <2>0, AppendProperties
        <5>2. \A i \in 1 .. datalength + 1 :
                slots'[Slot(i - 1)] = Append(Contents, b)[i]
          BY <2>0, <4>2, <4>3, <5>1
        <5>3. \A i \in 1 .. datalength + 1 : slots'[Slot(i - 1)] \in Byte
          <6>1. \A i \in 1 .. datalength + 1 : Append(Contents, b)[i] \in Byte
            BY <2>0, <5>1
          <6> QED
            BY <5>2, <6>1
        <5>4. datalength + 1 \in Nat
          BY <2>0
        <5>5. Contents' \in Seq(Byte) /\ Len(Contents') = datalength + 1
          BY <4>4, <5>3, <5>4
        <5>6. \A i \in 1 .. datalength + 1 : Contents'[i] = Append(Contents, b)[i]
          BY <4>4, <5>2
        <5> QED
          BY <5>1, <5>5, <5>6, SeqEqual
      <4>6. Fifo!Add(b)
        BY <2>0, <3>1, <4>1, <4>5 DEF Fifo!Add, Fifo!Appended, Fifo!HasRoom
      <4> QED
        BY <4>6 DEF Fifo!Next
    <3>2. CASE ~(datalength < Size)
      <4>1. Contents' = Contents /\ ret' = 0
        BY <2>0, <2>4, <3>2 DEF bufferAddToEnd, Contents, Slot
      <4>2. Fifo!Add(b)
        BY <2>0, <3>2, <4>1 DEF Fifo!Add, Fifo!Appended, Fifo!HasRoom
      <4> QED
        BY <4>2 DEF Fifo!Next
    <3> QED
      BY <3>1, <3>2
  <2>5. CASE bufferIsNotFull
    BY <2>0, <2>5 DEF bufferIsNotFull, Contents, Slot, Fifo!Next, Fifo!Room
  <2>6. CASE bufferFlush
    <3>1. Contents' = <<>> /\ ret' = ret
      BY <2>6 DEF bufferFlush, Contents
    <3> QED
      BY <3>1 DEF Fifo!Next, Fifo!Flush
  <2>7. CASE UNCHANGED vars
    BY <2>7 DEF vars, Contents, Slot
  <2> QED
    BY <2>1, <2>2, <2>3, <2>4, <2>5, <2>6, <2>7 DEF Next
<1>3. bufferInit /\ [][Next]_vars => []TypeOK
  BY TypeCorrect DEF Spec
<1> QED
  BY <1>1, <1>2, <1>3, PTL DEF Spec, IsFifo, Fifo!Spec, Fifo!fifoVars
=============================================================================
