---------------------------- MODULE SpiLinkProofs ----------------------------
(***************************************************************************)
(* The SPI link for every set of messages, every answer and every size of  *)
(* buffer: its variables stay in their sets, no answer mixes the bytes of  *)
(* two commands, and a caller gets a whole answer: its own, or, while the  *)
(* shield still prints for an earlier "gd", perhaps none.  Between two     *)
(* exchanges the AVR has time for at least one call on a buffer; were it   *)
(* not so, an answer could be replaced by the next one while it is being   *)
(* read.  For whole answers three calls are needed, and a limit to how     *)
(* long the printing of a character holds up the interrupt handler.        *)
(***************************************************************************)
EXTENDS SpiLink, SequenceTheorems, TLAPS

\* The symbols of a byte, and the bytes.
Symbols == Letters \cup {"zero", "dot", "space", "c"}
Bytes == [sym : Symbols, no : Nat]

LEMMA ByteType == \A s \in Symbols, n \in Nat : Byte(s, n) \in Bytes
  BY DEF Byte, Bytes

LEMMA ZeroAndDummy == Zero \in Bytes /\ Dot \in Bytes /\ Dummy \in Bytes
  BY ByteType DEF Zero, Dot, Dummy, Symbols

LEMMA LettersAreSymbols == \A str \in Seq(Letters) : str \in Seq(Symbols)
  BY SeqMonotonic DEF Symbols

LEMMA TaggedType ==
  ASSUME NEW str \in Seq(Symbols), NEW n \in Nat, NEW S,
         \A s \in Symbols : Byte(s, n) \in S
  PROVE  Tagged(str, n) \in Seq(S)
<1>1. Len(str) \in Nat
  BY LenProperties
<1>2. \A i \in 1 .. Len(str) : str[i] \in Symbols
  BY ElementOfSeq
<1>3. Tagged(str, n) \in [1 .. Len(str) -> S]
  BY <1>2 DEF Tagged
<1> QED BY <1>1, <1>3, SeqDef

LEMMA StringTypes ==
  /\ UartString \in Seq(Symbols)
  /\ \A first, second : Answer(first, second) \in Seq(Symbols)
<1>1. UartString \in [1 .. UartChars -> Symbols]
  BY DEF UartString, Symbols
<1>2. UartString \in Seq(Symbols)
  BY <1>1, SeqDef, SizesAssumption
<1>3. ASSUME NEW first, NEW second PROVE Answer(first, second) \in Seq(Symbols)
  <2>1. BoardInfo \in Seq(Symbols) /\ Invalid \in Seq(Symbols) /\ <<>> \in Seq(Symbols)
    BY LettersAreSymbols, LettersAssumption, EmptySeq
  <2> QED BY <2>1 DEF Answer
<1> QED BY <1>2, <1>3

LEMMA AppendedType ==
  ASSUME NEW S, NEW q \in Seq(S), NEW b \in S, NEW cap \in Nat, Len(q) <= cap
  PROVE  Appended(q, b, cap) \in Seq(S) /\ Len(Appended(q, b, cap)) <= cap
<1>1. Append(q, b) \in Seq(S) /\ Len(Append(q, b)) = Len(q) + 1 /\ Len(q) \in Nat
  BY AppendProperties, LenProperties
<1> QED BY <1>1 DEF Appended, HasRoom

----------------------------------------------------------------------------
\* The type invariant: what is a sequence of bytes,
Carried ==
  /\ rx \in Seq(Bytes) /\ tx \in Seq(Bytes) /\ spdr \in Bytes
  /\ todo \in Seq(Bytes) /\ cmd \in Seq(Bytes) /\ pending \in Seq(Bytes)
  /\ incoming \in Seq(Bytes) /\ outgoing \in Seq(Bytes)

\* how many there are of them,
Lengths ==
  /\ Len(rx) <= RxSize /\ Len(tx) <= TxSize /\ Len(pending) <= CharTime
  /\ Len(incoming) <= MaxRead /\ (host = "read" => Len(incoming) < MaxRead)
  /\ (avr = "fetch2" => cmd # <<>>)
  /\ (host = "write" => outgoing # <<>> /\ incoming = <<>>)

\* the control states and the counters,
Counters ==
  /\ host \in {"idle", "write", "between", "read", "sync"}
  /\ call \in 0 .. MaxCalls /\ reads \in 0 .. Retries + 1 /\ noOp \in 0 .. 3
  /\ avr \in {"loop", "dummy", "fetch1", "fetch2", "fill", "uart", "clear"}
  /\ steps \in 0 .. Pace /\ faults \in 0 .. MaxFaults

\* and the flags.
Flags == transmit \in BOOLEAN /\ newMsg \in BOOLEAN /\ masked \in BOOLEAN

Typed == Carried /\ Lengths /\ Counters /\ Flags

LEMMA TypedImpliesTypeOK == Typed => TypeOK
  BY Zenon DEF Typed, Carried, Lengths, Counters, Flags, TypeOK

LEMMA InitTyped == Init => Typed
<1> SUFFICES ASSUME Init PROVE Typed
  OBVIOUS
<1>1. Carried
  BY ZeroAndDummy, EmptySeq DEF Init, Carried
<1>2. Lengths
  BY EmptySeq, SizesAssumption DEF Init, Lengths
<1>3. Counters
  BY SizesAssumption DEF Init, Counters
<1>4. Flags
  BY Zenon DEF Init, Flags
<1> QED BY <1>1, <1>2, <1>3, <1>4 DEF Typed

\* What the interrupt handler does with a byte.
LEMMA IsrTyped ==
  ASSUME Typed, NEW b \in Bytes, Isr(b)
  PROVE  /\ rx' \in Seq(Bytes) /\ tx' \in Seq(Bytes) /\ spdr' \in Bytes
         /\ Len(rx') <= RxSize /\ Len(tx') <= TxSize /\ noOp' \in 0 .. 3
<1> USE DEF Typed, Carried, Lengths, Counters
<1>1. CASE IsrNoOp(b)
  BY <1>1 DEF IsrNoOp
<1>2. CASE IsrTransmit
  <2>1. Head(tx) \in Bytes /\ Tail(tx) \in Seq(Bytes) /\ Len(Tail(tx)) = Len(tx) - 1
    BY <1>2, HeadTailProperties DEF IsrTransmit
  <2>2. Len(tx) \in Nat
    BY LenProperties
  <2> QED BY <1>2, <2>1, <2>2, SizesAssumption DEF IsrTransmit
<1>3. CASE IsrReceive(b)
  <2>1. rx' = rx \/ rx' = Appended(rx, b, RxSize)
    BY <1>3 DEF IsrReceive
  <2>2. Appended(rx, b, RxSize) \in Seq(Bytes) /\ Len(Appended(rx, b, RxSize)) <= RxSize
    BY AppendedType, SizesAssumption
  <2>3. spdr' = Zero /\ tx' = tx /\ noOp' = noOp
    BY <1>3 DEF IsrReceive
  <2> QED BY <2>1, <2>2, <2>3, ZeroAndDummy
<1> QED BY <1>1, <1>2, <1>3 DEF Isr

LEMMA ExchangeTyped ==
  ASSUME Typed, NEW b \in Bytes, Exchange(b)
  PROVE  /\ rx' \in Seq(Bytes) /\ tx' \in Seq(Bytes) /\ spdr' \in Bytes
         /\ pending' \in Seq(Bytes) /\ Len(pending') <= CharTime
         /\ Len(rx') <= RxSize /\ Len(tx') <= TxSize /\ noOp' \in 0 .. 3
         /\ steps' = 0 /\ UNCHANGED <<avr, cmd, todo, faults>>
<1>1. steps' = 0 /\ UNCHANGED <<avr, cmd, todo, faults>>
  BY DEF Exchange, loopVars
<1>2. CASE ~masked
  <2>1. Isr(b) /\ pending' = pending
    BY <1>2 DEF Exchange
  <2> QED BY <1>1, <2>1, IsrTyped DEF Typed, Carried, Lengths
<1>3. CASE masked
  <2>1. /\ Len(pending) < CharTime /\ spdr' = b /\ pending' = Append(pending, b)
        /\ UNCHANGED <<noOp, rx, tx>>
    BY <1>3 DEF Exchange
  <2>2. /\ pending \in Seq(Bytes) /\ rx \in Seq(Bytes) /\ tx \in Seq(Bytes)
        /\ Len(rx) <= RxSize /\ Len(tx) <= TxSize /\ noOp \in 0 .. 3
    BY DEF Typed, Carried, Lengths, Counters
  <2>3. Append(pending, b) \in Seq(Bytes) /\ Len(Append(pending, b)) = Len(pending) + 1
    BY <2>2, AppendProperties
  <2>4. Len(pending) \in Nat
    BY <2>2, LenProperties
  <2> QED BY <1>1, <2>1, <2>2, <2>3, <2>4, SizesAssumption
<1> QED BY <1>2, <1>3

LEMMA StepFlags == Typed /\ [Next]_vars => Flags'
<1> SUFFICES ASSUME Typed, [Next]_vars PROVE Flags'
  OBVIOUS
<1> USE DEF Typed, Flags
<1>1. \A b : Isr(b) => transmit' \in BOOLEAN /\ newMsg' \in BOOLEAN
  BY Zenon DEF Isr, IsrNoOp, IsrTransmit, IsrReceive
<1>2. \A b : Exchange(b) => Flags'
  BY <1>1, Zenon DEF Exchange
<1>3. HostStep => Flags'
  BY <1>2, Zenon DEF HostStep, WriteByte, StartRead, ReadByte, SyncByte, Return, isrVars, uartVars
<1>4. MainLoop => Flags'
  BY <1>1, Zenon DEF MainLoop, StartDecode, AddDummy, FetchFirst, FetchSecond, FetchPrint,
     FetchNothing, FillTx, PrintChar, CharPrinted, FlushRx, ClearNewMsg, isrVars
<1>5. Killed \/ Reflash \/ (\E m \in Messages : CommandToMCU(m)) => Flags'
  BY Zenon DEF Killed, Reflash, CommandToMCU, isrVars, uartVars
<1>6. UNCHANGED vars => Flags'
  BY Zenon DEF vars, isrVars, uartVars
<1> QED BY <1>3, <1>4, <1>5, <1>6 DEF Next

\* The bytes of a write: the message, '.', and two 0x00.
LEMMA CommandBytes ==
  ASSUME NEW m \in Messages, NEW n \in Nat
  PROVE  /\ Tagged(m, n) \o <<Dot, Zero, Zero>> \in Seq(Bytes)
         /\ Tagged(m, n) \o <<Dot, Zero, Zero>> # <<>>
         /\ LET s == Tagged(m, n) \o <<Dot, Zero, Zero>> IN s[Len(s)] = Zero
<1>1. Tagged(m, n) \in Seq(Bytes)
  BY TaggedType, ByteType, LettersAreSymbols, LettersAssumption
<1> DEFINE t == Tagged(m, n)
           e == <<Dot, Zero, Zero>>
<1>2. e \in Seq(Bytes) /\ Len(e) = 3 /\ e[3] = Zero
  BY ZeroAndDummy
<1> HIDE DEF e, t
<1>3. t \in Seq(Bytes) /\ Len(t) \in Nat
  BY <1>1, LenProperties DEF t
<1>4. /\ t \o e \in Seq(Bytes) /\ Len(t \o e) = Len(t) + 3
      /\ \A i \in 1 .. Len(t) + 3 : (t \o e)[i] = IF i <= Len(t) THEN t[i] ELSE e[i - Len(t)]
  <2>1. /\ t \o e \in Seq(Bytes) /\ Len(t \o e) = Len(t) + Len(e)
        /\ \A i \in 1 .. Len(t) + Len(e) :
             (t \o e)[i] = IF i <= Len(t) THEN t[i] ELSE e[i - Len(t)]
    BY <1>2, <1>3, ConcatProperties, Zenon
  <2> QED BY <1>2, <2>1
<1>6. (t \o e)[Len(t) + 3] = e[3]
  <2>1. Len(t) + 3 \in 1 .. Len(t) + 3 /\ ~(Len(t) + 3 <= Len(t)) /\ (Len(t) + 3) - Len(t) = 3
    BY <1>3
  <2> QED BY <1>4, <2>1
<1>5. t \o e # <<>>
  BY <1>3, <1>4, EmptySeq
<1> QED BY <1>2, <1>4, <1>5, <1>6 DEF t, e

LEMMA StepTyped == Typed /\ [Next]_vars => Typed'
<1> SUFFICES ASSUME Typed, [Next]_vars PROVE Carried' /\ Lengths' /\ Counters'
  BY StepFlags DEF Typed
<1> USE SizesAssumption
<1>0. Carried /\ Lengths /\ Counters
  BY DEF Typed
<1>1. ASSUME NEW m \in Messages, CommandToMCU(m) PROVE Carried' /\ Lengths' /\ Counters'
  <2>1. call' = call + 1 /\ call + 1 \in 0 .. MaxCalls
    BY <1>0, <1>1 DEF CommandToMCU, Counters
  <2>2. outgoing' \in Seq(Bytes) /\ outgoing' # <<>>
    BY <1>1, <2>1, CommandBytes DEF CommandToMCU
  <2> QED BY <1>0, <1>1, <2>1, <2>2, EmptySeq DEF CommandToMCU, Carried, Lengths, Counters,
          isrVars, loopVars, uartVars
<1>2. CASE WriteByte
  <2>1. /\ Head(outgoing) \in Bytes /\ Tail(outgoing) \in Seq(Bytes)
        /\ Len(Tail(outgoing)) = Len(outgoing) - 1 /\ incoming = <<>>
    BY <1>0, <1>2, HeadTailProperties DEF WriteByte, Carried, Lengths
  <2>2. /\ rx' \in Seq(Bytes) /\ tx' \in Seq(Bytes) /\ spdr' \in Bytes
        /\ pending' \in Seq(Bytes) /\ Len(pending') <= CharTime
        /\ Len(rx') <= RxSize /\ Len(tx') <= TxSize /\ noOp' \in 0 .. 3
        /\ steps' = 0 /\ UNCHANGED <<avr, cmd, todo, faults>>
    BY <1>2, <2>1, ExchangeTyped DEF WriteByte
  <2>3. Len(outgoing) # 1 => Tail(outgoing) # <<>>
    <3>1. Len(outgoing) \in Nat
      BY <1>0, LenProperties DEF Carried
    <3>2. Len(<<>>) = 0
      OBVIOUS
    <3> QED BY <2>1, <3>1, <3>2
  <2>4. /\ outgoing' = Tail(outgoing) /\ host' = (IF Len(outgoing) = 1 THEN "between" ELSE "write")
        /\ UNCHANGED <<call, reads, incoming>>
    BY <1>2 DEF WriteByte
  <2> QED BY <1>0, <2>1, <2>2, <2>3, <2>4 DEF Carried, Lengths, Counters
<1>3. CASE StartRead
  <2>1. Len(incoming) = 0
    BY <1>3, EmptySeq DEF StartRead
  <2>2. Len(incoming') < MaxRead
    BY <1>3, <2>1 DEF StartRead
  <2> QED BY <1>0, <1>3, <2>2 DEF StartRead, Carried, Lengths, Counters, isrVars, loopVars, uartVars
<1>4. CASE ReadByte \/ SyncByte
  <2>1. /\ rx' \in Seq(Bytes) /\ tx' \in Seq(Bytes) /\ spdr' \in Bytes
        /\ pending' \in Seq(Bytes) /\ Len(pending') <= CharTime
        /\ Len(rx') <= RxSize /\ Len(tx') <= TxSize /\ noOp' \in 0 .. 3
        /\ steps' = 0 /\ UNCHANGED <<avr, cmd, todo, faults>>
    BY <1>4, ZeroAndDummy, ExchangeTyped DEF ReadByte, SyncByte
  <2>2. UNCHANGED <<call, reads, outgoing>> /\ host' \in {"sync", "between", "read"}
    BY <1>4 DEF ReadByte, SyncByte
  <2>3. /\ incoming' \in Seq(Bytes) /\ Len(incoming') <= MaxRead
        /\ (host' = "read" => Len(incoming') < MaxRead)
    <3>1. CASE incoming' = incoming /\ host' # "read"
      BY <1>0, <3>1 DEF Carried, Lengths
    <3>2. CASE /\ host = "read" /\ incoming' = Append(incoming, spdr)
               /\ host' = IF Len(incoming) + 1 = MaxRead THEN "between" ELSE "read"
      <4>1. incoming \in Seq(Bytes) /\ spdr \in Bytes /\ Len(incoming) < MaxRead
        BY <1>0, <3>2 DEF Carried, Lengths
      <4>2. /\ Append(incoming, spdr) \in Seq(Bytes) /\ Len(incoming) \in Nat
            /\ Len(Append(incoming, spdr)) = Len(incoming) + 1
        BY <4>1, AppendProperties, LenProperties
      <4> QED BY <3>2, <4>1, <4>2
    <3> QED BY <1>4, <3>1, <3>2 DEF ReadByte, SyncByte
  <2> QED BY <1>0, <2>1, <2>2, <2>3 DEF Carried, Lengths, Counters
<1>5. CASE Return \/ Killed
  <2>1. host' = "idle" /\ UNCHANGED <<call, outgoing, incoming, reads, isrVars, loopVars, uartVars, steps>>
    BY <1>5 DEF Return, Killed
  <2>2. faults' \in 0 .. MaxFaults
    BY <1>0, <1>5 DEF Return, Killed, Counters
  <2> QED BY <1>0, <2>1, <2>2 DEF Carried, Lengths, Counters, isrVars, loopVars, uartVars
<1>6. CASE Reflash
  BY <1>0, <1>6, ZeroAndDummy, EmptySeq DEF Reflash, Carried, Lengths, Counters
<1>7. ASSUME NEW from, NEW to \in {"loop", "dummy", "fetch1", "fetch2", "fill", "uart", "clear"},
             MainStep(from, to), noOp' = noOp
      PROVE  Counters' /\ UNCHANGED <<host, incoming, outgoing, pending>> /\ avr' = to
  BY <1>0, <1>7 DEF MainStep, Counters, hostVars
<1>8. CASE StartDecode \/ FlushRx \/ ClearNewMsg
  <2>1. Counters' /\ UNCHANGED <<host, incoming, outgoing, pending>> /\ avr' # "fetch2"
    <3>1. CASE StartDecode
      BY <1>7, <3>1 DEF StartDecode
    <3>2. CASE FlushRx
      BY <1>7, <3>2 DEF FlushRx
    <3>3. CASE ClearNewMsg
      BY <1>7, <3>3 DEF ClearNewMsg
    <3> QED BY <1>8, <3>1, <3>2, <3>3
  <2>2. /\ rx' \in {rx, <<>>} /\ tx' \in {tx, <<>>}
        /\ UNCHANGED <<spdr, cmd, todo>>
    BY <1>8 DEF StartDecode, FlushRx, ClearNewMsg
  <2>3. rx' \in Seq(Bytes) /\ tx' \in Seq(Bytes) /\ Len(rx') <= RxSize /\ Len(tx') <= TxSize
    <3>1. <<>> \in Seq(Bytes) /\ Len(<<>>) <= RxSize /\ Len(<<>>) <= TxSize
      OBVIOUS
    <3>2. /\ rx \in Seq(Bytes) /\ tx \in Seq(Bytes) /\ Len(rx) <= RxSize /\ Len(tx) <= TxSize
      BY <1>0 DEF Carried, Lengths
    <3> QED BY <2>2, <3>1, <3>2, Zenon
  <2> QED BY <1>0, <2>1, <2>2, <2>3 DEF Carried, Lengths
<1>9. CASE AddDummy
  <2>1. Counters' /\ UNCHANGED <<host, incoming, outgoing, pending>> /\ avr' # "fetch2"
    BY <1>7, <1>9 DEF AddDummy
  <2>2. tx' \in Seq(Bytes) /\ Len(tx') <= TxSize
    BY <1>0, <1>9, AppendedType, ZeroAndDummy DEF AddDummy, Carried, Lengths
  <2> QED BY <1>0, <1>9, <2>1, <2>2 DEF AddDummy, Carried, Lengths
<1>10. CASE FetchFirst \/ FetchSecond \/ FetchPrint
  <2>1. Counters' /\ UNCHANGED <<host, incoming, outgoing, pending>>
    BY <1>7, <1>10 DEF FetchFirst, FetchSecond, FetchPrint, isrVars
  <2>2. rx \in Seq(Bytes) /\ rx # <<>> /\ Len(rx) \in Nat
    BY <1>0, <1>10, LenProperties DEF Carried, FetchFirst, FetchSecond, FetchPrint
  <2>3. Head(rx) \in Bytes /\ Tail(rx) \in Seq(Bytes) /\ Len(Tail(rx)) = Len(rx) - 1
    BY <2>2, HeadTailProperties
  <2>4. rx' = Tail(rx) /\ tx' = tx /\ spdr' = spdr
    BY <1>10 DEF FetchFirst, FetchSecond, FetchPrint
  <2>5. /\ cmd' \in Seq(Bytes) /\ todo' \in Seq(Bytes)
        /\ (avr' = "fetch2" => cmd' # <<>>)
    <3>1. CASE FetchFirst
      BY <1>0, <2>3, <3>1 DEF FetchFirst, Carried
    <3>2. CASE FetchSecond \/ FetchPrint
      <4>1. cmd \in Seq(Bytes) /\ cmd # <<>>
        BY <1>0, <3>2 DEF FetchSecond, FetchPrint, MainStep, Carried, Lengths
      <4>2. 1 \in 1 .. Len(cmd)
        BY <4>1, EmptySeq
      <4>3. cmd[1] \in Bytes
        BY <4>1, <4>2, ElementOfSeq
      <4>4. cmd[1].no \in Nat
        BY <4>3 DEF Bytes
      <4>5. \A s \in Seq(Symbols) : Tagged(s, cmd[1].no) \in Seq(Bytes)
        BY <4>4, TaggedType, ByteType
      <4>6. cmd' = <<>> /\ avr' # "fetch2"
        BY <3>2 DEF FetchSecond, FetchPrint, MainStep
      <4>7. todo' \in Seq(Bytes)
        BY <3>2, <4>5, StringTypes DEF FetchSecond, FetchPrint
      <4> QED BY <4>6, <4>7, EmptySeq
    <3> QED BY <1>10, <3>1, <3>2
  <2> QED BY <1>0, <2>1, <2>2, <2>3, <2>4, <2>5 DEF Carried, Lengths
<1>11. CASE FetchNothing
  <2>1. Counters' /\ UNCHANGED <<host, incoming, outgoing, pending>> /\ avr' # "fetch2"
    BY <1>7, <1>11 DEF FetchNothing
  <2>2. Tagged(Invalid, 0) \in Seq(Bytes)
    BY TaggedType, ByteType, LettersAreSymbols, LettersAssumption
  <2> QED BY <1>0, <1>11, <2>1, <2>2, EmptySeq DEF FetchNothing, Carried, Lengths
<1>12. CASE FillTx
  <2>1. Counters' /\ UNCHANGED <<host, incoming, outgoing, pending>> /\ avr' # "fetch2"
    BY <1>7, <1>12 DEF FillTx
  <2>2. Head(todo) \in Bytes /\ Tail(todo) \in Seq(Bytes)
    BY <1>0, <1>12, HeadTailProperties DEF FillTx, Carried
  <2>3. tx' \in Seq(Bytes) /\ Len(tx') <= TxSize
    BY <1>0, <1>12, <2>2, AppendedType DEF FillTx, Carried, Lengths
  <2> QED BY <1>0, <1>12, <2>1, <2>2, <2>3 DEF FillTx, Carried, Lengths
<1>13. CASE PrintChar
  <2>1. Counters' /\ UNCHANGED <<host, incoming, outgoing, pending>> /\ avr' # "fetch2"
    BY <1>7, <1>13 DEF PrintChar, isrVars
  <2>2. Tail(todo) \in Seq(Bytes)
    BY <1>0, <1>13, HeadTailProperties DEF PrintChar, Carried
  <2> QED BY <1>0, <1>13, <2>1, <2>2 DEF PrintChar, Carried, Lengths, isrVars
<1>14. CASE CharPrinted
  <2>1. /\ rx' \in Seq(Bytes) /\ tx' \in Seq(Bytes) /\ spdr' \in Bytes
        /\ Len(rx') <= RxSize /\ Len(tx') <= TxSize /\ noOp' \in 0 .. 3
    <3>1. CASE pending = <<>>
      BY <1>0, <1>14, <3>1 DEF CharPrinted, isrVars, Carried, Lengths, Counters
    <3>2. CASE pending # <<>>
      <4>1. pending \in Seq(Bytes)
        BY <1>0 DEF Carried
      <4>2. Len(pending) \in 1 .. Len(pending)
        BY <3>2, <4>1, EmptySeq
      <4>3. pending[Len(pending)] \in Bytes
        BY <4>1, <4>2, ElementOfSeq
      <4> QED BY <1>14, <3>2, <4>3, IsrTyped DEF CharPrinted
    <3> QED BY <3>1, <3>2
  <2>2. pending' = <<>> /\ UNCHANGED <<hostVars, loopVars, steps>>
    BY <1>14 DEF CharPrinted
  <2> QED BY <1>0, <2>1, <2>2, EmptySeq DEF Carried, Lengths, Counters, hostVars, loopVars
<1>15. CASE UNCHANGED vars
  BY <1>0, <1>15 DEF vars, hostVars, isrVars, loopVars, uartVars, Carried, Lengths, Counters
<1> QED
  BY <1>1, <1>2, <1>3, <1>4, <1>5, <1>6, <1>8, <1>9, <1>10, <1>11, <1>12, <1>13, <1>14, <1>15
     DEF Next, HostStep, MainLoop

\* The buffers of both sides stay within their sizes, and every other variable
\* in its set, whatever is sent and whenever a caller is killed or the AVR is
\* programmed.
THEOREM TypeCorrect == Spec => []TypeOK
  BY InitTyped, StepTyped, TypedImpliesTypeOK, PTL DEF Spec

----------------------------------------------------------------------------
(* An answer is what is under way from the AVR to the caller: the bytes     *)
(* still to be added, those in the buffer, the one in SPDR, and those read. *)
(* From the moment the main loop takes up a command, all of them belong to  *)
(* it, or to an older one none of whose successors was taken up.            *)

Neutral == {Zero, Dummy}
Part(n) == {b \in Bytes : b.no = n} \cup Neutral

Reading == host \in {"between", "read", "sync"}

\* While the host writes, what SPDR holds is of no interest to it.
UnderWay(S) ==
  /\ tx \in Seq(S) /\ todo \in Seq(S)
  /\ (Reading => incoming \in Seq(S))
  /\ (host # "write" => spdr \in S)

OneAnswer == \E n \in Nat : UnderWay(Part(n))

\* Before the command has been fetched there is only the blank.
OnlyBlank == avr \in {"dummy", "fetch1", "fetch2"} => UnderWay(Neutral)

\* A command that the main loop has not taken up holds up all exchanges: it is
\* taken up before the last bytes of its write arrive.
TakenUpInTime ==
  newMsg /\ avr = "loop" => steps = 0 /\ host \in {"idle", "write"} /\ spdr = Zero

Printing ==
  /\ masked => avr = "uart"
  /\ pending # <<>> => masked /\ pending[Len(pending)] = spdr

WriteEnds == host = "write" => outgoing[Len(outgoing)] = Zero
AllAdded == avr \notin {"fill", "uart"} => todo = <<>>

Visible == {b \in Bytes : b.sym # "zero"}
ReadVisible == incoming \in Seq(Visible)

AnswerInv ==
  /\ OneAnswer /\ OnlyBlank /\ TakenUpInTime /\ Printing
  /\ WriteEnds /\ AllAdded /\ ReadVisible

LEMMA InitAnswerInv == Init => AnswerInv
<1> SUFFICES ASSUME Init PROVE AnswerInv
  OBVIOUS
<1>1. \A S : <<>> \in Seq(S)
  BY EmptySeq
<1>2. spdr = Zero /\ Zero \in Neutral /\ \A n : Zero \in Part(n)
  BY DEF Init, Neutral, Part
<1>3. OneAnswer
  <2>1. UnderWay(Part(0))
    BY <1>1, <1>2 DEF Init, UnderWay, Reading
  <2> QED BY <2>1 DEF OneAnswer
<1>4. TakenUpInTime
  BY DEF Init, TakenUpInTime
<1> QED
  BY <1>1, <1>3, <1>4 DEF Init, AnswerInv, OnlyBlank, Printing, WriteEnds, AllAdded, ReadVisible

LEMMA HeadTailIn ==
  ASSUME NEW S, NEW q \in Seq(S), q # <<>>
  PROVE  Head(q) \in S /\ Tail(q) \in Seq(S)
  BY HeadTailProperties

LEMMA AppendedIn ==
  ASSUME NEW S, NEW q \in Seq(S), NEW b \in S, NEW cap
  PROVE  Appended(q, b, cap) \in Seq(S)
<1>1. Append(q, b) \in Seq(S)
  BY AppendProperties
<1> QED BY <1>1 DEF Appended

\* The interrupt handler shifts out a byte of the answer, a 0x00, or the byte it
\* has just received.
LEMMA IsrUnderWay ==
  ASSUME NEW S, Zero \in S, tx \in Seq(S), NEW b, Isr(b)
  PROVE  tx' \in Seq(S) /\ (spdr' \in S \/ spdr' = b)
<1>1. CASE IsrNoOp(b)
  BY <1>1 DEF IsrNoOp
<1>2. CASE IsrTransmit
  BY <1>2, HeadTailIn DEF IsrTransmit
<1>3. CASE IsrReceive(b)
  BY <1>3 DEF IsrReceive
<1> QED BY <1>1, <1>2, <1>3 DEF Isr

LEMMA ExchangeUnderWay ==
  ASSUME NEW S, Zero \in S, tx \in Seq(S), NEW b, Exchange(b)
  PROVE  /\ tx' \in Seq(S) /\ (spdr' \in S \/ spdr' = b)
         /\ UNCHANGED <<avr, cmd, todo, masked>>
<1>1. UNCHANGED <<avr, cmd, todo, masked>>
  BY Zenon DEF Exchange, loopVars
<1>2. CASE Isr(b)
  BY <1>1, <1>2, IsrUnderWay
<1>3. CASE spdr' = b /\ tx' = tx
  BY <1>1, <1>3
<1> QED BY <1>2, <1>3 DEF Exchange

\* When the host writes its last byte, it is a 0x00.
LEMMA LastByteWritten ==
  ASSUME Typed, WriteEnds, WriteByte
  PROVE  /\ Head(outgoing) \in Bytes
         /\ \/ host' = "write" /\ Len(outgoing) # 1 /\ outgoing'[Len(outgoing')] = Zero
            \/ host' = "between" /\ Head(outgoing) = Zero
<1>1. outgoing \in Seq(Bytes) /\ outgoing # <<>> /\ outgoing[Len(outgoing)] = Zero
  BY DEF WriteByte, Typed, Carried, Lengths, WriteEnds
<1>2. /\ Head(outgoing) \in Bytes /\ Len(Tail(outgoing)) = Len(outgoing) - 1
      /\ \A i \in 1 .. Len(Tail(outgoing)) : Tail(outgoing)[i] = outgoing[i + 1]
  BY <1>1, HeadTailProperties
<1>3. Len(outgoing) \in Nat \ {0} /\ Head(outgoing) = outgoing[1]
  BY <1>1, EmptySeq
<1>4. outgoing' = Tail(outgoing) /\ host' = IF Len(outgoing) = 1 THEN "between" ELSE "write"
  BY DEF WriteByte
<1>5. ASSUME Len(outgoing) # 1
      PROVE  Tail(outgoing)[Len(Tail(outgoing))] = Zero
  <2> DEFINE k == Len(Tail(outgoing))
  <2>1. k \in 1 .. Len(Tail(outgoing)) /\ k + 1 = Len(outgoing)
    BY <1>2, <1>3, <1>5
  <2> HIDE DEF k
  <2>2. Tail(outgoing)[k] = outgoing[k + 1]
    BY <1>2, <2>1
  <2> QED BY <1>1, <2>1, <2>2 DEF k
<1> QED BY <1>1, <1>2, <1>3, <1>4, <1>5

\* Every step but the fetch of a command keeps the answer one, and the flush
\* that begins the next one happens while nothing is read.
LEMMA KeepsUnderWay ==
  ASSUME Typed, AnswerInv, NEW S, Neutral \subseteq S, UnderWay(S), [Next]_vars,
         ~FetchSecond, ~FetchPrint, ~FetchNothing
  PROVE  UnderWay(S)'
<1>1. /\ Zero \in S /\ Dummy \in S /\ tx \in Seq(S) /\ todo \in Seq(S)
      /\ (Reading => incoming \in Seq(S)) /\ (host # "write" => spdr \in S)
      /\ <<>> \in Seq(S)
  BY EmptySeq DEF Neutral, UnderWay
<1>2. ASSUME NEW m \in Messages, CommandToMCU(m) PROVE UnderWay(S)'
  BY <1>1, <1>2 DEF CommandToMCU, UnderWay, Reading, isrVars, loopVars
<1>3. CASE WriteByte
  <2>1. Head(outgoing) \in Bytes /\ (host' = "write" \/ (host' = "between" /\ Head(outgoing) = Zero))
    BY <1>3, LastByteWritten DEF AnswerInv
  <2>2. tx' \in Seq(S) /\ (spdr' \in S \/ spdr' = Head(outgoing)) /\ todo' = todo
    BY <1>1, <1>3, ExchangeUnderWay DEF WriteByte
  <2>3. incoming' = <<>>
    BY <1>3 DEF WriteByte, Typed, Lengths
  <2> QED BY <1>1, <2>1, <2>2, <2>3 DEF UnderWay, Reading
<1>4. CASE StartRead
  BY <1>1, <1>4 DEF StartRead, UnderWay, Reading, isrVars, loopVars
<1>5. CASE ReadByte \/ SyncByte
  <2>1. /\ tx' \in Seq(S) /\ spdr' \in S /\ todo' = todo
    BY <1>1, <1>5, ExchangeUnderWay DEF ReadByte, SyncByte
  <2>2. incoming' = incoming \/ incoming' = Append(incoming, spdr)
    BY <1>5 DEF ReadByte, SyncByte
  <2>3. incoming \in Seq(S) /\ spdr \in S
    BY <1>1, <1>5 DEF ReadByte, SyncByte, Reading
  <2>4. incoming' \in Seq(S)
    BY <2>2, <2>3, AppendProperties
  <2> QED BY <1>1, <2>1, <2>4 DEF UnderWay
<1>6. CASE Return \/ Killed
  BY <1>1, <1>6 DEF Return, Killed, UnderWay, Reading, isrVars, loopVars
<1>7. CASE Reflash
  BY <1>1, <1>7 DEF Reflash, UnderWay, Reading
<1>8. CASE StartDecode
  <2>1. host \in {"idle", "write"} /\ spdr = Zero
    BY <1>8 DEF StartDecode, MainStep, AnswerInv, TakenUpInTime
  <2>2. tx' = <<>> /\ UNCHANGED <<host, spdr, todo>>
    BY <1>8 DEF StartDecode, MainStep, hostVars
  <2> QED BY <1>1, <2>1, <2>2 DEF UnderWay, Reading
<1>9. CASE AddDummy
  <2>1. tx' \in Seq(S)
    BY <1>1, <1>9, AppendedIn DEF AddDummy
  <2>2. UNCHANGED <<host, incoming, spdr, todo>>
    BY <1>9 DEF AddDummy, MainStep, hostVars
  <2> QED BY <1>1, <2>1, <2>2 DEF UnderWay, Reading
<1>10. CASE FillTx
  <2>1. Head(todo) \in S /\ Tail(todo) \in Seq(S)
    BY <1>1, <1>10, HeadTailIn DEF FillTx
  <2>2. tx' \in Seq(S) /\ todo' \in Seq(S)
    BY <1>1, <1>10, <2>1, AppendedIn DEF FillTx
  <2>3. UNCHANGED <<host, incoming, spdr>>
    BY <1>10 DEF FillTx, MainStep, hostVars
  <2> QED BY <1>1, <2>2, <2>3 DEF UnderWay, Reading
<1>11. CASE PrintChar
  <2>1. todo' \in Seq(S)
    BY <1>1, <1>11, HeadTailIn DEF PrintChar
  <2>2. UNCHANGED <<host, incoming, spdr, tx>>
    BY <1>11 DEF PrintChar, MainStep, hostVars, isrVars
  <2> QED BY <1>1, <2>1, <2>2 DEF UnderWay, Reading
<1>12. CASE CharPrinted
  <2>1. tx' \in Seq(S) /\ (spdr' \in S \/ spdr' = spdr)
    <3>1. CASE pending = <<>>
      BY <1>1, <1>12, <3>1 DEF CharPrinted, isrVars
    <3>2. CASE pending # <<>>
      <4>1. Isr(spdr)
        BY <1>12, <3>2 DEF CharPrinted, AnswerInv, Printing
      <4> QED BY <1>1, <4>1, IsrUnderWay
    <3> QED BY <3>1, <3>2
  <2>2. UNCHANGED <<host, incoming, todo>>
    BY <1>12 DEF CharPrinted, hostVars, loopVars
  <2> QED BY <1>1, <2>1, <2>2 DEF UnderWay, Reading
<1>13. CASE FetchFirst \/ FlushRx \/ ClearNewMsg
  <2>1. UNCHANGED <<host, incoming, spdr, tx, todo>>
    BY <1>13 DEF FetchFirst, FlushRx, ClearNewMsg, MainStep, hostVars
  <2> QED BY <1>1, <2>1 DEF UnderWay, Reading
<1>14. CASE UNCHANGED vars
  BY <1>1, <1>14 DEF vars, hostVars, isrVars, loopVars, UnderWay, Reading
<1> QED
  BY <1>2, <1>3, <1>4, <1>5, <1>6, <1>7, <1>8, <1>9, <1>10, <1>11, <1>12, <1>13, <1>14
     DEF Next, HostStep, MainLoop

LEMMA NeutralInPart == \A n : Neutral \subseteq Part(n)
  BY DEF Part

\* A command is fetched when nothing but its blank is under way: its answer has
\* its number, and an answer to no command the number 0.
LEMMA FetchUnderWay ==
  ASSUME Typed, AnswerInv, FetchSecond \/ FetchPrint \/ FetchNothing
  PROVE  OneAnswer'
<1>1. avr \in {"fetch1", "fetch2"} /\ UNCHANGED <<host, incoming, spdr, tx>>
  BY DEF FetchSecond, FetchPrint, FetchNothing, MainStep, hostVars
<1>2. UnderWay(Neutral)
  BY <1>1 DEF AnswerInv, OnlyBlank
<1>3. PICK n \in Nat : todo' \in Seq(Part(n))
  <2>1. \A n \in Nat : \A s \in Symbols : Byte(s, n) \in Part(n)
    BY ByteType DEF Part, Byte
  <2>2. \A n \in Nat : \A str \in Seq(Symbols) : Tagged(str, n) \in Seq(Part(n))
    BY <2>1, TaggedType
  <2>3. CASE FetchSecond \/ FetchPrint
    <3>1. cmd \in Seq(Bytes) /\ cmd # <<>>
      BY <2>3 DEF FetchSecond, FetchPrint, MainStep, Typed, Carried, Lengths
    <3>2. 1 \in 1 .. Len(cmd)
      BY <3>1, EmptySeq
    <3>3. cmd[1].no \in Nat
      <4>1. cmd[1] \in Bytes
        BY <3>1, <3>2, ElementOfSeq
      <4> QED BY <4>1 DEF Bytes
    <3>4. todo' \in Seq(Part(cmd[1].no))
      BY <2>2, <2>3, <3>3, StringTypes DEF FetchSecond, FetchPrint
    <3> QED BY <3>3, <3>4
  <2>4. CASE FetchNothing
    BY <2>2, <2>4, LettersAreSymbols, LettersAssumption DEF FetchNothing
  <2> QED BY <2>3, <2>4
<1>4. \A q \in Seq(Neutral) : q \in Seq(Part(n))
  BY NeutralInPart, SeqMonotonic
<1>5. UnderWay(Part(n))'
  BY <1>1, <1>2, <1>3, <1>4, NeutralInPart DEF UnderWay, Reading
<1> QED BY <1>5 DEF OneAnswer

LEMMA StepOneAnswer == Typed /\ AnswerInv /\ [Next]_vars => OneAnswer'
<1> SUFFICES ASSUME Typed, AnswerInv, [Next]_vars PROVE OneAnswer'
  OBVIOUS
<1>1. CASE FetchSecond \/ FetchPrint \/ FetchNothing
  BY <1>1, FetchUnderWay
<1>2. CASE ~(FetchSecond \/ FetchPrint \/ FetchNothing)
  <2>1. PICK n \in Nat : UnderWay(Part(n))
    BY DEF AnswerInv, OneAnswer
  <2>2. UnderWay(Part(n))'
    BY <1>2, <2>1, NeutralInPart, KeepsUnderWay
  <2> QED BY <2>2 DEF OneAnswer
<1> QED BY <1>1, <1>2

LEMMA StepOnlyBlank == Typed /\ AnswerInv /\ [Next]_vars => OnlyBlank'
<1> SUFFICES ASSUME Typed, AnswerInv, [Next]_vars, avr' \in {"dummy", "fetch1", "fetch2"}
             PROVE  UnderWay(Neutral)'
  BY DEF OnlyBlank
<1>1. CASE StartDecode
  <2>1. host \in {"idle", "write"} /\ spdr = Zero /\ todo = <<>>
    BY <1>1 DEF StartDecode, MainStep, AnswerInv, TakenUpInTime, AllAdded
  <2>2. tx' = <<>> /\ UNCHANGED <<host, spdr, todo>>
    BY <1>1 DEF StartDecode, MainStep, hostVars
  <2> QED BY <2>1, <2>2, EmptySeq DEF UnderWay, Reading, Neutral
<1>2. CASE ~StartDecode
  <2>1. avr \in {"dummy", "fetch1", "fetch2"} /\ ~FetchSecond /\ ~FetchPrint /\ ~FetchNothing
    <3>1. \A b : Exchange(b) => avr' = avr
      BY Zenon DEF Exchange, loopVars
    <3>2. HostStep => avr' = avr
      BY <3>1, Zenon DEF HostStep, WriteByte, StartRead, ReadByte, SyncByte, Return, loopVars
    <3>3. Killed \/ (\E m \in Messages : CommandToMCU(m)) \/ UNCHANGED vars => avr' = avr
      BY Zenon DEF Killed, CommandToMCU, vars, loopVars
    <3>4. ~Reflash
      BY DEF Reflash
    <3>5. MainLoop => avr' = avr \/ avr \in {"dummy", "fetch1", "fetch2"}
      BY <1>2 DEF MainLoop, AddDummy, FetchFirst, FetchSecond, FetchPrint, FetchNothing,
         FillTx, PrintChar, CharPrinted, FlushRx, ClearNewMsg, MainStep, loopVars
    <3>6. ~FetchSecond /\ ~FetchPrint /\ ~FetchNothing
      BY DEF FetchSecond, FetchPrint, FetchNothing, MainStep
    <3> QED BY <3>2, <3>3, <3>4, <3>5, <3>6 DEF Next
  <2>2. UnderWay(Neutral)
    BY <2>1 DEF AnswerInv, OnlyBlank
  <2> QED BY <2>1, <2>2, KeepsUnderWay
<1> QED BY <1>1, <1>2

\* The handler alone sets SPI_NEW_CTRL_MSG, at a '.', and shifts out 0x00 then.
LEMMA IsrNewMsg ==
  ASSUME NEW b, Isr(b), newMsg', ~newMsg
  PROVE  b.sym = "dot" /\ spdr' = Zero
  BY Zenon DEF Isr, IsrNoOp, IsrTransmit, IsrReceive

LEMMA StepTakenUpInTime ==
  ASSUME Pace > 0, Typed, AnswerInv, [Next]_vars
  PROVE  TakenUpInTime'
<1> SUFFICES ASSUME newMsg', avr' = "loop"
             PROVE  steps' = 0 /\ host' \in {"idle", "write"} /\ spdr' = Zero
  BY DEF TakenUpInTime
<1>1. /\ newMsg /\ avr = "loop" => steps = 0 /\ host \in {"idle", "write"} /\ spdr = Zero
      /\ masked => avr = "uart"
  BY DEF AnswerInv, TakenUpInTime, Printing
\* No exchange comes before it is taken up, and the one that brings it is none
\* of a read, nor the last of a write.
<1>2. ASSUME NEW b, Exchange(b)
      PROVE  b.sym = "dot" /\ steps' = 0 /\ spdr' = Zero
  <2>1. avr = "loop" /\ ~masked
    BY <1>1, <1>2 DEF Exchange, loopVars
  <2>2. ~newMsg
    <3>1. newMsg => steps >= Pace
      BY <1>2, <2>1 DEF Exchange, Busy
    <3> QED BY <1>1, <2>1, <3>1, SizesAssumption
  <2>3. Isr(b) /\ steps' = 0
    BY <1>2, <2>1 DEF Exchange
  <2> QED BY <2>2, <2>3, IsrNewMsg
<1>3. CASE WriteByte
  <2>1. Head(outgoing).sym = "dot" /\ steps' = 0 /\ spdr' = Zero
    BY <1>2, <1>3 DEF WriteByte
  <2>2. host' = "write"
    BY <1>3, <2>1, LastByteWritten DEF AnswerInv, Zero, Byte
  <2> QED BY <2>1, <2>2
<1>4. CASE ReadByte \/ SyncByte
  BY <1>2, <1>4 DEF ReadByte, SyncByte, Zero, Byte
<1>5. CASE Return \/ Killed \/ StartRead
  BY <1>1, <1>5 DEF Return, Killed, StartRead, isrVars, loopVars
<1>6. ASSUME NEW m \in Messages, CommandToMCU(m)
      PROVE  steps' = 0 /\ host' \in {"idle", "write"} /\ spdr' = Zero
  BY <1>1, <1>6 DEF CommandToMCU, isrVars, loopVars
<1>7. CASE Reflash
  BY <1>7 DEF Reflash
<1>8. CASE CharPrinted
  BY <1>1, <1>8 DEF CharPrinted, loopVars
<1>9. CASE MainLoop /\ ~CharPrinted
  BY <1>9 DEF MainLoop, StartDecode, AddDummy, FetchFirst, FetchSecond, FetchPrint,
     FetchNothing, FillTx, PrintChar, FlushRx, ClearNewMsg, MainStep
<1>10. CASE UNCHANGED vars
  BY <1>1, <1>10 DEF vars, hostVars, isrVars, loopVars
<1> QED
  BY <1>3, <1>4, <1>5, <1>6, <1>7, <1>8, <1>9, <1>10 DEF Next, HostStep

LEMMA StepPrinting == Typed /\ AnswerInv /\ [Next]_vars => Printing'
<1> SUFFICES ASSUME Typed, AnswerInv, [Next]_vars PROVE Printing'
  OBVIOUS
<1>1. /\ masked => avr = "uart"
      /\ pending # <<>> => masked /\ pending[Len(pending)] = spdr
      /\ pending \in Seq(Bytes) /\ masked \in BOOLEAN
  BY DEF AnswerInv, Printing, Typed, Carried, Flags
<1>2. ASSUME NEW b \in Bytes, Exchange(b) PROVE Printing'
  <2>1. UNCHANGED <<avr, masked>>
    BY <1>2 DEF Exchange, loopVars
  <2>2. CASE ~masked /\ pending' = pending
    BY <1>1, <2>1, <2>2 DEF Printing
  <2>3. CASE masked /\ spdr' = b /\ pending' = Append(pending, b)
    <3>1. /\ Len(pending') = Len(pending) + 1 /\ Append(pending, b)[Len(pending) + 1] = b
      BY <1>1, <2>3, AppendProperties
    <3>2. pending'[Len(pending')] = spdr'
      BY <2>3, <3>1
    <3> QED BY <1>1, <2>1, <2>3, <3>2 DEF Printing
  <2> QED BY <1>2, <2>2, <2>3 DEF Exchange
<1>3. CASE WriteByte
  BY <1>2, <1>3, LastByteWritten DEF WriteByte, AnswerInv
<1>4. CASE ReadByte \/ SyncByte
  BY <1>2, <1>4, ZeroAndDummy DEF ReadByte, SyncByte
<1>5. CASE Return \/ Killed \/ StartRead \/ (\E m \in Messages : CommandToMCU(m)) \/ UNCHANGED vars
  <2>1. UNCHANGED <<avr, masked, pending, spdr>>
    BY <1>5, Zenon DEF Return, Killed, StartRead, CommandToMCU, vars, isrVars, loopVars, uartVars
  <2> QED BY <1>1, <2>1 DEF Printing
<1>6. CASE Reflash \/ CharPrinted
  <2>1. masked' = FALSE /\ pending' = <<>>
    BY <1>6, Zenon DEF Reflash, CharPrinted
  <2> QED BY <2>1 DEF Printing
<1>7. CASE PrintChar
  <2>1. ~masked /\ avr' = "uart" /\ UNCHANGED pending
    BY <1>7 DEF PrintChar, MainStep
  <2>2. pending' = <<>>
    BY <1>1, <2>1
  <2> QED BY <2>1, <2>2 DEF Printing
<1>8. CASE MainLoop /\ ~CharPrinted /\ ~PrintChar
  <2>1. ~masked /\ UNCHANGED <<masked, pending>>
    BY <1>8, Zenon DEF MainLoop, StartDecode, AddDummy, FetchFirst, FetchSecond, FetchPrint,
       FetchNothing, FillTx, FlushRx, ClearNewMsg, MainStep
  <2>2. pending' = <<>>
    BY <1>1, <2>1
  <2> QED BY <2>1, <2>2 DEF Printing
<1> QED
  BY <1>3, <1>4, <1>5, <1>6, <1>7, <1>8 DEF Next, HostStep

LEMMA StepWriteEnds == Typed /\ AnswerInv /\ [Next]_vars => WriteEnds'
<1> SUFFICES ASSUME Typed, AnswerInv, [Next]_vars, host' = "write"
             PROVE  outgoing'[Len(outgoing')] = Zero
  BY DEF WriteEnds
<1>1. ASSUME NEW m \in Messages, CommandToMCU(m)
      PROVE  outgoing'[Len(outgoing')] = Zero
  <2>1. call + 1 \in Nat
    BY SizesAssumption DEF Typed, Counters
  <2> QED BY <1>1, <2>1, CommandBytes DEF CommandToMCU
<1>2. CASE WriteByte
  BY <1>2, LastByteWritten DEF AnswerInv
<1>3. CASE StartRead \/ ReadByte \/ SyncByte \/ Return \/ Killed \/ Reflash
  BY <1>3 DEF StartRead, ReadByte, SyncByte, Return, Killed, Reflash
<1>4. CASE MainLoop \/ UNCHANGED vars
  <2>1. UNCHANGED <<host, outgoing>>
    BY <1>4, Zenon DEF MainLoop, StartDecode, AddDummy, FetchFirst, FetchSecond, FetchPrint,
       FetchNothing, FillTx, PrintChar, CharPrinted, FlushRx, ClearNewMsg, MainStep, vars,
       hostVars
  <2> QED BY <2>1 DEF AnswerInv, WriteEnds
<1> QED
  BY <1>1, <1>2, <1>3, <1>4 DEF Next, HostStep

LEMMA StepAllAdded == Typed /\ AnswerInv /\ [Next]_vars => AllAdded'
<1> SUFFICES ASSUME Typed, AnswerInv, [Next]_vars, avr' \notin {"fill", "uart"}
             PROVE  todo' = <<>>
  BY DEF AllAdded
<1>1. avr \notin {"fill", "uart"} => todo = <<>>
  BY DEF AnswerInv, AllAdded
<1>2. \A b : Exchange(b) => UNCHANGED <<avr, todo>>
  BY Zenon DEF Exchange, loopVars
<1>3. HostStep \/ Killed \/ (\E m \in Messages : CommandToMCU(m)) \/ CharPrinted \/ UNCHANGED vars
        => UNCHANGED <<avr, todo>>
  BY <1>2, Zenon DEF HostStep, WriteByte, StartRead, ReadByte, SyncByte, Return, Killed,
     CommandToMCU, CharPrinted, vars, loopVars
<1>4. Reflash => todo' = <<>>
  BY DEF Reflash
<1>5. FlushRx => todo' = <<>>
  BY DEF FlushRx
<1>6. StartDecode \/ AddDummy \/ FetchFirst \/ ClearNewMsg =>
        todo' = todo /\ avr \notin {"fill", "uart"}
  BY DEF StartDecode, AddDummy, FetchFirst, ClearNewMsg, MainStep
<1>7. ~FetchSecond /\ ~FetchPrint /\ ~FetchNothing /\ ~FillTx /\ ~PrintChar
  BY DEF FetchSecond, FetchPrint, FetchNothing, FillTx, PrintChar, MainStep
<1> QED
  BY <1>1, <1>3, <1>4, <1>5, <1>6, <1>7 DEF Next, MainLoop

LEMMA StepReadVisible == Typed /\ AnswerInv /\ [Next]_vars => ReadVisible'
<1> SUFFICES ASSUME Typed, AnswerInv, [Next]_vars PROVE ReadVisible'
  OBVIOUS
<1>1. incoming \in Seq(Visible) /\ spdr \in Bytes
  BY DEF AnswerInv, ReadVisible, Typed, Carried
<1>2. CASE ReadByte
  <2>1. \/ incoming' = incoming
        \/ spdr.sym # "zero" /\ incoming' = Append(incoming, spdr)
    BY <1>2 DEF ReadByte
  <2>2. spdr.sym # "zero" => Append(incoming, spdr) \in Seq(Visible)
    BY <1>1, AppendProperties DEF Visible
  <2> QED BY <1>1, <2>1, <2>2 DEF ReadVisible
<1>3. CASE \E m \in Messages : CommandToMCU(m)
  <2>1. incoming' = <<>>
    BY <1>3 DEF CommandToMCU
  <2> QED BY <2>1, EmptySeq DEF ReadVisible
<1>4. CASE ~ReadByte /\ ~(\E m \in Messages : CommandToMCU(m))
  <2>1. incoming' = incoming
    BY <1>4, Zenon DEF Next, HostStep, WriteByte, StartRead, SyncByte, Return, Killed, Reflash,
       MainLoop, StartDecode, AddDummy, FetchFirst, FetchSecond, FetchPrint,
       FetchNothing, FillTx, PrintChar, CharPrinted, FlushRx, ClearNewMsg, MainStep, vars,
       hostVars
  <2> QED BY <1>1, <2>1 DEF ReadVisible
<1> QED BY <1>2, <1>3, <1>4

LEMMA StepReply ==
  Typed /\ AnswerInv /\ OneCommandPerAnswer /\ [Next]_vars => OneCommandPerAnswer'
<1> SUFFICES ASSUME Typed, AnswerInv, OneCommandPerAnswer, [Next]_vars
             PROVE  OneCommandPerAnswer'
  OBVIOUS
<1>1. CASE Return
  <2>1. PICK n \in Nat : UnderWay(Part(n))
    BY DEF AnswerInv, OneAnswer
  <2>2. incoming \in Seq(Part(n)) /\ incoming \in Seq(Visible)
    BY <1>1, <2>1 DEF Return, UnderWay, Reading, AnswerInv, ReadVisible
  <2>3. \A i \in 1 .. Len(incoming) : incoming[i].no = n \/ incoming[i] = Dummy
    <3>1. ASSUME NEW i \in 1 .. Len(incoming)
          PROVE  incoming[i].no = n \/ incoming[i] = Dummy
      <4>1. incoming[i] \in Part(n) /\ incoming[i] \in Visible
        BY <2>2, ElementOfSeq
      <4> QED BY <4>1 DEF Part, Neutral, Visible, Zero, Byte
    <3> QED BY <3>1
  <2>4. last'.reply = incoming
    BY <1>1 DEF Return
  <2> QED BY <2>3, <2>4 DEF OneCommandPerAnswer
<1>2. CASE ~Return
  <2>1. last' = last
    BY <1>2, Zenon DEF Next, HostStep, WriteByte, StartRead, ReadByte, SyncByte, Killed, Reflash,
       CommandToMCU, MainLoop, StartDecode, AddDummy, FetchFirst, FetchSecond, FetchPrint,
       FetchNothing, FillTx, PrintChar, CharPrinted, FlushRx, ClearNewMsg, MainStep, vars,
       hostVars
  <2> QED BY <2>1 DEF OneCommandPerAnswer
<1> QED BY <1>1, <1>2

\* An answer that a caller gets has the bytes of one command, in whatever state
\* the AVR was powered up or an earlier caller was killed, and whatever is sent
\* while the main loop works on an older command -- when it gets at least one
\* call on a buffer done between two exchanges.
THEOREM AnswersAreNotMixed ==
  ASSUME Pace > 0
  PROVE  Spec => []OneCommandPerAnswer
<1> DEFINE Inv == Typed /\ AnswerInv /\ OneCommandPerAnswer
<1>1. Init => Inv
  <2>1. Init => OneCommandPerAnswer
    BY DEF Init, OneCommandPerAnswer
  <2> QED BY <2>1, InitTyped, InitAnswerInv
<1>2. Inv /\ [Next]_vars => Inv'
  BY StepTyped, StepOneAnswer, StepOnlyBlank, StepTakenUpInTime, StepPrinting, StepWriteEnds,
     StepAllAdded, StepReadVisible, StepReply DEF AnswerInv
<1> QED BY <1>1, <1>2, PTL DEF Spec

----------------------------------------------------------------------------
(* The whole answer.  The host paces the link: the invariants below say how *)
(* far the main loop is when a byte is exchanged, so that the interrupt     *)
(* handler finds the next byte of the answer in its buffer.                 *)

\* What CommandToMCU has still to send, counted from the end.
ToSend(k) ==
  IF k <= 2 THEN Zero ELSE IF k = 3 THEN Dot ELSE Byte(msg[Len(msg) + 4 - k], call)

Ordered ==
  /\ host # "idle" => msg \in Messages
  /\ host \in {"read", "sync"} => reads <= Retries
  /\ host = "write" =>
       /\ reads = Retries + 1 /\ Len(outgoing) <= Len(msg) + 3
       /\ \A j \in 1 .. Len(outgoing) : outgoing[j] = ToSend(Len(outgoing) + 1 - j)

\* The first of the two 0x00 is sent: nothing but 0x00 follows.
Sent == Reading \/ (host = "write" /\ Len(outgoing) <= 1)

\* The bytes that the handler ignores are gone before the '.' is sent, and no
\* letter is received until they are.
NoOps ==
  noOp > 0 =>
    /\ rx = <<>> /\ avr \notin {"fetch2", "uart"} /\ host \in {"idle", "write"}
    /\ host = "write" => Len(outgoing) >= noOp + 2

\* The main loop keeps ahead of the exchanges while it decodes ...
Ahead ==
  /\ avr = "dummy" => steps = 1 /\ tx = <<>>
  /\ avr = "fetch1" => steps = 2 /\ tx = <<Dummy>>
  /\ avr = "fetch2" => \/ steps = 0 /\ tx \in {<<>>, <<Dummy>>}
                       \/ steps >= 3 /\ tx = <<Dummy>>
  /\ avr = "fill" /\ todo # <<>> /\ tx = <<>> => steps <= 1
  /\ avr = "uart" => tx \in {<<>>, <<Dummy>>}

\* ... and has fetched a command before the write of it, or of the next, ends.
Early ==
  LET left == IF avr = "fetch2" /\ steps = 0 THEN 1 ELSE 2 IN
    avr \in {"dummy", "fetch1", "fetch2"} \/ (newMsg /\ avr = "loop") =>
      /\ host \in {"idle", "write"}
      /\ host = "write" => Len(outgoing) >= left

\* The bytes exchanged since the first 0x00, with those of finished reads.
ZerosSent ==
  2 * (Retries + 1 - reads)
    + (CASE host = "write" -> 1 [] host = "between" -> 2 [] host = "read" -> 0
         [] host = "sync" -> 1 [] OTHER -> 0)

\* The 0x00 switches the handler to Tx mode, unless it is held up by a
\* character that is printed all the while.
Switched ==
  Sent =>
    /\ pending # <<>> => spdr = Zero
    /\ ~transmit => /\ masked /\ spdr = Zero /\ incoming = <<>>
                    /\ Len(pending) >= ZerosSent

\* An answer contains no 0x00.
TxVisible == tx \in Seq(Visible) /\ todo \in Seq(Visible)

\* Nothing is shifted out any more, so there is nothing left but a late blank.
Out ==
  Reading /\ spdr.sym = "zero" /\ avr # "uart" =>
    /\ tx \in {<<>>, <<Dummy>>} /\ todo = <<>> /\ avr \in {"fill", "clear", "loop"}

\* The last read of a call ends: nothing of its answer is left behind.
Ending == host \in {"sync", "between"} /\ (reads = 0 \/ incoming # <<>>)

Finished ==
  Ending =>
    /\ tx \in {<<>>, <<Dummy>>}
    /\ host = "between" => transmit /\ (tx = <<>> \/ (masked /\ pending # <<>>))
    /\ avr # "uart" => /\ todo = <<>> /\ avr \in {"fill", "clear", "loop"}
                       /\ avr = "fill" => steps = 0

\* What is under way of an answer fits the buffer.
Shown == IF spdr.sym = "zero" THEN 0 ELSE 1
Filling == IF avr = "fill" THEN Len(todo) ELSE 0

Load ==
  /\ Len(tx) + Filling <= TxSize
  /\ Reading => Len(incoming) + Shown + Len(tx) + Filling <= TxSize

\* A byte is left in the receive buffer of a main loop at rest only while a message
\* arrives, and only if the rest of it will follow.
Clean ==
  /\ \/ host = "write" /\ Len(outgoing) > 2
     \/ avr \notin {"clear", "loop"} \/ (avr = "loop" /\ newMsg)
     \/ rx = <<>>
  /\ avr = "clear" /\ rx # <<>> => steps = 0
  /\ avr \in {"clear", "loop"} /\ rx # <<>> => tx = <<>> \/ ~transmit

\* After a call that returned the handler is in Tx mode.
Settled ==
  /\ ended => transmit /\ noOp = 0
  /\ settled => ended

\* How much of the message has been sent.
Received == Len(msg) + 3 - Len(outgoing)

\* The bytes of the current call.
Ours == [sym : Symbols, no : {call}]

\* The main loop has nothing left to add or to decode; at most it still prints.
Resting ==
  /\ avr \in {"fill", "uart", "clear", "loop"} /\ ~(newMsg /\ avr = "loop")
  /\ avr = "fill" => todo = <<>> /\ steps = 0
  /\ tx = <<>> \/ (avr = "uart" /\ masked /\ pending # <<>> /\ tx = <<Dummy>>)

\* That is so until the '.' is sent, and once it does not print any more the
\* buffer holds letters of this message only.
Before == host = "idle" \/ (host = "write" /\ Len(outgoing) > 2)

Quiet ==
  ended /\ Before =>
    /\ Resting
    /\ host = "write" /\ avr \in {"clear", "loop"} => rx \in Seq(Ours)

\* If it printed nothing when the call began, they are all that have arrived,
\* as far as they fit.
Prefix ==
  /\ Len(rx) = IF Received < RxSize THEN Received ELSE RxSize
  /\ \A j \in 1 .. Len(rx) : rx[j] = Byte(msg[j], call)

Arriving ==
  settled /\ host = "write" /\ Len(outgoing) > 2 =>
    /\ avr # "uart"
    /\ IF avr = "fill" THEN Received = 0 ELSE Prefix

\* From the '.' on.
Asked == ended /\ (Reading \/ (host = "write" /\ Len(outgoing) <= 2))

\* What the main loop fetches are letters of the message, the first two
\* unless it printed.
First == avr \in {"dummy", "fetch1"} \/ (avr = "loop" /\ newMsg)

FirstLetters ==
  /\ rx \in Seq(Ours)
  /\ settled => Len(rx) >= 2 /\ rx[1] = Byte(msg[1], call) /\ rx[2] = Byte(msg[2], call)

SecondLetter ==
  /\ cmd # <<>> /\ cmd[1].no = call
  /\ settled => cmd = <<Byte(msg[1], call)>> /\ rx # <<>> /\ rx[1] = Byte(msg[2], call)
  /\ steps = 0 => Len(outgoing) = 1 /\ tx = <<>>
  /\ steps > 0 => Len(outgoing) = 2

Fetching ==
  Asked => (First => FirstLetters) /\ (avr = "fetch2" => SecondLetter)

\* Nothing is under way but the blank of a command that prints, if that.
Blank ==
  /\ tx \in {<<>>, <<Dummy>>}
  /\ avr # "uart" => todo = <<>>
  /\ Reading =>
       /\ incoming \in {<<>>, <<Dummy>>}
       /\ spdr.sym = "zero" \/ spdr = Dummy
       /\ Len(incoming) + Shown + Len(tx) <= 1

\* How much of what the shield adds to its buffer has left the buffer.
Gone == IF host = "write" THEN 2 - Len(outgoing) ELSE 1 + Len(incoming) + Shown

\* The rest of an answer w is in the buffer or still to be added, in order ...
Chain(w) ==
  /\ Gone + Len(tx) + Len(todo) = Len(w)
  /\ \A j \in 1 .. Len(tx) : tx[j] = w[Gone + j]
  /\ \A j \in 1 .. Len(todo) : todo[j] = w[Gone + Len(tx) + j]

\* ... after what has been read, and the byte in SPDR.
ReadSoFar(w) ==
  /\ \A j \in 1 .. Len(incoming) : incoming[j] = w[j + 1]
  /\ IF spdr.sym = "zero" THEN tx = <<>> /\ todo = <<>> ELSE spdr = w[Gone]
  /\ host = "sync" \/ (host = "between" /\ (incoming # <<>> \/ reads = 0))
       => spdr.sym = "zero"

OnItsWay(w) == avr # "uart" /\ Chain(w) /\ (Reading => ReadSoFar(w))

\* The answers of the shield, each after its blank, and what a call is due.
Wholes == {<<Dummy>> \o Tagged(str, n) : str \in {BoardInfo, Invalid}, n \in {0, call}}
Due(w) == settled /\ ~Prints(msg) => w = <<Dummy>> \o Expected(msg, call)

Replying == avr \in {"fill", "uart", "clear"} \/ (avr = "loop" /\ ~newMsg)

\* From the fetch of the command to the end of the call, what is read, shown,
\* buffered and still to be added is one answer and its blank, or no answer.
Answering ==
  Asked /\ Replying =>
    \/ Blank /\ (settled => Prints(msg))
    \/ \E w \in Wholes : Due(w) /\ OnItsWay(w)

AnswerBase == Typed /\ AnswerInv /\ Ordered

LEMMA OneDummy ==
  /\ Len(<<>>) = 0 /\ Len(<<Dummy>>) = 1 /\ <<Dummy>> # <<>>
  /\ Head(<<Dummy>>) = Dummy /\ Tail(<<Dummy>>) = <<>> /\ <<Dummy>>[1] = Dummy
  /\ \A cap \in Nat \ {0} : Appended(<<>>, Dummy, cap) = <<Dummy>>
<1>1. Len(<<>>) = 0 /\ Len(<<Dummy>>) = 1 /\ <<Dummy>>[1] = Dummy /\ Append(<<>>, Dummy) = <<Dummy>>
  OBVIOUS
<1>2. Head(<<Dummy>>) = Dummy /\ Tail(<<Dummy>>) = <<>> /\ <<Dummy>> # <<>>
  OBVIOUS
<1> QED BY <1>1, <1>2 DEF Appended, HasRoom

\* What a sequence of bytes is after the calls of buffer.c that take or add one.
LEMMA TakeOne ==
  ASSUME NEW S, NEW q \in Seq(S), q # <<>>
  PROVE  /\ Len(q) \in Nat \ {0} /\ Head(q) = q[1] /\ Tail(q) \in Seq(S)
         /\ Len(Tail(q)) = Len(q) - 1
         /\ \A j \in 1 .. Len(q) - 1 : Tail(q)[j] = q[j + 1]
         /\ Len(q) = 1 <=> Tail(q) = <<>>
<1>1. Len(q) \in Nat \ {0}
  BY EmptySeq, LenProperties
<1>2. /\ Head(q) = q[1] /\ Tail(q) \in Seq(S) /\ Len(Tail(q)) = Len(q) - 1
      /\ \A j \in 1 .. Len(Tail(q)) : Tail(q)[j] = q[j + 1]
  BY HeadTailProperties
<1>3. Len(Tail(q)) = 0 <=> Tail(q) = <<>>
  BY <1>2, EmptySeq
<1> QED BY <1>1, <1>2, <1>3

LEMMA AddOne ==
  ASSUME NEW S, NEW q \in Seq(S), NEW b \in S, NEW cap \in Nat, Len(q) < cap
  PROVE  /\ Appended(q, b, cap) \in Seq(S) /\ Appended(q, b, cap) # <<>>
         /\ Len(Appended(q, b, cap)) = Len(q) + 1 /\ Len(q) \in Nat
         /\ Appended(q, b, cap)[Len(q) + 1] = b
         /\ \A j \in 1 .. Len(q) : Appended(q, b, cap)[j] = q[j]
<1>1. Appended(q, b, cap) = Append(q, b)
  BY DEF Appended, HasRoom
<1>2. /\ Append(q, b) \in Seq(S) /\ Append(q, b) # <<>> /\ Len(Append(q, b)) = Len(q) + 1
      /\ Append(q, b)[Len(q) + 1] = b /\ \A j \in 1 .. Len(q) : Append(q, b)[j] = q[j]
  BY AppendProperties
<1> QED BY <1>1, <1>2, LenProperties

\* The main loop leaves the caller alone.
LEMMA ShieldOnly ==
  ASSUME MainLoop \/ UNCHANGED vars
  PROVE  UNCHANGED <<host, call, msg, outgoing, incoming, reads, ended, settled, last>>
  BY Zenon DEF MainLoop, StartDecode, AddDummy, FetchFirst, FetchSecond, FetchPrint,
     FetchNothing, FillTx, PrintChar, CharPrinted, FlushRx, ClearNewMsg, MainStep, vars,
     hostVars

\* The caller alone begins and ends a call and a read.
HostOnly == (\E m \in Messages : CommandToMCU(m)) \/ StartRead \/ Return \/ Killed

LEMMA CallerOnly ==
  ASSUME HostOnly
  PROVE  /\ UNCHANGED <<spdr, noOp, transmit, newMsg, rx, tx>>
         /\ UNCHANGED <<avr, cmd, todo, masked, pending, steps>>
  BY Zenon DEF HostOnly, CommandToMCU, StartRead, Return, Killed, isrVars, loopVars, uartVars

\* What is written, byte by byte.
LEMMA MessageLength ==
  ASSUME NEW m \in Messages
  PROVE  /\ m \in Seq(Letters) /\ Len(m) \in Nat /\ Len(m) >= 2
         /\ \A i \in 1 .. Len(m) : m[i] \in Letters
<1>1. m \in Seq(Letters)
  BY LettersAssumption
<1> QED BY <1>1, LenProperties, ElementOfSeq, RoomAssumption

LEMMA CommandIsOrdered ==
  ASSUME NEW m \in Messages, NEW n \in Nat,
         NEW s, s = Tagged(m, n) \o <<Dot, Zero, Zero>>
  PROVE  /\ Len(s) = Len(m) + 3
         /\ \A j \in 1 .. Len(s) :
              s[j] = IF Len(s) + 1 - j <= 2 THEN Zero
                     ELSE IF Len(s) + 1 - j = 3 THEN Dot
                     ELSE Byte(m[Len(m) + 4 - (Len(s) + 1 - j)], n)
<1> DEFINE t == Tagged(m, n)
           e == <<Dot, Zero, Zero>>
<1>1. t \in Seq(Bytes) /\ Len(t) = Len(m) /\ Len(m) \in Nat
      /\ \A i \in 1 .. Len(m) : t[i] = Byte(m[i], n)
  <2>1. t \in Seq(Bytes)
    BY TaggedType, ByteType, LettersAreSymbols, LettersAssumption
  <2>2. Len(m) \in Nat
    BY MessageLength
  <2> QED BY <2>1, <2>2 DEF Tagged
<1>0. Len(m) \in Nat
  BY MessageLength
<1>2. e \in Seq(Bytes) /\ Len(e) = 3 /\ e[1] = Dot /\ e[2] = Zero /\ e[3] = Zero
  BY ZeroAndDummy
<1> HIDE DEF t, e
<1>3. /\ Len(t \o e) = Len(t) + Len(e)
      /\ \A i \in 1 .. Len(t) + Len(e) :
           (t \o e)[i] = IF i <= Len(t) THEN t[i] ELSE e[i - Len(t)]
  <2>1. t \in Seq(Bytes) /\ e \in Seq(Bytes)
    BY <1>1, <1>2
  <2> QED BY <2>1, ConcatProperties, Zenon
<1>4. s = t \o e
  BY DEF t, e
<1>5. Len(s) = Len(m) + 3
  BY <1>1, <1>2, <1>3, <1>4
<1>6. ASSUME NEW j \in 1 .. Len(s)
      PROVE  s[j] = IF Len(s) + 1 - j <= 2 THEN Zero
                    ELSE IF Len(s) + 1 - j = 3 THEN Dot
                    ELSE Byte(m[Len(m) + 4 - (Len(s) + 1 - j)], n)
  <2>1. s[j] = IF j <= Len(m) THEN t[j] ELSE e[j - Len(m)]
    BY <1>1, <1>2, <1>3, <1>4, <1>5
  <2>2. CASE j <= Len(m)
    <3>1. \A k \in Nat : j \in 1 .. k + 3 /\ j <= k =>
             /\ j \in 1 .. k /\ k + 4 - (k + 3 + 1 - j) = j
             /\ ~(k + 3 + 1 - j <= 2) /\ k + 3 + 1 - j # 3
      OBVIOUS
    <3>2. /\ j \in 1 .. Len(m) /\ Len(m) + 4 - (Len(s) + 1 - j) = j
          /\ ~(Len(s) + 1 - j <= 2) /\ Len(s) + 1 - j # 3
      BY <1>0, <1>5, <2>2, <3>1
    <3> QED BY <1>1, <2>1, <2>2, <3>2
  <2>3. CASE ~(j <= Len(m))
    <3>1. j - Len(m) \in {1, 2, 3} /\ Len(s) + 1 - j = 4 - (j - Len(m))
      BY <1>0, <1>5, <2>3
    <3> QED BY <1>2, <2>1, <2>3, <3>1
  <2> QED BY <2>2, <2>3
<1> QED BY <1>5, <1>6

LEMMA InitOrdered == Init => Ordered
  BY DEF Init, Ordered

\* The next byte of a write, and what is left after it.
LEMMA NextByte ==
  ASSUME AnswerBase, WriteByte
  PROVE  /\ Len(outgoing) \in Nat \ {0} /\ Head(outgoing) = ToSend(Len(outgoing))
         /\ Len(outgoing') = Len(outgoing) - 1
         /\ host' = IF Len(outgoing) = 1 THEN "between" ELSE "write"
         /\ \A j \in 1 .. Len(outgoing') : outgoing'[j] = outgoing[j + 1]
         /\ msg \in Messages /\ incoming = <<>> /\ reads = Retries + 1
<1>1. /\ outgoing \in Seq(Bytes) /\ outgoing # <<>> /\ incoming = <<>>
      /\ \A j \in 1 .. Len(outgoing) : outgoing[j] = ToSend(Len(outgoing) + 1 - j)
      /\ msg \in Messages /\ reads = Retries + 1
  BY DEF WriteByte, AnswerBase, Typed, Carried, Lengths, Ordered
<1>2. /\ Len(outgoing) \in Nat \ {0} /\ Head(outgoing) = outgoing[1]
      /\ Len(Tail(outgoing)) = Len(outgoing) - 1
      /\ \A j \in 1 .. Len(outgoing) - 1 : Tail(outgoing)[j] = outgoing[j + 1]
  BY <1>1, TakeOne
<1>3. outgoing[1] = ToSend(Len(outgoing))
  <2>1. 1 \in 1 .. Len(outgoing) /\ Len(outgoing) + 1 - 1 = Len(outgoing)
    BY <1>2
  <2> QED BY <1>1, <2>1
<1>4. outgoing' = Tail(outgoing) /\ host' = IF Len(outgoing) = 1 THEN "between" ELSE "write"
  BY DEF WriteByte
<1> QED BY <1>1, <1>2, <1>3, <1>4

LEMMA StepOrdered == AnswerBase /\ [Next]_vars => Ordered'
<1> SUFFICES ASSUME AnswerBase, [Next]_vars PROVE Ordered'
  OBVIOUS
<1>1. ASSUME NEW m \in Messages, CommandToMCU(m) PROVE Ordered'
  <2>1. call + 1 \in Nat
    BY SizesAssumption DEF AnswerBase, Typed, Counters
  <2>2. /\ outgoing' = Tagged(m, call + 1) \o <<Dot, Zero, Zero>>
        /\ msg' = m /\ call' = call + 1 /\ reads' = Retries + 1
    BY <1>1 DEF CommandToMCU
  <2>3. /\ Len(outgoing') = Len(m) + 3
        /\ \A j \in 1 .. Len(outgoing') :
             outgoing'[j] = IF Len(outgoing') + 1 - j <= 2 THEN Zero
                            ELSE IF Len(outgoing') + 1 - j = 3 THEN Dot
                            ELSE Byte(m[Len(m) + 4 - (Len(outgoing') + 1 - j)], call + 1)
    BY <2>1, <2>2, CommandIsOrdered
  <2>4. Len(m) \in Nat
    BY MessageLength
  <2>5. host' = "write"
    BY <1>1 DEF CommandToMCU
  <2>6. \A j \in 1 .. Len(outgoing') : outgoing'[j] = ToSend(Len(outgoing) + 1 - j)'
    BY <2>2, <2>3 DEF ToSend
  <2>7. Len(outgoing') <= Len(msg') + 3 /\ msg' \in Messages /\ reads' = Retries + 1
    BY <2>2, <2>3, <2>4
  <2> QED BY <2>5, <2>6, <2>7 DEF Ordered
<1>2. CASE WriteByte
  <2>1. UNCHANGED <<msg, call, reads>>
    BY <1>2 DEF WriteByte
  <2>2. /\ Len(outgoing) \in Nat \ {0} /\ Len(outgoing') = Len(outgoing) - 1
        /\ \A j \in 1 .. Len(outgoing') : outgoing'[j] = outgoing[j + 1]
        /\ msg \in Messages /\ reads = Retries + 1
    BY <1>2, NextByte
  <2>3. /\ Len(outgoing) <= Len(msg) + 3
        /\ \A j \in 1 .. Len(outgoing) : outgoing[j] = ToSend(Len(outgoing) + 1 - j)
    BY <1>2 DEF AnswerBase, Ordered, WriteByte
  <2>4. ASSUME NEW j \in 1 .. Len(outgoing')
        PROVE  outgoing'[j] = ToSend(Len(outgoing) + 1 - j)'
    <3>0. Len(outgoing) \in Nat \ {0} /\ Len(outgoing') = Len(outgoing) - 1
      BY <2>2
    <3>1. j + 1 \in 1 .. Len(outgoing) /\ Len(outgoing) + 1 - (j + 1) = Len(outgoing') + 1 - j
      BY <3>0
    <3>2. outgoing'[j] = ToSend(Len(outgoing') + 1 - j)
      BY <2>2, <2>3, <3>1
    <3>3. ToSend(Len(outgoing) + 1 - j)' = ToSend(Len(outgoing') + 1 - j)
      BY <2>1 DEF ToSend
    <3> QED BY <3>2, <3>3
  <2>5. Len(msg) \in Nat
    BY <2>2, MessageLength
  <2>6. Len(outgoing') <= Len(msg') + 3
    BY <2>1, <2>2, <2>3, <2>5
  <2>7. host' \in {"between", "write"}
    BY <1>2, NextByte
  <2> QED BY <2>1, <2>2, <2>4, <2>6, <2>7 DEF Ordered
<1>3. CASE ReadByte \/ SyncByte \/ Return \/ Killed \/ Reflash
  BY <1>3 DEF ReadByte, SyncByte, Return, Killed, Reflash, AnswerBase, Ordered
<1>5. CASE StartRead
  <2>1. reads' <= Retries
    BY <1>5, SizesAssumption DEF StartRead, AnswerBase, Typed, Counters
  <2> QED BY <1>5, <2>1 DEF StartRead, AnswerBase, Ordered
<1>4. CASE MainLoop \/ UNCHANGED vars
  BY <1>4, ShieldOnly DEF AnswerBase, Ordered, ToSend
<1> QED
  BY <1>1, <1>2, <1>3, <1>4, <1>5 DEF Next, HostStep

----------------------------------------------------------------------------
\* Pacing: what the invariants about the main loop say of an exchange.
Pacing == Pace >= 3 /\ AnswerBase /\ NoOps /\ Ahead /\ Early

\* An exchange while a character is printed.
Held(b) ==
  /\ masked /\ avr = "uart" /\ Len(pending) < CharTime
  /\ spdr' = b /\ pending' = Append(pending, b)
  /\ UNCHANGED <<noOp, transmit, newMsg, rx, tx>>

LEMMA ExchangeOutcome ==
  ASSUME Pacing, NEW b, Exchange(b)
  PROVE  /\ steps' = 0 /\ UNCHANGED <<avr, cmd, todo, masked>>
         /\ ~(newMsg /\ avr = "loop") /\ avr \notin {"dummy", "fetch1"}
         /\ avr = "fetch2" => steps >= 3 /\ tx = <<Dummy>>
         /\ avr = "fill" /\ todo # <<>> => tx # <<>>
         /\ avr = "clear" => steps >= 3
         /\ avr = "fill" => steps >= 3
         /\ Held(b) \/ (~masked /\ pending' = pending /\ Isr(b))
<1>1. steps' = 0 /\ UNCHANGED <<avr, cmd, todo, masked>>
  BY DEF Exchange, loopVars
<1>2. masked => avr = "uart"
  BY DEF Pacing, AnswerBase, AnswerInv, Printing
<1>3. Held(b) \/ (~masked /\ pending' = pending /\ Isr(b) /\ (Busy => steps >= Pace))
  BY <1>2, Zenon DEF Exchange, Held
<1>4. avr # "uart" => (Busy => steps >= 3)
  BY <1>3, SizesAssumption DEF Held, Pacing, AnswerBase, Typed, Counters
<1>5. /\ avr = "dummy" => steps = 1
      /\ avr = "fetch1" => steps = 2
      /\ avr = "fetch2" => steps = 0 \/ (steps >= 3 /\ tx = <<Dummy>>)
      /\ avr = "fill" /\ todo # <<>> /\ tx = <<>> => steps <= 1
      /\ newMsg /\ avr = "loop" => steps = 0
  BY DEF Pacing, AnswerBase, Ahead, AnswerInv, TakenUpInTime
<1>6. ~(newMsg /\ avr = "loop")
  BY <1>4, <1>5 DEF Busy
<1>7. avr \notin {"dummy", "fetch1"}
  BY <1>4, <1>5 DEF Busy
<1>8. avr = "fetch2" => steps >= 3 /\ tx = <<Dummy>>
  BY <1>4, <1>5 DEF Busy
<1>9. avr = "fill" /\ todo # <<>> => tx # <<>>
  <2>1. steps \in Nat
    BY SizesAssumption DEF Pacing, AnswerBase, Typed, Counters
  <2>2. avr = "fill" => steps >= 3
    BY <1>4 DEF Busy
  <2> QED BY <1>5, <2>1, <2>2
<1>10. avr \in {"clear", "fill"} => steps >= 3
  BY <1>4 DEF Busy
<1> QED BY <1>1, <1>3, <1>6, <1>7, <1>8, <1>9, <1>10

\* The handler takes nothing from the main loop's buffer but its first byte.
LEMMA IsrTx ==
  ASSUME NEW b, Isr(b)
  PROVE  tx' = tx \/ (noOp = 0 /\ transmit /\ tx # <<>> /\ tx' = Tail(tx) /\ spdr' = Head(tx))
  BY Zenon DEF Isr, IsrNoOp, IsrTransmit, IsrReceive

LEMMA IsrNoOps ==
  ASSUME Typed, NEW b, Isr(b)
  PROVE  /\ noOp = 0 => noOp' = 0
         /\ noOp > 0 => noOp' = noOp - 1 /\ rx' = rx
  BY DEF Isr, IsrNoOp, IsrTransmit, IsrReceive, Typed, Counters

LEMMA ToSendSymbols ==
  ASSUME msg \in Messages, NEW k \in Nat \ {0}, k <= Len(msg) + 3
  PROVE  /\ k <= 2 => ToSend(k) = Zero
         /\ k = 3 => ToSend(k) = Dot
         /\ k > 3 => /\ Len(msg) + 4 - k \in 1 .. Len(msg)
                     /\ ToSend(k) = Byte(msg[Len(msg) + 4 - k], call)
                     /\ ToSend(k).sym \notin {"zero", "dot"}
<1>1. Len(msg) \in Nat /\ \A i \in 1 .. Len(msg) : msg[i] \in Letters
  BY MessageLength
<1>2. \A n \in Nat : k <= n + 3 /\ k > 3 => n + 4 - k \in 1 .. n
  OBVIOUS
<1>3. k > 3 => Len(msg) + 4 - k \in 1 .. Len(msg)
  BY <1>1, <1>2
<1>4. ASSUME k > 3
      PROVE  /\ ToSend(k) = Byte(msg[Len(msg) + 4 - k], call)
             /\ ToSend(k).sym \notin {"zero", "dot"}
  <2>1. ToSend(k) = Byte(msg[Len(msg) + 4 - k], call)
    BY <1>4 DEF ToSend
  <2>2. msg[Len(msg) + 4 - k] \in Letters
    BY <1>1, <1>3, <1>4
  <2> QED BY <2>1, <2>2, LettersAssumption DEF Byte
<1>5. (k <= 2 => ToSend(k) = Zero) /\ (k = 3 => ToSend(k) = Dot)
  BY DEF ToSend
<1> QED BY <1>3, <1>4, <1>5

LEMMA WrittenByte ==
  ASSUME AnswerBase, WriteByte
  PROVE  LET o == Len(outgoing) IN
         /\ o \in Nat \ {0} /\ Len(outgoing') = o - 1 /\ o <= Len(msg) + 3
         /\ host' = IF o = 1 THEN "between" ELSE "write"
         /\ Exchange(Head(outgoing)) /\ Head(outgoing) \in Bytes
         /\ o <= 2 => Head(outgoing) = Zero
         /\ o = 3 => Head(outgoing) = Dot
         /\ o > 3 => /\ Len(msg) + 4 - o \in 1 .. Len(msg)
                     /\ Head(outgoing) = Byte(msg[Len(msg) + 4 - o], call)
                     /\ Head(outgoing).sym \notin {"zero", "dot"}
<1>1. /\ Len(outgoing) \in Nat \ {0} /\ Head(outgoing) = ToSend(Len(outgoing))
      /\ Len(outgoing') = Len(outgoing) - 1
      /\ host' = IF Len(outgoing) = 1 THEN "between" ELSE "write"
      /\ msg \in Messages
  BY NextByte
<1>2. Len(outgoing) <= Len(msg) + 3 /\ Exchange(Head(outgoing))
  BY DEF WriteByte, AnswerBase, Ordered
<1>3. Head(outgoing) \in Bytes
  BY LastByteWritten DEF AnswerBase, AnswerInv
<1> QED BY <1>1, <1>2, <1>3, ToSendSymbols

\* The bytes of a read are 0x00.
LEMMA ReadExchange ==
  ASSUME ReadByte \/ SyncByte
  PROVE  /\ host \in {"read", "sync"} /\ host' \in {"read", "sync", "between"}
         /\ Exchange(Zero) /\ UNCHANGED <<call, msg, outgoing, reads, last, ended, settled>>
  BY DEF ReadByte, SyncByte

----------------------------------------------------------------------------
LEMMA InitPacing == Init => NoOps /\ Ahead /\ Early
<1> SUFFICES ASSUME Init PROVE NoOps /\ Ahead /\ Early
  OBVIOUS
<1>1. host = "idle" /\ avr = "loop" /\ rx = <<>>
  BY DEF Init
<1> QED BY <1>1 DEF NoOps, Ahead, Early

LEMMA StepNoOps == Pacing /\ [Next]_vars => NoOps'
<1> SUFFICES ASSUME Pacing, [Next]_vars PROVE NoOps'
  OBVIOUS
<1>0. /\ noOp \in 0 .. 3 /\ AnswerBase /\ Typed
      /\ noOp > 0 => /\ rx = <<>> /\ avr \notin {"fetch2", "uart"} /\ host \in {"idle", "write"}
                     /\ host = "write" => Len(outgoing) >= noOp + 2
  BY DEF Pacing, AnswerBase, Typed, Counters, NoOps
<1>1. ASSUME NEW m \in Messages, CommandToMCU(m) PROVE NoOps'
  <2>1. UNCHANGED <<noOp, rx, avr>>
    BY <1>1, CallerOnly DEF HostOnly
  <2>2. Len(outgoing') = Len(m) + 3
    <3>1. call + 1 \in Nat
      BY <1>0, SizesAssumption DEF Typed, Counters
    <3>2. outgoing' = Tagged(m, call + 1) \o <<Dot, Zero, Zero>>
      BY <1>1 DEF CommandToMCU
    <3> QED BY <3>1, <3>2, CommandIsOrdered
  <2>3. Len(m) \in Nat /\ Len(m) >= 2 /\ host' = "write"
    BY <1>1, MessageLength DEF CommandToMCU
  <2> QED BY <1>0, <2>1, <2>2, <2>3 DEF NoOps
<1>2. CASE WriteByte
  <2>1. Exchange(Head(outgoing)) /\ Len(outgoing) \in Nat /\ Len(outgoing') = Len(outgoing) - 1
        /\ host' = IF Len(outgoing) = 1 THEN "between" ELSE "write"
    BY <1>0, <1>2, WrittenByte
  <2>2. avr' = avr /\ (Held(Head(outgoing)) \/ Isr(Head(outgoing)))
    BY <2>1, ExchangeOutcome
  <2>3. noOp > 0 => noOp' = noOp - 1 /\ rx' = rx
    BY <1>0, <2>2, IsrNoOps DEF Held
  <2>4. noOp = 0 => noOp' = 0
    BY <1>0, <2>2, IsrNoOps DEF Held
  <2>5. host = "write"
    BY <1>2 DEF WriteByte
  <2> QED BY <1>0, <2>1, <2>2, <2>3, <2>4, <2>5 DEF NoOps
<1>3. CASE ReadByte \/ SyncByte
  <2>1. noOp = 0
    BY <1>0, <1>3, ReadExchange
  <2>2. Held(Zero) \/ Isr(Zero)
    BY <1>3, ReadExchange, ExchangeOutcome
  <2>3. noOp' = 0
    BY <1>0, <2>1, <2>2, IsrNoOps DEF Held
  <2> QED BY <2>3 DEF NoOps
<1>4. CASE StartRead \/ Return \/ Killed
  <2>1. noOp = 0
    BY <1>0, <1>4 DEF StartRead, Return, Killed
  <2>2. noOp' = 0
    BY <1>4, <2>1, CallerOnly DEF HostOnly
  <2> QED BY <2>2 DEF NoOps
<1>5. CASE Reflash
  BY <1>5 DEF Reflash, NoOps
<1>6. CASE CharPrinted
  <2>1. noOp = 0
    BY <1>0, <1>6 DEF CharPrinted, AnswerBase, AnswerInv, Printing
  <2>2. noOp' = 0
    BY <1>0, <1>6, <2>1, IsrNoOps DEF CharPrinted, isrVars
  <2> QED BY <2>2 DEF NoOps
<1>7. CASE MainLoop /\ ~CharPrinted
  <2>1. noOp' = noOp /\ UNCHANGED <<host, outgoing>>
    <3>1. noOp' = noOp
      BY <1>7, Zenon DEF MainLoop, StartDecode, AddDummy, FetchFirst, FetchSecond, FetchPrint,
         FetchNothing, FillTx, PrintChar, FlushRx, ClearNewMsg, isrVars
    <3> QED BY <1>7, <3>1, ShieldOnly
  <2>2. rx = <<>> /\ avr \notin {"fetch2", "uart"} => rx' = <<>> /\ avr' \notin {"fetch2", "uart"}
    BY <1>7 DEF MainLoop, StartDecode, AddDummy, FetchFirst, FetchSecond, FetchPrint,
       FetchNothing, FillTx, PrintChar, FlushRx, ClearNewMsg, isrVars, MainStep
  <2> QED BY <1>0, <2>1, <2>2 DEF NoOps
<1>8. CASE UNCHANGED vars
  BY <1>0, <1>8 DEF vars, hostVars, isrVars, loopVars, NoOps
<1> QED
  BY <1>1, <1>2, <1>3, <1>4, <1>5, <1>6, <1>7, <1>8 DEF Next, HostStep

\* The steps of the main loop are counted up to Pace.
LEMMA StepsCounted ==
  ASSUME Pacing, NEW from, NEW to, MainStep(from, to)
  PROVE  /\ avr = from /\ avr' = to /\ ~masked
         /\ steps < 3 => steps' = steps + 1
         /\ steps >= 3 => steps' >= 3
  BY SizesAssumption DEF MainStep, Pacing, AnswerBase, Typed, Counters

LEMMA StepAhead == Pacing /\ [Next]_vars => Ahead'
<1> SUFFICES ASSUME Pacing, [Next]_vars PROVE Ahead'
  OBVIOUS
<1>0. /\ avr = "dummy" => steps = 1 /\ tx = <<>>
      /\ avr = "fetch1" => steps = 2 /\ tx = <<Dummy>>
      /\ avr = "fetch2" => \/ steps = 0 /\ tx \in {<<>>, <<Dummy>>}
                           \/ steps >= 3 /\ tx = <<Dummy>>
      /\ avr = "fill" /\ todo # <<>> /\ tx = <<>> => steps <= 1
      /\ avr = "uart" => tx \in {<<>>, <<Dummy>>}
  BY DEF Pacing, Ahead
<1>1. ASSUME UNCHANGED <<avr, steps, tx, todo>> PROVE Ahead'
  BY <1>0, <1>1 DEF Ahead
<1>2. CASE HostOnly \/ UNCHANGED vars
  <2>1. UNCHANGED <<avr, steps, tx, todo>>
    BY <1>2, CallerOnly DEF vars, isrVars, loopVars
  <2> QED BY <1>1, <2>1
<1>3. ASSUME NEW b, Exchange(b) PROVE Ahead'
  <2>1. /\ steps' = 0 /\ UNCHANGED <<avr, todo>> /\ avr \notin {"dummy", "fetch1"}
        /\ avr = "fetch2" => tx = <<Dummy>>
    BY <1>3, ExchangeOutcome
  <2>2. tx' = tx \/ (tx # <<>> /\ tx' = Tail(tx))
    BY <1>3, ExchangeOutcome, IsrTx DEF Held
  <2>3. tx \in {<<>>, <<Dummy>>} => tx' \in {<<>>, <<Dummy>>}
    BY <2>2, OneDummy
  <2> QED BY <1>0, <2>1, <2>3 DEF Ahead
<1>4. CASE WriteByte \/ ReadByte \/ SyncByte
  BY <1>3, <1>4 DEF WriteByte, ReadByte, SyncByte
<1>5. CASE Reflash
  BY <1>5 DEF Reflash, Ahead
<1>6. CASE StartDecode
  <2>1. steps = 0 /\ avr' = "dummy" /\ tx' = <<>>
    BY <1>6 DEF StartDecode, MainStep, Pacing, AnswerBase, AnswerInv, TakenUpInTime
  <2>2. steps' = 1
    BY <1>6, <2>1, StepsCounted DEF StartDecode
  <2> QED BY <2>1, <2>2 DEF Ahead
<1>7. CASE AddDummy
  <2>1. avr = "dummy" /\ avr' = "fetch1" /\ tx' = Appended(tx, Dummy, TxSize)
    BY <1>7 DEF AddDummy, MainStep
  <2>2. steps' = 2 /\ tx' = <<Dummy>>
    BY <1>0, <1>7, <2>1, StepsCounted, OneDummy, SizesAssumption DEF AddDummy
  <2> QED BY <2>1, <2>2 DEF Ahead
<1>8. CASE FetchFirst
  <2>1. avr = "fetch1" /\ avr' = "fetch2" /\ tx' = tx
    BY <1>8 DEF FetchFirst, MainStep
  <2>2. steps' = 3
    BY <1>0, <1>8, <2>1, StepsCounted DEF FetchFirst
  <2> QED BY <1>0, <2>1, <2>2 DEF Ahead
<1>9. CASE FetchSecond \/ FetchNothing
  <2>1. avr \in {"fetch1", "fetch2"} /\ avr' = "fill" /\ tx' = tx
    BY <1>9 DEF FetchSecond, FetchNothing, MainStep
  <2>2. tx = <<>> => steps = 0
    BY <1>0, <2>1, OneDummy
  <2>3. steps = 0 => steps' = 1
    BY <1>9, StepsCounted DEF FetchSecond, FetchNothing
  <2> QED BY <2>1, <2>2, <2>3 DEF Ahead
<1>10. CASE FetchPrint
  <2>1. avr = "fetch2" /\ avr' = "uart" /\ tx' = tx
    BY <1>10 DEF FetchPrint, MainStep
  <2> QED BY <1>0, <2>1 DEF Ahead
<1>11. CASE FillTx
  <2>1. avr' = "fill" /\ tx' = Appended(tx, Head(todo), TxSize) /\ todo # <<>>
    BY <1>11 DEF FillTx, MainStep
  <2>2. tx' # <<>>
    <3>1. tx \in Seq(Bytes) /\ Head(todo) \in Bytes
      BY <2>1, TakeOne, HeadTailIn DEF Pacing, AnswerBase, Typed, Carried
    <3>2. CASE Len(tx) < TxSize
      BY <2>1, <3>1, <3>2, AddOne, SizesAssumption
    <3>3. CASE ~(Len(tx) < TxSize)
      <4>1. tx' = tx
        BY <2>1, <3>3 DEF Appended, HasRoom
      <4>2. tx # <<>>
        BY <3>3, OneDummy, SizesAssumption
      <4> QED BY <4>1, <4>2
    <3> QED BY <3>2, <3>3
  <2> QED BY <2>1, <2>2 DEF Ahead
<1>12. CASE PrintChar
  <2>1. avr = "uart" /\ avr' = "uart" /\ tx' = tx
    BY <1>12 DEF PrintChar, MainStep, isrVars
  <2> QED BY <1>0, <2>1 DEF Ahead
<1>13. CASE CharPrinted
  <2>1. avr = "uart" /\ avr' = "uart"
    BY <1>13 DEF CharPrinted, loopVars, Pacing, AnswerBase, AnswerInv, Printing
  <2>2. tx' = tx \/ (tx # <<>> /\ tx' = Tail(tx))
    BY <1>13, IsrTx DEF CharPrinted, isrVars
  <2>3. tx' \in {<<>>, <<Dummy>>}
    BY <1>0, <2>1, <2>2, OneDummy
  <2> QED BY <2>1, <2>3 DEF Ahead
<1>14. CASE FlushRx \/ ClearNewMsg
  <2>1. avr' \in {"clear", "loop"}
    BY <1>14 DEF FlushRx, ClearNewMsg, MainStep
  <2> QED BY <2>1 DEF Ahead
<1> QED
  BY <1>2, <1>4, <1>5, <1>6, <1>7, <1>8, <1>9, <1>10, <1>11, <1>12, <1>13, <1>14
     DEF Next, HostStep, HostOnly, MainLoop

LEMMA StepEarly == Pacing /\ [Next]_vars => Early'
<1> SUFFICES ASSUME Pacing, [Next]_vars PROVE Early'
  OBVIOUS
<1> DEFINE Pre == avr \in {"dummy", "fetch1", "fetch2"} \/ (newMsg /\ avr = "loop")
           Left == IF avr = "fetch2" /\ steps = 0 THEN 1 ELSE 2
<1>0. Pre => /\ host \in {"idle", "write"}
             /\ host = "write" => Len(outgoing) >= Left
  BY DEF Pacing, Early
<1>a. SUFFICES ASSUME Pre'
               PROVE  /\ host' \in {"idle", "write"}
                      /\ host' = "write" => Len(outgoing') >= Left'
  BY DEF Early
<1>b. AnswerBase /\ Typed
  BY DEF Pacing, AnswerBase
<1>c. Left' \in {1, 2}
  OBVIOUS
<1>1. ASSUME NEW m \in Messages, CommandToMCU(m)
      PROVE  host' = "write" /\ Len(outgoing') >= 2
  <2>1. Len(outgoing') = Len(m) + 3
    <3>1. call + 1 \in Nat
      BY <1>b, SizesAssumption DEF Typed, Counters
    <3>2. outgoing' = Tagged(m, call + 1) \o <<Dot, Zero, Zero>>
      BY <1>1 DEF CommandToMCU
    <3> QED BY <3>1, <3>2, CommandIsOrdered
  <2> QED BY <1>1, <2>1, MessageLength DEF CommandToMCU
<1>2. CASE WriteByte
  <2>1. /\ Exchange(Head(outgoing)) /\ Len(outgoing) \in Nat \ {0}
        /\ Len(outgoing') = Len(outgoing) - 1
        /\ host' = IF Len(outgoing) = 1 THEN "between" ELSE "write"
        /\ Len(outgoing) <= 2 => Head(outgoing) = Zero
        /\ Len(outgoing) > 3 => Head(outgoing).sym \notin {"zero", "dot"}
        /\ host = "write"
    BY <1>2, <1>b, WrittenByte DEF WriteByte
  <2>2. /\ steps' = 0 /\ avr' = avr /\ ~(newMsg /\ avr = "loop") /\ avr \notin {"dummy", "fetch1"}
        /\ avr = "fetch2" => steps >= 3
        /\ avr # "uart" => Isr(Head(outgoing))
    BY <2>1, ExchangeOutcome DEF Held
  <2>3. CASE avr = "fetch2"
    <3>1. Len(outgoing) >= 2
      BY <1>0, <2>1, <2>2, <2>3
    <3> QED BY <2>1, <2>2, <2>3, <3>1
  <2>4. CASE avr = "loop"
    <3>1. Head(outgoing).sym = "dot"
      BY <1>a, <2>2, <2>4, IsrNewMsg
    <3>2. Len(outgoing) = 3
      BY <2>1, <3>1 DEF Zero, Byte
    <3> QED BY <1>c, <2>1, <3>2
  <2> QED BY <1>a, <2>2, <2>3, <2>4
<1>3. CASE ReadByte \/ SyncByte
  <2>1. Exchange(Zero) /\ host \in {"read", "sync"}
    BY <1>3, ReadExchange
  <2>2. ~Pre
    BY <1>0, <2>1
  <2>3. avr' = avr /\ (avr # "uart" => Isr(Zero))
    BY <2>1, ExchangeOutcome DEF Held
  <2>4. avr = "loop" /\ newMsg' /\ ~newMsg => FALSE
    BY <2>3, IsrNewMsg DEF Zero, Byte
  <2> QED BY <1>a, <2>2, <2>3, <2>4
<1>4. CASE StartRead \/ Return \/ Killed
  <2>1. UNCHANGED <<avr, newMsg>> /\ host = "between"
    BY <1>4, CallerOnly DEF HostOnly, StartRead, Return, Killed
  <2> QED BY <1>0, <1>a, <2>1
<1>5. CASE Reflash
  BY <1>5 DEF Reflash
<1>6. CASE MainLoop \/ UNCHANGED vars
  <2>0. UNCHANGED <<host, outgoing>>
    BY <1>6, ShieldOnly
  <2>1. CASE StartDecode \/ AddDummy
    <3>1. Pre /\ Left = 2 /\ Left' = 2
      BY <2>1 DEF StartDecode, AddDummy, MainStep
    <3> QED BY <1>0, <2>0, <3>1
  <2>2. CASE FetchFirst
    <3>1. Pre /\ Left = 2 /\ steps = 2
      BY <2>2 DEF FetchFirst, MainStep, Pacing, Ahead
    <3>2. steps' = 3
      BY <2>2, <3>1, StepsCounted DEF FetchFirst
    <3>3. Left' = 2
      BY <3>2
    <3> QED BY <1>0, <2>0, <3>1, <3>3
  <2>3. CASE FetchSecond \/ FetchPrint \/ FetchNothing \/ FillTx \/ PrintChar \/ FlushRx \/ ClearNewMsg
    BY <1>a, <2>3 DEF FetchSecond, FetchPrint, FetchNothing, FillTx, PrintChar, FlushRx,
       ClearNewMsg, MainStep
  <2>4. CASE CharPrinted
    BY <1>a, <2>4 DEF CharPrinted, loopVars, Pacing, AnswerBase, AnswerInv, Printing
  <2>5. CASE UNCHANGED vars
    BY <1>0, <1>a, <2>0, <2>5 DEF vars, isrVars, loopVars
  <2> QED BY <1>6, <2>1, <2>2, <2>3, <2>4, <2>5 DEF MainLoop
<1> QED
  BY <1>1, <1>2, <1>3, <1>4, <1>5, <1>6, <1>c DEF Next, HostStep

----------------------------------------------------------------------------
\* While the host reads, no command is taken up and no byte but 0x00 arrives.
Passing == Pacing /\ Switched /\ TxVisible /\ Out /\ Load

LEMMA NoDecode ==
  ASSUME Pacing, Reading
  PROVE  /\ avr \in {"fill", "uart", "clear", "loop"} /\ ~(newMsg /\ avr = "loop") /\ noOp = 0
         /\ ~StartDecode /\ ~AddDummy /\ ~FetchFirst /\ ~FetchSecond /\ ~FetchPrint
         /\ ~FetchNothing /\ ~Reflash
<1>1. /\ avr \in {"fill", "uart", "clear", "loop"} /\ ~(newMsg /\ avr = "loop") /\ noOp = 0
  <2>1. avr \notin {"dummy", "fetch1", "fetch2"} /\ ~(newMsg /\ avr = "loop")
    BY DEF Pacing, Early, Reading
  <2>2. avr \in {"loop", "dummy", "fetch1", "fetch2", "fill", "uart", "clear"} /\ noOp \in 0 .. 3
    BY DEF Pacing, AnswerBase, Typed, Counters
  <2>3. ~(noOp > 0)
    BY DEF Pacing, NoOps, Reading
  <2> QED BY <2>1, <2>2, <2>3
<1>2. ~Reflash
  BY DEF Reflash, Reading
<1> QED
  BY <1>1, <1>2 DEF StartDecode, AddDummy, FetchFirst, FetchSecond, FetchPrint, FetchNothing, MainStep

\* 0x00 switches to Tx mode, and brings the next byte of the answer.
LEMMA ZeroReceived ==
  ASSUME noOp = 0, TxVisible, Isr(Zero)
  PROVE  /\ transmit' /\ noOp' = 0 /\ UNCHANGED <<newMsg, rx>>
         /\ \/ /\ transmit /\ tx # <<>> /\ tx' = Tail(tx)
               /\ spdr' = Head(tx) /\ spdr'.sym # "zero"
            \/ ~(transmit /\ tx # <<>>) /\ tx' = tx /\ spdr' = Zero
<1>1. CASE IsrNoOp(Zero)
  BY <1>1 DEF IsrNoOp
<1>2. CASE IsrTransmit
  <2>1. Head(tx) \in Visible
    BY <1>2, HeadTailIn DEF IsrTransmit, TxVisible
  <2> QED BY <1>2, <2>1 DEF IsrTransmit, Visible
<1>3. CASE IsrReceive(Zero)
  <2>1. transmit' = TRUE /\ UNCHANGED <<newMsg, rx>>
    BY <1>3 DEF IsrReceive, Zero, Byte
  <2> QED BY <1>3, <2>1 DEF IsrReceive
<1> QED BY <1>1, <1>2, <1>3 DEF Isr

LEMMA TaggedVisible ==
  ASSUME NEW str \in Seq(Letters \cup {"c"}), NEW n \in Nat
  PROVE  Tagged(str, n) \in Seq(Visible) /\ Len(Tagged(str, n)) = Len(str) /\ Len(str) \in Nat
         /\ \A i \in 1 .. Len(str) : Tagged(str, n)[i] = Byte(str[i], n)
<1>1. Len(str) \in Nat
  BY LenProperties
<1>2. \A i \in 1 .. Len(str) : str[i] \in Letters \cup {"c"}
  BY ElementOfSeq
<1>3. \A s \in Letters \cup {"c"} : Byte(s, n) \in Visible
  <2>1. \A s \in Letters \cup {"c"} : s \in Symbols /\ s # "zero"
    BY LettersAssumption DEF Symbols
  <2> QED BY <2>1 DEF Byte, Visible, Bytes
<1>4. Tagged(str, n) \in [1 .. Len(str) -> Visible]
  BY <1>2, <1>3 DEF Tagged
<1>5. Tagged(str, n) \in Seq(Visible)
  BY <1>1, <1>4, SeqDef
<1>6. Len(Tagged(str, n)) = Len(str)
  BY <1>1, <1>4, <1>5, LenProperties
<1> QED BY <1>1, <1>5, <1>6 DEF Tagged

\* What the main loop fetches to be added or printed.
LEMMA FetchedTodo ==
  ASSUME Typed, FetchSecond \/ FetchPrint \/ FetchNothing
  PROVE  /\ todo' \in Seq(Visible) /\ tx' = tx
         /\ avr' = "fill" => Len(todo') <= TxSize - 1
<1>1. /\ BoardInfo \in Seq(Letters \cup {"c"}) /\ Invalid \in Seq(Letters \cup {"c"})
      /\ UartString \in Seq(Letters \cup {"c"})
  <2>1. \A s \in Seq(Letters) : s \in Seq(Letters \cup {"c"})
    BY SeqMonotonic
  <2>2. UartString \in [1 .. UartChars -> Letters \cup {"c"}]
    BY DEF UartString
  <2>3. UartString \in Seq(Letters \cup {"c"})
    BY <2>2, SeqDef, SizesAssumption
  <2> QED BY <2>1, <2>3, LettersAssumption
<1>2. tx' = tx
  BY DEF FetchSecond, FetchPrint, FetchNothing
<1>3. CASE FetchSecond \/ FetchPrint
  <2>1. cmd \in Seq(Bytes) /\ cmd # <<>>
    BY <1>3 DEF FetchSecond, FetchPrint, MainStep, Typed, Carried, Lengths
  <2>2. cmd[1].no \in Nat
    <3>1. 1 \in 1 .. Len(cmd)
      BY <2>1, EmptySeq
    <3>2. cmd[1] \in Bytes
      BY <2>1, <3>1, ElementOfSeq
    <3> QED BY <3>2 DEF Bytes
  <2>3. CASE FetchPrint
    BY <1>1, <1>2, <2>2, <2>3, TaggedVisible DEF FetchPrint, MainStep
  <2>4. CASE FetchSecond
    <3>1. /\ todo' = Tagged(Answer(cmd[1].sym, Head(rx).sym), cmd[1].no)
          /\ ~(cmd[1].sym = "g" /\ Head(rx).sym = "d")
      BY <2>4 DEF FetchSecond
    <3>2. Answer(cmd[1].sym, Head(rx).sym) \in {BoardInfo, Invalid}
      BY <3>1 DEF Answer
    <3> QED BY <1>1, <1>2, <2>2, <3>1, <3>2, TaggedVisible, RoomAssumption
  <2> QED BY <1>3, <2>3, <2>4
<1>4. CASE FetchNothing
  <2>1. todo' = Tagged(Invalid, 0) /\ 0 \in Nat
    BY <1>4 DEF FetchNothing
  <2> QED BY <1>1, <1>2, <2>1, TaggedVisible, RoomAssumption
<1> QED BY <1>3, <1>4

LEMMA StepTxVisible == Pacing /\ TxVisible /\ [Next]_vars => TxVisible'
<1> SUFFICES ASSUME Pacing, TxVisible, [Next]_vars PROVE TxVisible'
  OBVIOUS
<1>0. tx \in Seq(Visible) /\ todo \in Seq(Visible) /\ \A S : <<>> \in Seq(S)
  BY EmptySeq DEF TxVisible
<1>1. Dummy \in Visible
  BY ZeroAndDummy DEF Visible, Dummy, Byte
<1>2. \A b : Isr(b) => tx' \in Seq(Visible)
  BY <1>0, IsrTx, HeadTailIn
<1>3. CASE WriteByte \/ ReadByte \/ SyncByte
  <2>1. \A b : Exchange(b) => tx' \in Seq(Visible) /\ todo' = todo
    BY <1>0, <1>2, Zenon DEF Exchange, loopVars
  <2> QED BY <1>0, <1>3, <2>1 DEF WriteByte, ReadByte, SyncByte, TxVisible
<1>4. CASE FetchSecond \/ FetchPrint \/ FetchNothing
  BY <1>0, <1>4, FetchedTodo DEF TxVisible, Pacing, AnswerBase
<1>5. CASE AddDummy \/ FillTx
  <2>1. CASE AddDummy
    BY <1>0, <1>1, <2>1, AppendedIn DEF AddDummy, TxVisible
  <2>2. CASE FillTx
    <3>1. Head(todo) \in Visible /\ Tail(todo) \in Seq(Visible)
      BY <1>0, <2>2, HeadTailIn DEF FillTx
    <3> QED BY <1>0, <2>2, <3>1, AppendedIn DEF FillTx, TxVisible
  <2> QED BY <1>5, <2>1, <2>2
<1>6. CASE PrintChar
  <2>1. todo' \in Seq(Visible) /\ tx' = tx
    BY <1>0, <1>6, HeadTailIn DEF PrintChar, isrVars
  <2> QED BY <1>0, <2>1 DEF TxVisible
<1>7. CASE CharPrinted
  BY <1>0, <1>2, <1>7 DEF CharPrinted, isrVars, loopVars, TxVisible
<1>8. CASE Reflash \/ StartDecode \/ FetchFirst \/ FlushRx \/ ClearNewMsg
  <2>1. tx' \in {tx, <<>>} /\ todo' \in {todo, <<>>}
    BY <1>8 DEF Reflash, StartDecode, FetchFirst, FlushRx, ClearNewMsg
  <2> QED BY <1>0, <2>1 DEF TxVisible
<1>9. CASE HostOnly \/ UNCHANGED vars
  <2>1. UNCHANGED <<tx, todo>>
    BY <1>9, CallerOnly DEF vars, isrVars, loopVars
  <2> QED BY <1>0, <2>1 DEF TxVisible
<1> QED
  BY <1>3, <1>4, <1>5, <1>6, <1>7, <1>8, <1>9 DEF Next, HostStep, HostOnly, MainLoop

\* The outcome of an exchange of 0x00.
LEMMA ZeroExchanged ==
  ASSUME Pacing, TxVisible, noOp = 0, Exchange(Zero)
  PROVE  /\ noOp' = 0 /\ UNCHANGED <<avr, cmd, todo, masked, newMsg, rx>> /\ steps' = 0
         /\ \/ Held(Zero)
            \/ /\ ~masked /\ pending = <<>> /\ pending' = <<>> /\ transmit'
               /\ \/ /\ transmit /\ tx # <<>> /\ tx' = Tail(tx)
                     /\ spdr' = Head(tx) /\ spdr'.sym # "zero"
                  \/ ~(transmit /\ tx # <<>>) /\ tx' = tx /\ spdr' = Zero
<1>1. /\ steps' = 0 /\ UNCHANGED <<avr, cmd, todo, masked>>
      /\ Held(Zero) \/ (~masked /\ pending' = pending /\ Isr(Zero))
  BY ExchangeOutcome
<1>2. ~masked => pending = <<>>
  BY DEF Pacing, AnswerBase, AnswerInv, Printing
<1>3. CASE Held(Zero)
  BY <1>1, <1>3 DEF Held
<1>4. CASE ~masked /\ pending' = pending /\ Isr(Zero)
  BY <1>1, <1>2, <1>4, ZeroReceived
<1> QED BY <1>1, <1>3, <1>4

\* When interrupts are on again, the last byte that arrived is looked at.
LEMMA PrintedOutcome ==
  ASSUME Pacing, TxVisible, CharPrinted, pending # <<>> => spdr = Zero
  PROVE  /\ masked /\ avr = "uart" /\ noOp = 0 /\ ~masked' /\ pending' = <<>>
         /\ noOp' = 0 /\ UNCHANGED <<avr, cmd, todo, newMsg, rx, steps>>
         /\ \/ pending = <<>> /\ UNCHANGED <<tx, spdr, transmit>>
            \/ /\ pending # <<>> /\ transmit'
               /\ \/ /\ transmit /\ tx # <<>> /\ tx' = Tail(tx)
                     /\ spdr' = Head(tx) /\ spdr'.sym # "zero"
                  \/ ~(transmit /\ tx # <<>>) /\ tx' = tx /\ spdr' = Zero
<1>1. masked /\ ~masked' /\ pending' = <<>> /\ UNCHANGED <<avr, cmd, todo, steps>>
  BY DEF CharPrinted, loopVars
<1>2. avr = "uart" /\ (pending # <<>> => pending[Len(pending)] = spdr)
  BY <1>1 DEF Pacing, AnswerBase, AnswerInv, Printing
<1>3. noOp = 0
  BY <1>2 DEF Pacing, NoOps, AnswerBase, Typed, Counters
<1>4. CASE pending = <<>>
  BY <1>1, <1>2, <1>3, <1>4 DEF CharPrinted, isrVars
<1>5. CASE pending # <<>>
  <2>1. Isr(Zero)
    BY <1>2, <1>5 DEF CharPrinted
  <2> QED BY <1>1, <1>2, <1>3, <1>5, <2>1, ZeroReceived
<1> QED BY <1>4, <1>5

\* While it writes its 0x00, or reads, the host changes its state in one of
\* these ways.
LEMMA SentStep ==
  ASSUME Pacing, [Next]_vars, Sent'
  PROVE  \/ /\ WriteByte /\ Exchange(Zero) /\ noOp = 0 /\ incoming = <<>> /\ incoming' = <<>>
            /\ reads' = reads /\ reads = Retries + 1 /\ Len(outgoing) \in {1, 2}
            /\ Len(outgoing') = Len(outgoing) - 1
            /\ Sent <=> Len(outgoing) = 1
            /\ host = "write"
            /\ host' = IF Len(outgoing) = 1 THEN "between" ELSE "write"
         \/ Sent /\ Reading /\ StartRead
         \/ Sent /\ Reading /\ (ReadByte \/ SyncByte) /\ Exchange(Zero) /\ noOp = 0
         \/ Sent /\ (MainLoop \/ UNCHANGED vars) /\ UNCHANGED <<host, outgoing, incoming, reads>>
<1>1. ASSUME NEW m \in Messages, CommandToMCU(m) PROVE FALSE
  <2>1. Len(outgoing') = Len(m) + 3
    <3>1. call + 1 \in Nat
      BY SizesAssumption DEF Pacing, AnswerBase, Typed, Counters
    <3>2. outgoing' = Tagged(m, call + 1) \o <<Dot, Zero, Zero>>
      BY <1>1 DEF CommandToMCU
    <3> QED BY <3>1, <3>2, CommandIsOrdered
  <2>2. host' = "write"
    BY <1>1 DEF CommandToMCU
  <2> QED BY <2>1, <2>2, MessageLength DEF Sent, Reading
<1>2. CASE WriteByte
  <2>1. /\ Exchange(Head(outgoing)) /\ Len(outgoing) \in Nat \ {0}
        /\ Len(outgoing') = Len(outgoing) - 1
        /\ host' = IF Len(outgoing) = 1 THEN "between" ELSE "write"
        /\ Len(outgoing) <= 2 => Head(outgoing) = Zero
        /\ host = "write" /\ reads' = reads /\ incoming' = incoming
    BY <1>2, WrittenByte DEF WriteByte, Pacing
  <2>2. Len(outgoing) \in {1, 2}
    BY <2>1 DEF Sent, Reading
  <2>3. noOp = 0
    BY <2>1, <2>2 DEF Pacing, NoOps, AnswerBase, Typed, Counters
  <2>4. incoming = <<>> /\ reads = Retries + 1
    BY <1>2, NextByte DEF Pacing
  <2>5. Exchange(Zero)
    BY <2>1, <2>2
  <2>6. Sent <=> Len(outgoing) = 1
    BY <2>1, <2>2 DEF Sent, Reading
  <2> QED BY <1>2, <2>1, <2>2, <2>3, <2>4, <2>5, <2>6
<1>3. CASE StartRead
  BY <1>3 DEF StartRead, Sent, Reading
<1>4. CASE ReadByte \/ SyncByte
  <2>1. Reading /\ Exchange(Zero)
    BY <1>4, ReadExchange DEF Reading
  <2> QED BY <1>4, <2>1, NoDecode DEF Sent
<1>5. CASE Return \/ Killed \/ Reflash
  BY <1>5 DEF Return, Killed, Reflash, Sent, Reading
<1>6. CASE MainLoop \/ UNCHANGED vars
  <2>1. UNCHANGED <<host, outgoing, incoming, reads>>
    BY <1>6, ShieldOnly
  <2> QED BY <1>6, <2>1 DEF Sent, Reading
<1> QED
  BY <1>1, <1>2, <1>3, <1>4, <1>5, <1>6 DEF Next, HostStep

LEMMA HeldPending ==
  ASSUME Typed, NEW b \in Bytes, Held(b)
  PROVE  /\ Len(pending') = Len(pending) + 1 /\ Len(pending) \in Nat /\ pending' # <<>>
         /\ spdr' = b /\ masked
<1>1. pending \in Seq(Bytes)
  BY DEF Typed, Carried
<1>2. /\ Len(Append(pending, b)) = Len(pending) + 1 /\ Append(pending, b) # <<>>
      /\ Len(pending) \in Nat
  BY <1>1, AppendProperties, LenProperties
<1> QED BY <1>2 DEF Held

LEMMA InitPassing == Init => Switched /\ TxVisible /\ Out /\ Load /\ Finished
<1> SUFFICES ASSUME Init PROVE Switched /\ TxVisible /\ Out /\ Load /\ Finished
  OBVIOUS
<1>1. host = "idle" /\ avr = "loop" /\ tx = <<>> /\ todo = <<>>
  BY DEF Init
<1> QED
  BY <1>1, EmptySeq, OneDummy, SizesAssumption
     DEF Switched, TxVisible, Out, Load, Finished, Ending, Filling, Sent, Reading

LEMMA StepSwitched == Pacing /\ TxVisible /\ Switched /\ [Next]_vars => Switched'
<1> SUFFICES ASSUME Pacing, TxVisible, Switched, [Next]_vars, Sent'
             PROVE  /\ pending' # <<>> => spdr' = Zero
                    /\ ~transmit' => /\ masked' /\ spdr' = Zero /\ incoming' = <<>>
                                     /\ Len(pending') >= ZerosSent'
  BY DEF Switched
<1>0. /\ Typed /\ reads \in Nat /\ reads <= Retries + 1 /\ Retries \in Nat /\ Zero \in Bytes
      /\ Sent => /\ pending # <<>> => spdr = Zero
                 /\ ~transmit => /\ masked /\ spdr = Zero /\ incoming = <<>>
                                 /\ Len(pending) >= ZerosSent
      /\ Len(pending) \in Nat /\ Len(<<>>) = 0
  BY SizesAssumption, ZeroAndDummy, LenProperties, OneDummy
     DEF Pacing, AnswerBase, Typed, Counters, Switched, Carried
\* An exchange: either it is held up, or it switches.
<1>1. ASSUME noOp = 0, Exchange(Zero)
      PROVE  \/ /\ Held(Zero) /\ Len(pending') = Len(pending) + 1 /\ spdr' = Zero /\ masked'
                /\ transmit' = transmit
             \/ transmit' /\ pending' = <<>>
  <2>1. masked' = masked /\ (Held(Zero) \/ (transmit' /\ pending' = <<>>))
    BY <1>1, ZeroExchanged
  <2>2. CASE Held(Zero)
    BY <1>0, <2>1, <2>2, HeldPending DEF Held
  <2> QED BY <2>1, <2>2
<1>2. CASE WriteByte /\ Exchange(Zero) /\ noOp = 0 /\ incoming' = <<>> /\ host = "write"
           /\ reads' = reads /\ reads = Retries + 1 /\ Len(outgoing) \in {1, 2}
           /\ (Sent <=> Len(outgoing) = 1)
           /\ host' = IF Len(outgoing) = 1 THEN "between" ELSE "write"
  <2>1. CASE transmit' /\ pending' = <<>>
    BY <2>1
  <2>2. CASE /\ Len(pending') = Len(pending) + 1 /\ spdr' = Zero /\ masked' /\ transmit' = transmit
    <3>1. ZerosSent' = IF Len(outgoing) = 1 THEN 2 ELSE 1
      BY <1>0, <1>2 DEF ZerosSent
    <3>2. Len(outgoing) = 1 => ZerosSent = 1
      BY <1>0, <1>2 DEF ZerosSent
    <3> QED BY <1>0, <1>2, <2>2, <3>1, <3>2
  <2> QED BY <1>1, <1>2, <2>1, <2>2
<1>3. CASE Sent /\ Reading /\ StartRead
  <2>1. UNCHANGED <<spdr, transmit, masked, pending, incoming>>
    BY <1>3, CallerOnly DEF HostOnly, StartRead
  <2>2. ZerosSent' = ZerosSent
    BY <1>0, <1>3 DEF StartRead, ZerosSent
  <2> QED BY <1>0, <1>3, <2>1, <2>2
<1>4. CASE Sent /\ Reading /\ (ReadByte \/ SyncByte) /\ Exchange(Zero) /\ noOp = 0
  <2>1. CASE transmit' /\ pending' = <<>>
    BY <2>1
  <2>2. CASE /\ Len(pending') = Len(pending) + 1 /\ spdr' = Zero /\ masked' /\ transmit' = transmit
    <3>1. ASSUME ~transmit'
          PROVE  incoming' = <<>> /\ Len(pending') >= ZerosSent'
      <4>1. spdr = Zero /\ incoming = <<>> /\ Len(pending) >= ZerosSent
        BY <1>0, <1>4, <2>2, <3>1
      <4>2. CASE ReadByte
        <5>1. host = "read" /\ host' = "sync" /\ incoming' = incoming /\ reads' = reads
          BY <4>1, <4>2 DEF ReadByte, Zero, Byte
        <5>2. ZerosSent' = ZerosSent + 1
          BY <1>0, <5>1 DEF ZerosSent
        <5> QED BY <1>0, <2>2, <4>1, <5>1, <5>2 DEF ZerosSent
      <4>3. CASE SyncByte
        <5>1. host = "sync" /\ host' = "between" /\ incoming' = incoming /\ reads' = reads
          BY <4>3 DEF SyncByte
        <5>2. ZerosSent' = ZerosSent + 1
          BY <1>0, <5>1 DEF ZerosSent
        <5> QED BY <1>0, <2>2, <4>1, <5>1, <5>2 DEF ZerosSent
      <4> QED BY <1>4, <4>2, <4>3
    <3> QED BY <2>2, <3>1
  <2> QED BY <1>1, <1>4, <2>1, <2>2
<1>5. CASE Sent /\ (MainLoop \/ UNCHANGED vars) /\ UNCHANGED <<host, outgoing, incoming, reads>>
  <2>1. ZerosSent' = ZerosSent
    BY <1>5 DEF ZerosSent
  <2>2. CASE CharPrinted
    <3>1. /\ pending' = <<>>
          /\ (pending = <<>> /\ UNCHANGED <<tx, spdr, transmit>>) \/ transmit'
      BY <1>0, <1>5, <2>2, PrintedOutcome
    <3>2. CASE pending = <<>> /\ transmit' = transmit
      <4>1. ~transmit => ZerosSent <= 0
        BY <1>0, <1>5, <3>2
      <4>2. ZerosSent > 0
        <5>1. host \in {"read", "sync"} => reads <= Retries
          BY DEF Pacing, AnswerBase, Ordered
        <5>2. host \in {"write", "between", "read", "sync"}
          BY <1>5 DEF Sent, Reading
        <5> QED BY <1>0, <5>1, <5>2 DEF ZerosSent
      <4>3. ZerosSent \in Int
        BY <1>0, <1>5 DEF ZerosSent, Sent, Reading
      <4> QED BY <3>1, <3>2, <4>1, <4>2, <4>3
    <3> QED BY <3>1, <3>2
  <2>3. CASE MainLoop /\ ~CharPrinted
    <3>1. ~masked /\ UNCHANGED <<transmit, spdr, pending>>
      BY <2>3, Zenon DEF MainLoop, StartDecode, AddDummy, FetchFirst, FetchSecond, FetchPrint,
         FetchNothing, FillTx, PrintChar, FlushRx, ClearNewMsg, isrVars, MainStep
    <3> QED BY <1>0, <1>5, <3>1
  <2>4. CASE UNCHANGED vars
    <3>1. UNCHANGED <<transmit, spdr, pending, masked>>
      BY <2>4 DEF vars, isrVars, uartVars
    <3> QED BY <1>0, <1>5, <2>1, <3>1
  <2> QED BY <1>5, <2>2, <2>3, <2>4
<1> QED
  BY <1>2, <1>3, <1>4, <1>5, SentStep

\* The steps of the main loop that may happen while the host reads.
LEMMA PassingSteps ==
  ASSUME Pacing, Reading, MainLoop \/ UNCHANGED vars
  PROVE  FillTx \/ PrintChar \/ CharPrinted \/ FlushRx \/ ClearNewMsg \/ UNCHANGED vars
  BY NoDecode DEF MainLoop

\* An exchange of 0x00 in Tx mode that brings 0x00: nothing is left to be sent.
LEMMA ZeroBrought ==
  ASSUME Pacing, TxVisible, noOp = 0, Exchange(Zero), ~masked => transmit,
         spdr'.sym = "zero", avr # "uart"
  PROVE  /\ tx = <<>> /\ tx' = <<>> /\ todo = <<>> /\ todo' = <<>>
         /\ avr \in {"fill", "clear", "loop"} /\ avr' = avr
<1>1. /\ ~Held(Zero) /\ avr' = avr /\ todo' = todo
      /\ avr = "fetch2" => tx = <<Dummy>>
      /\ avr = "fill" /\ todo # <<>> => tx # <<>>
      /\ avr \notin {"dummy", "fetch1"}
  BY ExchangeOutcome DEF Held
<1>2. tx = <<>> /\ tx' = <<>>
  BY <1>1, ZeroExchanged
<1>3. avr \in {"loop", "dummy", "fetch1", "fetch2", "fill", "uart", "clear"}
  BY DEF Pacing, AnswerBase, Typed, Counters
<1>4. avr \in {"fill", "clear", "loop"}
  BY <1>1, <1>2, <1>3, OneDummy
<1>5. todo = <<>>
  BY <1>1, <1>2, <1>4 DEF Pacing, AnswerBase, AnswerInv, AllAdded
<1> QED BY <1>1, <1>2, <1>4, <1>5

LEMMA StepOut == Passing /\ [Next]_vars => Out'
<1> SUFFICES ASSUME Passing, [Next]_vars, Reading', spdr'.sym = "zero", avr' # "uart"
             PROVE  /\ tx' \in {<<>>, <<Dummy>>} /\ todo' = <<>>
                    /\ avr' \in {"fill", "clear", "loop"}
  BY DEF Out
<1>0. /\ Pacing /\ TxVisible /\ Sent'
      /\ Sent => (~masked => transmit)
      /\ Reading /\ spdr.sym = "zero" /\ avr # "uart" =>
           tx \in {<<>>, <<Dummy>>} /\ todo = <<>> /\ avr \in {"fill", "clear", "loop"}
      /\ avr = "uart" => tx \in {<<>>, <<Dummy>>}
  BY DEF Passing, Pacing, Ahead, Switched, Out, Sent
<1>1. ASSUME noOp = 0, Exchange(Zero), Sent
      PROVE  tx' = <<>> /\ todo' = <<>> /\ avr' \in {"fill", "clear", "loop"}
  <2>1. avr' = avr
    BY <1>0, <1>1, ExchangeOutcome
  <2> QED BY <1>0, <1>1, <2>1, ZeroBrought
<1>2. CASE WriteByte /\ Exchange(Zero) /\ noOp = 0 /\ Len(outgoing) \in {1, 2}
           /\ (Sent <=> Len(outgoing) = 1)
           /\ host' = IF Len(outgoing) = 1 THEN "between" ELSE "write"
  BY <1>1, <1>2 DEF Reading
<1>3. CASE Sent /\ Reading /\ StartRead
  <2>1. UNCHANGED <<spdr, tx, avr, todo>>
    BY <1>3, CallerOnly DEF HostOnly
  <2> QED BY <1>0, <1>3, <2>1
<1>4. CASE Sent /\ Reading /\ (ReadByte \/ SyncByte) /\ Exchange(Zero) /\ noOp = 0
  BY <1>1, <1>4
<1>5. CASE Sent /\ (MainLoop \/ UNCHANGED vars) /\ UNCHANGED <<host, outgoing, incoming, reads>>
  <2>0. Reading
    BY <1>5 DEF Reading
  <2>1. FillTx \/ PrintChar \/ CharPrinted \/ FlushRx \/ ClearNewMsg \/ UNCHANGED vars
    BY <1>0, <1>5, <2>0, PassingSteps
  <2>2. CASE FillTx
    <3>1. avr = "fill" /\ todo # <<>> /\ spdr' = spdr
      BY <2>2 DEF FillTx, MainStep
    <3> QED BY <1>0, <2>0, <3>1
  <2>3. CASE PrintChar
    BY <2>3 DEF PrintChar, MainStep
  <2>4. CASE CharPrinted
    BY <2>4 DEF CharPrinted, loopVars, Passing, Pacing, AnswerBase, AnswerInv, Printing
  <2>5. CASE FlushRx
    <3>1. /\ avr \in {"fill", "uart"} /\ avr' = "clear" /\ todo = <<>>
          /\ UNCHANGED <<spdr, tx, todo>>
      BY <2>5 DEF FlushRx, MainStep
    <3> QED BY <1>0, <2>0, <3>1
  <2>6. CASE ClearNewMsg
    <3>1. avr = "clear" /\ avr' = "loop" /\ UNCHANGED <<spdr, tx, todo>>
      BY <2>6 DEF ClearNewMsg, MainStep
    <3> QED BY <1>0, <2>0, <3>1
  <2>7. CASE UNCHANGED vars
    <3>1. UNCHANGED <<spdr, tx, avr, todo>>
      BY <2>7 DEF vars, isrVars, loopVars
    <3> QED BY <1>0, <2>0, <3>1
  <2> QED BY <2>1, <2>2, <2>3, <2>4, <2>5, <2>6, <2>7
<1> QED
  BY <1>0, <1>2, <1>3, <1>4, <1>5, SentStep

----------------------------------------------------------------------------
\* What is under way fits the buffer, so nothing of an answer is dropped and no
\* read ends because its limit is reached.
LEMMA Lengths3 ==
  ASSUME Typed
  PROVE  /\ Len(tx) \in Nat /\ Len(todo) \in Nat /\ Len(incoming) \in Nat
         /\ Filling \in Nat /\ Shown \in {0, 1}
  BY LenProperties DEF Typed, Carried, Filling, Shown

\* A byte of the answer that goes from the buffer into SPDR.
LEMMA ShiftOut ==
  ASSUME Typed, \/ tx # <<>> /\ tx' = Tail(tx)
                \/ tx' = tx /\ spdr' = Zero
  PROVE  Len(tx') + Shown' <= Len(tx) /\ Len(tx') \in Nat
<1>1. tx \in Seq(Bytes)
  BY DEF Typed, Carried
<1>2. CASE tx # <<>> /\ tx' = Tail(tx)
  <2>1. Len(tx') = Len(tx) - 1 /\ Len(tx) \in Nat \ {0}
    BY <1>1, <1>2, TakeOne
  <2> QED BY <2>1 DEF Shown
<1>3. CASE tx' = tx /\ spdr' = Zero
  BY <1>1, <1>3, LenProperties DEF Shown, Zero, Byte
<1> QED BY <1>2, <1>3

LEMMA StepTyping == AnswerBase /\ [Next]_vars => Typed'
  BY StepTyped DEF AnswerBase

LEMMA StepLoadTx == Passing /\ [Next]_vars => Len(tx') + Filling' <= TxSize
<1> SUFFICES ASSUME Passing, [Next]_vars PROVE Len(tx') + Filling' <= TxSize
  OBVIOUS
<1>0. /\ Typed /\ Typed' /\ TxSize \in Nat \ {0} /\ Len(tx) + Filling <= TxSize /\ Pacing
      /\ Len(tx) \in Nat /\ Len(todo) \in Nat /\ Filling \in Nat
      /\ tx \in Seq(Bytes) /\ todo \in Seq(Bytes)
      /\ Len(<<>>) = 0 /\ Len(<<Dummy>>) = 1
  BY StepTyping, Lengths3, SizesAssumption, OneDummy
     DEF Passing, Load, Pacing, AnswerBase, Typed, Carried
<1>1. ASSUME tx' = tx \/ (tx # <<>> /\ tx' = Tail(tx)), UNCHANGED <<avr, todo>>
      PROVE  Len(tx') + Filling' <= TxSize
  <2>1. Len(tx') <= Len(tx) /\ Len(tx') \in Nat
    BY <1>0, <1>1, TakeOne
  <2>2. Filling' = Filling
    BY <1>1 DEF Filling
  <2> QED BY <1>0, <2>1, <2>2
<1>2. CASE WriteByte \/ ReadByte \/ SyncByte
  <2>1. ASSUME NEW b, Exchange(b)
        PROVE  (tx' = tx \/ (tx # <<>> /\ tx' = Tail(tx))) /\ UNCHANGED <<avr, todo>>
    BY <1>0, <2>1, ExchangeOutcome, IsrTx DEF Held
  <2> QED BY <1>1, <1>2, <2>1 DEF WriteByte, ReadByte, SyncByte
<1>3. CASE HostOnly \/ UNCHANGED vars
  <2>1. UNCHANGED <<tx, avr, todo>>
    BY <1>3, CallerOnly DEF vars, isrVars, loopVars
  <2> QED BY <1>1, <2>1
<1>4. CASE Reflash \/ StartDecode
  <2>1. tx' = <<>> /\ avr' # "fill"
    BY <1>4 DEF Reflash, StartDecode, MainStep
  <2> QED BY <1>0, <2>1 DEF Filling
<1>5. CASE AddDummy
  <2>1. avr' # "fill"
    BY <1>5 DEF AddDummy, MainStep
  <2> QED BY <1>0, <2>1 DEF Filling, Typed, Lengths
<1>6. CASE FetchSecond \/ FetchNothing \/ FetchPrint
  <2>1. tx \in {<<>>, <<Dummy>>}
    BY <1>6 DEF FetchSecond, FetchNothing, FetchPrint, MainStep, Passing, Pacing, Ahead
  <2>2. tx' = tx /\ (avr' = "fill" => Len(todo') <= TxSize - 1)
    BY <1>0, <1>6, FetchedTodo
  <2>3. Len(todo') \in Nat
    BY <1>0, LenProperties DEF Typed, Carried
  <2>4. Len(tx') <= 1 /\ Len(tx') \in Nat
    <3>1. tx' = <<>> \/ tx' = <<Dummy>>
      BY <2>1, <2>2
    <3> QED BY <3>1, OneDummy
  <2>5. Filling' <= TxSize - 1 /\ Filling' \in Nat
    BY <1>0, <2>2, <2>3 DEF Filling
  <2> QED BY <1>0, <2>4, <2>5
<1>7. CASE FillTx
  <2>1. /\ avr = "fill" /\ avr' = "fill" /\ todo # <<>> /\ todo' = Tail(todo)
        /\ tx' = Appended(tx, Head(todo), TxSize)
    BY <1>7 DEF FillTx, MainStep
  <2>2. Len(todo') = Len(todo) - 1 /\ Head(todo) \in Bytes /\ Len(todo) > 0
    BY <1>0, <2>1, TakeOne, HeadTailIn
  <2>3. Len(tx) < TxSize
    BY <1>0, <2>1, <2>2 DEF Filling
  <2>4. Len(tx') = Len(tx) + 1
    BY <1>0, <2>1, <2>2, <2>3, AddOne
  <2> QED BY <1>0, <2>1, <2>2, <2>4 DEF Filling
<1>8. CASE CharPrinted
  <2>1. tx' = tx \/ (tx # <<>> /\ tx' = Tail(tx))
    BY <1>8, IsrTx DEF CharPrinted, isrVars
  <2>2. UNCHANGED <<avr, todo>>
    BY <1>8 DEF CharPrinted, loopVars
  <2> QED BY <1>1, <2>1, <2>2
<1>9. CASE FetchFirst \/ PrintChar \/ FlushRx \/ ClearNewMsg
  <2>1. tx' = tx /\ avr' # "fill"
    BY <1>9 DEF FetchFirst, PrintChar, FlushRx, ClearNewMsg, MainStep, isrVars
  <2> QED BY <1>0, <2>1 DEF Filling
<1> QED
  BY <1>2, <1>3, <1>4, <1>5, <1>6, <1>7, <1>8, <1>9 DEF Next, HostStep, HostOnly, MainLoop

LEMMA StepLoad == Passing /\ [Next]_vars => Load'
<1> SUFFICES ASSUME Passing, [Next]_vars, Reading'
             PROVE  Len(incoming') + Shown' + Len(tx') + Filling' <= TxSize
  BY StepLoadTx DEF Load
<1>0. /\ Typed /\ Typed' /\ TxSize \in Nat \ {0} /\ Pacing /\ TxVisible /\ Sent'
      /\ Len(tx) + Filling <= TxSize
      /\ Reading => Len(incoming) + Shown + Len(tx) + Filling <= TxSize
      /\ Sent => (pending # <<>> => spdr = Zero)
      /\ Len(<<>>) = 0 /\ tx \in Seq(Bytes) /\ todo \in Seq(Bytes)
  BY StepTyping, SizesAssumption, OneDummy
     DEF Passing, Load, Pacing, AnswerBase, Typed, Carried, Sent, Switched
<1>a. /\ Len(tx) \in Nat /\ Len(todo) \in Nat /\ Len(incoming) \in Nat
      /\ Filling \in Nat /\ Shown \in {0, 1}
      /\ Len(tx') \in Nat /\ Len(todo') \in Nat /\ Len(incoming') \in Nat
      /\ Filling' \in Nat /\ Shown' \in {0, 1}
  BY <1>0, Lengths3 DEF Typed, Carried, Filling, Shown
<1>1. ASSUME noOp = 0, Exchange(Zero)
      PROVE  Len(tx') + Shown' <= Len(tx) /\ Filling' = Filling
  <2>1. \/ tx # <<>> /\ tx' = Tail(tx)
        \/ tx' = tx /\ spdr' = Zero
    BY <1>0, <1>1, ZeroExchanged DEF Held
  <2>2. UNCHANGED <<avr, todo>>
    BY <1>0, <1>1, ZeroExchanged
  <2> QED BY <1>0, <2>1, <2>2, ShiftOut DEF Filling
<1>2. CASE /\ WriteByte /\ Exchange(Zero) /\ noOp = 0 /\ incoming' = <<>>
  BY <1>0, <1>a, <1>1, <1>2
<1>3. CASE Sent /\ Reading /\ StartRead
  <2>1. UNCHANGED <<spdr, tx, avr, todo, incoming>>
    BY <1>3, CallerOnly DEF HostOnly, StartRead
  <2>2. Shown' = Shown /\ Filling' = Filling
    BY <2>1 DEF Shown, Filling
  <2> QED BY <1>0, <1>3, <2>1, <2>2
<1>4. CASE Sent /\ Reading /\ (ReadByte \/ SyncByte) /\ Exchange(Zero) /\ noOp = 0
  <2>1. Len(incoming') <= Len(incoming) + Shown
    <3>1. CASE incoming' = incoming
      BY <1>a, <3>1
    <3>2. CASE spdr.sym # "zero" /\ incoming' = Append(incoming, spdr)
      <4>1. Len(incoming') = Len(incoming) + 1
        BY <1>0, <3>2, AppendProperties DEF Typed, Carried
      <4> QED BY <1>a, <3>2, <4>1 DEF Shown
    <3> QED BY <1>4, <3>1, <3>2 DEF ReadByte, SyncByte
  <2> QED BY <1>0, <1>a, <1>1, <1>4, <2>1
<1>5. CASE Sent /\ (MainLoop \/ UNCHANGED vars) /\ UNCHANGED <<host, outgoing, incoming, reads>>
  <2>0. Reading
    BY <1>5 DEF Reading
  <2>1. FillTx \/ PrintChar \/ CharPrinted \/ FlushRx \/ ClearNewMsg \/ UNCHANGED vars
    BY <1>0, <1>5, <2>0, PassingSteps
  <2>2. CASE FillTx
    <3>1. /\ avr = "fill" /\ avr' = "fill" /\ todo # <<>> /\ todo' = Tail(todo) /\ spdr' = spdr
          /\ tx' = Appended(tx, Head(todo), TxSize)
      BY <2>2 DEF FillTx, MainStep
    <3>2. Len(todo') = Len(todo) - 1 /\ Head(todo) \in Bytes
      BY <1>0, <3>1, TakeOne, HeadTailIn
    <3>3. Len(tx') <= Len(tx) + 1
      <4>1. CASE Len(tx) < TxSize
        BY <1>0, <3>1, <3>2, <4>1, AddOne
      <4>2. CASE ~(Len(tx) < TxSize)
        BY <1>a, <3>1, <4>2 DEF Appended, HasRoom
      <4> QED BY <4>1, <4>2
    <3>4. Filling' = Filling - 1 /\ Shown' = Shown
      BY <3>1, <3>2 DEF Filling, Shown
    <3> QED BY <1>0, <1>5, <1>a, <2>0, <3>3, <3>4
  <2>3. CASE CharPrinted
    <3>1. UNCHANGED <<avr, todo>>
      BY <2>3 DEF CharPrinted, loopVars
    <3>2. \/ UNCHANGED <<tx, spdr>>
          \/ tx # <<>> /\ tx' = Tail(tx)
          \/ tx' = tx /\ spdr' = Zero
      BY <1>0, <1>5, <2>3, PrintedOutcome
    <3>3. Len(tx') + Shown' <= Len(tx) + Shown
      <4>1. CASE UNCHANGED <<tx, spdr>>
        BY <1>a, <4>1 DEF Shown
      <4>2. CASE (tx # <<>> /\ tx' = Tail(tx)) \/ (tx' = tx /\ spdr' = Zero)
        BY <1>0, <1>a, <4>2, ShiftOut
      <4> QED BY <3>2, <4>1, <4>2
    <3>4. Filling' = Filling
      BY <3>1 DEF Filling
    <3> QED BY <1>0, <1>5, <1>a, <2>0, <3>3, <3>4
  <2>4. CASE PrintChar \/ FlushRx \/ ClearNewMsg
    <3>1. UNCHANGED <<spdr, tx>> /\ avr' # "fill"
      BY <2>4 DEF PrintChar, FlushRx, ClearNewMsg, MainStep, isrVars
    <3>2. Filling' = 0 /\ Shown' = Shown
      BY <3>1 DEF Filling, Shown
    <3> QED BY <1>0, <1>5, <1>a, <2>0, <3>1, <3>2
  <2>5. CASE UNCHANGED vars
    <3>1. UNCHANGED <<spdr, tx, avr, todo>>
      BY <2>5 DEF vars, isrVars, loopVars
    <3>2. Shown' = Shown /\ Filling' = Filling
      BY <3>1 DEF Shown, Filling
    <3> QED BY <1>0, <1>5, <2>0, <3>1, <3>2
  <2> QED BY <2>1, <2>2, <2>3, <2>4, <2>5
<1> QED
  BY <1>0, <1>2, <1>3, <1>4, <1>5, SentStep

\* A read ends at a 0x00, never at its limit.
LEMMA ReadOutcome ==
  ASSUME Passing, ReadByte
  PROVE  /\ Reading /\ Exchange(Zero) /\ noOp = 0 /\ UNCHANGED <<reads, call, msg, outgoing>>
         /\ \/ spdr.sym = "zero" /\ host' = "sync" /\ incoming' = incoming
            \/ /\ spdr.sym # "zero" /\ host' = "read" /\ incoming' = Append(incoming, spdr)
               /\ Len(incoming') = Len(incoming) + 1 /\ Len(incoming) \in Nat
               /\ \A j \in 1 .. Len(incoming) : incoming'[j] = incoming[j]
               /\ incoming'[Len(incoming) + 1] = spdr
<1>1. Reading /\ Exchange(Zero) /\ UNCHANGED <<reads, call, msg, outgoing>>
  BY ReadExchange DEF ReadByte, Reading
<1>2. noOp = 0
  BY <1>1, NoDecode DEF Passing
<1>3. CASE spdr.sym = "zero"
  BY <1>1, <1>2, <1>3 DEF ReadByte
<1>4. CASE spdr.sym # "zero"
  <2>1. /\ incoming' = Append(incoming, spdr)
        /\ host' = IF Len(incoming) + 1 = MaxRead THEN "between" ELSE "read"
    BY <1>4 DEF ReadByte
  <2>2. incoming \in Seq(Bytes) /\ spdr \in Bytes
    BY DEF Passing, Pacing, AnswerBase, Typed, Carried
  <2>3. /\ Len(Append(incoming, spdr)) = Len(incoming) + 1 /\ Len(incoming) \in Nat
        /\ \A j \in 1 .. Len(incoming) : Append(incoming, spdr)[j] = incoming[j]
        /\ Append(incoming, spdr)[Len(incoming) + 1] = spdr
    BY <2>2, AppendProperties, LenProperties
  <2>4. Len(incoming) + 1 <= TxSize
    <3>1. Len(incoming) + Shown + Len(tx) + Filling <= TxSize /\ Shown = 1
      BY <1>1, <1>4 DEF Passing, Load, Shown
    <3>2. Len(tx) \in Nat /\ Filling \in Nat
      BY Lengths3 DEF Passing, Pacing, AnswerBase
    <3> QED BY <2>3, <3>1, <3>2, SizesAssumption
  <2>5. host' = "read"
    BY <2>1, <2>3, <2>4, SizesAssumption, RoomAssumption
  <2> QED BY <1>1, <1>2, <1>4, <2>1, <2>3, <2>5
<1> QED BY <1>3, <1>4

----------------------------------------------------------------------------
\* While the host reads, a character never lasts from the first 0x00 to the end
\* of the call.
Finishing == Passing /\ Finished /\ CharTime < 2 * Retries + 4

LEMMA StepFinished == Finishing /\ [Next]_vars => Finished'
<1> SUFFICES ASSUME Finishing, [Next]_vars, Ending'
             PROVE  /\ tx' \in {<<>>, <<Dummy>>}
                    /\ host' = "between" =>
                         transmit' /\ (tx' = <<>> \/ (masked' /\ pending' # <<>>))
                    /\ avr' # "uart" => /\ todo' = <<>> /\ avr' \in {"fill", "clear", "loop"}
                                        /\ avr' = "fill" => steps' = 0
  BY DEF Finished, Ending
<1>0. /\ Passing /\ Pacing /\ TxVisible /\ Sent' /\ Typed /\ Switched'
      /\ Sent => /\ pending # <<>> => spdr = Zero
                 /\ ~masked => transmit
      /\ Ending => /\ tx \in {<<>>, <<Dummy>>}
                   /\ host = "between" => transmit /\ (tx = <<>> \/ (masked /\ pending # <<>>))
                   /\ avr # "uart" => /\ todo = <<>> /\ avr \in {"fill", "clear", "loop"}
                                      /\ avr = "fill" => steps = 0
      /\ avr = "uart" => tx \in {<<>>, <<Dummy>>}
  BY StepSwitched DEF Finishing, Finished, Ending, Passing, Pacing, AnswerBase, Sent, Reading,
     Switched, Ahead
<1>a. \A q : q \in {<<>>, <<Dummy>>} /\ q # <<>> => Tail(q) = <<>>
  BY OneDummy
<1>1. CASE WriteByte /\ incoming' = <<>> /\ reads' = reads /\ reads = Retries + 1
  <2>1. reads' # 0
    BY <1>1, SizesAssumption
  <2> QED BY <1>1, <2>1 DEF Ending
<1>2. CASE StartRead
  BY <1>2 DEF StartRead, Ending
<1>3. CASE Sent /\ ReadByte /\ noOp = 0 /\ Exchange(Zero)
  <2>1. spdr.sym = "zero" /\ host' = "sync" /\ Reading
    BY <1>0, <1>3, ReadOutcome DEF Ending
  <2>2. tx \in {<<>>, <<Dummy>>} /\ (avr # "uart" => todo = <<>> /\ avr \in {"fill", "clear", "loop"})
    BY <1>0, <2>1 DEF Passing, Out
  <2>3. /\ UNCHANGED <<avr, todo>> /\ steps' = 0
        /\ tx' = tx \/ (tx # <<>> /\ tx' = Tail(tx))
    BY <1>0, <1>3, ZeroExchanged DEF Held
  <2> QED BY <1>a, <2>1, <2>2, <2>3
<1>4. CASE Sent /\ SyncByte /\ noOp = 0 /\ Exchange(Zero)
  <2>1. host = "sync" /\ host' = "between" /\ UNCHANGED <<reads, incoming>>
    BY <1>4 DEF SyncByte
  <2>2. /\ tx \in {<<>>, <<Dummy>>}
        /\ avr # "uart" => todo = <<>> /\ avr \in {"fill", "clear", "loop"}
    BY <1>0, <2>1 DEF Ending
  <2>3. UNCHANGED <<avr, todo, masked>> /\ steps' = 0
    BY <1>0, <1>4, ZeroExchanged
  <2>4. CASE Held(Zero)
    <3>1. pending' # <<>> /\ masked' /\ tx' = tx
      BY <1>0, <2>3, <2>4, HeldPending, ZeroAndDummy DEF Held
    <3>2. transmit'
      <4>1. SUFFICES ASSUME ~transmit' PROVE FALSE
        OBVIOUS
      <4>2. incoming' = <<>> /\ Len(pending') >= ZerosSent'
        BY <1>0, <4>1 DEF Switched
      <4>3. reads' = 0
        BY <4>2 DEF Ending
      <4>4. ZerosSent' = 2 * Retries + 4
        BY <2>1, <4>3, SizesAssumption DEF ZerosSent
      <4>5. Len(pending') <= CharTime /\ Len(pending') \in Nat
        BY <1>0, StepTyping, LenProperties DEF Pacing, Typed, Carried, Lengths
      <4> QED BY <4>2, <4>4, <4>5, SizesAssumption DEF Finishing
    <3> QED BY <2>2, <2>3, <3>1, <3>2
  <2>5. CASE ~Held(Zero)
    <3>1. /\ ~masked /\ transmit'
          /\ \/ transmit /\ tx # <<>> /\ tx' = Tail(tx)
             \/ ~(transmit /\ tx # <<>>) /\ tx' = tx
      BY <1>0, <1>4, <2>5, ZeroExchanged
    <3>2. tx' = <<>>
      BY <1>0, <1>4, <1>a, <2>2, <3>1
    <3> QED BY <2>2, <2>3, <3>1, <3>2
  <2> QED BY <2>4, <2>5
<1>5. CASE Sent /\ (MainLoop \/ UNCHANGED vars) /\ UNCHANGED <<host, incoming, reads>>
  <2>0. Reading /\ Ending
    BY <1>5 DEF Reading, Ending
  <2>1. FillTx \/ PrintChar \/ CharPrinted \/ FlushRx \/ ClearNewMsg \/ UNCHANGED vars
    BY <1>0, <1>5, <2>0, PassingSteps
  <2>2. CASE FillTx
    <3>1. avr = "fill" /\ todo # <<>>
      BY <2>2 DEF FillTx, MainStep
    <3> QED BY <1>0, <2>0, <3>1
  <2>3. CASE PrintChar
    <3>1. ~masked /\ avr' = "uart" /\ UNCHANGED <<tx, transmit>>
      BY <2>3 DEF PrintChar, MainStep, isrVars
    <3> QED BY <1>0, <1>5, <2>0, <3>1
  <2>4. CASE CharPrinted
    <3>1. /\ avr = "uart" /\ avr' = avr
          /\ \/ pending = <<>> /\ UNCHANGED <<tx, transmit>>
             \/ /\ pending # <<>> /\ transmit'
                /\ \/ transmit /\ tx # <<>> /\ tx' = Tail(tx)
                   \/ ~(transmit /\ tx # <<>>) /\ tx' = tx
      BY <1>0, <1>5, <2>4, PrintedOutcome
    <3>2. tx' \in {<<>>, <<Dummy>>}
      BY <1>0, <1>a, <2>0, <3>1
    <3>3. host' = "between" => transmit' /\ tx' = <<>>
      BY <1>0, <1>5, <1>a, <2>0, <3>1
    <3> QED BY <3>1, <3>2, <3>3
  <2>5. CASE FlushRx
    <3>1. /\ ~masked /\ avr' = "clear" /\ todo' = <<>> /\ UNCHANGED <<tx, transmit>>
      BY <2>5 DEF FlushRx, MainStep
    <3> QED BY <1>0, <1>5, <2>0, <3>1
  <2>6. CASE ClearNewMsg
    <3>1. ~masked /\ avr = "clear" /\ avr' = "loop" /\ UNCHANGED <<tx, transmit, todo>>
      BY <2>6 DEF ClearNewMsg, MainStep
    <3> QED BY <1>0, <1>5, <2>0, <3>1
  <2>7. CASE UNCHANGED vars
    <3>1. UNCHANGED <<tx, transmit, todo, avr, masked, pending, steps, host>>
      BY <2>7 DEF vars, isrVars, loopVars, uartVars, hostVars
    <3> QED BY <1>0, <2>0, <3>1
  <2> QED BY <2>1, <2>2, <2>3, <2>4, <2>5, <2>6, <2>7
<1> QED
  BY <1>0, <1>1, <1>2, <1>3, <1>4, <1>5, SentStep

----------------------------------------------------------------------------
\* A letter that arrives while the main loop ends a command is lost or stays in
\* the buffer; it stays there only if the rest of its message stays with it.
Cleaning == Finishing /\ Clean

LEMMA InitClean == Init => Clean
  BY DEF Init, Clean

LEMMA StepClean == Cleaning /\ [Next]_vars => Clean'
<1> SUFFICES ASSUME Cleaning, [Next]_vars PROVE Clean'
  OBVIOUS
<1>0. /\ Pacing /\ TxVisible /\ AnswerBase /\ Typed
      /\ \/ host = "write" /\ Len(outgoing) > 2
         \/ avr \notin {"clear", "loop"} \/ (avr = "loop" /\ newMsg)
         \/ rx = <<>>
      /\ avr = "clear" /\ rx # <<>> => steps = 0
      /\ avr \in {"clear", "loop"} /\ rx # <<>> => tx = <<>> \/ ~transmit
  BY DEF Cleaning, Clean, Finishing, Passing, Pacing, AnswerBase
<1>1. ASSUME UNCHANGED <<rx, tx, transmit, newMsg, avr, steps>>,
             host = "write" /\ Len(outgoing) > 2 => host' = "write" /\ Len(outgoing') > 2
      PROVE  Clean'
  BY <1>0, <1>1, Zenon DEF Clean
<1>2. ASSUME NEW m \in Messages, CommandToMCU(m) PROVE Clean'
  <2>1. UNCHANGED <<rx, tx, transmit, newMsg, avr, steps>>
    BY <1>2, CallerOnly DEF HostOnly
  <2>2. Len(outgoing') = Len(m) + 3
    <3>1. call + 1 \in Nat
      BY <1>0, SizesAssumption DEF Typed, Counters
    <3>2. outgoing' = Tagged(m, call + 1) \o <<Dot, Zero, Zero>>
      BY <1>2 DEF CommandToMCU
    <3> QED BY <3>1, <3>2, CommandIsOrdered
  <2>3. host' = "write" /\ Len(outgoing') > 2
    BY <1>2, <2>2, MessageLength DEF CommandToMCU
  <2> QED BY <1>1, <2>1, <2>3
\* 0x00 leaves the buffer as it is, and meets an empty one.
<1>3. ASSUME noOp = 0, Exchange(Zero), host # "write" \/ Len(outgoing) <= 2, Len(outgoing) \in Nat
      PROVE  Clean'
  <2>1. UNCHANGED <<avr, newMsg, rx>> /\ steps' = 0
    BY <1>0, <1>3, ZeroExchanged
  <2>2. avr \notin {"clear", "loop"} \/ (avr = "loop" /\ newMsg) \/ rx = <<>>
    BY <1>0, <1>3
  <2>3. ~(newMsg /\ avr = "loop")
    BY <1>0, <1>3, ExchangeOutcome
  <2> QED BY <2>1, <2>2, <2>3 DEF Clean
<1>4. CASE WriteByte
  <2>1. /\ Exchange(Head(outgoing)) /\ Len(outgoing) \in Nat \ {0}
        /\ Len(outgoing') = Len(outgoing) - 1 /\ host = "write"
        /\ host' = IF Len(outgoing) = 1 THEN "between" ELSE "write"
        /\ Len(outgoing) <= 2 => Head(outgoing) = Zero
        /\ Len(outgoing) = 3 => Head(outgoing) = Dot
    BY <1>0, <1>4, WrittenByte DEF WriteByte
  <2>2. CASE Len(outgoing) <= 2
    <3>1. noOp = 0
      BY <1>0, <2>1, <2>2 DEF Pacing, NoOps, Typed, Counters
    <3> QED BY <1>3, <2>1, <2>2, <3>1
  <2>3. CASE Len(outgoing) > 2
    <3> DEFINE b == Head(outgoing)
    <3>0. /\ steps' = 0 /\ avr' = avr /\ ~(newMsg /\ avr = "loop")
          /\ avr = "clear" => steps >= 3
          /\ avr \in {"clear", "loop"} => Isr(b)
      BY <1>0, <2>1, ExchangeOutcome DEF Held
    <3>1. ASSUME avr \in {"clear", "loop"}, rx' # <<>>
          PROVE  /\ tx' = <<>> \/ ~transmit'
                 /\ Len(outgoing) = 3 => avr = "loop" /\ newMsg'
      <4>1. noOp > 0 => rx = <<>>
        BY <1>0 DEF Pacing, NoOps
      <4>2. CASE IsrNoOp(b)
        BY <3>1, <4>1, <4>2 DEF IsrNoOp
      <4>3. CASE IsrTransmit
        BY <1>0, <3>1, <4>3 DEF IsrTransmit
      <4>4. CASE IsrReceive(b)
        <5>1. b.sym # "zero"
          <6>1. Len(outgoing) > 3 => b.sym \notin {"zero", "dot"}
            BY <1>0, <1>4, WrittenByte
          <6> QED BY <2>1, <2>3, <6>1 DEF Dot, Byte
        <5>2. ~(transmit /\ tx # <<>>) /\ UNCHANGED <<tx, transmit>>
          BY <4>4, <5>1 DEF IsrReceive
        <5>3. ASSUME Len(outgoing) = 3 PROVE avr = "loop" /\ newMsg'
          <6>1. newMsg' /\ rx' = rx
            BY <2>1, <4>4, <5>3 DEF IsrReceive, Dot, Byte
          <6>2. avr # "clear"
            BY <1>0, <3>0, <3>1, <6>1
          <6> QED BY <3>1, <6>1, <6>2
        <5> QED BY <5>2, <5>3
      <4> QED BY <3>0, <3>1, <4>2, <4>3, <4>4 DEF Isr
    <3>2. Len(outgoing) # 3 => host' = "write" /\ Len(outgoing') > 2
      BY <2>1, <2>3
    <3> QED BY <3>0, <3>1, <3>2 DEF Clean
  <2> QED BY <2>1, <2>2, <2>3
<1>5. CASE ReadByte \/ SyncByte
  <2>1. Reading /\ Exchange(Zero) /\ host # "write"
    BY <1>5, ReadExchange DEF Reading
  <2>2. noOp = 0
    BY <1>0, <2>1, NoDecode
  <2>3. Len(outgoing) \in Nat
    BY <1>0, LenProperties DEF Typed, Carried
  <2> QED BY <1>3, <2>1, <2>2, <2>3
<1>6. CASE StartRead \/ Return \/ Killed
  <2>1. UNCHANGED <<rx, tx, transmit, newMsg, avr, steps>> /\ host # "write"
    BY <1>6, CallerOnly DEF HostOnly, StartRead, Return, Killed
  <2> QED BY <1>1, <2>1
<1>7. CASE Reflash \/ FlushRx
  <2>1. rx' = <<>>
    BY <1>7 DEF Reflash, FlushRx
  <2> QED BY <2>1 DEF Clean
<1>8. CASE ClearNewMsg
  <2>1. /\ avr = "clear" /\ avr' = "loop" /\ UNCHANGED <<rx, tx, transmit, host, outgoing>>
    BY <1>8 DEF ClearNewMsg, MainStep, hostVars
  <2> QED BY <1>0, <2>1 DEF Clean
<1>9. CASE MainLoop /\ ~FlushRx /\ ~ClearNewMsg
  <2>1. avr' \notin {"clear", "loop"}
    BY <1>9 DEF MainLoop, StartDecode, AddDummy, FetchFirst, FetchSecond, FetchPrint,
       FetchNothing, FillTx, PrintChar, CharPrinted, MainStep, loopVars, Cleaning, Finishing,
       Passing, Pacing, AnswerBase, AnswerInv, Printing
  <2> QED BY <2>1 DEF Clean
<1>10. CASE UNCHANGED vars
  <2>1. UNCHANGED <<rx, tx, transmit, newMsg, avr, steps, host, outgoing>>
    BY <1>10 DEF vars, hostVars, isrVars, loopVars
  <2> QED BY <1>1, <2>1
<1> QED
  BY <1>2, <1>4, <1>5, <1>6, <1>7, <1>8, <1>9, <1>10 DEF Next, HostStep

----------------------------------------------------------------------------
\* A call that has returned leaves the shield in step for the next one.
Quieting == Cleaning /\ Settled /\ Quiet /\ Arriving

LEMMA InitQuiet == Init => Settled /\ Quiet /\ Arriving
  BY DEF Init, Settled, Quiet, Arriving

\* Only a return ends a call, and only a caller that comes while the shield
\* prints finds it unsettled after a return.
LEMMA EndedBefore ==
  ASSUME [Next]_vars, ended'
  PROVE  \/ Return
         \/ /\ ended /\ ~Killed /\ ~Reflash
            /\ settled' => settled
            /\ (\E m \in Messages : CommandToMCU(m)) \/ settled' = settled
<1>1. CASE Killed \/ Reflash
  BY <1>1 DEF Killed, Reflash
<1>2. CASE (\E m \in Messages : CommandToMCU(m)) \/ WriteByte \/ StartRead \/ ReadByte \/ SyncByte
  BY <1>2 DEF CommandToMCU, WriteByte, StartRead, ReadByte, SyncByte, Killed, Reflash
<1>3. CASE MainLoop \/ UNCHANGED vars
  BY <1>1, <1>3, ShieldOnly
<1> QED BY <1>1, <1>2, <1>3 DEF Next, HostStep

LEMMA SettledEnded ==
  ASSUME Settled, [Next]_vars
  PROVE  settled' => ended'
<1>1. CASE Return \/ Killed \/ Reflash
  BY <1>1 DEF Return, Killed, Reflash
<1>2. CASE (\E m \in Messages : CommandToMCU(m)) \/ WriteByte \/ StartRead \/ ReadByte \/ SyncByte
  BY <1>2 DEF CommandToMCU, WriteByte, StartRead, ReadByte, SyncByte, Settled
<1>3. CASE MainLoop \/ UNCHANGED vars
  BY <1>3, ShieldOnly DEF Settled
<1> QED BY <1>1, <1>2, <1>3 DEF Next, HostStep

LEMMA StepSettled == Quieting /\ [Next]_vars => Settled'
<1> SUFFICES ASSUME Quieting, [Next]_vars, ended' PROVE transmit' /\ noOp' = 0
  BY SettledEnded DEF Settled, Quieting
<1>0. /\ Passing /\ Pacing /\ AnswerBase /\ Typed /\ (ended => transmit /\ noOp = 0)
      /\ TxVisible /\ Finished
  BY DEF Quieting, Settled, Cleaning, Finishing, Passing, Pacing, AnswerBase
<1>1. CASE Return
  <2>1. Reading /\ Ending /\ host = "between" /\ UNCHANGED <<transmit, noOp>>
    BY <1>1, CallerOnly DEF HostOnly, Return, Reading, Ending
  <2>2. noOp = 0
    BY <1>0, <2>1, NoDecode
  <2>3. transmit
    BY <1>0, <2>1 DEF Finished
  <2> QED BY <2>1, <2>2, <2>3
<1>2. CASE ~Return
  <2>0. ended /\ transmit /\ noOp = 0 /\ ~Killed /\ ~Reflash
    BY <1>0, <1>2, EndedBefore
  <2>1. ASSUME NEW b, Isr(b) PROVE transmit' /\ noOp' = 0
    <3>1. ~IsrNoOp(b)
      BY <2>0 DEF IsrNoOp
    <3> QED BY <2>0, <2>1, <3>1 DEF Isr, IsrTransmit, IsrReceive
  <2>2. ASSUME NEW b, Exchange(b) PROVE transmit' /\ noOp' = 0
    BY <2>0, <2>1, <2>2, Zenon DEF Exchange
  <2>3. CASE WriteByte \/ ReadByte \/ SyncByte
    BY <2>2, <2>3 DEF WriteByte, ReadByte, SyncByte
  <2>4. CASE HostOnly \/ UNCHANGED vars
    <3>1. UNCHANGED <<transmit, noOp>>
      BY <2>4, CallerOnly DEF vars, isrVars
    <3> QED BY <2>0, <3>1
  <2>5. CASE MainLoop
    BY <2>0, <2>1, <2>5, Zenon DEF MainLoop, StartDecode, AddDummy, FetchFirst, FetchSecond, FetchPrint,
       FetchNothing, FillTx, PrintChar, CharPrinted, FlushRx, ClearNewMsg, isrVars
  <2> QED BY <1>2, <2>0, <2>3, <2>4, <2>5 DEF Next, HostStep, HostOnly
<1> QED BY <1>1, <1>2

\* A byte arrives while the main loop rests: the handler waits for the end of a
\* character, or has nothing to send and receives it.
LEMMA RestingExchange ==
  ASSUME Pacing, NEW b, Exchange(b), Resting, noOp = 0
  PROVE  /\ steps' = 0 /\ UNCHANGED <<avr, todo, masked>>
         /\ avr \in {"uart", "clear", "loop"} /\ (avr = "clear" => steps >= 3)
         /\ \/ Held(b)
            \/ tx = <<>> /\ tx' = <<>> /\ IsrReceive(b)
<1>1. /\ steps' = 0 /\ UNCHANGED <<avr, todo, masked>>
      /\ avr = "clear" => steps >= 3
      /\ avr = "fill" => steps >= 3
      /\ Held(b) \/ (~masked /\ Isr(b))
  BY ExchangeOutcome
<1>2. avr \in {"uart", "clear", "loop"}
  BY <1>1 DEF Resting
<1>3. ASSUME ~masked, Isr(b) PROVE tx = <<>> /\ tx' = <<>> /\ IsrReceive(b)
  <2>1. tx = <<>>
    BY <1>3 DEF Resting
  <2>2. ~IsrNoOp(b) /\ ~IsrTransmit
    BY <2>1 DEF IsrNoOp, IsrTransmit
  <2> QED BY <1>3, <2>1, <2>2 DEF Isr, IsrReceive
<1> QED BY <1>1, <1>2, <1>3

\* What of a message arrives in the buffer.
LEMMA OursAppended ==
  ASSUME Typed, AnswerBase, WriteByte, Len(outgoing) > 3, rx \in Seq(Ours)
  PROVE  Appended(rx, Head(outgoing), RxSize) \in Seq(Ours)
<1>1. /\ Head(outgoing) = Byte(msg[Len(msg) + 4 - Len(outgoing)], call)
      /\ Head(outgoing) \in Bytes
  BY WrittenByte
<1>2. Head(outgoing) \in Ours
  BY <1>1 DEF Ours, Bytes, Byte
<1>3. Len(rx) <= RxSize
  BY DEF Typed, Lengths
<1> QED BY <1>2, <1>3, AppendedType, SizesAssumption

LEMMA StepQuiet == Quieting /\ [Next]_vars => Quiet'
<1> SUFFICES ASSUME Quieting, [Next]_vars, ended', Before'
             PROVE  /\ Resting'
                    /\ host' = "write" /\ avr' \in {"clear", "loop"} => rx' \in Seq(Ours)'
  BY DEF Quiet
<1>0. /\ Passing /\ Pacing /\ AnswerBase /\ Typed /\ Clean /\ Finished
      /\ ended => transmit /\ noOp = 0
      /\ ended /\ Before =>
           Resting /\ (host = "write" /\ avr \in {"clear", "loop"} => rx \in Seq(Ours))
      /\ masked => avr = "uart"
      /\ pending # <<>> => masked
      /\ avr \notin {"fill", "uart"} => todo = <<>>
  BY DEF Quieting, Quiet, Settled, Cleaning, Finishing, Passing, Pacing, AnswerBase, AnswerInv,
     Printing, AllAdded
<1>1. CASE Return
  <2>1. /\ host = "between" /\ host' = "idle" /\ Ending /\ Reading
        /\ UNCHANGED <<tx, todo, avr, newMsg, steps, masked, pending>>
    BY <1>1, CallerOnly DEF HostOnly, Return, Reading, Ending
  <2>2. avr \in {"fill", "uart", "clear", "loop"} /\ ~(newMsg /\ avr = "loop")
    BY <1>0, <2>1, NoDecode
  <2>3. /\ tx = <<>> \/ (avr = "uart" /\ masked /\ pending # <<>> /\ tx = <<Dummy>>)
        /\ avr = "fill" => todo = <<>> /\ steps = 0
    BY <1>0, <2>1 DEF Finished
  <2> QED BY <2>1, <2>2, <2>3 DEF Resting
<1>2. ASSUME NEW m \in Messages, CommandToMCU(m), ended
      PROVE  Resting' /\ (avr' \in {"clear", "loop"} => rx' \in Seq(Ours)')
  <2>1. /\ UNCHANGED <<tx, todo, avr, newMsg, steps, rx, masked, pending>> /\ host = "idle"
    BY <1>2, CallerOnly DEF HostOnly, CommandToMCU
  <2>2. Resting
    BY <1>0, <1>2, <2>1 DEF Before
  <2>3. avr \in {"clear", "loop"} => rx = <<>>
    BY <1>0, <2>1, <2>2 DEF Resting, Clean
  <2>4. Resting'
    BY <2>1, <2>2 DEF Resting
  <2> QED BY <2>1, <2>3, <2>4, EmptySeq
<1>3. CASE WriteByte /\ ended
  <2>1. /\ Len(outgoing) \in Nat /\ Len(outgoing') = Len(outgoing) - 1
        /\ host' \in {"between", "write"} /\ host = "write" /\ call' = call
    BY <1>0, <1>3, WrittenByte DEF WriteByte
  <2>2. Len(outgoing) > 3 /\ Before
    BY <2>1 DEF Before
  <2> DEFINE b == Head(outgoing)
  <2>3. /\ Exchange(b) /\ b.sym \notin {"zero", "dot"}
    BY <1>0, <1>3, <2>2, WrittenByte
  <2>4. Resting /\ noOp = 0 /\ (avr \in {"clear", "loop"} => rx \in Seq(Ours))
    BY <1>0, <1>3, <2>1, <2>2
  <2>5. Appended(rx, b, RxSize) \in Seq(Ours) \/ rx \notin Seq(Ours)
    BY <1>0, <1>3, <2>2, OursAppended
  <2>6. Ours' = Ours
    BY <2>1 DEF Ours
  <2> HIDE DEF b
  <2>7. /\ UNCHANGED <<avr, todo, masked>> /\ avr \in {"uart", "clear", "loop"}
        /\ Held(b) \/ (tx = <<>> /\ tx' = <<>> /\ IsrReceive(b))
    BY <1>0, <2>3, <2>4, RestingExchange
  <2>8. CASE Held(b)
    <3>1. /\ avr = "uart" /\ masked /\ pending' = Append(pending, b)
          /\ UNCHANGED <<tx, newMsg>>
      BY <2>8 DEF Held
    <3>2. pending' # <<>>
      <4>1. pending \in Seq(Bytes) /\ b \in Bytes
        BY <1>0, <1>3, WrittenByte DEF b, Typed, Carried
      <4> QED BY <3>1, <4>1, AppendProperties
    <3> QED BY <2>4, <2>7, <3>1, <3>2 DEF Resting
  <2>9. CASE tx = <<>> /\ tx' = <<>> /\ IsrReceive(b)
    <3>1. newMsg' = newMsg /\ rx' = Appended(rx, b, RxSize)
      BY <2>3, <2>9 DEF IsrReceive
    <3> QED BY <2>4, <2>5, <2>6, <2>7, <2>9, <3>1 DEF Resting
  <2> QED BY <2>7, <2>8, <2>9
<1>4. CASE StartRead \/ ReadByte \/ SyncByte
  BY <1>4 DEF StartRead, ReadByte, SyncByte, Before
<1>5. CASE (MainLoop \/ UNCHANGED vars) /\ ended
  <2>0. /\ UNCHANGED <<host, outgoing, call>> /\ Before /\ Resting /\ transmit /\ noOp = 0
        /\ host = "write" /\ avr \in {"clear", "loop"} => rx \in Seq(Ours)
    BY <1>0, <1>5, ShieldOnly DEF Before
  <2>a. Ours' = Ours
    BY <2>0 DEF Ours
  <2>1. CASE FlushRx
    <3>1. /\ ~masked /\ avr \in {"fill", "uart"} /\ avr' = "clear" /\ rx' = <<>>
          /\ UNCHANGED <<tx, todo, newMsg>>
      BY <2>1 DEF FlushRx, MainStep
    <3>2. Resting'
      BY <2>0, <3>1 DEF Resting
    <3> QED BY <3>1, <3>2, EmptySeq
  <2>2. CASE ClearNewMsg
    <3>1. avr = "clear" /\ avr' = "loop" /\ ~newMsg' /\ UNCHANGED <<tx, todo, rx>>
      BY <2>2 DEF ClearNewMsg, MainStep
    <3>2. Resting'
      BY <2>0, <3>1 DEF Resting
    <3> QED BY <2>0, <2>a, <3>1, <3>2
  <2>3. CASE PrintChar
    <3>1. ~masked /\ avr = "uart" /\ avr' = "uart" /\ UNCHANGED <<tx, newMsg>>
      BY <2>3 DEF PrintChar, MainStep, isrVars
    <3>2. tx = <<>>
      BY <2>0, <3>1 DEF Resting
    <3> QED BY <3>1, <3>2 DEF Resting
  <2>4. CASE CharPrinted
    <3>1. avr = "uart" /\ avr' = "uart"
      BY <1>0, <2>4 DEF CharPrinted, loopVars
    <3>2. CASE pending = <<>>
      <4>1. tx' = <<>>
        BY <2>0, <2>4, <3>2 DEF CharPrinted, isrVars, Resting
      <4> QED BY <3>1, <4>1 DEF Resting
    <3>3. CASE pending # <<>>
      <4>1. PICK b : Isr(b)
        BY <2>4, <3>3 DEF CharPrinted
      <4>2. IsrTransmit \/ (IsrReceive(b) /\ tx = <<>>)
        <5>1. ~IsrNoOp(b)
          BY <2>0 DEF IsrNoOp
        <5>2. IsrReceive(b) => tx = <<>>
          BY <2>0 DEF IsrReceive
        <5> QED BY <4>1, <5>1, <5>2 DEF Isr
      <4>3. tx' = <<>>
        <5>1. CASE IsrTransmit
          <6>1. tx = <<Dummy>> /\ tx' = Tail(tx)
            BY <2>0, <5>1 DEF IsrTransmit, Resting
          <6> QED BY <6>1, OneDummy
        <5>2. CASE IsrReceive(b) /\ tx = <<>>
          BY <5>2 DEF IsrReceive
        <5> QED BY <4>2, <5>1, <5>2
      <4> QED BY <3>1, <4>3 DEF Resting
    <3> QED BY <3>2, <3>3
  <2>5. CASE UNCHANGED vars
    <3>1. UNCHANGED <<tx, todo, rx, avr, newMsg, steps, masked, pending>>
      BY <2>5 DEF vars, isrVars, loopVars, uartVars
    <3>2. Resting'
      BY <2>0, <3>1 DEF Resting
    <3> QED BY <2>0, <2>a, <3>1, <3>2
  <2>6. ~StartDecode /\ ~AddDummy /\ ~FetchFirst /\ ~FetchSecond /\ ~FetchPrint /\ ~FetchNothing
        /\ ~FillTx
    BY <2>0 DEF Resting, StartDecode, AddDummy, FetchFirst, FetchSecond, FetchPrint,
       FetchNothing, FillTx, MainStep
  <2> QED BY <1>5, <2>1, <2>2, <2>3, <2>4, <2>5, <2>6 DEF MainLoop
<1> QED
  BY <1>1, <1>2, <1>3, <1>4, <1>5, EndedBefore DEF Next, HostStep, Before

\* A letter is received while the shield is quiet.
LEMMA LetterReceived ==
  ASSUME Quieting, settled, WriteByte, Len(outgoing) > 3
  PROVE  avr' = avr /\ avr \notin {"uart", "fill"} /\ Prefix'
<1> DEFINE b == Head(outgoing)
<1>0. /\ Pacing /\ AnswerBase /\ Typed /\ noOp = 0 /\ host = "write" /\ Resting
      /\ avr # "uart" /\ (avr # "fill" => Prefix)
  <2>1. ended /\ Before
    BY DEF Quieting, Settled, Before, WriteByte
  <2> QED BY <2>1 DEF Quieting, Quiet, Arriving, Settled, Cleaning, Finishing, Passing, Pacing,
          AnswerBase, WriteByte, Before
<1>1. /\ Exchange(b) /\ Len(outgoing) \in Nat /\ Len(outgoing') = Len(outgoing) - 1
      /\ Len(outgoing) <= Len(msg) + 3
      /\ Len(msg) + 4 - Len(outgoing) \in 1 .. Len(msg)
      /\ b = Byte(msg[Len(msg) + 4 - Len(outgoing)], call) /\ b.sym \notin {"zero", "dot"}
      /\ b \in Bytes
  BY <1>0, WrittenByte
<1> HIDE DEF b
<1>2. avr' = avr /\ avr \notin {"uart", "fill"} /\ IsrReceive(b)
  BY <1>0, <1>1, RestingExchange DEF Held
<1>3. rx' = Appended(rx, b, RxSize)
  BY <1>1, <1>2 DEF IsrReceive
<1>5. UNCHANGED <<msg, call>>
  BY DEF WriteByte
<1>6. /\ Len(rx) = IF Received < RxSize THEN Received ELSE RxSize
      /\ \A j \in 1 .. Len(rx) : rx[j] = Byte(msg[j], call)
      /\ rx \in Seq(Bytes)
  BY <1>0, <1>2 DEF Prefix, Typed, Carried
<1>7. /\ Received \in Nat /\ Received' = Received + 1
      /\ b = Byte(msg[Received + 1], call)
  <2>0. Len(msg) \in Nat
    BY <1>0, MessageLength DEF AnswerBase, Ordered
  <2>1. Received \in Nat
    BY <1>1, <2>0 DEF Received
  <2>2. Received' = Received + 1 /\ Received + 1 = Len(msg) + 4 - Len(outgoing)
    BY <1>1, <1>5, <2>0 DEF Received
  <2> QED BY <1>1, <2>1, <2>2
<1>8. CASE Received < RxSize
  <2>1. Len(rx) = Received
    BY <1>6, <1>8
  <2>2. /\ Len(rx') = Len(rx) + 1 /\ rx'[Len(rx) + 1] = b
        /\ \A j \in 1 .. Len(rx) : rx'[j] = rx[j]
    <3>1. rx \in Seq(Bytes) /\ b \in Bytes /\ RxSize \in Nat /\ Len(rx) < RxSize
      BY <1>1, <1>6, <1>8, <2>1, SizesAssumption
    <3> QED BY <1>3, <3>1, AddOne
  <2>3. \A j \in 1 .. Len(rx') : j \in 1 .. Len(rx) \/ j = Len(rx) + 1
    BY <1>7, <2>1, <2>2
  <2>4. \A j \in 1 .. Len(rx') : rx'[j] = Byte(msg'[j], call')
    BY <1>5, <1>6, <1>7, <2>1, <2>2, <2>3
  <2>5. Len(rx') = IF Received' < RxSize THEN Received' ELSE RxSize
    BY <1>7, <1>8, <2>1, <2>2, SizesAssumption
  <2> QED BY <1>2, <2>4, <2>5 DEF Prefix
<1>9. CASE ~(Received < RxSize)
  <2>1. Len(rx) = RxSize
    BY <1>6, <1>9
  <2>2. rx' = rx
    BY <1>3, <2>1, SizesAssumption DEF Appended, HasRoom
  <2>3. Len(rx') = IF Received' < RxSize THEN Received' ELSE RxSize
    BY <1>7, <1>9, <2>1, <2>2, SizesAssumption
  <2> QED BY <1>2, <1>5, <1>6, <2>2, <2>3 DEF Prefix
<1> QED BY <1>8, <1>9

LEMMA StepArriving == Quieting /\ [Next]_vars => Arriving'
<1> SUFFICES ASSUME Quieting, [Next]_vars, settled', host' = "write", Len(outgoing') > 2
             PROVE  /\ avr' # "uart" /\ (avr' = "fill" => Received' = 0)
                    /\ avr' # "fill" => Prefix'
  BY DEF Arriving
<1>0. /\ Passing /\ Pacing /\ AnswerBase /\ Typed /\ Clean /\ ended'
      /\ settled => ended
      /\ ended /\ Before => Resting
      /\ settled /\ host = "write" /\ Len(outgoing) > 2 =>
           /\ avr # "uart" /\ (avr = "fill" => Received = 0)
           /\ avr # "fill" => Prefix
  BY SettledEnded DEF Quieting, Quiet, Arriving, Settled, Cleaning, Finishing, Passing, Pacing,
     AnswerBase
<1>1. CASE Return
  BY <1>1 DEF Return
<1>2. ASSUME NEW m \in Messages, CommandToMCU(m), ended
      PROVE  avr' # "uart" /\ Received' = 0 /\ (avr' # "fill" => Prefix')
  <2>1. UNCHANGED <<avr, newMsg, rx>> /\ host = "idle" /\ msg' = m /\ avr # "uart"
    BY <1>2, CallerOnly DEF HostOnly, CommandToMCU
  <2>2. Resting
    BY <1>0, <1>2, <2>1 DEF Before
  <2>3. Len(outgoing') = Len(m) + 3
    <3>1. call + 1 \in Nat
      BY <1>0, SizesAssumption DEF Typed, Counters
    <3>2. outgoing' = Tagged(m, call + 1) \o <<Dot, Zero, Zero>>
      BY <1>2 DEF CommandToMCU
    <3> QED BY <3>1, <3>2, CommandIsOrdered
  <2>4. Received' = 0
    BY <2>1, <2>3, MessageLength DEF Received
  <2>5. avr # "fill" => rx = <<>>
    BY <1>0, <2>1, <2>2 DEF Resting, Clean
  <2>6. ASSUME avr' # "fill" PROVE Prefix'
    <3>1. rx' = <<>>
      BY <2>1, <2>5, <2>6
    <3>2. Len(rx') = 0
      BY <3>1
    <3> QED BY <2>4, <3>2, SizesAssumption DEF Prefix
  <2> QED BY <2>1, <2>4, <2>6
<1>3. CASE WriteByte /\ settled
  <2>1. Len(outgoing) \in Nat /\ Len(outgoing') = Len(outgoing) - 1
    BY <1>0, <1>3, WrittenByte
  <2>2. Len(outgoing) > 3
    BY <2>1
  <2> QED BY <1>3, <2>2, LetterReceived
<1>4. CASE StartRead \/ ReadByte \/ SyncByte
  BY <1>4 DEF StartRead, ReadByte, SyncByte
<1>5. CASE (MainLoop \/ UNCHANGED vars) /\ settled
  <2>0. /\ UNCHANGED <<host, outgoing, msg, call>> /\ Received' = Received
        /\ Resting /\ avr # "uart" /\ (avr = "fill" => Received = 0) /\ (avr # "fill" => Prefix)
    BY <1>0, <1>5, ShieldOnly DEF Before, Received
  <2>1. CASE FlushRx
    <3>1. avr = "fill" /\ avr' = "clear" /\ rx' = <<>>
      BY <2>0, <2>1 DEF FlushRx, MainStep
    <3>2. Received' = 0 /\ Len(rx') = 0
      BY <2>0, <3>1
    <3> QED BY <3>1, <3>2, SizesAssumption DEF Prefix
  <2>2. CASE ClearNewMsg \/ UNCHANGED vars
    <3>1. rx' = rx /\ (avr' = avr \/ (avr = "clear" /\ avr' = "loop"))
      BY <2>2 DEF ClearNewMsg, MainStep, vars, isrVars, loopVars
    <3>2. Prefix => Prefix'
      BY <2>0, <3>1 DEF Prefix
    <3> QED BY <2>0, <3>1, <3>2
  <2>3. CASE MainLoop /\ ~FlushRx /\ ~ClearNewMsg
    <3>1. ~masked
      BY <1>0, <2>0 DEF AnswerBase, AnswerInv, Printing
    <3>2. FALSE
      BY <2>0, <2>3, <3>1 DEF MainLoop, StartDecode, AddDummy, FetchFirst, FetchSecond, FetchPrint,
         FetchNothing, FillTx, PrintChar, CharPrinted, MainStep, Resting
    <3> QED BY <3>2
  <2> QED BY <1>5, <2>1, <2>2, <2>3
<1> QED
  BY <1>0, <1>1, <1>2, <1>3, <1>4, <1>5, EndedBefore DEF Next, HostStep

----------------------------------------------------------------------------
\* From the '.' on, what the buffer holds for the main loop is of this call,
\* and the main loop fetches two letters of it before the write ends.
FetchingBase == Quieting /\ Fetching

LEMMA InitFetching == Init => Fetching /\ Answering
  BY DEF Init, Fetching, Answering, Asked

\* The '.' ends the message while the main loop waits for it, or still prints:
\* in that case it is lost.
LEMMA DotReceived ==
  ASSUME Quieting, ended, WriteByte, Len(outgoing) = 3
  PROVE  /\ avr' = avr /\ avr \in {"uart", "clear", "loop"}
         /\ host' = "write" /\ Len(outgoing') = 2 /\ UNCHANGED <<msg, call, todo, settled>>
         /\ tx' \in {<<>>, <<Dummy>>}
         /\ avr = "loop" => newMsg' /\ rx' \in Seq(Ours)
         /\ settled => /\ avr = "loop" /\ Len(rx') >= 2
                       /\ rx'[1] = Byte(msg[1], call) /\ rx'[2] = Byte(msg[2], call)
<1>0. /\ Pacing /\ AnswerBase /\ Typed /\ noOp = 0 /\ host = "write" /\ Clean /\ Before
      /\ UNCHANGED <<msg, call, settled>>
  BY DEF Quieting, Settled, Cleaning, Finishing, Passing, Pacing, AnswerBase, WriteByte, Before
<1>1. Resting /\ (avr \in {"clear", "loop"} => rx \in Seq(Ours))
  BY <1>0 DEF Quieting, Quiet
<1>2. Exchange(Dot) /\ Len(outgoing') = 2 /\ host' = "write"
  BY <1>0, WrittenByte
<1>3. /\ avr' = avr /\ todo' = todo /\ avr \in {"uart", "clear", "loop"}
      /\ avr = "clear" => steps >= 3
      /\ Held(Dot) \/ (tx = <<>> /\ tx' = <<>> /\ IsrReceive(Dot))
  BY <1>0, <1>1, <1>2, RestingExchange
<1>4. tx' \in {<<>>, <<Dummy>>}
  BY <1>1, <1>3 DEF Held, Resting
<1>5. IsrReceive(Dot) => newMsg' /\ rx' = rx
  BY DEF IsrReceive, Dot, Byte
<1>6. avr = "loop" => newMsg' /\ rx' \in Seq(Ours)
  BY <1>1, <1>3, <1>5 DEF Held
<1>7. ASSUME settled
      PROVE  /\ avr = "loop" /\ Len(rx') >= 2
             /\ rx'[1] = Byte(msg[1], call) /\ rx'[2] = Byte(msg[2], call)
  <2>1. avr # "uart" /\ (avr # "fill" => Prefix)
    BY <1>0, <1>7 DEF Quieting, Arriving
  <2>2. IsrReceive(Dot) /\ avr \in {"clear", "loop"}
    BY <1>3, <2>1 DEF Held
  <2>3. msg \in Messages
    BY <1>0 DEF AnswerBase, Ordered
  <2>4. Received = Len(msg) /\ Len(msg) \in Nat /\ Len(msg) >= 2
    BY <2>3, MessageLength DEF Received
  <2>5. /\ Len(rx) = IF Received < RxSize THEN Received ELSE RxSize
        /\ \A j \in 1 .. Len(rx) : rx[j] = Byte(msg[j], call)
    BY <2>1, <2>2 DEF Prefix
  <2>6. Len(rx) >= 2 /\ Len(rx) \in Nat
    BY <2>4, <2>5, SizesAssumption, RoomAssumption
  <2>7. 1 \in 1 .. Len(rx) /\ 2 \in 1 .. Len(rx)
    BY <2>6
  <2>8. rx # <<>>
    BY <2>6, OneDummy
  <2>9. avr = "loop"
    BY <1>0, <1>3, <2>2, <2>8 DEF Clean
  <2> QED BY <1>5, <2>2, <2>5, <2>6, <2>7, <2>9
<1> QED BY <1>0, <1>2, <1>3, <1>4, <1>6, <1>7

\* The steps after the '.' of a call that comes after one that returned.
LEMMA AskedStep ==
  ASSUME Quieting, [Next]_vars, Asked'
  PROVE  /\ ended
         /\ \/ WriteByte /\ Len(outgoing) = 3
            \/ /\ Asked /\ WriteByte /\ Exchange(Zero) /\ noOp = 0 /\ host = "write"
               /\ Len(outgoing) \in {1, 2} /\ Len(outgoing') = Len(outgoing) - 1
               /\ host' = IF Len(outgoing) = 1 THEN "between" ELSE "write"
               /\ incoming = <<>> /\ incoming' = <<>> /\ UNCHANGED <<msg, call, reads, settled>>
               /\ reads = Retries + 1
            \/ /\ Asked /\ Reading /\ StartRead
               /\ UNCHANGED <<msg, call, outgoing, incoming, settled>>
            \/ /\ Asked /\ Reading /\ (ReadByte \/ SyncByte) /\ Exchange(Zero) /\ noOp = 0
               /\ UNCHANGED <<msg, call, outgoing, reads, settled>>
            \/ /\ Asked /\ (MainLoop \/ UNCHANGED vars)
               /\ UNCHANGED <<host, outgoing, incoming, reads, msg, call, settled>>
<1>0. Pacing /\ AnswerBase /\ Typed /\ noOp \in 0 .. 3
  BY DEF Quieting, Cleaning, Finishing, Passing, Pacing, AnswerBase, Typed, Counters
<1>1. ended /\ ~Return /\ ~Killed /\ ~Reflash
  <2>1. ~Return
    BY DEF Return, Asked, Reading
  <2> QED BY <2>1, EndedBefore DEF Asked
<1>2. ASSUME NEW m \in Messages, CommandToMCU(m) PROVE FALSE
  <2>1. Len(outgoing') = Len(m) + 3
    <3>1. call + 1 \in Nat
      BY <1>0, SizesAssumption DEF Typed, Counters
    <3>2. outgoing' = Tagged(m, call + 1) \o <<Dot, Zero, Zero>>
      BY <1>2 DEF CommandToMCU
    <3> QED BY <3>1, <3>2, CommandIsOrdered
  <2>2. host' = "write"
    BY <1>2 DEF CommandToMCU
  <2> QED BY <2>1, <2>2, MessageLength DEF Asked, Reading
<1>3. CASE WriteByte
  <2>1. /\ Exchange(Head(outgoing)) /\ Len(outgoing) \in Nat \ {0}
        /\ Len(outgoing') = Len(outgoing) - 1 /\ host = "write"
        /\ host' = IF Len(outgoing) = 1 THEN "between" ELSE "write"
        /\ Len(outgoing) <= 2 => Head(outgoing) = Zero
        /\ UNCHANGED <<msg, call, incoming, reads, settled>>
    BY <1>0, <1>3, WrittenByte DEF WriteByte
  <2>2. Len(outgoing) \in {1, 2, 3}
    BY <2>1 DEF Asked, Reading
  <2>3. ASSUME Len(outgoing) # 3
        PROVE  Asked /\ Exchange(Zero) /\ noOp = 0
    <3>1. noOp = 0
      BY <1>0, <2>1, <2>2, <2>3 DEF Pacing, NoOps
    <3> QED BY <1>1, <2>1, <2>2, <2>3, <3>1 DEF Asked
  <2>4. incoming = <<>> /\ reads = Retries + 1
    BY <1>0, <1>3, NextByte
  <2> QED BY <1>1, <1>3, <2>1, <2>2, <2>3, <2>4
<1>4. CASE StartRead
  BY <1>1, <1>4 DEF StartRead, Reading, Asked
<1>5. CASE ReadByte \/ SyncByte
  <2>1. Reading /\ Exchange(Zero) /\ UNCHANGED <<msg, call, outgoing, reads, settled>>
    BY <1>5, ReadExchange DEF Reading
  <2>2. noOp = 0
    BY <1>0, <2>1, NoDecode
  <2> QED BY <1>1, <1>5, <2>1, <2>2 DEF Asked
<1>6. CASE MainLoop \/ UNCHANGED vars
  <2>1. UNCHANGED <<host, outgoing, incoming, reads, msg, call, settled>>
    BY <1>6, ShieldOnly
  <2> QED BY <1>1, <1>6, <2>1 DEF Asked, Reading
<1> QED
  BY <1>1, <1>2, <1>3, <1>4, <1>5, <1>6 DEF Next, HostStep

LEMMA StepFetching == FetchingBase /\ [Next]_vars => Fetching'
<1> SUFFICES ASSUME FetchingBase, [Next]_vars, Asked'
             PROVE  (First' => FirstLetters') /\ (avr' = "fetch2" => SecondLetter')
  BY DEF Fetching
<1>0. /\ Quieting /\ Pacing /\ Typed /\ TxVisible /\ AnswerBase
      /\ Asked => (First => FirstLetters) /\ (avr = "fetch2" => SecondLetter)
  BY DEF FetchingBase, Fetching, Quieting, Cleaning, Finishing, Passing, Pacing, AnswerBase
<1>a. call' = call => Ours' = Ours
  BY DEF Ours
<1>1. CASE WriteByte /\ Len(outgoing) = 3 /\ ended
  <2>1. /\ avr' = avr /\ avr \in {"uart", "clear", "loop"} /\ UNCHANGED <<msg, call, settled>>
        /\ avr = "loop" => newMsg' /\ rx' \in Seq(Ours)
        /\ settled => /\ avr = "loop" /\ Len(rx') >= 2
                      /\ rx'[1] = Byte(msg[1], call) /\ rx'[2] = Byte(msg[2], call)
    BY <1>0, <1>1, DotReceived
  <2> QED BY <1>a, <2>1 DEF First, FirstLetters
<1>2. CASE /\ Asked /\ WriteByte /\ Exchange(Zero) /\ noOp = 0 /\ host = "write"
           /\ Len(outgoing) \in {1, 2} /\ Len(outgoing') = Len(outgoing) - 1
           /\ UNCHANGED <<msg, call, settled>>
  <2>1. /\ UNCHANGED <<avr, cmd, newMsg, rx>> /\ steps' = 0
        /\ ~(newMsg /\ avr = "loop") /\ avr \notin {"dummy", "fetch1"}
        /\ avr = "fetch2" => steps >= 3 /\ tx = <<Dummy>>
    BY <1>0, <1>2, ZeroExchanged, ExchangeOutcome
  <2>2. ~First'
    BY <2>1 DEF First
  <2>3. ASSUME avr = "fetch2" PROVE SecondLetter'
    <3>1. SecondLetter /\ steps >= 3 /\ tx = <<Dummy>> /\ tx # <<>> /\ Tail(tx) = <<>>
      BY <1>0, <1>2, <2>1, <2>3, OneDummy
    <3>2. Len(outgoing) = 2
      <4>1. steps > 0
        BY <1>0, <3>1, SizesAssumption DEF Typed, Counters
      <4> QED BY <3>1, <4>1 DEF SecondLetter
    <3>3. ~masked
      BY <1>0, <2>3 DEF AnswerBase, AnswerInv, Printing
    <3>4. transmit
      BY <1>0, <1>2 DEF Quieting, Settled, Asked
    <3>5. tx' = <<>>
      BY <1>0, <1>2, <3>1, <3>3, <3>4, ZeroExchanged DEF Held
    <3> QED BY <1>2, <2>1, <3>1, <3>2, <3>5 DEF SecondLetter
  <2> QED BY <2>1, <2>2, <2>3
<1>3. CASE Reading /\ StartRead
  <2>1. UNCHANGED <<avr, newMsg>>
    BY <1>3, CallerOnly DEF HostOnly
  <2> QED BY <1>0, <1>3, <2>1, NoDecode DEF First
<1>4. CASE Reading /\ (ReadByte \/ SyncByte) /\ Exchange(Zero) /\ noOp = 0
  <2>1. UNCHANGED <<avr, newMsg>>
    BY <1>0, <1>4, ZeroExchanged
  <2> QED BY <1>0, <1>4, <2>1, NoDecode DEF First
<1>5. CASE /\ Asked /\ (MainLoop \/ UNCHANGED vars)
           /\ UNCHANGED <<host, outgoing, msg, call, settled>>
  <2>1. CASE StartDecode \/ AddDummy
    <3>1. First /\ rx' = rx /\ avr' # "fetch2"
      BY <2>1 DEF StartDecode, AddDummy, MainStep, First
    <3>2. FirstLetters'
      BY <1>0, <1>5, <1>a, <3>1 DEF FirstLetters
    <3> QED BY <3>1, <3>2
  <2>2. CASE FetchFirst
    <3>1. /\ avr = "fetch1" /\ avr' = "fetch2" /\ cmd' = <<Head(rx)>> /\ rx' = Tail(rx)
          /\ rx # <<>>
      BY <2>2 DEF FetchFirst, MainStep
    <3>2. FirstLetters /\ rx \in Seq(Ours)
      BY <1>0, <1>5, <3>1 DEF First, FirstLetters
    <3>3. Head(rx) = rx[1] /\ Len(rx') = Len(rx) - 1 /\ Len(rx) \in Nat
          /\ \A j \in 1 .. Len(rx) - 1 : rx'[j] = rx[j + 1]
      BY <3>1, <3>2, TakeOne
    <3>4. cmd' # <<>> /\ cmd'[1] = Head(rx)
      BY <3>1
    <3>5. Head(rx).no = call
      <4>1. Head(rx) \in Ours
        BY <3>1, <3>2, HeadTailIn
      <4> QED BY <4>1 DEF Ours
    <3>6. ASSUME settled
          PROVE  cmd' = <<Byte(msg[1], call)>> /\ rx' # <<>> /\ rx'[1] = Byte(msg[2], call)
      <4>1. Len(rx) >= 2 /\ rx[1] = Byte(msg[1], call) /\ rx[2] = Byte(msg[2], call)
        BY <3>2, <3>6 DEF FirstLetters
      <4>2. 1 \in 1 .. Len(rx) - 1 /\ 1 + 1 = 2 /\ Len(rx') > 0
        BY <3>3, <4>1
      <4>3. rx' # <<>>
        BY <4>2, OneDummy
      <4> QED BY <3>1, <3>3, <4>1, <4>2, <4>3
    <3>7. steps' > 0
      <4>1. steps = 2
        BY <1>0, <3>1 DEF Pacing, Ahead
      <4>2. steps' = 3
        BY <1>0, <2>2, <4>1, StepsCounted DEF FetchFirst
      <4> QED BY <4>2
    <3>8. Len(outgoing) = 2
      <4>1. /\ host \in {"idle", "write"}
            /\ host = "write" => Len(outgoing) >= 2
        BY <1>0, <3>1 DEF Pacing, Early
      <4>2. Len(outgoing) \in Nat
        BY <1>0, LenProperties DEF Typed, Carried
      <4>3. host = "write" /\ Len(outgoing) <= 2
        BY <1>5, <4>1 DEF Asked, Reading
      <4>4. \A k \in Nat : k >= 2 /\ k <= 2 => k = 2
        OBVIOUS
      <4> QED BY <4>1, <4>2, <4>3, <4>4
    <3>9. SecondLetter'
      BY <1>5, <3>4, <3>5, <3>6, <3>7, <3>8 DEF SecondLetter
    <3> QED BY <3>1, <3>9 DEF First
  <2>3. CASE FetchSecond \/ FetchPrint \/ FetchNothing \/ FillTx \/ PrintChar \/ FlushRx \/ ClearNewMsg
    BY <2>3 DEF FetchSecond, FetchPrint, FetchNothing, FillTx, PrintChar, FlushRx, ClearNewMsg,
       MainStep, First
  <2>4. CASE CharPrinted
    <3>1. avr' = "uart"
      BY <1>0, <2>4 DEF CharPrinted, loopVars, AnswerBase, AnswerInv, Printing
    <3> QED BY <3>1 DEF First
  <2>5. CASE UNCHANGED vars
    <3>1. UNCHANGED <<avr, newMsg, rx, tx, cmd, steps>>
      BY <2>5 DEF vars, isrVars, loopVars
    <3>2. (First' <=> First) /\ (FirstLetters => FirstLetters') /\ (SecondLetter => SecondLetter')
      BY <1>5, <1>a, <3>1 DEF First, FirstLetters, SecondLetter
    <3> QED BY <1>0, <1>5, <3>1, <3>2
  <2> QED BY <1>5, <2>1, <2>2, <2>3, <2>4, <2>5 DEF MainLoop
<1> QED BY <1>0, <1>1, <1>2, <1>3, <1>4, <1>5, AskedStep

----------------------------------------------------------------------------
\* The answer on its way.
AnsweringBase == FetchingBase /\ Answering

LEMMA WholeAnswer ==
  ASSUME NEW str \in {BoardInfo, Invalid}, NEW n \in Nat,
         NEW w, w = <<Dummy>> \o Tagged(str, n)
  PROVE  /\ Tagged(str, n) \in Seq(Visible) /\ Len(Tagged(str, n)) \in Nat \ {0}
         /\ Len(w) = Len(Tagged(str, n)) + 1 /\ w[1] = Dummy
         /\ \A j \in 1 .. Len(Tagged(str, n)) : w[j + 1] = Tagged(str, n)[j]
<1>2. str \in Seq(Letters \cup {"c"}) /\ Len(str) \in Nat \ {0}
  <2>1. \A s \in Seq(Letters) : s \in Seq(Letters \cup {"c"})
    BY SeqMonotonic
  <2> QED BY <2>1, LettersAssumption, RoomAssumption, SizesAssumption
<1> DEFINE e == Tagged(str, n)
           d == <<Dummy>>
<1>3. e \in Seq(Visible) /\ Len(e) \in Nat \ {0}
  BY <1>2, TaggedVisible
<1>4. Dummy \in Visible
  BY ZeroAndDummy DEF Visible, Dummy, Byte
<1>5. d \in Seq(Visible) /\ Len(d) = 1 /\ d[1] = Dummy
  BY <1>4
<1> HIDE DEF e, d
<1>6. /\ Len(d \o e) = Len(d) + Len(e)
      /\ \A i \in 1 .. Len(d) + Len(e) :
           (d \o e)[i] = IF i <= Len(d) THEN d[i] ELSE e[i - Len(d)]
  BY <1>3, <1>5, ConcatProperties, Zenon
<1>7. w = d \o e
  BY DEF d, e
<1>8. Len(w) = Len(e) + 1 /\ w[1] = Dummy
  <2>1. 1 \in 1 .. 1 + Len(e) /\ 1 + Len(e) = Len(e) + 1
    BY <1>3
  <2> QED BY <1>5, <1>6, <1>7, <2>1
<1>9. ASSUME NEW j \in 1 .. Len(e) PROVE w[j + 1] = e[j]
  <2>1. j + 1 \in 1 .. 1 + Len(e) /\ ~(j + 1 <= 1) /\ (j + 1) - 1 = j
    BY <1>3
  <2> QED BY <1>5, <1>6, <1>7, <2>1
<1> QED BY <1>3, <1>8, <1>9 DEF e

\* What the cases below know of a state and of a step.
LEMMA AnswerTypes ==
  ASSUME AnsweringBase
  PROVE  /\ Passing /\ Pacing /\ AnswerBase /\ Typed /\ TxVisible /\ Quieting
         /\ tx \in Seq(Bytes) /\ todo \in Seq(Bytes) /\ incoming \in Seq(Bytes)
         /\ Len(tx) \in Nat /\ Len(todo) \in Nat /\ Len(incoming) \in Nat
         /\ Len(outgoing) \in Nat /\ call \in Nat /\ Shown \in {0, 1}
         /\ Asked => msg \in Messages /\ Gone \in Nat /\ transmit /\ noOp = 0
<1>1. /\ Passing /\ Pacing /\ AnswerBase /\ Typed /\ TxVisible /\ Quieting
      /\ ended => transmit /\ noOp = 0
  BY DEF AnsweringBase, FetchingBase, Quieting, Settled, Cleaning, Finishing, Passing, Pacing,
     AnswerBase
<1>2. /\ tx \in Seq(Bytes) /\ todo \in Seq(Bytes) /\ incoming \in Seq(Bytes)
      /\ outgoing \in Seq(Bytes) /\ call \in Nat
  BY <1>1, SizesAssumption DEF Typed, Carried, Counters
<1>3. /\ Len(tx) \in Nat /\ Len(todo) \in Nat /\ Len(incoming) \in Nat /\ Len(outgoing) \in Nat
      /\ Shown \in {0, 1}
  BY <1>2, LenProperties DEF Shown
<1>4. Asked => msg \in Messages /\ Gone \in Nat /\ transmit /\ noOp = 0
  <2>1. Asked => host # "idle" /\ ended
    BY DEF Asked, Reading
  <2>2. Asked /\ host = "write" => Len(outgoing) <= 2
    BY DEF Asked, Reading
  <2> QED BY <1>1, <1>3, <2>1, <2>2 DEF AnswerBase, Ordered, Gone
<1> QED BY <1>1, <1>2, <1>3, <1>4

\* A byte goes from the buffer into SPDR.
LEMMA ChainPopped ==
  ASSUME NEW w, tx \in Seq(Bytes), Len(todo) \in Nat, Gone \in Nat, Chain(w), tx # <<>>,
         tx' = Tail(tx), todo' = todo, Gone' = Gone + 1
  PROVE  Chain(w)' /\ Head(tx) = w[Gone']
<1>1. /\ Len(tx) \in Nat \ {0} /\ Head(tx) = tx[1] /\ Len(tx') = Len(tx) - 1
      /\ \A j \in 1 .. Len(tx) - 1 : tx'[j] = tx[j + 1]
  BY TakeOne
<1>2. /\ Gone + Len(tx) + Len(todo) = Len(w)
      /\ \A j \in 1 .. Len(tx) : tx[j] = w[Gone + j]
      /\ \A j \in 1 .. Len(todo) : todo[j] = w[Gone + Len(tx) + j]
  BY DEF Chain
<1>a. \A g, t, d \in Nat : (g + 1) + (t - 1) + d = g + t + d
  OBVIOUS
<1>b. (Gone + 1) + (Len(tx) - 1) + Len(todo) = Gone + Len(tx) + Len(todo)
  BY <1>1, <1>a
<1>3. Gone' + Len(tx') + Len(todo') = Len(w)
  BY <1>1, <1>2, <1>b
<1>4. ASSUME NEW j \in 1 .. Len(tx') PROVE tx'[j] = w[Gone' + j]
  <2>1. j + 1 \in 1 .. Len(tx) /\ Gone + (j + 1) = Gone' + j /\ j \in 1 .. Len(tx) - 1
    BY <1>1
  <2> QED BY <1>1, <1>2, <2>1
<1>5. ASSUME NEW j \in 1 .. Len(todo') PROVE todo'[j] = w[Gone' + Len(tx') + j]
  <2>1. Gone' + Len(tx') + j = Gone + Len(tx) + j
    <3>1. j \in Nat /\ Gone' = Gone + 1 /\ Len(tx') = Len(tx) - 1
      BY <1>1
    <3>2. (Gone + 1) + (Len(tx) - 1) + j = Gone + Len(tx) + j
      BY <1>1, <1>a, <3>1
    <3> QED BY <3>1, <3>2
  <2> QED BY <1>2, <2>1
<1>6. Head(tx) = w[Gone']
  <2>1. 1 \in 1 .. Len(tx)
    BY <1>1
  <2> QED BY <1>1, <1>2, <2>1
<1> QED BY <1>3, <1>4, <1>5, <1>6 DEF Chain

\* A byte goes from the string into the buffer.
LEMMA ChainFilled ==
  ASSUME NEW w, tx \in Seq(Bytes), todo \in Seq(Bytes), Gone \in Nat, Chain(w), todo # <<>>,
         Len(tx) < TxSize, tx' = Appended(tx, Head(todo), TxSize), todo' = Tail(todo),
         Gone' = Gone
  PROVE  Chain(w)'
<1>1. /\ Len(todo) \in Nat \ {0} /\ Head(todo) = todo[1] /\ Len(todo') = Len(todo) - 1
      /\ \A j \in 1 .. Len(todo) - 1 : todo'[j] = todo[j + 1]
      /\ Head(todo) \in Bytes
  BY TakeOne, HeadTailIn
<1>2. /\ Len(tx') = Len(tx) + 1 /\ Len(tx) \in Nat /\ tx'[Len(tx) + 1] = Head(todo)
      /\ \A j \in 1 .. Len(tx) : tx'[j] = tx[j]
  BY <1>1, AddOne, SizesAssumption
<1>3. /\ Gone + Len(tx) + Len(todo) = Len(w)
      /\ \A j \in 1 .. Len(tx) : tx[j] = w[Gone + j]
      /\ \A j \in 1 .. Len(todo) : todo[j] = w[Gone + Len(tx) + j]
  BY DEF Chain
<1>a. \A g, t, d \in Nat : g + (t + 1) + (d - 1) = g + t + d /\ g + t + (d + 1) = g + (t + 1) + d
  OBVIOUS
<1>b. Gone + (Len(tx) + 1) + (Len(todo) - 1) = Gone + Len(tx) + Len(todo)
  BY <1>1, <1>2, <1>a
<1>4. Gone' + Len(tx') + Len(todo') = Len(w)
  BY <1>1, <1>2, <1>3, <1>b
<1>5. ASSUME NEW j \in 1 .. Len(tx') PROVE tx'[j] = w[Gone' + j]
  <2>1. CASE j \in 1 .. Len(tx)
    BY <1>2, <1>3, <2>1
  <2>2. CASE j = Len(tx) + 1
    <3>1. 1 \in 1 .. Len(todo) /\ Gone + Len(tx) + 1 = Gone' + j
      BY <1>1, <1>2, <2>2
    <3> QED BY <1>1, <1>2, <1>3, <2>2, <3>1
  <2>3. j \in 1 .. Len(tx) \/ j = Len(tx) + 1
    BY <1>2
  <2> QED BY <2>1, <2>2, <2>3
<1>6. ASSUME NEW j \in 1 .. Len(todo') PROVE todo'[j] = w[Gone' + Len(tx') + j]
  <2>1. /\ j + 1 \in 1 .. Len(todo) /\ j \in 1 .. Len(todo) - 1
        /\ Gone + Len(tx) + (j + 1) = Gone' + Len(tx') + j
    <3>1. \A n \in Nat \ {0} : j \in 1 .. n - 1 => j \in Nat /\ j + 1 \in 1 .. n
      OBVIOUS
    <3>2. j \in 1 .. Len(todo) - 1 /\ Len(todo) \in Nat \ {0}
      BY <1>1
    <3>3. j \in Nat /\ j + 1 \in 1 .. Len(todo)
      BY <3>1, <3>2
    <3>4. Gone + Len(tx) + (j + 1) = Gone + (Len(tx) + 1) + j
      BY <1>2, <1>a, <3>3
    <3>5. Gone' = Gone /\ Len(tx') = Len(tx) + 1
      BY <1>2
    <3> QED BY <3>2, <3>3, <3>4, <3>5
  <2> QED BY <1>1, <1>3, <2>1
<1> QED BY <1>4, <1>5, <1>6 DEF Chain

\* An exchange of 0x00 brings the next byte, and 0x00 only when none is left.
LEMMA AnswerExchanged ==
  ASSUME AnsweringBase, Asked, Replying, NEW w, OnItsWay(w), Exchange(Zero)
  PROVE  /\ UNCHANGED <<avr, todo, newMsg>> /\ Replying'
         /\ \/ tx # <<>> /\ tx' = Tail(tx) /\ spdr' = Head(tx) /\ spdr'.sym # "zero"
            \/ tx = <<>> /\ todo = <<>> /\ tx' = <<>> /\ spdr' = Zero
<1>0. /\ Pacing /\ AnswerBase /\ TxVisible /\ noOp = 0 /\ transmit
  BY AnswerTypes
<1>1. /\ UNCHANGED <<avr, todo, newMsg>>
      /\ \/ Held(Zero)
         \/ /\ ~masked
            /\ \/ transmit /\ tx # <<>> /\ tx' = Tail(tx) /\ spdr' = Head(tx) /\ spdr'.sym # "zero"
               \/ ~(transmit /\ tx # <<>>) /\ tx' = tx /\ spdr' = Zero
  BY <1>0, ZeroExchanged
<1>2. avr # "uart"
  BY DEF OnItsWay
<1>3. ~Held(Zero)
  BY <1>2 DEF Held
<1>4. ASSUME tx = <<>> PROVE todo = <<>>
  <2>1. avr = "fill" /\ todo # <<>> => tx # <<>>
    BY <1>0, ExchangeOutcome
  <2>2. avr \notin {"fill", "uart"} => todo = <<>>
    BY <1>0 DEF AnswerBase, AnswerInv, AllAdded
  <2> QED BY <1>2, <1>4, <2>1, <2>2
<1>5. Replying'
  BY <1>1 DEF Replying
<1> QED BY <1>0, <1>1, <1>3, <1>4, <1>5

\* The "." of a command is the first byte of it that is asked with.
LEMMA NoDot ==
  ASSUME Asked
  PROVE  ~(WriteByte /\ Len(outgoing) = 3)
<1> SUFFICES ASSUME WriteByte, Len(outgoing) = 3 PROVE FALSE
  OBVIOUS
<1>1. host = "write"
  BY DEF WriteByte
<1>2. Len(outgoing) <= 2
  BY <1>1 DEF Asked, Reading
<1>3. 3 <= 2
  BY <1>2
<1> QED BY <1>3

\* An answer stays on its way, whatever the two sides do.
LEMMA StepChained ==
  ASSUME AnsweringBase, [Next]_vars, Asked, Asked', Replying,
         NEW w, OnItsWay(w), Len(w) \in Nat, Len(w) >= 2
  PROVE  Replying' /\ OnItsWay(w)'
<1> SUFFICES Replying' /\ avr' # "uart" /\ Chain(w)' /\ (Reading' => ReadSoFar(w)')
  BY DEF OnItsWay
<1>0. /\ Passing /\ Pacing /\ AnswerBase /\ Typed /\ TxVisible /\ Quieting
      /\ tx \in Seq(Bytes) /\ todo \in Seq(Bytes) /\ incoming \in Seq(Bytes)
      /\ Len(tx) \in Nat /\ Len(todo) \in Nat /\ Len(incoming) \in Nat
      /\ Len(outgoing) \in Nat /\ Shown \in {0, 1} /\ Gone \in Nat
  BY AnswerTypes
<1>a. avr # "uart" /\ Chain(w) /\ (Reading => ReadSoFar(w))
  BY DEF OnItsWay
<1>b. Len(<<>>) = 0
  BY OneDummy
<1>1. ASSUME Exchange(Zero)
      PROVE  /\ UNCHANGED <<avr, todo>> /\ Replying'
             /\ \/ tx # <<>> /\ tx' = Tail(tx) /\ spdr' = Head(tx) /\ spdr'.sym # "zero"
                \/ tx = <<>> /\ todo = <<>> /\ tx' = <<>> /\ spdr' = Zero
  BY <1>1, AnswerExchanged
<1>2. CASE /\ Asked /\ WriteByte /\ Exchange(Zero) /\ noOp = 0 /\ host = "write"
           /\ Len(outgoing) \in {1, 2} /\ Len(outgoing') = Len(outgoing) - 1
           /\ host' = IF Len(outgoing) = 1 THEN "between" ELSE "write"
           /\ incoming = <<>> /\ incoming' = <<>> /\ UNCHANGED <<msg, call, reads, settled>>
           /\ reads = Retries + 1
  <2>1. Gone = 2 - Len(outgoing) /\ Gone \in {0, 1}
    BY <1>2 DEF Gone
  <2>2. tx # <<>>
    <3>1. SUFFICES ASSUME tx = <<>> PROVE FALSE
      OBVIOUS
    <3>2. Gone + 0 + 0 = Len(w)
      BY <1>a, <1>b, <1>1, <1>2, <3>1 DEF Chain
    <3> QED BY <1>2, <2>1, <3>2
  <2>3. tx' = Tail(tx) /\ spdr' = Head(tx) /\ spdr'.sym # "zero" /\ UNCHANGED <<avr, todo>>
    BY <1>1, <1>2, <2>2
  <2>4. Gone' = Gone + 1
    <3>1. CASE Len(outgoing) = 2
      <4>1. host' = "write" /\ Len(outgoing') = 1
        BY <1>2, <3>1
      <4> QED BY <2>1, <3>1, <4>1 DEF Gone
    <3>2. CASE Len(outgoing) = 1
      <4>1. host' = "between" /\ Len(incoming') = 0 /\ Shown' = 1
        BY <1>2, <1>b, <2>3, <3>2 DEF Shown
      <4> QED BY <2>1, <3>2, <4>1 DEF Gone
    <3> QED BY <1>2, <3>1, <3>2
  <2>5. Chain(w)' /\ Head(tx) = w[Gone']
    BY <1>0, <1>a, <2>2, <2>3, <2>4, ChainPopped
  <2>6. Reading' => ReadSoFar(w)'
    <3>1. reads' # 0 /\ host' # "sync"
      BY <1>2, SizesAssumption
    <3> QED BY <1>2, <1>b, <2>3, <2>5, <3>1 DEF ReadSoFar
  <2> QED BY <1>a, <1>1, <1>2, <2>3, <2>5, <2>6
<1>3. CASE Asked /\ Reading /\ StartRead /\ UNCHANGED <<msg, call, outgoing, incoming, settled>>
  <2>1. /\ UNCHANGED <<spdr, tx, avr, todo, newMsg>> /\ host = "between" /\ host' = "read"
    BY <1>3, CallerOnly DEF HostOnly, StartRead
  <2>2. Gone' = Gone /\ Replying'
    <3>1. Shown' = Shown
      BY <2>1 DEF Shown
    <3> QED BY <1>3, <2>1, <3>1 DEF Gone, Replying
  <2>3. Chain(w)'
    BY <1>a, <2>1, <2>2 DEF Chain
  <2>4. ReadSoFar(w)'
    BY <1>3, <1>a, <2>1, <2>2 DEF ReadSoFar
  <2> QED BY <1>a, <2>1, <2>2, <2>3, <2>4
<1>4. CASE /\ Asked /\ Reading /\ (ReadByte \/ SyncByte) /\ Exchange(Zero) /\ noOp = 0
           /\ UNCHANGED <<msg, call, outgoing, reads, settled>>
  <2>1. /\ UNCHANGED <<avr, todo>> /\ Replying'
        /\ \/ tx # <<>> /\ tx' = Tail(tx) /\ spdr' = Head(tx) /\ spdr'.sym # "zero"
           \/ tx = <<>> /\ todo = <<>> /\ tx' = <<>> /\ spdr' = Zero
    BY <1>1, <1>4
  <2>2. SUFFICES Chain(w)' /\ ReadSoFar(w)'
    BY <1>a, <2>1
  <2>3. ReadSoFar(w) /\ Chain(w)
    BY <1>4, <1>a
  <2>4. Gone = 1 + Len(incoming) + Shown /\ Gone \in Nat
    BY <1>0, <1>4 DEF Gone, Reading
  <2>5. Zero.sym = "zero"
    BY DEF Zero, Byte
  <2>6. ASSUME spdr.sym = "zero", UNCHANGED incoming, host' # "write"
        PROVE  Chain(w)' /\ ReadSoFar(w)'
    <3>1. tx = <<>> /\ todo = <<>>
      BY <2>3, <2>6 DEF ReadSoFar
    <3>2. tx' = tx /\ todo' = todo /\ spdr'.sym = "zero"
      BY <2>1, <2>5, <3>1
    <3>3. Gone' = Gone
      <4>1. Shown' = Shown
        BY <2>6, <3>2 DEF Shown
      <4>2. Gone' = 1 + Len(incoming') + Shown'
        BY <2>6 DEF Gone
      <4> QED BY <2>4, <2>6, <4>1, <4>2
    <3>4. Chain(w)'
      BY <2>3, <3>2, <3>3 DEF Chain
    <3>5. ReadSoFar(w)'
      BY <2>3, <2>6, <3>1, <3>2 DEF ReadSoFar
    <3> QED BY <3>4, <3>5
  <2>7. CASE ReadByte
    <3>1. \/ spdr.sym = "zero" /\ host' = "sync" /\ incoming' = incoming
          \/ /\ spdr.sym # "zero" /\ host' = "read"
             /\ Len(incoming') = Len(incoming) + 1
             /\ \A j \in 1 .. Len(incoming) : incoming'[j] = incoming[j]
             /\ incoming'[Len(incoming) + 1] = spdr
      BY <1>0, <2>7, ReadOutcome
    <3>2. CASE spdr.sym # "zero"
      <4>1. /\ host' = "read" /\ Len(incoming') = Len(incoming) + 1
            /\ \A j \in 1 .. Len(incoming) : incoming'[j] = incoming[j]
            /\ incoming'[Len(incoming) + 1] = spdr
        BY <3>1, <3>2
      <4>2. spdr = w[Gone] /\ Gone = Len(incoming) + 2
        <5>1. Shown = 1
          BY <3>2 DEF Shown
        <5> QED BY <1>0, <2>3, <2>4, <3>2, <5>1 DEF ReadSoFar
      <4>3. ASSUME NEW j \in 1 .. Len(incoming') PROVE incoming'[j] = w[j + 1]
        <5>1. j \in 1 .. Len(incoming) \/ (j = Len(incoming) + 1 /\ j + 1 = Gone)
          BY <1>0, <4>1, <4>2
        <5>2. \A i \in 1 .. Len(incoming) : incoming[i] = w[i + 1]
          BY <2>3 DEF ReadSoFar
        <5> QED BY <4>1, <4>2, <5>1, <5>2
      <4>4. Gone' = Gone + Shown'
        <5>1. Gone' = 1 + Len(incoming') + Shown'
          BY <4>1 DEF Gone
        <5>2. Shown' \in {0, 1}
          BY DEF Shown
        <5> QED BY <1>0, <4>1, <4>2, <5>1, <5>2
      <4>5. CASE tx # <<>>
        <5>1. tx' = Tail(tx) /\ spdr' = Head(tx) /\ spdr'.sym # "zero" /\ Gone' = Gone + 1
          BY <2>1, <4>4, <4>5 DEF Shown
        <5>2. Chain(w)' /\ Head(tx) = w[Gone']
          BY <1>0, <2>1, <2>3, <2>4, <4>5, <5>1, ChainPopped
        <5> QED BY <4>1, <4>3, <5>1, <5>2 DEF ReadSoFar
      <4>6. CASE tx = <<>>
        <5>1. todo' = <<>> /\ todo = <<>> /\ tx' = <<>> /\ spdr'.sym = "zero"
          BY <2>1, <2>5, <4>6
        <5>2. Gone' = Gone
          <6>1. Shown' = 0
            BY <5>1 DEF Shown
          <6> QED BY <2>4, <4>4, <6>1
        <5>3. Chain(w)'
          BY <2>3, <4>6, <5>1, <5>2 DEF Chain
        <5> QED BY <4>1, <4>3, <5>1, <5>3 DEF ReadSoFar
      <4> QED BY <4>5, <4>6
    <3> QED BY <2>6, <3>1, <3>2
  <2>8. CASE SyncByte
    <3>1. host = "sync" /\ host' = "between" /\ UNCHANGED incoming
      BY <2>8 DEF SyncByte
    <3>2. spdr.sym = "zero"
      BY <2>3, <3>1 DEF ReadSoFar
    <3> QED BY <2>6, <3>1, <3>2
  <2> QED BY <1>4, <2>7, <2>8
<1>5. CASE /\ Asked /\ (MainLoop \/ UNCHANGED vars)
           /\ UNCHANGED <<host, outgoing, incoming, reads, msg, call, settled>>
  <2>1. ASSUME UNCHANGED <<tx, todo, spdr>> PROVE Chain(w)' /\ (Reading' => ReadSoFar(w)')
    <3>1. Gone' = Gone
      BY <1>5, <2>1 DEF Gone, Shown
    <3>2. Chain(w)'
      BY <1>a, <2>1, <3>1 DEF Chain
    <3>3. Reading' => Reading
      BY <1>5 DEF Reading
    <3>4. ReadSoFar(w) => ReadSoFar(w)'
      BY <1>5, <2>1, <3>1 DEF ReadSoFar
    <3> QED BY <1>a, <3>2, <3>3, <3>4
  <2>2. ~StartDecode /\ ~AddDummy /\ ~FetchFirst /\ ~FetchSecond /\ ~FetchPrint /\ ~FetchNothing
    BY <1>a DEF Replying, StartDecode, AddDummy, FetchFirst, FetchSecond, FetchPrint,
       FetchNothing, MainStep
  <2>4. CASE FillTx
    <3>1. /\ avr = "fill" /\ avr' = "fill" /\ todo # <<>> /\ todo' = Tail(todo) /\ spdr' = spdr
          /\ tx' = Appended(tx, Head(todo), TxSize)
      BY <2>4 DEF FillTx, MainStep
    <3>3. Len(tx) < TxSize
      <4>1. Len(tx) + Len(todo) <= TxSize
        BY <1>0, <3>1 DEF Passing, Load, Filling
      <4>2. Len(todo) \in Nat \ {0}
        BY <1>0, <3>1, TakeOne
      <4> QED BY <1>0, <4>1, <4>2, SizesAssumption
    <3>4. Gone' = Gone
      BY <1>5, <3>1 DEF Gone, Shown
    <3>5. Chain(w)'
      BY <1>0, <1>a, <3>1, <3>3, <3>4, ChainFilled
    <3>6. Reading' => ReadSoFar(w)'
      BY <1>5, <1>a, <3>1, <3>4 DEF ReadSoFar, Reading
    <3> QED BY <3>1, <3>5, <3>6 DEF Replying
  <2>5. CASE PrintChar \/ CharPrinted
    BY <1>0, <1>a, <2>5 DEF PrintChar, MainStep, CharPrinted, AnswerBase, AnswerInv, Printing
  <2>6. CASE FlushRx \/ ClearNewMsg
    <3>1. /\ avr' = "clear" \/ (avr' = "loop" /\ ~newMsg')
          /\ UNCHANGED <<tx, todo, spdr>>
      BY <2>6 DEF FlushRx, ClearNewMsg, MainStep
    <3> QED BY <2>1, <3>1 DEF Replying
  <2>7. CASE UNCHANGED vars
    <3>1. UNCHANGED <<tx, todo, spdr, avr, newMsg>>
      BY <2>7 DEF vars, isrVars, loopVars
    <3>2. Replying'
      BY <3>1 DEF Replying
    <3> QED BY <1>a, <2>1, <3>1, <3>2
  <2> QED BY <1>5, <2>2, <2>4, <2>5, <2>6, <2>7 DEF MainLoop
<1>6. ~(WriteByte /\ Len(outgoing) = 3)
  BY NoDot
<1> QED BY <1>0, <1>2, <1>3, <1>4, <1>5, <1>6, AskedStep

\* When no answer is on its way, none comes; at most the blank goes out.
LEMMA BlankExchanged ==
  ASSUME AnsweringBase, Asked, Blank, Exchange(Zero)
  PROVE  /\ UNCHANGED <<avr, todo, newMsg>>
         /\ tx' \in {<<>>, <<Dummy>>} /\ (spdr'.sym = "zero" \/ spdr' = Dummy)
         /\ Shown' + Len(tx') = Len(tx)
<1>0. Pacing /\ TxVisible /\ noOp = 0 /\ transmit /\ Len(tx) \in Nat
  BY AnswerTypes
<1>1. /\ UNCHANGED <<avr, todo, newMsg>>
      /\ \/ Held(Zero)
         \/ transmit /\ tx # <<>> /\ tx' = Tail(tx) /\ spdr' = Head(tx) /\ spdr'.sym # "zero"
         \/ ~(transmit /\ tx # <<>>) /\ tx' = tx /\ spdr' = Zero
  BY <1>0, ZeroExchanged
<1>2. CASE spdr' = Zero /\ tx' = tx
  BY <1>0, <1>1, <1>2 DEF Zero, Byte, Shown, Blank
<1>3. CASE tx # <<>> /\ tx' = Tail(tx) /\ spdr' = Head(tx) /\ spdr'.sym # "zero"
  <2>1. tx = <<Dummy>> /\ tx' = <<>> /\ spdr' = Dummy /\ Shown' = 1
    BY <1>3, OneDummy DEF Blank, Shown
  <2> QED BY <1>1, <2>1, OneDummy
<1> QED BY <1>1, <1>2, <1>3 DEF Held

LEMMA StepBlank ==
  ASSUME AnsweringBase, [Next]_vars, Asked, Asked', Replying, Blank
  PROVE  Replying' /\ Blank'
<1>0. /\ Passing /\ Pacing /\ AnswerBase /\ Typed /\ Quieting
      /\ Len(tx) \in Nat /\ Len(incoming) \in Nat /\ Shown \in {0, 1}
      /\ transmit /\ noOp = 0
      /\ masked => avr = "uart"
      /\ Reading /\ pending # <<>> => spdr = Zero
  BY AnswerTypes DEF AnswerBase, AnswerInv, Printing, Passing, Switched, Sent
<1>a. /\ tx \in {<<>>, <<Dummy>>}
      /\ avr # "uart" => todo = <<>>
      /\ Reading =>
           /\ incoming \in {<<>>, <<Dummy>>}
           /\ spdr.sym = "zero" \/ spdr = Dummy
           /\ Len(incoming) + Shown + Len(tx) <= 1
  BY DEF Blank
<1>1. ASSUME Exchange(Zero)
      PROVE  /\ Replying' /\ UNCHANGED <<avr, todo>>
             /\ tx' \in {<<>>, <<Dummy>>} /\ (spdr'.sym = "zero" \/ spdr' = Dummy)
             /\ Shown' + Len(tx') = Len(tx)
  BY <1>1, BlankExchanged DEF Replying
<1>2. CASE /\ Asked /\ WriteByte /\ Exchange(Zero) /\ noOp = 0 /\ host = "write"
           /\ Len(outgoing) \in {1, 2} /\ Len(outgoing') = Len(outgoing) - 1
           /\ host' = IF Len(outgoing) = 1 THEN "between" ELSE "write"
           /\ incoming = <<>> /\ incoming' = <<>> /\ UNCHANGED <<msg, call, reads, settled>>
           /\ reads = Retries + 1
  <2>1. Len(tx) <= 1
    <3>1. Len(tx) \in {0, 1}
      BY <1>a, OneDummy
    <3>2. \A k \in {0, 1} : k <= 1
      OBVIOUS
    <3> QED BY <3>1, <3>2, Zenon
  <2>2. 0 + Shown' + Len(tx') <= 1 /\ Len(incoming') = 0
    <3>1. 0 + Shown' + Len(tx') = Shown' + Len(tx')
      <4>1. Shown' \in {0, 1}
        BY DEF Shown
      <4>2. Len(tx') \in {0, 1}
        BY <1>1, <1>2, OneDummy
      <4> QED BY <4>1, <4>2
    <3> QED BY <1>1, <1>2, <2>1, <3>1, OneDummy
  <2> QED BY <1>a, <1>1, <1>2, <2>2 DEF Blank
<1>3. CASE Asked /\ Reading /\ StartRead /\ UNCHANGED <<msg, call, outgoing, incoming, settled>>
  <2>1. UNCHANGED <<spdr, tx, avr, todo, newMsg>>
    BY <1>3, CallerOnly DEF HostOnly
  <2>2. Shown' = Shown
    BY <2>1 DEF Shown
  <2>3. Replying'
    BY <2>1 DEF Replying
  <2> QED BY <1>3, <1>a, <2>1, <2>2, <2>3 DEF Blank
<1>4. CASE /\ Asked /\ Reading /\ (ReadByte \/ SyncByte) /\ Exchange(Zero) /\ noOp = 0
           /\ UNCHANGED <<msg, call, outgoing, reads, settled>>
  <2>0. Len(tx') \in {0, 1} /\ Shown' \in {0, 1} /\ Len(tx) \in {0, 1}
    <3>1. Shown' \in {0, 1}
      BY DEF Shown
    <3> QED BY <1>a, <1>1, <1>4, <3>1, OneDummy
  <2>1. CASE incoming' = incoming
    <3>1. Len(incoming') + Shown' + Len(tx') <= 1
      BY <1>0, <1>a, <1>1, <1>4, <2>0, <2>1
    <3> QED BY <1>a, <1>1, <1>4, <2>1, <3>1 DEF Blank
  <2>2. CASE spdr.sym # "zero" /\ incoming' = Append(incoming, spdr)
    <3>1. spdr = Dummy /\ Shown = 1
      BY <1>a, <1>4, <2>2 DEF Shown
    <3>2. Len(incoming) = 0 /\ Len(tx) = 0
      BY <1>0, <1>a, <1>4, <3>1
    <3>3. incoming = <<>>
      BY <1>a, <1>4, <3>2, OneDummy
    <3>4. incoming' = <<Dummy>> /\ Len(incoming') = 1
      BY <2>2, <3>1, <3>3
    <3>5. Len(incoming') + Shown' + Len(tx') <= 1
      BY <1>1, <1>4, <2>0, <3>2, <3>4
    <3> QED BY <1>a, <1>1, <1>4, <3>4, <3>5 DEF Blank
  <2> QED BY <1>4, <2>1, <2>2 DEF ReadByte, SyncByte
<1>5. CASE /\ Asked /\ (MainLoop \/ UNCHANGED vars)
           /\ UNCHANGED <<host, outgoing, incoming, reads, msg, call, settled>>
  <2>0. Reading' <=> Reading
    BY <1>5 DEF Reading
  <2>1. ASSUME UNCHANGED <<tx, spdr>>, avr' # "uart" => todo' = <<>> PROVE Blank'
    <3>1. Shown' = Shown
      BY <2>1 DEF Shown
    <3> QED BY <1>5, <1>a, <2>0, <2>1, <3>1 DEF Blank
  <2>2. /\ ~StartDecode /\ ~AddDummy /\ ~FetchFirst /\ ~FetchSecond /\ ~FetchPrint
        /\ ~FetchNothing /\ ~FillTx
    BY <1>a DEF Replying, StartDecode, AddDummy, FetchFirst, FetchSecond, FetchPrint,
       FetchNothing, FillTx, MainStep
  <2>3. CASE PrintChar
    <3>1. UNCHANGED <<tx, spdr>> /\ avr' = "uart"
      BY <2>3 DEF PrintChar, MainStep, isrVars
    <3> QED BY <2>1, <3>1 DEF Replying
  <2>4. CASE CharPrinted
    <3>1. avr = "uart" /\ avr' = "uart"
      BY <1>0, <2>4 DEF CharPrinted, loopVars
    <3>2. CASE pending = <<>>
      <4>1. UNCHANGED <<tx, spdr>>
        BY <2>4, <3>2 DEF CharPrinted, isrVars
      <4> QED BY <2>1, <3>1, <4>1 DEF Replying
    <3>3. CASE pending # <<>>
      <4>1. PICK b : Isr(b)
        BY <2>4, <3>3 DEF CharPrinted
      <4>2. Reading => Shown = 0
        BY <1>0, <3>3 DEF Shown, Zero, Byte
      <4>3. /\ tx' \in {<<>>, <<Dummy>>} /\ (spdr'.sym = "zero" \/ spdr' = Dummy)
            /\ Shown' + Len(tx') = Len(tx)
        <5>1. CASE IsrTransmit
          <6>1. tx = <<Dummy>> /\ tx' = <<>> /\ spdr' = Dummy
            BY <1>a, <5>1, OneDummy DEF IsrTransmit
          <6>2. Shown' = 1
            BY <6>1 DEF Shown, Dummy, Byte
          <6> QED BY <6>1, <6>2, OneDummy
        <5>2. CASE IsrReceive(b)
          <6>1. tx' = tx /\ spdr' = Zero
            BY <5>2 DEF IsrReceive
          <6>2. Shown' = 0 /\ spdr'.sym = "zero"
            BY <6>1 DEF Shown, Zero, Byte
          <6> QED BY <1>0, <1>a, <6>1, <6>2
        <5>3. ~IsrNoOp(b)
          BY <1>0 DEF IsrNoOp
        <5> QED BY <4>1, <5>1, <5>2, <5>3 DEF Isr
      <4>4. Reading => Len(incoming') + Shown' + Len(tx') <= 1
        <5>1. Len(tx') \in {0, 1} /\ Shown' \in {0, 1}
          <6>1. Shown' \in {0, 1}
            BY DEF Shown
          <6> QED BY <4>3, <6>1, OneDummy
        <5> QED BY <1>0, <1>5, <1>a, <4>2, <4>3, <5>1
      <4> QED BY <1>5, <1>a, <2>0, <3>1, <4>3, <4>4 DEF Blank, Replying
    <3> QED BY <3>2, <3>3
  <2>5. CASE FlushRx
    <3>1. UNCHANGED <<tx, spdr>> /\ avr' = "clear" /\ todo' = <<>>
      BY <2>5 DEF FlushRx, MainStep
    <3> QED BY <2>1, <3>1 DEF Replying
  <2>6. CASE ClearNewMsg
    <3>1. UNCHANGED <<tx, spdr, todo>> /\ avr = "clear" /\ avr' = "loop" /\ ~newMsg'
      BY <2>6 DEF ClearNewMsg, MainStep
    <3> QED BY <1>a, <2>1, <3>1 DEF Replying
  <2>7. CASE UNCHANGED vars
    <3>1. UNCHANGED <<tx, todo, spdr, avr, newMsg>>
      BY <2>7 DEF vars, isrVars, loopVars
    <3> QED BY <1>a, <2>1, <3>1 DEF Replying
  <2> QED BY <1>5, <2>2, <2>3, <2>4, <2>5, <2>6, <2>7 DEF MainLoop
<1>6. ~(WriteByte /\ Len(outgoing) = 3)
  BY NoDot
<1> QED BY <1>0, <1>2, <1>3, <1>4, <1>5, <1>6, AskedStep

\* What the shield starts to add to its buffer.
LEMMA Started ==
  ASSUME NEW w, w \in Wholes, call \in Nat, Len(tx) \in Nat,
         Gone \in {0, 1}, tx = IF Gone = 1 THEN <<>> ELSE <<Dummy>>,
         <<Dummy>> \o todo' = w, avr' = "fill", tx' = tx, Gone' = Gone, ~Reading',
         \E str \in {BoardInfo, Invalid}, n \in Nat : todo' = Tagged(str, n)
  PROVE  OnItsWay(w)'
<1>1. PICK str \in {BoardInfo, Invalid}, n \in Nat : todo' = Tagged(str, n)
  OBVIOUS
<1>2. PICK e : e = Tagged(str, n)
  OBVIOUS
<1>3. /\ todo' = e /\ Len(e) \in Nat /\ Len(w) = Len(e) + 1 /\ w[1] = Dummy
      /\ \A j \in 1 .. Len(e) : w[j + 1] = e[j]
  BY <1>1, <1>2, WholeAnswer
<1>4. Gone + Len(tx) = 1 /\ (\A j \in 1 .. Len(tx) : tx[j] = w[Gone + j])
  <2>1. CASE Gone = 1
    BY <2>1, OneDummy
  <2>2. CASE Gone = 0
    <3>1. Len(tx) = 1 /\ tx[1] = Dummy
      BY <2>2, OneDummy
    <3> QED BY <1>3, <2>2, <3>1
  <2> QED BY <2>1, <2>2
<1>5. Gone' + Len(tx') + Len(todo') = Len(w)
  BY <1>3, <1>4
<1>6. \A j \in 1 .. Len(tx') : tx'[j] = w[Gone' + j]
  BY <1>4
<1>7. ASSUME NEW j \in 1 .. Len(todo') PROVE todo'[j] = w[Gone' + Len(tx') + j]
  <2>1. Gone' + Len(tx') = 1 /\ 1 + j = j + 1 /\ j \in 1 .. Len(e)
    BY <1>3, <1>4
  <2> QED BY <1>3, <2>1
<1> QED BY <1>5, <1>6, <1>7 DEF OnItsWay, Chain

LEMMA StepFetched ==
  ASSUME AnsweringBase, [Next]_vars, Asked, Asked', ~Replying, Replying'
  PROVE  \/ Blank' /\ (settled' => Prints(msg'))
         \/ \E w \in Wholes' : Due(w)' /\ OnItsWay(w)'
<1>0. /\ Passing /\ Pacing /\ AnswerBase /\ Typed /\ TxVisible /\ Quieting
      /\ Len(tx) \in Nat /\ Len(outgoing) \in Nat /\ call \in Nat
      /\ msg \in Messages /\ noOp = 0
      /\ (First => FirstLetters) /\ (avr = "fetch2" => SecondLetter)
  BY AnswerTypes DEF AnsweringBase, FetchingBase, Fetching
<1>1. First \/ avr = "fetch2"
  BY <1>0 DEF Replying, First, Typed, Counters
<1>2. /\ host = "write" /\ ~Reading /\ Len(outgoing) \in {1, 2}
      /\ avr = "fetch1" => Len(outgoing) = 2
  <2>1. /\ host \in {"idle", "write"}
        /\ host = "write" => Len(outgoing) >= IF avr = "fetch2" /\ steps = 0 THEN 1 ELSE 2
    BY <1>0, <1>1 DEF Pacing, Early, First
  <2>2. host = "write" /\ Len(outgoing) <= 2
    BY <2>1 DEF Asked, Reading
  <2>3. \A k \in Nat : (k >= 1 /\ k <= 2 => k \in {1, 2}) /\ (k >= 2 /\ k <= 2 => k = 2)
    OBVIOUS
  <2>4. Len(outgoing) >= IF avr = "fetch2" /\ steps = 0 THEN 1 ELSE 2
    BY <2>1, <2>2
  <2>5. Len(outgoing) >= 1 /\ (avr = "fetch1" => Len(outgoing) >= 2)
    <3>1. CASE avr = "fetch2" /\ steps = 0
      BY <2>4, <3>1
    <3>2. CASE ~(avr = "fetch2" /\ steps = 0)
      <4>1. Len(outgoing) >= 2
        BY <2>4, <3>2
      <4> QED BY <1>0, <4>1
    <3> QED BY <3>1, <3>2
  <2>6. Len(outgoing) \in {1, 2} /\ (avr = "fetch1" => Len(outgoing) = 2)
    BY <1>0, <2>2, <2>3, <2>5
  <2> QED BY <2>2, <2>6 DEF Reading
<1>3. /\ FetchSecond \/ FetchPrint \/ FetchNothing
      /\ UNCHANGED <<host, outgoing, incoming, msg, call, settled>>
  <2>1. ~Exchange(Zero)
    <3>1. ASSUME Exchange(Zero) PROVE FALSE
      <4>1. UNCHANGED <<avr, newMsg>>
        BY <1>0, <3>1, ZeroExchanged
      <4> QED BY <4>1 DEF Replying
    <3> QED BY <3>1
  <2>2. ~(WriteByte /\ Len(outgoing) = 3)
    BY <1>2
  <2>3. /\ MainLoop \/ UNCHANGED vars
        /\ UNCHANGED <<host, outgoing, incoming, msg, call, settled>>
    BY <1>0, <1>2, <2>1, <2>2, AskedStep
  <2>4. ~UNCHANGED vars
    <3>1. ASSUME UNCHANGED vars PROVE FALSE
      <4>1. UNCHANGED <<avr, newMsg>>
        BY <3>1 DEF vars, isrVars, loopVars
      <4> QED BY <4>1 DEF Replying
    <3> QED BY <3>1
  <2>5. /\ ~StartDecode /\ ~AddDummy /\ ~FetchFirst /\ ~FillTx /\ ~PrintChar /\ ~FlushRx
        /\ ~ClearNewMsg
    BY <1>1 DEF StartDecode, AddDummy, FetchFirst, FillTx, PrintChar, FlushRx, ClearNewMsg,
       MainStep, First, Replying
  <2>6. ~CharPrinted
    BY <1>0, <1>1 DEF CharPrinted, AnswerBase, AnswerInv, Printing, First
  <2> QED BY <2>3, <2>4, <2>5, <2>6 DEF MainLoop
<1>4. Gone \in {0, 1} /\ Gone' = Gone /\ ~Reading' /\ Wholes' = Wholes
  BY <1>2, <1>3 DEF Gone, Reading, Wholes
<1>5. tx = IF Gone = 1 THEN <<>> ELSE <<Dummy>>
  <2>1. CASE avr = "fetch1"
    <3>1. tx = <<Dummy>> /\ Gone = 0
      BY <1>0, <1>2, <2>1 DEF Pacing, Ahead, Gone
    <3> QED BY <3>1
  <2>2. CASE avr = "fetch2"
    <3>1. /\ steps = 0 => Len(outgoing) = 1 /\ tx = <<>>
          /\ steps > 0 => Len(outgoing) = 2
      BY <1>0, <2>2 DEF SecondLetter
    <3>2. steps = 0 \/ (steps >= 3 /\ tx = <<Dummy>>)
      BY <1>0, <2>2 DEF Pacing, Ahead
    <3>3. CASE steps = 0
      <4>1. Len(outgoing) = 1 /\ tx = <<>>
        BY <3>1, <3>3
      <4>2. Gone = 1
        BY <1>2, <4>1 DEF Gone
      <4> QED BY <4>1, <4>2
    <3>4. CASE steps >= 3 /\ tx = <<Dummy>>
      <4>1. steps > 0
        BY <1>0, <3>4, SizesAssumption DEF Typed, Counters
      <4>2. Gone = 0
        BY <1>2, <3>1, <4>1 DEF Gone
      <4> QED BY <3>4, <4>2
    <3> QED BY <3>2, <3>3, <3>4
  <2>3. avr \in {"fetch1", "fetch2"}
    BY <1>3 DEF FetchSecond, FetchPrint, FetchNothing, MainStep
  <2> QED BY <2>1, <2>2, <2>3
<1>6. avr = "fetch2" /\ settled /\ rx # <<>> =>
        cmd[1].sym = msg[1] /\ Head(rx).sym = msg[2] /\ cmd[1].no = call
  <2>1. ASSUME avr = "fetch2", settled, rx # <<>>
        PROVE  cmd[1].sym = msg[1] /\ Head(rx).sym = msg[2] /\ cmd[1].no = call
    <3>1. cmd = <<Byte(msg[1], call)>> /\ rx[1] = Byte(msg[2], call)
      BY <1>0, <2>1 DEF SecondLetter
    <3>2. Head(rx) = rx[1]
      BY <1>0, <2>1, TakeOne DEF Typed, Carried
    <3> QED BY <3>1, <3>2 DEF Byte
  <2> QED BY <2>1
<1>7. CASE FetchPrint
  <2>1. /\ avr = "fetch2" /\ avr' = "uart" /\ tx' = tx /\ rx # <<>>
        /\ <<cmd[1].sym, Head(rx).sym>> = <<"g", "d">>
    BY <1>7 DEF FetchPrint, MainStep
  <2>2. settled' => Prints(msg')
    BY <1>3, <1>6, <2>1 DEF Prints
  <2>3. Blank'
    BY <1>4, <1>5, <2>1 DEF Blank
  <2> QED BY <2>2, <2>3
<1>8. ASSUME NEW w \in Wholes, Due(w), <<Dummy>> \o todo' = w, avr' = "fill", tx' = tx,
             \E str \in {BoardInfo, Invalid}, n \in Nat : todo' = Tagged(str, n)
      PROVE  \E v \in Wholes' : Due(v)' /\ OnItsWay(v)'
  <2>1. OnItsWay(w)'
    BY <1>0, <1>4, <1>5, <1>8, Started
  <2>2. Due(w)'
    BY <1>3, <1>8 DEF Due, Expected
  <2> QED BY <1>4, <1>8, <2>1, <2>2
<1>9. CASE FetchSecond
  <2>1. /\ avr = "fetch2" /\ avr' = "fill" /\ tx' = tx /\ rx # <<>>
        /\ <<cmd[1].sym, Head(rx).sym>> # <<"g", "d">>
        /\ todo' = Tagged(Answer(cmd[1].sym, Head(rx).sym), cmd[1].no)
    BY <1>9 DEF FetchSecond, MainStep
  <2>2. cmd[1].no = call
    BY <1>0, <2>1 DEF SecondLetter
  <2>3. Answer(cmd[1].sym, Head(rx).sym) \in {BoardInfo, Invalid}
    BY <2>1 DEF Answer
  <2>4. PICK str \in {BoardInfo, Invalid} : str = Answer(cmd[1].sym, Head(rx).sym)
    BY <2>3
  <2>5. PICK w : w = <<Dummy>> \o Tagged(str, call)
    OBVIOUS
  <2>6. w \in Wholes
    BY <2>5 DEF Wholes
  <2>7. todo' = Tagged(str, call)
    BY <2>1, <2>2, <2>4
  <2>8. Due(w)
    <3>1. SUFFICES ASSUME settled PROVE w = <<Dummy>> \o Expected(msg, call)
      BY DEF Due
    <3>2. str = Answer(msg[1], msg[2])
      BY <1>6, <2>1, <2>4, <3>1
    <3> QED BY <2>5, <3>2 DEF Expected
  <2> QED BY <1>0, <1>8, <2>1, <2>5, <2>6, <2>7, <2>8
<1>10. CASE FetchNothing
  <2>1. /\ avr' = "fill" /\ tx' = tx /\ rx = <<>> /\ avr \in {"fetch1", "fetch2"}
        /\ todo' = Tagged(Invalid, 0)
    BY <1>10 DEF FetchNothing, MainStep
  <2>2. PICK w : w = <<Dummy>> \o Tagged(Invalid, 0)
    OBVIOUS
  <2>3. w \in Wholes
    BY <2>2 DEF Wholes
  <2>4. ~settled
    <3>1. avr = "fetch1" => First
      BY DEF First
    <3>2. Len(rx) = 0
      BY <2>1, OneDummy
    <3> QED BY <1>0, <2>1, <3>1, <3>2 DEF FirstLetters, SecondLetter
  <2>5. Due(w)
    BY <2>4 DEF Due
  <2> QED BY <1>0, <1>8, <2>1, <2>2, <2>3, <2>5
<1> QED BY <1>3, <1>7, <1>9, <1>10

LEMMA StepAnswering == AnsweringBase /\ [Next]_vars => Answering'
<1> SUFFICES ASSUME AnsweringBase, [Next]_vars, Asked', Replying'
             PROVE  \/ Blank' /\ (settled' => Prints(msg'))
                    \/ \E w \in Wholes' : Due(w)' /\ OnItsWay(w)'
  BY DEF Answering
<1>0. Quieting /\ AnswerBase /\ call \in Nat
  BY AnswerTypes
<1>1. CASE WriteByte /\ Len(outgoing) = 3 /\ ended
  <2>1. /\ avr' = avr /\ avr \in {"uart", "clear", "loop"} /\ host' = "write"
        /\ UNCHANGED <<todo, settled>> /\ tx' \in {<<>>, <<Dummy>>}
        /\ avr = "loop" => newMsg'
        /\ settled => avr = "loop"
    BY <1>0, <1>1, DotReceived
  <2>2. avr \in {"uart", "clear"} /\ ~settled'
    BY <2>1 DEF Replying
  <2>3. avr # "uart" => todo' = <<>>
    BY <1>0, <2>1, <2>2 DEF AnswerBase, AnswerInv, AllAdded
  <2>4. Blank'
    BY <2>1, <2>3 DEF Blank, Reading
  <2> QED BY <2>2, <2>4
<1>2. CASE Asked
  <2>1. UNCHANGED <<msg, call, settled>>
    <3>1. ~(WriteByte /\ Len(outgoing) = 3)
      BY <1>2, NoDot
    <3> QED BY <1>0, <3>1, AskedStep
  <2>2. Wholes' = Wholes /\ \A w : Due(w) => Due(w)'
    BY <2>1 DEF Wholes, Due, Expected
  <2>3. CASE Replying /\ Blank /\ (settled => Prints(msg))
    <3>1. Blank'
      BY <1>2, <2>3, StepBlank
    <3> QED BY <2>1, <2>3, <3>1
  <2>4. ASSUME Replying, NEW w \in Wholes, Due(w), OnItsWay(w)
        PROVE  \E v \in Wholes' : Due(v)' /\ OnItsWay(v)'
    <3>1. PICK str \in {BoardInfo, Invalid}, n \in {0, call} : w = <<Dummy>> \o Tagged(str, n)
      BY <2>4 DEF Wholes
    <3>2. Len(w) \in Nat /\ Len(w) >= 2
      <4>1. Len(Tagged(str, n)) \in Nat \ {0} /\ Len(w) = Len(Tagged(str, n)) + 1
        BY <1>0, <3>1, WholeAnswer
      <4> QED BY <4>1
    <3>3. OnItsWay(w)'
      BY <1>2, <2>4, <3>2, StepChained
    <3> QED BY <2>2, <2>4, <3>3
  <2>5. CASE ~Replying
    BY <1>2, <2>5, StepFetched
  <2>6. Replying => \/ Blank /\ (settled => Prints(msg))
                    \/ \E w \in Wholes : Due(w) /\ OnItsWay(w)
    BY <1>2 DEF AnsweringBase, Answering
  <2> QED BY <2>3, <2>4, <2>5, <2>6
<1> QED BY <1>0, <1>1, <1>2, AskedStep

----------------------------------------------------------------------------
Answered == AnsweringBase /\ AnswerComplete /\ AnswerWhole

LEMMA InitAnswered ==
  ASSUME Pace >= 3, CharTime < 2 * Retries + 4, Init
  PROVE  Answered
<1>1. AnswerBase
  BY InitTyped, InitAnswerInv, InitOrdered DEF AnswerBase
<1>2. Passing /\ Finished
  BY <1>1, InitPacing, InitPassing DEF Passing, Pacing
<1>3. AnsweringBase
  BY <1>2, InitClean, InitQuiet, InitFetching
     DEF AnsweringBase, FetchingBase, Quieting, Cleaning, Finishing
<1>4. AnswerComplete /\ AnswerWhole
  BY DEF Init, AnswerComplete, AnswerWhole
<1> QED BY <1>3, <1>4 DEF Answered

\* Only a return gives an answer.
LEMMA LastBefore ==
  ASSUME [Next]_vars
  PROVE  last' = last \/ Return
<1>1. HostOnly \/ WriteByte \/ ReadByte \/ SyncByte \/ Reflash => last' = last \/ Return
  BY DEF HostOnly, CommandToMCU, StartRead, Killed, WriteByte, ReadByte, SyncByte, Reflash
<1>2. MainLoop \/ UNCHANGED vars => last' = last
  BY ShieldOnly
<1> QED BY <1>1, <1>2 DEF Next, HostStep, HostOnly

\* When a call returns, there was no answer, or it has been read to the end.
LEMMA ReturnedAnswer ==
  ASSUME AnsweringBase, Return, ended
  PROVE  \/ incoming \in {<<>>, <<Dummy>>} /\ (settled => Prints(msg))
         \/ /\ \E str \in {BoardInfo, Invalid}, n \in {0, call} : incoming = Tagged(str, n)
            /\ settled /\ ~Prints(msg) => incoming = Expected(msg, call)
<1>1. host = "between" /\ Reading /\ (incoming # <<>> \/ reads = 0) /\ Asked
  BY DEF Return, Reading, Asked
<1>2. Pacing /\ incoming \in Seq(Bytes) /\ Len(incoming) \in Nat /\ call \in Nat /\ msg \in Messages
  BY <1>1, AnswerTypes
<1>3. Replying
  BY <1>1, <1>2, NoDecode DEF Replying
<1>4. CASE Blank /\ (settled => Prints(msg))
  BY <1>1, <1>4 DEF Blank
<1>5. ASSUME NEW w \in Wholes, Due(w), OnItsWay(w),
             NEW str \in {BoardInfo, Invalid}, NEW n \in Nat, w = <<Dummy>> \o Tagged(str, n)
      PROVE  incoming = Tagged(str, n)
  <2>1. Chain(w) /\ ReadSoFar(w)
    BY <1>1, <1>5 DEF OnItsWay
  <2>2. spdr.sym = "zero" /\ tx = <<>> /\ todo = <<>>
    BY <1>1, <2>1 DEF ReadSoFar
  <2>3. PICK e : e = Tagged(str, n)
    OBVIOUS
  <2>4. /\ e \in Seq(Visible) /\ Len(e) \in Nat \ {0} /\ Len(w) = Len(e) + 1
        /\ \A j \in 1 .. Len(e) : w[j + 1] = e[j]
    <3>1. str \in {BoardInfo, Invalid} /\ n \in Nat /\ w = <<Dummy>> \o e /\ e = Tagged(str, n)
      BY <1>5, <2>3
    <3>2. e \in Seq(Visible) /\ Len(e) \in Nat \ {0}
      BY <3>1, WholeAnswer
    <3>3. Len(w) = Len(e) + 1
      BY <3>1, WholeAnswer
    <3>4. \A j \in 1 .. Len(e) : w[j + 1] = e[j]
      BY <3>1, WholeAnswer
    <3> QED BY <3>2, <3>3, <3>4
  <2>5. Len(incoming) = Len(e)
    <3>1. Gone = 1 + Len(incoming) + 0
      BY <1>1, <2>2 DEF Gone, Shown
    <3>2. Gone + 0 + 0 = Len(w)
      BY <2>1, <2>2, OneDummy DEF Chain
    <3> QED BY <1>2, <2>4, <3>1, <3>2
  <2>6. \A j \in 1 .. Len(incoming) : incoming[j] = e[j]
    BY <2>1, <2>4, <2>5 DEF ReadSoFar
  <2>7. e \in Seq(Bytes)
    <3>1. \A b \in Visible : b \in Bytes
      BY DEF Visible
    <3> QED BY <2>4, <3>1, SeqMonotonic
  <2> QED BY <1>2, <2>3, <2>5, <2>6, <2>7, SeqEqual
<1>6. ASSUME NEW w \in Wholes, Due(w), OnItsWay(w)
      PROVE  /\ \E str \in {BoardInfo, Invalid}, n \in {0, call} : incoming = Tagged(str, n)
             /\ settled /\ ~Prints(msg) => incoming = Expected(msg, call)
  <2>1. PICK str \in {BoardInfo, Invalid}, n \in {0, call} : w = <<Dummy>> \o Tagged(str, n)
    BY <1>6 DEF Wholes
  <2>2. incoming = Tagged(str, n)
    BY <1>2, <1>5, <1>6, <2>1
  <2>3. ASSUME settled, ~Prints(msg) PROVE incoming = Expected(msg, call)
    <3>1. w = <<Dummy>> \o Tagged(Answer(msg[1], msg[2]), call)
      BY <1>6, <2>3 DEF Due, Expected
    <3>2. Answer(msg[1], msg[2]) \in {BoardInfo, Invalid}
      BY <2>3 DEF Answer, Prints
    <3>3. incoming = Tagged(Answer(msg[1], msg[2]), call)
      BY <1>2, <1>5, <1>6, <3>1, <3>2
    <3> QED BY <3>3 DEF Expected
  <2> QED BY <2>2, <2>3
<1> QED BY <1>1, <1>3, <1>4, <1>6 DEF AnsweringBase, Answering

LEMMA StepAnswers == Answered /\ [Next]_vars => AnswerComplete' /\ AnswerWhole'
<1> SUFFICES ASSUME Answered, [Next]_vars PROVE AnswerComplete' /\ AnswerWhole'
  OBVIOUS
<1>0. AnsweringBase /\ AnswerComplete /\ AnswerWhole /\ (settled => ended)
  BY DEF Answered, AnsweringBase, FetchingBase, Quieting, Settled
<1>1. CASE last' = last
  BY <1>0, <1>1 DEF AnswerComplete, AnswerWhole, Expected
<1>2. CASE Return
  <2>1. last' = [no |-> call, msg |-> msg, reply |-> incoming,
                 ended |-> ended, settled |-> settled]
    BY <1>2 DEF Return
  <2>2. /\ last'.no = call /\ last'.msg = msg /\ last'.reply = incoming
        /\ last'.ended = ended /\ last'.settled = settled
    BY <2>1
  <2>3. ended =>
          \/ incoming \in {<<>>, <<Dummy>>} /\ (settled => Prints(msg))
          \/ /\ \E str \in {BoardInfo, Invalid}, n \in {0, call} : incoming = Tagged(str, n)
             /\ settled /\ ~Prints(msg) => incoming = Expected(msg, call)
    BY <1>0, <1>2, ReturnedAnswer
  <2>4. AnswerComplete'
    <3>1. settled /\ ~Prints(msg) => incoming = Expected(msg, call)
      BY <1>0, <2>3
    <3> QED BY <2>2, <3>1 DEF AnswerComplete
  <2>5. AnswerWhole'
    BY <2>2, <2>3 DEF AnswerWhole
  <2> QED BY <2>4, <2>5
<1> QED BY <1>1, <1>2, LastBefore

LEMMA StepAnswered == Answered /\ [Next]_vars => Answered'
<1> SUFFICES ASSUME Answered, [Next]_vars PROVE Answered'
  OBVIOUS
<1>0. /\ AnsweringBase /\ FetchingBase /\ Quieting /\ Cleaning /\ Finishing /\ Passing /\ Pacing
      /\ AnswerBase /\ Typed /\ AnswerInv /\ TxVisible
  BY DEF Answered, AnsweringBase, FetchingBase, Quieting, Cleaning, Finishing, Passing, Pacing,
     AnswerBase
<1>1. AnswerBase'
  <2>1. Pace > 0
    BY <1>0, SizesAssumption DEF Pacing
  <2>2. Typed' /\ AnswerInv'
    BY <1>0, <2>1, StepTyped, StepOneAnswer, StepOnlyBlank, StepTakenUpInTime, StepPrinting,
       StepWriteEnds, StepAllAdded, StepReadVisible DEF AnswerInv
  <2> QED BY <1>0, <2>2, StepOrdered DEF AnswerBase
<1>2. Passing'
  BY <1>0, <1>1, StepNoOps, StepAhead, StepEarly, StepSwitched, StepTxVisible, StepOut, StepLoad
     DEF Passing, Pacing
<1>3. AnsweringBase'
  BY <1>0, <1>2, StepFinished, StepClean, StepSettled, StepQuiet, StepArriving, StepFetching,
     StepAnswering DEF AnsweringBase, FetchingBase, Quieting, Cleaning, Finishing
<1> QED BY <1>3, StepAnswers DEF Answered

LEMMA AlwaysAnswered ==
  ASSUME Pace >= 3, CharTime < 2 * Retries + 4
  PROVE  Spec => []Answered
<1>1. Init => Answered
  BY InitAnswered
<1>2. Answered /\ [Next]_vars => Answered'
  BY StepAnswered
<1> QED BY <1>1, <1>2, PTL DEF Spec

\* One call that ran to its end brings the host and the shield into step: the
\* caller of the next one gets the whole answer to its own command and nothing
\* else, for every message, every answer that fits ctrlTxBuffer and every number
\* of retries, whatever was killed or programmed before -- unless it comes while
\* the shield still prints for a "gd".  The AVR must complete three buffer calls
\* between two exchanges, and no character on its UART may hold up the handler
\* from the first 0x00 of a call to its last read.
THEOREM AnswersAreComplete ==
  ASSUME Pace >= 3, CharTime < 2 * Retries + 4
  PROVE  Spec => []AnswerComplete
<1>1. Answered => AnswerComplete
  BY DEF Answered
<1> QED BY <1>1, AlwaysAnswered, PTL

\* A call after one that returned gets a whole answer whose letters are its
\* own, or none (at most the blank), even if it begins in the middle of the
\* printing for an earlier "gd", which cuts off or drops its command.  The AVR
\* must be as fast as above.
THEOREM AnswersAreWhole ==
  ASSUME Pace >= 3, CharTime < 2 * Retries + 4
  PROVE  Spec => []AnswerWhole
<1>1. Answered => AnswerWhole
  BY DEF Answered
<1> QED BY <1>1, AlwaysAnswered, PTL
============================================================================
