------------------------------ MODULE SpiLink ------------------------------
(***************************************************************************)
(* The SPI link between the Linux host of the Dragino and the AVR of a     *)
(* plug-in shield:                                                         *)
(*   - the host: CommandToMCU of luasrc/dragino/spid.lua over spidev, whose *)
(*     transfers are the loop of bitbang_txrx_8 as patched by               *)
(*     openwrt/patches/420-tune_spi_bitbanging_for_avr.patch;               *)
(*   - the shield: the SPI interrupt handler and the main loop of           *)
(*     examples/Dragrove_SPI_Test/avr/Dragrove_SPI_TEST.pde.                *)
(*                                                                         *)
(* SPI exchanges one byte in each direction at a time: the host receives   *)
(* what the handler put in SPDR after the previous exchange, the handler   *)
(* receives what the host sends, and the main loop decodes a finished      *)
(* command in between, one call on a buffer at a time.                     *)
(*                                                                         *)
(* A byte is a symbol and the number of the call it belongs to.  The       *)
(* number is not on the wire: it lets the properties tell a stale answer   *)
(* from the right one.                                                     *)
(***************************************************************************)
EXTENDS Buffers

CONSTANTS
  Letters,     \* the characters of messages and answers
  Messages,    \* the messages callers pass, sequences of letters
  BoardInfo,   \* the answer to "gb": the four strings of GetBoardInfo
  Invalid,     \* the string invalid[]
  UartChars,   \* how many characters SendDataToUart prints
  RxSize,      \* CTRL_RX_BUFFER_SIZE, 32
  TxSize,      \* CTRL_TX_BUFFER_SIZE, 255
  MaxRead,     \* SPI_MAX_READ_BYTES, 1024
  Retries,     \* count in CommandToMCU, 10
  Pace,        \* buffer calls the AVR completes between two exchanges, at least
  CharTime,    \* exchanges during one UART character, at most
  MaxCalls,    \* bound of the exploration: calls of CommandToMCU
  MaxFaults    \* bound of the exploration: killed callers and reflashed AVRs

ASSUME SizesAssumption ==
  /\ RxSize \in Nat \ {0} /\ TxSize \in Nat \ {0} /\ MaxRead \in Nat \ {0}
  /\ Retries \in Nat /\ Pace \in Nat /\ CharTime \in Nat
  /\ MaxCalls \in Nat /\ MaxFaults \in Nat /\ UartChars \in Nat

ASSUME LettersAssumption ==
  /\ Messages \subseteq Seq(Letters)
  /\ BoardInfo \in Seq(Letters) /\ Invalid \in Seq(Letters)
  /\ {"zero", "dot"} \cap Letters = {}

\* A command and a letter of it, an answer and its blank, and what is read.
ASSUME RoomAssumption ==
  /\ \A m \in Messages : Len(m) >= 2
  /\ RxSize >= 2 /\ TxSize < MaxRead
  /\ Len(BoardInfo) \in 1 .. TxSize - 1 /\ Len(Invalid) \in 1 .. TxSize - 1

VARIABLES
  host,      \* what the caller is doing: idle, write, between, read, sync
  call,      \* the number of the current call
  msg,       \* its message
  outgoing,  \* bytes the kernel still has to send for the write
  incoming,  \* incoming_msg: the bytes read so far
  reads,     \* reads CommandToMCU may still make
  spdr,      \* the byte the AVR shifts out next
  noOp,      \* bits 0 and 1 of spi_status, SPI_NO_OP_1 and SPI_NO_OP_2
  transmit,  \* SPI_TRANSMIT
  newMsg,    \* SPI_NEW_CTRL_MSG
  rx, tx,    \* ctrlRxBuffer and ctrlTxBuffer
  avr,       \* where the main loop is
  cmd,       \* the first letter ctrlDecode has fetched, if any
  todo,      \* bytes ctrlDecode still has to add, or characters to print
  masked,    \* interrupts are off: a UART character is being printed
  pending,   \* the byte of the interrupt that waits meanwhile, if any
  steps,     \* main loop steps since the last exchange, up to Pace
  faults,    \* faults so far
  last,      \* ghost: the last completed call and its answer
  ended,     \* ghost: the call before this one returned to its caller
  settled    \* ghost: so it did, and its "gd" was printed when this one began

hostVars == <<host, call, msg, outgoing, incoming, reads, faults, last, ended, settled>>
isrVars  == <<spdr, noOp, transmit, newMsg, rx, tx>>
loopVars == <<avr, cmd, todo>>
uartVars == <<masked, pending>>
vars == <<hostVars, isrVars, loopVars, uartVars, steps>>

----------------------------------------------------------------------------
Byte(sym, no) == [sym |-> sym, no |-> no]
Zero  == Byte("zero", 0)         \* 0x00, SPI_END_OF_RX
Dot   == Byte("dot", 0)          \* '.', SPI_END_OF_MESSAGE
Dummy == Byte("space", 0)        \* the ' ' that precedes every answer

Tagged(str, no) == [i \in 1 .. Len(str) |-> Byte(str[i], no)]

UartString == [i \in 1 .. UartChars |-> "c"]

\* The answer of the AVR to a two-letter command.
Answer(first, second) ==
  CASE first = "g" /\ second = "b" -> BoardInfo
    [] first = "g" /\ second = "d" -> <<>>
    [] OTHER -> Invalid

----------------------------------------------------------------------------
(* The shield: the interrupt handler.  With no write to SPDR the AVR shifts *)
(* the byte it has just received back out.                                  *)

IsrNoOp(b) ==
  /\ noOp > 0
  /\ noOp' = noOp - 1
  /\ spdr' = b
  /\ UNCHANGED <<transmit, newMsg, rx, tx>>

\* In Tx mode with an answer left, the byte received is not looked at.
IsrTransmit ==
  /\ noOp = 0 /\ transmit /\ tx # <<>>
  /\ spdr' = Head(tx)
  /\ tx' = Tail(tx)
  /\ UNCHANGED <<noOp, transmit, newMsg, rx>>

IsrReceive(b) ==
  /\ noOp = 0 /\ ~(transmit /\ tx # <<>>)
  /\ spdr' = Zero
  /\ \/ /\ b.sym = "zero"
        /\ transmit' = TRUE
        /\ UNCHANGED <<newMsg, rx>>
     \/ /\ b.sym = "dot"
        /\ newMsg' = TRUE
        /\ UNCHANGED <<transmit, rx>>
     \/ /\ b.sym \notin {"zero", "dot"}
        /\ rx' = Appended(rx, b, RxSize)
        /\ UNCHANGED <<transmit, newMsg>>
  /\ UNCHANGED <<noOp, tx>>

Isr(b) == IsrNoOp(b) \/ IsrTransmit \/ IsrReceive(b)

\* The main loop has something to do.
Busy == newMsg \/ avr # "loop"

\* One byte each way.  The byte delay of 250 us (spid.lua,
\* SPI_MIN_BYTE_DELAY_US) leaves the AVR time for at least Pace buffer calls;
\* while a UART character is printed the handler has to wait, and a further
\* exchange replaces the byte it waits for.
Exchange(b) ==
  /\ \/ ~masked /\ (Busy => steps >= Pace) /\ Isr(b) /\ UNCHANGED pending
     \/ /\ masked /\ Len(pending) < CharTime
        /\ spdr' = b
        /\ pending' = Append(pending, b)
        /\ UNCHANGED <<noOp, transmit, newMsg, rx, tx>>
  /\ steps' = 0
  /\ UNCHANGED <<loopVars, masked, faults>>

----------------------------------------------------------------------------
(* The host.                                                                *)

\* CommandToMCU(m): append '.', and let the kernel send the bytes and the two
\* 0x00 that end a write.
CommandToMCU(m) ==
  /\ host = "idle" /\ call < MaxCalls
  /\ host' = "write"
  /\ call' = call + 1
  /\ msg' = m
  /\ outgoing' = Tagged(m, call + 1) \o <<Dot, Zero, Zero>>
  /\ incoming' = <<>>
  /\ reads' = Retries + 1
  /\ settled' = (settled /\ avr # "uart")
  /\ UNCHANGED <<faults, last, ended, isrVars, loopVars, uartVars, steps>>

WriteByte ==
  /\ host = "write"
  /\ Exchange(Head(outgoing))
  /\ outgoing' = Tail(outgoing)
  /\ host' = IF Len(outgoing) = 1 THEN "between" ELSE "write"
  /\ UNCHANGED <<call, msg, incoming, reads, last, ended, settled>>

\* Mutant: the retries are not counted.
StartReadForEver ==
  /\ host = "between" /\ incoming = <<>> /\ reads > 0
  /\ host' = "read"
  /\ UNCHANGED <<call, msg, outgoing, incoming, reads, faults, last, ended, settled,
                 isrVars, loopVars, uartVars, steps>>

\* The first read, or a retry after an empty one.
StartRead ==
  /\ host = "between" /\ incoming = <<>> /\ reads > 0
  /\ host' = "read"
  /\ reads' = reads - 1
  /\ UNCHANGED <<call, msg, outgoing, incoming, faults, last, ended, settled,
                 isrVars, loopVars, uartVars, steps>>

ReadByte ==
  /\ host = "read"
  /\ Exchange(Zero)
  /\ \/ /\ spdr.sym = "zero"
        /\ host' = "sync"
        /\ UNCHANGED incoming
     \/ /\ spdr.sym # "zero"
        /\ incoming' = Append(incoming, spdr)
        /\ host' = IF Len(incoming) + 1 = MaxRead THEN "between" ELSE "read"
  /\ UNCHANGED <<call, msg, outgoing, reads, last, ended, settled>>

\* "fetch one extra byte to sync the state machine", and drop it.
SyncByte ==
  /\ host = "sync"
  /\ Exchange(Zero)
  /\ host' = "between"
  /\ UNCHANGED <<call, msg, outgoing, incoming, reads, last, ended, settled>>

Return ==
  /\ host = "between"
  /\ incoming # <<>> \/ reads = 0
  /\ host' = "idle"
  /\ last' = [no |-> call, msg |-> msg, reply |-> incoming,
              ended |-> ended, settled |-> settled]
  /\ ended' = TRUE /\ settled' = TRUE
  /\ UNCHANGED <<call, msg, outgoing, incoming, reads, faults,
                 isrVars, loopVars, uartVars, steps>>

\* The caller is killed between two of its system calls.
Killed ==
  /\ host = "between" /\ faults < MaxFaults
  /\ host' = "idle"
  /\ faults' = faults + 1
  /\ ended' = FALSE /\ settled' = FALSE
  /\ UNCHANGED <<call, msg, outgoing, incoming, reads, last,
                 isrVars, loopVars, uartVars, steps>>

----------------------------------------------------------------------------
(* The shield: loop() and ctrlDecode(), one buffer call a step.             *)

MainStep(from, to) ==
  /\ ~masked
  /\ avr = from /\ avr' = to
  /\ steps' = IF steps < Pace THEN steps + 1 ELSE steps
  /\ UNCHANGED <<hostVars, pending>>

\* Mutant: ctrlFlushTxBuffer is forgotten.
StartDecodeKeepingTx ==
  /\ newMsg
  /\ MainStep("loop", "dummy")
  /\ UNCHANGED <<isrVars, cmd, todo, masked>>

StartDecode ==
  /\ newMsg
  /\ MainStep("loop", "dummy")
  /\ tx' = <<>>
  /\ UNCHANGED <<spdr, noOp, transmit, newMsg, rx, cmd, todo, masked>>

\* Mutant: no blank before the answer.
AddNoDummy ==
  /\ MainStep("dummy", "fetch1")
  /\ UNCHANGED <<isrVars, cmd, todo, masked>>

AddDummy ==
  /\ MainStep("dummy", "fetch1")
  /\ tx' = Appended(tx, Dummy, TxSize)
  /\ UNCHANGED <<spdr, noOp, transmit, newMsg, rx, cmd, todo, masked>>

FetchFirst ==
  /\ rx # <<>>
  /\ MainStep("fetch1", "fetch2")
  /\ cmd' = <<Head(rx)>>
  /\ rx' = Tail(rx)
  /\ UNCHANGED <<spdr, noOp, transmit, newMsg, tx, todo, masked>>

\* The second letter selects what is to be added to the answer ...
FetchSecond ==
  /\ MainStep("fetch2", "fill")
  /\ rx # <<>>
  /\ <<cmd[1].sym, Head(rx).sym>> # <<"g", "d">>
  /\ todo' = Tagged(Answer(cmd[1].sym, Head(rx).sym), cmd[1].no)
  /\ cmd' = <<>>
  /\ rx' = Tail(rx)
  /\ UNCHANGED <<spdr, noOp, transmit, newMsg, tx, masked>>

\* ... or, for "gd", printed to the UART.
FetchPrint ==
  /\ MainStep("fetch2", "uart")
  /\ rx # <<>>
  /\ <<cmd[1].sym, Head(rx).sym>> = <<"g", "d">>
  /\ todo' = Tagged(UartString, cmd[1].no)
  /\ cmd' = <<>>
  /\ rx' = Tail(rx)
  /\ UNCHANGED <<spdr, noOp, transmit, newMsg, tx, masked>>

FetchNothing ==
  /\ rx = <<>>
  /\ MainStep("fetch1", "fill") \/ MainStep("fetch2", "fill")
  /\ todo' = Tagged(Invalid, 0)
  /\ cmd' = <<>>
  /\ UNCHANGED <<spdr, noOp, transmit, newMsg, rx, tx, masked>>

\* ctrlAddStringToTxBuffer, one character.
FillTx ==
  /\ todo # <<>>
  /\ MainStep("fill", "fill")
  /\ tx' = Appended(tx, Head(todo), TxSize)
  /\ todo' = Tail(todo)
  /\ UNCHANGED <<spdr, noOp, transmit, newMsg, rx, cmd, masked>>

\* NewSoftSerial::write turns interrupts off for one character ...
PrintChar ==
  /\ todo # <<>>
  /\ MainStep("uart", "uart")
  /\ masked' = TRUE
  /\ todo' = Tail(todo)
  /\ UNCHANGED <<isrVars, cmd>>

\* ... and on again: the handler runs with the last byte that arrived.
CharPrinted ==
  /\ masked
  /\ masked' = FALSE
  /\ pending' = <<>>
  /\ \/ pending = <<>> /\ UNCHANGED isrVars
     \/ pending # <<>> /\ Isr(pending[Len(pending)])
  /\ UNCHANGED <<hostVars, loopVars, steps>>

\* Mutant: the branch of "gd" returns before ctrlFlushRxBuffer.
FlushAnswered ==
  /\ todo = <<>>
  /\ MainStep("fill", "clear") \/ MainStep("uart", "clear")
  /\ rx' = IF avr = "uart" THEN rx ELSE <<>>
  /\ UNCHANGED <<spdr, noOp, transmit, newMsg, tx, cmd, todo, masked>>

FlushRx ==
  /\ todo = <<>>
  /\ MainStep("fill", "clear") \/ MainStep("uart", "clear")
  /\ rx' = <<>>
  /\ UNCHANGED <<spdr, noOp, transmit, newMsg, tx, cmd, todo, masked>>

\* spi_status &= ~SPI_NEW_CTRL_MSG, whatever arrived since it was tested.
ClearNewMsg ==
  /\ MainStep("clear", "loop")
  /\ newMsg' = FALSE
  /\ UNCHANGED <<spdr, noOp, transmit, rx, tx, cmd, todo, masked>>

MainLoop ==
  \/ StartDecode \/ AddDummy \/ FetchFirst \/ FetchSecond \/ FetchPrint
  \/ FetchNothing \/ FillTx \/ PrintChar \/ CharPrinted \/ FlushRx \/ ClearNewMsg

----------------------------------------------------------------------------
\* After a reset ctrlInit has emptied the buffers and nothing has set r7,
\* the register that holds spi_status.
Init ==
  /\ host = "idle" /\ call = 0 /\ msg = <<>> /\ outgoing = <<>>
  /\ incoming = <<>> /\ reads = 0
  /\ noOp \in 0 .. 3 /\ transmit \in BOOLEAN /\ newMsg \in BOOLEAN
  /\ spdr = Zero /\ rx = <<>> /\ tx = <<>>
  /\ avr = "loop" /\ cmd = <<>> /\ todo = <<>>
  /\ masked = FALSE /\ pending = <<>> /\ steps = 0
  /\ faults = 0 /\ ended = FALSE /\ settled = FALSE
  /\ last = [no |-> 0, msg |-> <<>>, reply |-> <<>>, ended |-> FALSE, settled |-> FALSE]

\* avrdude programs the AVR while no other process holds the spidev lock
\* (fdude.lua), and the sketch starts again.
Reflash ==
  /\ host = "idle" /\ faults < MaxFaults
  /\ noOp' \in 0 .. 3 /\ transmit' \in BOOLEAN /\ newMsg' \in BOOLEAN
  /\ spdr' = Zero /\ rx' = <<>> /\ tx' = <<>>
  /\ avr' = "loop" /\ cmd' = <<>> /\ todo' = <<>>
  /\ masked' = FALSE /\ pending' = <<>> /\ steps' = 0
  /\ faults' = faults + 1
  /\ ended' = FALSE /\ settled' = FALSE
  /\ UNCHANGED <<host, call, msg, outgoing, incoming, reads, last>>

HostStep == WriteByte \/ StartRead \/ ReadByte \/ SyncByte \/ Return

Next ==
  \/ \E m \in Messages : CommandToMCU(m)
  \/ HostStep
  \/ Killed
  \/ Reflash
  \/ MainLoop

Spec == Init /\ [][Next]_vars

\* The kernel finishes a transfer it has begun, the caller runs on, and the
\* main loop of the AVR never stops.
FairSpec == Spec /\ WF_vars(HostStep) /\ WF_vars(MainLoop)

----------------------------------------------------------------------------
TypeOK ==
  /\ host \in {"idle", "write", "between", "read", "sync"}
  /\ call \in 0 .. MaxCalls /\ reads \in 0 .. Retries + 1
  /\ noOp \in 0 .. 3 /\ transmit \in BOOLEAN /\ newMsg \in BOOLEAN
  /\ Len(rx) <= RxSize /\ Len(tx) <= TxSize /\ Len(incoming) <= MaxRead
  /\ avr \in {"loop", "dummy", "fetch1", "fetch2", "fill", "uart", "clear"}
  /\ masked \in BOOLEAN /\ Len(pending) <= CharTime
  /\ steps \in 0 .. Pace /\ faults \in 0 .. MaxFaults

Expected(m, no) == Tagged(Answer(m[1], m[2]), no)

\* The command whose answer goes to the UART.
Prints(m) == m[1] = "g" /\ m[2] = "d"

\* One call that ran to its end is enough to bring both sides into step: the
\* call after it gets the whole answer to its own command, without the dummy
\* byte and without a byte of an older answer -- whatever r7 held at power
\* up, and whatever an earlier caller that was killed left in the buffers.
\* A call that begins while the shield still prints for an earlier "gd" is not
\* promised that: ctrlFlushRxBuffer (pde:145) drops the letters that arrive
\* meanwhile and pde:207 its '.'.  AnswerWhole says what such a call may get.
AnswerComplete ==
  last.settled /\ ~Prints(last.msg)
    => last.reply = Expected(last.msg, last.no)

\* Nothing, or nothing but the dummy byte, or a whole answer whose letters are
\* those of this call: what a call gets although the end of the printing for
\* an earlier "gd" cuts its command off at any byte, drops it, or overtakes its
\* '.'.  Never a part of an answer, one that is late, or one to another call.
\* The call before need only have returned.
AnswerWhole ==
  last.ended =>
    \/ last.reply \in {<<>>, <<Dummy>>}
    \/ \E str \in {BoardInfo, Invalid}, n \in {0, last.no} :
         last.reply = Tagged(str, n)

\* No answer mixes the bytes of two commands, not even one that arrives
\* while the main loop still works on an older command.
OneCommandPerAnswer ==
  \A i, j \in 1 .. Len(last.reply) :
    \/ last.reply[i].no = last.reply[j].no
    \/ last.reply[i] = Dummy \/ last.reply[j] = Dummy

\* "this bit will be ignored when transfer" (Dragrove_SPI_TEST.pde:117): the
\* blank added before an answer reaches no caller.
DummyIgnored ==
  \A i \in 1 .. Len(last.reply) : last.reply[i] # Dummy

\* CommandToMCU returns: neither side waits for the other for ever.
CallReturns == host # "idle" ~> host = "idle"
============================================================================
