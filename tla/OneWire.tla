------------------------------ MODULE OneWire ------------------------------
(***************************************************************************)
(* The search of examples/MT-DS/avr/libraries/OneWire/OneWire.cpp: each    *)
(* call of search finds the address of one more device on a 1-Wire bus,    *)
(* bit by bit, until there is none left.  All devices answer each bit at   *)
(* once, and those whose bit is not the one the master then writes drop    *)
(* out until the next reset.                                               *)
(*                                                                         *)
(* An address is the function from its bit positions to its bits.  The     *)
(* bus is the environment: devices come and go, and it may be short-       *)
(* circuited, at any moment.  LastFamilyDiscrepancy is left out: it is     *)
(* written and never read.                                                 *)
(***************************************************************************)
EXTENDS Naturals

CONSTANTS
  Width,        \* bits of an address (64)
  Family,       \* bits of its first byte, the family code (8)
  Codes,        \* the addresses of the devices there are
  MayShort      \* the bus may be short-circuited

Addresses == [1 .. Width -> {0, 1}]
NoAddress == [i \in 1 .. Width |-> 0]
ZeroFamily(a) == \A i \in 1 .. Family : a[i] = 0

ASSUME WidthAssumption == Width \in Nat \ {0} /\ Family \in 1 .. Width
\* Every family code that has been given out differs from 0.
ASSUME CodesAssumption == Codes \subseteq Addresses /\ \A c \in Codes : ~ZeroFamily(c)

VARIABLES
  attached,         \* the devices on the bus
  shorted,          \* the wire is held low
  listening,        \* the devices that still take part in the search
  rom,              \* ROM_NO
  lastDiscrepancy,  \* LastDiscrepancy
  lastDevice,       \* LastDeviceFlag
  call,             \* idle, bits (in the loop), or done (about to return)
  bit,              \* id_bit_number
  lastZero,         \* last_zero
  result,           \* found, end (FALSE), or absent (FALSE, no presence pulse)
  found,            \* ghost: what has been found since the search began anew
  steady            \* ghost: the bus has not changed since reset_search

bus == <<attached, shorted, listening>>
search == <<rom, lastDiscrepancy, lastDevice, call, bit, lastZero, result>>
ghosts == <<found, steady>>
wire == <<bus, search, ghosts>>

----------------------------------------------------------------------------
\* What the devices that listen make of the wire: it is high when all let go.
IdBit == ~shorted /\ \A d \in listening : d[bit] = 1
ComplementBit == ~shorted /\ \A d \in listening : d[bit] = 0
Nobody == IdBit /\ ComplementBit
Discrepancy == ~IdBit /\ ~ComplementBit

WireInit ==
  /\ attached \in SUBSET Codes /\ shorted = FALSE /\ listening = {}
  /\ rom = NoAddress /\ lastDiscrepancy = 0 /\ lastDevice = FALSE
  /\ call = "idle" /\ bit = 1 /\ lastZero = 0 /\ result = "end"
  /\ found = {} /\ steady = TRUE

\* Called by the constructor and by whoever wants to start anew.
reset_search ==
  /\ call = "idle"
  /\ lastDiscrepancy' = 0 /\ lastDevice' = FALSE /\ rom' = NoAddress
  /\ found' = {} /\ steady' = TRUE
  /\ UNCHANGED <<bus, call, bit, lastZero, result>>

\* Forget the search, so that the next call is like a first.
Restart == lastDiscrepancy' = 0 /\ lastDevice' = FALSE /\ found' = {}

\* The last call found the last device.
SearchOver ==
  /\ call = "idle" /\ lastDevice
  /\ Restart
  /\ call' = "done" /\ result' = "end"
  /\ UNCHANGED <<bus, rom, bit, lastZero, steady>>

\* reset() sees no presence pulse: an early return, without a copy of ROM_NO.
SearchAbsent ==
  /\ call = "idle" /\ ~lastDevice
  /\ attached = {} \/ shorted
  /\ Restart
  /\ call' = "done" /\ result' = "absent"
  /\ UNCHANGED <<bus, rom, bit, lastZero, steady>>

SearchBegin ==
  /\ call = "idle" /\ ~lastDevice
  /\ attached # {} /\ ~shorted
  /\ call' = "bits" /\ bit' = 1 /\ lastZero' = 0
  /\ listening' = attached
  /\ UNCHANGED <<attached, shorted, rom, lastDiscrepancy, lastDevice, result, ghosts>>

\* The bit is written: those who have the other one drop out.
Take(direction) ==
  /\ rom' = [rom EXCEPT ![bit] = direction]
  /\ listening' = {d \in listening : d[bit] = direction}
  /\ bit' = bit + 1
  /\ UNCHANGED <<attached, shorted, lastDiscrepancy, lastDevice, call, result, ghosts>>

\* All have the same bit.
TakeCommon ==
  /\ call = "bits" /\ bit <= Width
  /\ IdBit # ComplementBit
  /\ Take(IF IdBit THEN 1 ELSE 0)
  /\ UNCHANGED lastZero

\* Mutant: the position of the last discrepancy counts as one before it.
TakeEitherTooLong ==
  /\ call = "bits" /\ bit <= Width /\ Discrepancy
  /\ LET direction == IF bit <= lastDiscrepancy THEN rom[bit] ELSE 0
     IN  /\ Take(direction)
         /\ lastZero' = IF direction = 0 THEN bit ELSE lastZero

\* Mutant: the position of a 0 is kept for the first discrepancy only.
TakeEitherFirst ==
  /\ call = "bits" /\ bit <= Width /\ Discrepancy
  /\ LET direction == IF bit < lastDiscrepancy THEN rom[bit]
                      ELSE IF bit = lastDiscrepancy THEN 1 ELSE 0
     IN  /\ Take(direction)
         /\ lastZero' = IF direction = 0 /\ lastZero = 0 THEN bit ELSE lastZero

\* Both bits occur: before the last discrepancy the same as the last time, 1
\* at it, 0 after it.
TakeEither ==
  /\ call = "bits" /\ bit <= Width /\ Discrepancy
  /\ LET direction == IF bit < lastDiscrepancy THEN rom[bit]
                      ELSE IF bit = lastDiscrepancy THEN 1 ELSE 0
     IN  /\ Take(direction)
         /\ lastZero' = IF direction = 0 THEN bit ELSE lastZero

\* Nobody answers any more.
SearchLost ==
  /\ call = "bits" /\ bit <= Width /\ Nobody
  /\ Restart
  /\ call' = "done" /\ result' = "end"
  /\ UNCHANGED <<bus, rom, bit, lastZero, steady>>

\* All bits are there.
SearchFound ==
  /\ call = "bits" /\ bit = Width + 1 /\ ~ZeroFamily(rom)
  /\ lastDiscrepancy' = lastZero /\ lastDevice' = (lastZero = 0)
  /\ found' = found \cup {rom}
  /\ call' = "done" /\ result' = "found"
  /\ UNCHANGED <<bus, rom, bit, lastZero, steady>>

\* A first byte of 0 is no family code: the wire was held low.
SearchNoFamily ==
  /\ call = "bits" /\ bit = Width + 1 /\ ZeroFamily(rom)
  /\ Restart
  /\ call' = "done" /\ result' = "end"
  /\ UNCHANGED <<bus, rom, bit, lastZero, steady>>

\* The caller goes on with the result.
Return ==
  /\ call = "done"
  /\ call' = "idle"
  /\ UNCHANGED <<bus, rom, lastDiscrepancy, lastDevice, bit, lastZero, result, ghosts>>

\* A device is plugged in or pulled, or a short begins or ends.  A device that
\* comes waits for the next reset; a wire held low resets all of them.
BusChanges ==
  /\ attached' \in SUBSET Codes
  /\ shorted' \in (IF MayShort THEN BOOLEAN ELSE {FALSE})
  /\ listening' = IF shorted' THEN {} ELSE listening \cap attached'
  /\ steady' = FALSE
  /\ UNCHANGED <<search, found>>

SearchStep ==
  \/ SearchOver \/ SearchAbsent \/ SearchBegin \/ TakeCommon \/ TakeEither
  \/ SearchLost \/ SearchFound \/ SearchNoFamily

WireNext == reset_search \/ SearchStep \/ Return \/ BusChanges

WireSpec == WireInit /\ [][WireNext]_wire

----------------------------------------------------------------------------
WireTypeOK ==
  /\ attached \subseteq Codes /\ shorted \in BOOLEAN /\ listening \subseteq attached
  /\ rom \in Addresses /\ lastDiscrepancy \in 0 .. Width /\ lastDevice \in BOOLEAN
  /\ call \in {"idle", "bits", "done"} /\ bit \in 1 .. Width + 1
  /\ lastZero \in 0 .. Width /\ lastZero < bit
  /\ result \in {"found", "end", "absent"}
  /\ found \subseteq Addresses /\ steady \in BOOLEAN

\* A call that reports success on a bus that has not changed reports a device
\* that is there and that no earlier call has reported.
NextIsNew ==
  [][steady /\ call = "bits" /\ call' = "done" =>
       result' = "found" /\ rom' \in attached \ found]_wire

\* When the search says that the device it has found is the last, no device on
\* a bus that has not changed has been left out.
AllFound == steady /\ lastDevice => found = attached
=============================================================================
