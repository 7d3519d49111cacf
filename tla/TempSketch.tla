----------------------------- MODULE TempSketch -----------------------------
(***************************************************************************)
(* The temperature sketch examples/MT-DS/avr/Multiple_Dallas_Temp_Sensors  *)
(* and what it calls of the DallasTemperature library, on one of its eight *)
(* buses: setup() counts the sensors and sets them to 9 bits; each turn of *)
(* loop() counts them again, lets them measure, and prints address and     *)
(* temperature of each, which it finds by its index in a new search.       *)
(*                                                                         *)
(* The other buses matter in one place: all share tempDeviceAddress. Power *)
(* is external (the sketch excludes parasite power); a resolution is 9 or  *)
(* 12 bits; an address that is nobody's has a wrong CRC.                   *)
(*                                                                         *)
(* A DS18S20 (a DS1820 has the same family code) has no resolution to set: *)
(* the library takes it for 9 bits, but it needs up to 750 ms, like 12.    *)
(***************************************************************************)
EXTENDS OneWire, Sequences, FiniteSets

CONSTANTS
  Delivered,    \* the sensors that come set to 12 bits
  DS18S20,      \* the sensors of family DS18S20MODEL
  MaxChanges    \* bound: how often the bus changes

ASSUME SketchAssumption ==
  /\ Delivered \subseteq Codes /\ DS18S20 \subseteq Codes /\ Delivered \cap DS18S20 = {}
  /\ MaxChanges \in Nat

VARIABLES
  pc,             \* begin, count, request, locate, seek or use
  inSetup,        \* setup() runs, not yet loop()
  devices,        \* numberOfDevices of the bus
  j,              \* the index of the device that is dealt with
  depth,          \* getAddress: how many it has passed
  address,        \* tempDeviceAddress[j]
  bitResolution,  \* the highest resolution met: how long a conversion is waited for
  precise,        \* the sensors set to 12 bits
  fresh,          \* the sensors whose scratchpad holds a value of this turn
  printed,        \* ghost: what this turn has printed
  quiet,          \* ghost: the bus has not changed in this turn
  changes         \* how often it has changed (bounded)

sensors == <<bitResolution, precise, fresh>>
turn == <<inSetup, devices, j, depth, address, printed, quiet>>
vars == <<wire, pc, sensors, turn, changes>>

Valid(a) == a \in Codes
Reachable(a) == a \in attached /\ ~shorted

Init ==
  /\ WireInit
  /\ pc = "begin" /\ inSetup = TRUE
  /\ devices = 0 /\ j = 0 /\ depth = 0 /\ address = NoAddress
  /\ bitResolution = 9 /\ precise = Delivered /\ fresh = {}
  /\ printed = <<>> /\ quiet = TRUE /\ changes = 0

----------------------------------------------------------------------------
Begin ==
  /\ pc = "begin"
  /\ reset_search
  /\ pc' = "count" /\ devices' = 0 /\ j' = 0 /\ printed' = <<>> /\ quiet' = TRUE
  /\ UNCHANGED <<sensors, inSetup, depth, address, changes>>

\* A step of a call of search.
Search ==
  /\ pc \in {"count", "seek"}
  /\ SearchStep
  /\ UNCHANGED <<pc, sensors, turn, changes>>

\* getResolution: "this model has a fixed resolution", also unread.
ResolutionOf(d) ==
  CASE d \in DS18S20 -> 9
    [] d \notin DS18S20 /\ ~Reachable(d) -> 0
    [] OTHER -> IF d \in precise THEN 12 ELSE 9

\* Mutant: the resolutions are not looked at.
CountWithoutResolution ==
  /\ pc = "count" /\ result = "found" /\ Return
  /\ devices' = devices + (IF Valid(rom) THEN 1 ELSE 0)
  /\ UNCHANGED <<pc, sensors, inSetup, j, depth, address, printed, quiet, changes>>

\* begin() has found one more.
Count ==
  /\ pc = "count" /\ result = "found" /\ Return
  /\ devices' = devices + (IF Valid(rom) THEN 1 ELSE 0)
  /\ bitResolution' = IF Valid(rom) /\ ResolutionOf(rom) > bitResolution
                      THEN ResolutionOf(rom) ELSE bitResolution
  /\ UNCHANGED <<pc, precise, fresh, inSetup, j, depth, address, printed, quiet, changes>>

Counted ==
  /\ pc = "count" /\ result # "found" /\ Return
  /\ pc' = IF inSetup THEN "locate" ELSE "request"
  /\ UNCHANGED <<sensors, inSetup, devices, j, depth, address, printed, quiet, changes>>

\* The wait is as long as bitResolution asks for: 94 ms, or 750 ms for 12 bits.
WaitedFor(d) == d \in precise \cup DS18S20 => bitResolution = 12

Converted == {d \in attached : ~shorted /\ WaitedFor(d)}
\* It may be done before its 750 ms are over.
MayConvert == {d \in attached \cap DS18S20 : ~shorted}

\* All convert at once.
requestTemperatures ==
  /\ pc = "request"
  /\ pc' = "locate"
  /\ fresh' \in {Converted \cup early : early \in SUBSET MayConvert}
  /\ UNCHANGED <<wire, bitResolution, precise, turn, changes>>

\* Mutant: getAddress goes on with the search there is.
LocateInSameSearch ==
  /\ pc = "locate" /\ j < devices
  /\ pc' = "seek" /\ depth' = 0
  /\ UNCHANGED <<wire, sensors, inSetup, devices, j, address, printed, quiet, changes>>

\* Mutant: an index more than there are devices.
LocateOneMore ==
  /\ pc = "locate" /\ j <= devices
  /\ reset_search
  /\ pc' = "seek" /\ depth' = 0
  /\ UNCHANGED <<sensors, inSetup, devices, j, address, printed, quiet, changes>>

\* getAddress starts a search of its own.
Locate ==
  /\ pc = "locate" /\ j < devices
  /\ reset_search
  /\ pc' = "seek" /\ depth' = 0
  /\ UNCHANGED <<sensors, inSetup, devices, j, address, printed, quiet, changes>>

TurnOver ==
  /\ pc = "locate" /\ j >= devices
  /\ pc' = "begin" /\ inSetup' = FALSE
  /\ UNCHANGED <<wire, sensors, devices, j, depth, address, printed, quiet, changes>>

\* getAddress passes the devices before the j-th.
SeekNext ==
  /\ pc = "seek" /\ depth < j /\ result = "found" /\ Return
  /\ address' = rom /\ depth' = depth + 1
  /\ UNCHANGED <<pc, sensors, inSetup, devices, j, printed, quiet, changes>>

\* Only setup() looks at what getAddress returns, and leaves this index out.
NotLocated ==
  IF inSetup THEN pc' = "locate" /\ j' = j + 1 ELSE pc' = "use" /\ j' = j

\* It is at the j-th.
SeekThis ==
  /\ pc = "seek" /\ depth = j /\ result = "found" /\ Return
  /\ address' = rom
  /\ IF Valid(rom) THEN pc' = "use" /\ j' = j ELSE NotLocated
  /\ UNCHANGED <<sensors, inSetup, devices, depth, printed, quiet, changes>>

\* Mutant: try until the device is found.
SeekAgain ==
  /\ pc = "seek" /\ result # "found" /\ Return
  /\ pc' = "locate"
  /\ UNCHANGED <<sensors, inSetup, devices, j, depth, address, printed, quiet, changes>>

\* There are fewer than in begin().  search copies ROM_NO, or nothing at all:
\* then the entry holds what this bus or another one left there.
SeekFails ==
  /\ pc = "seek" /\ result # "found" /\ Return
  /\ IF result = "end" THEN address' = rom
     ELSE address' \in (IF depth = 0 THEN Addresses ELSE {address})
  /\ NotLocated
  /\ UNCHANGED <<sensors, inSetup, devices, depth, printed, quiet, changes>>

setResolution ==
  /\ pc = "use" /\ inSetup
  /\ precise' = IF Reachable(address) /\ address \notin DS18S20
                THEN precise \ {address} ELSE precise
  /\ pc' = "locate" /\ j' = j + 1
  /\ UNCHANGED <<wire, bitResolution, fresh, inSetup, devices, depth, address, printed,
                 quiet, changes>>

\* getTempC.  The zeros of a wire held low have a correct CRC, and no resolution.
Temperature(d) ==
  IF shorted THEN "undefined"
  ELSE IF d \notin attached THEN "disconnected"
  ELSE IF d \in fresh THEN "fresh" ELSE "old"

PrintTemperature ==
  /\ pc = "use" /\ ~inSetup
  /\ printed' = Append(printed, <<address, Temperature(address)>>)
  /\ pc' = "locate" /\ j' = j + 1
  /\ UNCHANGED <<wire, sensors, inSetup, devices, depth, address, quiet, changes>>

\* A sensor that was pulled comes back as it was delivered: writeScratchPad sends
\* COPYSCRATCH after a reset without a select, so no EEPROM takes the setting.
PlugOrPull ==
  /\ changes < MaxChanges
  /\ BusChanges
  /\ precise' = {d \in Codes : IF d \in attached \cap attached' THEN d \in precise
                                                              ELSE d \in Delivered}
  /\ fresh' = fresh \cap attached' /\ quiet' = FALSE /\ changes' = changes + 1
  /\ UNCHANGED <<pc, bitResolution, inSetup, devices, j, depth, address, printed>>

Sketch ==
  \/ Begin \/ Search \/ Count \/ Counted \/ requestTemperatures \/ Locate \/ TurnOver
  \/ SeekNext \/ SeekThis \/ SeekFails \/ setResolution \/ PrintTemperature

Next == Sketch \/ PlugOrPull

Spec == Init /\ [][Next]_vars /\ WF_vars(Sketch)

----------------------------------------------------------------------------
TypeOK ==
  /\ WireTypeOK
  /\ pc \in {"begin", "count", "request", "locate", "seek", "use"} /\ inSetup \in BOOLEAN
  /\ devices \in Nat /\ j \in 0 .. devices
  /\ depth \in Nat /\ (pc = "seek" => depth <= j /\ j < devices)
  /\ address \in Addresses /\ bitResolution \in {9, 12}
  /\ precise \subseteq Codes /\ fresh \subseteq attached
  /\ Len(printed) <= devices /\ quiet \in BOOLEAN /\ changes \in 0 .. MaxChanges

AtEndOfTurn == pc = "locate" /\ j = devices /\ quiet /\ ~shorted

\* A turn of loop() in which nothing is plugged in or pulled prints every
\* sensor once, by its own address, with a value measured in this turn: also
\* when a sensor of 12 bits has come since setup(), or has come back.  The one
\* exception is a DS18S20 where no sensor of 12 bits has ever been counted, for
\* which the library does not wait long enough (DallasTemperature.cpp:256, :372):
\* what it prints may be what it held before this turn, and is nothing else.
TurnComplete ==
  AtEndOfTurn /\ ~inSetup =>
    /\ Len(printed) = Cardinality(attached)
    /\ {printed[i][1] : i \in 1 .. Len(printed)} = attached
    /\ \A i \in 1 .. Len(printed) :
         \/ printed[i][2] = "fresh"
         \/ printed[i][2] = "old" /\ printed[i][1] \in DS18S20 /\ bitResolution = 9

\* An undisturbed setup() leaves no sensor at 12 bits.
SetupComplete == AtEndOfTurn /\ inSetup => attached \cap precise = {}

\* However the bus has changed in the middle of a search, once it stops
\* changing the sketch gets to its next turn: no search goes round in circles.
TurnsEnd == []<>(pc = "begin")
=============================================================================
