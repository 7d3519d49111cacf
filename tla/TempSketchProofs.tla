-------------------------- MODULE TempSketchProofs --------------------------
(***************************************************************************)
(* The search of OneWire is correct for addresses of every width and every *)
(* set of devices.  The addresses are ordered as the bits come: a search   *)
(* reports the devices in ascending order, and what it has reported are    *)
(* those not above ROM_NO.  LastDiscrepancy is where the next one departs. *)
(*                                                                         *)
(* Whatever the sketch does between them, its calls of search are a        *)
(* behaviour of OneWire: so what is proved there holds of the sketch.  And *)
(* as each search finds the devices in the same order, the n-th that       *)
(* begin() counts is the n-th that getAddress finds.                       *)
(***************************************************************************)
EXTENDS TempSketch, FiniteSetTheorems, FunctionTheorems, SequenceTheorems, TLAPS

\* d has the bits of r at all positions before i.
Agree(d, r, i) == \A m \in 1 .. Width : m < i => d[m] = r[m]

\* d departs upwards from r before position i.
Above(d, r, i) == \E m \in 1 .. Width : m < i /\ Agree(d, r, m) /\ r[m] = 0 /\ d[m] = 1

\* A device of A departs upwards from r at position m.
Split(A, r, m) == m \in 1 .. Width /\ r[m] = 0 /\ \E d \in A : Agree(d, r, m) /\ d[m] = 1

\* z is the last position before i where that happens, or 0.
LastSplit(A, z, r, i) ==
  /\ z = 0 \/ (z < i /\ Split(A, r, z))
  /\ \A m \in 1 .. Width : m < i /\ Split(A, r, m) => m <= z

\* r with bit b at position i.
Bits == {0, 1}
Written(r, i, b) == [r EXCEPT ![i] = b]

\* The devices up to r have been found.
UpTo(r) == {d \in attached : ~Above(d, r, Width + 1)}

\* Between two calls: the search is new, or stands at the device rom.
Anew == lastDiscrepancy = 0 /\ ~lastDevice
At == /\ rom \in attached /\ found = UpTo(rom)
      /\ LastSplit(attached, lastDiscrepancy, rom, Width + 1)

Between ==
  \/ Anew /\ found = {}
  \/ At /\ (lastDevice <=> lastDiscrepancy = 0)

\* In a call, past the last discrepancy: what still takes part is new, and
\* every other device that is new comes later.
Beyond ==
  /\ found \subseteq attached
  /\ listening \cap found = {}
  /\ \A d \in attached \ found : d \in listening \/ Above(d, rom, bit)
  /\ \A d \in attached : Above(d, rom, bit) => d \notin found

Within ==
  /\ ~shorted /\ ~lastDevice
  /\ listening = {d \in attached : Agree(d, rom, bit)} /\ listening # {}
  /\ LastSplit(attached, lastZero, rom, bit)
  /\ IF bit <= lastDiscrepancy THEN At ELSE Beyond

SearchInv == steady => IF call = "bits" THEN Within ELSE Between

----------------------------------------------------------------------------
\* What writing bit b at position i changes, for those that take part or not.
LEMMA WriteBit ==
  ASSUME NEW r \in Addresses, NEW i \in 1 .. Width, NEW b \in Bits, NEW d
  PROVE  /\ Written(r, i, b) \in Addresses /\ Written(r, i, b)[i] = b
         /\ \A m \in 1 .. Width : m # i => Written(r, i, b)[m] = r[m]
         /\ \A m \in 1 .. Width : m <= i => (Agree(d, Written(r, i, b), m) <=> Agree(d, r, m))
         /\ Agree(d, Written(r, i, b), i + 1) <=> Agree(d, r, i) /\ d[i] = b
         /\ Above(d, Written(r, i, b), i + 1) <=>
              Above(d, r, i) \/ (b = 0 /\ d[i] = 1 /\ Agree(d, r, i))
<1> DEFINE s == Written(r, i, b)
<1>1. s \in Addresses /\ s[i] = b /\ \A m \in 1 .. Width : m # i => s[m] = r[m]
  BY WidthAssumption DEF Addresses, Written, Bits
<1> HIDE DEF s
<1> USE WidthAssumption
<1>2. \A m \in 1 .. Width : m <= i => (Agree(d, s, m) <=> Agree(d, r, m))
  BY <1>1, SMT DEF Agree
<1>3. Agree(d, s, i + 1) <=> Agree(d, r, i) /\ d[i] = b
  BY <1>1, SMT DEF Agree
<1>4. Above(d, s, i + 1) <=> Above(d, r, i) \/ (b = 0 /\ d[i] = 1 /\ Agree(d, r, i))
  <2>1. /\ i < i + 1 /\ i <= i
        /\ \A m \in 1 .. Width : m < i => m < i + 1 /\ m <= i /\ m # i
        /\ \A m \in 1 .. Width : m < i + 1 => m = i \/ m < i
    BY SMT
  <2>2. ASSUME NEW m \in 1 .. Width, m < i + 1, Agree(d, s, m), s[m] = 0, d[m] = 1
        PROVE  Above(d, r, i) \/ (b = 0 /\ d[i] = 1 /\ Agree(d, r, i))
    <3>1. CASE m = i
      BY <1>1, <1>2, <2>1, <2>2, <3>1, Zenon
    <3>2. CASE m < i
      BY <1>1, <1>2, <2>1, <2>2, <3>2, Zenon DEF Above
    <3> QED BY <2>1, <2>2, <3>1, <3>2
  <2>3. ASSUME NEW m \in 1 .. Width, m < i, Agree(d, r, m), r[m] = 0, d[m] = 1
        PROVE  Above(d, s, i + 1)
    BY <1>1, <1>2, <2>1, <2>3, Zenon DEF Above
  <2>4. ASSUME b = 0, d[i] = 1, Agree(d, r, i)
        PROVE  Above(d, s, i + 1)
    BY <1>1, <1>2, <2>1, <2>4, Zenon DEF Above
  <2> QED BY <2>2, <2>3, <2>4 DEF Above
<1> QED BY <1>1, <1>2, <1>3, <1>4 DEF s

\* The last split after position i has been written.
LEMMA WriteSplit ==
  ASSUME NEW A, NEW r \in Addresses, NEW i \in 1 .. Width, NEW b \in Bits,
         NEW z \in Nat, LastSplit(A, z, r, i),
         NEW y, y = IF b = 0 /\ \E d \in A : Agree(d, r, i) /\ d[i] = 1 THEN i ELSE z
  PROVE  LastSplit(A, y, Written(r, i, b), i + 1)
<1> DEFINE s == Written(r, i, b)
<1>1. ASSUME NEW d
      PROVE  /\ s[i] = b
             /\ \A m \in 1 .. Width : m # i => s[m] = r[m]
             /\ \A m \in 1 .. Width : m <= i => (Agree(d, s, m) <=> Agree(d, r, m))
  <2>1. s[i] = b
    BY WriteBit, SMT
  <2>2. \A m \in 1 .. Width : m # i => s[m] = r[m]
    BY WriteBit, SMT
  <2>3. \A m \in 1 .. Width : m <= i => (Agree(d, s, m) <=> Agree(d, r, m))
    BY WriteBit, Zenon
  <2> QED BY <2>1, <2>2, <2>3
<1> HIDE DEF s
<1> USE WidthAssumption
<1>2. /\ i <= i /\ i < i + 1
      /\ z < i => z < i + 1
      /\ \A m \in 1 .. Width : m < i => m # i /\ m <= i
      /\ \A m \in 1 .. Width : m < i + 1 => m = i \/ m < i
      /\ \A m \in 1 .. Width : m <= z /\ z < i => m <= i
  BY SMT
<1>3. \A m \in 1 .. Width : m < i => (Split(A, s, m) <=> Split(A, r, m))
  BY <1>1, <1>2, Zenon DEF Split
<1>4. Split(A, s, i) <=> b = 0 /\ \E d \in A : Agree(d, r, i) /\ d[i] = 1
  <2>1. s[i] = b /\ \A d : Agree(d, s, i) <=> Agree(d, r, i)
    BY <1>1, <1>2, Zenon
  <2> QED BY <2>1 DEF Split
<1>5. z = 0 \/ (z < i /\ Split(A, s, z))
  BY <1>3, Zenon DEF LastSplit, Split
<1>6. \A m \in 1 .. Width : m < i /\ Split(A, s, m) => m <= z
  BY <1>3, Zenon DEF LastSplit
<1> SUFFICES LastSplit(A, y, s, i + 1)
  BY DEF s
<1>7. CASE Split(A, s, i)
  <2>1. y = i
    BY <1>4, <1>7
  <2>2. \A m \in 1 .. Width : m < i + 1 => m <= i
    BY SMT
  <2> QED BY <1>2, <1>7, <2>1, <2>2 DEF LastSplit
<1>8. CASE ~Split(A, s, i)
  <2>1. y = z
    BY <1>4, <1>8
  <2>2. z < i => z < i + 1
    BY SMT
  <2> QED BY <1>2, <1>5, <1>6, <1>8, <2>1, <2>2, Zenon DEF LastSplit
<1> QED BY <1>7, <1>8

\* Two addresses that agree everywhere are one.
LEMMA Same ==
  ASSUME NEW r \in Addresses, NEW d \in Addresses, Agree(d, r, Width + 1)
  PROVE  d = r
<1>1. \A m \in 1 .. Width : d[m] = r[m]
  BY WidthAssumption, SMT DEF Agree
<1>2. /\ r = [m \in 1 .. Width |-> r[m]]
      /\ d = [m \in 1 .. Width |-> d[m]]
  BY DEF Addresses
<1> QED BY <1>1, <1>2, SMT

----------------------------------------------------------------------------
\* The type invariant in two parts, one for each kind of prover.
Flags == shorted \in BOOLEAN /\ lastDevice \in BOOLEAN /\ steady \in BOOLEAN

Values ==
  /\ attached \subseteq Codes /\ listening \subseteq attached
  /\ rom \in Addresses /\ lastDiscrepancy \in 0 .. Width
  /\ call \in {"idle", "bits", "done"} /\ bit \in 1 .. Width + 1
  /\ lastZero \in 0 .. Width /\ lastZero < bit
  /\ result \in {"found", "end", "absent"}
  /\ found \subseteq Addresses

LEMMA TypeParts == WireTypeOK <=> Flags /\ Values
  BY DEF WireTypeOK, Flags, Values

LEMMA InitTypeOK == WireInit => WireTypeOK
<1> SUFFICES ASSUME WireInit PROVE Flags /\ Values
  BY TypeParts
<1>1. Flags
  BY DEF WireInit, Flags
<1>2. Values
  BY WidthAssumption, SMT DEF WireInit, Values, NoAddress, Addresses
<1> QED BY <1>1, <1>2

LEMMA StepFlags == Flags /\ [WireNext]_wire => Flags'
  BY DEF Flags, WireNext, SearchStep, reset_search, SearchOver, SearchAbsent, SearchBegin,
         TakeCommon, TakeEither, Take, SearchLost, SearchFound, SearchNoFamily, Return,
         BusChanges, Restart, wire, bus, search, ghosts

LEMMA StepValues == Values /\ [WireNext]_wire => Values'
<1> SUFFICES ASSUME Values, [WireNext]_wire PROVE Values'
  OBVIOUS
<1> USE WidthAssumption, CodesAssumption DEF Values, Restart, bus, search, ghosts
<1>1. CASE reset_search
  BY <1>1, SMT DEF reset_search, NoAddress, Addresses
<1>2. CASE SearchOver
  BY <1>2, SMT DEF SearchOver
<1>3. CASE SearchAbsent
  BY <1>3, SMT DEF SearchAbsent
<1>4. CASE SearchBegin
  BY <1>4, SMT DEF SearchBegin
<1>5. ASSUME NEW b \in {0, 1}, bit <= Width, Take(b), lastZero' \in {lastZero, bit}
      PROVE  Values'
  <2>1. rom' \in Addresses
    BY <1>5 DEF Take, Addresses
  <2> QED BY <1>5, <2>1, SMT DEF Take
<1>6. CASE TakeCommon
  BY <1>5, <1>6 DEF TakeCommon
<1>7. CASE TakeEither
  <2>1. rom[bit] \in {0, 1}
    BY <1>7, SMT DEF TakeEither, Addresses
  <2> QED BY <1>5, <1>7, <2>1 DEF TakeEither
<1>8. CASE SearchLost
  BY <1>8, SMT DEF SearchLost
<1>9. CASE SearchFound
  BY <1>9, SMT DEF SearchFound
<1>10. CASE SearchNoFamily
  BY <1>10, SMT DEF SearchNoFamily
<1>11. CASE Return
  BY <1>11, SMT DEF Return
<1>12. CASE BusChanges
  BY <1>12, SMT DEF BusChanges
<1>13. CASE UNCHANGED wire
  BY <1>13, SMT DEF wire
<1> QED
  BY <1>1, <1>2, <1>3, <1>4, <1>6, <1>7, <1>8, <1>9, <1>10, <1>11, <1>12, <1>13
     DEF WireNext, SearchStep

LEMMA StepTypeOK == WireTypeOK /\ [WireNext]_wire => WireTypeOK'
  BY TypeParts, StepFlags, StepValues DEF WireTypeOK, Flags, Values

\* Type correctness of the search, for every width and every set of devices
\* (search and reset_search of OneWire.cpp).
THEOREM WireTypeCorrect == WireSpec => []WireTypeOK
  BY InitTypeOK, StepTypeOK, PTL DEF WireSpec

----------------------------------------------------------------------------
LEMMA InitInv == WireInit => SearchInv
  BY DEF WireInit, SearchInv, Between, Anew

\* One bit of a call: the search stays with ROM_NO up to the last discrepancy,
\* takes the other branch there, and any branch beyond.
LEMMA TakeInv ==
  ASSUME WireTypeOK, Within, bit <= Width, NEW b \in Bits, Take(b),
         \E d \in listening : d[bit] = b,
         lastZero' = IF b = 0 /\ \E d \in listening : d[bit] = 1 THEN bit ELSE lastZero,
         bit < lastDiscrepancy => b = rom[bit],
         bit = lastDiscrepancy => b = 1,
         bit > lastDiscrepancy => b = 0 \/ \A d \in listening : d[bit] = 1
  PROVE  Within'
<1> USE WidthAssumption
<1>1. /\ rom \in Addresses /\ bit \in 1 .. Width /\ bit + 1 \in 1 .. Width + 1
      /\ lastZero \in Nat /\ lastDiscrepancy \in 0 .. Width
  BY SMT DEF WireTypeOK
<1>2. /\ rom' = Written(rom, bit, b) /\ bit' = bit + 1
      /\ listening' = {d \in listening : d[bit] = b}
      /\ UNCHANGED <<attached, shorted, lastDiscrepancy, lastDevice, found>>
  BY DEF Take, ghosts, Written
<1>3. \A d : /\ Agree(d, rom', bit + 1) <=> Agree(d, rom, bit) /\ d[bit] = b
             /\ Above(d, rom', bit + 1) <=>
                  Above(d, rom, bit) \/ (b = 0 /\ d[bit] = 1 /\ Agree(d, rom, bit))
  BY <1>1, <1>2, WriteBit
<1>4. listening' = {d \in attached' : Agree(d, rom', bit')} /\ listening' # {}
  BY <1>2, <1>3 DEF Within
<1>5. LastSplit(attached', lastZero', rom', bit')
  <2>1. lastZero' = IF b = 0 /\ \E d \in attached : Agree(d, rom, bit) /\ d[bit] = 1
                    THEN bit ELSE lastZero
    BY DEF Within
  <2> QED BY <1>1, <1>2, <2>1, WriteSplit DEF Within
<1>6. CASE bit < lastDiscrepancy
  <2>1. rom' = rom
    BY <1>1, <1>2, <1>6 DEF Written, Addresses
  <2>2. bit <= lastDiscrepancy /\ bit' <= lastDiscrepancy'
    BY <1>1, <1>2, <1>6, SMT
  <2>3. At'
    BY <1>2, <2>1, <2>2 DEF Within, At, UpTo
  <2> QED BY <1>2, <1>4, <1>5, <2>2, <2>3 DEF Within
<1>7. CASE bit = lastDiscrepancy
  <2>1. bit <= lastDiscrepancy /\ ~(bit' <= lastDiscrepancy') /\ b = 1 /\ b # 0
    BY <1>1, <1>2, <1>7, SMT
  <2>2. At
    BY <2>1 DEF Within
  <2>3. ASSUME NEW d \in attached
        PROVE  d \notin found <=> d \in listening' \/ Above(d, rom', bit')
    <3>1. d \notin found <=> Above(d, rom, Width + 1)
      BY <2>2 DEF At, UpTo
    <3>2. d \in listening' <=> Agree(d, rom, bit) /\ d[bit] = 1
      BY <1>2, <1>3, <1>4, <2>1
    <3>3. Above(d, rom', bit') <=> Above(d, rom, bit)
      BY <1>2, <1>3, <2>1
    <3>4. rom[bit] = 0 /\ \A m \in 1 .. Width : Split(attached, rom, m) => m <= bit
      <4>1. \A m \in 1 .. Width : m < Width + 1
        BY SMT
      <4>2. bit # 0
        BY <1>1, SMT
      <4> QED BY <1>7, <2>2, <4>1, <4>2 DEF At, LastSplit, Split
    <3>5. ASSUME Above(d, rom, Width + 1)
          PROVE  (Agree(d, rom, bit) /\ d[bit] = 1) \/ Above(d, rom, bit)
      <4>1. PICK m \in 1 .. Width : Agree(d, rom, m) /\ rom[m] = 0 /\ d[m] = 1
        BY <3>5 DEF Above
      <4>2. m <= bit
        BY <3>4, <4>1 DEF Split
      <4>3. m = bit \/ m < bit
        BY <1>1, <4>2, SMT
      <4> QED BY <4>1, <4>3 DEF Above
    <3>6. \A m \in 1 .. Width : (m < bit => m < Width + 1) /\ m < Width + 1
      BY SMT
    <3>7. ASSUME (Agree(d, rom, bit) /\ d[bit] = 1) \/ Above(d, rom, bit)
          PROVE  Above(d, rom, Width + 1)
      BY <1>1, <3>4, <3>6, <3>7 DEF Above
    <3> QED BY <3>1, <3>2, <3>3, <3>5, <3>7
  <2>4. found \subseteq attached
    BY <2>2 DEF At, UpTo
  <2>5. listening' \subseteq attached
    BY <1>2, <1>4
  <2>6. Beyond'
    BY <1>2, <2>3, <2>4, <2>5, Zenon DEF Beyond
  <2> QED BY <1>2, <1>4, <1>5, <2>1, <2>6 DEF Within
<1>8. CASE bit > lastDiscrepancy
  <2>1. ~(bit <= lastDiscrepancy) /\ ~(bit' <= lastDiscrepancy')
    BY <1>1, <1>2, <1>8, SMT
  <2>2. Beyond
    BY <2>1 DEF Within
  <2>3. \A d \in attached : d \in listening <=> Agree(d, rom, bit)
    BY DEF Within
  <2>4. listening' \cap found' = {}
    BY <1>2, <2>2 DEF Beyond
  <2>5. ASSUME NEW d \in attached \ found
        PROVE  d \in listening' \/ Above(d, rom', bit')
    <3>1. CASE Above(d, rom, bit)
      BY <1>2, <1>3, <3>1
    <3>2. CASE d \in listening /\ d[bit] = b
      BY <1>2, <3>2
    <3>3. CASE d \in listening /\ d[bit] # b
      <4>1. d[bit] \in {0, 1}
        <5>1. d \in Addresses
          BY CodesAssumption DEF WireTypeOK
        <5> QED BY <1>1, <5>1 DEF Addresses
      <4>2. b = 0
        BY <1>8, <3>3 DEF Bits
      <4> QED BY <1>2, <1>3, <2>3, <3>3, <4>1, <4>2
    <3> QED BY <2>2, <3>1, <3>2, <3>3 DEF Beyond
  <2>6. ASSUME NEW d \in attached, Above(d, rom', bit')
        PROVE  d \notin found
    <3>1. Above(d, rom, bit) \/ d \in listening
      BY <1>2, <1>3, <2>3, <2>6
    <3> QED BY <2>2, <3>1 DEF Beyond
  <2>7. Beyond'
    BY <1>2, <2>2, <2>4, <2>5, <2>6 DEF Beyond
  <2> QED BY <1>2, <1>4, <1>5, <2>1, <2>7 DEF Within
<1> QED BY <1>1, <1>6, <1>7, <1>8, SMT

\* Both bits occur when nobody is alone in saying so.
LEMMA BothBits ==
  ASSUME WireTypeOK, bit \in 1 .. Width, ~shorted, Discrepancy, NEW b \in Bits
  PROVE  \E d \in listening : d[bit] = b
<1>1. \A d \in listening : d[bit] \in {0, 1}
  BY CodesAssumption DEF WireTypeOK, Addresses
<1> QED BY <1>1 DEF Discrepancy, IdBit, ComplementBit, Bits

\* ROM_NO is itself among those that take part, up to the last discrepancy.
LEMMA RomListens ==
  ASSUME Within, At
  PROVE  rom \in listening
  BY DEF Within, At, Agree

LEMMA TakeCommonInv ==
  ASSUME WireTypeOK, Within, TakeCommon
  PROVE  Within'
<1> DEFINE b == IF IdBit THEN 1 ELSE 0
<1>1. bit \in 1 .. Width /\ bit <= Width
  BY WidthAssumption, SMT DEF TakeCommon, WireTypeOK
<1>2. b \in Bits /\ \A d \in listening : d[bit] = b
  BY DEF TakeCommon, IdBit, ComplementBit, Within, Bits
<1>3. \E d \in listening : d[bit] = b
  BY <1>2 DEF Within
<1>4. Take(b) /\ lastZero' = lastZero
  BY DEF TakeCommon
<1>5. lastZero' = IF b = 0 /\ \E d \in listening : d[bit] = 1 THEN bit ELSE lastZero
  BY <1>2, <1>4
<1>6. ASSUME bit <= lastDiscrepancy PROVE b = rom[bit]
  <2>1. At
    BY <1>6 DEF Within
  <2> QED BY <1>2, <2>1, RomListens
<1>7. bit < lastDiscrepancy => b = rom[bit]
  <2>1. bit < lastDiscrepancy => bit <= lastDiscrepancy
    BY <1>1, SMT DEF WireTypeOK
  <2> QED BY <1>6, <2>1
<1>8. ASSUME bit = lastDiscrepancy PROVE b = 1
  <2>1. bit <= lastDiscrepancy /\ lastDiscrepancy # 0
    BY <1>1, <1>8, SMT
  <2>2. Split(attached, rom, bit)
    BY <1>8, <2>1 DEF Within, At, LastSplit
  <2>3. \E d \in listening : d[bit] = 1
    BY <2>2 DEF Within, Split
  <2> QED BY <1>2, <2>3
<1>9. b = 0 \/ \A d \in listening : d[bit] = 1
  BY <1>2
<1> HIDE DEF b
<1> QED BY <1>1, <1>2, <1>3, <1>4, <1>5, <1>7, <1>8, <1>9, TakeInv

LEMMA TakeEitherInv ==
  ASSUME WireTypeOK, Within, TakeEither
  PROVE  Within'
<1> DEFINE b == IF bit < lastDiscrepancy THEN rom[bit]
                ELSE IF bit = lastDiscrepancy THEN 1 ELSE 0
<1>1. bit \in 1 .. Width /\ bit <= Width
  BY WidthAssumption, SMT DEF TakeEither, WireTypeOK
<1>2. b \in Bits
  BY <1>1 DEF WireTypeOK, Addresses, Bits
<1>3. ~shorted /\ Discrepancy
  BY DEF TakeEither, Within
<1>4. \E d \in listening : d[bit] = b
  BY <1>1, <1>2, <1>3, BothBits
<1>5. \E d \in listening : d[bit] = 1
  BY <1>1, <1>3, BothBits DEF Bits
<1>6. Take(b) /\ lastZero' = IF b = 0 THEN bit ELSE lastZero
  BY DEF TakeEither
<1>7. lastZero' = IF b = 0 /\ \E d \in listening : d[bit] = 1 THEN bit ELSE lastZero
  BY <1>5, <1>6
<1>8. /\ bit < lastDiscrepancy => b = rom[bit]
      /\ bit = lastDiscrepancy => b = 1
      /\ bit > lastDiscrepancy => b = 0
  BY <1>1, SMT DEF WireTypeOK
<1> HIDE DEF b
<1> QED BY <1>1, <1>2, <1>4, <1>6, <1>7, <1>8, TakeInv

\* A whole address is that of a device, which is new, and the next after the
\* ones that were found.
LEMMA FoundInv ==
  ASSUME WireTypeOK, Within, bit = Width + 1
  PROVE  /\ rom \in attached \ found
         /\ found \cup {rom} = UpTo(rom)
         /\ LastSplit(attached, lastZero, rom, Width + 1)
<1>1. rom \in Addresses /\ attached \subseteq Addresses /\ ~(bit <= lastDiscrepancy)
  BY WidthAssumption, CodesAssumption, SMT DEF WireTypeOK
<1>2. Beyond /\ LastSplit(attached, lastZero, rom, Width + 1)
  BY <1>1 DEF Within
<1>3. listening = {rom}
  <2>1. \A d \in listening : d \in attached /\ d = rom
    BY <1>1, Same DEF Within
  <2> QED BY <2>1 DEF Within
<1>4. rom \in attached \ found
  BY <1>2, <1>3 DEF Beyond, WireTypeOK
<1>5. ~Above(rom, rom, Width + 1)
  BY DEF Above
<1> QED BY <1>2, <1>3, <1>4, <1>5 DEF Beyond, UpTo

LEMMA StepInv == WireTypeOK /\ SearchInv /\ [WireNext]_wire => SearchInv'
<1> SUFFICES ASSUME WireTypeOK, SearchInv, [WireNext]_wire, steady'
             PROVE  IF call' = "bits" THEN Within' ELSE Between'
  BY DEF SearchInv
<1> USE DEF bus, search, ghosts
<1>1. CASE reset_search
  BY <1>1 DEF reset_search, Between, Anew
<1>2. CASE SearchOver \/ SearchAbsent \/ SearchLost \/ SearchNoFamily
  BY <1>2 DEF SearchOver, SearchAbsent, SearchLost, SearchNoFamily, Restart, Between, Anew
<1>3. CASE SearchBegin
  <2>1. Between /\ ~lastDevice /\ ~shorted /\ attached # {}
    BY <1>3 DEF SearchBegin, SearchInv
  <2>2. /\ call' = "bits" /\ bit' = 1 /\ lastZero' = 0 /\ listening' = attached
        /\ UNCHANGED <<attached, shorted, rom, lastDiscrepancy, lastDevice, found>>
    BY <1>3 DEF SearchBegin
  <2>3. \A m \in 1 .. Width : ~(m < 1)
    BY WidthAssumption, SMT
  <2>4. \A d : Agree(d, rom, 1) /\ ~Above(d, rom, 1)
    BY <2>3 DEF Agree, Above
  <2>5. LastSplit(attached, 0, rom, 1)
    BY <2>3 DEF LastSplit
  <2>6. CASE lastDiscrepancy = 0
    <3>1. found = {} /\ ~(1 <= lastDiscrepancy)
      BY <2>1, <2>6, SMT DEF Between, Anew
    <3> QED BY <2>1, <2>2, <2>4, <2>5, <3>1 DEF Within, Beyond
  <2>7. CASE lastDiscrepancy # 0
    <3>1. 1 <= lastDiscrepancy
      BY WidthAssumption, <2>7, SMT DEF WireTypeOK
    <3>2. At'
      BY <2>1, <2>2, <2>7 DEF Between, Anew, At, UpTo
    <3> QED BY <2>1, <2>2, <2>4, <2>5, <3>1, <3>2 DEF Within
  <2> QED BY <2>6, <2>7
<1>4. CASE TakeCommon
  BY <1>4, TakeCommonInv DEF TakeCommon, Take, SearchInv
<1>5. CASE TakeEither
  BY <1>5, TakeEitherInv DEF TakeEither, Take, SearchInv
<1>6. CASE SearchFound
  <2>1. Within /\ bit = Width + 1
    BY <1>6 DEF SearchFound, SearchInv
  <2>2. /\ call' = "done" /\ lastDiscrepancy' = lastZero /\ (lastDevice' <=> lastZero = 0)
        /\ found' = found \cup {rom} /\ UNCHANGED <<attached, rom>>
    BY <1>6 DEF SearchFound
  <2>3. At'
    BY <2>1, <2>2, FoundInv DEF At, UpTo
  <2> QED BY <2>2, <2>3 DEF Between
<1>7. CASE Return
  BY <1>7 DEF Return, SearchInv, Between, Anew, At, UpTo
<1>8. CASE BusChanges
  BY <1>8 DEF BusChanges
<1>9. CASE UNCHANGED wire
  BY <1>9 DEF wire, SearchInv, Within, Between, Beyond, Anew, At, UpTo
<1> QED
  BY <1>1, <1>2, <1>3, <1>4, <1>5, <1>6, <1>7, <1>8, <1>9 DEF WireNext, SearchStep

LEMMA InvImpliesAllFound == SearchInv => AllFound
<1> SUFFICES ASSUME SearchInv, steady, lastDevice PROVE found = attached
  BY DEF AllFound
<1>1. At /\ lastDiscrepancy = 0
  BY DEF SearchInv, Within, Between, Anew
<1>2. \A m \in 1 .. Width : m < Width + 1 /\ ~(m <= 0)
  BY WidthAssumption, SMT
<1>3. \A d \in attached : ~Above(d, rom, Width + 1)
  BY <1>1, <1>2 DEF At, LastSplit, Split, Above
<1> QED BY <1>1, <1>3 DEF At, UpTo

LEMMA StepNextIsNew ==
  WireTypeOK /\ SearchInv /\ [WireNext]_wire =>
    [steady /\ call = "bits" /\ call' = "done" =>
       result' = "found" /\ rom' \in attached \ found]_wire
<1> SUFFICES ASSUME WireTypeOK, SearchInv, WireNext, steady, call = "bits", call' = "done"
             PROVE  result' = "found" /\ rom' \in attached \ found
  BY DEF wire, search
<1> USE WidthAssumption, CodesAssumption
<1>1. Within
  BY DEF SearchInv
<1>2. bit \in 1 .. Width + 1
  BY DEF WireTypeOK
<1>3. SearchLost \/ SearchFound \/ SearchNoFamily
  BY DEF WireNext, SearchStep, reset_search, SearchOver, SearchAbsent, SearchBegin,
         TakeCommon, TakeEither, Take, Return, BusChanges, search
<1>4. CASE SearchLost
  <2>1. bit \in 1 .. Width
    BY <1>2, <1>4, SMT DEF SearchLost
  <2>2. \A d \in listening : d[bit] \in {0, 1}
    BY <2>1 DEF WireTypeOK, Addresses
  <2> QED BY <1>1, <1>4, <2>2 DEF SearchLost, Nobody, IdBit, ComplementBit, Within
<1>5. CASE SearchFound
  BY <1>1, <1>5, FoundInv DEF SearchFound
<1>6. CASE SearchNoFamily
  <2>1. rom \in attached
    BY <1>1, <1>6, FoundInv DEF SearchNoFamily
  <2> QED BY <1>6, <2>1 DEF SearchNoFamily, WireTypeOK
<1> QED BY <1>3, <1>4, <1>5, <1>6

\* On a bus that does not change, the search of OneWire.cpp ends only when it
\* has reported every device: for addresses of any width.
THEOREM SearchComplete == WireSpec => []AllFound
<1>1. WireInit => SearchInv
  BY InitInv
<1>2. WireTypeOK /\ SearchInv /\ [WireNext]_wire => SearchInv'
  BY StepInv
<1> QED BY <1>1, <1>2, WireTypeCorrect, InvImpliesAllFound, PTL DEF WireSpec

\* ... and no call of it fails, or reports an address twice, or one that is
\* not on the bus.
THEOREM SearchAdvances == WireSpec => NextIsNew
  BY WireTypeCorrect, InitInv, StepInv, StepNextIsNew, PTL DEF WireSpec, NextIsNew

----------------------------------------------------------------------------
(* The sketch.                                                             *)

LEMMA SketchStepIsWireStep == [Next]_vars => [WireNext]_wire
<1> SUFFICES ASSUME [Next]_vars PROVE WireNext \/ UNCHANGED wire
  OBVIOUS
<1>1. CASE Begin \/ Locate
  BY <1>1 DEF Begin, Locate, WireNext
<1>2. CASE Search
  BY <1>2 DEF Search, WireNext
<1>3. CASE Count \/ Counted \/ SeekNext \/ SeekThis \/ SeekFails
  BY <1>3 DEF Count, Counted, SeekNext, SeekThis, SeekFails, WireNext
<1>4. CASE requestTemperatures \/ TurnOver \/ setResolution \/ PrintTemperature
  BY <1>4 DEF requestTemperatures, TurnOver, setResolution, PrintTemperature
<1>5. CASE PlugOrPull
  BY <1>5 DEF PlugOrPull, WireNext
<1>6. CASE UNCHANGED vars
  BY <1>6 DEF vars
<1> QED BY <1>1, <1>2, <1>3, <1>4, <1>5, <1>6 DEF Next, Sketch

\* The calls that begin(), getAddress() and the turns of the sketch make of
\* reset_search and search are such as OneWire allows.
THEOREM SketchUsesWire == Spec => WireSpec
<1>1. Init => WireInit
  BY DEF Init
<1> QED BY <1>1, SketchStepIsWireStep, PTL DEF Spec, WireSpec

\* So in the sketch, too, a search that ends on a steady bus has found all,
THEOREM SketchSearchComplete == Spec => []AllFound
  BY SketchUsesWire, SearchComplete, PTL

\* and no call finds what an earlier one has found.
THEOREM SketchSearchAdvances == Spec => NextIsNew
  BY SketchUsesWire, SearchAdvances, PTL

----------------------------------------------------------------------------
\* The sketch's own part of TypeOK.  It prints at most once for each index that
\* it has done, and an index is below the number of devices until it is done.
Printed == Seq(Addresses \X {"fresh", "old", "disconnected", "undefined"})

Counters ==
  /\ pc \in {"begin", "count", "request", "locate", "seek", "use"}
  /\ devices \in Nat /\ j \in Nat /\ j <= devices /\ depth \in Nat
  /\ (pc \in {"seek", "use"} => j < devices)
  /\ (pc \in {"count", "request"} => j = 0)
  /\ (pc = "seek" => depth <= j)
  /\ printed \in Printed /\ Len(printed) <= j
  /\ changes \in 0 .. MaxChanges

Sensors ==
  /\ address \in Addresses /\ bitResolution \in {9, 12}
  /\ precise \subseteq Codes /\ fresh \subseteq attached
  /\ precise \cap DS18S20 = {}

TwoValued == inSetup \in BOOLEAN /\ quiet \in BOOLEAN

Own == Counters /\ Sensors /\ TwoValued

LEMMA OwnType == WireTypeOK /\ Own => TypeOK
<1>1. Own => j \in 0 .. devices /\ Len(printed) <= devices /\ devices \in Nat
  BY DEF Own, Counters, Printed
<1> QED
  BY <1>1, Zenon DEF Own, Counters, Sensors, TwoValued, TypeOK

LEMMA OwnInit == Init => Own
<1> SUFFICES ASSUME Init PROVE Own
  OBVIOUS
<1>1. Counters
  BY SketchAssumption DEF Init, Counters, Printed
<1>2. Sensors
  BY SketchAssumption DEF Init, Sensors, NoAddress, Addresses
<1>3. TwoValued
  BY Zenon DEF Init, TwoValued
<1> QED
  BY <1>1, <1>2, <1>3 DEF Own

LEMMA OwnStep == WireTypeOK /\ Own /\ [Next]_vars => Own'
<1> SUFFICES ASSUME WireTypeOK, Own, [Next]_vars PROVE Own'
  OBVIOUS
<1> USE DEF Own
<1>1. TwoValued'
  BY Zenon DEF TwoValued, Next, Sketch, vars, turn, Begin, Search, Count, Counted,
     requestTemperatures, Locate, TurnOver, SeekNext, SeekThis, SeekFails, setResolution,
     PrintTemperature, PlugOrPull
<1>2. Sensors'
  <2> USE DEF Sensors
  <2>1. ASSUME Begin PROVE Sensors'
    BY <2>1 DEF Begin, sensors, reset_search, bus
  <2>2. ASSUME Search PROVE Sensors'
    BY <2>2 DEF Search, sensors, turn, SearchStep, SearchOver, SearchAbsent, SearchBegin,
       TakeCommon, TakeEither, Take, SearchLost, SearchFound, SearchNoFamily, bus, Restart
  <2>3. ASSUME Count PROVE Sensors'
    BY <2>3 DEF Count, Return, bus, ResolutionOf
  <2>4. ASSUME Counted PROVE Sensors'
    BY <2>4 DEF Counted, Return, bus, sensors
  <2>5. ASSUME requestTemperatures PROVE Sensors'
    BY <2>5 DEF requestTemperatures, Converted, MayConvert, wire, bus, turn
  <2>6. ASSUME Locate \/ TurnOver PROVE Sensors'
    BY <2>6 DEF Locate, TurnOver, reset_search, wire, bus, sensors
  <2>7. ASSUME SeekNext \/ SeekThis \/ SeekFails PROVE Sensors'
    BY <2>7 DEF SeekNext, SeekThis, SeekFails, Return, bus, sensors, WireTypeOK
  <2>8. ASSUME setResolution \/ PrintTemperature PROVE Sensors'
    BY <2>8 DEF setResolution, PrintTemperature, wire, bus, sensors
  <2>9. ASSUME PlugOrPull PROVE Sensors'
    BY <2>9, SketchAssumption DEF PlugOrPull, BusChanges
  <2>10. ASSUME UNCHANGED vars PROVE Sensors'
    BY <2>10 DEF vars, wire, bus, sensors, turn
  <2> QED
    BY <2>1, <2>2, <2>3, <2>4, <2>5, <2>6, <2>7, <2>8, <2>9, <2>10 DEF Next, Sketch
<1>3. Counters'
  <2> USE DEF Counters
  <2>1. ASSUME Begin PROVE Counters'
    BY <2>1 DEF Begin, Printed
  <2>2. ASSUME Search \/ requestTemperatures PROVE Counters'
    BY <2>2 DEF Search, requestTemperatures, turn
  <2>3. ASSUME Count \/ Counted PROVE Counters'
    BY <2>3 DEF Count, Counted, Printed
  <2>4. ASSUME Locate \/ TurnOver PROVE Counters'
    BY <2>4 DEF Locate, TurnOver
  <2>5. ASSUME SeekNext \/ SeekThis \/ SeekFails PROVE Counters'
    BY <2>5 DEF SeekNext, SeekThis, SeekFails, NotLocated, Printed
  <2>6. ASSUME setResolution PROVE Counters'
    BY <2>6 DEF setResolution, Printed
  <2>7. ASSUME PrintTemperature PROVE Counters'
    <3>1. <<address, Temperature(address)>> \in Addresses \X {"fresh", "old", "disconnected", "undefined"}
      BY DEF Temperature, Sensors
    <3>2. printed' \in Printed /\ Len(printed') = Len(printed) + 1
      BY <2>7, <3>1 DEF PrintTemperature, Printed
    <3> QED
      BY <2>7, <3>2 DEF PrintTemperature, Printed
  <2>8. ASSUME PlugOrPull PROVE Counters'
    BY <2>8, SketchAssumption DEF PlugOrPull
  <2>9. ASSUME UNCHANGED vars PROVE Counters'
    BY <2>9 DEF vars, turn
  <2> QED
    BY <2>1, <2>2, <2>3, <2>4, <2>5, <2>6, <2>7, <2>8, <2>9 DEF Next, Sketch
<1> QED
  BY <1>1, <1>2, <1>3

\* The variables of the sketch stay in their sets, too: an index is never beyond
\* the devices counted, and no turn prints more than it has counted.
THEOREM SketchTypeCorrect == Spec => []TypeOK
<1>1. Spec => []WireTypeOK
  BY SketchUsesWire, WireTypeCorrect, PTL
<1> QED
  BY <1>1, OwnInit, OwnStep, OwnType, PTL DEF Spec
----------------------------------------------------------------------------
(* Which device has which index.  Every search of a turn that is not       *)
(* disturbed finds the devices in the same order, so the index of a device *)
(* is its rank among those on the bus.                                     *)

Rank(A, d) == Cardinality({e \in A : ~Above(e, d, Width + 1)})

\* The devices S of A are those of the first ranks.
Ranked(A, S) == \A k \in 1 .. Cardinality(S) : \E d \in S : Rank(A, d) = k

\* There are finitely many addresses: each is the set of the positions of its 1s.
LEMMA CodesFinite == \A A : A \subseteq Codes => IsFiniteSet(A)
<1> DEFINE Positions == 1 .. Width
           Ones(a) == {i \in Positions : a[i] = 1}
           f == [a \in Codes |-> Ones(a)]
<1>1. IsFiniteSet(SUBSET Positions)
  <2>1. IsFiniteSet(Positions)
    BY WidthAssumption, FS_Interval
  <2> HIDE DEF Positions
  <2> QED BY <2>1, FS_SUBSET
<1>2. \A a \in Codes : a \in Addresses
  BY CodesAssumption
<1>3. f \in [Codes -> SUBSET Positions]
  OBVIOUS
<1>4. ASSUME NEW a \in Codes, NEW b \in Codes, f[a] = f[b] PROVE a = b
  <2>1. Ones(a) = Ones(b)
    BY <1>4
  <2>2. \A i \in Positions : a[i] = 1 <=> b[i] = 1
    BY <2>1
  <2>3. \A i \in Positions : a[i] \in {0, 1} /\ b[i] \in {0, 1}
    BY <1>2 DEF Addresses
  <2>4. \A i \in Positions : a[i] = b[i]
    BY <2>2, <2>3
  <2>5. a = [i \in Positions |-> a[i]] /\ b = [i \in Positions |-> b[i]]
    BY <1>2 DEF Addresses
  <2> QED BY <2>4, <2>5
<1>5. f \in Injection(Codes, SUBSET Positions)
  <2> HIDE DEF f
  <2> QED BY <1>3, <1>4, Fun_IsInj
<1>6. IsFiniteSet(Codes)
  <2> HIDE DEF f, Positions
  <2> QED BY <1>1, <1>5, FS_Injection
<1> QED BY <1>6, FS_Subset

LEMMA RankBounds ==
  ASSUME NEW A, IsFiniteSet(A), NEW d \in A
  PROVE  Rank(A, d) \in 1 .. Cardinality(A)
<1> DEFINE S == {e \in A : ~Above(e, d, Width + 1)}
<1>1. d \in S
  BY DEF Above
<1>2. S \in SUBSET A
  OBVIOUS
<1>3. Rank(A, d) = Cardinality(S)
  BY DEF Rank
<1> HIDE DEF S
<1>4. IsFiniteSet(S) /\ Cardinality(S) <= Cardinality(A)
  BY <1>2, FS_Subset
<1>5. Cardinality(S) # 0 /\ Cardinality(S) \in Nat /\ Cardinality(A) \in Nat
  BY <1>1, <1>4, FS_EmptySet, FS_CardinalityType
<1> QED BY <1>3, <1>4, <1>5

\* When every index occurs, no two devices have the same.
LEMMA RanksDiffer ==
  ASSUME NEW A, IsFiniteSet(A), Ranked(A, A), NEW c \in A, NEW d \in A,
         Rank(A, c) = Rank(A, d)
  PROVE  c = d
<1> DEFINE n == Cardinality(A)
           f == [e \in A |-> Rank(A, e)]
<1>1. n \in Nat
  BY FS_CardinalityType
<1>2. Cardinality(1 .. n) = n
  BY <1>1, FS_Interval
<1>3. \A e \in A : Rank(A, e) \in 1 .. n
  BY RankBounds
<1>4. f \in [A -> 1 .. n] /\ \A k \in 1 .. n : \E e \in A : f[e] = k
  BY <1>3 DEF Ranked
<1>5. f[c] = f[d]
  OBVIOUS
<1> HIDE DEF f, n
<1>6. f \in Surjection(A, 1 .. n)
  BY <1>4, Fun_IsSurj
<1>7. Cardinality(A) = Cardinality(1 .. n)
  BY <1>2 DEF n
<1>8. f \in Injection(A, 1 .. n)
  BY <1>6, <1>7, FS_SurjSameCardinalityImpliesInj
<1> QED BY <1>5, <1>8 DEF Injection, IsInjective

\* The next device is the one of the next rank.
LEMMA OneMoreRanked ==
  ASSUME NEW A, NEW S, IsFiniteSet(S), Ranked(A, S), NEW x, x \notin S,
         Rank(A, x) = Cardinality(S) + 1
  PROVE  Cardinality(S \cup {x}) = Cardinality(S) + 1 /\ Ranked(A, S \cup {x})
<1>1. Cardinality(S \cup {x}) = Cardinality(S) + 1 /\ Cardinality(S) \in Nat
  BY FS_AddElement, FS_CardinalityType
<1>2. ASSUME NEW k \in 1 .. Cardinality(S) + 1
      PROVE  \E d \in S \cup {x} : Rank(A, d) = k
  <2>1. k \in 1 .. Cardinality(S) \/ k = Cardinality(S) + 1
    BY <1>1
  <2> QED BY <2>1 DEF Ranked
<1> QED BY <1>1, <1>2 DEF Ranked

----------------------------------------------------------------------------
\* Nothing disturbs this turn.
Calm == quiet /\ ~shorted

\* The devices that begin() has counted, or getAddress has passed.
Seen == IF call # "done" THEN found
        ELSE IF result = "found" THEN found \ {rom} ELSE attached

\* A call that has found a device stands at it.
Arrived == call = "done" /\ result = "found" => rom \in attached /\ found = UpTo(rom)

SearchCounts ==
  pc \in {"count", "seek"} /\ Calm =>
    /\ Arrived /\ Seen \subseteq attached /\ Ranked(attached, Seen)
    /\ Cardinality(Seen) = IF pc = "count" THEN devices ELSE depth

\* A conversion is waited for long enough for the sensors of S.
Enough(S) == \A d \in S : d \in precise => bitResolution = 12

WaitsEnough == pc = "count" /\ Calm => Enough(Seen)

AllCounted ==
  pc \in {"request", "locate", "seek", "use"} /\ Calm =>
    /\ devices = Cardinality(attached) /\ Ranked(attached, attached)
    /\ Enough(attached)

Located == pc = "use" /\ Calm => address \in attached /\ Rank(attached, address) = j + 1

\* What setup() has done with the indices below j,
Lowered ==
  inSetup /\ pc \in {"locate", "seek", "use"} /\ Calm =>
    \A d \in attached : Rank(attached, d) <= j => d \notin precise

\* and what a turn of loop() has: it may print an old value of a DS18S20 that was
\* not waited for.
ValuesOf(d) == IF d \in DS18S20 /\ bitResolution = 9 THEN {"fresh", "old"} ELSE {"fresh"}

RanksPrinted ==
  ~inSetup /\ pc \in {"locate", "seek", "use"} /\ Calm =>
    /\ {d \in attached : WaitedFor(d)} \subseteq fresh /\ Len(printed) = j
    /\ \A i \in 1 .. j : \E d \in attached : \E v \in ValuesOf(d) :
         Rank(attached, d) = i /\ printed[i] = <<d, v>>

QuietIsSteady == quiet => steady

TurnInv ==
  /\ QuietIsSteady /\ SearchCounts /\ WaitsEnough
  /\ AllCounted /\ Located /\ Lowered /\ RanksPrinted

\* All that a step starts from.
Before == WireTypeOK /\ SearchInv /\ Own /\ TurnInv

LEMMA InitTurnInv == Init => TurnInv
<1> SUFFICES ASSUME Init PROVE TurnInv
  OBVIOUS
<1>1. QuietIsSteady
  BY Zenon DEF Init, WireInit, QuietIsSteady
<1>2. pc = "begin"
  BY DEF Init
<1> QED
  BY <1>1, <1>2 DEF TurnInv, SearchCounts, WaitsEnough, AllCounted, Located, Lowered, RanksPrinted

LEMMA AttachedFinite == WireTypeOK => IsFiniteSet(attached)
  BY CodesFinite DEF WireTypeOK

\* A step of a call of search finds nothing that was not to come, and ends the
\* search only when all have been found.
LEMMA SearchKeepsSeen ==
  ASSUME WireTypeOK, SearchInv, steady, ~shorted, SearchStep
  PROVE  Seen' = Seen /\ Arrived' /\ UNCHANGED <<attached, shorted>>
<1> USE DEF bus, ghosts
<1>1. [WireNext]_wire
  BY DEF WireNext
<1>2. CASE SearchOver
  <2>1. found = attached
    BY <1>2, InvImpliesAllFound DEF SearchOver, AllFound
  <2> QED BY <1>2, <2>1 DEF SearchOver, Seen, Arrived
<1>3. CASE SearchAbsent
  <2>1. attached = {} /\ call = "idle"
    BY <1>3 DEF SearchAbsent
  <2>2. found = {}
    BY <2>1 DEF SearchInv, Between, At
  <2> QED BY <1>3, <2>1, <2>2 DEF SearchAbsent, Seen, Arrived
<1>4. CASE SearchBegin
  BY <1>4 DEF SearchBegin, Seen, Arrived
<1>5. CASE TakeCommon
  BY <1>5 DEF TakeCommon, Take, Seen, Arrived
<1>6. CASE TakeEither
  BY <1>6 DEF TakeEither, Take, Seen, Arrived
<1>7. CASE SearchLost \/ SearchNoFamily
  <2>1. call = "bits" /\ call' = "done" /\ result' = "end"
    BY <1>7 DEF SearchLost, SearchNoFamily
  <2>2. wire' # wire
    BY <2>1 DEF wire, search
  <2> QED BY <1>1, <2>1, <2>2, StepNextIsNew
<1>8. CASE SearchFound
  <2>1. Within /\ bit = Width + 1 /\ call = "bits"
    BY <1>8 DEF SearchFound, SearchInv
  <2>2. rom \in attached \ found /\ found \cup {rom} = UpTo(rom)
    BY <2>1, FoundInv
  <2>3. /\ found' = found \cup {rom} /\ call' = "done" /\ result' = "found"
        /\ rom' = rom /\ attached' = attached /\ shorted' = shorted
    BY <1>8 DEF SearchFound
  <2>4. Seen' = Seen
    BY <2>1, <2>2, <2>3 DEF Seen
  <2>5. Arrived'
    BY <2>2, <2>3 DEF Arrived, UpTo
  <2> QED BY <2>3, <2>4, <2>5
<1> QED
  BY <1>2, <1>3, <1>4, <1>5, <1>6, <1>7, <1>8 DEF SearchStep

\* The caller of a search that has found a device goes on: it has seen one more.
LEMMA ReturnSeesNext ==
  ASSUME WireTypeOK, Arrived, Ranked(attached, Seen), result = "found", Return
  PROVE  /\ rom \in attached /\ Seen' = Seen \cup {rom} /\ Arrived' /\ Seen' \subseteq attached
         /\ Rank(attached, rom) = Cardinality(Seen) + 1
         /\ Cardinality(Seen') = Cardinality(Seen) + 1 /\ Ranked(attached, Seen')
<1>1. rom \in attached /\ found = UpTo(rom) /\ Seen = found \ {rom}
  BY DEF Return, Arrived, Seen
<1>2. rom \in found /\ found \subseteq attached
  BY <1>1 DEF UpTo, Above
<1>3. Seen' = found /\ Arrived'
  BY DEF Return, ghosts, Seen, Arrived
<1>4. Rank(attached, rom) = Cardinality(found)
  BY <1>1 DEF Rank, UpTo
<1>5. IsFiniteSet(found) /\ IsFiniteSet(Seen)
  BY <1>1, <1>2, AttachedFinite, FS_Subset, FS_RemoveElement
<1>6. found = Seen \cup {rom} /\ rom \notin Seen
  BY <1>1, <1>2
<1>7. Cardinality(found) = Cardinality(Seen) + 1
  BY <1>5, <1>6, FS_AddElement
<1> QED
  BY <1>1, <1>2, <1>3, <1>4, <1>5, <1>6, <1>7, OneMoreRanked

\* ... or to one that found nothing: it has seen all.
LEMMA ReturnSeesAll ==
  Return /\ result # "found" => Seen = attached /\ UNCHANGED <<attached, shorted>>
  BY DEF Return, bus, Seen

----------------------------------------------------------------------------
LEMMA StepQuiet == Before /\ Next => QuietIsSteady'
<1> SUFFICES ASSUME Before, Next, quiet' PROVE steady'
  BY DEF QuietIsSteady
<1> USE DEF Before, TurnInv, QuietIsSteady, turn, ghosts
<1>1. CASE Begin
  BY <1>1, Zenon DEF Begin, reset_search
<1>2. CASE Locate
  BY <1>2, Zenon DEF Locate, reset_search
<1>3. CASE Search
  <2>1. SearchStep => steady' = steady
    BY Zenon DEF SearchStep, SearchOver, SearchAbsent, SearchBegin, TakeCommon, TakeEither,
       Take, SearchLost, SearchFound, SearchNoFamily
  <2> QED BY <1>3, <2>1, Zenon DEF Search
<1>4. CASE Count \/ Counted \/ SeekNext \/ SeekThis \/ SeekFails
  BY <1>4, Zenon DEF Count, Counted, SeekNext, SeekThis, SeekFails, Return
<1>5. CASE requestTemperatures \/ TurnOver \/ setResolution \/ PrintTemperature
  BY <1>5, Zenon DEF requestTemperatures, TurnOver, setResolution, PrintTemperature, wire
<1>6. CASE PlugOrPull
  BY <1>6 DEF PlugOrPull
<1> QED BY <1>1, <1>2, <1>3, <1>4, <1>5, <1>6 DEF Next, Sketch

\* What a calm turn keeps: its devices, and that it is calm.
LEMMA CalmBefore ==
  Before /\ Next /\ Calm' =>
    \/ Begin
    \/ Sketch /\ Calm /\ steady /\ UNCHANGED <<attached, shorted>>
<1> SUFFICES ASSUME Before, Next, quiet', ~shorted', ~Begin
             PROVE  Sketch /\ quiet /\ ~shorted /\ steady /\ UNCHANGED <<attached, shorted>>
  BY DEF Calm
<1>1. Sketch
  BY DEF Next, PlugOrPull
<1>2. quiet
  BY <1>1, Zenon DEF Sketch, turn, Search, Count, Counted, requestTemperatures, Locate,
     TurnOver, SeekNext, SeekThis, SeekFails, setResolution, PrintTemperature
<1>3. UNCHANGED <<attached, shorted>>
  BY <1>1, Zenon DEF Sketch, Search, Count, Counted, requestTemperatures, Locate,
     TurnOver, SeekNext, SeekThis, SeekFails, setResolution, PrintTemperature, wire, bus,
     Return, reset_search, SearchStep, SearchOver, SearchAbsent, SearchBegin, TakeCommon,
     TakeEither, Take, SearchLost, SearchFound, SearchNoFamily
<1> QED
  BY <1>1, <1>2, <1>3 DEF Before, TurnInv, QuietIsSteady

\* In a calm turn getAddress gets as far as it is asked to.
LEMMA SeekFailsNot == Before /\ Calm => ~SeekFails
<1> SUFFICES ASSUME Before, Calm, SeekFails PROVE FALSE
  OBVIOUS
<1>1. Seen = attached
  BY ReturnSeesAll DEF SeekFails
<1>2. pc = "seek"
  BY DEF SeekFails
<1>3. Cardinality(attached) = depth
  BY <1>1, <1>2 DEF Before, TurnInv, SearchCounts
<1>4. Cardinality(attached) = devices
  BY <1>2 DEF Before, TurnInv, AllCounted
<1> QED BY <1>2, <1>3, <1>4 DEF Before, Own, Counters

LEMMA StepSearchCounts == Before /\ Next => SearchCounts'
<1> SUFFICES ASSUME Before, Next, pc' \in {"count", "seek"}, Calm'
             PROVE  /\ Arrived' /\ Seen' \subseteq attached' /\ Ranked(attached', Seen')
                    /\ Cardinality(Seen') = IF pc' = "count" THEN devices' ELSE depth'
  BY DEF SearchCounts
<1>1. CASE Begin \/ Locate
  <2>1. call' = "idle" /\ found' = {}
    BY <1>1 DEF Begin, Locate, reset_search
  <2>2. Arrived' /\ Seen' = {}
    BY <2>1 DEF Arrived, Seen
  <2>3. 0 = IF pc' = "count" THEN devices' ELSE depth'
    BY <1>1 DEF Begin, Locate
  <2>4. Cardinality({}) = 0
    BY FS_EmptySet
  <2>5. Ranked(attached', {})
    BY <2>4 DEF Ranked
  <2> QED BY <2>2, <2>3, <2>4, <2>5
<1>2. ASSUME ~Begin, ~Locate
      PROVE  /\ Arrived' /\ Seen' \subseteq attached' /\ Ranked(attached', Seen')
             /\ Cardinality(Seen') = IF pc' = "count" THEN devices' ELSE depth'
  <2>1. Sketch /\ Calm /\ ~shorted /\ steady /\ attached' = attached /\ WireTypeOK /\ SearchInv
    BY <1>2, CalmBefore DEF Calm, Before
  <2>2. Search \/ Count \/ SeekNext
    BY <1>2, <2>1, SeekFailsNot DEF Sketch, Counted, requestTemperatures, TurnOver, SeekThis,
       NotLocated, setResolution, PrintTemperature, Before, TurnInv, SearchCounts, Arrived,
       Return, Valid, WireTypeOK
  <2>3. /\ Arrived /\ Seen \subseteq attached /\ Ranked(attached, Seen)
        /\ Cardinality(Seen) = IF pc = "count" THEN devices ELSE depth
    BY <2>1, <2>2 DEF Before, TurnInv, SearchCounts, Search, Count, SeekNext
  <2>4. CASE Search
    <3>1. UNCHANGED <<pc, devices, depth>> /\ SearchStep
      BY <2>4 DEF Search, turn
    <3> QED BY <2>1, <2>3, <3>1, SearchKeepsSeen
  <2>5. CASE Count
    <3>1. Return /\ result = "found" /\ pc = "count" /\ pc' = pc
      BY <2>5 DEF Count
    <3>2. /\ rom \in attached /\ Arrived' /\ Seen' \subseteq attached
          /\ Cardinality(Seen') = Cardinality(Seen) + 1 /\ Ranked(attached, Seen')
      BY <2>1, <2>3, <3>1, ReturnSeesNext
    <3>3. devices' = devices + 1
      BY <2>1, <2>5, <3>2 DEF Count, Valid, WireTypeOK
    <3> QED BY <2>1, <2>3, <3>1, <3>2, <3>3
  <2>6. CASE SeekNext
    <3>1. /\ Return /\ result = "found" /\ pc = "seek" /\ pc' = pc /\ depth' = depth + 1
      BY <2>6 DEF SeekNext
    <3>2. /\ rom \in attached /\ Arrived' /\ Seen' \subseteq attached
          /\ Cardinality(Seen') = Cardinality(Seen) + 1 /\ Ranked(attached, Seen')
      BY <2>1, <2>3, <3>1, ReturnSeesNext
    <3> QED BY <2>1, <2>3, <3>1, <3>2
  <2> QED BY <2>2, <2>4, <2>5, <2>6
<1> QED BY <1>1, <1>2

\* begin() meets a device of 12 bits: from then on conversions are waited for
\* as long as it needs.
LEMMA StepWaitsEnough == Before /\ Next => WaitsEnough'
<1> SUFFICES ASSUME Before, Next, pc' = "count", Calm' PROVE Enough(Seen)'
  BY DEF WaitsEnough
<1>1. CASE Begin
  <2>1. Seen' = {}
    BY <1>1 DEF Begin, reset_search, Seen
  <2> QED BY <2>1 DEF Enough
<1>2. CASE ~Begin
  <2>1. Sketch /\ Calm /\ ~shorted /\ steady /\ attached' = attached /\ WireTypeOK /\ SearchInv
    BY <1>2, CalmBefore DEF Calm, Before
  <2>2. Search \/ Count
    BY <1>2, <2>1 DEF Sketch, Counted, requestTemperatures, Locate, TurnOver, SeekNext,
       SeekThis, SeekFails, NotLocated, setResolution, PrintTemperature
  <2>3. /\ Arrived /\ Seen \subseteq attached /\ Ranked(attached, Seen) /\ Enough(Seen)
    BY <2>1, <2>2 DEF Before, TurnInv, SearchCounts, WaitsEnough, Search, Count
  <2>4. CASE Search
    <3>1. UNCHANGED <<precise, bitResolution>> /\ SearchStep
      BY <2>4 DEF Search, sensors
    <3>2. Seen' = Seen
      BY <2>1, <3>1, SearchKeepsSeen
    <3> QED BY <2>3, <3>1, <3>2 DEF Enough
  <2>5. CASE Count
    <3>1. rom \in attached /\ Seen' = Seen \cup {rom}
      BY <2>1, <2>3, <2>5, ReturnSeesNext DEF Count
    <3>2. Valid(rom) /\ ResolutionOf(rom) = IF rom \in precise THEN 12 ELSE 9
      BY <2>1, <3>1 DEF WireTypeOK, Valid, ResolutionOf, Reachable, Before, Own, Sensors
    <3>3. bitResolution \in {9, 12}
      BY DEF Before, Own, Sensors
    <3>4. /\ precise' = precise
          /\ bitResolution' = IF ResolutionOf(rom) > bitResolution
                              THEN ResolutionOf(rom) ELSE bitResolution
      BY <2>5, <3>2 DEF Count
    <3>5. /\ bitResolution = 12 => bitResolution' = 12
          /\ rom \in precise => bitResolution' = 12
      BY <3>2, <3>3, <3>4
    <3> QED BY <2>3, <3>1, <3>4, <3>5 DEF Enough
  <2> QED BY <2>2, <2>4, <2>5
<1> QED BY <1>1, <1>2

LEMMA StepAllCounted == Before /\ Next => AllCounted'
<1> SUFFICES ASSUME Before, Next, pc' \in {"request", "locate", "seek", "use"}, Calm'
             PROVE  /\ devices' = Cardinality(attached') /\ Ranked(attached', attached')
                    /\ Enough(attached)'
  BY DEF AllCounted
<1>1. Sketch /\ ~Begin /\ Calm /\ attached' = attached
  BY CalmBefore DEF Begin
<1>2. CASE Counted
  <2>1. Seen = attached
    BY <1>2, ReturnSeesAll DEF Counted
  <2>2. pc = "count" /\ UNCHANGED <<devices, precise, bitResolution>>
    BY <1>2 DEF Counted, sensors
  <2>3. Ranked(attached, Seen) /\ Cardinality(Seen) = devices /\ Enough(Seen)
    BY <1>1, <2>2 DEF Before, TurnInv, SearchCounts, WaitsEnough
  <2> QED BY <1>1, <2>1, <2>2, <2>3 DEF Enough
<1>3. CASE ~Counted
  <2>1. pc \in {"request", "locate", "seek", "use"}
    BY <1>1, <1>3 DEF Sketch, Search, Count, requestTemperatures, Locate, TurnOver,
       SeekNext, SeekThis, SeekFails, setResolution, PrintTemperature
  <2>2. /\ devices = Cardinality(attached) /\ Ranked(attached, attached)
        /\ Enough(attached)
    BY <1>1, <2>1 DEF Before, TurnInv, AllCounted
  <2>3. devices' = devices /\ bitResolution' = bitResolution /\ precise' \subseteq precise
    BY <1>1, <1>3, <2>1 DEF Sketch, Search, Count, requestTemperatures, Locate, TurnOver,
       SeekNext, SeekThis, SeekFails, setResolution, PrintTemperature, turn, sensors
  <2> QED BY <1>1, <2>2, <2>3 DEF Enough
<1> QED BY <1>2, <1>3

LEMMA StepLocated == Before /\ Next => Located'
<1> SUFFICES ASSUME Before, Next, pc' = "use", Calm'
             PROVE  address' \in attached' /\ Rank(attached', address') = j' + 1
  BY DEF Located
<1>1. Sketch /\ Calm /\ attached' = attached /\ WireTypeOK
  BY CalmBefore DEF Begin, Before
<1>2. SeekThis
  BY <1>1, SeekFailsNot DEF Sketch, Begin, Search, Count, Counted, requestTemperatures, Locate,
     TurnOver, SeekNext, setResolution, PrintTemperature
<1>3. Arrived /\ Ranked(attached, Seen) /\ Cardinality(Seen) = depth
  BY <1>1, <1>2 DEF Before, TurnInv, SearchCounts, SeekThis
<1>4. rom \in attached /\ Rank(attached, rom) = Cardinality(Seen) + 1
  BY <1>1, <1>2, <1>3, ReturnSeesNext DEF SeekThis
<1>5. address' = rom /\ j' = j /\ depth = j
  BY <1>1, <1>2, <1>4 DEF SeekThis, Valid, WireTypeOK
<1> QED BY <1>1, <1>3, <1>4, <1>5

\* From one index to the next: setup() sets the device of index j to 9 bits.
LEMMA StepLowered == Before /\ Next => Lowered'
<1> SUFFICES ASSUME Before, Next, inSetup', pc' \in {"locate", "seek", "use"}, Calm',
                    NEW d \in attached', Rank(attached', d) <= j'
             PROVE  d \notin precise'
  BY DEF Lowered
<1>1. Sketch /\ Calm /\ attached' = attached /\ ~shorted /\ WireTypeOK
  BY CalmBefore DEF Begin, Before, Calm
<1>2. IsFiniteSet(attached) /\ d \in attached
  BY <1>1, AttachedFinite
<1>3. Rank(attached, d) # 0 /\ Rank(attached, d) \in Nat
  BY <1>2, RankBounds, FS_CardinalityType
<1>4. inSetup
  BY <1>1, Zenon DEF Sketch, Begin, Search, Count, Counted, requestTemperatures, Locate,
     TurnOver, SeekNext, SeekThis, SeekFails, setResolution, PrintTemperature, turn
<1>5. CASE Counted \/ requestTemperatures
  <2>1. j' = 0
    BY <1>5 DEF Counted, requestTemperatures, turn, Before, Own, Counters
  <2> QED BY <1>1, <1>3, <2>1
<1>6. CASE setResolution
  <2>1. address \in attached /\ Rank(attached, address) = j + 1
    BY <1>1, <1>6 DEF setResolution, Before, TurnInv, Located
  <2>2. j' = j + 1 /\ precise' = precise \ {address} /\ pc = "use" /\ j \in Nat
    BY <1>1, <1>6, <2>1 DEF setResolution, Reachable, Before, Own, Counters, Sensors
  <2>3. CASE Rank(attached, d) <= j
    BY <1>1, <1>2, <1>4, <2>2, <2>3 DEF Before, TurnInv, Lowered
  <2>4. CASE Rank(attached, d) = j + 1
    <3>1. Ranked(attached, attached)
      BY <1>1, <2>2 DEF Before, TurnInv, AllCounted
    <3>2. d = address
      BY <1>2, <2>1, <2>4, <3>1, RanksDiffer
    <3> QED BY <2>2, <3>2
  <2> QED BY <1>1, <1>3, <2>2, <2>3, <2>4
<1>7. ASSUME ~Counted, ~requestTemperatures, ~setResolution PROVE d \notin precise'
  <2>1. pc \in {"locate", "seek", "use"} /\ j' = j /\ precise' = precise
    BY <1>1, <1>4, <1>7, SeekFailsNot DEF Sketch, Begin, Search, Count, Locate, TurnOver,
       SeekNext, SeekThis, PrintTemperature, turn, sensors, Valid, NotLocated, WireTypeOK,
       Before, TurnInv, SearchCounts, Arrived, Return
  <2> QED BY <1>1, <1>2, <1>4, <2>1 DEF Before, TurnInv, Lowered
<1> QED BY <1>5, <1>6, <1>7

\* ... and loop() prints it.
LEMMA StepRanksPrinted == Before /\ Next => RanksPrinted'
<1> SUFFICES ASSUME Before, Next, ~inSetup', pc' \in {"locate", "seek", "use"}, Calm'
             PROVE  /\ {d \in attached : WaitedFor(d)}' \subseteq fresh' /\ Len(printed') = j'
                    /\ \A i \in 1 .. j' : \E d \in attached' : \E v \in ValuesOf(d)' :
                         Rank(attached', d) = i /\ printed'[i] = <<d, v>>
  BY DEF RanksPrinted
<1>1. Sketch /\ Calm /\ attached' = attached /\ ~shorted /\ WireTypeOK
  BY CalmBefore DEF Begin, Before, Calm
<1>2. ~TurnOver
  BY DEF TurnOver
<1>3. ~inSetup
  BY <1>1, <1>2, Zenon DEF Sketch, Begin, Search, Count, Counted, requestTemperatures, Locate,
     SeekNext, SeekThis, SeekFails, setResolution, PrintTemperature, turn
<1>4. CASE requestTemperatures
  <2>1. j = 0 /\ printed \in Printed /\ Len(printed) <= j
    BY <1>4 DEF requestTemperatures, Before, Own, Counters
  <2>2. j' = 0 /\ Len(printed') = 0
    BY <1>4, <2>1 DEF requestTemperatures, turn, Printed
  <2>3. {d \in attached : WaitedFor(d)}' \subseteq fresh'
    BY <1>1, <1>4 DEF requestTemperatures, Converted, WaitedFor
  <2> QED BY <2>2, <2>3
<1>5. CASE PrintTemperature
  <2>1. pc = "use"
    BY <1>5 DEF PrintTemperature
  <2>2. /\ {d \in attached : WaitedFor(d)} \subseteq fresh /\ Len(printed) = j
        /\ \A i \in 1 .. j : \E d \in attached : \E v \in ValuesOf(d) :
             Rank(attached, d) = i /\ printed[i] = <<d, v>>
    BY <1>1, <1>3, <2>1 DEF Before, TurnInv, RanksPrinted
  <2>3. address \in attached /\ Rank(attached, address) = j + 1
    BY <1>1, <2>1 DEF Before, TurnInv, Located
  <2>4. PICK v \in ValuesOf(address) : v = Temperature(address)
    <3>1. Enough(attached) /\ bitResolution \in {9, 12}
      BY <1>1, <2>1 DEF Before, TurnInv, AllCounted, Own, Sensors
    <3>2. WaitedFor(address) \/ (address \in DS18S20 /\ bitResolution = 9)
      BY <2>3, <3>1 DEF Enough, WaitedFor
    <3> QED BY <1>1, <2>2, <2>3, <3>2 DEF Temperature, ValuesOf
  <2>5. /\ printed' = Append(printed, <<address, v>>) /\ j' = j + 1 /\ fresh' = fresh
        /\ UNCHANGED <<precise, bitResolution>>
    BY <1>5, <2>4 DEF PrintTemperature, sensors
  <2>6. j \in Nat /\ printed \in Seq(Addresses \X {"fresh", "old", "disconnected", "undefined"})
    BY DEF Before, Own, Counters, Printed
  <2>7. address \in Addresses /\ v \in {"fresh", "old"}
    BY <2>4 DEF Before, Own, Sensors, ValuesOf
  <2>8. PICK e \in Addresses \X {"fresh", "old", "disconnected", "undefined"} :
          e = <<address, v>>
    BY <2>7
  <2>9. /\ Len(printed') = j + 1 /\ printed'[j + 1] = e
        /\ \A i \in 1 .. j : printed'[i] = printed[i]
    BY <2>2, <2>5, <2>6, <2>8, AppendProperties
  <2>10. ASSUME NEW i \in 1 .. j + 1
         PROVE  \E d \in attached : \E w \in ValuesOf(d) : Rank(attached, d) = i /\ printed'[i] = <<d, w>>
    <3>1. i \in 1 .. j \/ i = j + 1
      BY <2>6
    <3> QED BY <2>2, <2>3, <2>4, <2>8, <2>9, <3>1
  <2> QED BY <1>1, <2>2, <2>5, <2>9, <2>10 DEF WaitedFor, ValuesOf
<1>6. ASSUME ~requestTemperatures, ~PrintTemperature
      PROVE  /\ {d \in attached : WaitedFor(d)}' \subseteq fresh' /\ Len(printed') = j'
             /\ \A i \in 1 .. j' : \E d \in attached' : \E v \in ValuesOf(d)' :
                  Rank(attached', d) = i /\ printed'[i] = <<d, v>>
  <2>1. /\ pc \in {"locate", "seek", "use"}
        /\ j' = j /\ fresh' = fresh /\ printed' = printed
        /\ UNCHANGED <<precise, bitResolution>>
    BY <1>1, <1>2, <1>3, <1>6, SeekFailsNot DEF Sketch, Begin, Search, Count, Counted, Locate,
       SeekNext, SeekThis, setResolution, turn, sensors, Valid, NotLocated, WireTypeOK,
       Before, TurnInv, SearchCounts, Arrived, Return
  <2> QED BY <1>1, <1>3, <2>1 DEF Before, TurnInv, RanksPrinted, WaitedFor, ValuesOf
<1> QED BY <1>4, <1>5, <1>6

LEMMA StepTurnInv == Before /\ [Next]_vars => TurnInv'
<1> SUFFICES ASSUME Before, [Next]_vars PROVE TurnInv'
  OBVIOUS
<1>1. CASE Next
  BY <1>1, StepQuiet, StepSearchCounts, StepWaitsEnough, StepAllCounted, StepLocated,
     StepLowered, StepRanksPrinted DEF TurnInv
<1>2. CASE UNCHANGED vars
  <2>1. QuietIsSteady'
    BY <1>2, Zenon DEF Before, TurnInv, QuietIsSteady, vars, turn, wire, ghosts
  <2>2. SearchCounts' /\ WaitsEnough' /\ AllCounted' /\ Located' /\ Lowered' /\ RanksPrinted'
    BY <1>2 DEF Before, TurnInv, SearchCounts, WaitsEnough, AllCounted, Located, Lowered,
       RanksPrinted, WaitedFor, ValuesOf, Calm, Seen, Arrived, UpTo, Enough, vars, turn, sensors, wire, bus,
       search, ghosts
  <2> QED BY <2>1, <2>2 DEF TurnInv
<1> QED BY <1>1, <1>2

LEMMA SketchInvariant == Spec => []Before
<1>1. Init => Before
  BY InitTypeOK, InitInv, OwnInit, InitTurnInv DEF Init, Before
<1>2. Before /\ [Next]_vars => Before'
  BY SketchStepIsWireStep, StepTypeOK, StepInv, OwnStep, StepTurnInv DEF Before
<1> QED BY <1>1, <1>2, PTL DEF Spec

\* At the end of an undisturbed turn every index has been dealt with, which is
\* every device once.
LEMMA AllRanks ==
  ASSUME Before, AtEndOfTurn
  PROVE  /\ IsFiniteSet(attached) /\ j = Cardinality(attached) /\ Ranked(attached, attached)
         /\ \A d \in attached : Rank(attached, d) \in 1 .. j
<1>1. IsFiniteSet(attached)
  BY AttachedFinite DEF Before
<1>2. j = Cardinality(attached) /\ Ranked(attached, attached)
  BY DEF Before, TurnInv, AllCounted, AtEndOfTurn, Calm
<1> QED BY <1>1, <1>2, RankBounds

\* In a turn of loop() that nothing disturbs, every sensor on the bus, however
\* many there are and whatever their addresses, is printed once, with a value of
\* this turn -- unless it is a DS18S20 and the library waits 94 ms only.
THEOREM SketchTurnComplete == Spec => []TurnComplete
<1>1. ASSUME Before, AtEndOfTurn, ~inSetup
      PROVE  /\ Len(printed) = Cardinality(attached)
             /\ {printed[i][1] : i \in 1 .. Len(printed)} = attached
             /\ \A i \in 1 .. Len(printed) : printed[i][2] \in ValuesOf(printed[i][1])
  <2>1. /\ IsFiniteSet(attached) /\ j = Cardinality(attached) /\ Ranked(attached, attached)
        /\ \A d \in attached : Rank(attached, d) \in 1 .. j
    BY <1>1, AllRanks
  <2>2. /\ Len(printed) = j
        /\ \A i \in 1 .. j : \E d \in attached : \E v \in ValuesOf(d) :
             Rank(attached, d) = i /\ printed[i] = <<d, v>>
    BY <1>1 DEF Before, TurnInv, RanksPrinted, AtEndOfTurn, Calm
  <2>3. ASSUME NEW i \in 1 .. j
        PROVE  printed[i][1] \in attached /\ printed[i][2] \in ValuesOf(printed[i][1])
    <3>1. PICK d \in attached : \E v \in ValuesOf(d) : printed[i] = <<d, v>>
      BY <2>2
    <3> QED BY <3>1
  <2>4. ASSUME NEW d \in attached
        PROVE  \E i \in 1 .. j : printed[i][1] = d
    <3>1. PICK c \in attached : \E v \in ValuesOf(c) :
            Rank(attached, c) = Rank(attached, d) /\ printed[Rank(attached, d)] = <<c, v>>
      BY <2>1, <2>2
    <3>2. c = d
      BY <2>1, <3>1, RanksDiffer
    <3> QED BY <2>1, <3>1, <3>2
  <2>5. {printed[i][1] : i \in 1 .. j} = attached
    BY <2>3, <2>4, Zenon
  <2> QED BY <2>1, <2>2, <2>3, <2>5
<1>2. Before => TurnComplete
  BY <1>1 DEF TurnComplete, ValuesOf
<1> QED BY <1>2, SketchInvariant, PTL

\* ... and setup(), when nothing disturbs it, leaves no sensor at 12 bits.
THEOREM SketchSetupComplete == Spec => []SetupComplete
<1>1. ASSUME Before, AtEndOfTurn, inSetup
      PROVE  attached \cap precise = {}
  <2>1. j \in Nat /\ \A d \in attached : Rank(attached, d) \in 1 .. j
    BY <1>1, AllRanks DEF Before, Own, Counters
  <2>2. \A d \in attached : Rank(attached, d) <= j
    BY <2>1
  <2> QED BY <1>1, <2>2 DEF Before, TurnInv, Lowered, AtEndOfTurn, Calm
<1>2. Before => SetupComplete
  BY <1>1 DEF SetupComplete
<1> QED BY <1>2, SketchInvariant, PTL
=============================================================================
