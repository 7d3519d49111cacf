-------------------------- MODULE NetworkModeProofs --------------------------
(***************************************************************************)
(* Theorems about NetworkMode: its safety properties, for any number of    *)
(* power losses.                                                           *)
(***************************************************************************)
EXTENDS NetworkMode, TLAPS

LEMMA OptionIs ==
  /\ Option = {"input", "wan", "lan", "disabled", "iface", "mode", "firstboot"}
  /\ Toggled = {"input", "wan", "lan", "disabled", "iface", "mode"}
  BY DEF Option, Toggled, FileOf

LEMMA InIs ==
  /\ In("firewall") = {"input"} /\ In("network") = {"wan", "lan"}
  /\ In("system") = {"firstboot"} /\ In("wireless") = {"disabled", "iface", "mode"}
  BY OptionIs DEF In, FileOf

\* The files are numbered as uci commit takes them.
FileNo == [firewall |-> 1, network |-> 2, system |-> 3, wireless |-> 4]
No(o) == FileNo[FileOf[o]]
\* And the options as net_toggle sets them.
Pos == [input |-> 1, wan |-> 2, lan |-> 3, disabled |-> 4, iface |-> 5, mode |-> 6]

\* What uci set has prepared of an option: nothing, if its section is gone.
Ready(o) == delta[o] = IF flash[o] \in {"gone", mode} THEN "none" ELSE mode

\* While net_toggle sets option after option,
Setting ==
  script = "set" =>
    /\ mode \in {"wifi", "eth"} /\ ~half
    /\ delta["firstboot"] = "none"
    /\ \A o \in Toggled : IF Pos[o] < n THEN Ready(o) ELSE delta[o] = "none"

\* and while uci commit writes file after file.
Committing ==
  script = "commit" =>
    /\ n \in 1 .. 4
    /\ half => \E o \in In(Files[n]) : delta[o] # "none"
    /\ IF mode = "first"
       THEN /\ \A o \in Toggled : delta[o] = "none"
            /\ IF n <= 3 THEN delta["firstboot"] = "set" /\ flash["firstboot"] = "rom"
                         ELSE delta["firstboot"] = "none" /\ flash["firstboot"] = "set"
       ELSE /\ delta["firstboot"] = "none"
            /\ \A o \in Toggled : IF No(o) < n THEN delta[o] = "none" /\ flash[o] \in {mode, "gone"}
                                               ELSE Ready(o)

\* What a power loss may take, and what it may not.
Standing ==
  /\ half => script \in {"boot", "commit", "copy"}
  /\ script = "copy" => n \in 1 .. 3
  /\ script \in {"boot", "init", "idle", "copy"} => \A o \in Option : delta[o] = "none"
  /\ script # "boot" => ~IsEmpty("network")
  /\ (script \in {"idle", "set", "copy"} \/ (script = "commit" /\ mode # "first"))
       => flash["firstboot"] # "rom"

\* FilesWhole, option by option.
Same(f) ==
  /\ f["input"] # "rom"
  /\ f["wan"] = f["lan"] /\ f["wan"] # "rom"
  /\ \/ f["disabled"] = "wifi" /\ f["iface"] = "rom" /\ f["mode"] = "rom"
     \/ f["disabled"] = f["iface"] /\ f["iface"] = f["mode"] /\ f["mode"] # "rom"

Inv == TypeOK /\ Same(flash) /\ Setting /\ Committing /\ Standing

LEMMA WholeIs ==
  ASSUME TypeOK
  PROVE  FilesWhole <=> Same(flash)
<1> DEFINE W(f) == \/ Uniform(f, Rom)
                   \/ \E v \in {"wifi", "eth", "set", "gone"} : Uniform(f, All(v))
<1>1. FilesWhole <=> W("firewall") /\ W("network") /\ W("system") /\ W("wireless")
  BY DEF FilesWhole, Files
<1>2. \A o \in Option : flash[o] \in {"wifi", "eth", "rom", "set", "gone"}
  BY DEF TypeOK
<1>3. \A v : \A o \in Option : All(v)[o] = v
  BY DEF All
<1>4. W("firewall") <=> flash["input"] # "rom"
  BY <1>2, <1>3, InIs, OptionIs DEF Uniform, Rom
<1>5. W("network") <=> flash["wan"] = flash["lan"] /\ flash["wan"] # "rom"
  BY <1>2, <1>3, InIs, OptionIs DEF Uniform, Rom
<1>6. W("system")
  BY <1>2, <1>3, InIs, OptionIs DEF Uniform, Rom
<1>7. W("wireless") <=> \/ flash["disabled"] = "wifi" /\ flash["iface"] = "rom" /\ flash["mode"] = "rom"
                       \/ /\ flash["disabled"] = flash["iface"] /\ flash["iface"] = flash["mode"]
                          /\ flash["mode"] # "rom"
  BY <1>2, <1>3, InIs, OptionIs DEF Uniform, Rom
<1> HIDE DEF W
<1> QED
  BY <1>1, <1>4, <1>5, <1>6, <1>7 DEF Same

----------------------------------------------------------------------------
LEMMA Values ==
  /\ Len(Files) = 4 /\ Len(Copied) = 3 /\ Len(Options) = 6
  /\ Files[1] = "firewall" /\ Files[2] = "network" /\ Files[3] = "system"
  /\ Files[4] = "wireless"
  /\ Copied[1] = "firewall" /\ Copied[2] = "network" /\ Copied[3] = "wireless"
  /\ Options[1] = "input" /\ Options[2] = "wan" /\ Options[3] = "lan"
  /\ Options[4] = "disabled" /\ Options[5] = "iface" /\ Options[6] = "mode"
  BY DEF Files, Copied, Options

LEMMA Numbers ==
  /\ No("input") = 1 /\ No("wan") = 2 /\ No("lan") = 2 /\ No("firstboot") = 3
  /\ No("disabled") = 4 /\ No("iface") = 4 /\ No("mode") = 4
  BY DEF No, FileNo, FileOf

LEMMA Positions ==
  /\ Pos["input"] = 1 /\ Pos["wan"] = 2 /\ Pos["lan"] = 3 /\ Pos["disabled"] = 4
  /\ Pos["iface"] = 5 /\ Pos["mode"] = 6
  BY DEF Pos

LEMMA AllIs == \A v : \A o \in Option : All(v)[o] = v
  BY DEF All

\* TypeOK, without half.
Typed ==
  /\ flash \in [Option -> {"wifi", "eth", "rom", "set", "gone"}]
  /\ mesh \in BOOLEAN
  /\ delta \in [Option -> {"none", "wifi", "eth", "set"}]
  /\ script \in {"boot", "init", "idle", "set", "commit", "copy"}
  /\ n \in 1 .. 6 /\ mode \in {"wifi", "eth", "first"} /\ cuts \in 0 .. MaxCuts

LEMMA TypedIs == (TypeOK <=> half \in BOOLEAN /\ Typed) /\ (TypeOK' <=> half' \in BOOLEAN /\ Typed')
  BY Values, Zenon DEF TypeOK, Typed

LEMMA InitInv == Init => Inv
<1> SUFFICES ASSUME Init PROVE Inv
  OBVIOUS
<1> USE OptionIs, InIs, AllIs, Values, ModeAssumption DEF Init
<1>1. half \in BOOLEAN
  BY Zenon
<1>2. flash \in [Option -> {"wifi", "eth", "rom", "set", "gone"}]
  BY DEF Rom
<1>3. TypeOK
  <2>1. mesh \in BOOLEAN
    BY Zenon
  <2>2. /\ delta \in [Option -> {"none", "wifi", "eth", "set"}]
        /\ script \in {"boot", "init", "idle", "set", "commit", "copy"}
        /\ n \in 1 .. 6 /\ mode \in {"wifi", "eth", "first"} /\ cuts \in 0 .. MaxCuts
    BY DEF All
  <2> QED BY <1>1, <1>2, <2>1, <2>2, TypedIs, Zenon DEF Typed
<1>4. Same(flash)
  BY DEF Same, Rom
<1>5. Setting
  BY DEF Setting
<1>6. Committing
  BY DEF Committing
<1>7. Standing
  BY DEF Standing
<1> QED
  BY <1>3, <1>4, <1>5, <1>6, <1>7 DEF Inv

LEMMA ToggleInv == Inv /\ net_toggle => Inv'
<1> SUFFICES ASSUME Inv, net_toggle PROVE Inv'
  OBVIOUS
<1> USE OptionIs, InIs, AllIs, Values, Positions, Numbers DEF Inv, net_toggle, Button, Goes, Shown
<1>1. half' \in BOOLEAN
  BY Zenon DEF TypeOK
<1>2. Typed'
  BY ModeAssumption DEF Typed, TypeOK, Setting
<1>3. Same(flash)'
  BY DEF Same, Committing, TypeOK, Ready
<1>4. Setting'
  BY DEF Setting, Ready, Standing, TypeOK
<1>5. Committing'
  BY DEF Committing, Setting, Standing, Ready, TypeOK, IsEmpty
<1>6. Standing'
  BY DEF Standing, Setting, Committing, IsEmpty, TypeOK, Ready
<1> QED
  BY <1>1, <1>2, <1>3, <1>4, <1>5, <1>6, TypedIs, Zenon

LEMMA SetInv == Inv /\ Set => Inv'
<1> SUFFICES ASSUME Inv, Set PROVE Inv'
  OBVIOUS
<1> USE OptionIs, InIs, AllIs, Values, Positions, Numbers DEF Inv, Set, SetInVain, Shown, Goes
<1>1. half' \in BOOLEAN
  BY Zenon DEF TypeOK
<1>2. Typed'
  BY ModeAssumption DEF Typed, TypeOK, Setting
<1>3. Same(flash)'
  BY DEF Same, Committing, TypeOK, Ready
<1>4. Setting'
  BY DEF Setting, Ready, Standing, TypeOK
<1>5. Committing'
  BY DEF Committing, Setting, Standing, Ready, TypeOK, IsEmpty
<1>6. Standing'
  BY DEF Standing, Setting, Committing, IsEmpty, TypeOK, Ready
<1> QED
  BY <1>1, <1>2, <1>3, <1>4, <1>5, <1>6, TypedIs, Zenon

LEMMA CommitSkipsInv == Inv /\ CommitSkips => Inv'
<1> SUFFICES ASSUME Inv, CommitSkips PROVE Inv'
  OBVIOUS
<1> USE OptionIs, InIs, AllIs, Values, Positions, Numbers DEF Inv, CommitSkips, NextOf, Goes
<1>1. half' \in BOOLEAN
  BY Zenon DEF TypeOK
<1>2. Typed'
  BY ModeAssumption DEF Typed, TypeOK, Setting
<1>3. Same(flash)'
  BY DEF Same, Committing, TypeOK, Ready
<1>4. Setting'
  BY DEF Setting, Ready, Standing, TypeOK
<1>5. Committing'
  BY DEF Committing, Setting, Standing, Ready, TypeOK, IsEmpty
<1>6. Standing'
  BY DEF Standing, Setting, Committing, IsEmpty, TypeOK, Ready
<1> QED
  BY <1>1, <1>2, <1>3, <1>4, <1>5, <1>6, TypedIs, Zenon

LEMMA CommitOpensInv == Inv /\ CommitOpens => Inv'
<1> SUFFICES ASSUME Inv, CommitOpens PROVE Inv'
  OBVIOUS
<1> USE OptionIs, InIs, AllIs, Values, Positions, Numbers DEF Inv, CommitOpens, Truncate
<1>1. half' \in BOOLEAN
  BY Zenon DEF TypeOK
<1>2. Typed'
  BY ModeAssumption DEF Typed, TypeOK, Setting
<1>3. Same(flash)'
  BY DEF Same, Committing, TypeOK, Ready
<1>4. Setting'
  BY DEF Setting, Ready, Standing, TypeOK
<1>5. Committing'
  BY DEF Committing, Setting, Standing, Ready, TypeOK, IsEmpty
<1>6. Standing'
  BY DEF Standing, Setting, Committing, IsEmpty, TypeOK, Ready
<1> QED
  BY <1>1, <1>2, <1>3, <1>4, <1>5, <1>6, TypedIs, Zenon

LEMMA CommitWritesInv == Inv /\ CommitWrites => Inv'
<1> SUFFICES ASSUME Inv, CommitWrites PROVE Inv'
  OBVIOUS
<1> USE OptionIs, InIs, AllIs, Values, Positions, Numbers DEF Inv, CommitWrites, Becomes, Shown, NextOf, Goes
<1>1. half' \in BOOLEAN
  BY Zenon DEF TypeOK
<1>2. Typed'
  BY ModeAssumption DEF Typed, TypeOK, Setting
<1>3. Same(flash)'
  BY DEF Same, Committing, TypeOK, Ready
<1>4. Setting'
  BY DEF Setting, Ready, Standing, TypeOK
<1>5. Committing'
  BY DEF Committing, Setting, Standing, Ready, TypeOK, IsEmpty
<1>6. Standing'
  <2>1. half' = FALSE /\ script' \in {"commit", "idle"}
    OBVIOUS
  <2>2. script' = "idle" => n = 4
    BY DEF Committing
  <2>3. script' = "idle" => \A o \in Option : delta'[o] = "none"
    BY <2>2 DEF Committing
  <2>4. ~IsEmpty("network")'
    BY DEF IsEmpty, Standing, TypeOK
  <2>5. (script' = "idle" \/ mode # "first") => flash'["firstboot"] # "rom"
    BY <2>2, <1>2, <1>5 DEF Standing, Committing, TypeOK, Typed
  <2> QED
    BY <2>1, <2>3, <2>4, <2>5, Zenon DEF Standing
<1> QED
  BY <1>1, <1>2, <1>3, <1>4, <1>5, <1>6, TypedIs, Zenon

LEMMA DefaultsInv == Inv /\ net_defaults => Inv'
<1> SUFFICES ASSUME Inv, net_defaults PROVE Inv'
  OBVIOUS
<1> USE OptionIs, InIs, AllIs, Values, Positions, Numbers DEF Inv, net_defaults, Button, Goes
<1>1. half' \in BOOLEAN
  BY Zenon DEF TypeOK
<1>2. Typed'
  BY ModeAssumption DEF Typed, TypeOK, Setting
<1>3. Same(flash)'
  BY DEF Same, Committing, TypeOK, Ready
<1>4. Setting'
  BY DEF Setting, Ready, Standing, TypeOK
<1>5. Committing'
  BY DEF Committing, Setting, Standing, Ready, TypeOK, IsEmpty
<1>6. Standing'
  BY DEF Standing, Setting, Committing, IsEmpty, TypeOK, Ready
<1> QED
  BY <1>1, <1>2, <1>3, <1>4, <1>5, <1>6, TypedIs, Zenon

LEMMA CopyOpensInv == Inv /\ CopyOpens => Inv'
<1> SUFFICES ASSUME Inv, CopyOpens PROVE Inv'
  OBVIOUS
<1> USE OptionIs, InIs, AllIs, Values, Positions, Numbers DEF Inv, CopyOpens, Truncate
<1>1. half' \in BOOLEAN
  BY Zenon DEF TypeOK
<1>2. Typed'
  BY ModeAssumption DEF Typed, TypeOK, Setting
<1>3. Same(flash)'
  BY DEF Same, Committing, TypeOK, Ready
<1>4. Setting'
  BY DEF Setting, Ready, Standing, TypeOK
<1>5. Committing'
  BY DEF Committing, Setting, Standing, Ready, TypeOK, IsEmpty
<1>6. Standing'
  BY DEF Standing, Setting, Committing, IsEmpty, TypeOK, Ready
<1> QED
  BY <1>1, <1>2, <1>3, <1>4, <1>5, <1>6, TypedIs, Zenon

LEMMA CopyWritesInv == Inv /\ CopyWrites => Inv'
<1> SUFFICES ASSUME Inv, CopyWrites PROVE Inv'
  OBVIOUS
<1> USE OptionIs, InIs, AllIs, Values, Positions, Numbers DEF Inv, CopyWrites, Becomes, NextOf, Goes, Rom
<1>1. half' \in BOOLEAN
  BY Zenon DEF TypeOK
<1>2. Typed'
  BY ModeAssumption DEF Typed, TypeOK, Setting
<1>3. Same(flash)'
  <2>1. PICK f \in {"firewall", "network", "wireless"} : Copied[n] = f
    BY DEF Standing
  <2>2. \A o \in Option : flash'[o] = IF o \in In(f) THEN Rom[o] ELSE flash[o]
    BY <2>1
  <2> QED
    BY <2>2 DEF Same
<1>4. Setting'
  BY DEF Setting, Ready, Standing, TypeOK
<1>5. Committing'
  BY DEF Committing, Setting, Standing, Ready, TypeOK, IsEmpty
<1>6. Standing'
  BY DEF Standing, Setting, Committing, IsEmpty, TypeOK, Ready
<1> QED
  BY <1>1, <1>2, <1>3, <1>4, <1>5, <1>6, TypedIs, Zenon

LEMMA BootKeepsInv == Inv /\ BootKeeps => Inv'
<1> SUFFICES ASSUME Inv, BootKeeps PROVE Inv'
  OBVIOUS
<1> USE OptionIs, InIs, AllIs, Values, Positions, Numbers DEF Inv, BootKeeps, Recognised, Goes
<1>1. half' \in BOOLEAN
  BY Zenon DEF TypeOK
<1>2. Typed'
  BY ModeAssumption DEF Typed, TypeOK, Setting
<1>3. Same(flash)'
  BY DEF Same, Committing, TypeOK, Ready
<1>4. Setting'
  BY DEF Setting, Ready, Standing, TypeOK
<1>5. Committing'
  BY DEF Committing, Setting, Standing, Ready, TypeOK, IsEmpty
<1>6. Standing'
  BY DEF Standing, Setting, Committing, IsEmpty, TypeOK, Ready
<1> QED
  BY <1>1, <1>2, <1>3, <1>4, <1>5, <1>6, TypedIs, Zenon

LEMMA BootOpensInv == Inv /\ BootOpens => Inv'
<1> SUFFICES ASSUME Inv, BootOpens PROVE Inv'
  OBVIOUS
<1> USE OptionIs, InIs, AllIs, Values, Positions, Numbers DEF Inv, BootOpens, Truncate
<1>1. half' \in BOOLEAN
  BY Zenon DEF TypeOK
<1>2. Typed'
  BY ModeAssumption DEF Typed, TypeOK, Setting
<1>3. Same(flash)'
  BY DEF Same, Committing, TypeOK, Ready
<1>4. Setting'
  BY DEF Setting, Ready, Standing, TypeOK
<1>5. Committing'
  BY DEF Committing, Setting, Standing, Ready, TypeOK, IsEmpty
<1>6. Standing'
  BY DEF Standing, Setting, Committing, IsEmpty, TypeOK, Ready
<1> QED
  BY <1>1, <1>2, <1>3, <1>4, <1>5, <1>6, TypedIs, Zenon

LEMMA BootWritesInv == Inv /\ BootWrites => Inv'
<1> SUFFICES ASSUME Inv, BootWrites PROVE Inv'
  OBVIOUS
<1> USE OptionIs, InIs, AllIs, Values, Positions, Numbers DEF Inv, BootWrites, Becomes, Goes, Rom
<1>1. half' \in BOOLEAN
  BY Zenon DEF TypeOK
<1>2. Typed'
  BY ModeAssumption DEF Typed, TypeOK, Setting
<1>3. Same(flash)'
  BY DEF Same, Committing, TypeOK, Ready
<1>4. Setting'
  BY DEF Setting, Ready, Standing, TypeOK
<1>5. Committing'
  BY DEF Committing, Setting, Standing, Ready, TypeOK, IsEmpty
<1>6. Standing'
  BY DEF Standing, Setting, Committing, IsEmpty, TypeOK, Ready
<1> QED
  BY <1>1, <1>2, <1>3, <1>4, <1>5, <1>6, TypedIs, Zenon

LEMMA InitFirstInv == Inv /\ InitFirst => Inv'
<1> SUFFICES ASSUME Inv, InitFirst PROVE Inv'
  OBVIOUS
<1> USE OptionIs, InIs, AllIs, Values, Positions, Numbers DEF Inv, InitFirst, Goes
<1>1. half' \in BOOLEAN
  BY Zenon DEF TypeOK
<1>2. Typed'
  BY ModeAssumption DEF Typed, TypeOK, Setting
<1>3. Same(flash)'
  BY DEF Same, Committing, TypeOK, Ready
<1>4. Setting'
  BY DEF Setting, Ready, Standing, TypeOK
<1>5. Committing'
  BY DEF Committing, Setting, Standing, Ready, TypeOK, IsEmpty
<1>6. Standing'
  BY DEF Standing, Setting, Committing, IsEmpty, TypeOK, Ready
<1> QED
  BY <1>1, <1>2, <1>3, <1>4, <1>5, <1>6, TypedIs, Zenon

LEMMA InitPassesInv == Inv /\ InitPasses => Inv'
<1> SUFFICES ASSUME Inv, InitPasses PROVE Inv'
  OBVIOUS
<1> USE OptionIs, InIs, AllIs, Values, Positions, Numbers DEF Inv, InitPasses, Goes
<1>1. half' \in BOOLEAN
  BY Zenon DEF TypeOK
<1>2. Typed'
  BY ModeAssumption DEF Typed, TypeOK, Setting
<1>3. Same(flash)'
  BY DEF Same, Committing, TypeOK, Ready
<1>4. Setting'
  BY DEF Setting, Ready, Standing, TypeOK
<1>5. Committing'
  BY DEF Committing, Setting, Standing, Ready, TypeOK, IsEmpty
<1>6. Standing'
  BY DEF Standing, Setting, Committing, IsEmpty, TypeOK, Ready
<1> QED
  BY <1>1, <1>2, <1>3, <1>4, <1>5, <1>6, TypedIs, Zenon

LEMMA PowerLossInv == Inv /\ PowerLoss => Inv'
<1> SUFFICES ASSUME Inv, PowerLoss PROVE Inv'
  OBVIOUS
<1> USE OptionIs, InIs, AllIs, Values, Positions, Numbers DEF Inv, PowerLoss, Becomes, Goes
<1>1. half' \in BOOLEAN
  BY Zenon DEF TypeOK
<1>2. Typed'
  BY ModeAssumption DEF Typed, TypeOK, All
<1>3. Same(flash)'
  <2>1. CASE ~half
    BY <2>1, Zenon DEF Same
  <2>2. CASE half
    <3>1. PICK f \in {"firewall", "network", "system", "wireless"} : Open = f
      BY <2>2 DEF Open, Standing, Committing
    <3>2. \A o \in Option : flash'[o] = IF o \in In(f) THEN "gone" ELSE flash[o]
      BY <2>2, <3>1
    <3> QED
      BY <3>2 DEF Same
  <2> QED
    BY <2>1, <2>2
<1>4. Setting'
  BY DEF Setting, Ready, Standing, TypeOK
<1>5. Committing'
  BY DEF Committing, Setting, Standing, Ready, TypeOK, IsEmpty
<1>6. Standing'
  BY DEF Standing, Setting, Committing, IsEmpty, TypeOK, Ready
<1> QED
  BY <1>1, <1>2, <1>3, <1>4, <1>5, <1>6, TypedIs, Zenon

LEMMA StepInv == Inv /\ [Next]_vars => Inv'
<1> SUFFICES ASSUME Inv, [Next]_vars PROVE Inv'
  OBVIOUS
<1>1. CASE UNCHANGED vars
  BY <1>1, Zenon DEF vars, Inv, TypeOK, Setting, Committing, Standing, Ready, IsEmpty
<1> QED
  BY <1>1, ToggleInv, SetInv, CommitSkipsInv, CommitOpensInv, CommitWritesInv, DefaultsInv,
     CopyOpensInv, CopyWritesInv, BootKeepsInv, BootOpensInv, BootWritesInv, InitFirstInv,
     InitPassesInv, PowerLossInv, Zenon DEF Next

THEOREM SpecInv == Spec => []Inv
  BY InitInv, StepInv, PTL DEF Spec

----------------------------------------------------------------------------
\* The variables stay in their sets, however often the power is lost.
THEOREM TypeCorrect == Spec => []TypeOK
<1>1. Inv => TypeOK
  BY DEF Inv
<1> QED
  BY <1>1, SpecInv, PTL

\* No configuration file ever mixes modes: whatever net_toggle, net_defaults, S39
\* and dragino.init were at when the power went, each file is empty, as in the
\* ROM, or of one mode.
THEOREM FilesStayWhole == Spec => []FilesWhole
<1>1. Inv => FilesWhole
  BY WholeIs, Zenon DEF Inv
<1> QED
  BY <1>1, SpecInv, PTL

\* Whenever the router has booted it has a network file, and its first boot is
\* behind it: S39 and dragino.init repair what a power loss has taken.
THEOREM NetworkStaysUp == Spec => []NetworkIsUp
<1>1. Inv => NetworkIsUp
  BY DEF Inv, Standing, NetworkIsUp
<1> QED
  BY <1>1, SpecInv, PTL

\* No script truncates the system file again once it holds the identity, so that
\* no power loss can take it: uci commit passes the file in every later toggle.
THEOREM IdentityIsKept == Spec => IdentityKept
<1>1. Inv /\ [Next]_vars => (flash["firstboot"] = "set" => flash'["firstboot"] = "set")
  <2> SUFFICES ASSUME Inv, [Next]_vars, flash["firstboot"] = "set"
               PROVE  flash'["firstboot"] = "set"
    OBVIOUS
  <2> USE OptionIs, InIs, Values DEF Inv
  <2>1. ASSUME CommitWrites PROVE flash'["firstboot"] = "set"
    <3>1. n # 3
      BY <2>1 DEF CommitWrites, Committing
    <3>2. PICK f \in {"firewall", "network", "wireless"} : Files[n] = f
      BY <2>1, <3>1 DEF CommitWrites, Committing
    <3> QED
      BY <2>1, <3>2 DEF CommitWrites, Becomes
  <2>2. ASSUME CopyWrites PROVE flash'["firstboot"] = "set"
    <3>1. PICK f \in {"firewall", "network", "wireless"} : Copied[n] = f
      BY <2>2 DEF CopyWrites, Standing
    <3> QED
      BY <2>2, <3>1 DEF CopyWrites, Becomes
  <2>3. ASSUME BootWrites PROVE flash'["firstboot"] = "set"
    BY <2>3 DEF BootWrites, Becomes
  <2>4. ASSUME PowerLoss PROVE flash'["firstboot"] = "set"
    <3>1. CASE ~half
      BY <2>4, <3>1 DEF PowerLoss
    <3>2. CASE half
      <4>1. script = "commit" => n # 3
        BY <3>2 DEF Committing
      <4>2. PICK f \in {"firewall", "network", "wireless"} : Open = f
        BY <3>2, <4>1 DEF Open, Standing, Committing
      <4> QED
        BY <2>4, <3>2, <4>2 DEF PowerLoss, Becomes
    <3> QED
      BY <3>1, <3>2
  <2>5. CASE UNCHANGED flash
    BY <2>5
  <2>6. \/ CommitWrites \/ CopyWrites \/ BootWrites \/ PowerLoss \/ UNCHANGED flash
    BY Zenon DEF Next, vars, net_toggle, Set, CommitSkips, CommitOpens, net_defaults, CopyOpens,
                 BootKeeps, BootOpens, InitFirst, InitPasses, Truncate
  <2> QED
    BY <2>1, <2>2, <2>3, <2>4, <2>5, <2>6
<1>2. Inv /\ [Next]_vars => [flash["firstboot"] = "set" => flash'["firstboot"] = "set"]_vars
  BY <1>1
<1> QED
  BY <1>2, SpecInv, PTL DEF Spec, IdentityKept

\* A toggle that comes to its end is complete, whatever it started from: every
\* file is of the mode it goes to, or empty, and nothing is left uncommitted.
THEOREM ToggleCompletes == Spec => ToggleComplete
<1> DEFINE Done == script = "commit" /\ script' = "idle" /\ mode # "first" =>
                     delta' = All("none") /\ \A o \in Toggled : flash'[o] \in {mode, "gone"}
<1>1. Inv /\ [Next]_vars => Done
  <2> SUFFICES ASSUME Inv, [Next]_vars, script = "commit", script' = "idle", mode # "first"
               PROVE  delta' = All("none") /\ \A o \in Toggled : flash'[o] \in {mode, "gone"}
    OBVIOUS
  <2> USE OptionIs, InIs, Values, Numbers DEF Inv
  <2>1. CommitSkips \/ CommitWrites
    BY DEF Next, vars, net_toggle, Set, CommitOpens, net_defaults, CopyOpens, CopyWrites,
           BootKeeps, BootOpens, BootWrites, InitFirst, InitPasses, PowerLoss, Truncate,
           Button, Goes
  <2>2. n = 4
    BY <2>1 DEF CommitSkips, CommitWrites, NextOf, Committing
  <2>3. Inv'
    BY StepInv, Zenon
  <2>4. delta' = All("none")
    BY <2>3 DEF Standing, All, TypeOK
  <2>5. \A o \in Toggled : flash'[o] \in {mode, "gone"}
    <3>1. CASE CommitSkips
      BY <2>2, <3>1 DEF CommitSkips, Committing, Ready, TypeOK
    <3>2. CASE CommitWrites
      BY <2>2, <3>2 DEF CommitWrites, Becomes, Shown, Committing, Ready
    <3> QED
      BY <2>1, <3>1, <3>2
  <2> QED
    BY <2>4, <2>5
<1>2. Inv /\ [Next]_vars => [Done]_vars
  BY <1>1
<1> QED
  BY <1>2, SpecInv, PTL DEF Spec, ToggleComplete
=============================================================================
