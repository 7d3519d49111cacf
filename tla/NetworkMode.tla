---------------------------- MODULE NetworkMode ----------------------------
(***************************************************************************)
(* The configuration files and those who write them: net_toggle and        *)
(* net_defaults, which the reset button starts (a press of 2 to 5 s, of 10 *)
(* to 30 s); S39servalmesh-config, which runs at every boot; and after it  *)
(* dragino.init, whose first run gives the router its identity.  The power *)
(* may be lost at any moment.                                              *)
(*                                                                         *)
(* Six options in three files tell ethernet from wifi mode.  An option has *)
(* the value that net_toggle gives it for a mode, another one that comes   *)
(* from the ROM, or it is gone with its file, which a power loss between   *)
(* truncation and write leaves empty (each file is one write).  firstboot  *)
(* stands for what load_config sets in the system file: "set" is 0, with   *)
(* key, device and hostname.  What uci set changes is in /tmp until uci    *)
(* commit writes it, file by file.  A press is handled at a time, after    *)
(* the boot: the next one takes longer than a script.                      *)
(***************************************************************************)
EXTENDS Naturals, Sequences

CONSTANT
  MaxCuts    \* bound: power losses while a script runs

ASSUME ModeAssumption == MaxCuts \in Nat

Files == <<"firewall", "network", "system", "wireless">>
Copied == <<"firewall", "network", "wireless">>
Options == <<"input", "wan", "lan", "disabled", "iface", "mode">>
FileOf == [input |-> "firewall", wan |-> "network", lan |-> "network",
           disabled |-> "wireless", iface |-> "wireless", mode |-> "wireless",
           firstboot |-> "system"]
Option == DOMAIN FileOf
Toggled == Option \ {"firstboot"}

\* input is ACCEPT, as in ethernet mode; wan is ath0, lan eth0, and disabled 0,
\* as in wifi mode; the radio is in ad-hoc mode for the mesh, as in neither.
Rom == [input |-> "eth", wan |-> "wifi", lan |-> "wifi",
        disabled |-> "wifi", iface |-> "rom", mode |-> "rom", firstboot |-> "rom"]

VARIABLES
  flash,   \* the files, by option
  mesh,    \* the network file has the mesh section, and as S39 writes it
  delta,   \* what uci set has changed, in /tmp
  script,  \* boot, init, idle, set, commit or copy: what runs
  half,    \* the file it is at is truncated, and what it held in memory
  n,       \* the option or file it is at
  mode,    \* the mode net_toggle goes to, or first: what is set
  cuts     \* power losses so far (bounded)

vars == <<flash, mesh, delta, script, half, n, mode, cuts>>

All(v) == [o \in Option |-> v]

\* A router that has not booted yet.
Init ==
  /\ flash = Rom /\ mesh = FALSE /\ delta = All("none")
  /\ script = "boot" /\ half = FALSE /\ n = 1 /\ mode = "wifi" /\ cuts = 0

Goes(s) == script' = s /\ n' = 1 /\ half' = FALSE
In(f) == {o \in Option : FileOf[o] = f}
Becomes(f, content) == flash' = [o \in Option |-> IF o \in In(f) THEN content[o] ELSE flash[o]]
IsEmpty(f) == \E o \in In(f) : flash[o] = "gone"
\* The file that is open; opening it truncates it.
Open == CASE script = "boot" -> "network" [] script = "copy" -> Copied[n] [] OTHER -> Files[n]
Truncate == ~half /\ half' = TRUE /\ UNCHANGED <<flash, mesh, delta, script, n, mode, cuts>>

----------------------------------------------------------------------------
\* uci get shows what is set and not yet committed, too.
Shown(o) == IF delta[o] = "none" THEN flash[o] ELSE delta[o]

\* The sections in the system file that say what a press starts.
Button == script = "idle" /\ ~IsEmpty("system")

\* A short press.  An empty network file has no wan: nothing is toggled.
net_toggle ==
  /\ Button
  /\ Shown("wan") \in {"wifi", "eth"}
  /\ mode' = IF Shown("wan") = "eth" THEN "wifi" ELSE "eth"
  /\ Goes("set")
  /\ UNCHANGED <<flash, mesh, delta, cuts>>

\* uci set fails when the section is not there, and records no change when the
\* option has the value already.
SetInVain(o) == flash[o] = "gone" \/ Shown(o) = mode

\* Mutant: the last option is forgotten.
SetAllButLast ==
  /\ script = "set"
  /\ delta' = IF SetInVain(Options[n]) THEN delta ELSE [delta EXCEPT ![Options[n]] = mode]
  /\ IF n < Len(Options) - 1 THEN n' = n + 1 /\ UNCHANGED <<script, half>> ELSE Goes("commit")
  /\ UNCHANGED <<flash, mesh, mode, cuts>>

\* Mutant: one option too many.
SetOneMore ==
  /\ script = "set"
  /\ delta' = IF SetInVain(Options[n]) THEN delta ELSE [delta EXCEPT ![Options[n]] = mode]
  /\ IF n <= Len(Options) THEN n' = n + 1 /\ UNCHANGED <<script, half>> ELSE Goes("commit")
  /\ UNCHANGED <<flash, mesh, mode, cuts>>

\* net_toggle does not look whether uci set has set anything.
Set ==
  /\ script = "set"
  /\ delta' = IF SetInVain(Options[n]) THEN delta ELSE [delta EXCEPT ![Options[n]] = mode]
  /\ IF n < Len(Options) THEN n' = n + 1 /\ UNCHANGED <<script, half>> ELSE Goes("commit")
  /\ UNCHANGED <<flash, mesh, mode, cuts>>

NextOf(s) == IF n < Len(s) THEN n' = n + 1 /\ half' = FALSE /\ UNCHANGED script ELSE Goes("idle")

\* uci commit passes a package without changes, and else opens its file.
CommitSkips ==
  /\ script = "commit" /\ ~half
  /\ \A o \in In(Files[n]) : delta[o] = "none"
  /\ NextOf(Files)
  /\ UNCHANGED <<flash, mesh, delta, mode, cuts>>

CommitOpens ==
  /\ script = "commit" /\ \E o \in In(Files[n]) : delta[o] # "none"
  /\ Truncate

\* Mutant: the changes stay in /tmp.
CommitKeepsDelta ==
  /\ script = "commit" /\ half
  /\ Becomes(Files[n], [o \in Option |-> Shown(o)])
  /\ NextOf(Files)
  /\ UNCHANGED <<mesh, delta, mode, cuts>>

\* uci writes every option as 'ipaddr' '28.1.2.3'.
CommitWrites ==
  /\ script = "commit" /\ half
  /\ Becomes(Files[n], [o \in Option |-> Shown(o)])
  /\ delta' = [o \in Option |-> IF o \in In(Files[n]) THEN "none" ELSE delta[o]]
  /\ mesh' = (mesh /\ Files[n] # "network")
  /\ NextOf(Files)
  /\ UNCHANGED <<mode, cuts>>

\* A long press: three files are copied from the ROM.
net_defaults ==
  /\ Button
  /\ Goes("copy")
  /\ UNCHANGED <<flash, mesh, delta, mode, cuts>>

CopyOpens ==
  /\ script = "copy"
  /\ Truncate

CopyWrites ==
  /\ script = "copy" /\ half
  /\ Becomes(Copied[n], Rom)
  /\ mesh' = (mesh /\ Copied[n] # "network")
  /\ NextOf(Copied)
  /\ UNCHANGED <<delta, mode, cuts>>

----------------------------------------------------------------------------
\* S39: a line "option ipaddr 2..." shows that the file has its mesh section.
Recognised == mesh /\ ~IsEmpty("network")

\* Mutant: the file is not looked at.
BootKeepsAny ==
  /\ script = "boot" /\ ~half
  /\ Goes("init")
  /\ UNCHANGED <<flash, mesh, delta, mode, cuts>>

BootKeeps ==
  /\ script = "boot" /\ ~half /\ Recognised
  /\ Goes("init")
  /\ UNCHANGED <<flash, mesh, delta, mode, cuts>>

BootOpens ==
  /\ script = "boot" /\ ~Recognised
  /\ Truncate

\* The file of the ROM, and a mesh section with a new address.
BootWrites ==
  /\ script = "boot" /\ half
  /\ Becomes("network", Rom) /\ mesh' = TRUE
  /\ Goes("init")
  /\ UNCHANGED <<delta, mode, cuts>>

\* Mutant: the flag is not looked at.
InitEver ==
  /\ script = "init" /\ flash["firstboot"] # "gone"
  /\ delta' = [delta EXCEPT !["firstboot"] = "set"] /\ mode' = "first"
  /\ Goes("commit")
  /\ UNCHANGED <<flash, mesh, cuts>>

\* dragino.init: load_config, on the first boot.  What uci get answers without a
\* system file is not 1 either.
InitFirst ==
  /\ script = "init" /\ flash["firstboot"] = "rom"
  /\ delta' = [delta EXCEPT !["firstboot"] = "set"] /\ mode' = "first"
  /\ Goes("commit")
  /\ UNCHANGED <<flash, mesh, cuts>>

InitPasses ==
  /\ script = "init" /\ flash["firstboot"] # "rom"
  /\ Goes("idle")
  /\ UNCHANGED <<flash, mesh, delta, mode, cuts>>

\* The router is switched off and on; /tmp is lost, and what a file was to get.
PowerLoss ==
  /\ script # "idle" => cuts < MaxCuts
  /\ cuts' = IF script = "idle" THEN cuts ELSE cuts + 1
  /\ delta' = All("none")
  /\ IF half THEN Becomes(Open, All("gone")) ELSE UNCHANGED flash
  /\ mesh' = (mesh /\ ~(half /\ Open = "network"))
  /\ Goes("boot")
  /\ UNCHANGED mode

Next ==
  \/ net_toggle \/ Set \/ CommitSkips \/ CommitOpens \/ CommitWrites
  \/ net_defaults \/ CopyOpens \/ CopyWrites
  \/ BootKeeps \/ BootOpens \/ BootWrites
  \/ InitFirst \/ InitPasses \/ PowerLoss

Spec == Init /\ [][Next]_vars

----------------------------------------------------------------------------
TypeOK ==
  /\ flash \in [Option -> {"wifi", "eth", "rom", "set", "gone"}]
  /\ mesh \in BOOLEAN
  /\ delta \in [Option -> {"none", "wifi", "eth", "set"}]
  /\ script \in {"boot", "init", "idle", "set", "commit", "copy"} /\ half \in BOOLEAN
  /\ n \in 1 .. Len(Options) /\ mode \in {"wifi", "eth", "first"} /\ cuts \in 0 .. MaxCuts

Uniform(f, content) == \A o \in In(f) : flash[o] = content[o]

\* No file ever mixes modes, whichever scripts and power losses there were:
\* each is empty, as in the ROM, or of one mode.
FilesWhole ==
  \A i \in 1 .. Len(Files) :
    \/ Uniform(Files[i], Rom)
    \/ \E v \in {"wifi", "eth", "set", "gone"} : Uniform(Files[i], All(v))

\* Whatever the files were before, mixed or not, a net_toggle that comes to its
\* end has brought every file that is not empty to the mode it was to go to,
\* and has left nothing in /tmp for a later commit.
ToggleComplete ==
  [][script = "commit" /\ script' = "idle" /\ mode # "first" =>
       delta' = All("none") /\ \A o \in Toggled : flash'[o] \in {mode, "gone"}]_vars

\* A router that has booted has a network file, whenever the power was lost, and
\* its identity, unless the power was lost while that was being written.
NetworkIsUp == script = "idle" => ~IsEmpty("network") /\ flash["firstboot"] # "rom"

\* The identity, once the router has it, and the button with it, is in no danger
\* any more: no later script, nor a power loss in one, takes the system file.
IdentityKept == [][flash["firstboot"] = "set" => flash'["firstboot"] = "set"]_vars

\* net_toggle toggles between ethernet and wifi mode (button/Makefile), and
\* net_defaults reverts all settings: so between the scripts, if none has been
\* cut off, the three files are of one mode, or all as in the ROM.
ModesAgree ==
  script = "idle" =>
    \/ \A o \in Toggled : flash[o] = Rom[o]
    \/ \E v \in {"wifi", "eth"} : \A o \in Toggled : flash[o] = v
=============================================================================
