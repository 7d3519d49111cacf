# Dragino: specifications, model checking and proofs

Dragino (MS12) is a small OpenWrt router for sensor shields. This repository
holds what the Dragino project adds to OpenWrt: a supervisor for daemons
written in Lua (`luad`), the sensor daemon (`IoTd.lua`), the SPI link to the
AVR of a shield (a Lua library, a patch of the kernel's bitbang driver and the
sketch on the AVR), the AVR programming tool, a temperature sketch with its one-wire
libraries, scripts that configure the network, and a copy of the LuCI web
interface with much else that is vendored. The modules here model the program's
own core: the way a reading takes from a sensor to the server, the processes
that keep that way open, and the scripts that decide whether the router can be
reached.

Paths below are relative to the repository; `dragino/` stands for
`openwrt/package/dragino/`, `avr/` for `examples/Dragrove_SPI_Test/avr/` and
`MT-DS/` for `examples/MT-DS/avr/`.

## 1. The system

    shield (AVR)                          router (Linux)
    +-----------------------+   SPI     +------------------------------------+
    | SPI handler  <------> | <=======> | spidev + bitbang patch <- spid.lua |
    |   rx/tx buffer        |           |            ^ CommandToMCU  ^       |
    | main loop, ctrlDecode |           |          LuCI page     SPI_Test    |
    |   NewSoftSerial ----- | --UART--> | tty -> IoTd.lua -> curl, record    |
    +-----------------------+           |          ^ run again               |
           ^ avrdude (fdude.lua)        |        luad  <- dragino.init       |
                                        +------------------------------------+

| Component | State | Operations | Hard behaviour |
|---|---|---|---|
| byte buffer, `avr/buffer/buffer.c` | array, `dataindex`, `datalength` | add, get, dump, peek, flush, room | wrap-around, full against empty, 16-bit sums; calls from handler and main loop |
| AVR side of the link, `avr/Dragrove_SPI_TEST.pde/.h` | `spi_status`, two buffers, SPDR | SPI interrupt, `ctrlDecode` | handler and main loop interleave at every buffer call; an uninitialised register |
| host side, `dragino/luasrc/dragino/spid.lua`, `openwrt/patches/420-*.patch` | message, bytes read, retries | write, read, retry | the shield answers at its own pace; callers die between write and read |
| `fdude.lua` | a lock on spidev | avrdude | resets the AVR under the host |
| `IoTd.lua` | datastreams, `old_time`, record file | read a line, report | report interval, commands that fail, uploads that outlive the daemon, crashes, NTP |
| `luad.c`, supervisor | ring of restart times | run, count, give up | wall clock without a battery, set by NTP |
| `luad.c`, start and stop | pid file, runtime directory, pipe to the parent | start, `-k`, SIGTERM | races between processes; any step fails |
| `NewSoftSerial` | receive ring, active object | pin interrupt, read, write | handler and main loop share the ring; write blocks interrupts |
| one-wire search, `MT-DS/libraries/OneWire/OneWire.cpp` | ROM_NO, LastDiscrepancy, LastDeviceFlag | `reset_search`, `search` | one position stands for all choices made; sensors come and go between two bits |
| temperature sketch and `DallasTemperature.cpp` | device count, index, resolution | count, convert, find the j-th, print | the j-th of a later search need not be the j-th of the count |
| configuration, `net_toggle`, `net_defaults`, `S39servalmesh-config`, `dragino.init` | four uci files, the changes in /tmp | toggle, defaults, boot, first boot | power loss inside a commit; two writers of one file |
| DDNS, `dynamic_dns_updater.sh` | pid file, update file, what is believed registered | start, kill, look up, update, sleep | an updater killed while its request is under way; stale lookups; failures taken for success |
| NTP, LuCI sessions | clock, session files | scripts and CGI processes | the clock is set under everybody else |

How they interact: `luad` runs `IoTd.lua` inside its own process and runs it
again whenever it ends; `IoTd` reads what the shield prints on its software
UART; LuCI and the test script call `CommandToMCU`, one process at a time
because of the lock on spidev; `avrdude` takes the same lock. The temperature
sketch is another shield: what it prints is what `IoTd` reads. NTP sets the
clock that `luad` and `IoTd` read. An ifup starts the DDNS updater; the button's
scripts and the boot script write the same network file, and end in an ifup.

What makes each component correct:

- buffer: it is a bounded queue, whatever its index (`IsFifo`);
- SPI link: an answer is whole, belongs to the command, and comes
  (`AnswerComplete`, `AnswerWhole`, `OneCommandPerAnswer`, `CallReturns`);
- supervisor: it gives up on a burst of restarts, only then, and always then
  (`GivesUpOnlyOnBurst`, `BurstEndsLoop`, `CrashLoopStops`);
- start and stop: the exit code is true, a daemon that runs can be found and
  stopped (`CodeIsTrue`, `RunningIsNamed`, `StopLeavesNone`);
- IoTd: a daemon reports no reading twice or after a newer one, none is
  forgotten, the server's interval is kept, and the record file is continuous
  (`UploadsGetNewer`, `NewestReadingKept`, `RateLimited`, `RecordsInOrder`);
- one-wire search: a search of a bus that does not change reports each device
  once, and all of them (`NextIsNew`, `AllFound`);
- sketch: an undisturbed turn prints every sensor once with a value of this
  turn, and turns go on however the bus changes (`TurnComplete`,
  `SetupComplete`, `TurnsEnd`);
- network configuration: no file mixes modes, a toggle that ends has set them
  all, a booted router has interfaces, and keeps its identity (`FilesWhole`,
  `ToggleComplete`, `NetworkIsUp`, `IdentityKept`);
- DDNS: one updater at a time, which knows what is registered, and in the end
  the record is the address (`OneUpdater`, `KnowsRecord`, `Converges`).

`PROJECT.json` lists every component, the modelled and the others, every
hazard at its line, and for every definition the lines it stands for.

## 2. The modules

| Module | Models | State and actions |
|---|---|---|
| `Buffers` | contents of a buffer | pure operators on sequences |
| `BoundedFifo` | what `buffer.h` promises | the abstract specification: a queue and the value returned |
| `ByteBuffer` | `buffer.c` | one variable per field, one action per function; instantiates `BoundedFifo` |
| `OneWire` | `OneWire.cpp`, the search | below |
| `TempSketch` | the sketch of MT-DS and `DallasTemperature.cpp` | extends `OneWire`; below |
| `NetworkMode` | the button's scripts, the mesh address at boot | below |
| `DynamicDns` | `dynamic_dns_updater.sh` and what starts it | below |
| `SpiLink` | spid.lua, patch 420, the sketch | below |
| `LuadSupervisor` | `restart_*` and the loop of `main` | below |
| `LuadDaemon` | the rest of `main`, `-k`, init script `stop` | below |
| `IoTd` | `IoTd.lua` | below |
| `ByteBufferProofs`, `SpiLinkProofs`, `LuadSupervisorProofs`, `LuadDaemonProofs`, `IoTdProofs`, `TempSketchProofs`, `NetworkModeProofs`, `DynamicDnsProofs` | | the theorems about these modules; those about `OneWire` are in `TempSketchProofs` |
| `MC*` | | constants for TLC |

Operators marked "Mutant" are plausible mistakes in the definition that
follows them. No specification uses them; put in its place, each makes TLC
report a violation of one property, which shows that the property depends on
the code.

**ByteBuffer.** Every function runs between `cli` and the restore of SREG, so
each is one step. Additions are taken modulo `WordSize` (2^16), as in the code.

**SpiLink.** Three processes. The *host* (`host`, `outgoing`, `incoming`,
`reads`) writes the message and `.` and two 0x00, then reads up to a 0x00 and
drops one more byte, and retries an empty read. The *handler* answers each
exchange with the byte it has put into SPDR. The *main loop* (`avr`) decodes,
one buffer call a step, so the handler runs between any two. `noOp`,
`transmit`, `newMsg` are the bits of `spi_status`; at reset they are
arbitrary, because r7 is never written. `masked` and `pending` are the time in
which NewSoftSerial prints with interrupts off. Bytes carry the number of
their call so that a stale one can be told; the number is not on the wire.
Messages have at least two letters, like every message the callers pass; which
letters (`Letters`) is data, the four classes of `Answer` are the control. A
message that begins with "gd" (`Prints`) adds nothing but the blank and prints to
the UART; when the printing keeps the handler from the 0x00, the caller reads the
blank. `AnswerComplete` speaks of the other messages, and of calls that begin
when the main loop is not printing any more: the printing takes some 22 ms, a call
a few. A call in that time may lose letters to the flush after the
printing (pde:145), or its `.` to the reset of `SPI_NEW_CTRL_MSG` (pde:207).
`AnswerWhole` says what it gets all the same: a whole answer, to letters of its
own or to an invalid command, or nothing. The ghosts `ended` and `settled` hold, for
the call in hand, whether the one before returned, and whether the printing was
over as well when this one began.
`RoomAssumption` states the sizes of the code: a command and the one letter that
selects in it fit the 32 bytes of the Rx buffer, an answer and its blank the 255
of the Tx buffer, and these the 1024 that are read at once.

*Pace.* The byte delay of 250 us is what synchronises the link: `Exchange`
waits until the busy main loop has made `Pace` buffer calls. A call takes the
AVR some 15 to 20 us, so about a dozen fit. TLC finds the least pace at which
answers are right: `Pace = 3` holds, `Pace = 2` violates `AnswerComplete`.

**LuadSupervisor.** `uptime` is the true time, `clock` what the wall clock is
ahead of it; `SetClock` changes it at any moment. `recent` remembers the true
times of the last restarts, against which the count of the code is judged.
`total` starts at any value of `Residues`, since `restart_max` never sets it.
The properties of the passing run assume what the code needs (`Sound`): `total`
began at 0, and the times in the ring belong to the clock that is read. The
violation run drops the first half and finds the premature stop; what happens
without the second is listed as a hazard.

**LuadDaemon.** `parent[p]` and `child[p]` are where the two processes of a
start are in `main`; `sent[p]` is the first value in the pipe. With
`MayFail` every system call of the setup may fail; with `MaySlow` each wait
may run out. `Apart` says when an invocation may begin: at any time (`"any"`),
when the others have returned to their callers (`"returned"`), or when, besides,
every child runs as a daemon or is gone (`"ended"`). A return is not the end of
a child: it sends its value before it removes the pid file. Nothing in the code
enforces `"ended"`; it is what a caller has to keep to (the init script at boot,
or an operator who leaves a failed start a moment). libdaemon is external: the
head of the module lists what its calls are taken to do.

**IoTd.** A line is its number and the sensors it has values for, so that a
value tells its reading. Each step up to a system call is an action: the read,
the decision, the upload, the rotation, the append, the end. `Crash` may come
between any two, and `Restart` is luad running the script again with whatever
configuration there is then. Nobody looks at what `os.execute` returns: an upload, the
mv to .bak and the echo of a record may each fail (`Upload`, `MvFails`,
`AppendFails`), and a failed echo may have written a part. Sizes are in bytes and
tested before the record is added, so the file passes its size. curl is a process
of its own: when the daemon is killed in an upload it may go on (`orphans`), deliver
at any later time or not at all (`OrphanEnds`), and until then it holds the tty open,
which it has inherited. The record file survives; when the last
process that has the tty ends, what the kernel held is lost, and lines that come
while nobody has it or while it is full are dropped. mv and echo are taken to be
over before a new daemon has something to record, an update interval later; that
/var/log is emptied by a reboot is not modelled. The ghosts tell what became of a
reading: `reported`, `lost` (a crash, a failed command, a full or closed tty), or
`dropped` (too early, in transparent mode). `MCConfigs` are the configurations
whose control differs: upload and record, a server without a command, forwarding
to the server only, and the shipped one, which forwards to the record only.
`SetClock` is NTP: `now` is what `os.time()` returns, and each upload keeps how
often the clock had been set.

**OneWire.** A call of `search` takes one step for the presence pulse, one per
bit and one for the end, so the bus may change between any two bits. The wire is
the conjunction of what the listening devices let go of: `IdBit` and
`ComplementBit`. `Take` writes a bit, and whoever has the other one drops out.
`found` and `steady` are ghosts: what was found since the search began anew, and
whether the bus has changed since `reset_search`. An address is a function from
positions to bits; 64 bits and a family code of 8 are the constants `Width` and
`Family`. The model keeps the early return without a presence pulse, which does
not copy ROM_NO, apart from the end of a search, which does (`result`).

**TempSketch.** `setup()` and `loop()` for one bus, as callers of `OneWire`: each
conjoins its own variables with the search's action. `getAddress` returns FALSE
when there are fewer devices than `begin()` has counted; `loop()` does not look
at the result and prints whatever the shared `tempDeviceAddress[j]` holds.
`precise` are the sensors at 12 bits, `fresh` those whose scratchpad has a value
of this turn. A 12-bit sensor needs `bitResolution` to be 12, and so does one of
`DS18S20`, which the library takes for 9 bits without reading it and never sets; a
conversion of these may also be over early (`MayConvert`). A sensor that is pulled
comes back as it was delivered, because COPYSCRATCH is sent without a select
(`DallasTemperature.cpp:180-182`). `quiet` is a ghost, for properties of a turn in
which nothing was plugged in or pulled.

**NetworkMode.** Six options in three files tell the modes apart. A file is
opened, which truncates it, and then written; a power loss between leaves it
empty (`"gone"`). `delta` is what `uci set` has put into /tmp. uci is modelled from
version 0.7.3, which the repository has in `openwrt/package/luci/contrib/uci`; the
router's own comes with OpenWrt backfire (`openwrt/install.sh:26`) and is taken to do
the same. It records no change for an option that has the value (`SetInVain`), opens
only the files that have changes, and writes every option in quotes
(`file.c:298-299`), so that after a commit of the network file the boot script no
longer finds its line and writes the file anew (`mesh`). `Init` is a router that
has never booted: the files of the ROM without a mesh section. A fourth file, the system
file, has what `load_config` of `dragino.init` writes on the first boot, and the
sections without which the button does nothing.

**DynamicDns.** Updaters are numbered in the order they are started. Each shell
is a process: it reads the pid file and ps (`ReadPid`), kills (`Kill`), writes
its pid (`WritePid`), reads the time of the last update, looks the domain up, and
then loops. A kill leaves the wget of its victim running (`orphans`). Ages are
recent or old; `Elapse` is the forced interval passing. `Lookup` may give the
record, the one before, or nothing. A wget that fails looks the same to the
script as one that succeeds. `Reboot` empties /var/run.

## 3. The runs

| Run | Shows | Bounds |
|---|---|---|
| `byte_buffer` | `TypeOK`, and the ring implements `BoundedFifo` | 3 slots, 3 byte values, counters modulo 8: every index and filling occurs |
| `spi_link` | `AnswerComplete`, `AnswerWhole`, `OneCommandPerAnswer`, `CallReturns` | 4 calls of 5 messages, 1 fault, Rx buffer 2 (a three-letter command overflows it), Tx buffer 4 (an answer and its blank fill it), 2 retries |
| `luad_supervisor` | `GivesUpOnlyOnBurst`, `BurstEndsLoop`, `CrashLoopStops` | 2 restarts in 8 s, 18 s of uptime: a burst, a ring that wraps, a crash loop of any pace fit |
| `luad_daemon` | `CodeIsTrue`, `RunningIsNamed`, `StopLeavesNone` | 3 starts, 2 stops, in any order, `Apart = "ended"`, with every failure |
| `iotd` | `UploadsGetNewer`, `RateLimited`, `NewestReadingKept`, `RecordsInOrder` | 2 sensors, 3 lines, 4 instants, interval 2, 1 fault (a crash or a failed command), the clock set once, a file of 2 bytes and records of 1 or 2, tty of one line |
| `temp_sensors` | `AllFound`, `NextIsNew`, `TurnComplete`, `SetupComplete`, `TurnsEnd` | 3 sensors with addresses of 3 bits, 1 bit of family, 2 sensors of 12 bits and a DS18S20, shorts, 2 changes of the bus |
| `ddns` | `OneUpdater`, `KnowsRecord`, `Converges` | 3 updaters, 2 addresses, 1 change of address, 1 failed request or lookup, reboots |
| `network_mode` | `FilesWhole`, `NetworkIsUp`, `ToggleComplete`, `IdentityKept` | any number of presses and boots, 2 power losses inside scripts |
| `spi_dummy` | finding: `DummyIgnored` fails | 1 call |
| `luad_overlap` | finding: `OneDaemon` fails | 3 starts, `Apart = "returned"`, a setup may fail |
| `luad_residue` | finding: `StopsOnlyOnBurst` fails | as `luad_supervisor` |
| `network_mixed` | finding: `ModesAgree` fails | no power loss inside a script |

Why the bounds are enough. `AnswerComplete` relates a call to the one before
it; four calls are a first call after power-up, a fault, the call that
recovers and the one that must be right; or a "gd", a call in the middle of its
printing, and what that leaves. Two retries stand for ten: the loop
only counts down. Three starts are the one that
fails, the retry, and the one that is misled. One fault is enough for each property of `IoTd`, whose ghosts remember
everything: a crash in an upload, say, then the late upload after that of the new
daemon. Three lines are one reported, one replaced and one dropped. A record of one
byte leaves the file below its size, two fill it, and one of two bytes passes it.
Its two sensors are symmetric. The three addresses are a common bit, a branch, and a
branch inside the branch: a search with two positions to come back to; what three bits show of the search
is proved for every width. Two changes of the bus are a sensor pulled and
another plugged in during the same search. Three updaters are one that is killed
in the middle of a request, its successor, and one after a reboot.
`network_mode` has no bound but that of the power losses: two are one inside a
script and one inside the boot after it.
`CHECK_DEADLOCK FALSE` is set where the exploration is bounded or the system
really stops (a supervisor that gave up, a daemon that was stopped).

Fairness. `SpiLink!FairSpec`: the kernel finishes a transfer it has begun, a
caller runs on between system calls, and the main loop of the AVR never
blocks. A caller that is killed is an action without fairness.
`TempSketch!Spec`: the sketch goes on; changes of the bus are bounded, and have
no fairness. `DynamicDns!Spec`: the shells run, wget and nslookup return, time
passes for each updater (`Elapse`), and every updater of the bound is started;
orphaned requests, reboots and changes have none. `Converges` speaks of the time
when these are over.
`LuadSupervisor!FairSpec`: the supervisor is scheduled and time passes; nothing
makes the Lua daemon end, and `CrashLoopStops` assumes that it does so within a
second of each start. The other specifications have no fairness and are
checked for safety only.

## 4. Findings

- The blank before the first answer after a reset reaches the caller
  (`Dragrove_SPI_TEST.pde:117`).
- A child that fails reports so before it removes the pid file (`luad.c:368`):
  when its caller starts again at once, it removes the file of the second
  daemon, and the next start runs another beside it. The loser of two starts at
  the same time does the same.
- `total` of `restart_max` is never set (`luad.c:91`).
- A net_toggle to ethernet mode does not survive the next boot: uci has put the line
  that the boot script looks for in quotes, so the script writes the network file of
  the ROM, in wifi mode (`S39servalmesh-config:24`), while firewall and wireless
  stay as they are. Between net_defaults and the next boot, when the network file has
  no mesh section, it is the same whatever uci writes.

Known besides, and allowed for by the properties that pass: unused slots of the
restart ring count as restarts in the first minute of the epoch (`luad.c:94`);
transparent mode, which is to "forward all data" (`IoTd.lua:41`), drops the lines that
come before the interval is over (`IoTd.lua:99`, the ghost `dropped`); a DS18S20, or a
DS1820, which the sketch is said to support, is waited for 94 ms, as if it were set to
9 bits, unless a sensor of 12 bits has been counted, but it needs up to 750, so such a
bus may print values of the turn before (`DallasTemperature.cpp:256`, `:372`, the
exception in `TurnComplete`);
an upload that outlived its daemon reaches the server after newer ones or within
the interval (`IoTd.lua:122`); a call in the middle of the printing for an earlier
"gd" gets no answer, or that to a rest of its command (`Dragrove_SPI_TEST.pde:145`);
two updaters that start within the same second can both stay
(`dynamic_dns_updater.sh:213`).

## 5. Proofs

`ByteBufferProofs`, for every `Size` with `2 * Size <= WordSize` and every set of
byte values that contains 0:

- `TypeCorrect`: `Spec => []TypeOK`. The invariant is inductive. The one
  subtraction after `dataindex += n` is enough because `n < datalength <= size`;
  `NoWrap` is where `2 * Size <= WordSize` is needed. Above that limit the sum
  of index and length can wrap in 16 bits before it is reduced: the sketch's
  buffers have 32 and 255 bytes.
- `RingImplementsFifo`: `Spec => IsFifo`. The mapping is
  `Contents`, the bytes from the index on. A get or dump moves the index
  (`Shifted`: the contents without their first n bytes), an add writes the slot
  behind the last byte, which no other byte occupies (`SlotFromInjective`).

`SpiLinkProofs`, for every set of messages, all answers and all sizes:

- `TypeCorrect`: `Spec => []TypeOK`. That the kernel reads at most `MaxRead` bytes
  needs that a read goes on only below that (`Lengths`).
- `AnswersAreNotMixed`: `OneCommandPerAnswer`, with the hypothesis `Pace > 0`: the
  byte delay leaves the AVR time for one call on a buffer, which 250 us do. With
  `Pace = 0` TLC finds an answer that is mixed. An answer in transit is spread
  over what the main loop still has to add, the transmit buffer, SPDR and the bytes
  read; `OneAnswer` says that one number covers all of them. It is kept
  because the flush that begins a new answer happens only while nothing is being
  read (`TakenUpInTime`: a command the main loop has not taken up holds up the next
  exchange, and the `.` that brings it is never the last byte of a write), and
  because a command is fetched when only its blank is under way (`OnlyBlank`).
- `AnswersAreComplete`: `AnswerComplete`, with two hypotheses about time. `Pace >= 3`:
  three calls on a buffer fit between two exchanges; with two TLC finds a byte
  that comes too late. `CharTime < 2 * Retries + 4`: a character is printed, with
  interrupts off, before a call has sent its two 0x00 and all its reads; at 9600
  baud it takes about 4 exchanges, and with 10 retries the limit is 24. It is
  exact: at equality TLC finds a call that returns with the handler still out of
  Tx mode. `RoomAssumption` is needed as well: with an Rx buffer of one byte, or an
  answer that fills the Tx buffer without its blank, TLC finds a violation.

  The invariant follows the call. What the kernel has still to send is the end of
  the message, a `.` and two 0x00 (`Ordered`), so a position in the write is a
  number. `NoOps`, `Ahead` and `Early` say how far the main loop is at each:
  the blank is in the buffer at the next exchange after the `.`, the letters are
  fetched before the write ends, and from then on the loop adds letters faster
  than they are read. The 0x00 switches the handler to Tx mode, unless printing
  holds it up, and then not until the call is over (`Switched`). So a read ends at
  a 0x00 of the handler and not at its limit (`Load`, which bounds what is under
  way of an answer by the buffer), and at that 0x00 nothing is left (`Out`,
  `Finished`). This is what a call that returns brings about, whatever was before it:
  both sides in step (`Settled`) and, unless the main loop still prints, an empty
  receive buffer (`Clean`) and a main loop at rest (`Quiet`) when the next one begins.
  Of that next call the receive buffer then holds a prefix of the message (`Arriving`),
  so the loop fetches its first two letters (`Fetching`), and from the fetch on
  `Answering` holds: what is read, in SPDR, in the transmit buffer and still to be
  added is, in this order, the blank and the answer (`Chain`, `ReadSoFar`).
- `AnswersAreWhole`: `AnswerWhole`, with the same hypotheses and from the same
  invariant. While the loop still prints, the letters of the next call wait in the receive
  buffer, and the flush takes some of them; what is left, and what comes after, are
  letters of this call only (the second half of `Quiet`). So whatever the loop
  fetches in the call is its own or nothing, and what is under way is one of `Wholes`, or
  nothing but a blank (`Blank`).

`LuadDaemonProofs`, for any sets of starts and stops, with and without failures
and slow answers:

- `TypeCorrect` and `CodeCorrect`: `Spec => []TypeOK` and `Spec => []CodeIsTrue`,
  for every `Apart`. `CodeIsTrue` relates the code to the child; the pipe is in
  between. `CodeInv` adds what the pipe tells about the child (`SentTells`: 0 is
  sent on the way to the supervisor only, and only the first value counts) and
  what the code tells about the pipe (`CodeTells`).
- `DaemonIsNamed`, `OnlyOneDaemon`, `StopCorrect`: `RunningIsNamed`, `OneDaemon`
  and `StopLeavesNone`, for `Apart = "ended"`, as a hypothesis of each theorem.
  `NameInv` is the invariant. That the pid file names a running daemon is not
  inductive, since the child is not running yet when it creates the file and any
  child that ends removes it; so at most one child is alive (`OneAlive`), and from
  the creation on the file names it (`OwnerNamed`). The key is `BeginFinds`: what
  is alive when an invocation begins is settled, so it is named, so the check in
  the parent finds it; a start that forks has no living process beside it.
  `StopFinds` keeps that through the steps of a stop. With `Apart = "returned"`
  `BeginFinds` fails, and `luad_overlap` shows that so do the theorems.

`LuadSupervisorProofs`, for every length of the ring, every window and every
setting of the clock:

- `TypeCorrect`: `Spec => []TypeOK`.
- `GivesUpRight` and `BurstIsNotMissed`: `GivesUpOnlyOnBurst` and `BurstEndsLoop`.
  Both compare what the code has counted with the true times in `recent`, so the
  invariant says what the ring holds: slot by slot the clock's time of one of the
  last restarts (`RingHolds`), or 0 where there has been none (`RingFromBoot`), and
  that the restarts are in the order of time (`RecentInOrder`). Time passes while
  the code counts, so `CountRight` bounds the count from both sides: it has
  counted no slot that was too old when it began, and every one that is not too
  old yet. `FullRing` concludes: when all slots lie in the window, the oldest of
  the last restarts does.

`IoTdProofs`, for every set of sensors and configurations, every size of record
file and tty, and any number of lines, crashes and settings of the clock:

- `TypeCorrect`: `Spec => []TypeOK`.
- `NewerUploads`: `UploadsGetNewer`. `OrderInv` orders a reading along its way:
  what the tty holds is newer than the line in hand, that newer than what is
  held for a report, and that newer than everything that has left the daemon, whether the
  server has it or a curl that goes on may still bring it (`Released`, `HeldFresh`). No
  two of those have a reading in common (`OrphansApart`), so none comes twice.
- `UploadsKeepDistance`: `RateLimited`. `RateInv`: as long as the clock is not set,
  `old_time` is no earlier than the last upload of a daemon, and at the next one the
  interval has passed since. Late uploads of orphans are outside the property.
- `RecordsHaveNoGap`: `RecordsInOrder`. The records are numbered, and each file's
  go on from the other's (`FilesInOrder`), between a rotation and its append too, and
  with a mv or an echo that fails. Each record remembers the size of the file it was
  added to, which was below `FileSize` unless the mv before it had failed.
- `NewestIsKept`: `NewestReadingKept`, with the hypothesis `Reports`: every
  configuration uploads or records. One that does neither drops what it has read.
  `BatchAccounted` says where each reading of the batch is, after commands that may
  have failed.

`TempSketchProofs`, first part, about `OneWire`: for every `Width`, every `Family`,
and every set of device addresses whose family code is not 0:

- `WireTypeCorrect`: `WireSpec => []WireTypeOK`.
- `SearchComplete` and `SearchAdvances`: `AllFound` and `NextIsNew`. Neither is
  inductive: nothing in them says what LastDiscrepancy means. `SearchInv` does.
  Addresses are ordered as their bits come, and a search finds the devices in
  ascending order: between two calls `found` is what is not above ROM_NO, and
  LastDiscrepancy is the last position at which a device departs upwards from it
  (`LastSplit`), or 0. Inside a call, up to LastDiscrepancy the bits repeat ROM_NO
  (`At`); past it, those that still listen are new, and every other new device
  comes later (`Beyond`). `last_zero` is the last split of the new path. The
  lemmas about writing a bit (`WriteBit` and the next) carry this from bit to bit.
  All of it holds while the bus is `steady`; after a change nothing is claimed
  until the next `reset_search`.

`TempSketchProofs`, second part, under the same assumptions, and for every set of
sensors delivered at 12 bits:

- `SketchUsesWire`: `Spec => WireSpec`. The sketch implements the search: each of
  its steps is a step of `OneWire` or leaves the wire alone. So
  `SketchSearchComplete` and `SketchSearchAdvances` follow without another
  induction.
- `SketchTypeCorrect`: `Spec => []TypeOK`. `Counters` is the inductive part: an
  index is below the number of devices from the moment it is taken up, and a turn
  prints at most once for each index that is done.
- `SketchTurnComplete` and `SketchSetupComplete`: `TurnComplete` and
  `SetupComplete`. Both need that the j-th device of one search is the j-th of
  the next. The index of a device is its rank among the addresses on the bus,
  because a search that stands at a device has found just those up to it
  (`SearchInv`). In a calm turn, `begin()` and `getAddress` have therefore passed
  the devices of the first ranks (`SearchCounts`), all ranks occur once the count
  is over (`AllCounted`), so no two devices share one (`RanksDiffer`, from the
  cardinality of a finite set), and what is located at index j is the device of
  rank j + 1 (`Located`). The rest is what was done with the ranks below j
  (`Lowered`, `RanksPrinted`), and that a conversion is waited for long enough for
  whatever has been counted (`WaitsEnough`), a DS18S20 excepted, which the library counts
  as 9 bits: its value may be old where no sensor of 12 bits was counted, and only
  there. That there are finitely many
  addresses is proved (`CodesFinite`), not assumed.

`NetworkModeProofs`, for any number of power losses:

- `TypeCorrect`, `FilesStayWhole`, `NetworkStaysUp`, `IdentityIsKept`,
  `ToggleCompletes`: all five properties of the run. `Inv` is the invariant.
  That files are whole is not inductive, since a commit writes what is in /tmp:
  `Setting` says which options net_toggle has prepared (those before the one it
  is at, unless their section is gone or they have the value), `Committing` which files uci has brought
  to the mode, and that what is left is prepared. `Standing` says when /tmp is
  empty and that the network file is there from the end of the boot on.
  `IdentityKept` needs that a commit of a toggle never finds a change of the
  system file.

`DynamicDnsProofs`, for every set of updaters and addresses:

- `TypeCorrect`: `Spec => []TypeOK`.
- `OnlyOneUpdater` and `SleeperKnowsRecord`: `OneUpdater` and `KnowsRecord`, with the
  hypothesis `Serial`, that no updater starts before the one before it has written
  its pid; without it two can stay (section 4). As with `OnlyOneDaemon`, that one
  runs follows from what a new one finds (`StartFinds`): who is in the loop is
  named in the pid file (`WrittenNamed`), and only one start is under way
  (`OneStart`). `LoopKnows` says what an updater knows at each point of its loop.

Every invariant and every safety property of the passing runs is a theorem.
Only model-checked: liveness (`CallReturns`,
`CrashLoopStops`, `TurnsEnd`, `Converges`), which is out of the prover's reach, as
is ENABLED. The four violation runs are counterexamples, for which there is
nothing to prove.

## 6. Not modelled

- Of components that are modelled: Timer2 of the SPI sketch (it only changes demo
  values), the text of messages and records, the messages of fdude, the fallback
  address and the mode of spidev in `dragino.init`, the scratchpad's alarm
  registers and parasite power of the temperature library (the sketch uses
  neither).
- The receive half of NewSoftSerial: a ring shared with the pin interrupt, a
  hazard on paper. No sketch of the repository reads from it, so no state of it
  but the empty one can be reached.
- The NTP client's hotplug script: it starts ntpclient, whose effect, a clock that
  is set, is in `LuadSupervisor` and `IoTd`.
- The echo sketch, the serial example and its Lua reader: earlier copies of what
  is modelled.
- remote-update: one process that fetches and flashes an image, without state of
  its own that survives.
- LuCI: the shield page is a caller of `CommandToMCU`, whose calls are those of
  `SpiLink`. Sessions and the rest are vendored, like nixio with axTLS, px5g,
  luacurses, freifunk-watchdog, avahi and rrdtool. They are the larger part of
  the C and Lua lines of the repository, which are therefore mostly not modelled:
  the modules cover the program that Dragino wrote. Of uci, vendored too, what
  set and commit do to files is in `NetworkMode`; its parser, lists and import
  are not.
- Build files, patches of the flash layout, board files.

## 7. Plan

Order: what carries readings first, then what the router's scripts do.

1. Done: `ByteBuffer` and `LuadDaemon` with their proofs, `SpiLink`,
   `LuadSupervisor`, `IoTd`.
2. Done: `OneWire` and `TempSketch` with their proofs, `DynamicDns`,
   `NetworkMode` with its proofs and the first boot, a clock that is set in
   `IoTd`. Dropped, for the reasons in section 6: the receive ring of
   NewSoftSerial, LuCI sessions.
3. Done: type correctness and the safety properties of `DynamicDns`,
   `LuadSupervisor`, `IoTd`; `TurnComplete` and `SetupComplete` of the sketch;
   `TypeOK` and `OneCommandPerAnswer` of `SpiLink`.
4. Done: `AnswerComplete` of `SpiLink`. With it every safety property of the runs is
   proved.
5. Done: calls in the middle of a printing (`AnswerWhole`), commands of `IoTd` that
   fail and uploads that outlive it, sensors of fixed resolution, and uci from its
   source; the proofs follow.
6. Left: a composition of shield, tty and IoTd in one specification. They share
   no state but the tty, whose lines `IoTd` already takes in any order and at any
   time, so it would restate what the parts show.
