-------------------------------- MODULE IoTd --------------------------------
(***************************************************************************)
(* The sensor daemon luasrc/IoTd.lua, which luad runs: it reads lines from *)
(* the UART, keeps the latest value of each configured sensor, and at most *)
(* once per update interval uploads the values to the IoT server and adds  *)
(* them to the local record file.                                          *)
(*                                                                         *)
(* A line is its number and the set of sensors it has a value for; the     *)
(* value of a sensor is the number of the line it came in, so a value      *)
(* tells which reading it is.  Unknown ids in a line match no datastream    *)
(* and are left out.  0 stands for the string "null".                      *)
(***************************************************************************)
EXTENDS Naturals, Integers, Sequences, FiniteSets

CONSTANTS
  Sensors,        \* the names of the sensorport sections
  Configs,        \* the configurations explored, see ConfigAssumption
  Interval,       \* MIN_UPDATE_INTERVAL
  FileSize,       \* RECORD_FILE_SIZE, in bytes
  RecordSizes,    \* the lengths of a record, in bytes
  TtySize,        \* lines the kernel keeps for a reader that is late
  MaxLines,       \* bound of the exploration: lines the UART delivers
  MaxTime,        \* bound of the exploration: seconds
  MaxSets,        \* bound of the exploration: how often NTP sets the clock
  MaxFaults       \* bound of the exploration: crashes and failed commands

\* IoT.enabled, transparent_mode, enable_local_record; known says whether
\* an update_url is set or the server has a line in IoT_services.
ASSUME ConfigAssumption ==
  Configs \subseteq [iot : BOOLEAN, transparent : BOOLEAN,
                     record : BOOLEAN, known : BOOLEAN]
ASSUME BoundsAssumption ==
  /\ Interval \in Nat /\ TtySize \in Nat \ {0}
  /\ FileSize \in Nat \ {0} /\ RecordSizes \subseteq Nat \ {0}
  /\ MaxLines \in Nat /\ MaxTime \in Nat
  /\ MaxSets \in Nat /\ MaxFaults \in Nat

VARIABLES
  config,       \* the configuration the daemon has read
  pc,           \* read, update, upload, rotate, append, finish, or dead
  line,         \* the line being processed
  datastreams,  \* the latest value of each sensor, or 0
  batch,        \* what is being reported: csv_string
  old_time,     \* when the last report ended
  now,          \* os.time()
  sets,         \* how often the clock has been set
  tty,          \* lines that wait in the kernel
  lines,        \* how many lines the UART has delivered
  file, bak,    \* the records in the record file and in its .bak
  size, bakSize,\* their sizes, with what failed writes have left in them
  orphans,      \* uploads whose curl goes on after the daemon was killed
  faults,       \* faults so far
  mv,           \* ghost: whether the mv of this report has failed
  written,      \* ghost: how many records have been added to the record file
  sent,         \* ghost: the batches the server received, with their time, and
                \* whether they were late: sent by an orphan
  reported,     \* ghost: every reading that was uploaded or recorded
  latest,       \* ghost: the newest reading of each sensor the UART delivered
  lost,         \* ghost: readings gone with a crash, a failed command, or a
                \* full or closed tty
  dropped       \* ghost: readings of lines dropped in transparent mode

unix == <<now, sets, tty, lines, faults>>
files == <<file, bak, size, bakSize, mv, written>>
ghosts == <<sent, reported, latest, lost, dropped>>
vars == <<config, pc, line, datastreams, batch, old_time, orphans, unix, files, ghosts>>

Nothing == [s \in Sensors |-> 0]
NoLine == [no |-> 0, has |-> {}]
\* Mutant: the values "null" are not left out.
ReadingsAndNulls(f) == {<<s, f[s]>> : s \in Sensors}
Readings(f) == {<<s, f[s]>> : s \in {t \in Sensors : f[t] # 0}}
LineReadings(l) == {<<s, l.no>> : s \in l.has}
Waiting == UNION {LineReadings(tty[k]) : k \in 1 .. Len(tty)}

----------------------------------------------------------------------------
Init ==
  /\ config \in Configs
  /\ pc = "read" /\ line = NoLine /\ datastreams = Nothing /\ batch = {}
  /\ old_time = 0 /\ now = 0 /\ sets = 0 /\ tty = <<>> /\ lines = 0
  /\ file = <<>> /\ bak = <<>> /\ size = 0 /\ bakSize = 0 /\ orphans = {}
  /\ faults = 0 /\ mv = "ok" /\ written = 0
  /\ sent = <<>> /\ reported = {} /\ latest = Nothing /\ lost = {} /\ dropped = {}

\* serialin:read().
ReadLine ==
  /\ pc = "read" /\ tty # <<>>
  /\ line' = Head(tty)
  /\ tty' = Tail(tty)
  /\ pc' = "update"
  /\ UNCHANGED <<config, datastreams, batch, old_time, orphans, now, sets, lines, faults,
                 files, ghosts>>

\* update_datastreams: a line that has values for none of the sensors is no
\* new data, except in transparent mode, where every line is.
Updated == IF config.transparent THEN datastreams
           ELSE [s \in Sensors |-> IF s \in line.has THEN line.no ELSE datastreams[s]]
NewData == config.transparent \/ line.has # {}
Due == now - old_time >= Interval

\* Mutant: a line that comes too early is not looked at.
ForgetLine ==
  /\ pc = "update" /\ ~(NewData /\ Due)
  /\ dropped' = IF config.transparent THEN dropped \cup LineReadings(line) ELSE dropped
  /\ line' = NoLine
  /\ pc' = "read"
  /\ UNCHANGED <<config, datastreams, batch, old_time, orphans, unix, files,
                 sent, reported, latest, lost>>

\* Too early to report, or nothing new: the values stay for a later line; in
\* transparent mode the line is dropped.
KeepForLater ==
  /\ pc = "update" /\ ~(NewData /\ Due)
  /\ datastreams' = Updated
  /\ dropped' = IF config.transparent THEN dropped \cup LineReadings(line) ELSE dropped
  /\ line' = NoLine
  /\ pc' = "read"
  /\ UNCHANGED <<config, batch, old_time, orphans, unix, files,
                 sent, reported, latest, lost>>

\* Mutant: the values reported are not set back to "null".
CollectAndKeep ==
  /\ pc = "update" /\ NewData /\ Due
  /\ batch' = IF config.transparent THEN LineReadings(line) ELSE Readings(Updated)
  /\ datastreams' = Updated
  /\ pc' = "upload"
  /\ UNCHANGED <<config, line, old_time, orphans, unix, files, ghosts>>

\* Collect the report and clear the datastreams, before anything is sent.
Collect ==
  /\ pc = "update" /\ NewData /\ Due
  /\ batch' = IF config.transparent THEN LineReadings(line) ELSE Readings(Updated)
  /\ datastreams' = IF config.transparent THEN datastreams ELSE Nothing
  /\ pc' = "upload"
  /\ UNCHANGED <<config, line, old_time, orphans, unix, files, ghosts>>

Delivery(data, late) == [data |-> data, at |-> now, sets |-> sets, late |-> late]

\* curl ends, with success or not: the result of os.execute is not looked at.
Upload ==
  /\ pc = "upload" /\ config.iot /\ config.known
  /\ \/ /\ sent' = Append(sent, Delivery(batch, FALSE))
        /\ reported' = reported \cup batch
        /\ UNCHANGED <<faults, lost>>
     \/ /\ faults < MaxFaults
        /\ faults' = faults + 1
        /\ lost' = IF config.record THEN lost ELSE lost \cup batch
        /\ UNCHANGED <<sent, reported>>
  /\ pc' = "rotate"
  /\ UNCHANGED <<config, line, datastreams, batch, old_time, orphans, now, sets, tty, lines,
                 files, latest, dropped>>

SkipUpload ==
  /\ pc = "upload" /\ ~config.iot
  /\ pc' = "rotate"
  /\ UNCHANGED <<config, line, datastreams, batch, old_time, orphans, unix, files, ghosts>>

MoveToBak ==
  /\ bak' = file /\ bakSize' = size
  /\ file' = <<>> /\ size' = 0
  /\ mv' = "ok" /\ UNCHANGED faults

\* Nobody looks whether mv succeeds.
MvFails ==
  /\ faults < MaxFaults /\ faults' = faults + 1
  /\ mv' = "failed" /\ UNCHANGED <<file, bak, size, bakSize>>

\* Mutant: ">" for ">=" in the test of the file's size.
RotateLate ==
  /\ pc = "rotate" /\ config.record
  /\ \/ size > FileSize /\ (MoveToBak \/ MvFails)
     \/ size <= FileSize /\ mv' = "ok" /\ UNCHANGED <<file, bak, size, bakSize, faults>>
  /\ pc' = "append"
  /\ UNCHANGED <<config, line, datastreams, batch, old_time, orphans, now, sets, tty, lines,
                 written, ghosts>>

\* A record file that has reached its size becomes the .bak file.
Rotate ==
  /\ pc = "rotate" /\ config.record
  /\ \/ size >= FileSize /\ (MoveToBak \/ MvFails)
     \/ size < FileSize /\ mv' = "ok" /\ UNCHANGED <<file, bak, size, bakSize, faults>>
  /\ pc' = "append"
  /\ UNCHANGED <<config, line, datastreams, batch, old_time, orphans, now, sets, tty, lines,
                 written, ghosts>>

\* The record, with the size of the file it is added to, and whether that file
\* should have been moved.
AppendRecord ==
  /\ pc = "append"
  /\ \E bytes \in RecordSizes : size' = size + bytes
  /\ file' = Append(file, [no |-> written + 1, from |-> size, mv |-> mv])
  /\ written' = written + 1
  /\ reported' = reported \cup batch
  /\ pc' = "finish"
  /\ UNCHANGED <<config, line, datastreams, batch, old_time, orphans, unix, bak, bakSize, mv,
                 sent, latest, lost, dropped>>

\* The file system is full, and takes a part of the record at most; or the line
\* has an apostrophe, which ends the argument of echo.  Nobody looks.
AppendFails ==
  /\ pc = "append" /\ faults < MaxFaults
  /\ faults' = faults + 1
  /\ \E bytes \in RecordSizes : \E part \in 0 .. bytes - 1 : size' = size + part
  /\ lost' = lost \cup (batch \ reported)
  /\ pc' = "finish"
  /\ UNCHANGED <<config, line, datastreams, batch, old_time, orphans, now, sets, tty, lines,
                 file, bak, bakSize, mv, written, sent, reported, latest, dropped>>

SkipRecord ==
  /\ pc = "rotate" /\ ~config.record
  /\ pc' = "finish"
  /\ UNCHANGED <<config, line, datastreams, batch, old_time, orphans, unix, files, ghosts>>

Finish ==
  /\ pc = "finish"
  /\ old_time' = now
  /\ batch' = {} /\ line' = NoLine
  /\ pc' = "read"
  /\ UNCHANGED <<config, datastreams, orphans, unix, files, ghosts>>

----------------------------------------------------------------------------
\* The tty is open as long as the daemon or a curl it started lives, which has
\* the daemon's descriptors.  When the last of them ends the kernel drops what
\* waits in it.
Open(at, left) == at # "dead" \/ left # {}
TtyIfOpen(at, left) == IF Open(at, left) THEN tty ELSE <<>>
LostByClose(at, left) == IF Open(at, left) THEN {} ELSE Waiting

\* Everything the Lua state held is gone, but what is left to orphans.
Die(left) ==
  /\ pc' = "dead"
  /\ line' = NoLine /\ datastreams' = Nothing /\ batch' = {}
  /\ orphans' = orphans \cup left
  /\ tty' = TtyIfOpen("dead", orphans \cup left)
  /\ lost' = lost \cup LostByClose("dead", orphans \cup left) \cup LineReadings(line)
                  \cup Readings(datastreams) \cup (IF left = {} THEN batch ELSE {})
  /\ UNCHANGED <<config, old_time, now, sets, lines, files, sent, reported, latest, dropped>>

\* No update command: string.gsub(nil, ...) is a Lua error.
UnknownServer ==
  /\ pc = "upload" /\ config.iot /\ ~config.known
  /\ Die({})
  /\ UNCHANGED faults

InFlight == [line |-> line.no, data |-> batch]

\* The daemon is killed, or ends on an error, anywhere.  The curl of os.execute
\* is a process of its own: it ends too, or goes on for as long as it likes.
\* (mv and echo end before a new daemon has something to record; an echo that
\* outlives its daemon is AppendRecord before the crash.)
Crash ==
  /\ pc # "dead" /\ faults < MaxFaults
  /\ faults' = faults + 1
  /\ \/ Die({})
     \/ pc = "upload" /\ config.iot /\ config.known /\ Die({InFlight})

\* A curl that has outlived its daemon delivers its batch, or does not.
OrphanEnds(o) ==
  /\ orphans' = orphans \ {o}
  /\ tty' = TtyIfOpen(pc, orphans \ {o})
  /\ \/ /\ sent' = Append(sent, Delivery(o.data, TRUE))
        /\ reported' = reported \cup o.data
        /\ lost' = lost \cup LostByClose(pc, orphans \ {o})
     \/ /\ lost' = lost \cup LostByClose(pc, orphans \ {o}) \cup o.data
        /\ UNCHANGED <<sent, reported>>
  /\ UNCHANGED <<config, pc, line, datastreams, batch, old_time, now, sets, lines, faults,
                 files, latest, dropped>>

\* Mutant: old_time begins at 0, so the first line is reported at once.
RestartAtOnce ==
  /\ pc = "dead"
  /\ pc' = "read"
  /\ config' \in Configs
  /\ old_time' = 0
  /\ UNCHANGED <<line, datastreams, batch, orphans, unix, files, ghosts>>

\* luad runs the script again, which reads the configuration of the day.
Restart ==
  /\ pc = "dead"
  /\ pc' = "read"
  /\ config' \in Configs
  /\ old_time' = now
  /\ UNCHANGED <<line, datastreams, batch, orphans, unix, files, ghosts>>

\* A line arrives on the UART; a full or a closed tty drops it.
Receive(has) ==
  /\ lines < MaxLines
  /\ lines' = lines + 1
  /\ latest' = [s \in Sensors |-> IF s \in has THEN lines + 1 ELSE latest[s]]
  /\ LET l == [no |-> lines + 1, has |-> has]
     IN  \/ /\ Open(pc, orphans) /\ Len(tty) < TtySize
            /\ tty' = Append(tty, l) /\ UNCHANGED lost
         \/ /\ ~Open(pc, orphans) \/ Len(tty) >= TtySize
            /\ lost' = lost \cup LineReadings(l) /\ UNCHANGED tty
  /\ UNCHANGED <<config, pc, line, datastreams, batch, old_time, orphans, now, sets, faults,
                 files, sent, reported, dropped>>

Tick ==
  /\ now < MaxTime
  /\ now' = now + 1
  /\ UNCHANGED <<config, pc, line, datastreams, batch, old_time, orphans, sets, tty, lines,
                 faults, files, ghosts>>

\* NTP sets the clock, which runs without a battery, forth or back.
SetClock ==
  /\ sets < MaxSets /\ sets' = sets + 1
  /\ now' \in (0 .. MaxTime) \ {now}
  /\ UNCHANGED <<config, pc, line, datastreams, batch, old_time, orphans, tty, lines, faults,
                 files, ghosts>>

Daemon ==
  \/ ReadLine \/ KeepForLater \/ Collect \/ Upload \/ SkipUpload
  \/ Rotate \/ AppendRecord \/ AppendFails \/ SkipRecord \/ Finish
  \/ UnknownServer \/ Restart

Next ==
  \/ Daemon
  \/ Crash
  \/ \E o \in orphans : OrphanEnds(o)
  \/ \E has \in SUBSET Sensors : Receive(has)
  \/ Tick \/ SetClock

Spec == Init /\ [][Next]_vars

----------------------------------------------------------------------------
TypeOK ==
  /\ config \in Configs
  /\ pc \in {"read", "update", "upload", "rotate", "append", "finish", "dead"}
  /\ datastreams \in [Sensors -> 0 .. MaxLines]
  /\ batch \subseteq Sensors \X (1 .. MaxLines)
  /\ \A o \in orphans : o.data \subseteq Sensors \X (1 .. MaxLines)
  /\ old_time \in 0 .. MaxTime /\ now \in 0 .. MaxTime /\ sets \in 0 .. MaxSets
  /\ Len(tty) <= TtySize /\ lines \in 0 .. MaxLines
  /\ size \in Nat /\ bakSize \in Nat
  /\ faults \in 0 .. MaxFaults /\ lost \subseteq Sensors \X (1 .. MaxLines)

\* The server gets no reading twice, and what a daemon sends it is newer than
\* all it has got before, whatever crashes and restarts happen.  Only a report
\* that outlived its daemon can come after a newer one (IoTd.lua:115, :122).
UploadsGetNewer ==
  \A i, j \in 1 .. Len(sent) : i < j =>
    \A a \in sent[i].data, b \in sent[j].data :
      /\ a # b
      /\ a[1] = b[1] /\ ~sent[j].late => a[2] < b[2]

\* Two uploads by daemons are at least the update interval apart, also when one
\* died and another was started in between.  There are two exceptions: NTP has
\* set the clock in between, which costs the server at most one early upload
\* each time, and an upload that outlived its daemon comes when it comes.
RateLimited ==
  \A i, j \in 1 .. Len(sent) :
    i < j /\ ~sent[i].late /\ ~sent[j].late /\ sent[i].sets = sent[j].sets =>
      sent[j].at - sent[i].at >= Interval

UnderWay == UNION {o.data : o \in orphans}
Held == Waiting \cup LineReadings(line) \cup Readings(datastreams) \cup batch \cup UnderWay

\* The newest reading of a sensor is never forgotten: until it is uploaded or
\* recorded the daemon, an upload or the tty holds it, unless a crash, a command
\* that failed or a tty that was full or closed took it, or transparent mode
\* dropped it, whose line comes before the interval is over (that mode is to
\* "forward all data", IoTd.lua:41, but does not, IoTd.lua:99).  Only the newest:
\* IoTd replaces those before it.
NewestReadingKept ==
  \A s \in Sensors : latest[s] # 0 =>
    <<s, latest[s]>> \in Held \cup reported \cup lost \cup dropped

\* The record file and its .bak hold the latest records in order and without a
\* gap.  A record is added only to a file below its size, so the file exceeds it
\* by that record at most, unless the mv before has failed; and the .bak holds a
\* file that had reached it (IoTd.lua:128).
Log == bak \o file
RecordsInOrder ==
  /\ \A i \in 1 .. Len(Log) : Log[i].no = written - Len(Log) + i
  /\ \A i \in 1 .. Len(Log) : Log[i].from < FileSize \/ Log[i].mv = "failed"
  /\ bak # <<>> => bakSize >= FileSize
=============================================================================
