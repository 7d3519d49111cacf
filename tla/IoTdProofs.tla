----------------------------- MODULE IoTdProofs -----------------------------
(***************************************************************************)
(* The sensor daemon for any number of sensors, lines, crashes and clock   *)
(* settings: the server sees each value get newer, uploads keep their      *)
(* distance, the record files have no gap, and the newest reading is kept. *)
(***************************************************************************)
EXTENDS IoTd, SequenceTheorems, TLAPS

----------------------------------------------------------------------------
(* Types.                                                                  *)

Phases == {"read", "update", "upload", "rotate", "append", "finish", "dead"}
Reporting == {"upload", "rotate", "append", "finish"}
Pairs == Sensors \X (1 .. MaxLines)
Lines == [no : 1 .. MaxLines, has : SUBSET Sensors]
Uploads == [data : SUBSET Pairs, at : 0 .. MaxTime, sets : 0 .. MaxSets, late : BOOLEAN]
Orphans == [line : Nat, data : SUBSET Pairs]
Records == [no : Nat, from : Nat, mv : {"ok", "failed"}]

CountersTyped ==
  /\ config \in Configs /\ pc \in Phases
  /\ old_time \in 0 .. MaxTime /\ now \in 0 .. MaxTime /\ sets \in 0 .. MaxSets
  /\ lines \in 0 .. MaxLines /\ faults \in 0 .. MaxFaults /\ written \in Nat
  /\ size \in Nat /\ bakSize \in Nat /\ mv \in {"ok", "failed"}

ReadingsTyped ==
  /\ line \in Lines \cup {NoLine}
  /\ datastreams \in [Sensors -> 0 .. MaxLines] /\ latest \in [Sensors -> 0 .. MaxLines]
  /\ batch \subseteq Pairs /\ reported \subseteq Pairs /\ lost \subseteq Pairs
  /\ orphans \subseteq Orphans
  /\ tty \in Seq(Lines) /\ Len(tty) <= TtySize

ListsTyped == sent \in Seq(Uploads) /\ file \in Seq(Records) /\ bak \in Seq(Records)

Typed == CountersTyped /\ ReadingsTyped /\ ListsTyped

----------------------------------------------------------------------------
(* The strengthenings.                                                     *)

\* A line is held from read() to the end of its report, a batch during the
\* report only; the report takes the line with it and leaves no value behind.
Phased ==
  /\ pc \in {"read", "dead"} => line = NoLine
  /\ pc = "update" => line \in Lines
  /\ pc \notin Reporting => batch = {}
  /\ pc \in Reporting => datastreams = Nothing /\ LineReadings(line) \subseteq batch
  /\ pc = "dead" \/ config.transparent => datastreams = Nothing

\* The tty holds lines in the order they came.
TtyInOrder ==
  /\ \A k \in 1 .. Len(tty) : tty[k].no <= lines
  /\ \A k, l \in 1 .. Len(tty) : k < l => tty[k].no < tty[l].no

\* A number that is older than every line in the tty, and than the next one.
Past(n) == n <= lines /\ \A k \in 1 .. Len(tty) : n < tty[k].no

\* What has left the daemon: the server has it, or an orphan may bring it.
Received == UNION {sent[i].data : i \in 1 .. Len(sent)}
Released == Received \cup UnderWay

AllPast ==
  /\ Past(line.no)
  /\ \A s \in Sensors : Past(datastreams[s])
  /\ \A r \in batch : Past(r[2])
  /\ \A r \in Released : Past(r[2])

\* n is newer than every reading of s that has left the daemon.
Fresh(s, n) == \A r \in Released : r[1] = s => r[2] < n

\* What is held is newer than what has left, and a line newer than the values
\* it replaces.
HeldFresh ==
  /\ \A s \in Sensors : datastreams[s] # 0 => Fresh(s, datastreams[s])
  /\ pc = "update" => \A s \in Sensors : datastreams[s] < line.no /\ Fresh(s, line.no)
  /\ pc = "upload" => \A r \in batch : Fresh(r[1], r[2])

\* An orphan has nothing that the server or another orphan has.
OrphansApart ==
  /\ \A o \in orphans : \A i \in 1 .. Len(sent) : o.data \cap sent[i].data = {}
  /\ \A o, q \in orphans : o # q => o.data \cap q.data = {}

OrderInv == Phased /\ TtyInOrder /\ AllPast /\ HeldFresh /\ OrphansApart /\ UploadsGetNewer

\* An upload of a daemon, if the clock has not been set since.
Timely(u) == ~u.late /\ u.sets = sets

\* Until the next report old_time is no earlier than any timely upload, and the
\* next upload no earlier than Interval after it.
RateInv ==
  /\ RateLimited
  /\ \A i \in 1 .. Len(sent) : sent[i].sets <= sets
  /\ \A i \in 1 .. Len(sent) : Timely(sent[i]) =>
       /\ sent[i].at <= now
       /\ pc \in {"read", "update"} => sent[i].at <= old_time
       /\ pc = "upload" => now - sent[i].at >= Interval

\* The records of each file are numbered on from the other's; before a record
\* is added there is room for it, or mv has failed.
RoomOrFailed(f) == \A i \in 1 .. Len(f) : f[i].from < FileSize \/ f[i].mv = "failed"
FilesInOrder ==
  /\ RoomOrFailed(file) /\ RoomOrFailed(bak)
  /\ pc = "append" => size < FileSize \/ mv = "failed"
  /\ bak # <<>> => bakSize >= FileSize
  /\ \A i \in 1 .. Len(file) : file[i].no = written - Len(file) + i
  /\ \A i \in 1 .. Len(bak) : bak[i].no = written - Len(file) - Len(bak) + i

\* latest is the newest reading: no line that is held or waits has a newer one.
LatestIsNewest ==
  /\ \A s \in line.has : line.no <= latest[s]
  /\ \A k \in 1 .. Len(tty) : \A s \in tty[k].has : tty[k].no <= latest[s]
  /\ \A s \in Sensors : latest[s] <= lines

\* Before a report ends its batch is uploaded, recorded or lost.
BatchAccounted ==
  /\ pc = "rotate" => config.record \/ batch \subseteq reported \cup lost
  /\ pc = "append" => config.record
  /\ pc = "finish" => batch \subseteq reported \cup lost

KeptInv == LatestIsNewest /\ BatchAccounted /\ NewestReadingKept
----------------------------------------------------------------------------
(* Readings, lines and the tty.                                            *)

LEMMA ReadingsArePairs ==
  ASSUME NEW f \in [Sensors -> 0 .. MaxLines]
  PROVE  /\ Readings(f) \subseteq Pairs
         /\ \A s, n : <<s, n>> \in Readings(f) <=> s \in Sensors /\ f[s] # 0 /\ n = f[s]
  BY BoundsAssumption DEF Readings, Pairs

LEMMA LineReadingsArePairs ==
  /\ LineReadings(NoLine) = {}
  /\ \A l \in Lines : LineReadings(l) \subseteq Pairs
  BY BoundsAssumption DEF LineReadings, NoLine, Lines, Pairs

LEMMA WaitingIsPairs ==
  ASSUME tty \in Seq(Lines)
  PROVE  Waiting \subseteq Pairs
<1>1. \A k \in 1 .. Len(tty) : LineReadings(tty[k]) \subseteq Pairs
  BY ElementOfSeq, LineReadingsArePairs
<1> QED
  BY <1>1, Zenon DEF Waiting

LEMMA UnderWayIsPairs ==
  /\ orphans \subseteq Orphans => UnderWay \subseteq Pairs
  /\ \A r : r \in UnderWay <=> \E o \in orphans : r \in o.data
  /\ \A r : r \in UnderWay' <=> \E o \in orphans' : r \in o.data
<1>1. \A r : r \in UnderWay <=> \E o \in orphans : r \in o.data
  BY DEF UnderWay
<1>2. \A r : r \in UnderWay' <=> \E o \in orphans' : r \in o.data
  BY DEF UnderWay
<1> QED
  BY <1>1, <1>2 DEF Orphans

\* A daemon that ends leaves at most the upload it had begun.
LEMMA Deaths ==
  ASSUME UnknownServer \/ Crash
  PROVE  \E left \in SUBSET {InFlight} : Die(left) /\ (left # {} => pc = "upload")
  BY Zenon DEF UnknownServer, Crash

\* What update_datastreams leaves is of the type of the datastreams.
LEMMA UpdatedTyped ==
  ASSUME line \in Lines, datastreams \in [Sensors -> 0 .. MaxLines]
  PROVE  Updated \in [Sensors -> 0 .. MaxLines]
  BY BoundsAssumption DEF Updated, Lines

----------------------------------------------------------------------------
(* Type correctness.                                                       *)

LEMMA InitTyped == Init => Typed
<1> SUFFICES ASSUME Init PROVE Typed
  OBVIOUS
<1> USE BoundsAssumption DEF Init
<1>1. CountersTyped
  BY DEF CountersTyped, Phases
<1>2. ReadingsTyped
  BY DEF ReadingsTyped, Nothing
<1>3. ListsTyped
  BY DEF ListsTyped
<1> QED
  BY <1>1, <1>2, <1>3 DEF Typed

LEMMA StepCounters == CountersTyped /\ [Next]_vars => CountersTyped'
<1> SUFFICES ASSUME CountersTyped, [Next]_vars PROVE CountersTyped'
  OBVIOUS
<1> USE BoundsAssumption DEF CountersTyped, Phases, unix, files, ghosts
<1>1. CASE ReadLine
  BY <1>1 DEF ReadLine
<1>2. CASE KeepForLater
  BY <1>2 DEF KeepForLater
<1>3. CASE Collect
  BY <1>3 DEF Collect
<1>4. CASE Upload
  <2>1. faults' = faults \/ (faults < MaxFaults /\ faults' = faults + 1)
    BY <1>4, Zenon DEF Upload
  <2>2. pc' = "rotate" /\ UNCHANGED <<config, old_time, now, sets, lines, files>>
    BY <1>4, Zenon DEF Upload
  <2> QED
    BY <2>1, <2>2
<1>5. CASE SkipUpload
  BY <1>5 DEF SkipUpload
<1>6. CASE Rotate
  BY <1>6 DEF Rotate, MoveToBak, MvFails
<1>7. CASE AppendRecord \/ AppendFails
  <2>1. size' \in Nat
    <3>1. \A bytes \in RecordSizes : bytes \in Nat /\ \A part \in 0 .. bytes - 1 : part \in Nat
      OBVIOUS
    <3>2. \E n \in Nat : size' = size + n
      BY <1>7, <3>1 DEF AppendRecord, AppendFails
    <3> QED
      BY <3>2
  <2>2. faults' = faults \/ (faults < MaxFaults /\ faults' = faults + 1)
    BY <1>7, Zenon DEF AppendRecord, AppendFails
  <2>3. /\ pc' = "finish" /\ UNCHANGED <<config, old_time, now, sets, lines, bakSize, mv>>
        /\ written' = written \/ written' = written + 1
    BY <1>7, Zenon DEF AppendRecord, AppendFails
  <2> QED
    BY <2>1, <2>2, <2>3
<1>8. CASE SkipRecord
  BY <1>8 DEF SkipRecord
<1>9. CASE Finish
  BY <1>9 DEF Finish
<1>10. CASE UnknownServer \/ Crash
  <2>1. pc' = "dead" /\ UNCHANGED <<config, old_time, now, sets, lines, files>>
    BY <1>10, Deaths DEF Die
  <2>2. faults' = faults \/ (faults < MaxFaults /\ faults' = faults + 1)
    BY <1>10, Zenon DEF UnknownServer, Crash
  <2> QED
    BY <2>1, <2>2
<1>12. CASE Restart
  BY <1>12 DEF Restart
<1>13. CASE \E has \in SUBSET Sensors : Receive(has)
  BY <1>13 DEF Receive
<1>14. CASE Tick
  BY <1>14 DEF Tick
<1>15. CASE SetClock
  BY <1>15 DEF SetClock
<1>16. CASE UNCHANGED vars
  BY <1>16 DEF vars
<1>17. CASE \E o \in orphans : OrphanEnds(o)
  BY <1>17 DEF OrphanEnds
<1> QED
  BY <1>1, <1>2, <1>3, <1>4, <1>5, <1>6, <1>7, <1>8, <1>9, <1>10, <1>12, <1>13, <1>14, <1>15,
     <1>16, <1>17, Zenon DEF Next, Daemon

LEMMA StepLists == Typed /\ [Next]_vars => ListsTyped'
<1> SUFFICES ASSUME Typed, [Next]_vars PROVE ListsTyped'
  OBVIOUS
<1> USE DEF Typed, ListsTyped
<1>1. CASE UNCHANGED <<sent, file, bak>>
  BY <1>1
<1>2. ASSUME NEW data \in SUBSET Pairs, NEW late \in BOOLEAN,
             sent' = sent \/ sent' = Append(sent, Delivery(data, late)), UNCHANGED <<file, bak>>
      PROVE  ListsTyped'
  <2>1. Delivery(data, late) \in Uploads
    BY DEF Uploads, Delivery, CountersTyped
  <2> QED
    BY <1>2, <2>1, AppendProperties
<1>3. CASE Upload
  <2>1. /\ file' = file /\ bak' = bak
        /\ sent' = sent \/ sent' = Append(sent, Delivery(batch, FALSE))
    BY <1>3, Zenon DEF Upload, files
  <2> QED
    BY <1>2, <2>1 DEF ReadingsTyped
<1>4. ASSUME NEW o \in orphans, OrphanEnds(o) PROVE ListsTyped'
  <2>1. /\ file' = file /\ bak' = bak
        /\ sent' = sent \/ sent' = Append(sent, Delivery(o.data, TRUE))
    BY <1>4, Zenon DEF OrphanEnds, files
  <2> QED
    BY <1>2, <2>1 DEF ReadingsTyped, Orphans
<1>5. CASE Rotate
  <2>1. sent' = sent /\ ((bak' = file /\ file' = <<>>) \/ (bak' = bak /\ file' = file))
    BY <1>5, Zenon DEF Rotate, MoveToBak, MvFails, ghosts
  <2> QED
    BY <2>1, EmptySeq
<1>6. CASE AppendRecord
  <2>1. [no |-> written + 1, from |-> size, mv |-> mv] \in Records
    BY DEF Records, CountersTyped
  <2> QED
    BY <1>6, <2>1 DEF AppendRecord
<1>7. CASE UnknownServer \/ Crash
  BY <1>1, <1>7, Deaths DEF Die, files
<1> QED
  BY <1>1, <1>3, <1>4, <1>5, <1>6, <1>7, Zenon DEF Next, Daemon, ReadLine, KeepForLater, Collect,
     SkipUpload, AppendFails, SkipRecord, Finish, Restart, Receive, Tick, SetClock, vars,
     files, ghosts

LEMMA StepReadings == Typed /\ Phased /\ [Next]_vars => ReadingsTyped'
<1> SUFFICES ASSUME Typed, Phased, [Next]_vars PROVE ReadingsTyped'
  OBVIOUS
<1> USE DEF ReadingsTyped, Typed
<1>1. CASE UNCHANGED <<line, datastreams, latest, batch, reported, lost, orphans, tty>>
  BY <1>1
<1>2. CASE ReadLine
  <2>1. /\ Head(tty) \in Lines /\ Tail(tty) \in Seq(Lines) /\ Len(Tail(tty)) = Len(tty) - 1
    BY <1>2, HeadTailProperties DEF ReadLine
  <2>2. Len(Tail(tty)) <= TtySize
    BY <2>1, BoundsAssumption, LenProperties
  <2> QED
    BY <1>2, <2>1, <2>2 DEF ReadLine, ghosts
<1>3. CASE KeepForLater \/ Collect
  <2>1. line \in Lines /\ Updated \in [Sensors -> 0 .. MaxLines]
    BY <1>3, UpdatedTyped DEF KeepForLater, Collect, Phased
  <2>2. LineReadings(line) \subseteq Pairs /\ Readings(Updated) \subseteq Pairs
    BY <2>1, LineReadingsArePairs, ReadingsArePairs
  <2>3. Nothing \in [Sensors -> 0 .. MaxLines]
    BY BoundsAssumption DEF Nothing
  <2> QED
    BY <1>3, <2>1, <2>2, <2>3 DEF KeepForLater, Collect, unix, files, ghosts
<1>4. CASE Upload \/ AppendRecord \/ AppendFails \/ Finish
  BY <1>4 DEF Upload, AppendRecord, AppendFails, Finish, unix, files, ghosts
<1>5. CASE UnknownServer \/ Crash
  <2>1. /\ Waiting \subseteq Pairs /\ LineReadings(line) \subseteq Pairs
        /\ Readings(datastreams) \subseteq Pairs
    BY WaitingIsPairs, LineReadingsArePairs, ReadingsArePairs
  <2>2. <<>> \in Seq(Lines) /\ Len(<<>>) <= TtySize
    BY BoundsAssumption
  <2>3. Nothing \in [Sensors -> 0 .. MaxLines]
    BY BoundsAssumption DEF Nothing
  <2>4. InFlight \in Orphans
    BY BoundsAssumption DEF InFlight, Orphans, Lines, NoLine
  <2>5. PICK left \in SUBSET {InFlight} : Die(left)
    BY <1>5, Deaths
  <2>6. (tty' = tty \/ tty' = <<>>) /\ lost' \subseteq Pairs
    BY <2>1, <2>5 DEF Die, TtyIfOpen, LostByClose
  <2> QED
    BY <2>2, <2>3, <2>4, <2>5, <2>6 DEF Die
<1>6. ASSUME NEW has \in SUBSET Sensors, Receive(has) PROVE ReadingsTyped'
  <2> DEFINE l == [no |-> lines + 1, has |-> has]
  <2>1. l \in Lines
    BY <1>6, BoundsAssumption DEF Receive, Lines, CountersTyped
  <2>2. LineReadings(l) \subseteq Pairs
    BY <2>1, LineReadingsArePairs
  <2>3. latest' \in [Sensors -> 0 .. MaxLines]
    BY <1>6, BoundsAssumption DEF Receive, CountersTyped
  <2>4. \/ tty' = tty /\ lost' = lost \cup LineReadings(l)
        \/ tty' = Append(tty, l) /\ Len(tty) < TtySize /\ lost' = lost
    BY <1>6, Zenon DEF Receive
  <2>5. tty' \in Seq(Lines) /\ Len(tty') <= TtySize
    <3> HIDE DEF l
    <3>1. tty \in Seq(Lines) /\ Len(tty) <= TtySize /\ Len(tty) \in Nat
      BY LenProperties
    <3>2. Append(tty, l) \in Seq(Lines) /\ Len(Append(tty, l)) = Len(tty) + 1
      BY <2>1, <3>1, AppendProperties
    <3> QED
      BY <2>4, <3>1, <3>2, BoundsAssumption
  <2>6. lost' \subseteq Pairs
    BY <2>2, <2>4
  <2> QED
    BY <1>6, <2>3, <2>5, <2>6 DEF Receive
<1>7. ASSUME NEW o \in orphans, OrphanEnds(o) PROVE ReadingsTyped'
  <2>1. o.data \subseteq Pairs
    BY DEF Orphans
  <2>2. <<>> \in Seq(Lines) /\ Len(<<>>) <= TtySize /\ Waiting \subseteq Pairs
    BY WaitingIsPairs, BoundsAssumption
  <2>3. /\ tty' = tty \/ tty' = <<>>
        /\ lost' \subseteq Pairs /\ reported' \subseteq Pairs
    BY <1>7, <2>1, <2>2 DEF OrphanEnds, TtyIfOpen, LostByClose
  <2> QED
    BY <1>7, <2>2, <2>3 DEF OrphanEnds
<1> QED
  BY <1>1, <1>2, <1>3, <1>4, <1>5, <1>6, <1>7, Zenon DEF Next, Daemon, SkipUpload, Rotate,
     SkipRecord, Restart, Tick, SetClock, vars, unix, files, ghosts

LEMMA TypedTypeOK == Typed => TypeOK
<1> SUFFICES ASSUME Typed PROVE TypeOK
  OBVIOUS
<1>1. \A o \in orphans : o.data \subseteq Pairs
  BY DEF Typed, ReadingsTyped, Orphans
<1> QED
  BY <1>1, Zenon DEF Typed, CountersTyped, ReadingsTyped, TypeOK, Phases, Pairs

\* Every step keeps the types.
LEMMA StepTyped == Typed /\ Phased /\ [Next]_vars => Typed'
  BY StepCounters, StepReadings, StepLists DEF Typed

----------------------------------------------------------------------------
(* Lines, batches and the order of readings.                               *)

LEMMA StepPhased == Typed /\ Phased /\ [Next]_vars => Phased'
<1> SUFFICES ASSUME Typed, Phased, [Next]_vars PROVE Phased'
  OBVIOUS
<1> USE DEF Phased, Reporting, unix, files, ghosts
<1>1. CASE ReadLine
  <2>1. Head(tty) \in Lines
    BY <1>1, HeadTailProperties DEF ReadLine, Typed, ReadingsTyped
  <2> QED
    BY <1>1, <2>1 DEF ReadLine
<1>2. CASE KeepForLater
  <2>1. config.transparent => Updated = datastreams
    BY DEF Updated
  <2> QED
    BY <1>2, <2>1 DEF KeepForLater
<1>3. CASE Collect
  <2>1. line \in Lines
    BY <1>3 DEF Collect
  <2>2. ASSUME ~config.transparent PROVE LineReadings(line) \subseteq Readings(Updated)
    BY <2>1, <2>2 DEF Lines, LineReadings, Readings, Updated
  <2>3. LineReadings(line) \subseteq batch' /\ datastreams' = Nothing
    BY <1>3, <2>2 DEF Collect
  <2> QED
    BY <1>3, <2>3, Zenon DEF Collect, LineReadings
<1>4. CASE Upload \/ SkipUpload \/ Rotate \/ AppendRecord \/ AppendFails \/ SkipRecord
  <2>1. pc \in Reporting /\ pc' \in Reporting /\ UNCHANGED <<config, line, datastreams, batch>>
    BY <1>4, Zenon DEF Upload, SkipUpload, Rotate, AppendRecord, AppendFails, SkipRecord
  <2> QED
    BY <2>1 DEF LineReadings
<1>5. CASE Finish
  BY <1>5 DEF Finish
<1>6. CASE UnknownServer \/ Crash
  BY <1>6, Deaths DEF Die
<1>7. CASE Restart
  BY <1>7 DEF Restart
<1>8. CASE UNCHANGED <<pc, config, line, datastreams, batch>>
  BY <1>8, Zenon DEF LineReadings, Nothing, Lines
<1> QED
  BY <1>1, <1>2, <1>3, <1>4, <1>5, <1>6, <1>7, <1>8, Zenon DEF Next, Daemon, OrphanEnds, Receive,
     Tick, SetClock, vars

\* serialin:read() takes the first line, and the others move up.
LEMMA TtyTail ==
  ASSUME tty \in Seq(Lines), tty # <<>>
  PROVE  /\ Len(tty) \in Nat \ {0} /\ Head(tty) = tty[1] /\ tty[1] \in Lines
         /\ Len(Tail(tty)) = Len(tty) - 1
         /\ \A k \in 1 .. Len(Tail(tty)) : Tail(tty)[k] = tty[k + 1]
<1>1. Len(tty) \in Nat \ {0}
  BY EmptySeq
<1>2. tty[1] \in Lines
  BY <1>1, ElementOfSeq
<1> QED
  BY <1>1, <1>2, HeadTailProperties

\* What a step does to the tty: nothing, a line read, a line more, or all lost.
LEMMA TtyChanges ==
  [Next]_vars =>
    \/ ReadLine /\ tty # <<>> /\ tty' = Tail(tty) /\ lines' = lines
    \/ tty' = tty /\ lines' = lines
    \/ tty' = <<>> /\ lines' = lines
    \/ /\ lines < MaxLines /\ lines' = lines + 1
       /\ tty' = tty \/ \E has \in SUBSET Sensors : tty' = Append(tty, [no |-> lines + 1, has |-> has])
  BY Zenon DEF Next, Daemon, ReadLine, KeepForLater, Collect, Upload, SkipUpload, Rotate,
     AppendRecord, AppendFails, SkipRecord, Finish, UnknownServer, Crash, Die, TtyIfOpen, OrphanEnds,
     Restart, Receive, Tick,
     SetClock, vars, unix, files, ghosts

\* The numbers of the lines in the tty, and how they change with it.
LEMMA TtyNumbers ==
  ASSUME Typed, [Next]_vars
  PROVE  /\ \A k \in 1 .. Len(tty) : tty[k] \in Lines /\ tty[k].no \in Nat \ {0}
         /\ Len(tty) \in Nat /\ Len(tty') \in Nat /\ lines \in Nat
         /\ \/ ReadLine /\ Len(tty') = Len(tty) - 1 /\ lines' = lines
               /\ \A k \in 1 .. Len(tty') : tty'[k] = tty[k + 1]
            \/ tty' = tty /\ (lines' = lines \/ lines' = lines + 1)
            \/ Len(tty') = 0 /\ lines' = lines
            \/ Len(tty') = Len(tty) + 1 /\ lines' = lines + 1
               /\ tty'[Len(tty) + 1].no = lines + 1
               /\ tty'[Len(tty) + 1].has \in SUBSET Sensors
               /\ \A k \in 1 .. Len(tty) : tty'[k] = tty[k]
<1>1. tty \in Seq(Lines) /\ Len(tty) \in Nat /\ lines \in 0 .. MaxLines /\ lines \in Nat
  BY LenProperties, BoundsAssumption DEF Typed, ReadingsTyped, CountersTyped
<1>2. \A k \in 1 .. Len(tty) : tty[k] \in Lines /\ tty[k].no \in Nat \ {0}
  <2>1. \A k \in 1 .. Len(tty) : tty[k] \in Lines
    BY <1>1, ElementOfSeq, Zenon
  <2>2. \A l \in Lines : l.no \in Nat \ {0}
    BY BoundsAssumption DEF Lines
  <2> QED
    BY <2>1, <2>2, Zenon
<1>3. CASE ReadLine /\ tty # <<>> /\ tty' = Tail(tty) /\ lines' = lines
  <2>1. Len(tty') = Len(tty) - 1 /\ \A k \in 1 .. Len(tty') : tty'[k] = tty[k + 1]
    BY <1>1, <1>3, TtyTail, Zenon
  <2>2. Len(tty') \in Nat
    BY <1>1, <1>3, <2>1, TtyTail
  <2> QED
    BY <1>1, <1>2, <1>3, <2>1, <2>2, Zenon
<1>4. CASE tty' = tty /\ lines' = lines
  BY <1>1, <1>2, <1>4
<1>5. CASE tty' = <<>> /\ lines' = lines
  BY <1>1, <1>2, <1>5
<1>6. CASE lines < MaxLines /\ lines' = lines + 1 /\ tty' = tty
  BY <1>1, <1>2, <1>6
<1>7. ASSUME lines < MaxLines, lines' = lines + 1, NEW has \in SUBSET Sensors,
             tty' = Append(tty, [no |-> lines + 1, has |-> has])
      PROVE  /\ Len(tty') = Len(tty) + 1
             /\ tty'[Len(tty) + 1].no = lines + 1 /\ tty'[Len(tty) + 1].has \in SUBSET Sensors
             /\ \A k \in 1 .. Len(tty) : tty'[k] = tty[k]
  <2>1. PICK l \in Lines : l = [no |-> lines + 1, has |-> has]
    BY <1>1, <1>7, BoundsAssumption DEF Lines
  <2>2. l.no = lines + 1 /\ l.has = has /\ tty' = Append(tty, l)
    BY <1>7, <2>1
  <2> QED
    BY <1>1, <2>2, AppendProperties
<1>8. CASE lines < MaxLines /\ lines' = lines + 1
           /\ \E has \in SUBSET Sensors : tty' = Append(tty, [no |-> lines + 1, has |-> has])
  BY <1>1, <1>2, <1>7, <1>8
<1> QED
  BY <1>3, <1>4, <1>5, <1>6, <1>8, TtyChanges, Zenon

LEMMA StepTtyInOrder == Typed /\ TtyInOrder /\ [Next]_vars => TtyInOrder'
<1> SUFFICES ASSUME Typed, TtyInOrder, [Next]_vars PROVE TtyInOrder'
  OBVIOUS
<1> DEFINE len == Len(tty)
           len1 == Len(tty')
<1>1. /\ \A k \in 1 .. len : tty[k].no \in Nat
      /\ len \in Nat /\ len1 \in Nat /\ lines \in Nat
  BY TtyNumbers
<1>2. /\ \A k \in 1 .. len : tty[k].no <= lines
      /\ \A k, l \in 1 .. len : k < l => tty[k].no < tty[l].no
  BY DEF TtyInOrder
<1>3. CASE len1 = len - 1 /\ lines' = lines /\ \A k \in 1 .. len1 : tty'[k] = tty[k + 1]
  <2> HIDE DEF len, len1
  <2>1. \A k \in 1 .. len1 : k + 1 \in 1 .. len /\ tty'[k] = tty[k + 1]
    BY <1>1, <1>3
  <2>2. \A k \in 1 .. len1 : tty'[k].no <= lines'
    BY <1>2, <1>3, <2>1
  <2>3. ASSUME NEW k \in 1 .. len1, NEW l \in 1 .. len1, k < l PROVE tty'[k].no < tty'[l].no
    <3>1. k + 1 < l + 1
      BY <1>1, <2>3
    <3> QED
      BY <1>2, <2>1, <3>1
  <2> QED
    BY <2>2, <2>3 DEF TtyInOrder, len1
<1>4. CASE tty' = tty /\ (lines' = lines \/ lines' = lines + 1)
  BY <1>1, <1>2, <1>4 DEF TtyInOrder
<1>5. CASE len1 = 0
  BY <1>5 DEF TtyInOrder
<1>6. CASE /\ len1 = len + 1 /\ lines' = lines + 1 /\ tty'[len + 1].no = lines + 1
           /\ \A k \in 1 .. len : tty'[k] = tty[k]
  <2> HIDE DEF len, len1
  <2>1. \A k \in 1 .. len1 : k \in 1 .. len \/ k = len + 1
    BY <1>1, <1>6
  <2>2. \A k \in 1 .. len : tty'[k].no <= lines /\ tty'[k].no \in Nat
    BY <1>1, <1>2, <1>6
  <2>3. \A k \in 1 .. len1 : tty'[k].no <= lines'
    BY <1>1, <1>6, <2>1, <2>2
  <2>4. ASSUME NEW k \in 1 .. len1, NEW l \in 1 .. len1, k < l PROVE tty'[k].no < tty'[l].no
    <3>1. k \in 1 .. len /\ (l \in 1 .. len \/ l = len + 1)
      BY <1>1, <1>6, <2>1, <2>4
    <3>2. CASE l \in 1 .. len
      BY <1>2, <1>6, <2>4, <3>1, <3>2
    <3>3. CASE l = len + 1
      BY <1>1, <1>6, <2>2, <3>1, <3>3
    <3> QED
      BY <3>1, <3>2, <3>3
  <2> QED
    BY <2>3, <2>4, Zenon DEF TtyInOrder, len1
<1> QED
  BY <1>3, <1>4, <1>5, <1>6, TtyNumbers, Zenon

\* What is past stays past, and the line that is read becomes it.
LEMMA PastKept ==
  ASSUME Typed, TtyInOrder, [Next]_vars
  PROVE  /\ \A n \in Nat : Past(n) => Past(n)'
         /\ ReadLine => \A n \in Nat : n = tty[1].no => Past(n)'
         /\ Past(0)'
<1> DEFINE len == Len(tty)
           len1 == Len(tty')
<1>1. /\ \A k \in 1 .. len : tty[k].no \in Nat \ {0}
      /\ len \in Nat /\ len1 \in Nat /\ lines \in Nat
  BY TtyNumbers
<1>2. /\ \A k \in 1 .. len : tty[k].no <= lines
      /\ \A k, l \in 1 .. len : k < l => tty[k].no < tty[l].no
  BY DEF TtyInOrder
<1>3. CASE ReadLine /\ len1 = len - 1 /\ lines' = lines /\ \A k \in 1 .. len1 : tty'[k] = tty[k + 1]
  <2> HIDE DEF len, len1
  <2>1. \A k \in 1 .. len1 : /\ k + 1 \in 1 .. len /\ tty'[k] = tty[k + 1]
                             /\ 1 < k + 1 /\ 1 \in 1 .. len
    BY <1>1, <1>3
  <2>2. \A n \in Nat : Past(n) => Past(n)'
    BY <1>3, <2>1 DEF Past, len, len1
  <2>3. 1 \in 1 .. len
    BY <1>1, <1>3
  <2>4. tty[1].no <= lines' /\ \A k \in 1 .. len1 : tty[1].no < tty'[k].no
    BY <1>2, <1>3, <2>1, <2>3
  <2>5. \A k \in 1 .. len1 : 0 < tty'[k].no
    BY <1>1, <2>1
  <2>6. 0 <= lines'
    BY <1>1, <1>3
  <2> QED
    BY <2>2, <2>4, <2>5, <2>6, Zenon DEF Past, len1
<1>4. CASE tty' = tty /\ (lines' = lines \/ lines' = lines + 1)
  <2>1. \A n \in Nat : Past(n) => Past(n)'
    BY <1>1, <1>4 DEF Past
  <2>2. Past(0)'
    BY <1>1, <1>4 DEF Past
  <2>3. ~ReadLine
    BY <1>1, <1>4, TtyTail DEF ReadLine, Typed, ReadingsTyped
  <2> QED
    BY <2>1, <2>2, <2>3
<1>5. CASE len1 = 0 /\ lines' = lines
  <2>1. \A n \in Nat : n <= lines => Past(n)'
    BY <1>5 DEF Past
  <2>2. ReadLine => tty[1].no <= lines /\ tty[1].no \in Nat
    BY <1>1, <1>2, TtyTail DEF ReadLine, Typed, ReadingsTyped
  <2>3. \A n \in Nat : Past(n) => Past(n)'
    BY <2>1 DEF Past
  <2>4. 0 \in Nat /\ 0 <= lines
    BY <1>1
  <2> QED
    BY <2>1, <2>2, <2>3, <2>4, Zenon
<1>6. CASE /\ len1 = len + 1 /\ lines' = lines + 1 /\ tty'[len + 1].no = lines + 1
           /\ \A k \in 1 .. len : tty'[k] = tty[k]
  <2> HIDE DEF len, len1
  <2>1. \A k \in 1 .. len1 : k \in 1 .. len \/ k = len + 1
    BY <1>1, <1>6
  <2>2. ASSUME NEW n \in Nat, Past(n) PROVE Past(n)'
    <3>1. n <= lines /\ \A k \in 1 .. len : n < tty[k].no
      BY <2>2 DEF Past, len
    <3>2. n <= lines' /\ n < lines + 1
      BY <1>1, <1>6, <3>1
    <3>3. \A k \in 1 .. len1 : n < tty'[k].no
      BY <1>6, <2>1, <3>1, <3>2
    <3> QED
      BY <3>2, <3>3 DEF Past, len1
  <2>3. Past(0)
    BY <1>1 DEF Past, len
  <2>4. ~ReadLine
    BY <1>1, <1>6 DEF ReadLine
  <2>5. 0 \in Nat
    OBVIOUS
  <2> QED
    BY <2>2, <2>3, <2>4, <2>5, Zenon
<1> QED
  BY <1>3, <1>4, <1>5, <1>6, TtyNumbers, Zenon

LEMMA Numbers ==
  ASSUME Typed
  PROVE  /\ line.no \in Nat /\ \A s \in Sensors : datastreams[s] \in Nat
         /\ \A r \in Pairs : r[1] \in Sensors /\ r[2] \in Nat /\ r = <<r[1], r[2]>>
         /\ \A i \in 1 .. Len(sent) : sent[i] \in Uploads /\ sent[i].data \subseteq Pairs
         /\ Len(sent) \in Nat
<1>1. \A i \in 1 .. Len(sent) : sent[i] \in Uploads
  BY ElementOfSeq DEF Typed, ListsTyped
<1>2. \A u \in Uploads : u.data \subseteq Pairs
  BY DEF Uploads
<1>3. Len(sent) \in Nat
  BY LenProperties DEF Typed, ListsTyped
<1>4. line.no \in Nat
  BY BoundsAssumption DEF Typed, ReadingsTyped, Lines, NoLine
<1>5. \A s \in Sensors : datastreams[s] \in Nat
  BY BoundsAssumption DEF Typed, ReadingsTyped
<1>6. \A r \in Pairs : r[1] \in Sensors /\ r[2] \in Nat /\ r = <<r[1], r[2]>>
  BY BoundsAssumption DEF Pairs
<1> QED
  BY <1>1, <1>2, <1>3, <1>4, <1>5, <1>6

\* Where the line, the values and the batch of a new state come from.
LEMMA LineChanges ==
  [Next]_vars => \/ line' = line /\ ~ReadLine
                 \/ line' = NoLine
                 \/ ReadLine /\ line' = Head(tty)
  BY Zenon DEF Next, Daemon, ReadLine, KeepForLater, Collect, Upload, SkipUpload, Rotate,
     AppendRecord, AppendFails, SkipRecord, Finish, UnknownServer, Crash, Die, TtyIfOpen, OrphanEnds,
     Restart, Receive, Tick,
     SetClock, vars, unix, files, ghosts

LEMMA ValueChanges ==
  ASSUME Typed, Phased, [Next]_vars, NEW s \in Sensors
  PROVE  \/ datastreams' = datastreams \/ datastreams'[s] = 0
         \/ KeepForLater /\ (datastreams'[s] = datastreams[s] \/ datastreams'[s] = line.no)
<1>1. \/ datastreams' = datastreams \/ datastreams' = Nothing
      \/ KeepForLater /\ datastreams' = Updated
  BY Zenon DEF Next, Daemon, ReadLine, KeepForLater, Collect, Upload, SkipUpload, Rotate,
     AppendRecord, AppendFails, SkipRecord, Finish, UnknownServer, Crash, Die, TtyIfOpen, OrphanEnds,
     Restart, Receive, Tick,
     SetClock, vars, unix, files, ghosts
<1>2. Nothing[s] = 0 /\ (Updated[s] = datastreams[s] \/ Updated[s] = line.no)
  BY DEF Nothing, Updated
<1> QED
  BY <1>1, <1>2, Zenon

LEMMA BatchChanges ==
  ASSUME Typed, Phased, [Next]_vars
  PROVE  \/ batch' = batch /\ ~Collect
         \/ batch' = {}
         \/ /\ Collect
            /\ \A r \in batch' : /\ r[1] \in Sensors
                                 /\ \/ r[2] = line.no
                                    \/ datastreams[r[1]] # 0 /\ r[2] = datastreams[r[1]]
<1>1. \/ batch' = batch /\ ~Collect
      \/ batch' = {}
      \/ Collect /\ (batch' = LineReadings(line) \/ batch' = Readings(Updated))
  BY Zenon DEF Next, Daemon, ReadLine, KeepForLater, Collect, Upload, SkipUpload, Rotate,
     AppendRecord, AppendFails, SkipRecord, Finish, UnknownServer, Crash, Die, TtyIfOpen, OrphanEnds,
     Restart, Receive, Tick,
     SetClock, vars, unix, files, ghosts
<1>2. CASE Collect /\ (batch' = LineReadings(line) \/ batch' = Readings(Updated))
  <2>1. line \in Lines
    BY <1>2 DEF Collect, Phased
  <2>2. \A r \in LineReadings(line) : r[1] \in Sensors /\ r[2] = line.no
    BY <2>1 DEF LineReadings, Lines
  <2>3. \A s \in Sensors : Updated[s] = line.no \/ Updated[s] = datastreams[s]
    BY DEF Updated
  <2>4. \A r \in Readings(Updated) : r[1] \in Sensors /\ r[2] # 0 /\ r[2] = Updated[r[1]]
    BY DEF Readings
  <2>5. \A r \in Readings(Updated) : \/ r[2] = line.no
                                     \/ datastreams[r[1]] # 0 /\ r[2] = datastreams[r[1]]
    BY <2>3, <2>4
  <2> QED
    BY <1>2, <2>2, <2>4, <2>5, Zenon
<1> QED
  BY <1>1, <1>2

\* The server receives the upload of a daemon or of an orphan.
LEMMA SentChanges ==
  ASSUME Typed, [Next]_vars
  PROVE  \/ sent' = sent
         \/ \E data \in SUBSET Pairs, late \in BOOLEAN :
              /\ \/ Upload /\ data = batch /\ ~late /\ orphans' = orphans
                 \/ late /\ \E o \in orphans :
                      OrphanEnds(o) /\ data = o.data /\ orphans' = orphans \ {o}
              /\ Len(sent') = Len(sent) + 1
              /\ sent'[Len(sent) + 1] = Delivery(data, late)
              /\ \A i \in 1 .. Len(sent) : sent'[i] = sent[i]
<1>1. \/ sent' = sent
      \/ Upload /\ sent' = Append(sent, Delivery(batch, FALSE)) /\ orphans' = orphans
      \/ \E o \in orphans : /\ OrphanEnds(o) /\ orphans' = orphans \ {o}
                            /\ sent' = Append(sent, Delivery(o.data, TRUE))
  BY Zenon DEF Next, Daemon, ReadLine, KeepForLater, Collect, Upload, SkipUpload, Rotate,
     AppendRecord, AppendFails, SkipRecord, Finish, UnknownServer, Crash, Die, TtyIfOpen, OrphanEnds,
     Restart, Receive, Tick, SetClock, vars, unix, files, ghosts
<1>2. ASSUME NEW data \in SUBSET Pairs, NEW late \in BOOLEAN,
             sent' = Append(sent, Delivery(data, late))
      PROVE  /\ Len(sent') = Len(sent) + 1
             /\ sent'[Len(sent) + 1] = Delivery(data, late)
             /\ \A i \in 1 .. Len(sent) : sent'[i] = sent[i]
  <2>1. Delivery(data, late) \in Uploads /\ sent \in Seq(Uploads)
    BY DEF Typed, ListsTyped, CountersTyped, Uploads, Delivery
  <2> QED
    BY <1>2, <2>1, AppendProperties
<1>3. CASE Upload /\ sent' = Append(sent, Delivery(batch, FALSE)) /\ orphans' = orphans
  <2>1. batch \in SUBSET Pairs
    BY DEF Typed, ReadingsTyped
  <2> QED
    BY <1>2, <1>3, <2>1, Zenon
<1>4. ASSUME NEW o \in orphans, OrphanEnds(o), orphans' = orphans \ {o},
             sent' = Append(sent, Delivery(o.data, TRUE))
      PROVE  \E data \in SUBSET Pairs, late \in BOOLEAN :
              /\ late /\ OrphanEnds(o) /\ data = o.data /\ orphans' = orphans \ {o}
              /\ Len(sent') = Len(sent) + 1
              /\ sent'[Len(sent) + 1] = Delivery(data, late)
              /\ \A i \in 1 .. Len(sent) : sent'[i] = sent[i]
  <2>1. o.data \in SUBSET Pairs
    BY DEF Typed, ReadingsTyped, Orphans
  <2> QED
    BY <1>2, <1>4, <2>1, Zenon
<1> QED
  BY <1>1, <1>3, <1>4, Zenon

LEMMA InReleased ==
  /\ \A r : r \in Released <=> \/ \E i \in 1 .. Len(sent) : r \in sent[i].data
                               \/ \E o \in orphans : r \in o.data
  /\ \A r : r \in Released' <=> \/ \E i \in 1 .. Len(sent') : r \in sent'[i].data
                                \/ \E o \in orphans' : r \in o.data
  /\ Typed => Released \subseteq Pairs
<1>1. \A r : r \in Released <=> \/ \E i \in 1 .. Len(sent) : r \in sent[i].data
                               \/ \E o \in orphans : r \in o.data
  <2>1. \A r : r \in Received <=> \E i \in 1 .. Len(sent) : r \in sent[i].data
    BY DEF Received
  <2> QED
    BY <2>1, UnderWayIsPairs DEF Released
<1>2. \A r : r \in Released' <=> \/ \E i \in 1 .. Len(sent') : r \in sent'[i].data
                                \/ \E o \in orphans' : r \in o.data
  <2>1. \A r : r \in Received' <=> \E i \in 1 .. Len(sent') : r \in sent'[i].data
    BY DEF Received
  <2> QED
    BY <2>1, UnderWayIsPairs DEF Released
<1>3. ASSUME Typed PROVE Released \subseteq Pairs
  <2>1. \A o \in orphans : o.data \subseteq Pairs
    BY <1>3 DEF Typed, ReadingsTyped, Orphans
  <2> QED
    BY <1>1, <1>3, <2>1, Numbers
<1> QED
  BY <1>1, <1>2, <1>3

\* What becomes of the orphans: one ends, or a daemon leaves one.
LEMMA OrphanChanges ==
  ASSUME Typed, [Next]_vars
  PROVE  \/ orphans' = orphans
         \/ orphans' \subseteq orphans /\ ~Upload
         \/ /\ orphans' = orphans \cup {InFlight} /\ sent' = sent
            /\ pc = "upload" /\ pc' = "dead"
<1>1. ASSUME UnknownServer \/ Crash
      PROVE  \/ orphans' = orphans
             \/ /\ orphans' = orphans \cup {InFlight} /\ sent' = sent
                /\ pc = "upload" /\ pc' = "dead"
  <2>1. PICK left \in SUBSET {InFlight} : Die(left) /\ (left # {} => pc = "upload")
    BY <1>1, Deaths
  <2>2. left = {} \/ left = {InFlight}
    BY <2>1
  <2> QED
    BY <2>1, <2>2 DEF Die
<1>2. ASSUME NEW o \in orphans, OrphanEnds(o) PROVE orphans' \subseteq orphans /\ ~Upload
  <2>1. pc' = pc /\ orphans' = orphans \ {o}
    BY <1>2 DEF OrphanEnds
  <2>2. ~Upload
    BY <2>1 DEF Upload
  <2> QED
    BY <2>1, <2>2
<1> QED
  BY <1>1, <1>2, Zenon DEF Next, Daemon, ReadLine, KeepForLater, Collect, Upload, SkipUpload,
     Rotate, AppendRecord, AppendFails, SkipRecord, Finish, Restart, Receive, Tick, SetClock, vars

\* Nothing leaves the daemon but the batch it uploads.
LEMMA ReleasedChanges ==
  ASSUME Typed, [Next]_vars
  PROVE  \/ Released' \subseteq Released
         \/ /\ Released' \subseteq Released \cup batch
            /\ pc = "upload" /\ pc' \in {"rotate", "dead"}
<1>1. ASSUME NEW r \in Released', r \notin Released
      PROVE  r \in batch /\ pc = "upload" /\ pc' \in {"rotate", "dead"}
  <2>1. CASE \E o \in orphans' : r \in o.data
    <3>1. PICK o \in orphans' : r \in o.data
      BY <2>1
    <3>2. o \notin orphans
      BY <1>1, <3>1, InReleased
    <3>3. o = InFlight /\ pc = "upload" /\ pc' = "dead"
      BY <3>2, OrphanChanges
    <3> QED
      BY <3>1, <3>3 DEF InFlight
  <2>2. CASE \E i \in 1 .. Len(sent') : r \in sent'[i].data
    <3>1. PICK i \in 1 .. Len(sent') : r \in sent'[i].data
      BY <2>2
    <3>2. ~\E j \in 1 .. Len(sent) : r \in sent[j].data
      BY <1>1, InReleased
    <3>3. PICK data \in SUBSET Pairs, late \in BOOLEAN :
              /\ (Upload /\ data = batch) \/ \E o \in orphans : data = o.data
              /\ Len(sent') = Len(sent) + 1
              /\ sent'[Len(sent) + 1] = Delivery(data, late)
              /\ \A j \in 1 .. Len(sent) : sent'[j] = sent[j]
      BY <3>1, <3>2, SentChanges
    <3>4. i = Len(sent) + 1
      BY <3>1, <3>2, <3>3, Numbers
    <3>5. r \in data
      BY <3>1, <3>3, <3>4 DEF Delivery
    <3>6. Upload /\ data = batch
      BY <1>1, <3>3, <3>5, InReleased
    <3> QED
      BY <3>5, <3>6 DEF Upload
  <2> QED
    BY <1>1, <2>1, <2>2, InReleased
<1> QED
  BY <1>1

LEMMA StepAllPast ==
  Typed /\ Phased /\ TtyInOrder /\ AllPast /\ [Next]_vars => AllPast'
<1> SUFFICES ASSUME Typed, Phased, TtyInOrder, AllPast, [Next]_vars PROVE AllPast'
  OBVIOUS
<1>1. /\ \A n \in Nat : Past(n) => Past(n)'
      /\ ReadLine => \A n \in Nat : n = tty[1].no => Past(n)'
      /\ Past(0)'
  BY PastKept
<1>2. /\ line.no \in Nat /\ \A s \in Sensors : datastreams[s] \in Nat
      /\ \A r \in batch : r[1] \in Sensors /\ r[2] \in Nat
      /\ \A r \in Released : r[2] \in Nat
  BY Numbers, InReleased DEF Typed, ReadingsTyped
<1>3. PICK n \in Nat : n = line'.no /\ Past(n)'
  <2>1. CASE line' = line
    BY <2>1, <1>1, <1>2 DEF AllPast
  <2>2. CASE line' = NoLine
    BY <2>2, <1>1 DEF NoLine
  <2>3. CASE ReadLine /\ line' = Head(tty)
    <3>1. Head(tty) = tty[1] /\ tty[1].no \in Nat
      BY <2>3, TtyTail, BoundsAssumption DEF ReadLine, Typed, ReadingsTyped, Lines
    <3> QED
      BY <2>3, <3>1, <1>1
  <2> QED
    BY <2>1, <2>2, <2>3, LineChanges
<1>4. ASSUME NEW s \in Sensors PROVE \E m \in Nat : m = datastreams'[s] /\ Past(m)'
  BY <1>1, <1>2, ValueChanges DEF AllPast
<1>5. ASSUME NEW r \in batch' PROVE \E m \in Nat : m = r[2] /\ Past(m)'
  BY <1>1, <1>2, BatchChanges DEF AllPast
<1>6. ASSUME NEW r \in Released'
      PROVE  \E m \in Nat : m = r[2] /\ Past(m)'
  <2>1. r \in batch \/ r \in Released
    BY <1>6, ReleasedChanges
  <2> QED
    BY <1>1, <1>2, <2>1 DEF AllPast
<1> QED
  BY <1>3, <1>4, <1>5, <1>6 DEF AllPast, Past

LEMMA StepHeldFresh ==
  Typed /\ Phased /\ AllPast /\ HeldFresh /\ [Next]_vars => HeldFresh'
<1> SUFFICES ASSUME Typed, Phased, AllPast, HeldFresh, [Next]_vars PROVE HeldFresh'
  OBVIOUS
<1> DEFINE Same == Released' \subseteq Released
<1>1. ASSUME ~Same PROVE HeldFresh'
  <2>1. pc = "upload" /\ pc' \in {"rotate", "dead"}
    BY <1>1, ReleasedChanges
  <2>2. datastreams = Nothing /\ ~KeepForLater
    BY <2>1 DEF Phased, Reporting, KeepForLater
  <2>3. \A s \in Sensors : datastreams'[s] = 0
    BY <2>2, ValueChanges DEF Nothing
  <2> QED
    BY <2>1, <2>3 DEF HeldFresh
<1>2. CASE Same /\ ReadLine
  <2>1. line' = tty[1] /\ 1 \in 1 .. Len(tty) /\ pc = "read" /\ pc' = "update"
        /\ datastreams' = datastreams
    BY <1>2, TtyTail DEF ReadLine, Typed, ReadingsTyped
  <2>2. \A s \in Sensors : datastreams[s] < tty[1].no
    BY <2>1 DEF AllPast, Past
  <2>3. \A r \in Released : r[2] < tty[1].no
    BY <2>1 DEF AllPast, Past
  <2>4. \A s \in Sensors : datastreams'[s] # 0 =>
           \A r \in Released' : r[1] = s => r[2] < datastreams'[s]
    BY <1>2, <2>1 DEF HeldFresh, Fresh
  <2>5. \A r \in Released' : r[2] < line'.no
    BY <1>2, <2>1, <2>3
  <2> QED
    BY <2>1, <2>2, <2>4, <2>5, Zenon DEF HeldFresh, Fresh
<1>3. CASE Same /\ KeepForLater
  <2>1. pc = "update" /\ pc' = "read"
    BY <1>3 DEF KeepForLater
  <2>2. ASSUME NEW s \in Sensors, datastreams'[s] # 0
        PROVE  \A r \in Released : r[1] = s => r[2] < datastreams'[s]
    <3>1. datastreams'[s] = datastreams[s] \/ datastreams'[s] = line.no
      BY <1>3, <2>2, ValueChanges
    <3>2. CASE datastreams'[s] = datastreams[s]
      BY <2>2, <3>2 DEF HeldFresh, Fresh
    <3>3. CASE datastreams'[s] = line.no
      BY <2>1, <3>3 DEF HeldFresh, Fresh
    <3> QED
      BY <3>1, <3>2, <3>3
  <2>3. \A s \in Sensors : datastreams'[s] # 0 =>
           \A r \in Released' : r[1] = s => r[2] < datastreams'[s]
    BY <1>3, <2>2
  <2> QED
    BY <2>1, <2>3, Zenon DEF HeldFresh, Fresh
<1>4. CASE Same /\ Collect
  <2>1. pc = "update" /\ pc' = "upload" /\ datastreams' = Nothing
    BY <1>4, Zenon DEF Collect, Phased
  <2>2. ASSUME NEW r \in batch'
        PROVE  \A q \in Released : q[1] = r[1] => q[2] < r[2]
    <3>1. /\ r[1] \in Sensors
          /\ \/ r[2] = line.no
             \/ datastreams[r[1]] # 0 /\ r[2] = datastreams[r[1]]
      BY <1>4, BatchChanges
    <3>2. CASE r[2] = line.no
      BY <2>1, <3>1, <3>2 DEF HeldFresh, Fresh
    <3>3. CASE datastreams[r[1]] # 0 /\ r[2] = datastreams[r[1]]
      BY <3>1, <3>3 DEF HeldFresh, Fresh
    <3> QED
      BY <3>1, <3>2, <3>3
  <2>3. \A s \in Sensors : datastreams'[s] = 0
    BY <2>1 DEF Nothing
  <2>4. \A r \in batch' : \A q \in Released' : q[1] = r[1] => q[2] < r[2]
    BY <1>4, <2>2
  <2> QED
    BY <2>1, <2>3, <2>4, Zenon DEF HeldFresh, Fresh
<1>5. CASE UnknownServer \/ Crash
  <2>1. pc' = "dead" /\ \A s \in Sensors : datastreams'[s] = 0
    BY <1>5, Deaths DEF Die, Nothing
  <2> QED
    BY <2>1 DEF HeldFresh
<1>6. ASSUME Same, datastreams' = datastreams,
             pc' \notin {"update", "upload"} \/ UNCHANGED <<pc, line, batch>>
      PROVE  HeldFresh'
  <2>1. ASSUME NEW s, NEW n, Fresh(s, n) PROVE \A r \in Released' : r[1] = s => r[2] < n
    BY <1>6, <2>1 DEF Fresh
  <2> QED
    BY <1>6, <2>1, Zenon DEF HeldFresh, Fresh
<1>7. CASE SkipUpload \/ Upload \/ Rotate \/ AppendRecord \/ AppendFails \/ SkipRecord \/ Finish
            \/ Restart
  <2>1. datastreams' = datastreams /\ pc' \notin {"update", "upload"}
    BY <1>7 DEF SkipUpload, Upload, Rotate, AppendRecord, AppendFails, SkipRecord, Finish, Restart
  <2> QED
    BY <1>1, <1>6, <2>1
<1>8. CASE (\E has \in SUBSET Sensors : Receive(has)) \/ (\E o \in orphans : OrphanEnds(o))
            \/ Tick \/ SetClock \/ UNCHANGED vars
  <2>1. UNCHANGED <<datastreams, pc, line, batch>>
    BY <1>8, Zenon DEF Receive, OrphanEnds, Tick, SetClock, vars
  <2> QED
    BY <1>1, <1>6, <2>1
<1> QED
  BY <1>1, <1>2, <1>3, <1>4, <1>5, <1>7, <1>8, Zenon DEF Next, Daemon

\* The batch that is uploaded has nothing that has left the daemon before.
LEMMA BatchApart ==
  ASSUME Typed, HeldFresh, pc = "upload"
  PROVE  /\ \A o \in orphans : batch \cap o.data = {}
         /\ \A i \in 1 .. Len(sent) : batch \cap sent[i].data = {}
<1>1. \A r \in batch : r[2] \in Nat
  BY Numbers DEF Typed, ReadingsTyped
<1>2. \A r \in batch : r \notin Released
  BY <1>1 DEF HeldFresh, Fresh
<1> QED
  BY <1>2, InReleased

LEMMA StepApart == Typed /\ HeldFresh /\ OrphansApart /\ [Next]_vars => OrphansApart'
<1> SUFFICES ASSUME Typed, HeldFresh, OrphansApart, [Next]_vars PROVE OrphansApart'
  OBVIOUS
<1>1. CASE sent' = sent /\ orphans' \subseteq orphans
  BY <1>1 DEF OrphansApart
<1>2. CASE orphans' = orphans \cup {InFlight} /\ sent' = sent /\ pc = "upload"
  <2>1. InFlight.data = batch
    BY DEF InFlight
  <2>2. \A o \in orphans' : \A i \in 1 .. Len(sent) : o.data \cap sent[i].data = {}
    BY <1>2, <2>1, BatchApart DEF OrphansApart
  <2>3. ASSUME NEW o \in orphans', NEW q \in orphans', o # q PROVE o.data \cap q.data = {}
    <3>1. CASE o \in orphans /\ q \in orphans
      BY <2>3, <3>1 DEF OrphansApart
    <3>2. CASE o \in orphans /\ q = InFlight
      BY <1>2, <2>1, <3>2, BatchApart
    <3>3. CASE o = InFlight /\ q \in orphans
      BY <1>2, <2>1, <3>3, BatchApart
    <3> QED
      BY <1>2, <2>3, <3>1, <3>2, <3>3
  <2> QED
    BY <1>2, <2>2, <2>3 DEF OrphansApart
<1>3. CASE sent' # sent
  <2>1. PICK data \in SUBSET Pairs, late \in BOOLEAN :
              /\ \/ Upload /\ data = batch /\ ~late /\ orphans' = orphans
                 \/ late /\ \E o \in orphans :
                      OrphanEnds(o) /\ data = o.data /\ orphans' = orphans \ {o}
              /\ Len(sent') = Len(sent) + 1
              /\ sent'[Len(sent) + 1] = Delivery(data, late)
              /\ \A i \in 1 .. Len(sent) : sent'[i] = sent[i]
    BY <1>3, SentChanges
  <2>2. orphans' \subseteq orphans /\ \A o \in orphans' : o.data \cap data = {}
    <3>1. CASE Upload /\ data = batch /\ orphans' = orphans
      BY <3>1, BatchApart DEF Upload
    <3>2. CASE \E o \in orphans : data = o.data /\ orphans' = orphans \ {o}
      BY <3>2 DEF OrphansApart
    <3> QED
      BY <2>1, <3>1, <3>2
  <2>3. Len(sent) \in Nat /\ sent'[Len(sent) + 1].data = data
    BY <2>1, Numbers DEF Delivery
  <2>4. ASSUME NEW o \in orphans', NEW i \in 1 .. Len(sent') PROVE o.data \cap sent'[i].data = {}
    <3>1. i \in 1 .. Len(sent) \/ i = Len(sent) + 1
      BY <2>1, <2>3
    <3>2. CASE i \in 1 .. Len(sent)
      BY <2>1, <2>2, <3>2 DEF OrphansApart
    <3>3. CASE i = Len(sent) + 1
      BY <2>2, <2>3, <3>3
    <3> QED
      BY <3>1, <3>2, <3>3
  <2> QED
    BY <2>2, <2>4 DEF OrphansApart
<1> QED
  BY <1>1, <1>2, <1>3, OrphanChanges

LEMMA StepNewer ==
  Typed /\ HeldFresh /\ OrphansApart /\ UploadsGetNewer /\ [Next]_vars => UploadsGetNewer'
<1> SUFFICES ASSUME Typed, HeldFresh, OrphansApart, UploadsGetNewer, [Next]_vars
             PROVE  UploadsGetNewer'
  OBVIOUS
<1>1. CASE sent' = sent
  BY <1>1 DEF UploadsGetNewer
<1>2. CASE sent' # sent
  <2> DEFINE len == Len(sent)
  <2>1. PICK data \in SUBSET Pairs, late \in BOOLEAN :
              /\ \/ Upload /\ data = batch /\ ~late
                 \/ late /\ \E o \in orphans : data = o.data
              /\ Len(sent') = len + 1
              /\ sent'[len + 1] = Delivery(data, late)
              /\ \A i \in 1 .. len : sent'[i] = sent[i]
    BY <1>2, SentChanges
  <2>2. len \in Nat /\ sent'[len + 1].data = data /\ sent'[len + 1].late = late
    BY <2>1, Numbers DEF Delivery
  <2>3. ASSUME NEW i \in 1 .. len, NEW a \in sent[i].data, NEW b \in data
        PROVE  a # b /\ (a[1] = b[1] /\ ~late => a[2] < b[2])
    <3>1. CASE Upload /\ data = batch /\ ~late
      <4>1. a \in Released
        BY InReleased
      <4>2. a # b
        BY <2>3, <3>1, BatchApart DEF Upload
      <4>3. a[1] = b[1] => a[2] < b[2]
        BY <2>3, <3>1, <4>1 DEF HeldFresh, Fresh, Upload
      <4> QED
        BY <4>2, <4>3
    <3>2. CASE late /\ \E o \in orphans : data = o.data
      BY <2>3, <3>2 DEF OrphansApart
    <3> QED
      BY <2>1, <3>1, <3>2
  <2> HIDE DEF len
  <2>4. ASSUME NEW i \in 1 .. len + 1, NEW j \in 1 .. len + 1, i < j,
               NEW a \in sent'[i].data, NEW b \in sent'[j].data
        PROVE  a # b /\ (a[1] = b[1] /\ ~sent'[j].late => a[2] < b[2])
    <3>1. i \in 1 .. len /\ (j \in 1 .. len \/ j = len + 1)
      BY <2>2, <2>4
    <3>2. CASE j = len + 1
      BY <2>1, <2>2, <2>3, <2>4, <3>1, <3>2
    <3>3. CASE j \in 1 .. len
      BY <2>1, <2>4, <3>1, <3>3 DEF UploadsGetNewer, len
    <3> QED
      BY <3>1, <3>2, <3>3
  <2> QED
    BY <2>1, <2>4, Zenon DEF UploadsGetNewer
<1> QED
  BY <1>1, <1>2

LEMMA InitOrderInv == Init => OrderInv
<1> SUFFICES ASSUME Init PROVE OrderInv
  OBVIOUS
<1> USE DEF Init
<1>1. Phased
  BY DEF Phased, Reporting
<1>2. TtyInOrder /\ UploadsGetNewer /\ OrphansApart
  BY DEF TtyInOrder, UploadsGetNewer, OrphansApart
<1>3. AllPast
  BY DEF AllPast, Past, NoLine, Nothing, Released, Received, UnderWay
<1>4. HeldFresh
  BY DEF HeldFresh, Nothing
<1> QED
  BY <1>1, <1>2, <1>3, <1>4 DEF OrderInv

LEMMA StepOrderInv == Typed /\ OrderInv /\ [Next]_vars => OrderInv'
  BY StepPhased, StepTtyInOrder, StepAllPast, StepHeldFresh, StepApart, StepNewer, Zenon
     DEF OrderInv

LEMMA SpecOrdered == Spec => [](Typed /\ OrderInv)
<1>1. Init => Typed /\ OrderInv
  BY InitTyped, InitOrderInv
<1>2. Typed /\ OrderInv /\ [Next]_vars => (Typed /\ OrderInv)'
  BY StepTyped, StepOrderInv DEF OrderInv
<1> QED
  BY <1>1, <1>2, PTL DEF Spec

\* Every variable keeps its type: no count passes its bound, and a value or a
\* loss is always one of a sensor that is configured.
THEOREM TypeCorrect == Spec => []TypeOK
  BY SpecOrdered, TypedTypeOK, PTL

\* The server gets no reading twice, and what a daemon uploads is newer than
\* what it has got before: over crashes, uploads that outlive their daemon and come
\* at any later time, restarts with another configuration, lines lost by a full
\* tty, and clocks set back (the datastreams are cleared before they are sent).
THEOREM NewerUploads == Spec => []UploadsGetNewer
<1>1. OrderInv => UploadsGetNewer
  BY DEF OrderInv
<1> QED
  BY <1>1, SpecOrdered, PTL

----------------------------------------------------------------------------
(* The distance of uploads.                                                *)

\* What a step does to the clock and to old_time.
LEMMA TimeChanges ==
  [Next]_vars =>
    /\ \/ sets' = sets /\ now' = now
       \/ Tick
       \/ SetClock
    /\ pc' = "upload" => Collect \/ UNCHANGED <<pc, old_time>>
    /\ pc' \in {"read", "update"} =>
         \/ UNCHANGED old_time /\ pc \in {"read", "update"}
         \/ old_time' = now /\ now' = now
  BY Zenon DEF Next, Daemon, ReadLine, KeepForLater, Collect, Upload, SkipUpload, Rotate,
     AppendRecord, AppendFails, SkipRecord, Finish, UnknownServer, Crash, Die, TtyIfOpen, OrphanEnds,
     Restart, Receive, Tick,
     SetClock, vars, unix, files, ghosts

LEMMA StepRateInv == Typed /\ RateInv /\ [Next]_vars => RateInv'
<1> SUFFICES ASSUME Typed, RateInv, [Next]_vars PROVE RateInv'
  OBVIOUS
<1> DEFINE len == Len(sent)
<1>1. /\ now \in Nat /\ old_time \in Nat /\ sets \in Nat /\ Interval \in Nat
      /\ now' \in Nat /\ sets' \in Nat
      /\ len \in Nat
      /\ \A i \in 1 .. len : sent[i].at \in Nat /\ sent[i].sets \in Nat
  <2>1. \A u \in Uploads : u.at \in Nat /\ u.sets \in Nat
    BY BoundsAssumption DEF Uploads
  <2>2. CountersTyped'
    BY StepCounters DEF Typed
  <2>3. /\ now \in Nat /\ old_time \in Nat /\ sets \in Nat /\ Interval \in Nat
        /\ now' \in Nat /\ sets' \in Nat
    BY <2>2, BoundsAssumption DEF Typed, CountersTyped
  <2> QED
    BY <2>1, <2>3, Numbers
<1>2. CASE sent' = sent
  <2>1. RateLimited'
    BY <1>2, Zenon DEF RateInv, RateLimited
  <2>2. CASE SetClock
    <3>1. sets' = sets + 1
      BY <2>2 DEF SetClock
    <3>2. \A i \in 1 .. len : sent[i].sets < sets' /\ sent[i].sets <= sets'
      BY <1>1, <3>1 DEF RateInv
    <3>3. \A i \in 1 .. len : ~(Timely(sent[i])')
      BY <1>1, <1>2, <3>2 DEF Timely
    <3> QED
      BY <2>1, <1>2, <3>2, <3>3 DEF RateInv, Timely
  <2>3. CASE sets' = sets
    <3> SUFFICES ASSUME NEW i \in 1 .. len, Timely(sent[i])
                 PROVE  /\ sent[i].at <= now'
                        /\ pc' \in {"read", "update"} => sent[i].at <= old_time'
                        /\ pc' = "upload" => now' - sent[i].at >= Interval
      BY <2>1, <1>2, <2>3 DEF RateInv, Timely
    <3>2. sent[i].at \in Nat /\ sent[i].at <= now
      BY <1>1 DEF RateInv
    <3>3. now <= now'
      BY <1>1, <2>3, TimeChanges DEF Tick, SetClock
    <3>4. sent[i].at <= now'
      BY <1>1, <3>2, <3>3
    <3>5. pc' \in {"read", "update"} => sent[i].at <= old_time'
      BY <3>2, TimeChanges DEF RateInv
    <3>6. pc' = "upload" => now' - sent[i].at >= Interval
      <4> SUFFICES ASSUME pc' = "upload" PROVE now' - sent[i].at >= Interval
        OBVIOUS
      <4>1. CASE Collect
        <5>1. sent[i].at <= old_time /\ now - old_time >= Interval
          BY <4>1 DEF Collect, Due, RateInv
        <5> QED
          BY <5>1, <1>1, <3>2, <3>3
      <4>2. CASE pc = "upload"
        <5>1. now - sent[i].at >= Interval
          BY <4>2 DEF RateInv
        <5> QED
          BY <5>1, <1>1, <3>2, <3>3
      <4> QED
        BY <4>1, <4>2, TimeChanges
    <3> QED
      BY <3>4, <3>5, <3>6
  <2> QED
    BY <2>2, <2>3, TimeChanges DEF Tick
<1>3. CASE sent' # sent
  <2>1. PICK data \in SUBSET Pairs, late \in BOOLEAN :
              /\ \/ Upload /\ ~late
                 \/ late /\ \E o \in orphans : OrphanEnds(o)
              /\ Len(sent') = len + 1
              /\ sent'[len + 1] = Delivery(data, late)
              /\ \A i \in 1 .. len : sent'[i] = sent[i]
    BY <1>3, SentChanges
  <2> DEFINE u == sent'[len + 1]
  <2>2. u.at = now /\ u.sets = sets /\ u.late = late
    BY <2>1 DEF Delivery
  <2>3. /\ now' = now /\ sets' = sets
        /\ \/ ~late /\ pc = "upload" /\ pc' = "rotate"
           \/ late /\ pc' = pc /\ old_time' = old_time
    BY <2>1, Zenon DEF Upload, OrphanEnds
  <2>4. \A i, j \in 1 .. len :
           i < j /\ ~sent[i].late /\ ~sent[j].late /\ sent[i].sets = sent[j].sets =>
             sent[j].at - sent[i].at >= Interval
    BY DEF RateInv, RateLimited
  <2>5. \A i \in 1 .. len :
           /\ sent[i].sets <= sets
           /\ ~sent[i].late /\ sent[i].sets = sets =>
                /\ sent[i].at <= now
                /\ pc \in {"read", "update"} => sent[i].at <= old_time
                /\ pc = "upload" => now - sent[i].at >= Interval
    BY DEF RateInv, Timely
  <2> HIDE DEF len, u
  <2>6. \A i \in 1 .. len + 1 : i \in 1 .. len \/ i = len + 1
    BY <1>1
  <2>7. ASSUME NEW i \in 1 .. len + 1, NEW j \in 1 .. len + 1, i < j,
               ~sent'[i].late, ~sent'[j].late, sent'[i].sets = sent'[j].sets
        PROVE  sent'[j].at - sent'[i].at >= Interval
    <3>1. i \in 1 .. len
      BY <1>1, <2>7
    <3>2. CASE j \in 1 .. len
      BY <2>1, <2>4, <2>7, <3>1, <3>2
    <3>3. CASE j = len + 1
      <4>1. ~late /\ sent[i].sets = sets /\ ~sent[i].late
        BY <2>1, <2>2, <2>7, <3>1, <3>3 DEF u
      <4>2. now - sent[i].at >= Interval
        BY <2>3, <2>5, <3>1, <4>1
      <4> QED
        BY <2>1, <2>2, <3>1, <3>3, <4>2 DEF u
    <3> QED
      BY <2>6, <3>2, <3>3
  <2>8. RateLimited'
    BY <2>1, <2>7, Zenon DEF RateLimited
  <2>9. ASSUME NEW i \in 1 .. len + 1
        PROVE  /\ sent'[i].sets <= sets'
               /\ ~sent'[i].late /\ sent'[i].sets = sets' =>
                    /\ sent'[i].at <= now'
                    /\ pc' \in {"read", "update"} => sent'[i].at <= old_time'
                    /\ pc' = "upload" => now' - sent'[i].at >= Interval
    <3>1. CASE i \in 1 .. len
      <4>1. sent'[i] = sent[i]
        BY <2>1, <3>1
      <4> QED
        BY <2>3, <2>5, <3>1, <4>1
    <3>2. CASE i = len + 1
      <4>1. sent'[i].sets = sets /\ sent'[i].at = now /\ sent'[i].late = late
        BY <2>2, <3>2 DEF u
      <4> QED
        BY <1>1, <2>3, <4>1
    <3> QED
      BY <2>6, <3>1, <3>2
  <2> QED
    BY <2>1, <2>8, <2>9 DEF RateInv, Timely
<1> QED
  BY <1>2, <1>3

\* Two uploads by daemons of the same setting of the clock are the update interval
\* apart, also when one died and another started in between, which sets old_time
\* to the time of the start.  Nothing is said of an upload that outlived its
\* daemon: it comes when it comes.
THEOREM UploadsKeepDistance == Spec => []RateLimited
<1>1. Init => Typed /\ OrderInv /\ RateInv
  <2>1. Init => RateInv
    BY DEF Init, RateInv, RateLimited
  <2> QED
    BY <2>1, InitTyped, InitOrderInv
<1>2. Typed /\ RateInv /\ [Next]_vars => RateInv'
  BY StepRateInv
<1>3. RateInv => RateLimited
  BY DEF RateInv
<1> QED
  BY <1>1, <1>2, <1>3, SpecOrdered, PTL DEF Spec

----------------------------------------------------------------------------
(* The record files.                                                       *)

LEMMA StepFilesInOrder == Typed /\ FilesInOrder /\ [Next]_vars => FilesInOrder'
<1> SUFFICES ASSUME Typed, FilesInOrder, [Next]_vars PROVE FilesInOrder'
  OBVIOUS
<1>1. /\ file \in Seq(Records) /\ bak \in Seq(Records) /\ written \in Nat
      /\ Len(file) \in Nat /\ Len(bak) \in Nat /\ FileSize \in Nat \ {0}
      /\ size \in Nat /\ mv \in {"ok", "failed"}
  BY BoundsAssumption, LenProperties DEF Typed, ListsTyped, CountersTyped
<1>2. CASE Rotate
  <2>1. pc' = "append" /\ written' = written
    BY <1>2 DEF Rotate
  <2>2. CASE size >= FileSize /\ MoveToBak
    <3>1. /\ bak' = file /\ file' = <<>> /\ Len(file') = 0 /\ Len(bak') = Len(file)
          /\ bakSize' = size /\ size' = 0
      BY <2>2 DEF MoveToBak
    <3>2. \A i \in 1 .. Len(bak') : bak'[i].no = written' - 0 - Len(bak') + i
      <4>1. \A i \in 1 .. Len(file) : file[i].no = written - Len(file) + i
        BY DEF FilesInOrder
      <4>2. written - 0 - Len(file) = written - Len(file)
        BY <1>1
      <4> QED
        BY <2>1, <3>1, <4>1, <4>2
    <3>3. RoomOrFailed(file') /\ RoomOrFailed(bak')
      BY <3>1 DEF FilesInOrder, RoomOrFailed
    <3>4. size' < FileSize
      BY <1>1, <3>1
    <3> QED
      BY <1>1, <2>2, <3>1, <3>2, <3>3, <3>4 DEF FilesInOrder
  <2>3. CASE UNCHANGED <<file, bak, bakSize, size>> /\ (size < FileSize \/ mv' = "failed")
    BY <2>1, <2>3 DEF FilesInOrder, RoomOrFailed
  <2> QED
    BY <1>1, <1>2, <2>2, <2>3 DEF Rotate, MvFails
<1>3. CASE AppendRecord
  <2>1. PICK r \in Records : r = [no |-> written + 1, from |-> size, mv |-> mv]
    <3>1. [no |-> written + 1, from |-> size, mv |-> mv] \in Records
      BY DEF Typed, CountersTyped, Records
    <3> QED
      BY <3>1
  <2>2. /\ pc = "append" /\ pc' = "finish" /\ written' = written + 1
        /\ bak' = bak /\ bakSize' = bakSize
        /\ file' = Append(file, r)
        /\ r.no = written + 1 /\ r.from = size /\ r.mv = mv
    BY <1>3, <2>1 DEF AppendRecord
  <2>3. /\ Len(file') = Len(file) + 1 /\ file'[Len(file) + 1] = r
        /\ \A i \in 1 .. Len(file) : file'[i] = file[i]
    BY <1>1, <2>1, <2>2, AppendProperties
  <2>4. r.from < FileSize \/ r.mv = "failed"
    BY <2>2 DEF FilesInOrder
  <2>5. ASSUME NEW i \in 1 .. Len(file')
        PROVE  /\ file'[i].no = written' - Len(file') + i
               /\ file'[i].from < FileSize \/ file'[i].mv = "failed"
    <3>1. i \in 1 .. Len(file) \/ i = Len(file) + 1
      BY <1>1, <2>3
    <3>2. written' - Len(file') + i = written - Len(file) + i
      BY <1>1, <2>2, <2>3
    <3>3. CASE i \in 1 .. Len(file)
      BY <2>3, <3>2, <3>3 DEF FilesInOrder, RoomOrFailed
    <3>4. CASE i = Len(file) + 1
      BY <1>1, <2>2, <2>3, <2>4, <3>2, <3>4
    <3> QED
      BY <3>1, <3>3, <3>4
  <2>6. ASSUME NEW i \in 1 .. Len(bak)
        PROVE  bak[i].no = written' - Len(file') - Len(bak) + i
    <3>1. written' - Len(file') - Len(bak) + i = written - Len(file) - Len(bak) + i
      BY <1>1, <2>2, <2>3
    <3> QED
      BY <3>1 DEF FilesInOrder
  <2>7. RoomOrFailed(file') /\ RoomOrFailed(bak')
    BY <2>2, <2>5 DEF RoomOrFailed, FilesInOrder
  <2> QED
    BY <2>2, <2>5, <2>6, <2>7 DEF FilesInOrder
<1>4. CASE UNCHANGED <<file, bak, bakSize, written>> /\ pc' # "append"
  BY <1>4 DEF FilesInOrder, RoomOrFailed
<1>5. CASE UNCHANGED <<file, bak, bakSize, written, size, mv, pc>>
  BY <1>5 DEF FilesInOrder, RoomOrFailed
<1>6. CASE UnknownServer \/ Crash
  BY <1>4, <1>6, Deaths DEF Die, files
<1>7. CASE ReadLine \/ KeepForLater \/ Collect \/ Upload \/ SkipUpload \/ AppendFails \/ SkipRecord
            \/ Finish \/ Restart
  BY <1>4, <1>7, Zenon DEF ReadLine, KeepForLater, Collect, Upload, SkipUpload, AppendFails,
     SkipRecord, Finish, Restart, files
<1>8. CASE (\E has \in SUBSET Sensors : Receive(has)) \/ (\E o \in orphans : OrphanEnds(o))
            \/ Tick \/ SetClock \/ UNCHANGED vars
  BY <1>5, <1>8, Zenon DEF Receive, OrphanEnds, Tick, SetClock, vars, files
<1> QED
  BY <1>2, <1>3, <1>6, <1>7, <1>8, Zenon DEF Next, Daemon

LEMMA FilesMakeLog == Typed /\ FilesInOrder => RecordsInOrder
<1> SUFFICES ASSUME Typed, FilesInOrder PROVE RecordsInOrder
  OBVIOUS
<1>1. /\ file \in Seq(Records) /\ bak \in Seq(Records) /\ written \in Nat
      /\ Len(file) \in Nat /\ Len(bak) \in Nat
  BY LenProperties DEF Typed, ListsTyped, CountersTyped
<1>2. /\ Len(Log) = Len(bak) + Len(file)
      /\ \A i \in 1 .. Len(bak) + Len(file) :
           Log[i] = IF i <= Len(bak) THEN bak[i] ELSE file[i - Len(bak)]
  BY <1>1, ConcatProperties DEF Log
<1>3. ASSUME NEW i \in 1 .. Len(Log) PROVE Log[i].no = written - Len(Log) + i
  <2>1. CASE i <= Len(bak)
    <3>1. i \in 1 .. Len(bak) /\ written - Len(file) - Len(bak) + i = written - Len(Log) + i
      BY <1>1, <1>2, <2>1
    <3> QED
      BY <1>2, <2>1, <3>1 DEF FilesInOrder
  <2>2. CASE ~(i <= Len(bak))
    <3>1. /\ i - Len(bak) \in 1 .. Len(file)
          /\ written - Len(file) + (i - Len(bak)) = written - Len(Log) + i
      BY <1>1, <1>2, <2>2
    <3> QED
      BY <1>2, <2>2, <3>1 DEF FilesInOrder
  <2> QED
    BY <2>1, <2>2
<1>4. ASSUME NEW i \in 1 .. Len(Log) PROVE Log[i].from < FileSize \/ Log[i].mv = "failed"
  <2>1. (i <= Len(bak) /\ i \in 1 .. Len(bak)) \/ (~(i <= Len(bak)) /\ i - Len(bak) \in 1 .. Len(file))
    BY <1>1, <1>2
  <2> QED
    BY <1>2, <2>1 DEF FilesInOrder, RoomOrFailed
<1> QED
  BY <1>3, <1>4, Zenon DEF RecordsInOrder, FilesInOrder

\* The record file and its .bak hold the latest records without a gap, a record is
\* added to a full file only when mv has just failed, and the .bak was full:
\* wherever the daemon was killed between the test of the size, the move to .bak
\* and the write, and whichever of the two commands failed, or wrote in part.
THEOREM RecordsHaveNoGap == Spec => []RecordsInOrder
<1>1. Init => FilesInOrder
  BY BoundsAssumption DEF Init, FilesInOrder, RoomOrFailed
<1>2. Typed /\ FilesInOrder /\ [Next]_vars => FilesInOrder'
  BY StepFilesInOrder
<1>3. Typed /\ FilesInOrder => RecordsInOrder
  BY FilesMakeLog
<1> QED
  BY <1>1, <1>2, <1>3, SpecOrdered, PTL DEF Spec

----------------------------------------------------------------------------
(* The newest reading.                                                     *)

LEMMA StepLatest == Typed /\ Phased /\ LatestIsNewest /\ [Next]_vars => LatestIsNewest'
<1> SUFFICES ASSUME Typed, Phased, LatestIsNewest, [Next]_vars PROVE LatestIsNewest'
  OBVIOUS
<1> DEFINE len == Len(tty)
           len1 == Len(tty')
<1>1. /\ \A k \in 1 .. len : tty[k] \in Lines /\ tty[k].no \in Nat
      /\ len \in Nat /\ len1 \in Nat /\ lines \in Nat /\ line.no \in Nat
      /\ \A s \in Sensors : latest[s] \in Nat /\ latest[s] <= lines
      /\ line.has \subseteq Sensors
  <2>1. \A s \in Sensors : latest[s] \in Nat /\ latest[s] <= lines
    BY BoundsAssumption DEF Typed, ReadingsTyped, LatestIsNewest
  <2>2. line.has \subseteq Sensors
    BY DEF Typed, ReadingsTyped, Lines, NoLine
  <2> QED
    BY <2>1, <2>2, TtyNumbers, Numbers, Zenon
<1>2. \A l \in Lines : l.has \subseteq Sensors
  BY DEF Lines
<1>3. CASE latest' = latest /\ lines' = lines
  <2>1. \A s \in Sensors : latest'[s] <= lines'
    BY <1>1, <1>3
  <2>2. \A s \in line'.has : line'.no <= latest'[s]
    <3>1. CASE ReadLine /\ line' = Head(tty)
      <4>1. Head(tty) = tty[1] /\ 1 \in 1 .. len
        BY <3>1, TtyTail DEF ReadLine, Typed, ReadingsTyped
      <4> QED
        BY <1>3, <3>1, <4>1 DEF LatestIsNewest
    <3>2. CASE line' = NoLine
      BY <3>2 DEF NoLine
    <3>3. CASE line' = line
      BY <1>3, <3>3 DEF LatestIsNewest
    <3> QED
      BY <3>1, <3>2, <3>3, LineChanges
  <2>3. ASSUME NEW k \in 1 .. len1 PROVE \E j \in 1 .. len : tty'[k] = tty[j]
    <3>1. \/ len1 = len - 1 /\ \A j \in 1 .. len1 : tty'[j] = tty[j + 1]
          \/ tty' = tty
          \/ len1 = 0
      BY <1>1, <1>3, TtyNumbers
    <3> HIDE DEF len, len1
    <3>2. CASE len1 = len - 1 /\ \A j \in 1 .. len1 : tty'[j] = tty[j + 1]
      <4>1. k + 1 \in 1 .. len
        BY <1>1, <3>2
      <4> QED
        BY <3>2, <4>1
    <3>3. CASE tty' = tty
      BY <3>3 DEF len, len1
    <3>4. CASE len1 = 0
      BY <3>4
    <3> QED
      BY <3>1, <3>2, <3>3, <3>4
  <2>4. \A k \in 1 .. len1 : \A s \in tty'[k].has : tty'[k].no <= latest'[s]
    BY <1>3, <2>3 DEF LatestIsNewest
  <2> QED
    BY <2>1, <2>2, <2>4, Zenon DEF LatestIsNewest
<1>4. ASSUME NEW has \in SUBSET Sensors, Receive(has) PROVE LatestIsNewest'
  <2>1. /\ line' = line /\ lines' = lines + 1
        /\ \A s \in Sensors : latest'[s] = IF s \in has THEN lines + 1 ELSE latest[s]
    BY <1>4 DEF Receive
  <2>2. \A s \in Sensors : latest'[s] <= lines' /\ latest[s] <= latest'[s]
    BY <1>1, <2>1
  <2>3. \A s \in line'.has : line'.no <= latest'[s]
    <3>1. \A s \in line.has : line.no <= latest[s] /\ s \in Sensors
      BY <1>1 DEF LatestIsNewest
    <3>2. \A s \in line.has : latest'[s] \in Nat
      BY <1>1, <2>1, <3>1
    <3> QED
      BY <1>1, <2>1, <2>2, <3>1, <3>2
  <2>4. \A k \in 1 .. len : \A s \in tty[k].has : tty[k].no <= latest'[s]
    <3>1. ASSUME NEW k \in 1 .. len, NEW s \in tty[k].has PROVE tty[k].no <= latest'[s]
      <4>1. s \in Sensors /\ tty[k].no <= latest[s]
        BY <1>1, <1>2 DEF LatestIsNewest
      <4>2. latest'[s] \in Nat
        BY <1>1, <2>1, <4>1
      <4> QED
        BY <1>1, <2>2, <4>1, <4>2
    <3> QED
      BY <3>1
  <2>5. \A k \in 1 .. len1 : \A s \in tty'[k].has : tty'[k].no <= latest'[s]
    <3>1. CASE tty' = tty
      BY <2>4, <3>1
    <3>2. CASE tty' = Append(tty, [no |-> lines + 1, has |-> has])
      <4>1. PICK l \in Lines : l = [no |-> lines + 1, has |-> has]
        BY <1>1, <1>4, BoundsAssumption DEF Receive, Lines, Typed, CountersTyped
      <4>2. /\ len1 = len + 1 /\ tty'[len + 1] = l
            /\ \A k \in 1 .. len : tty'[k] = tty[k]
        BY <3>2, <4>1, AppendProperties DEF Typed, ReadingsTyped
      <4>3. \A s \in l.has : l.no <= latest'[s]
        BY <1>1, <2>1, <4>1
      <4>4. \A k \in 1 .. len1 : k \in 1 .. len \/ k = len + 1
        BY <1>1, <4>2
      <4> QED
        BY <2>4, <4>2, <4>3, <4>4
    <3> QED
      BY <1>4, <3>1, <3>2, Zenon DEF Receive
  <2> QED
    BY <2>2, <2>3, <2>5, Zenon DEF LatestIsNewest
<1> QED
  BY <1>3, <1>4, Zenon DEF Next, Daemon, ReadLine, KeepForLater, Collect, Upload, SkipUpload,
     Rotate, AppendRecord, AppendFails, SkipRecord, Finish, UnknownServer, Crash, Die, TtyIfOpen, OrphanEnds,
     Restart, Tick,
     SetClock, vars, unix, files, ghosts

\* A daemon that is asked to report reports somewhere: what it collects is not
\* meant to be dropped.
Reports == \A c \in Configs : c.iot \/ c.record

LEMMA StepAccounted ==
  ASSUME Reports
  PROVE  Typed /\ BatchAccounted /\ [Next]_vars => BatchAccounted'
<1> SUFFICES ASSUME Typed, BatchAccounted, [Next]_vars PROVE BatchAccounted'
  OBVIOUS
<1> USE DEF BatchAccounted
<1>1. CASE Upload
  BY <1>1, Zenon DEF Upload
<1>10. CASE UnknownServer \/ Crash
  BY <1>10, Deaths DEF Die
<1>2. CASE SkipUpload
  <2>1. config.record
    BY <1>2 DEF SkipUpload, Reports, Typed, CountersTyped
  <2> QED
    BY <1>2, <2>1 DEF SkipUpload
<1>3. CASE Rotate
  BY <1>3 DEF Rotate
<1>4. CASE AppendRecord \/ AppendFails
  BY <1>4 DEF AppendRecord, AppendFails
<1>5. CASE SkipRecord
  BY <1>5 DEF SkipRecord, ghosts
<1>6. CASE pc' \notin {"rotate", "append", "finish"}
  BY <1>6
<1>7. CASE /\ UNCHANGED <<pc, config, batch>>
           /\ reported \subseteq reported' /\ lost \subseteq lost'
  BY <1>7
<1>8. CASE (\E has \in SUBSET Sensors : Receive(has)) \/ (\E o \in orphans : OrphanEnds(o))
  BY <1>7, <1>8, Zenon DEF Receive, OrphanEnds
<1>9. CASE Tick \/ SetClock \/ UNCHANGED vars
  BY <1>7, <1>9 DEF Tick, SetClock, vars, ghosts
<1> QED
  BY <1>1, <1>2, <1>3, <1>4, <1>5, <1>6, <1>8, <1>9, <1>10 DEF Next, Daemon, ReadLine,
     KeepForLater, Collect, Finish, Restart

LEMMA InWaiting ==
  /\ \A r : r \in Waiting <=> \E k \in 1 .. Len(tty) : r \in LineReadings(tty[k])
  /\ \A r : r \in Waiting' <=> \E k \in 1 .. Len(tty') : r \in LineReadings(tty'[k])
  /\ tty' = tty => Waiting' = Waiting
<1>1. \A r : r \in Waiting <=> \E k \in 1 .. Len(tty) : r \in LineReadings(tty[k])
  BY DEF Waiting
<1>2. \A r : r \in Waiting' <=> \E k \in 1 .. Len(tty') : r \in LineReadings(tty'[k])
  BY DEF Waiting
<1>3. ASSUME tty' = tty PROVE Waiting' = Waiting
  BY <1>1, <1>2, <1>3
<1> QED
  BY <1>1, <1>2, <1>3

\* What is in the tty stays there, but for the line that is read.
LEMMA WaitingKept ==
  ASSUME Typed
  PROVE  /\ ReadLine => Waiting \subseteq Waiting' \cup LineReadings(line')
         /\ \A has \in SUBSET Sensors :
              Receive(has) => \A s \in has : \/ <<s, lines + 1>> \in Waiting'
                                             \/ <<s, lines + 1>> \in lost'
         /\ \A has \in SUBSET Sensors : Receive(has) => Waiting \subseteq Waiting'
<1>1. tty \in Seq(Lines) /\ Len(tty) \in Nat
  BY LenProperties DEF Typed, ReadingsTyped
<1>2. ASSUME ReadLine PROVE Waiting \subseteq Waiting' \cup LineReadings(line')
  <2>1. /\ line' = tty[1] /\ Len(tty') = Len(tty) - 1
        /\ \A k \in 1 .. Len(tty') : tty'[k] = tty[k + 1]
    BY <1>1, <1>2, TtyTail DEF ReadLine
  <2>2. ASSUME NEW k \in 1 .. Len(tty)
        PROVE  k = 1 \/ (k - 1 \in 1 .. Len(tty') /\ tty'[k - 1] = tty[k])
    <3>1. CASE k # 1
      <4>1. k - 1 \in 1 .. Len(tty') /\ (k - 1) + 1 = k
        BY <1>1, <2>1, <3>1
      <4> QED
        BY <2>1, <4>1
    <3> QED
      BY <3>1
  <2>3. ASSUME NEW r \in Waiting PROVE r \in Waiting' \cup LineReadings(line')
    <3>1. PICK k \in 1 .. Len(tty) : r \in LineReadings(tty[k])
      BY <2>3, InWaiting
    <3>2. CASE k = 1
      BY <2>1, <3>1, <3>2
    <3>3. CASE k - 1 \in 1 .. Len(tty') /\ tty'[k - 1] = tty[k]
      BY <3>1, <3>3, InWaiting
    <3> QED
      BY <2>2, <3>2, <3>3
  <2> QED
    BY <2>3
<1>3. ASSUME NEW has \in SUBSET Sensors, Receive(has)
      PROVE  /\ \A s \in has : <<s, lines + 1>> \in Waiting' \/ <<s, lines + 1>> \in lost'
             /\ Waiting \subseteq Waiting'
  <2> DEFINE l == [no |-> lines + 1, has |-> has]
  <2>1. l.no = lines + 1 /\ l.has = has
    OBVIOUS
  <2>2. \A s \in has : <<s, lines + 1>> \in LineReadings(l)
    BY <2>1, Zenon DEF LineReadings
  <2>3. CASE tty' = tty /\ lost' = lost \cup LineReadings(l)
    BY <2>2, <2>3, InWaiting
  <2>4. CASE tty' = Append(tty, l)
    <3>1. l \in Lines
      BY <1>3, BoundsAssumption DEF Receive, Lines, Typed, CountersTyped
    <3> HIDE DEF l
    <3>2. /\ Len(tty') = Len(tty) + 1 /\ tty'[Len(tty) + 1] = l
          /\ \A k \in 1 .. Len(tty) : tty'[k] = tty[k]
      BY <1>1, <2>4, <3>1, AppendProperties
    <3>3. Len(tty) + 1 \in 1 .. Len(tty') /\ \A k \in 1 .. Len(tty) : k \in 1 .. Len(tty')
      BY <1>1, <3>2
    <3>4. \A s \in has : <<s, lines + 1>> \in Waiting'
      BY <2>2, <3>2, <3>3, InWaiting
    <3>5. Waiting \subseteq Waiting'
      BY <3>2, <3>3, InWaiting
    <3> QED
      BY <3>4, <3>5
  <2> QED
    BY <1>3, <2>3, <2>4, Zenon DEF Receive
<1> QED
  BY <1>2, <1>3

\* update_datastreams replaces no newest reading, and takes over that of the line.
LEMMA UpdateKeeps ==
  ASSUME Typed, Phased, LatestIsNewest, HeldFresh, pc = "update", ~config.transparent,
         NEW s \in Sensors, latest[s] # 0,
         <<s, latest[s]>> \in LineReadings(line) \cup Readings(datastreams)
  PROVE  <<s, latest[s]>> \in Readings(Updated)
<1>1. line \in Lines /\ line.no \in Nat \ {0} /\ line.has \subseteq Sensors
  BY BoundsAssumption DEF Phased, Lines
<1>2. datastreams[s] < line.no /\ datastreams[s] \in Nat
  BY Numbers DEF HeldFresh
<1>3. Updated[s] = IF s \in line.has THEN line.no ELSE datastreams[s]
  BY DEF Updated
<1>4. CASE s \in line.has
  <2>1. latest[s] # datastreams[s]
    BY <1>1, <1>2, <1>4 DEF LatestIsNewest
  <2>2. latest[s] = line.no
    BY <2>1 DEF LineReadings, Readings
  <2> QED
    BY <1>3, <1>4, <2>2 DEF Readings
<1>5. CASE s \notin line.has
  <2>1. latest[s] = datastreams[s]
    BY <1>5 DEF LineReadings, Readings
  <2> QED
    BY <1>3, <1>5, <2>1 DEF Readings
<1> QED
  BY <1>4, <1>5

\* Where a reading may stay for ever, or goes on without the daemon.
Safe == UnderWay \cup reported \cup lost \cup dropped

LEMMA SafeKept == ASSUME Typed, [Next]_vars PROVE Safe \subseteq Safe'
<1>1. CASE UnderWay \subseteq UnderWay' /\ reported \subseteq reported'
           /\ lost \subseteq lost' /\ dropped \subseteq dropped'
  BY <1>1 DEF Safe
<1>2. ASSUME NEW o \in orphans, OrphanEnds(o) PROVE Safe \subseteq Safe'
  <2>1. /\ orphans' = orphans \ {o} /\ dropped' = dropped
        /\ o.data \subseteq reported' \cup lost'
        /\ reported \subseteq reported' /\ lost \subseteq lost'
    BY <1>2, Zenon DEF OrphanEnds
  <2>2. UnderWay \subseteq UnderWay' \cup o.data
    BY <2>1, UnderWayIsPairs
  <2> QED
    BY <2>1, <2>2 DEF Safe
<1>3. CASE orphans' = orphans /\ reported \subseteq reported'
           /\ lost \subseteq lost' /\ dropped \subseteq dropped'
  BY <1>1, <1>3, UnderWayIsPairs
<1>4. CASE UnknownServer \/ Crash
  <2>1. /\ orphans \subseteq orphans' /\ UNCHANGED <<reported, dropped>> /\ lost \subseteq lost'
    BY <1>4, Deaths DEF Die
  <2> QED
    BY <1>1, <2>1, UnderWayIsPairs
<1>5. CASE KeepForLater \/ Upload \/ AppendRecord \/ AppendFails
  <2>1. /\ orphans' = orphans /\ reported \subseteq reported'
        /\ lost \subseteq lost' /\ dropped \subseteq dropped'
    BY <1>5, Zenon DEF KeepForLater, Upload, AppendRecord, AppendFails
  <2> QED
    BY <1>3, <2>1
<1>6. CASE \E has \in SUBSET Sensors : Receive(has)
  <2>1. orphans' = orphans /\ reported' = reported /\ lost \subseteq lost' /\ dropped' = dropped
    BY <1>6, Zenon DEF Receive
  <2> QED
    BY <1>3, <2>1
<1>7. CASE UNCHANGED <<orphans, reported, lost, dropped>>
  BY <1>3, <1>7
<1> QED
  BY <1>2, <1>4, <1>5, <1>6, <1>7, Zenon DEF Next, Daemon, ReadLine, Collect, SkipUpload, Rotate,
     SkipRecord, Finish, Restart, Tick, SetClock, vars, ghosts

LEMMA StepKept ==
  Typed /\ Phased /\ HeldFresh /\ KeptInv /\ [Next]_vars => NewestReadingKept'
<1> SUFFICES ASSUME Typed, Phased, HeldFresh, KeptInv, [Next]_vars PROVE NewestReadingKept'
  OBVIOUS
<1> USE SafeKept
<1>1. \A s \in Sensors : latest[s] # 0 =>
        \/ <<s, latest[s]>> \in Waiting \cup LineReadings(line)
        \/ <<s, latest[s]>> \in Readings(datastreams) \cup batch \cup Safe
  BY Zenon DEF KeptInv, NewestReadingKept, Held, Safe
<1>2. LineReadings(NoLine) = {}
  BY LineReadingsArePairs
<1>3. ASSUME \A s \in Sensors : latest'[s] # 0 =>
               \/ <<s, latest'[s]>> \in Waiting' \cup LineReadings(line')
               \/ <<s, latest'[s]>> \in Readings(datastreams') \cup batch' \cup Safe'
      PROVE  NewestReadingKept'
  BY <1>3, Zenon DEF NewestReadingKept, Held, Safe, LineReadings, Readings
<1>4. ASSUME latest' = latest,
             \A s \in Sensors : latest[s] # 0 =>
               \/ <<s, latest[s]>> \in Waiting' \cup LineReadings(line')
               \/ <<s, latest[s]>> \in Readings(datastreams') \cup batch' \cup Safe'
      PROVE  NewestReadingKept'
  BY <1>3, <1>4
<1>5. CASE \E has \in SUBSET Sensors : Receive(has)
  <2>1. PICK has \in SUBSET Sensors : Receive(has)
    BY <1>5
  <2>2. /\ UNCHANGED <<line, datastreams, batch>>
        /\ \A s \in Sensors : latest'[s] = IF s \in has THEN lines + 1 ELSE latest[s]
    BY <2>1 DEF Receive
  <2>3. /\ \A s \in has : <<s, lines + 1>> \in Waiting' \/ <<s, lines + 1>> \in Safe'
        /\ Waiting \subseteq Waiting'
    BY <2>1, WaitingKept DEF Safe
  <2>4. ASSUME NEW s \in Sensors, latest'[s] # 0
        PROVE  \/ <<s, latest'[s]>> \in Waiting' \cup LineReadings(line)
               \/ <<s, latest'[s]>> \in Readings(datastreams) \cup batch \cup Safe'
    BY <1>1, <2>2, <2>3, <2>4
  <2> QED
    BY <1>3, <2>2, <2>4
<1>6. CASE ReadLine
  <2>1. LineReadings(line) = {} /\ Waiting \subseteq Waiting' \cup LineReadings(line')
    BY <1>2, <1>6, WaitingKept DEF ReadLine, Phased
  <2>2. UNCHANGED <<datastreams, batch, latest>>
    BY <1>6 DEF ReadLine, ghosts
  <2> QED
    BY <1>1, <1>4, <2>1, <2>2
<1>7. CASE KeepForLater \/ Collect
  <2>1. pc = "update" /\ batch = {} /\ UNCHANGED <<tty, latest>>
    BY <1>7 DEF KeepForLater, Collect, Phased, Reporting, unix, ghosts
  <2>2. Waiting' = Waiting
    BY <2>1, InWaiting
  <2>3. CASE config.transparent
    <3>1. Readings(datastreams) = {}
      BY <2>3 DEF Phased, Readings, Nothing
    <3>2. LineReadings(line) \subseteq dropped' \cup batch'
      BY <1>7, <2>3, Zenon DEF KeepForLater, Collect
    <3>3. LineReadings(line) \subseteq Safe' \cup batch'
      BY <3>2 DEF Safe
    <3> QED
      BY <1>1, <1>4, <2>1, <2>2, <3>1, <3>3
  <2>4. CASE ~config.transparent
    <3>1. datastreams' = Updated \/ batch' = Readings(Updated)
      BY <1>7, <2>4, Zenon DEF KeepForLater, Collect
    <3>2. ASSUME NEW s \in Sensors, latest[s] # 0,
                 <<s, latest[s]>> \in LineReadings(line) \cup Readings(datastreams)
          PROVE  <<s, latest[s]>> \in Readings(datastreams') \cup batch'
      BY <2>1, <2>4, <3>1, <3>2, UpdateKeeps DEF KeptInv
    <3> QED
      BY <1>1, <1>4, <2>1, <2>2, <3>2
  <2> QED
    BY <2>3, <2>4
<1>8. CASE Finish
  <2>1. /\ UNCHANGED <<tty, datastreams, latest>>
        /\ batch \subseteq Safe /\ LineReadings(line) \subseteq batch
    BY <1>8 DEF Finish, unix, ghosts, KeptInv, BatchAccounted, Phased, Reporting, Safe
  <2>2. Waiting' = Waiting
    BY <2>1, InWaiting
  <2> QED
    BY <1>1, <1>4, <2>1, <2>2
<1>9. CASE UnknownServer \/ Crash
  <2>1. PICK left \in SUBSET {InFlight} : Die(left)
    BY <1>9, Deaths
  <2>2. /\ latest' = latest
        /\ LineReadings(line) \cup Readings(datastreams) \subseteq lost'
        /\ tty' = tty \/ Waiting \subseteq lost'
        /\ left = {} => batch \subseteq lost'
        /\ left # {} => InFlight \in orphans'
    BY <2>1 DEF Die, TtyIfOpen, LostByClose
  <2>3. batch \subseteq lost' \/ batch \subseteq UnderWay'
    BY <2>2, UnderWayIsPairs DEF InFlight
  <2>4. Waiting \subseteq Waiting' \cup lost'
    BY <2>2, InWaiting
  <2>5. /\ Waiting \subseteq Waiting' \cup Safe' /\ batch \subseteq Safe'
        /\ LineReadings(line) \cup Readings(datastreams) \subseteq Safe'
    BY <2>2, <2>3, <2>4 DEF Safe
  <2> QED
    BY <1>1, <1>4, <2>2, <2>5
<1>10. ASSUME UNCHANGED <<line, datastreams, batch, latest>>, Waiting \subseteq Waiting' \cup Safe'
       PROVE  NewestReadingKept'
  BY <1>1, <1>4, <1>10
<1>11. ASSUME NEW o \in orphans, OrphanEnds(o) PROVE NewestReadingKept'
  <2>1. /\ UNCHANGED <<line, datastreams, batch, latest>>
        /\ tty' = tty \/ Waiting \subseteq lost'
    BY <1>11 DEF OrphanEnds, TtyIfOpen, LostByClose
  <2>2. Waiting \subseteq Waiting' \cup Safe'
    BY <2>1, InWaiting DEF Safe
  <2> QED
    BY <1>10, <2>1, <2>2
<1>12. CASE Upload \/ SkipUpload \/ Rotate \/ AppendRecord \/ AppendFails \/ SkipRecord \/ Restart
             \/ Tick \/ SetClock \/ UNCHANGED vars
  <2>1. UNCHANGED <<line, datastreams, batch, latest, tty>>
    BY <1>12, Zenon DEF Upload, SkipUpload, Rotate, AppendRecord, AppendFails, SkipRecord, Restart,
       Tick, SetClock, vars, unix, ghosts
  <2>2. Waiting' = Waiting
    BY <2>1, InWaiting
  <2> QED
    BY <1>10, <2>1, <2>2
<1> QED
  BY <1>5, <1>6, <1>7, <1>8, <1>9, <1>11, <1>12, Zenon DEF Next, Daemon

\* Where every configuration reports somewhere, the newest reading of a sensor is
\* in the tty, the daemon or an orphan until it is uploaded, recorded, or gone by
\* one of the named losses: update_datastreams never puts an older value over a
\* newer one, and a report takes all the values it clears.
THEOREM NewestIsKept == ASSUME Reports PROVE Spec => []NewestReadingKept
<1>1. Init => KeptInv
  BY DEF Init, KeptInv, LatestIsNewest, BatchAccounted, NewestReadingKept, Nothing,
     NoLine
<1>2. Typed /\ OrderInv /\ KeptInv /\ [Next]_vars => KeptInv'
  BY StepLatest, StepAccounted, StepKept, Zenon DEF KeptInv, OrderInv
<1>3. KeptInv => NewestReadingKept
  BY DEF KeptInv
<1> QED
  BY <1>1, <1>2, <1>3, SpecOrdered, PTL DEF Spec
=============================================================================
