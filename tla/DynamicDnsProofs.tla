-------------------------- MODULE DynamicDnsProofs --------------------------
(***************************************************************************)
(* For any number of updaters, reboots, failures and changes of the        *)
(* address: when each ifup waits for the start of the updater before, the  *)
(* updaters in the loop are one at most, and it knows what is registered.  *)
(***************************************************************************)
EXTENDS DynamicDns, TLAPS

States == {"off", "start", "kill", "write", "read", "lookup", "check",
           "wget", "save", "sleep", "dead"}

----------------------------------------------------------------------------
(* The strengthenings.                                                     *)

\* An updater that has written its pid and lives.
Written(u) == pc[u] \in {"read", "lookup", "check", "wget", "save", "sleep"}

\* The pid file names it, and names nobody who has not written it.
WrittenNamed ==
  /\ \A u \in Updaters : Written(u) => pidFile = u
  /\ \A u \in Updaters : pidFile = u => Written(u) \/ pc[u] = "dead"

\* The starts come one after the other.
OneStart == \A u, v \in Updaters : StartsUp(u) /\ StartsUp(v) => u = v

\* A start that is about to kill knows the only one there is, and one that is
\* about to write has no other beside it.
StartFinds ==
  \A u \in Updaters :
    /\ pc[u] = "kill" => old_pid[u] # u /\ \A v \in Updaters : Written(v) => v = old_pid[u]
    /\ pc[u] = "write" => \A v \in Updaters : ~Written(v)

\* What an updater in the loop takes for registered is, as long as nothing has
\* gone wrong, from its lookup on and not only while it sleeps.
LoopKnows ==
  \A u \in Updaters : InLoop(u) /\ ~disturbed => registered_ip[u] \in {"none", record}

----------------------------------------------------------------------------
(* Type correctness.                                                       *)

\* TypeOK in two parts, one for each kind of prover.
Flag == disturbed \in BOOLEAN

Typed ==
  /\ pc \in [Updaters -> States]
  /\ old_pid \in [Updaters -> Updaters \cup {0}] /\ pidFile \in Updaters \cup {0}
  /\ current_ip \in [Updaters -> Addresses \cup {"none"}]
  /\ registered_ip \in [Updaters -> Addresses \cup {"none"}]
  /\ age \in [Updaters -> {"recent", "old"}] /\ updateFile \in {"none", "recent", "old"}
  /\ address \in Addresses \cup {"none"} /\ record \in Addresses /\ earlier \in Addresses
  /\ orphans \subseteq Addresses \cup {"none"}
  /\ changes \in 0 .. MaxChanges /\ failures \in 0 .. MaxFailures
  \* 0 is nobody's pid, and is not killed
  /\ \A u \in Updaters : pc[u] = "kill" => old_pid[u] \in Updaters

LEMMA TypeParts == Typed /\ Flag => TypeOK
  BY DEF TypeOK, Typed, Flag, States

LEMMA InitTyped == Init => Typed /\ Flag
<1> SUFFICES ASSUME Init PROVE Typed /\ Flag
  OBVIOUS
<1>1. Typed
  BY DnsAssumption DEF Init, Typed, States
<1>2. Flag
  BY Zenon DEF Init, Flag
<1> QED
  BY <1>1, <1>2

LEMMA StepFlag == Flag /\ [Next]_vars => Flag'
  BY Zenon DEF Flag, Next, vars, bounds, provider, Updater, IfUp, ReadPid, Kill, WritePid,
     ReadUpdate, Lookup, Check, Wget, Save, Wake, Elapse, OrphanEnds, AddressChanges,
     ElapseFile, Reboot

LEMMA StepTyped == Typed /\ [Next]_vars => Typed'
<1> SUFFICES ASSUME Typed, [Next]_vars PROVE Typed'
  OBVIOUS
<1> USE DnsAssumption DEF Typed, States, Goes, updater, files, provider, bounds
<1>1. ASSUME NEW u \in Updaters, IfUp(u) PROVE Typed'
  BY <1>1 DEF IfUp
<1>2. ASSUME NEW u \in Updaters, ReadPid(u) PROVE Typed'
  BY <1>2 DEF ReadPid
<1>3. ASSUME NEW u \in Updaters, Kill(u) PROVE Typed'
  <2>1. pc' \in [Updaters -> States]
    BY <1>3 DEF Kill
  <2>2. orphans' \subseteq Addresses \cup {"none"}
    <3>1. CASE pc[old_pid[u]] = "wget" /\ old_pid[u] \in Updaters
      BY <1>3, <3>1 DEF Kill
    <3>2. CASE pc[old_pid[u]] # "wget"
      BY <1>3, <3>2 DEF Kill
    <3> QED
      BY <1>3, <3>1, <3>2 DEF Kill
  <2> QED
    BY <1>3, <2>1, <2>2 DEF Kill
<1>4. ASSUME NEW u \in Updaters, WritePid(u) PROVE Typed'
  BY <1>4 DEF WritePid
<1>5. ASSUME NEW u \in Updaters, ReadUpdate(u) PROVE Typed'
  BY <1>5 DEF ReadUpdate
<1>6. ASSUME NEW u \in Updaters, Lookup(u) PROVE Typed'
  BY <1>6 DEF Lookup
<1>7. ASSUME NEW u \in Updaters, Check(u) PROVE Typed'
  BY <1>7 DEF Check
<1>8. ASSUME NEW u \in Updaters, Wget(u) PROVE Typed'
  BY <1>8 DEF Wget, Registers
<1>9. ASSUME NEW u \in Updaters, Save(u) PROVE Typed'
  BY <1>9 DEF Save
<1>10. ASSUME NEW u \in Updaters, Wake(u) PROVE Typed'
  BY <1>10 DEF Wake
<1>11. ASSUME NEW u \in Updaters, Elapse(u) PROVE Typed'
  BY <1>11 DEF Elapse
<1>12. CASE OrphanEnds
  BY <1>12 DEF OrphanEnds, Registers
<1>13. CASE AddressChanges \/ ElapseFile
  BY <1>13 DEF AddressChanges, ElapseFile
<1>14. CASE Reboot
  BY <1>14 DEF Reboot
<1>15. CASE UNCHANGED vars
  BY <1>15 DEF vars
<1> QED
  BY <1>1, <1>2, <1>3, <1>4, <1>5, <1>6, <1>7, <1>8, <1>9, <1>10, <1>11, <1>12, <1>13,
     <1>14, <1>15, Zenon DEF Next, Updater

\* The variables stay in their sets, for any numbers of updaters, changes and
\* failures, also when ifups are not serial.
THEOREM TypeCorrect == Spec => []TypeOK
  BY InitTyped, StepTyped, StepFlag, TypeParts, PTL DEF Spec
----------------------------------------------------------------------------
(* One updater.                                                            *)

OneInv == Typed /\ WrittenNamed /\ OneStart /\ StartFinds

LEMMA InitOneInv == Init => OneInv
<1> SUFFICES ASSUME Init PROVE OneInv
  OBVIOUS
<1>1. WrittenNamed /\ OneStart /\ StartFinds
  BY DEF Init, WrittenNamed, OneStart, StartFinds, Written, StartsUp, Alive, InLoop, Updaters
<1> QED
  BY <1>1, InitTyped DEF OneInv

\* What only moves an updater on, within the loop or from its lookup into it.
LEMMA MoveOn ==
  ASSUME OneInv, NEW u \in Updaters, NEW to \in {"lookup", "check", "wget", "save", "sleep"},
         Written(u), Goes(u, to), UNCHANGED <<pidFile, old_pid>>
  PROVE  WrittenNamed' /\ OneStart' /\ StartFinds'
<1> USE DEF OneInv, Typed, States, Goes, Written
<1>1. WrittenNamed'
  BY DEF WrittenNamed
<1>2. OneStart'
  BY DEF OneStart, StartsUp, Alive, InLoop
<1>3. StartFinds'
  BY DEF StartFinds
<1> QED
  BY <1>1, <1>2, <1>3

LEMMA StepOneInv == Serial /\ OneInv /\ [Next]_vars => OneInv'
<1> SUFFICES ASSUME Serial, OneInv, [Next]_vars PROVE WrittenNamed' /\ OneStart' /\ StartFinds'
  BY StepTyped DEF OneInv
<1> DEFINE Goal == WrittenNamed' /\ OneStart' /\ StartFinds'
<1> USE DEF OneInv
<1>1. ASSUME NEW u \in Updaters, IfUp(u) PROVE Goal
  <2> USE <1>1 DEF IfUp, Goes, Typed, States
  <2>1. WrittenNamed'
    BY DEF WrittenNamed, Written, files
  <2>2. OneStart'
    BY DEF OneStart, StartsUp, Alive, InLoop
  <2>3. StartFinds'
    BY DEF StartFinds, Written
  <2> QED
    BY <2>1, <2>2, <2>3
<1>2. ASSUME NEW u \in Updaters, ReadPid(u) PROVE Goal
  <2> USE <1>2 DEF ReadPid, Goes, Typed, States
  <2>1. WrittenNamed'
    BY DEF WrittenNamed, Written, files
  <2>2. OneStart'
    BY DEF OneStart, StartsUp, Alive, InLoop
  <2>3. ASSUME NEW v \in Updaters, Written(v) PROVE pidFile = v /\ Alive(v)
    BY <2>3 DEF WrittenNamed, Written, Alive
  <2>4. pidFile # u
    BY DEF WrittenNamed, Written
  <2>5. \A v \in Updaters : Written(v)' <=> Written(v)
    BY DEF Written
  <2>6. \A v \in Updaters \ {u} : pc'[v] \notin {"kill", "write"}
    BY DEF OneStart, StartsUp, Alive, InLoop
  <2>7. pc'[u] = "kill" => old_pid'[u] # u /\ \A v \in Updaters : Written(v)' => v = old_pid'[u]
    BY <2>3, <2>4, <2>5
  <2>8. pc'[u] = "write" => \A v \in Updaters : ~Written(v)'
    BY <2>3, <2>5, DnsAssumption DEF Updaters
  <2>9. StartFinds'
    BY <2>6, <2>7, <2>8, Zenon DEF StartFinds
  <2> QED
    BY <2>1, <2>2, <2>9
<1>3. ASSUME NEW u \in Updaters, Kill(u) PROVE Goal
  <2> USE <1>3 DEF Kill, Typed, States
  <2>1. PICK v \in Updaters \ {u} : v = old_pid[u] /\ pc' = [pc EXCEPT ![u] = "write", ![v] = "dead"]
    BY DEF StartFinds
  <2>2. \A w \in Updaters : ~Written(w)'
    BY <2>1 DEF StartFinds, Written
  <2>3. WrittenNamed'
    BY <2>1, <2>2 DEF WrittenNamed, Written, files
  <2>4. OneStart'
    BY <2>1 DEF OneStart, StartsUp, Alive, InLoop
  <2>5. StartFinds'
    BY <2>1, <2>2 DEF OneStart, StartFinds, StartsUp, Alive, InLoop
  <2> QED
    BY <2>3, <2>4, <2>5
<1>4. ASSUME NEW u \in Updaters, WritePid(u) PROVE Goal
  <2> USE <1>4 DEF WritePid, Goes, Typed, States
  <2>1. WrittenNamed'
    BY DEF WrittenNamed, StartFinds, Written
  <2>2. OneStart'
    BY DEF OneStart, StartsUp, Alive, InLoop
  <2>3. StartFinds'
    BY DEF OneStart, StartFinds, StartsUp, Alive, InLoop, Written
  <2> QED
    BY <2>1, <2>2, <2>3
<1>5. ASSUME NEW u \in Updaters, ReadUpdate(u) PROVE Goal
  BY <1>5, MoveOn DEF ReadUpdate, Written, files
<1>6. ASSUME NEW u \in Updaters, Lookup(u) PROVE Goal
  BY <1>6, MoveOn DEF Lookup, Written, files
<1>7. ASSUME NEW u \in Updaters, Check(u) PROVE Goal
  BY <1>7, MoveOn DEF Check, Written, files
<1>8. ASSUME NEW u \in Updaters, Wget(u) PROVE Goal
  BY <1>8, MoveOn DEF Wget, Written, files
<1>9. ASSUME NEW u \in Updaters, Save(u) PROVE Goal
  BY <1>9, MoveOn DEF Save, Written
<1>10. ASSUME NEW u \in Updaters, Wake(u) PROVE Goal
  BY <1>10, MoveOn DEF Wake, Written, files
<1>11. CASE Reboot
  <2> USE <1>11 DEF Reboot, Typed, States
  <2>1. \A v \in Updaters : pc'[v] \in {"off", "dead"}
    BY DEF Alive
  <2> QED
    BY <2>1, DnsAssumption
    DEF WrittenNamed, OneStart, StartFinds, Written, StartsUp, Alive, InLoop, Updaters
<1>12. ASSUME UNCHANGED <<pc, old_pid, pidFile>> PROVE Goal
  BY <1>12 DEF WrittenNamed, OneStart, StartFinds, Written, StartsUp, Alive, InLoop
<1>13. \/ UNCHANGED <<pc, old_pid, pidFile>> \/ Reboot
       \/ \E u \in Updaters : IfUp(u) \/ Updater(u)
  BY Zenon DEF Next, vars, files, Elapse, OrphanEnds, AddressChanges, ElapseFile
<1> QED
  BY <1>1, <1>2, <1>3, <1>4, <1>5, <1>6, <1>7, <1>8, <1>9, <1>10, <1>11, <1>12, <1>13, Zenon
  DEF Updater

LEMMA SpecOneInv == ASSUME Serial PROVE Spec => []OneInv
<1>1. OneInv /\ [Next]_vars => OneInv'
  BY StepOneInv
<1> QED
  BY <1>1, InitOneInv, PTL DEF Spec

\* The script's own promise, to stop the process that is already running: under
\* serial ifups no two updaters are in the loop, and the pid file names the one
\* that is, also after kills in the middle of a request, and after reboots.
THEOREM OnlyOneUpdater == ASSUME Serial PROVE Spec => []OneUpdater
<1>1. OneInv => OneUpdater
  BY DEF OneInv, WrittenNamed, Written, OneUpdater, InLoop
<1>2. Spec => []OneInv
  BY SpecOneInv
<1> QED
  BY <1>1, <1>2, PTL

----------------------------------------------------------------------------
(* What it knows.                                                          *)

LEMMA InitLoopKnows == Init => LoopKnows
  BY DEF Init, LoopKnows, InLoop

LEMMA StepLoopKnows == OneInv /\ LoopKnows /\ [Next]_vars => LoopKnows'
<1> SUFFICES ASSUME OneInv, LoopKnows, [Next]_vars PROVE LoopKnows'
  OBVIOUS
<1>1. ASSUME NEW u \in Updaters, NEW v \in Updaters, Written(u), Written(v) PROVE u = v
  BY <1>1 DEF OneInv, WrittenNamed
<1> USE DEF LoopKnows, InLoop
<1>2. ASSUME NEW u \in Updaters, Lookup(u) PROVE LoopKnows'
  <2>1. \A v \in Updaters \ {u} : ~InLoop(v)'
    BY <1>2, <1>1 DEF Lookup, Goes, Written, OneInv, Typed
  <2>2. ~disturbed' => registered_ip'[u] = record'
    BY <1>2 DEF Lookup, OneInv, Typed, provider
  <2> QED
    BY <2>1, <2>2
<1>3. ASSUME NEW u \in Updaters, Wget(u) PROVE LoopKnows'
  <2>1. \A v \in Updaters \ {u} : ~InLoop(v)'
    BY <1>3, <1>1 DEF Wget, Goes, Written, OneInv, Typed
  <2>2. ~disturbed' => registered_ip'[u] \in {"none", record'}
    BY <1>3 DEF Wget, Registers, OneInv, Typed
  <2> QED
    BY <2>1, <2>2
<1>4. CASE OrphanEnds
  BY <1>4 DEF OrphanEnds
<1>5. ASSUME UNCHANGED <<registered_ip, record, disturbed>>,
             \A v \in Updaters : InLoop(v)' => InLoop(v)
      PROVE  LoopKnows'
  BY <1>5
<1>6. ASSUME NEW u \in Updaters,
             IfUp(u) \/ ReadPid(u) \/ Kill(u) \/ WritePid(u) \/ ReadUpdate(u)
      PROVE  LoopKnows'
  <2>1. UNCHANGED <<registered_ip, record, disturbed>>
    BY <1>6 DEF IfUp, ReadPid, Kill, WritePid, ReadUpdate, updater, provider
  <2>2. CASE Kill(u)
    BY <1>5, <2>1, <2>2 DEF Kill, OneInv, Typed
  <2>3. CASE ~Kill(u)
    BY <1>5, <1>6, <2>1, <2>3 DEF IfUp, ReadPid, WritePid, ReadUpdate, Goes, OneInv, Typed
  <2> QED
    BY <2>2, <2>3
<1>7. ASSUME NEW u \in Updaters,
             Check(u) \/ Save(u) \/ Wake(u)
      PROVE  LoopKnows'
  BY <1>5, <1>7 DEF Check, Save, Wake, Goes, updater, provider, OneInv, Typed
<1>8. ASSUME Reboot \/ AddressChanges \/ ElapseFile \/ UNCHANGED vars
             \/ \E u \in Updaters : Elapse(u)
      PROVE  LoopKnows'
  BY <1>5, <1>8 DEF Reboot, AddressChanges, ElapseFile, Elapse, vars, updater, provider, Alive, OneInv, Typed
<1> QED
  BY <1>2, <1>3, <1>4, <1>6, <1>7, <1>8, Zenon DEF Next, Updater

\* An updater that sleeps knows what the provider has, if nothing has gone wrong
\* since its lookup or last update, whatever address it has registered, however
\* the address has changed while the request was under way, and whoever was
\* killed before it.
THEOREM SleeperKnowsRecord == ASSUME Serial PROVE Spec => []KnowsRecord
<1>1. LoopKnows => KnowsRecord
  BY DEF LoopKnows, KnowsRecord, InLoop
<1>2. Spec => []OneInv
  BY SpecOneInv
<1> QED
  BY <1>1, <1>2, InitLoopKnows, StepLoopKnows, PTL DEF Spec
=============================================================================
