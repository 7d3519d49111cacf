----------------------------- MODULE DynamicDns -----------------------------
(***************************************************************************)
(* The dynamic DNS updater of ddns-scripts for one service: every ifup     *)
(* starts dynamic_dns_updater.sh, which stops the updater that runs and    *)
(* then compares the address of the interface with what it believes to be  *)
(* registered, for ever, and sends an update when they differ or when the  *)
(* last update is older than the forced interval.                          *)
(*                                                                         *)
(* The provider, the resolver, the interface and the passing of time are   *)
(* the environment.  A kill ends the shell and not the wget it waits for:  *)
(* that request goes on by itself.  "none" is the address of an interface  *)
(* that is down, and what a failed nslookup gives.  An age is recent or    *)
(* old, within the forced interval or past it.                             *)
(***************************************************************************)
EXTENDS Naturals

CONSTANTS
  Starts,       \* bound: how many updaters are started
  Addresses,    \* the addresses the interface gets
  MaxChanges,   \* bound: how often its address changes
  MaxFailures,  \* bound: requests that fail, and lookups that do
  Serial        \* an ifup comes when the updaters before have started up

ASSUME DnsAssumption ==
  /\ Starts \in Nat /\ MaxChanges \in Nat /\ MaxFailures \in Nat /\ Serial \in BOOLEAN
  /\ "none" \notin Addresses

Updaters == 1 .. Starts

VARIABLES
  pc,            \* off, start, kill, write, read, lookup, check, wget, save, sleep or dead
  old_pid,       \* the updater whose pid it has read
  current_ip,    \* of each updater
  registered_ip,
  age,           \* of its last_update
  pidFile,       \* the .pid file: an updater, or 0 without it
  updateFile,    \* the age of what the .update file says, or none without it
  address,       \* of the interface
  record,        \* the address the provider has for the domain
  earlier,       \* the one before, which a resolver may still have
  orphans,       \* the requests whose updater was killed
  disturbed,     \* ghost: a request or a lookup went wrong since the last update
  changes, failures

updater == <<current_ip, registered_ip, age>>
files == <<pidFile, updateFile>>
provider == <<record, earlier, orphans>>
bounds == <<changes, failures>>
vars == <<pc, old_pid, updater, files, address, provider, disturbed, bounds>>

Alive(u) == pc[u] \notin {"off", "dead"}
InLoop(u) == pc[u] \in {"check", "wget", "save", "sleep"}
StartsUp(u) == Alive(u) /\ pc[u] \notin {"read", "lookup"} /\ ~InLoop(u)

Init ==
  /\ pc = [u \in Updaters |-> "off"] /\ old_pid = [u \in Updaters |-> 0]
  /\ current_ip = [u \in Updaters |-> "none"] /\ registered_ip = current_ip
  /\ age = [u \in Updaters |-> "old"]
  /\ pidFile = 0 /\ updateFile = "none"
  /\ address \in Addresses \cup {"none"}
  /\ record \in Addresses /\ earlier = record /\ orphans = {}
  /\ disturbed = FALSE /\ changes = 0 /\ failures = 0

Goes(u, to) == pc' = [pc EXCEPT ![u] = to]

----------------------------------------------------------------------------
\* 25-ddns starts an updater.
IfUp(u) ==
  /\ pc[u] = "off" /\ \A v \in Updaters : v < u => pc[v] # "off"
  /\ Serial => \A v \in Updaters : ~StartsUp(v)
  /\ Goes(u, "start")
  /\ UNCHANGED <<old_pid, updater, files, address, provider, disturbed, bounds>>

\* Is there a pid file, and in ps a process with that pid?
ReadPid(u) ==
  /\ pc[u] = "start"
  /\ IF pidFile # 0 /\ Alive(pidFile)
     THEN Goes(u, "kill") /\ old_pid' = [old_pid EXCEPT ![u] = pidFile]
     ELSE Goes(u, "write") /\ UNCHANGED old_pid
  /\ UNCHANGED <<updater, files, address, provider, disturbed, bounds>>

\* Mutant: nobody is killed.
KillNobody(u) ==
  /\ pc[u] = "kill"
  /\ Goes(u, "write")
  /\ UNCHANGED <<old_pid, updater, files, address, provider, disturbed, bounds>>

Kill(u) ==
  /\ pc[u] = "kill"
  /\ LET v == old_pid[u]
     IN  /\ pc' = [pc EXCEPT ![u] = "write", ![v] = "dead"]
         /\ orphans' = IF pc[v] = "wget" THEN orphans \cup {current_ip[v]} ELSE orphans
  /\ UNCHANGED <<old_pid, updater, files, address, record, earlier, disturbed, bounds>>

WritePid(u) ==
  /\ pc[u] = "write"
  /\ pidFile' = u
  /\ Goes(u, "read")
  /\ UNCHANGED <<old_pid, updater, updateFile, address, provider, disturbed, bounds>>

\* Mutant: a missing .update file is not provided for.
ReadUpdateAnyhow(u) ==
  /\ pc[u] = "read"
  /\ age' = [age EXCEPT ![u] = updateFile]
  /\ Goes(u, "lookup")
  /\ UNCHANGED <<old_pid, current_ip, registered_ip, files, address, provider, disturbed,
                 bounds>>

\* Without an .update file the last update counts as old.
ReadUpdate(u) ==
  /\ pc[u] = "read"
  /\ age' = [age EXCEPT ![u] = IF updateFile = "none" THEN "old" ELSE updateFile]
  /\ Goes(u, "lookup")
  /\ UNCHANGED <<old_pid, current_ip, registered_ip, files, address, provider, disturbed,
                 bounds>>

\* nslookup finds the record, one that a resolver has kept, or nothing.
Lookup(u) ==
  /\ pc[u] = "lookup"
  /\ \E a \in {record, earlier, "none"} :
       /\ a = "none" => failures < MaxFailures
       /\ failures' = IF a = "none" THEN failures + 1 ELSE failures
       /\ registered_ip' = [registered_ip EXCEPT ![u] = a]
       /\ disturbed' = (a # record)
  /\ Goes(u, "check")
  /\ UNCHANGED <<old_pid, current_ip, age, files, address, provider, changes>>

\* Mutant: no update is forced.
CheckAddressOnly(u) ==
  /\ pc[u] = "check"
  /\ current_ip' = [current_ip EXCEPT ![u] = address]
  /\ Goes(u, IF address # registered_ip[u] THEN "wget" ELSE "sleep")
  /\ UNCHANGED <<old_pid, registered_ip, age, files, address, provider, disturbed, bounds>>

\* get_current_ip, and is an update due?
Check(u) ==
  /\ pc[u] = "check"
  /\ current_ip' = [current_ip EXCEPT ![u] = address]
  /\ Goes(u, IF address # registered_ip[u] \/ age[u] = "old" THEN "wget" ELSE "sleep")
  /\ UNCHANGED <<old_pid, registered_ip, age, files, address, provider, disturbed, bounds>>

\* The provider sets the record to the address it is sent, if there is one.
Registers(a) ==
  IF a \in Addresses /\ a # record THEN record' = a /\ earlier' = record
  ELSE UNCHANGED <<record, earlier>>

\* Mutant: the address is read again after the update.
WgetRereads(u) ==
  /\ pc[u] = "wget"
  /\ \/ Registers(current_ip[u]) /\ disturbed' = FALSE /\ UNCHANGED failures
     \/ /\ failures < MaxFailures /\ failures' = failures + 1
        /\ disturbed' = TRUE /\ UNCHANGED <<record, earlier>>
  /\ registered_ip' = [registered_ip EXCEPT ![u] = address]
  /\ age' = [age EXCEPT ![u] = "recent"]
  /\ Goes(u, "save")
  /\ UNCHANGED <<old_pid, current_ip, files, address, orphans, changes>>

\* The script takes any answer, or none, for success.
Wget(u) ==
  /\ pc[u] = "wget"
  /\ \/ Registers(current_ip[u]) /\ disturbed' = FALSE /\ UNCHANGED failures
     \/ /\ failures < MaxFailures /\ failures' = failures + 1
        /\ disturbed' = TRUE /\ UNCHANGED <<record, earlier>>
  /\ registered_ip' = [registered_ip EXCEPT ![u] = current_ip[u]]
  /\ age' = [age EXCEPT ![u] = "recent"]
  /\ Goes(u, "save")
  /\ UNCHANGED <<old_pid, current_ip, files, address, orphans, changes>>

Save(u) ==
  /\ pc[u] = "save"
  /\ updateFile' = age[u]
  /\ Goes(u, "sleep")
  /\ UNCHANGED <<old_pid, updater, pidFile, address, provider, disturbed, bounds>>

\* sleep is over.
Wake(u) ==
  /\ pc[u] = "sleep"
  /\ Goes(u, "check")
  /\ UNCHANGED <<old_pid, updater, files, address, provider, disturbed, bounds>>

Updater(u) ==
  \/ ReadPid(u) \/ Kill(u) \/ WritePid(u) \/ ReadUpdate(u) \/ Lookup(u)
  \/ Check(u) \/ Wget(u) \/ Save(u) \/ Wake(u)

----------------------------------------------------------------------------
\* A request without an updater arrives, or fails.
OrphanEnds ==
  /\ \E a \in orphans :
       /\ orphans' = orphans \ {a}
       /\ Registers(a) \/ UNCHANGED <<record, earlier>>
  /\ disturbed' = TRUE
  /\ UNCHANGED <<pc, old_pid, updater, files, address, bounds>>

AddressChanges ==
  /\ changes < MaxChanges /\ changes' = changes + 1
  /\ address' \in (Addresses \cup {"none"}) \ {address}
  /\ UNCHANGED <<pc, old_pid, updater, files, provider, disturbed, failures>>

\* The forced interval passes.
Elapse(u) ==
  /\ Alive(u) /\ age[u] = "recent"
  /\ age' = [age EXCEPT ![u] = "old"]
  /\ UNCHANGED <<pc, old_pid, current_ip, registered_ip, files, address, provider, disturbed,
                 bounds>>

ElapseFile ==
  /\ updateFile = "recent" /\ updateFile' = "old"
  /\ UNCHANGED <<pc, old_pid, updater, pidFile, address, provider, disturbed, bounds>>

\* The router starts anew, with an empty /var/run and an ifup to come; a request
\* it has sent may still arrive.
Reboot ==
  /\ \E u \in Updaters : Alive(u)
  /\ \E u \in Updaters : pc[u] = "off"
  /\ pc' = [u \in Updaters |-> IF Alive(u) THEN "dead" ELSE pc[u]]
  /\ pidFile' = 0 /\ updateFile' = "none"
  /\ orphans' \in {orphans, orphans \cup {current_ip[u] : u \in {v \in Updaters : pc[v] = "wget"}}}
  /\ UNCHANGED <<old_pid, updater, address, record, earlier, disturbed, bounds>>

Next ==
  \/ \E u \in Updaters : IfUp(u) \/ Updater(u) \/ Elapse(u)
  \/ OrphanEnds \/ AddressChanges \/ ElapseFile \/ Reboot

Fairness ==
  \A u \in Updaters : WF_vars(IfUp(u)) /\ WF_vars(Updater(u)) /\ WF_vars(Elapse(u))

Spec == Init /\ [][Next]_vars /\ Fairness

----------------------------------------------------------------------------
TypeOK ==
  /\ pc \in [Updaters -> {"off", "start", "kill", "write", "read", "lookup", "check",
                          "wget", "save", "sleep", "dead"}]
  /\ old_pid \in [Updaters -> Updaters \cup {0}] /\ pidFile \in Updaters \cup {0}
  /\ current_ip \in [Updaters -> Addresses \cup {"none"}]
  /\ registered_ip \in [Updaters -> Addresses \cup {"none"}]
  /\ age \in [Updaters -> {"recent", "old"}] /\ updateFile \in {"none", "recent", "old"}
  /\ address \in Addresses \cup {"none"} /\ record \in Addresses /\ earlier \in Addresses
  /\ orphans \subseteq Addresses \cup {"none"} /\ disturbed \in BOOLEAN
  /\ changes \in 0 .. MaxChanges /\ failures \in 0 .. MaxFailures

\* "if process is already running, stop it" (dynamic_dns_updater.sh): when each
\* ifup comes after the start of the updater before, no two updaters are in the
\* loop, and the one that is can be found by its pid.
OneUpdater == \A u \in Updaters : InLoop(u) => pidFile = u /\ \A v \in Updaters : InLoop(v) => v = u

\* An updater that sleeps knows what is registered, if no request or lookup
\* has gone wrong, although the address may change while its request is under way.
KnowsRecord ==
  \A u \in Updaters :
    pc[u] = "sleep" /\ ~disturbed /\ registered_ip[u] # "none" => registered_ip[u] = record

\* However requests failed, lookups were stale, updaters were killed in the
\* middle of one, and the address changed: once that is over, the record comes
\* to the address and stays.
Converges == <>[](address # "none" => record = address)
=============================================================================
