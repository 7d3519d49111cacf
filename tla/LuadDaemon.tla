----------------------------- MODULE LuadDaemon -----------------------------
(***************************************************************************)
(* Starting and stopping a luad daemon (openwrt/package/dragino/src/       *)
(* luad.c, main, and start and stop of config/dragino.init): the pid file  *)
(* that keeps the daemon from running twice, the value the child sends to  *)
(* the waiting parent, the SIGTERM of "-k" and the removal of the runtime  *)
(* directory after it.                                                     *)
(*                                                                         *)
(* The calls of libdaemon are modelled by what luad.c uses them for:       *)
(*   daemon_pid_file_is_running   the process of the pid file, if it runs;  *)
(*                                a stale file is removed                   *)
(*   daemon_pid_file_create       O_EXCL: fails if there is a file          *)
(*   daemon_pid_file_remove       unlinks the file, whoever wrote it        *)
(*   daemon_retval_send, _wait    the first value sent ends the wait        *)
(*   daemon_pid_file_kill_wait    sends a signal and waits for the end      *)
(***************************************************************************)
EXTENDS Naturals, FiniteSets

CONSTANTS
  Starts,       \* invocations of the daemon; each names its child process
  Stops,        \* invocations of the init script's stop
  None,
  Apart,        \* when an invocation may begin: "ended", "returned" or "any"
  MayFail,      \* a system call of the child's setup may fail
  MaySlow       \* a wait of 20 or 5 seconds may end without its answer

ASSUME SwitchesAssumption ==
  /\ Apart \in {"ended", "returned", "any"} /\ MayFail \in BOOLEAN /\ MaySlow \in BOOLEAN
ASSUME NoneAssumption == None \notin Starts \cup Stops \cup Nat

VARIABLES
  parent,    \* parent[p]: new, waiting, or returned
  code,      \* code[p]: what the parent returned
  child,     \* child[p]: where the daemon process is in main
  sent,      \* sent[p]: the first value it sent to its parent
  pidfile,   \* the process the pid file names
  rundir,    \* /var/run/<daemon> exists
  stop,      \* stop[q]: new, found, killed, remove, or returned
  target     \* target[q]: the process "-k" has read from the pid file

vars == <<parent, code, child, sent, pidfile, rundir, stop, target>>

----------------------------------------------------------------------------
\* The process exists; "none" has not been forked yet, "gone" has exited.
Alive(p) == child[p] \notin {"none", "gone"}
IsRunning == pidfile # None /\ Alive(pidfile)

\* The handler is installed from SigAction on, and stays so up to the exit.
Handles(p) ==
  \/ child[p] \in {"armed", "running"}
  \/ child[p] \in {"finish", "remove"} /\ sent[p] = 0

\* A child is settled when it has come to run (and may give up later) or has
\* exited.  "returned": an invocation begins when the others have returned to
\* their callers; "ended": when their children are settled, too.
Settled(p) == child[p] \in {"none", "gone"} \/ (Handles(p) /\ child[p] # "armed")
Returned ==
  /\ \A p \in Starts : parent[p] # "waiting"
  /\ \A q \in Stops : stop[q] \in {"new", "returned"}
MayBegin ==
  \/ Apart = "any"
  \/ Apart = "returned" /\ Returned
  \/ Apart = "ended" /\ Returned /\ \A p \in Starts : Settled(p)

Move(p, from, to) == child[p] = from /\ child' = [child EXCEPT ![p] = to]
Send(p, value) == sent' = IF sent[p] = None THEN [sent EXCEPT ![p] = value] ELSE sent

Init ==
  /\ parent = [p \in Starts |-> "new"] /\ code = [p \in Starts |-> None]
  /\ child = [p \in Starts |-> "none"] /\ sent = [p \in Starts |-> None]
  /\ pidfile = None /\ rundir = FALSE
  /\ stop = [q \in Stops |-> "new"] /\ target = [q \in Stops |-> None]

----------------------------------------------------------------------------
(* The parent.                                                              *)

\* "Check that the daemon is not run twice a the same time".
AlreadyRunning(p) ==
  /\ parent[p] = "new" /\ MayBegin /\ IsRunning
  /\ parent' = [parent EXCEPT ![p] = "returned"]
  /\ code' = [code EXCEPT ![p] = 1]
  /\ UNCHANGED <<child, sent, pidfile, rundir, stop, target>>

\* daemon_retval_init or daemon_fork fails.
NotForked(p) ==
  /\ MayFail
  /\ parent[p] = "new" /\ MayBegin /\ ~IsRunning
  /\ pidfile' = None
  /\ parent' = [parent EXCEPT ![p] = "returned"]
  /\ code' = [code EXCEPT ![p] = 1]
  /\ UNCHANGED <<child, sent, rundir, stop, target>>

\* Mutant: no check for a daemon that runs.
ForkAgain(p) ==
  /\ parent[p] = "new" /\ MayBegin
  /\ pidfile' = None
  /\ parent' = [parent EXCEPT ![p] = "waiting"]
  /\ Move(p, "none", "closing")
  /\ UNCHANGED <<code, sent, rundir, stop, target>>

\* No daemon: remove a stale file, fork, and wait for the child.
Fork(p) ==
  /\ parent[p] = "new" /\ MayBegin /\ ~IsRunning
  /\ pidfile' = None
  /\ parent' = [parent EXCEPT ![p] = "waiting"]
  /\ Move(p, "none", "closing")
  /\ UNCHANGED <<code, sent, rundir, stop, target>>

\* Mutant: a wait without an answer is returned as it is.
ParentReturnsNothing(p) ==
  /\ parent[p] = "waiting"
  /\ sent[p] # None \/ MaySlow \/ child[p] = "gone"
  /\ parent' = [parent EXCEPT ![p] = "returned"]
  /\ code' = [code EXCEPT ![p] = sent[p]]
  /\ UNCHANGED <<child, sent, pidfile, rundir, stop, target>>

ParentReturns(p) ==
  /\ parent[p] = "waiting"
  /\ parent' = [parent EXCEPT ![p] = "returned"]
  /\ \/ sent[p] # None /\ code' = [code EXCEPT ![p] = sent[p]]
     \/ /\ sent[p] = None
        /\ MaySlow \/ child[p] = "gone"
        /\ code' = [code EXCEPT ![p] = 255]
  /\ UNCHANGED <<child, sent, pidfile, rundir, stop, target>>

----------------------------------------------------------------------------
(* The child: main from daemon_close_all to its end.                        *)

CloseFds(p) ==
  /\ \/ Move(p, "closing", "rundir") /\ UNCHANGED sent
     \/ MayFail /\ Move(p, "closing", "finish") /\ Send(p, 1)
  /\ UNCHANGED <<parent, code, pidfile, rundir, stop, target>>

MakeRuntimeDir(p) ==
  /\ \/ Move(p, "rundir", "droproot") /\ rundir' = TRUE
     \/ MayFail /\ Move(p, "rundir", "finish") /\ UNCHANGED rundir
  /\ UNCHANGED <<parent, code, sent, pidfile, stop, target>>

DropRoot(p) ==
  /\ \/ Move(p, "droproot", "pidfile")
     \/ MayFail /\ Move(p, "droproot", "finish")
  /\ UNCHANGED <<parent, code, sent, pidfile, rundir, stop, target>>

CreatePidFile(p) ==
  /\ \/ /\ pidfile = None /\ rundir
        /\ Move(p, "pidfile", "sigaction")
        /\ pidfile' = p
        /\ UNCHANGED sent
     \/ /\ pidfile # None \/ ~rundir \/ MayFail
        /\ Move(p, "pidfile", "finish")
        /\ Send(p, 2)
        /\ UNCHANGED pidfile
  /\ UNCHANGED <<parent, code, rundir, stop, target>>

\* Mutant: no goto after the value 3 has been sent.
SigActionGoesOn(p) ==
  /\ Move(p, "sigaction", "armed")
  /\ UNCHANGED sent \/ (MayFail /\ Send(p, 3))
  /\ UNCHANGED <<parent, code, pidfile, rundir, stop, target>>

SigAction(p) ==
  /\ \/ Move(p, "sigaction", "armed") /\ UNCHANGED sent
     \/ MayFail /\ Move(p, "sigaction", "finish") /\ Send(p, 3)
  /\ UNCHANGED <<parent, code, pidfile, rundir, stop, target>>

SendOk(p) ==
  /\ Move(p, "armed", "running")
  /\ Send(p, 0)
  /\ UNCHANGED <<parent, code, pidfile, rundir, stop, target>>

\* The supervisor gives up (module LuadSupervisor).
SupervisorEnds(p) ==
  /\ Move(p, "running", "finish")
  /\ UNCHANGED <<parent, code, sent, pidfile, rundir, stop, target>>

\* The label finish, reached by every path: 255, then the pid file.
FinishSend(p) ==
  /\ Move(p, "finish", "remove")
  /\ Send(p, 255)
  /\ UNCHANGED <<parent, code, pidfile, rundir, stop, target>>

FinishRemove(p) ==
  /\ Move(p, "remove", "gone")
  /\ pidfile' = None
  /\ UNCHANGED <<parent, code, sent, rundir, stop, target>>

\* The handler sigterm: remove the pid file and exit.
SigTerm(p) ==
  /\ Move(p, "sigterm", "gone")
  /\ pidfile' = None
  /\ UNCHANGED <<parent, code, sent, rundir, stop, target>>

----------------------------------------------------------------------------
(* stop of the init script: "IoTd -k; rm -rf /var/run/IoTd".                *)

StopLooks(q) ==
  /\ stop[q] = "new" /\ MayBegin
  /\ \/ /\ IsRunning
        /\ target' = [target EXCEPT ![q] = pidfile]
        /\ stop' = [stop EXCEPT ![q] = "found"]
        /\ UNCHANGED pidfile
     \/ /\ ~IsRunning
        /\ pidfile' = None
        /\ stop' = [stop EXCEPT ![q] = "remove"]
        /\ UNCHANGED target
  /\ UNCHANGED <<parent, code, child, sent, rundir>>

\* Mutant: the signal is 0, which only asks whether the process exists.
StopAsks(q) ==
  /\ stop[q] = "found"
  /\ stop' = [stop EXCEPT ![q] = "killed"]
  /\ UNCHANGED <<parent, code, child, sent, pidfile, rundir, target>>

\* SIGTERM: the handler runs if it is installed, otherwise the process ends.
\* While the handler runs the signal is blocked.
StopKills(q) ==
  /\ stop[q] = "found"
  /\ stop' = [stop EXCEPT ![q] = "killed"]
  /\ LET p == target[q]
     IN  CASE Handles(p) -> child' = [child EXCEPT ![p] = "sigterm"]
           [] ~Alive(p) \/ child[p] = "sigterm" -> UNCHANGED child
           [] OTHER -> child' = [child EXCEPT ![p] = "gone"]
  /\ UNCHANGED <<parent, code, sent, pidfile, rundir, target>>

StopWaited(q) ==
  /\ stop[q] = "killed"
  /\ ~Alive(target[q]) \/ MaySlow
  /\ stop' = [stop EXCEPT ![q] = "remove"]
  /\ UNCHANGED <<parent, code, child, sent, pidfile, rundir, target>>

StopRemoves(q) ==
  /\ stop[q] = "remove"
  /\ stop' = [stop EXCEPT ![q] = "returned"]
  /\ rundir' = FALSE /\ pidfile' = None
  /\ UNCHANGED <<parent, code, child, sent, target>>

Daemon(p) ==
  \/ CloseFds(p) \/ MakeRuntimeDir(p) \/ DropRoot(p) \/ CreatePidFile(p)
  \/ SigAction(p) \/ SendOk(p) \/ SupervisorEnds(p)
  \/ FinishSend(p) \/ FinishRemove(p) \/ SigTerm(p)

Next ==
  \/ \E p \in Starts : AlreadyRunning(p) \/ NotForked(p) \/ Fork(p)
                       \/ ParentReturns(p) \/ Daemon(p)
  \/ \E q \in Stops : StopLooks(q) \/ StopKills(q) \/ StopWaited(q) \/ StopRemoves(q)

Spec == Init /\ [][Next]_vars

----------------------------------------------------------------------------
Running == {p \in Starts : child[p] = "running"}

TypeOK ==
  /\ parent \in [Starts -> {"new", "waiting", "returned"}]
  /\ code \in [Starts -> {None, 0, 1, 2, 3, 255}]
  /\ child \in [Starts -> {"none", "closing", "rundir", "droproot", "pidfile",
                "sigaction", "armed", "running", "finish", "remove", "sigterm", "gone"}]
  /\ sent \in [Starts -> {None, 0, 1, 2, 3, 255}]
  /\ \A p \in Starts : parent[p] = "returned" <=> code[p] # None
  /\ pidfile \in Starts \cup {None} /\ rundir \in BOOLEAN
  /\ stop \in [Stops -> {"new", "found", "killed", "remove", "returned"}]
  /\ target \in [Stops -> Starts \cup {None}]

\* "Check that the daemon is not run twice a the same time" (luad.c:256).
OneDaemon == Cardinality(Running) <= 1

\* What a start returned is true: 0 for a daemon that came to run and handles
\* SIGTERM, 1, 2 and 3 for one that never will.  (255 says nothing: the parent
\* also returns it when 20 seconds were not enough.)
CodeIsTrue ==
  \A p \in Starts :
    /\ code[p] = 0 => child[p] \in {"running", "finish", "remove", "sigterm", "gone"}
    /\ code[p] \in {1, 2, 3} => child[p] \in {"none", "finish", "remove", "gone"}

\* A daemon that runs is the one the pid file names, so the next start and the
\* next stop find it -- as long as each begins when the others' are settled.
RunningIsNamed == \A p \in Running : pidfile = p

\* When a stop returns, no daemon is left, not even one that has not answered
\* SIGTERM within 5 seconds.
StopLeavesNone ==
  [][\A q \in Stops :
       stop[q] # "returned" /\ stop'[q] = "returned" => Running' = {}]_vars
=============================================================================
