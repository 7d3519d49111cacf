-------------------------- MODULE LuadDaemonProofs --------------------------
(***************************************************************************)
(* For any number of starts and stops of a luad daemon: what a start has   *)
(* returned is true, and, as long as an invocation begins only when the    *)
(* processes of the others are settled, a daemon that runs is the one the  *)
(* pid file names and a stop leaves none.                                  *)
(***************************************************************************)
EXTENDS LuadDaemon, FiniteSetTheorems, TLAPS

----------------------------------------------------------------------------
(* The strengthenings.                                                      *)

Setup == {"closing", "rundir", "droproot", "pidfile", "sigaction", "armed"}
Ending == {"finish", "remove"}

\* A child sends nothing before it fails or comes to run, 0 when it comes to
\* run, and after another value it only cleans up.
SentTells ==
  \A p \in Starts :
    /\ child[p] \in Setup \cup {"none"} => sent[p] = None
    /\ child[p] = "running" => sent[p] = 0
    /\ sent[p] = 0 => child[p] \in Ending \cup {"running", "sigterm", "gone"}
    /\ sent[p] \in {1, 2, 3} => child[p] \in Ending \cup {"gone"}

\* The parent returns the value sent, 255, or 1 when it has not forked.
CodeTells ==
  \A p \in Starts :
    /\ parent[p] = "new" => child[p] = "none"
    /\ code[p] \in {0, 2, 3} => sent[p] = code[p]
    /\ code[p] = 1 => sent[p] = 1 \/ child[p] = "none"
    /\ parent[p] # "returned" => code[p] = None
    /\ child[p] = "none" => parent[p] # "waiting"

CodeInv == TypeOK /\ SentTells /\ CodeTells

\* A process that still has its way to the supervisor or has left it.
Owns(p) == child[p] = "sigaction" \/ Handles(p)

OneAlive == \A p, q \in Starts : Alive(p) /\ Alive(q) => p = q
OwnerNamed == \A p \in Starts : Owns(p) => pidfile = p

Busy(q) == stop[q] \in {"found", "killed", "remove"}
OneStop == \A q, r \in Stops : Busy(q) /\ Busy(r) => q = r

\* While a stop is at work nothing is started: the process it has found ends
\* or is killed, and after that there is none but one in its handler.
StopFinds ==
  \A q \in Stops :
    /\ stop[q] = "found" => \A p \in Starts : Settled(p) /\ (Alive(p) => target[q] = p)
    /\ stop[q] \in {"killed", "remove"} =>
         \A p \in Starts : child[p] \in {"none", "gone", "sigterm"}

NameInv == CodeInv /\ OneAlive /\ OwnerNamed /\ OneStop /\ StopFinds

----------------------------------------------------------------------------
(* What a start has returned.                                               *)

LEMMA NoneIsNoCode == None \notin {0, 1, 2, 3, 255} /\ None \notin Starts
BY NoneAssumption

LEMMA CodeInvInit == Init => CodeInv
<1> SUFFICES ASSUME Init PROVE CodeInv
  OBVIOUS
<1>1. TypeOK
  <2>1. rundir \in BOOLEAN
    BY DEF Init
  <2>2. /\ parent = [p \in Starts |-> "new"] /\ code = [p \in Starts |-> None]
        /\ child = [p \in Starts |-> "none"] /\ sent = [p \in Starts |-> None]
        /\ pidfile = None
        /\ stop = [q \in Stops |-> "new"] /\ target = [q \in Stops |-> None]
    BY DEF Init
  <2> QED
    BY <2>1, <2>2, SMT DEF TypeOK
<1>2. SentTells /\ CodeTells
  BY NoneIsNoCode, SMT DEF Init, SentTells, CodeTells, Setup, Ending
<1> QED
  BY <1>1, <1>2 DEF CodeInv

LEMMA CodeInvStep == CodeInv /\ [Next]_vars => CodeInv'
<1> SUFFICES ASSUME CodeInv, [Next]_vars PROVE CodeInv'
  OBVIOUS
<1> USE NoneIsNoCode DEF CodeInv, TypeOK, SentTells, CodeTells, Setup, Ending
<1>1. ASSUME NEW p \in Starts, AlreadyRunning(p) PROVE CodeInv'
  BY <1>1, SMT DEF AlreadyRunning
<1>2. ASSUME NEW p \in Starts, NotForked(p) PROVE CodeInv'
  BY <1>2, SMT DEF NotForked
<1>3. ASSUME NEW p \in Starts, Fork(p) PROVE CodeInv'
  BY <1>3, SMT DEF Fork, Move
<1>4. ASSUME NEW p \in Starts, ParentReturns(p) PROVE CodeInv'
  BY <1>4, SMT DEF ParentReturns
<1>5. ASSUME NEW p \in Starts, CloseFds(p) PROVE CodeInv'
  BY <1>5, SMT DEF CloseFds, Move, Send
<1>6. ASSUME NEW p \in Starts, MakeRuntimeDir(p) PROVE CodeInv'
  <2>1. rundir' \in BOOLEAN
    BY <1>6 DEF MakeRuntimeDir
  <2>2. /\ Move(p, "rundir", "droproot") \/ Move(p, "rundir", "finish")
        /\ UNCHANGED <<parent, code, sent, pidfile, stop, target>>
    BY <1>6 DEF MakeRuntimeDir
  <2> QED
    BY <2>1, <2>2, SMT DEF Move
<1>7. ASSUME NEW p \in Starts, DropRoot(p) PROVE CodeInv'
  BY <1>7, SMT DEF DropRoot, Move
<1>8. ASSUME NEW p \in Starts, CreatePidFile(p) PROVE CodeInv'
  BY <1>8, SMT DEF CreatePidFile, Move, Send
<1>9. ASSUME NEW p \in Starts, SigAction(p) PROVE CodeInv'
  BY <1>9, SMT DEF SigAction, Move, Send
<1>10. ASSUME NEW p \in Starts, SendOk(p) PROVE CodeInv'
  BY <1>10, SMT DEF SendOk, Move, Send
<1>11. ASSUME NEW p \in Starts, SupervisorEnds(p) PROVE CodeInv'
  BY <1>11, SMT DEF SupervisorEnds, Move
<1>12. ASSUME NEW p \in Starts, FinishSend(p) PROVE CodeInv'
  BY <1>12, SMT DEF FinishSend, Move, Send
<1>13. ASSUME NEW p \in Starts, FinishRemove(p) PROVE CodeInv'
  BY <1>13, SMT DEF FinishRemove, Move
<1>14. ASSUME NEW p \in Starts, SigTerm(p) PROVE CodeInv'
  BY <1>14, SMT DEF SigTerm, Move
<1>15. ASSUME NEW q \in Stops, StopLooks(q) PROVE CodeInv'
  BY <1>15, SMT DEF StopLooks, IsRunning
<1>16. ASSUME NEW q \in Stops, StopKills(q) PROVE CodeInv'
  BY <1>16, SMT DEF StopKills, Handles, Alive
<1>17. ASSUME NEW q \in Stops, StopWaited(q) PROVE CodeInv'
  BY <1>17, SMT DEF StopWaited
<1>18. ASSUME NEW q \in Stops, StopRemoves(q) PROVE CodeInv'
  <2>1. rundir' \in BOOLEAN
    BY <1>18 DEF StopRemoves
  <2>2. /\ stop' = [stop EXCEPT ![q] = "returned"] /\ pidfile' = None
        /\ UNCHANGED <<parent, code, child, sent, target>>
    BY <1>18 DEF StopRemoves
  <2> QED
    BY <2>1, <2>2, SMT
<1>19. CASE UNCHANGED vars
  BY <1>19, SMT DEF vars
<1> QED
  BY <1>1, <1>2, <1>3, <1>4, <1>5, <1>6, <1>7, <1>8, <1>9, <1>10, <1>11, <1>12, <1>13, <1>14, <1>15, <1>16, <1>17, <1>18, <1>19 DEF Next, Daemon

LEMMA CodeInvHolds == Spec => []CodeInv
<1> QED
  BY CodeInvInit, CodeInvStep, PTL DEF Spec

\* The variables of a start and a stop keep their types, whatever fails, in
\* whatever order invocations come (luad.c, main; dragino.init, stop).
THEOREM TypeCorrect == Spec => []TypeOK
<1>1. CodeInv => TypeOK
  BY DEF CodeInv
<1> QED
  BY <1>1, CodeInvHolds, PTL

\* The exit code of a start is true, also when starts and stops overlap: 0
\* only for a daemon that came to run, 1, 2 and 3 only for one that never will
\* (luad.c, main: daemon_retval_wait and every daemon_retval_send).
THEOREM CodeCorrect == Spec => []CodeIsTrue
<1>1. CodeInv => CodeIsTrue
  BY NoneIsNoCode, SMT
     DEF CodeInv, TypeOK, SentTells, CodeTells, CodeIsTrue, Setup, Ending
<1> QED
  BY <1>1, CodeInvHolds, PTL

----------------------------------------------------------------------------
(* The pid file, when an invocation begins only after the others' processes *)
(* are settled.                                                             *)

LEMMA NameInvInit == Init => NameInv
<1> SUFFICES ASSUME Init PROVE NameInv
  OBVIOUS
<1>1. CodeInv
  BY CodeInvInit
<1>2. /\ \A p \in Starts : child[p] = "none"
      /\ \A q \in Stops : stop[q] = "new"
  BY DEF Init
<1> QED
  BY <1>1, <1>2, SMT DEF NameInv, OneAlive, OwnerNamed, OneStop, StopFinds,
                         Alive, Owns, Handles, Busy

\* An invocation that begins finds a daemon or no process at all, for what is
\* alive then is settled, and so named.
LEMMA BeginFinds ==
  ASSUME Apart = "ended", NameInv, MayBegin
  PROVE  /\ \A q \in Stops : ~Busy(q)
         /\ \A p \in Starts : Settled(p) /\ (Alive(p) => pidfile = p)
         /\ ~IsRunning => \A p \in Starts : child[p] \in {"none", "gone"}
<1>1. Returned /\ \A p \in Starts : Settled(p)
  BY DEF MayBegin
<1>2. \A q \in Stops : ~Busy(q)
  BY <1>1, SMT DEF Returned, Busy
<1>3. \A p \in Starts : Alive(p) => pidfile = p
  BY <1>1 DEF Settled, Alive, NameInv, OwnerNamed, Owns
<1>4. \A p \in Starts : p # None
  BY NoneIsNoCode
<1> QED
  BY <1>1, <1>2, <1>3, <1>4 DEF IsRunning, Alive

LEMMA NameInvStep ==
  ASSUME Apart = "ended", NameInv, [Next]_vars
  PROVE  NameInv'
<1>0. CodeInv'
  BY CodeInvStep DEF NameInv
<1> USE <1>0, NoneIsNoCode
    DEF NameInv, CodeInv, TypeOK, OneAlive, OwnerNamed, OneStop, StopFinds, Alive, Owns,
        Handles, Busy, Settled
<1>1. ASSUME NEW p \in Starts, AlreadyRunning(p) PROVE NameInv'
  BY <1>1, SMT DEF AlreadyRunning
<1>2. ASSUME NEW p \in Starts, NotForked(p) PROVE NameInv'
  BY <1>2, BeginFinds, SMT DEF NotForked
<1>3. ASSUME NEW p \in Starts, Fork(p) PROVE NameInv'
  BY <1>3, BeginFinds, SMT DEF Fork, Move
<1>4. ASSUME NEW p \in Starts, ParentReturns(p) PROVE NameInv'
  BY <1>4, SMT DEF ParentReturns
<1>5. ASSUME NEW p \in Starts, CloseFds(p) PROVE NameInv'
  BY <1>5, SMT DEF CloseFds, Move, Send, SentTells, Setup
<1>6. ASSUME NEW p \in Starts, MakeRuntimeDir(p) PROVE NameInv'
  BY <1>6, SMT DEF MakeRuntimeDir, Move, SentTells, Setup
<1>7. ASSUME NEW p \in Starts, DropRoot(p) PROVE NameInv'
  BY <1>7, SMT DEF DropRoot, Move, SentTells, Setup
<1>8. ASSUME NEW p \in Starts, CreatePidFile(p) PROVE NameInv'
  BY <1>8, SMT DEF CreatePidFile, Move, Send, SentTells, Setup
<1>9. ASSUME NEW p \in Starts, SigAction(p) PROVE NameInv'
  BY <1>9, SMT DEF SigAction, Move, Send, SentTells, Setup
<1>10. ASSUME NEW p \in Starts, SendOk(p) PROVE NameInv'
  BY <1>10, SMT DEF SendOk, Move, Send, SentTells, Setup
<1>11. ASSUME NEW p \in Starts, SupervisorEnds(p) PROVE NameInv'
  BY <1>11, SMT DEF SupervisorEnds, Move, SentTells, Setup
<1>12. ASSUME NEW p \in Starts, FinishSend(p) PROVE NameInv'
  BY <1>12, SMT DEF FinishSend, Move, Send, SentTells, Setup
<1>13. ASSUME NEW p \in Starts, FinishRemove(p) PROVE NameInv'
  BY <1>13, SMT DEF FinishRemove, Move
<1>14. ASSUME NEW p \in Starts, SigTerm(p) PROVE NameInv'
  BY <1>14, SMT DEF SigTerm, Move
<1>15. ASSUME NEW q \in Stops, StopLooks(q) PROVE NameInv'
  BY <1>15, BeginFinds, SMT DEF StopLooks, IsRunning
<1>16. ASSUME NEW q \in Stops, StopKills(q) PROVE NameInv'
  BY <1>16, SMT DEF StopKills
<1>17. ASSUME NEW q \in Stops, StopWaited(q) PROVE NameInv'
  BY <1>17, SMT DEF StopWaited
<1>18. ASSUME NEW q \in Stops, StopRemoves(q) PROVE NameInv'
  BY <1>18, SMT DEF StopRemoves
<1>19. CASE UNCHANGED vars
  BY <1>19, SMT DEF vars
<1> QED
  BY <1>1, <1>2, <1>3, <1>4, <1>5, <1>6, <1>7, <1>8, <1>9, <1>10, <1>11, <1>12, <1>13, <1>14, <1>15, <1>16, <1>17, <1>18, <1>19 DEF Next, Daemon

LEMMA NameInvHolds == ASSUME Apart = "ended" PROVE Spec => []NameInv
<1> QED
  BY NameInvInit, NameInvStep, PTL DEF Spec

\* A daemon that runs is the one the pid file names, for any number of starts
\* and stops of which each begins after the others' processes are settled:
\* neither the unlink at finish nor that of a stop hits another's file (luad.c,
\* daemon_pid_file_create at 309 and daemon_pid_file_remove at 368).
THEOREM DaemonIsNamed == ASSUME Apart = "ended" PROVE Spec => []RunningIsNamed
<1>1. NameInv => RunningIsNamed
  BY SMT DEF NameInv, OwnerNamed, Owns, Handles, RunningIsNamed, Running
<1> QED
  BY <1>1, NameInvHolds, PTL

\* There is never more than one daemon (luad.c:256), under the same condition.
THEOREM OnlyOneDaemon == ASSUME Apart = "ended" PROVE Spec => []OneDaemon
<1>1. ASSUME NameInv PROVE OneDaemon
  <2>1. CASE Running = {}
    BY <2>1, FS_EmptySet DEF OneDaemon
  <2>2. ASSUME NEW p \in Running PROVE OneDaemon
    <3>1. Running = {p}
      BY <1>1, <2>2 DEF NameInv, OneAlive, Alive, Running
    <3>2. Cardinality({p}) = 1
      BY FS_Singleton
    <3> QED
      BY <3>1, <3>2, SMT DEF OneDaemon
  <2> QED
    BY <2>1, <2>2
<1> QED
  BY <1>1, NameInvHolds, PTL

\* When a stop returns no daemon is left, even if the one it found had more
\* than the 5 seconds it got (dragino.init, stop; luad.c, -k).
THEOREM StopCorrect == ASSUME Apart = "ended" PROVE Spec => StopLeavesNone
<1> DEFINE Step == \A q \in Stops :
                     stop[q] # "returned" /\ stop'[q] = "returned" => Running' = {}
<1>1. ASSUME NameInv, [Next]_vars PROVE [Step]_vars
  <2> SUFFICES ASSUME NEW q \in Stops, stop[q] # "returned", stop'[q] = "returned"
               PROVE  Running' = {}
    OBVIOUS
  <2>1. StopRemoves(q)
    <3> USE <1>1 DEF NameInv, CodeInv, TypeOK
    <3>1. ASSUME NEW r \in Stops, StopLooks(r) PROVE FALSE
      BY <3>1, SMT DEF StopLooks
    <3>2. ASSUME NEW r \in Stops, StopKills(r) PROVE FALSE
      BY <3>2, SMT DEF StopKills
    <3>3. ASSUME NEW r \in Stops, StopWaited(r) PROVE FALSE
      BY <3>3, SMT DEF StopWaited
    <3>4. ASSUME NEW r \in Stops, StopRemoves(r) PROVE r = q
      BY <3>4, SMT DEF StopRemoves
    <3>5. stop' # stop
      OBVIOUS
    <3>6. \E r \in Stops :
            StopLooks(r) \/ StopKills(r) \/ StopWaited(r) \/ StopRemoves(r)
      BY <1>1, <3>5 DEF Next, vars, AlreadyRunning, NotForked, Fork, ParentReturns, Daemon,
         CloseFds, MakeRuntimeDir, DropRoot, CreatePidFile, SigAction, SendOk,
         SupervisorEnds, FinishSend, FinishRemove, SigTerm
    <3> QED
      BY <3>1, <3>2, <3>3, <3>4, <3>6
  <2>2. \A p \in Starts : child[p] \in {"none", "gone", "sigterm"}
    BY <1>1, <2>1 DEF NameInv, StopFinds, StopRemoves
  <2>3. child' = child
    BY <2>1 DEF StopRemoves
  <2> QED
    BY <2>2, <2>3, SMT DEF Running
<1> QED
  BY <1>1, NameInvHolds, PTL DEF Spec, StopLeavesNone
============================================================================
