--------------------------- MODULE LuadSupervisor ---------------------------
(***************************************************************************)
(* The "Erlang-style supervisor" of luad (openwrt/package/dragino/src/     *)
(* luad.c): it runs the Lua daemon again whenever it ends, and gives up    *)
(* when SUP_ALLOWED_RESTARTS restarts lie within SUP_MAX_SECONDS.  The     *)
(* restart times are wall-clock seconds in a ring; the router has no clock *)
(* of its own, so the wall clock starts anywhere and is set by NTP later.  *)
(***************************************************************************)
EXTENDS Integers, Sequences

CONSTANTS
  Restarts,    \* SUP_ALLOWED_RESTARTS, 10
  Window,      \* SUP_MAX_SECONDS, 60
  Clocks,      \* wall clock minus uptime: what boot and NTP can set it to
  Residues,    \* what restart_max can find in total, which it never sets
  MaxUptime    \* bound of the exploration: seconds since boot

ASSUME RestartsAssumption == Restarts \in Nat \ {0} /\ Window \in Nat \ {0}
ASSUME ClocksAssumption == Clocks \subseteq Nat /\ Residues \subseteq Int
ASSUME BoundAssumption == MaxUptime \in Nat

VARIABLES
  pc,       \* running, sleeping, counting, or stopped
  uptime,   \* seconds since boot, never set back
  clock,    \* wall clock minus uptime: time(NULL) is uptime + clock
  slot,     \* restart->i
  time,     \* restart->time
  i,        \* the loop variable of restart_max
  total,    \* restarts counted so far
  spent,    \* seconds spent in this phase of the loop, up to 2
  residue,  \* ghost: what total held before the count
  recent,   \* ghost: the uptimes of the last restarts, oldest first
  since,    \* ghost: restarts since the clock was set, up to Restarts
  booted,   \* ghost: the clock has not been set since boot
  asOf      \* ghost: the uptime at which the count began

ghosts == <<residue, recent, since, booted, asOf>>
vars == <<pc, uptime, clock, slot, time, i, total, spent, ghosts>>

Slots == 0 .. Restarts - 1
Now == uptime + clock            \* time(NULL)

----------------------------------------------------------------------------
\* restart_init, before the first run of the Lua daemon.
Init ==
  /\ pc = "running"
  /\ uptime = 0 /\ clock \in Clocks
  /\ slot = 0 /\ time = [s \in Slots |-> 0]
  /\ i = 0 /\ total = 0 /\ spent = 0
  /\ residue = 0 /\ recent = <<>> /\ since = 0 /\ booted = TRUE /\ asOf = 0

\* What an end of the Lua daemon adds to the ghosts.
Remember ==
  /\ recent' = Append(IF Len(recent) < Restarts THEN recent ELSE Tail(recent),
                      uptime)
  /\ since' = IF since < Restarts THEN since + 1 ELSE since
  /\ UNCHANGED <<residue, booted, asOf>>

\* Mutant: restart_add does not bring the index back into the ring.
LuaEndsPastRing ==
  /\ pc = "running"
  /\ pc' = "sleeping" /\ spent' = 0
  /\ time' = [time EXCEPT ![slot] = Now]
  /\ slot' = slot + 1
  /\ Remember
  /\ UNCHANGED <<uptime, clock, i, total>>

\* Mutant: restart_add writes the slot and stays there.
LuaEndsInPlace ==
  /\ pc = "running"
  /\ pc' = "sleeping" /\ spent' = 0
  /\ time' = [time EXCEPT ![slot] = Now]
  /\ Remember
  /\ UNCHANGED <<uptime, clock, slot, i, total>>

\* The Lua daemon ends, by an error or not: lua_close, restart_add, sleep(1).
LuaEnds ==
  /\ pc = "running"
  /\ pc' = "sleeping" /\ spent' = 0
  /\ time' = [time EXCEPT ![slot] = Now]
  /\ slot' = (slot + 1) % Restarts
  /\ Remember
  /\ UNCHANGED <<uptime, clock, i, total>>

\* sleep(1) returns after a second or more, and restart_max begins to count
\* from whatever total holds.
Wake ==
  /\ pc = "sleeping" /\ spent > 0
  /\ pc' = "counting" /\ spent' = 0
  /\ i' = 0
  /\ total' \in Residues
  /\ residue' = total'
  /\ asOf' = uptime
  /\ UNCHANGED <<uptime, clock, slot, time, recent, since, booted>>

\* Mutant: ">=" for ">", a restart exactly Window seconds ago counts.
CountOldest ==
  /\ pc = "counting" /\ i < Restarts
  /\ total' = IF time[i] >= Now - Window THEN total + 1 ELSE total
  /\ i' = i + 1
  /\ UNCHANGED <<pc, uptime, clock, slot, time, spent, ghosts>>

\* Mutant: the last slot is not looked at.
CountAllButLast ==
  /\ pc = "counting" /\ i < Restarts
  /\ total' = IF i < Restarts - 1 /\ time[i] > Now - Window THEN total + 1 ELSE total
  /\ i' = i + 1
  /\ UNCHANGED <<pc, uptime, clock, slot, time, spent, ghosts>>

\* One turn of the loop; each turn reads the clock again.
Count ==
  /\ pc = "counting" /\ i < Restarts
  /\ total' = IF time[i] > Now - Window THEN total + 1 ELSE total
  /\ i' = i + 1
  /\ UNCHANGED <<pc, uptime, clock, slot, time, spent, ghosts>>

\* restart_max answers 1: the supervisor leaves its loop, and luad exits.
GiveUp ==
  /\ pc = "counting" /\ i = Restarts /\ total = Restarts
  /\ pc' = "stopped"
  /\ UNCHANGED <<uptime, clock, slot, time, i, total, spent, ghosts>>

\* restart_max answers 0: the Lua daemon is run again, and the local
\* variables of restart_max are gone.
RunAgain ==
  /\ pc = "counting" /\ i = Restarts /\ total # Restarts
  /\ pc' = "running" /\ spent' = 0
  /\ i' = 0 /\ total' = 0 /\ residue' = 0 /\ asOf' = 0
  /\ UNCHANGED <<uptime, clock, slot, time, recent, since, booted>>

\* A second passes.  The Lua daemon runs for any time, sleep(1) lasts at most
\* a second longer than asked, the count crosses at most one second.
Tick ==
  /\ uptime < MaxUptime
  /\ pc = "sleeping" => spent < 2
  /\ pc = "counting" => spent < 1
  /\ pc # "stopped"
  /\ uptime' = uptime + 1
  /\ spent' = IF spent < 2 THEN spent + 1 ELSE spent
  /\ UNCHANGED <<pc, clock, slot, time, i, total, ghosts>>

\* ntpclient sets the wall clock.
SetClock ==
  /\ pc # "stopped"
  /\ clock' \in Clocks \ {clock}
  /\ booted' = FALSE /\ since' = 0
  /\ UNCHANGED <<pc, uptime, slot, time, i, total, spent, residue, recent, asOf>>

Supervise == Wake \/ Count \/ GiveUp \/ RunAgain
Next == LuaEnds \/ Supervise \/ Tick \/ SetClock

Spec == Init /\ [][Next]_vars

\* The supervisor is scheduled and time goes on; nothing makes the Lua daemon
\* end, and nothing sets the clock.
FairSpec == Spec /\ WF_vars(Supervise) /\ WF_vars(Tick)

----------------------------------------------------------------------------
TypeOK ==
  /\ pc \in {"running", "sleeping", "counting", "stopped"}
  /\ uptime \in Nat /\ clock \in Clocks /\ spent \in 0 .. 2
  /\ slot \in Slots /\ time \in [Slots -> Nat]
  /\ i \in 0 .. Restarts /\ total \in Int /\ residue \in Int
  /\ recent \in Seq(Nat) /\ Len(recent) <= Restarts
  /\ since \in 0 .. Restarts /\ booted \in BOOLEAN /\ asOf \in Nat

\* The last Restarts runs all ended less than Window seconds before t.
BurstAt(t) == Len(recent) = Restarts /\ recent[1] > t - Window

\* total began at 0, and the times in the ring compare with the clock: they
\* are all of this setting of the clock, or the zeroes of restart_init are
\* more than Window seconds away.
Sound == residue = 0 /\ (since = Restarts \/ (booted /\ clock >= Window))

\* The supervisor gives up only on a burst: never because of a restart that
\* the ring has forgotten, of a slot never written, or of the second that
\* passes while it counts.
GivesUpOnlyOnBurst == pc = "stopped" /\ Sound => BurstAt(asOf)

\* It never runs the Lua daemon again when the count has ended on a burst.
BurstEndsLoop ==
  [][pc = "counting" /\ pc' = "running" /\ Sound => ~BurstAt(uptime)]_vars

\* A Lua daemon that always ends at once does not keep the router busy for
\* ever: luad stops, if the clock stands still in the meantime.
CrashLoopStops ==
  [](Sound \/ pc # "counting") /\ [](pc = "running" => spent <= 1)
    => <>(pc = "stopped")

\* "Stop when allowed number of restarts have occurred in specified time
\* window" (luad.c:360), and only then.
StopsOnlyOnBurst == pc = "stopped" => BurstAt(asOf)
=============================================================================
