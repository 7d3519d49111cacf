------------------------ MODULE LuadSupervisorProofs ------------------------
(***************************************************************************)
(* The restart count of luad is right for any number of restarts, window   *)
(* and uptime, whenever the clock is set, as long as the count begins at 0 *)
(* and the times in the ring compare with the clock.                       *)
(***************************************************************************)
EXTENDS LuadSupervisor, SequenceTheorems, TLAPS

\* How many restarts ago a slot was written, if it was: 1 is the last one.
Age(s) == IF s < slot THEN slot - s ELSE slot + Restarts - s

----------------------------------------------------------------------------
(* The strengthenings.                                                     *)

\* The ring holds the restarts since the clock was set, as wall-clock times.
RingHolds ==
  \A s \in Slots :
    Age(s) <= since =>
      /\ Age(s) <= Len(recent)
      /\ time[s] = recent[Len(recent) - Age(s) + 1] + clock

\* As long as the clock has not been set all restarts count, and a slot that is
\* not written is 0.
RingFromBoot ==
  booted => /\ since = Len(recent)
            /\ \A s \in Slots : Age(s) > Len(recent) => time[s] = 0

RecentInOrder ==
  /\ \A k \in 1 .. Len(recent) : recent[k] <= uptime
  /\ \A k, l \in 1 .. Len(recent) : k <= l => recent[k] <= recent[l]

\* What Sound says of the ring: its times compare with the clock.
RingSound == since = Restarts \/ (booted /\ clock >= Window)

\* While restart_max counts, it has counted a slot at most once, none that was
\* too old when it began, and all that are not too old yet.
CountRight ==
  pc \in {"counting", "stopped"} =>
    /\ asOf <= uptime
    /\ total - residue <= i
    /\ RingSound =>
         /\ total - residue = i => \A s \in 0 .. i - 1 : time[s] > asOf + clock - Window
         /\ (\A s \in 0 .. i - 1 : time[s] > Now - Window) => total - residue = i

Stopped == pc = "stopped" => i = Restarts /\ total = Restarts

RingInv == RingHolds /\ RingFromBoot /\ RecentInOrder
Inv == TypeOK /\ RingInv /\ CountRight /\ Stopped

----------------------------------------------------------------------------
(* The ring and the list of restarts.                                      *)

\* The next slot, without "%".
LEMMA NextSlot ==
  ASSUME NEW s \in Slots
  PROVE  (s + 1) % Restarts = IF s + 1 = Restarts THEN 0 ELSE s + 1
  BY RestartsAssumption, SMT DEF Slots

LEMMA AgeRange ==
  ASSUME slot \in Slots, NEW s \in Slots
  PROVE  Age(s) \in 1 .. Restarts /\ (Age(s) = Restarts <=> s = slot)
  BY RestartsAssumption, SMT DEF Slots, Age

\* A restart makes every other slot one restart older.
LEMMA AgeNext ==
  ASSUME slot \in Slots, slot' = (slot + 1) % Restarts, NEW s \in Slots
  PROVE  Age(s)' = IF s = slot THEN 1 ELSE Age(s) + 1
<1>1. slot' = IF slot + 1 = Restarts THEN 0 ELSE slot + 1
  BY NextSlot
<1> QED
  BY <1>1, RestartsAssumption, SMT DEF Slots, Age

\* A longer list: an entry more.
LEMMA Longer ==
  ASSUME NEW q \in Seq(Nat), NEW t \in Nat
  PROVE  /\ Append(q, t) \in Seq(Nat)
         /\ Len(Append(q, t)) = Len(q) + 1
         /\ Append(q, t)[Len(q) + 1] = t
         /\ \A k \in 1 .. Len(q) : Append(q, t)[k] = q[k]
  BY AppendProperties

\* A list as long as before: the oldest entry goes.
LEMMA Shifted ==
  ASSUME NEW q \in Seq(Nat), NEW t \in Nat, Len(q) > 0
  PROVE  /\ Append(Tail(q), t) \in Seq(Nat)
         /\ Len(Append(Tail(q), t)) = Len(q)
         /\ Append(Tail(q), t)[Len(q)] = t
         /\ \A k \in 1 .. Len(q) - 1 : Append(Tail(q), t)[k] = q[k + 1]
<1>1. Len(q) \in Nat /\ q # <<>>
  BY LenProperties
<1>2. /\ Tail(q) \in Seq(Nat) /\ Len(Tail(q)) = Len(q) - 1
      /\ \A k \in 1 .. Len(Tail(q)) : Tail(q)[k] = q[k + 1]
  BY <1>1, HeadTailProperties
<1>3. PICK p \in Seq(Nat) : p = Tail(q)
  BY <1>2
<1>4. /\ Append(p, t) \in Seq(Nat)
      /\ Len(Append(p, t)) = Len(p) + 1
      /\ Append(p, t)[Len(p) + 1] = t
      /\ \A k \in 1 .. Len(p) : Append(p, t)[k] = p[k]
  BY Longer
<1>5. Len(p) = Len(q) - 1 /\ Len(p) + 1 = Len(q)
  BY <1>1, <1>2, <1>3
<1> QED
  BY <1>2, <1>3, <1>4, <1>5

\* What Remember makes of a list: its last entry is new, and the others are
\* where they were from the end, one further.
LEMMA Pushed ==
  ASSUME NEW q \in Seq(Nat), NEW t \in Nat, Len(q) <= Restarts
  PROVE  \E r \in Seq(Nat) :
           /\ r = Append(IF Len(q) < Restarts THEN q ELSE Tail(q), t)
           /\ Len(r) = IF Len(q) < Restarts THEN Len(q) + 1 ELSE Restarts
           /\ r[Len(r)] = t
           /\ \A k \in 1 .. Len(r) - 1 : r[k] = q[k + 1 + Len(q) - Len(r)]
<1>1. Len(q) \in Nat /\ Restarts \in Nat \ {0}
  BY RestartsAssumption, LenProperties
<1>2. CASE Len(q) < Restarts
  <2>1. PICK r \in Seq(Nat) :
          /\ r = Append(q, t) /\ Len(r) = Len(q) + 1 /\ r[Len(q) + 1] = t
          /\ \A k \in 1 .. Len(q) : r[k] = q[k]
    BY Longer
  <2>2. ASSUME NEW k \in 1 .. Len(r) - 1 PROVE r[k] = q[k + 1 + Len(q) - Len(r)]
    <3>1. k \in 1 .. Len(q) /\ k + 1 + Len(q) - Len(r) = k
      BY <1>1, <2>1
    <3> QED
      BY <2>1, <3>1, Zenon
  <2> QED
    BY <1>2, <2>1, <2>2, Zenon
<1>3. CASE Len(q) = Restarts
  <2>1. Len(q) > 0 /\ ~(Len(q) < Restarts)
    BY <1>1, <1>3
  <2>2. PICK r \in Seq(Nat) :
          /\ r = Append(Tail(q), t) /\ Len(r) = Len(q) /\ r[Len(q)] = t
          /\ \A k \in 1 .. Len(q) - 1 : r[k] = q[k + 1]
    BY <2>1, Shifted
  <2>3. ASSUME NEW k \in 1 .. Len(r) - 1 PROVE r[k] = q[k + 1 + Len(q) - Len(r)]
    <3>1. k \in 1 .. Len(q) - 1 /\ k + 1 + Len(q) - Len(r) = k + 1
      BY <1>1, <2>2
    <3> QED
      BY <2>2, <3>1, Zenon
  <2> QED
    BY <1>3, <2>1, <2>2, <2>3, Zenon
<1> QED
  BY <1>1, <1>2, <1>3

----------------------------------------------------------------------------
(* Type correctness.                                                       *)

\* TypeOK in two parts, one for each kind of prover.
Flag == booted \in BOOLEAN

Typed ==
  /\ pc \in {"running", "sleeping", "counting", "stopped"}
  /\ uptime \in Nat /\ clock \in Clocks /\ spent \in 0 .. 2
  /\ slot \in Slots /\ time \in [Slots -> Nat]
  /\ i \in 0 .. Restarts /\ total \in Int /\ residue \in Int
  /\ recent \in Seq(Nat) /\ Len(recent) <= Restarts
  /\ since \in 0 .. Restarts /\ asOf \in Nat

LEMMA TypeParts == TypeOK <=> Typed /\ Flag
  BY Zenon DEF TypeOK, Typed, Flag

LEMMA InitTypeOK == Init => TypeOK
<1> SUFFICES ASSUME Init PROVE Typed /\ Flag
  BY TypeParts
<1>1. Typed
  BY RestartsAssumption, ClocksAssumption DEF Init, Typed, Slots
<1>2. Flag
  BY Zenon DEF Init, Flag
<1> QED
  BY <1>1, <1>2

LEMMA StepFlag == Flag /\ [Next]_vars => Flag'
  BY Zenon DEF Flag, Next, Supervise, vars, ghosts, LuaEnds, Remember, Wake, Count, GiveUp,
     RunAgain, Tick, SetClock

LEMMA StepTyped == Typed /\ [Next]_vars => Typed'
<1> SUFFICES ASSUME Typed, [Next]_vars PROVE Typed'
  OBVIOUS
<1> USE RestartsAssumption, ClocksAssumption DEF Typed, ghosts
<1>1. CASE LuaEnds
  <2>1. recent' \in Seq(Nat) /\ Len(recent') <= Restarts
    BY <1>1, Pushed DEF LuaEnds, Remember
  <2>2. slot' \in Slots
    BY <1>1, NextSlot DEF LuaEnds, Slots
  <2>3. time' \in [Slots -> Nat]
    BY <1>1 DEF LuaEnds, Now
  <2> QED
    BY <1>1, <2>1, <2>2, <2>3 DEF LuaEnds, Remember
<1>2. CASE Wake
  BY <1>2 DEF Wake
<1>3. CASE Count
  BY <1>3 DEF Count
<1>4. CASE GiveUp
  BY <1>4 DEF GiveUp
<1>5. CASE RunAgain
  BY <1>5 DEF RunAgain
<1>6. CASE Tick
  BY <1>6 DEF Tick
<1>7. CASE SetClock
  BY <1>7 DEF SetClock
<1>8. CASE UNCHANGED vars
  BY <1>8 DEF vars
<1> QED
  BY <1>1, <1>2, <1>3, <1>4, <1>5, <1>6, <1>7, <1>8 DEF Next, Supervise

LEMMA StepTypeOK == TypeOK /\ [Next]_vars => TypeOK'
  BY TypeParts, StepFlag, StepTyped, Zenon DEF TypeOK, Typed, Flag

\* The variables stay in their sets: the index of the ring, too, and there are
\* never more restarts remembered than the ring has slots.
THEOREM TypeCorrect == Spec => []TypeOK
  BY InitTypeOK, StepTypeOK, PTL DEF Spec

----------------------------------------------------------------------------
(* The ring.                                                               *)

LEMMA InitRingInv == Init => RingInv
<1> SUFFICES ASSUME Init PROVE RingInv
  OBVIOUS
<1> USE RestartsAssumption DEF Init
<1>1. Typed
  BY InitTypeOK, TypeParts
<1>2. \A s \in Slots : Age(s) \in 1 .. Restarts
  BY <1>1, AgeRange DEF Typed
<1>3. RingHolds
  BY <1>2 DEF RingHolds
<1>4. RingFromBoot
  BY DEF RingFromBoot
<1>5. RecentInOrder
  BY DEF RecentInOrder
<1> QED
  BY <1>3, <1>4, <1>5 DEF RingInv

LEMMA EndKeepsRing == Typed /\ RingInv /\ LuaEnds => RingInv'
<1> SUFFICES ASSUME Typed, RingInv, LuaEnds PROVE RingInv'
  OBVIOUS
<1> DEFINE len == Len(recent)
           len1 == Len(recent')
<1>1. /\ recent' \in Seq(Nat)
      /\ len1 = IF len < Restarts THEN len + 1 ELSE Restarts
      /\ recent'[len1] = uptime
      /\ \A k \in 1 .. len1 - 1 : recent'[k] = recent[k + 1 + len - len1]
  <2>1. recent \in Seq(Nat) /\ uptime \in Nat /\ Len(recent) <= Restarts
    BY DEF Typed
  <2>2. recent' = Append(IF Len(recent) < Restarts THEN recent ELSE Tail(recent), uptime)
    BY DEF LuaEnds, Remember
  <2> QED
    <3>1. PICK r \in Seq(Nat) :
            /\ r = Append(IF Len(recent) < Restarts THEN recent ELSE Tail(recent), uptime)
            /\ Len(r) = IF Len(recent) < Restarts THEN Len(recent) + 1 ELSE Restarts
            /\ r[Len(r)] = uptime
            /\ \A k \in 1 .. Len(r) - 1 : r[k] = recent[k + 1 + Len(recent) - Len(r)]
      BY <2>1, Pushed
    <3>2. r = recent'
      BY <2>2, <3>1, Zenon
    <3> QED
      BY <3>1, <3>2, Zenon
<1>2. /\ len \in Nat /\ len1 \in Nat \ {0} /\ len <= Restarts /\ Restarts \in Nat \ {0}
      /\ len1 = IF len < Restarts THEN len + 1 ELSE Restarts
  BY <1>1, RestartsAssumption, LenProperties DEF Typed
<1>3. \A s \in Slots : Age(s)' = IF s = slot THEN 1 ELSE Age(s) + 1
  BY AgeNext DEF LuaEnds, Typed
<1>4. \A s \in Slots : Age(s) \in 1 .. Restarts /\ (Age(s) = Restarts <=> s = slot)
  BY AgeRange DEF Typed
<1> HIDE DEF len, len1
<1>5. /\ clock' = clock /\ uptime' = uptime
      /\ since' = IF since < Restarts THEN since + 1 ELSE since
      /\ time' = [time EXCEPT ![slot] = uptime + clock]
      /\ time \in [Slots -> Nat] /\ slot \in Slots
      /\ uptime \in Nat /\ clock \in Nat /\ since \in 0 .. Restarts
      /\ \A k \in 1 .. len : recent[k] \in Nat
  BY ClocksAssumption DEF LuaEnds, Remember, Now, Typed, len
<1>6. RingHolds'
  <2> SUFFICES ASSUME NEW s \in Slots, Age(s)' <= since'
               PROVE  /\ Age(s)' <= len1
                      /\ time'[s] = recent'[len1 - Age(s)' + 1] + clock
    BY <1>5, Zenon DEF RingHolds, len1
  <2>1. CASE s = slot
    <3>1. Age(s)' = 1 /\ len1 - Age(s)' + 1 = len1 /\ Age(s)' <= len1
      BY <2>1, <1>2, <1>3
    <3>2. time'[s] = uptime + clock
      BY <2>1, <1>5
    <3> QED
      BY <3>1, <3>2, <1>1
  <2>2. CASE s # slot
    <3>1. Age(s) <= since /\ Age(s) < Restarts /\ Age(s)' = Age(s) + 1 /\ Age(s) \in 1 .. Restarts
      BY <2>2, <1>3, <1>4, <1>5
    <3>2. Age(s) <= len /\ time[s] = recent[len - Age(s) + 1] + clock
      BY <3>1 DEF RingInv, RingHolds, len
    <3>3. Age(s)' <= len1 /\ len1 - Age(s)' + 1 \in 1 .. len1 - 1
      BY <3>1, <3>2, <1>2
    <3>4. len1 - Age(s)' + 1 + 1 + len - len1 = len - Age(s) + 1
      BY <3>1, <1>2
    <3>5. recent'[len1 - Age(s)' + 1] = recent[len - Age(s) + 1]
      BY <3>3, <3>4, <1>1, Zenon
    <3>6. time'[s] = time[s]
      BY <1>5, <2>2
    <3> QED
      BY <3>2, <3>3, <3>5, <3>6
  <2> QED
    BY <2>1, <2>2
<1>7. RingFromBoot'
  <2> SUFFICES ASSUME booted
               PROVE  /\ since' = len1
                      /\ \A s \in Slots : Age(s)' > len1 => time'[s] = 0
    BY Zenon DEF RingFromBoot, LuaEnds, Remember, len1
  <2>1. since' = len1
    BY <1>2, <1>5 DEF RingInv, RingFromBoot, len
  <2>2. ASSUME NEW s \in Slots, Age(s)' > len1 PROVE time'[s] = 0
    <3>1. s # slot /\ Age(s)' = Age(s) + 1
      BY <2>2, <1>2, <1>3
    <3>2. Age(s) > len
      BY <2>2, <3>1, <1>2, <1>4
    <3> QED
      BY <3>1, <3>2, <1>5 DEF RingInv, RingFromBoot, len
  <2> QED
    BY <2>1, <2>2
<1>8. RecentInOrder'
  <2> DEFINE old(k) == k + 1 + len - len1
  <2>1. /\ \A k \in 1 .. len : recent[k] <= uptime
        /\ \A k, l \in 1 .. len : k <= l => recent[k] <= recent[l]
    BY Zenon DEF RingInv, RecentInOrder, len
  <2>2. ASSUME NEW k \in 1 .. len1
        PROVE  k = len1 \/ (k \in 1 .. len1 - 1 /\ old(k) \in 1 .. len)
    BY <1>2
  <2>3. ASSUME NEW k \in 1 .. len1, NEW l \in 1 .. len1, k <= l
        PROVE  old(k) <= old(l) /\ (k = len1 => l = len1)
    BY <2>3, <1>2
  <2>4. \A k \in 1 .. len1 - 1 : recent'[k] = recent[old(k)]
    BY <1>1
  <2> HIDE DEF old
  <2>5. ASSUME NEW k \in 1 .. len1 PROVE recent'[k] <= uptime
    <3>1. CASE k = len1
      BY <3>1, <1>1, <1>5
    <3>2. CASE k # len1
      BY <3>2, <2>1, <2>2, <2>4
    <3> QED
      BY <3>1, <3>2
  <2>6. ASSUME NEW k \in 1 .. len1, NEW l \in 1 .. len1, k <= l PROVE recent'[k] <= recent'[l]
    <3>1. CASE l = len1
      BY <3>1, <2>5, <1>1
    <3>2. CASE l # len1
      BY <2>6, <3>2, <2>1, <2>2, <2>3, <2>4
    <3> QED
      BY <3>1, <3>2
  <2> QED
    BY <2>5, <2>6, <1>5, Zenon DEF RecentInOrder, len1
<1> QED
  BY <1>6, <1>7, <1>8 DEF RingInv

LEMMA StepRingInv == Typed /\ RingInv /\ [Next]_vars => RingInv'
<1> SUFFICES ASSUME Typed, RingInv, [Next]_vars PROVE RingInv'
  OBVIOUS
<1>1. CASE LuaEnds
  BY <1>1, EndKeepsRing
<1>2. CASE SetClock
  <2>1. \A s \in Slots : Age(s)' = Age(s) /\ Age(s) \in 1 .. Restarts
    BY <1>2, AgeRange DEF SetClock, Age, Typed
  <2>2. since' = 0 /\ ~booted' /\ UNCHANGED <<recent, uptime>>
    BY <1>2 DEF SetClock
  <2> QED
    BY <2>1, <2>2 DEF RingInv, RingHolds, RingFromBoot, RecentInOrder
<1>3. CASE Tick
  <2>1. uptime' = uptime + 1 /\ UNCHANGED <<clock, slot, time, recent, since, booted>>
    BY <1>3 DEF Tick, ghosts
  <2>2. \A k \in 1 .. Len(recent) : recent[k] \in Nat
    BY DEF Typed
  <2>3. RecentInOrder'
    BY <2>1, <2>2 DEF RecentInOrder, RingInv, Typed
  <2>4. RingHolds' /\ RingFromBoot'
    BY <2>1, Zenon DEF RingInv, RingHolds, RingFromBoot, Age
  <2> QED
    BY <2>3, <2>4 DEF RingInv
<1>4. CASE UNCHANGED <<uptime, clock, slot, time, recent, since, booted>>
  BY <1>4, Zenon DEF RingInv, RingHolds, RingFromBoot, RecentInOrder, Age
<1> QED
  BY <1>1, <1>2, <1>3, <1>4, Zenon
  DEF Next, Supervise, Wake, Count, GiveUp, RunAgain, vars, ghosts

----------------------------------------------------------------------------
(* The count.                                                              *)

LEMMA CountKeepsRight == Typed /\ CountRight /\ Count => CountRight'
<1> SUFFICES ASSUME Typed, CountRight, Count PROVE CountRight'
  OBVIOUS
<1> USE RestartsAssumption, ClocksAssumption
<1>1. /\ i \in Slots /\ i' = i + 1 /\ total \in Int /\ residue \in Int
      /\ total' = IF time[i] > Now - Window THEN total + 1 ELSE total
      /\ UNCHANGED <<uptime, clock, time, residue, since, booted, asOf>>
  BY DEF Typed, Count, ghosts, Slots
<1>2. \A s \in 0 .. i : time[s] \in Nat
  BY <1>1 DEF Typed, Slots
<1>3. uptime \in Nat /\ clock \in Nat /\ asOf \in Nat /\ Window \in Nat
  BY DEF Typed
<1>4. asOf <= uptime /\ total - residue <= i
  BY DEF CountRight, Count
<1>5. ASSUME RingSound, total' - residue = i + 1
      PROVE  \A s \in 0 .. i : time[s] > asOf + clock - Window
  <2>1. total - residue = i /\ time[i] > Now - Window
    BY <1>1, <1>4, <1>5 DEF Slots
  <2>2. \A s \in 0 .. i - 1 : time[s] > asOf + clock - Window
    BY <1>5, <2>1 DEF CountRight, Count
  <2>3. time[i] > asOf + clock - Window
    BY <1>1, <1>2, <1>3, <1>4, <2>1 DEF Now, Slots
  <2> QED
    BY <1>1, <2>2, <2>3 DEF Slots
<1>6. ASSUME RingSound, \A s \in 0 .. i : time[s] > Now - Window
      PROVE  total' - residue = i + 1
  <2>1. time[i] > Now - Window /\ \A s \in 0 .. i - 1 : time[s] > Now - Window
    BY <1>1, <1>6 DEF Slots
  <2>2. total - residue = i
    BY <1>6, <2>1 DEF CountRight, Count
  <2> QED
    BY <1>1, <2>1, <2>2
<1>7. i' - 1 = i /\ Now' = Now /\ RingSound' = RingSound
  BY <1>1 DEF Slots, Now, RingSound
<1>8. total' - residue <= i'
  BY <1>1, <1>4 DEF Slots
<1> QED
  BY <1>1, <1>4, <1>5, <1>6, <1>7, <1>8 DEF CountRight

LEMMA StepCountRight == Typed /\ CountRight /\ [Next]_vars => CountRight'
<1> SUFFICES ASSUME Typed, CountRight, [Next]_vars PROVE CountRight'
  OBVIOUS
<1> USE RestartsAssumption, ClocksAssumption
<1>1. CASE pc' \notin {"counting", "stopped"}
  BY <1>1 DEF CountRight
<1>2. CASE Wake
  <2>1. i' = 0 /\ total' \in Int /\ residue' = total' /\ asOf' = uptime /\ uptime' = uptime
    BY <1>2 DEF Wake
  <2>2. uptime \in Nat
    BY DEF Typed
  <2>3. asOf' <= uptime'
    BY <2>1, <2>2
  <2>4. total' - residue' = i' /\ total' - residue' <= i'
    <3>1. PICK n \in Int : total' = n
      BY <2>1
    <3>2. n - n = 0
      BY SMT
    <3> QED
      BY <2>1, <3>1, <3>2
  <2>5. 0 .. i' - 1 = {}
    BY <2>1
  <2> QED
    BY <2>3, <2>4, <2>5, Zenon DEF CountRight
<1>3. CASE Count
  BY <1>3, CountKeepsRight
<1>4. CASE Tick
  <2>1. /\ uptime' = uptime + 1
        /\ UNCHANGED <<pc, clock, time, i, total, residue, since, booted, asOf>>
    BY <1>4 DEF Tick, ghosts
  <2>2. \A s \in 0 .. i - 1 : time[s] \in Nat
    BY DEF Typed, Slots
  <2>3. uptime \in Nat /\ clock \in Nat /\ asOf \in Nat /\ Window \in Nat
    BY DEF Typed
  <2>4. \A s \in 0 .. i - 1 : time[s] > Now' - Window => time[s] > Now - Window
    BY <2>1, <2>2, <2>3 DEF Now
  <2>5. RingSound' = RingSound
    BY <2>1 DEF RingSound
  <2>6. pc \in {"counting", "stopped"} => asOf <= uptime'
    BY <2>1, <2>3 DEF CountRight
  <2> QED
    BY <2>1, <2>4, <2>5, <2>6, Zenon DEF CountRight
<1>5. CASE SetClock
  <2>1. ~RingSound'
    BY <1>5 DEF SetClock, RingSound
  <2> QED
    BY <1>5, <2>1, Zenon DEF SetClock, CountRight
<1>6. CASE /\ pc \in {"counting", "stopped"}
           /\ UNCHANGED <<uptime, clock, time, i, total, residue, since, booted, asOf>>
  BY <1>6, Zenon DEF CountRight, RingSound, Now
<1>7. CASE GiveUp
  BY <1>7, <1>6 DEF GiveUp, ghosts
<1>8. CASE UNCHANGED vars
  BY <1>8, <1>1, <1>6 DEF vars, ghosts
<1> QED
  BY <1>1, <1>2, <1>3, <1>4, <1>5, <1>7, <1>8 DEF Next, Supervise, LuaEnds, RunAgain

LEMMA StepStopped == Stopped /\ [Next]_vars => Stopped'
  BY DEF Stopped, Next, Supervise, vars, ghosts, LuaEnds, Wake, Count, GiveUp, RunAgain, Tick,
     SetClock

LEMMA InitInv == Init => Inv
<1>1. Init => CountRight /\ Stopped
  BY DEF Init, CountRight, Stopped
<1> QED
  BY <1>1, InitTypeOK, InitRingInv DEF Inv

LEMMA StepInv == Inv /\ [Next]_vars => Inv'
  BY TypeParts, StepTypeOK, StepRingInv, StepCountRight, StepStopped, Zenon DEF Inv

LEMMA SpecInv == Spec => []Inv
  BY InitInv, StepInv, PTL DEF Spec

----------------------------------------------------------------------------
(* What restart_max answers.                                               *)

\* A ring that is full holds every one of the last Restarts restarts, the
\* oldest of them in the slot that is written next.
LEMMA FullRing ==
  ASSUME Typed, RingInv, since = Restarts
  PROVE  /\ Len(recent) = Restarts /\ recent[1] \in Nat /\ slot \in Slots
         /\ time[slot] = recent[1] + clock
         /\ \A s \in Slots : time[s] >= recent[1] + clock
<1>1. Restarts \in Nat \ {0} /\ slot \in Slots /\ Len(recent) \in Nat /\ clock \in Nat
  BY RestartsAssumption, ClocksAssumption, LenProperties DEF Typed
<1>2. \A s \in Slots : Age(s) \in 1 .. Restarts /\ (Age(s) = Restarts <=> s = slot)
  BY AgeRange DEF Typed
<1>3. \A s \in Slots : /\ Age(s) <= Len(recent)
                      /\ time[s] = recent[Len(recent) - Age(s) + 1] + clock
  BY <1>1, <1>2 DEF RingInv, RingHolds
<1>4. Len(recent) = Restarts
  BY <1>1, <1>2, <1>3 DEF Typed
<1>5. \A k \in 1 .. Restarts : recent[k] \in Nat
  BY <1>4, ElementOfSeq DEF Typed
<1>6. \A s \in Slots : Restarts - Age(s) + 1 \in 1 .. Restarts
  BY <1>1, <1>2
<1>7. time[slot] = recent[1] + clock
  <2>1. Restarts - Age(slot) + 1 = 1
    BY <1>1, <1>2
  <2> QED
    BY <1>1, <1>3, <1>4, <2>1
<1>8. ASSUME NEW s \in Slots PROVE time[s] >= recent[1] + clock
  <2>1. PICK k \in 1 .. Restarts : time[s] = recent[k] + clock
    BY <1>3, <1>4, <1>6
  <2>2. recent[1] <= recent[k]
    BY <1>1, <1>4 DEF RingInv, RecentInOrder
  <2> QED
    BY <1>1, <1>5, <2>1, <2>2
<1> QED
  BY <1>1, <1>4, <1>5, <1>7, <1>8

LEMMA InvGivesUp == Inv => GivesUpOnlyOnBurst
<1> SUFFICES ASSUME Inv, pc = "stopped", Sound PROVE BurstAt(asOf)
  BY DEF GivesUpOnlyOnBurst
<1>1. Typed /\ RingInv
  BY TypeParts DEF Inv
<1>2. /\ Restarts \in Nat \ {0} /\ Window \in Nat /\ clock \in Nat /\ asOf \in Nat
      /\ slot \in Slots /\ Len(recent) \in Nat /\ Len(recent) <= Restarts
  BY <1>1, RestartsAssumption, ClocksAssumption, LenProperties DEF Typed
<1>3. \A s \in Slots : time[s] > asOf + clock - Window
  <2>1. RingSound /\ residue = 0 /\ i = Restarts /\ total = Restarts
    BY DEF Sound, RingSound, Inv, Stopped
  <2>2. total - residue = i
    BY <1>2, <2>1
  <2> QED
    BY <2>1, <2>2 DEF Inv, CountRight, Slots
<1>4. CASE since = Restarts
  <2>1. /\ Len(recent) = Restarts /\ recent[1] \in Nat
        /\ recent[1] + clock > asOf + clock - Window
    BY <1>1, <1>3, <1>4, FullRing
  <2>2. recent[1] > asOf - Window
    BY <1>2, <2>1
  <2> QED
    BY <2>1, <2>2 DEF BurstAt
<1>5. CASE since # Restarts
  <2>1. booted /\ clock >= Window /\ since = Len(recent)
    BY <1>1, <1>5, Zenon DEF Sound, RingInv, RingFromBoot
  <2>2. Age(slot) > Len(recent)
    BY <1>1, <1>2, <1>5, <2>1, AgeRange
  <2>3. time[slot] = 0
    BY <1>1, <1>2, <2>1, <2>2 DEF RingInv, RingFromBoot
  <2>4. 0 > asOf + clock - Window
    BY <1>2, <1>3, <2>3
  <2> QED
    BY <1>2, <2>1, <2>4
<1> QED
  BY <1>4, <1>5

LEMMA StepBurstEnds ==
  Inv /\ [Next]_vars =>
    [pc = "counting" /\ pc' = "running" /\ Sound => ~BurstAt(uptime)]_vars
<1> SUFFICES ASSUME Inv, Next, pc = "counting", pc' = "running", Sound, BurstAt(uptime)
             PROVE  FALSE
  BY Zenon
<1>1. Typed /\ RingInv
  BY TypeParts DEF Inv
<1>2. RunAgain
  BY DEF Next, Supervise, LuaEnds, Wake, Count, GiveUp, Tick, SetClock
<1>3. /\ Restarts \in Nat \ {0} /\ Window \in Nat /\ clock \in Nat /\ uptime \in Nat
      /\ total \in Int /\ time \in [Slots -> Nat]
  BY <1>1, RestartsAssumption, ClocksAssumption DEF Typed
<1>4. since = Restarts
  BY <1>1, Zenon DEF Sound, BurstAt, RingInv, RingFromBoot
<1>5. recent[1] \in Nat /\ \A s \in Slots : time[s] >= recent[1] + clock
  BY <1>1, <1>4, FullRing
<1>6. recent[1] > uptime - Window
  BY DEF BurstAt
<1>7. \A s \in 0 .. Restarts - 1 : time[s] > Now - Window
  BY <1>3, <1>5, <1>6 DEF Slots, Now
<1>8. i = Restarts /\ residue = 0 /\ total # Restarts /\ RingSound
  BY <1>2 DEF RunAgain, Sound, RingSound
<1>9. total - residue = i
  BY <1>7, <1>8 DEF Inv, CountRight
<1> QED
  BY <1>3, <1>8, <1>9

\* When luad gives up, the last Restarts runs all ended within the window: no
\* restart the ring forgot, no slot never written and no second that passed
\* during the count has made it stop (restart_add, restart_max).
THEOREM GivesUpRight == Spec => []GivesUpOnlyOnBurst
  BY SpecInv, InvGivesUp, PTL

\* A count that ends on such a burst is never answered by running the Lua
\* daemon again: the two tests of the supervisor agree from both sides.
THEOREM BurstIsNotMissed == Spec => BurstEndsLoop
<1>1. Inv /\ [Next]_vars =>
        [pc = "counting" /\ pc' = "running" /\ Sound => ~BurstAt(uptime)]_vars
  BY StepBurstEnds
<1> QED
  BY <1>1, SpecInv, PTL DEF Spec, BurstEndsLoop
=============================================================================
