---------------------------- MODULE DeviceProofs ----------------------------
(***************************************************************************)
(* The clock and the console, for every number of processes, every width   *)
(* of the counters and every size of the ring: ClockIInv and ConsoleIInv   *)
(* are inductive, and the console implements Terminal.  Spin locks and     *)
(* interrupts, for every number of processors, threads and locks: LocksIInv*)
(* is inductive, so whoever holds a spin lock is never interrupted, and    *)
(* pushcli() and popcli() leave the interrupt flag as the thread had it,   *)
(* wherever it ran in between.                                             *)
(***************************************************************************)
EXTENDS ConsoleProps, Clock, Locks, SequenceTheorems, FiniteSetTheorems, TLAPS

LEMMA Words == WORD \in Nat /\ WORD > 0 /\ Late \in Nat
    BY ClockAssumption

\* Reduction modulo WORD of what is at most one turn outside 0 .. WORD - 1.
LEMMA WordReduced ==
    ASSUME NEW x \in Int
    PROVE  /\ x \in 0 .. WORD - 1 => x % WORD = x
           /\ x < 0 /\ x >= 0 - WORD => x % WORD = x + WORD
           /\ x = WORD => x % WORD = 0
           /\ x % WORD \in 0 .. WORD - 1
    BY Words

\* What ticks holds after a tick, and how far it is from where it was.
LEMMA WordSteps ==
    ASSUME NEW t \in 0 .. WORD - 1, NEW s \in 0 .. WORD - 1
    PROVE  /\ (t + 1) % WORD \in 0 .. WORD - 1
           /\ (t - s) % WORD \in 0 .. WORD - 1
           /\ (t - t) % WORD = 0
           /\ LET d == (t - s) % WORD
              IN  d + 1 < WORD => (((t + 1) % WORD) - s) % WORD = d + 1
<1> DEFINE u == (t + 1) % WORD
<1>1. t \in Int /\ s \in Int /\ t - s \in Int /\ t - s < WORD /\ t - s >= 0 - WORD
    BY Words
<1>2. u = (IF t + 1 = WORD THEN 0 ELSE t + 1) /\ u \in 0 .. WORD - 1
    BY <1>1, WordReduced, Words
<1>3. /\ (t - s) % WORD = IF t >= s THEN t - s ELSE t - s + WORD
      /\ (t - s) % WORD \in 0 .. WORD - 1
    BY <1>1, WordReduced, Words
<1>4. (t - t) % WORD = 0
    BY <1>1, WordReduced, Words
<1> HIDE DEF u
<1>5. (u - s) % WORD = IF u >= s THEN u - s ELSE u - s + WORD
    BY <1>1, <1>2, WordReduced, Words
<1> QED
    BY <1>1, <1>2, <1>3, <1>4, <1>5, Words DEF u

THEOREM ClockInit == KInit => ClockIInv
<1> SUFFICES ASSUME KInit PROVE ClockIInv
    OBVIOUS
<1>1. KTypeOK
    BY Words DEF KInit, KTypeOK, Awake
<1>2. \A p \in Sleepers : nap[p].pc = "awake"
    BY DEF KInit, Awake
<1>3. tickslock = NoSleeper /\ NoSleeper \notin Sleepers
    BY ClockAssumption DEF KInit
<1> QED
    BY <1>1, <1>2, <1>3 DEF ClockIInv, LockHeld, Counted, Sleeping, SleepsEnough, InTime

\* A step of one process: what is said of the others stays.
Others(p) ==
    \A q \in Sleepers \ {p} :
        nap'[q] = nap[q] /\ passed'[q] = passed[q] /\ behind'[q] = behind[q]

\* What ClockIInv says of one process.
Timed(p) ==
    /\ Sleeping(p) => passed[p] >= WORD \/ Elapsed(p) = passed[p]
    /\ nap[p].pc = "slept" => passed[p] >= nap[p].n
    /\ nap[p].n + Late < WORD =>
          /\ nap[p].pc \in {"asleep", "sleep"} => passed[p] < nap[p].n
          /\ nap[p].pc \in {"woken", "look"}   => passed[p] <= nap[p].n + behind[p]
          /\ nap[p].pc = "slept"               => passed[p] <= nap[p].n + Late

LEMMA TimedParts == ClockIInv <=> KTypeOK /\ LockHeld /\ \A p \in Sleepers : Timed(p)
    BY Zenon DEF ClockIInv, Counted, SleepsEnough, InTime, Timed

LEMMA TimedPartsNext ==
    ClockIInv' <=> KTypeOK' /\ LockHeld' /\ \A p \in Sleepers : Timed(p)'
    BY Zenon DEF ClockIInv, Counted, SleepsEnough, InTime, Timed

\* The type of one process's state.
LEMMA NapType ==
    ASSUME KTypeOK, NEW p \in Sleepers
    PROVE  /\ nap[p].pc \in {"awake", "look", "sleep", "asleep", "woken", "slept"}
           /\ nap[p].n \in 0 .. WORD - 1 /\ nap[p].ticks0 \in 0 .. WORD - 1
           /\ passed[p] \in 0 .. WORD /\ behind[p] \in 0 .. Late
           /\ ticks \in 0 .. WORD - 1
    BY DEF KTypeOK

\* A process whose own state is as it was, at the same time.
LEMMA TimedStays ==
    ASSUME NEW p \in Sleepers, Timed(p), ticks' = ticks, nap'[p] = nap[p],
           passed'[p] = passed[p], behind'[p] = behind[p]
    PROVE  Timed(p)'
    BY DEF Timed, Sleeping, Elapsed

\* So a step in which ticks does not move has to be looked at for its process only.
LEMMA OneProcess ==
    ASSUME ClockIInv, NEW p \in Sleepers, Others(p), ticks' = ticks,
           KTypeOK', LockHeld', Timed(p)'
    PROVE  ClockIInv'
<1>1. ASSUME NEW q \in Sleepers PROVE Timed(q)'
    <2>1. CASE q = p
        BY <2>1
    <2>2. CASE q # p
        BY <2>2, TimedParts, TimedStays DEF Others
    <2> QED
        BY <2>1, <2>2
<1> QED
    BY <1>1, TimedPartsNext

LEMMA ClockTick == ClockIInv /\ Tick => ClockIInv'
<1> SUFFICES ASSUME ClockIInv, Tick PROVE ClockIInv'
    OBVIOUS
<1>1. KTypeOK /\ LockHeld /\ tickslock = NoSleeper /\ NoSleeper \notin Sleepers
    BY ClockAssumption DEF ClockIInv, Tick
<1>2. ticks' = (ticks + 1) % WORD /\ ticks' \in 0 .. WORD - 1 /\ ticks \in 0 .. WORD - 1
    BY <1>1, WordSteps DEF Tick, KTypeOK
<1>3. ASSUME NEW p \in Sleepers
      PROVE  /\ nap'[p] = IF Asleep(p) THEN [nap[p] EXCEPT !.pc = "woken"] ELSE nap[p]
             /\ passed'[p] = IF Sleeping(p) /\ passed[p] < WORD THEN passed[p] + 1
                             ELSE passed[p]
             /\ behind'[p] = IF Sleeping(p) /\ ~Asleep(p) THEN behind[p] + 1 ELSE 0
             /\ Sleeping(p) => behind[p] < Late
             /\ nap[p].pc \notin {"look", "sleep"}
    BY <1>1 DEF Tick, LockHeld
<1>4. ASSUME NEW p \in Sleepers
      PROVE  /\ nap'[p].pc = IF Asleep(p) THEN "woken" ELSE nap[p].pc
             /\ nap'[p].n = nap[p].n /\ nap'[p].ticks0 = nap[p].ticks0
             /\ nap'[p] \in [pc : {"awake", "look", "sleep", "asleep", "woken", "slept"},
                             n : 0 .. WORD - 1, ticks0 : 0 .. WORD - 1]
    BY <1>1, <1>3 DEF KTypeOK, Asleep
<1>5. KTypeOK'
    <2>1. ASSUME NEW p \in Sleepers
          PROVE  passed'[p] \in 0 .. WORD /\ behind'[p] \in 0 .. Late
        <3>1. passed[p] \in 0 .. WORD /\ behind[p] \in 0 .. Late
            BY <1>1, NapType
        <3>2. CASE Sleeping(p)
            <4>1. passed'[p] = IF passed[p] < WORD THEN passed[p] + 1 ELSE passed[p]
                BY <1>3, <3>2
            <4>2. behind[p] < Late /\ behind'[p] = IF ~Asleep(p) THEN behind[p] + 1 ELSE 0
                BY <1>3, <3>2
            <4> QED
                BY <3>1, <4>1, <4>2, Words
        <3>3. CASE ~Sleeping(p)
            <4>1. passed'[p] = passed[p] /\ behind'[p] = 0
                BY <1>3, <3>3
            <4> QED
                BY <3>1, <4>1, Words
        <3> QED
            BY <3>2, <3>3
    <2>2. /\ nap' = [p \in Sleepers |-> nap'[p]]
          /\ passed' = [p \in Sleepers |-> passed'[p]]
          /\ behind' = [p \in Sleepers |-> behind'[p]]
        BY DEF Tick
    <2> QED
        BY <1>1, <1>2, <1>4, <2>1, <2>2 DEF KTypeOK, Tick
<1>6. LockHeld'
    BY <1>1, <1>3, <1>4 DEF LockHeld, Tick, Asleep
<1>7. ASSUME NEW p \in Sleepers PROVE Timed(p)'
    <2>1. Timed(p)
        BY TimedParts
    <2>2. Sleeping(p)' <=> Sleeping(p)
        BY <1>4 DEF Sleeping, Asleep
    <2>3. Sleeping(p)' => passed'[p] >= WORD \/ Elapsed(p)' = passed'[p]
        <3> DEFINE d == (ticks - nap[p].ticks0) % WORD
        <3>1. d \in 0 .. WORD - 1 /\ (d + 1 < WORD => Elapsed(p)' = d + 1)
            <4>1. ticks \in 0 .. WORD - 1 /\ nap[p].ticks0 \in 0 .. WORD - 1
                BY <1>1, NapType
            <4>2. ticks' = (ticks + 1) % WORD /\ nap'[p].ticks0 = nap[p].ticks0
                BY <1>2, <1>4
            <4>3. Elapsed(p)' = (((ticks + 1) % WORD) - nap[p].ticks0) % WORD
                BY <4>2 DEF Elapsed
            <4> QED
                BY <4>1, <4>3, WordSteps
        <3>2. Elapsed(p) = d
            BY DEF Elapsed
        <3> HIDE DEF d
        <3>3. passed[p] \in 0 .. WORD
            BY <1>1, NapType
        <3>4. Sleeping(p) =>
                 passed'[p] = IF passed[p] < WORD THEN passed[p] + 1 ELSE passed[p]
            BY <1>3
        <3>5. Sleeping(p) => passed[p] >= WORD \/ d = passed[p]
            BY <2>1, <3>2 DEF Timed
        <3> QED
            BY <2>2, <3>1, <3>3, <3>4, <3>5, Words
    <2>4. nap'[p].pc = "slept" => passed'[p] = passed[p] /\ nap[p].pc = "slept"
        BY <1>3, <1>4 DEF Sleeping, Asleep
    <2>5. nap'[p].pc \notin {"asleep", "sleep", "look"}
        BY <1>1, <1>3, <1>4 DEF Asleep, LockHeld
    <2>6. ASSUME nap[p].n + Late < WORD, nap'[p].pc = "woken"
          PROVE  passed'[p] <= nap[p].n + behind'[p]
        <3>1. /\ passed[p] \in 0 .. WORD /\ behind[p] \in 0 .. Late
              /\ nap[p].n \in 0 .. WORD - 1
            BY <1>1, NapType
        <3>2. CASE Asleep(p)
            <4>1. passed[p] < nap[p].n
                BY <2>1, <2>6, <3>2 DEF Timed, Asleep
            <4>2. Sleeping(p)
                BY <3>2 DEF Sleeping, Asleep
            <4>3. behind'[p] = 0 /\ passed'[p] \in {passed[p], passed[p] + 1}
                BY <1>3, <3>2, <4>2
            <4> QED
                BY <3>1, <4>1, <4>3, Words
        <3>3. CASE ~Asleep(p)
            <4>1. nap[p].pc = "woken"
                BY <1>4, <2>6, <3>3
            <4>2. passed[p] <= nap[p].n + behind[p] /\ Sleeping(p)
                BY <2>1, <2>6, <4>1 DEF Timed, Sleeping
            <4>3. behind'[p] = behind[p] + 1 /\ passed'[p] \in {passed[p], passed[p] + 1}
                BY <1>3, <3>3, <4>2
            <4> QED
                BY <3>1, <4>2, <4>3, Words
        <3> QED
            BY <3>2, <3>3
    <2> QED
        BY <1>4, <2>1, <2>3, <2>4, <2>5, <2>6 DEF Timed
<1> QED
    BY <1>5, <1>6, <1>7, TimedPartsNext

\* Where the process of a step is afterwards, and what becomes of its clock.
LEMMA ClockSleep ==
    ASSUME ClockIInv, NEW p \in Sleepers, NEW n \in Naps, Sleep(p, n)
    PROVE  ClockIInv'
<1>1. KTypeOK /\ LockHeld /\ NoSleeper \notin Sleepers
    BY ClockAssumption DEF ClockIInv
<1>2. n \in Int /\ Unsigned(n) \in 0 .. WORD - 1
    BY ClockAssumption, WordReduced DEF Unsigned
<1>3. nap'[p] = [pc |-> "look", n |-> Unsigned(n), ticks0 |-> ticks] /\ passed'[p] = 0
    BY <1>1 DEF Sleep, KTypeOK
<1>4. KTypeOK'
    BY <1>1, <1>2, Words DEF Sleep, KTypeOK
<1>5. LockHeld'
    BY <1>1, <1>3 DEF Sleep, LockHeld, KTypeOK
<1>6. Timed(p)'
    <2>1. ticks' = ticks /\ ticks \in 0 .. WORD - 1 /\ behind'[p] \in 0 .. Late
        BY <1>1, NapType DEF Sleep
    <2>2. Elapsed(p)' = 0
        BY <1>3, <2>1, WordSteps DEF Elapsed
    <2> QED
        BY <1>2, <1>3, <2>1, <2>2, Words DEF Timed
<1>7. Others(p) /\ ticks' = ticks
    BY <1>1 DEF Sleep, Others, KTypeOK
<1> QED
    BY <1>4, <1>5, <1>6, <1>7, OneProcess

LEMMA ClockSlept ==
    ASSUME ClockIInv, NEW p \in Sleepers, Slept(p)
    PROVE  ClockIInv'
<1>1. KTypeOK /\ LockHeld /\ NoSleeper \notin Sleepers /\ Timed(p)
    BY ClockAssumption, TimedParts DEF ClockIInv
<1>2. /\ nap'[p] = [nap[p] EXCEPT !.pc = "slept"] /\ nap[p].pc = "look"
      /\ passed' = passed /\ behind' = behind /\ ticks' = ticks
    BY <1>1 DEF Slept, KTypeOK
<1>3. KTypeOK'
    BY <1>1 DEF Slept, KTypeOK
<1>4. LockHeld'
    BY <1>1, <1>2 DEF Slept, LockHeld, KTypeOK
<1>5. Timed(p)'
    <2>1. /\ nap[p].n \in 0 .. WORD - 1 /\ passed[p] \in 0 .. WORD /\ behind[p] \in 0 .. Late
          /\ nap'[p].pc = "slept" /\ nap'[p].n = nap[p].n
        BY <1>1, <1>2, NapType
    <2>2. passed[p] >= WORD \/ Elapsed(p) = passed[p]
        BY <1>1, <1>2 DEF Timed, Sleeping
    <2>3. passed[p] >= nap[p].n
        BY <2>1, <2>2, Words DEF Slept, Over
    <2>4. nap[p].n + Late < WORD => passed[p] <= nap[p].n + Late
        BY <1>1, <1>2, <2>1, Words DEF Timed
    <2> QED
        BY <1>2, <2>1, <2>3, <2>4 DEF Timed, Sleeping
<1>6. Others(p)
    BY <1>1, <1>2 DEF Slept, Others, KTypeOK
<1> QED
    BY <1>2, <1>3, <1>4, <1>5, <1>6, OneProcess

\* Not there yet: asleep long before it is due.
LEMMA ClockStays ==
    ASSUME ClockIInv, NEW p \in Sleepers, StaysAwhile(p)
    PROVE  ClockIInv'
<1>1. KTypeOK /\ LockHeld /\ NoSleeper \notin Sleepers /\ Timed(p)
    BY ClockAssumption, TimedParts DEF ClockIInv
<1>2. /\ nap'[p] = [nap[p] EXCEPT !.pc = "sleep"] /\ nap[p].pc = "look"
      /\ passed' = passed /\ behind' = behind /\ ticks' = ticks
    BY <1>1 DEF StaysAwhile, KTypeOK
<1>3. KTypeOK'
    BY <1>1 DEF StaysAwhile, KTypeOK
<1>4. LockHeld'
    BY <1>1, <1>2 DEF StaysAwhile, LockHeld, KTypeOK
<1>5. Timed(p)'
    <2>1. /\ nap[p].n \in 0 .. WORD - 1 /\ passed[p] \in 0 .. WORD /\ behind[p] \in 0 .. Late
          /\ nap'[p].pc = "sleep" /\ nap'[p].n = nap[p].n /\ nap'[p].ticks0 = nap[p].ticks0
        BY <1>1, <1>2, NapType
    <2>2. passed[p] >= WORD \/ Elapsed(p) = passed[p]
        BY <1>1, <1>2 DEF Timed, Sleeping
    <2>3. Elapsed(p)' = Elapsed(p)
        BY <1>2, <2>1 DEF Elapsed
    <2>4. nap[p].n + Late < WORD => passed[p] <= nap[p].n + behind[p]
        BY <1>1, <1>2 DEF Timed
    <2>5. ~(Elapsed(p) >= nap[p].n)
        BY DEF StaysAwhile, Over
    <2>6. nap[p].n + Late < WORD => passed[p] < nap[p].n
        BY <2>1, <2>2, <2>4, <2>5, Words
    <2> QED
        BY <1>2, <2>1, <2>2, <2>3, <2>6 DEF Timed
<1>6. Others(p)
    BY <1>1, <1>2 DEF StaysAwhile, Others, KTypeOK
<1> QED
    BY <1>2, <1>3, <1>4, <1>5, <1>6, OneProcess

LEMMA ClockGoes ==
    ASSUME ClockIInv, NEW p \in Sleepers, GoesToSleep(p)
    PROVE  ClockIInv'
<1>1. KTypeOK /\ LockHeld /\ NoSleeper \notin Sleepers /\ Timed(p)
    BY ClockAssumption, TimedParts DEF ClockIInv
<1>2. /\ nap'[p] = [nap[p] EXCEPT !.pc = "asleep"] /\ nap[p].pc = "sleep"
      /\ passed' = passed /\ behind'[p] = 0 /\ ticks' = ticks
    BY <1>1 DEF GoesToSleep, KTypeOK
<1>3. KTypeOK'
    BY <1>1, Words DEF GoesToSleep, KTypeOK
<1>4. LockHeld'
    BY <1>1, <1>2 DEF GoesToSleep, LockHeld, KTypeOK
<1>5. Timed(p)'
    <2>1. /\ nap'[p].pc = "asleep" /\ nap'[p].n = nap[p].n
          /\ nap'[p].ticks0 = nap[p].ticks0
        BY <1>1, <1>2, NapType
    <2>2. Elapsed(p)' = Elapsed(p)
        BY <1>2, <2>1 DEF Elapsed
    <2> QED
        BY <1>1, <1>2, <2>1, <2>2 DEF Timed, Sleeping
<1>6. Others(p)
    BY <1>1, <1>2 DEF GoesToSleep, Others, KTypeOK
<1> QED
    BY <1>2, <1>3, <1>4, <1>5, <1>6, OneProcess

LEMMA ClockWakes ==
    ASSUME ClockIInv, NEW p \in Sleepers, WakesUp(p)
    PROVE  ClockIInv'
<1>1. KTypeOK /\ LockHeld /\ NoSleeper \notin Sleepers /\ Timed(p)
    BY ClockAssumption, TimedParts DEF ClockIInv
<1>2. /\ nap'[p] = [nap[p] EXCEPT !.pc = "look"] /\ nap[p].pc = "woken"
      /\ passed' = passed /\ behind' = behind /\ ticks' = ticks
    BY <1>1 DEF WakesUp, KTypeOK
<1>3. KTypeOK'
    BY <1>1 DEF WakesUp, KTypeOK
<1>4. LockHeld'
    BY <1>1, <1>2 DEF WakesUp, LockHeld, KTypeOK
<1>5. Timed(p)'
    <2>1. /\ nap'[p].pc = "look" /\ nap'[p].n = nap[p].n
          /\ nap'[p].ticks0 = nap[p].ticks0
        BY <1>1, <1>2, NapType
    <2>2. Elapsed(p)' = Elapsed(p)
        BY <1>2, <2>1 DEF Elapsed
    <2> QED
        BY <1>1, <1>2, <2>1, <2>2 DEF Timed, Sleeping
<1>6. Others(p)
    BY <1>1, <1>2 DEF WakesUp, Others, KTypeOK
<1> QED
    BY <1>2, <1>3, <1>4, <1>5, <1>6, OneProcess

\* Awake: nothing is said of its time.
LEMMA ClockAwake ==
    ASSUME ClockIInv, NEW p \in Sleepers, Broken(p) \/ ReturnSlept(p)
    PROVE  ClockIInv'
<1>1. KTypeOK /\ LockHeld /\ NoSleeper \notin Sleepers
    BY ClockAssumption DEF ClockIInv
<1>2. /\ nap' = [nap EXCEPT ![p] = Awake] /\ nap'[p] = Awake
      /\ passed' = passed /\ behind' = behind /\ ticks' = ticks /\ felled' = felled
    BY <1>1 DEF Broken, ReturnSlept, KTypeOK
<1>3. /\ tickslock' \in {tickslock, NoSleeper}
      /\ \A q \in Sleepers : tickslock' = q <=> tickslock = q /\ q # p
    <2>1. CASE Broken(p)
        BY <1>1, <2>1 DEF Broken, LockHeld
    <2>2. CASE ReturnSlept(p)
        BY <1>1, <2>2 DEF ReturnSlept, LockHeld
    <2> QED
        BY <2>1, <2>2
<1>4. Awake \in [pc : {"awake", "look", "sleep", "asleep", "woken", "slept"},
                 n : 0 .. WORD - 1, ticks0 : 0 .. WORD - 1]
    BY Words DEF Awake
<1>5. KTypeOK'
    BY <1>1, <1>2, <1>3, <1>4 DEF KTypeOK
<1>6. Others(p)
    BY <1>1, <1>2 DEF Others, KTypeOK
<1>7. LockHeld'
    BY <1>1, <1>2, <1>3, <1>6 DEF LockHeld, Others, Awake
<1>8. Timed(p)'
    BY <1>2, Words, NapType, <1>1 DEF Timed, Sleeping, Awake
<1> QED
    BY <1>2, <1>5, <1>6, <1>7, <1>8, OneProcess

LEMMA ClockKill ==
    ASSUME ClockIInv, NEW p \in Sleepers, KillSleeper(p) \/ SleeperReplaced(p)
    PROVE  ClockIInv'
<1>1. KTypeOK /\ LockHeld /\ NoSleeper \notin Sleepers /\ Timed(p)
    BY ClockAssumption, TimedParts DEF ClockIInv
<1>2. /\ nap' = nap \/ (Asleep(p) /\ nap' = [nap EXCEPT ![p].pc = "woken"])
      /\ passed' = passed /\ behind' = behind /\ ticks' = ticks /\ tickslock' = tickslock
      /\ felled' \subseteq Sleepers
    <2>1. felled \subseteq Sleepers
        BY <1>1 DEF KTypeOK
    <2>2. nap' = nap \/ (Asleep(p) /\ nap' = [nap EXCEPT ![p].pc = "woken"])
        BY DEF KillSleeper, SleeperReplaced
    <2>3. felled' \subseteq Sleepers
        BY <2>1 DEF KillSleeper, SleeperReplaced
    <2>4. passed' = passed /\ behind' = behind /\ ticks' = ticks /\ tickslock' = tickslock
        BY DEF KillSleeper, SleeperReplaced
    <2> QED
        BY <2>2, <2>3, <2>4
<1>3. KTypeOK'
    BY <1>1, <1>2 DEF KTypeOK
<1>4. LockHeld'
    BY <1>1, <1>2 DEF LockHeld, KTypeOK, Asleep
<1>5. Timed(p)'
    <2>1. CASE nap' = nap
        BY <1>1, <1>2, <2>1, TimedStays
    <2>2. CASE Asleep(p) /\ nap' = [nap EXCEPT ![p].pc = "woken"]
        <3>1. /\ nap[p].n \in 0 .. WORD - 1 /\ passed[p] \in 0 .. WORD
              /\ behind[p] \in 0 .. Late /\ nap[p].pc = "asleep"
              /\ nap'[p].pc = "woken" /\ nap'[p].n = nap[p].n
              /\ nap'[p].ticks0 = nap[p].ticks0
            BY <1>1, <2>2, NapType DEF Asleep, KTypeOK
        <3>2. Elapsed(p)' = Elapsed(p)
            BY <1>2, <3>1 DEF Elapsed
        <3>3. passed[p] >= WORD \/ Elapsed(p) = passed[p]
            BY <1>1, <3>1 DEF Timed, Sleeping
        <3>4. nap[p].n + Late < WORD => passed[p] <= nap[p].n + behind[p]
            BY <1>1, <3>1, Words DEF Timed
        <3> QED
            BY <1>2, <3>1, <3>2, <3>3, <3>4 DEF Timed
    <2> QED
        BY <1>2, <2>1, <2>2
<1>6. Others(p)
    BY <1>1, <1>2 DEF Others, KTypeOK
<1> QED
    BY <1>2, <1>3, <1>4, <1>5, <1>6, OneProcess

THEOREM ClockStep == ClockIInv /\ [KNext]_kvars => ClockIInv'
<1> SUFFICES ASSUME ClockIInv, [KNext]_kvars PROVE ClockIInv'
    OBVIOUS
<1>1. CASE Tick
    BY <1>1, ClockTick
<1>2. ASSUME NEW p \in Sleepers, NEW n \in Naps, Sleep(p, n) PROVE ClockIInv'
    BY <1>2, ClockSleep
<1>3. ASSUME NEW p \in Sleepers,
             \/ Slept(p) \/ Broken(p) \/ StaysAwhile(p) \/ GoesToSleep(p) \/ WakesUp(p)
             \/ ReturnSlept(p) \/ KillSleeper(p) \/ SleeperReplaced(p)
      PROVE  ClockIInv'
    BY <1>3, ClockSlept, ClockStays, ClockGoes, ClockWakes, ClockAwake, ClockKill
<1>4. CASE UNCHANGED kvars
    BY <1>4, Zenon DEF kvars, ClockIInv, KTypeOK, LockHeld, Counted, SleepsEnough, InTime,
        Sleeping, Asleep, Elapsed
<1> QED
    BY <1>1, <1>2, <1>3, <1>4 DEF KNext

\* sleep(n) lasts n ticks or more, and no longer than n and what the scheduler takes,
\* for every width of ticks and also while it wraps (sys_sleep, trap).
THEOREM ClockInvariant == KSpec => []ClockIInv
    BY ClockInit, ClockStep, PTL DEF KSpec

-----------------------------------------------------------------------------
(***************************************************************************)
(* The ring of the console.                                                *)
(***************************************************************************)
LEMMA Sizes ==
    /\ INPUTBUF \in Nat /\ INPUTBUF > 0
    /\ UINT \in Nat /\ UINT > INPUTBUF /\ UINT % INPUTBUF = 0
    BY ConsoleAssumption

LEMMA IndexReduced ==
    ASSUME NEW x \in Int
    PROVE  /\ x >= 0 /\ x < UINT => x % UINT = x
           /\ x >= UINT /\ x < UINT + UINT => x % UINT = x - UINT
           /\ x = UINT + UINT => x % UINT = 0
    BY Sizes

\* What the indices are, without remainders.
LEMMA PlusIs ==
    ASSUME NEW x \in 0 .. UINT - 1, NEW k \in 0 .. UINT
    PROVE  /\ Plus(x, k) = IF x + k < UINT THEN x + k ELSE x + k - UINT
           /\ Plus(x, k) \in 0 .. UINT - 1
<1>1. x + k \in Int /\ x + k >= 0 /\ x + k < UINT + UINT
    BY Sizes
<1> QED
    BY <1>1, IndexReduced, Sizes DEF Plus

LEMMA MinusIs ==
    ASSUME NEW x \in 0 .. UINT - 1, NEW k \in 0 .. UINT - 1
    PROVE  /\ Minus(x, k) = IF x >= k THEN x - k ELSE x - k + UINT
           /\ Minus(x, k) \in 0 .. UINT - 1
<1>1. x + UINT - k \in Int /\ x + UINT - k >= 0 /\ x + UINT - k < UINT + UINT
    BY Sizes
<1> QED
    BY <1>1, IndexReduced, Sizes DEF Minus

\* Distances from an index.
LEMMA Along ==
    ASSUME NEW x \in 0 .. UINT - 1, NEW j \in 0 .. UINT - 1, NEW k \in 0 .. UINT - 1
    PROVE  /\ Minus(Plus(x, j), x) = j
           /\ j <= k => Minus(Plus(x, k), Plus(x, j)) = k - j
           /\ j <= k => Minus(Plus(x, k), j) = Plus(x, k - j)
           /\ j + k <= UINT => Plus(Plus(x, j), k) = Plus(x, j + k)
           /\ Plus(x, j) = Plus(x, k) <=> j = k
<1> DEFINE a == Plus(x, j)
           b == Plus(x, k)
<1>0. /\ x \in Int /\ j \in Int /\ k \in Int /\ UINT \in Int
      /\ j \in 0 .. UINT /\ k \in 0 .. UINT
    BY Sizes
<1>1. /\ a = (IF x + j < UINT THEN x + j ELSE x + j - UINT) /\ a \in 0 .. UINT - 1
      /\ b = (IF x + k < UINT THEN x + k ELSE x + k - UINT) /\ b \in 0 .. UINT - 1
    BY <1>0, PlusIs
<1> HIDE DEF a, b
<1>2. Minus(a, x) = j
    <2>1. Minus(a, x) = IF a >= x THEN a - x ELSE a - x + UINT
        BY <1>1, MinusIs
    <2> QED
        BY <1>0, <1>1, <2>1
<1>3. j <= k => Minus(b, a) = k - j
    <2>1. Minus(b, a) = IF b >= a THEN b - a ELSE b - a + UINT
        BY <1>1, MinusIs
    <2> QED
        BY <1>0, <1>1, <2>1
<1>4. ASSUME j <= k PROVE Minus(b, j) = Plus(x, k - j)
    <2>1. k - j \in 0 .. UINT
        BY <1>0, <1>4
    <2>2. Plus(x, k - j) = IF x + (k - j) < UINT THEN x + (k - j) ELSE x + (k - j) - UINT
        BY <2>1, PlusIs
    <2>3. Minus(b, j) = IF b >= j THEN b - j ELSE b - j + UINT
        BY <1>1, MinusIs
    <2> QED
        BY <1>0, <1>1, <1>4, <2>2, <2>3
<1>5. ASSUME j + k <= UINT PROVE Plus(a, k) = Plus(x, j + k)
    <2>1. j + k \in 0 .. UINT
        BY <1>0, <1>5
    <2>2. Plus(x, j + k) = IF x + (j + k) < UINT THEN x + (j + k) ELSE x + (j + k) - UINT
        BY <2>1, PlusIs
    <2>3. Plus(a, k) = IF a + k < UINT THEN a + k ELSE a + k - UINT
        BY <1>0, <1>1, PlusIs
    <2> QED
        BY <1>0, <1>1, <1>5, <2>2, <2>3
<1>6. a = b <=> j = k
    BY <1>0, <1>1
<1> QED
    BY <1>2, <1>3, <1>4, <1>5, <1>6 DEF a, b

LEMMA Quotients ==
    ASSUME NEW x \in Int, NEW n \in Int, n > 0
    PROVE  /\ x \div n \in Int
           /\ x % n \in 0 .. n - 1
           /\ x = n * (x \div n) + (x % n)
    OBVIOUS

\* Places of the ring that are less than a turn apart are different.
LEMMA SlotApart ==
    ASSUME NEW x \in 0 .. UINT - 1, NEW j \in 0 .. INPUTBUF - 1, NEW k \in 0 .. INPUTBUF - 1
    PROVE  /\ Slot(Plus(x, j)) \in 0 .. INPUTBUF - 1
           /\ Slot(Plus(x, j)) = Slot(Plus(x, k)) => j = k
<1> DEFINE a == Plus(x, j)
           b == Plus(x, k)
           m == UINT \div INPUTBUF
           p == a \div INPUTBUF
           q == b \div INPUTBUF
           t == a % INPUTBUF
<1>0. /\ INPUTBUF \in Int /\ INPUTBUF > 0 /\ UINT \in Int /\ UINT > INPUTBUF
      /\ j \in 0 .. UINT /\ k \in 0 .. UINT /\ x \in Int
    BY Sizes
<1>1. /\ a = (IF x + j < UINT THEN x + j ELSE x + j - UINT) /\ a \in Int
      /\ b = (IF x + k < UINT THEN x + k ELSE x + k - UINT) /\ b \in Int
    <2>1. /\ a = (IF x + j < UINT THEN x + j ELSE x + j - UINT) /\ a \in 0 .. UINT - 1
          /\ b = (IF x + k < UINT THEN x + k ELSE x + k - UINT) /\ b \in 0 .. UINT - 1
        BY <1>0, PlusIs
    <2> QED
        BY <1>0, <2>1
<1>2. m \in Int /\ UINT = INPUTBUF * m
    <2>1. m \in Int /\ UINT = INPUTBUF * m + (UINT % INPUTBUF)
        BY <1>0, Quotients
    <2> QED
        BY <2>1, <1>0, Sizes
<1>3. p \in Int /\ t \in 0 .. INPUTBUF - 1 /\ a = INPUTBUF * p + t
    BY <1>0, <1>1, Quotients
<1>4. Slot(a) = t /\ Slot(b) = b % INPUTBUF
    BY DEF Slot
<1>5. ASSUME Slot(a) = Slot(b) PROVE j = k
    <2>1. q \in Int /\ b = INPUTBUF * q + t
        BY <1>0, <1>1, <1>4, <1>5, Quotients
    <2> HIDE DEF a, b, m, p, q, t
    <2>2. \E d \in {0 - 1, 0, 1} : j - k = (a - b) + UINT * d
        BY <1>0, <1>1
    <2>3. PICK d \in {0 - 1, 0, 1} : j - k = (a - b) + UINT * d
        BY <2>2
    <2>4. d \in Int /\ p - q \in Int /\ m * d \in Int
        BY <1>2, <1>3, <2>1
    <2>5. a - b = INPUTBUF * (p - q)
        BY <1>0, <1>3, <2>1
    <2>6. UINT * d = INPUTBUF * (m * d)
        BY <1>0, <1>2, <2>4
    <2> DEFINE z == (p - q) + m * d
    <2>7. z \in Int /\ j - k = INPUTBUF * z
        BY <1>0, <2>3, <2>4, <2>5, <2>6
    <2>8. j - k < INPUTBUF /\ j - k > 0 - INPUTBUF
        BY <1>0
    <2> HIDE DEF z
    <2>9. z = 0
        BY <1>0, <2>7, <2>8
    <2> QED
        BY <1>0, <2>7, <2>9
<1> QED
    BY <1>3, <1>4, <1>5

-----------------------------------------------------------------------------
\* How many keys have been entered and how many there are, and the k-th of them.
Entered == Minus(w, r)
Filled  == Minus(e, r)
Cell(k) == buf[Slot(Plus(r, k))]

Indices ==
    /\ Entered \in Nat /\ Filled \in Nat /\ Entered <= Filled /\ Filled <= INPUTBUF
    /\ w = Plus(r, Entered) /\ e = Plus(r, Filled)
    /\ Minus(e, w) = Filled - Entered
    /\ r = w <=> Entered = 0
    /\ e = w <=> Entered = Filled

LEMMA Index ==
    ASSUME CTypeOK, InOrder
    PROVE  /\ r \in 0 .. UINT - 1 /\ w \in 0 .. UINT - 1 /\ e \in 0 .. UINT - 1
           /\ Indices
           /\ \A k \in 0 .. INPUTBUF - Entered : Plus(w, k) = Plus(r, Entered + k)
<1>1. r \in 0 .. UINT - 1 /\ w \in 0 .. UINT - 1 /\ e \in 0 .. UINT - 1
    BY DEF CTypeOK
<1>2. /\ Entered = (IF w >= r THEN w - r ELSE w - r + UINT) /\ Entered \in 0 .. UINT - 1
      /\ Filled = (IF e >= r THEN e - r ELSE e - r + UINT) /\ Filled \in 0 .. UINT - 1
      /\ Minus(e, w) = (IF e >= w THEN e - w ELSE e - w + UINT)
      /\ Minus(e, w) \in 0 .. UINT - 1
    BY <1>1, MinusIs DEF Entered, Filled
<1>3. w = Plus(r, Entered) /\ e = Plus(r, Filled)
    <2>1. Entered \in 0 .. UINT /\ Filled \in 0 .. UINT
        BY <1>2, Sizes
    <2>2. /\ Plus(r, Entered) = IF r + Entered < UINT THEN r + Entered ELSE r + Entered - UINT
          /\ Plus(r, Filled) = IF r + Filled < UINT THEN r + Filled ELSE r + Filled - UINT
        BY <1>1, <2>1, PlusIs
    <2> QED
        BY <1>1, <1>2, <2>2, Sizes
<1>4. Entered <= Filled /\ Filled <= INPUTBUF
    <2>1. Minus(w, r) <= Minus(e, r)
        BY <1>1, <1>2 DEF InOrder, Entered, Filled
    <2> QED
        BY <2>1 DEF InOrder, Entered, Filled
<1>5. \A k \in 0 .. INPUTBUF - Entered : Plus(w, k) = Plus(r, Entered + k)
    <2> SUFFICES ASSUME NEW k \in 0 .. INPUTBUF - Entered
                 PROVE  Plus(w, k) = Plus(r, Entered + k)
        OBVIOUS
    <2>1. k \in 0 .. UINT - 1 /\ Entered + k <= UINT
        BY <1>2, Sizes
    <2> QED
        BY <1>1, <1>2, <1>3, <2>1, Along
<1>6. Indices
    BY <1>1, <1>2, <1>3, <1>4, Sizes DEF Indices
<1> QED
    BY <1>1, <1>5, <1>6

\* A place that is less than a turn from r, before a step and after it.
LEMMA CellPlace ==
    ASSUME CTypeOK, NEW k \in 0 .. INPUTBUF - 1
    PROVE  /\ Slot(Plus(r, k)) \in 0 .. INPUTBUF - 1
           /\ Cell(k) \in Plain \cup {"newline", "eof"}
           /\ \A j \in 0 .. INPUTBUF - 1 : Slot(Plus(r, j)) = Slot(Plus(r, k)) => j = k
<1>1. r \in 0 .. UINT - 1
    BY DEF CTypeOK
<1>2. Slot(Plus(r, k)) \in 0 .. INPUTBUF - 1
    BY <1>1, SlotApart
<1>3. \A j \in 0 .. INPUTBUF - 1 : Slot(Plus(r, j)) = Slot(Plus(r, k)) => j = k
    BY <1>1, SlotApart
<1>4. Cell(k) \in Plain \cup {"newline", "eof"}
    BY <1>2 DEF Cell, CTypeOK
<1> QED
    BY <1>2, <1>3, <1>4

\* What the invariant says of the ring, counted from r.
RingInv ==
    /\ CTypeOK /\ InOrder
    /\ Filled = INPUTBUF => Entered = Filled
    /\ \A k \in Entered .. Filled - 1 : Cell(k) \notin {"newline", "eof"}

LEMMA RingInvIs ==
    ASSUME CTypeOK, InOrder
    PROVE  RingInv <=> NeverStuck /\ Unended
<1>1. Indices /\ Entered \in Nat /\ Filled \in Nat /\ Entered <= Filled /\ Filled <= INPUTBUF
    BY Index DEF Indices
<1>2. NeverStuck <=> (Filled = INPUTBUF => Entered = Filled)
    BY <1>1 DEF NeverStuck, Filled, Indices
<1>3. ASSUME NEW k \in 0 .. Filled - Entered - 1
      PROVE  buf[Slot(Plus(w, k))] = Cell(Entered + k)
    <2>1. k \in 0 .. INPUTBUF - Entered
        BY <1>1, Sizes
    <2> QED
        BY <2>1, Index DEF Cell
<1>4. ASSUME Unended, NEW k \in Entered .. Filled - 1
      PROVE  Cell(k) \notin {"newline", "eof"}
    <2>1. k - Entered \in 0 .. Filled - Entered - 1 /\ Entered + (k - Entered) = k
        BY <1>1
    <2>2. buf[Slot(Plus(w, k - Entered))] = Cell(k)
        BY <1>3, <2>1
    <2> QED
        BY <1>1, <1>4, <2>1, <2>2 DEF Unended, Indices
<1>5. ASSUME \A k \in Entered .. Filled - 1 : Cell(k) \notin {"newline", "eof"}
      PROVE  Unended
    <2> SUFFICES ASSUME NEW k \in 0 .. Filled - Entered - 1
                 PROVE  buf[Slot(Plus(w, k))] \notin {"newline", "eof"}
        BY <1>1 DEF Unended, Indices
    <2>1. Entered + k \in Entered .. Filled - 1
        BY <1>1
    <2> QED
        BY <1>3, <1>5, <2>1
<1> QED
    BY <1>2, <1>4, <1>5 DEF RingInv

\* The steps of the ring, as they count.
RingSame == buf' = buf /\ r' = r /\ w' = w /\ e' = e

\* Key c is stored, and with it the line is entered, or not.
Stored(c) ==
    /\ Filled < INPUTBUF /\ Filled' = Filled + 1 /\ r' = r
    /\ Entered' = IF c \in {"newline", "eof"} \/ Filled + 1 = INPUTBUF THEN Filled + 1
                  ELSE Entered
    /\ \A k \in 0 .. Filled : Cell(k)' = IF k < Filled THEN Cell(k) ELSE c

LEMMA RingKey ==
    ASSUME CTypeOK, InOrder, NEW c, Key(c)
    PROVE  /\ Stored(c)
           /\ w' \in 0 .. UINT - 1 /\ e' \in 0 .. UINT - 1
           /\ buf' \in [0 .. INPUTBUF - 1 -> Plain \cup {"newline", "eof"}]
           /\ w' = w \/ \A p \in Readers : rd'[p].pc # "asleep"
<1>1. Indices /\ r \in 0 .. UINT - 1 /\ Filled < INPUTBUF /\ r' = r
    BY Index DEF Key, Filled
<1>2. /\ Filled \in Nat /\ Entered \in Nat /\ Filled + 1 \in 0 .. UINT - 1
      /\ Filled + 1 \in 0 .. UINT /\ Filled \in 0 .. UINT - 1 /\ Entered \in 0 .. UINT - 1
      /\ 1 \in 0 .. UINT - 1 /\ Filled + 1 <= UINT
    BY <1>1, Sizes DEF Indices
<1>3. e' = Plus(r, Filled + 1) /\ Plus(e, 1) = Plus(r, Filled + 1)
    <2>1. Plus(e, 1) = Plus(r, Filled + 1)
        BY <1>1, <1>2, Along DEF Indices
    <2> QED
        BY <2>1 DEF Key
<1>4. e' \in 0 .. UINT - 1 /\ Filled' = Filled + 1
    <2>1. Plus(r, Filled + 1) \in 0 .. UINT - 1
        BY <1>1, <1>2, PlusIs
    <2>2. Minus(Plus(r, Filled + 1), r) = Filled + 1
        BY <1>1, <1>2, Along
    <2> QED
        BY <1>1, <1>3, <2>1, <2>2 DEF Filled
<1>5. RingFull(Plus(e, 1)) <=> Filled + 1 = INPUTBUF
    <2>1. INPUTBUF \in 0 .. UINT - 1
        BY Sizes
    <2> QED
        BY <1>1, <1>2, <1>3, <2>1, Along DEF RingFull
<1>6. /\ w' \in 0 .. UINT - 1
      /\ w' = w \/ \A p \in Readers : rd'[p].pc # "asleep"
      /\ Entered' = IF c \in {"newline", "eof"} \/ Filled + 1 = INPUTBUF THEN Filled + 1
                    ELSE Entered
    <2>1. CASE c \in {"newline", "eof"} \/ Filled + 1 = INPUTBUF
        <3>1. w' = e' /\ WakeAll
            BY <1>3, <1>5, <2>1 DEF Key
        <3>2. \A p \in Readers : rd'[p].pc # "asleep"
            BY <3>1 DEF WakeAll, CTypeOK
        <3>3. Entered' = Filled + 1
            BY <1>1, <1>4, <3>1 DEF Entered, Filled
        <3> QED
            BY <1>4, <2>1, <3>1, <3>2, <3>3
    <2>2. CASE ~(c \in {"newline", "eof"} \/ Filled + 1 = INPUTBUF)
        <3>1. w' = w
            BY <1>5, <2>2 DEF Key
        <3>2. Entered' = Entered
            BY <1>1, <3>1 DEF Entered
        <3> QED
            BY <2>2, <3>1, <3>2, Index
    <2> QED
        BY <2>1, <2>2
<1>7. /\ buf' = [buf EXCEPT ![Slot(Plus(r, Filled))] = c]
      /\ c \in Plain \cup {"newline", "eof"}
      /\ Filled \in 0 .. INPUTBUF - 1
    <2>1. e = Plus(r, Filled)
        BY <1>1 DEF Indices
    <2>2. buf' = [buf EXCEPT ![Slot(e)] = c] /\ c \in Plain \cup {"newline", "eof"}
        BY DEF Key
    <2>3. Filled \in 0 .. INPUTBUF - 1
        BY <1>1, <1>2, Sizes
    <2> QED
        BY <2>1, <2>2, <2>3
<1>8. ASSUME NEW k \in 0 .. Filled
      PROVE  Cell(k)' = IF k < Filled THEN Cell(k) ELSE c
    <2>1. k \in 0 .. INPUTBUF - 1 /\ k \in Int
        BY <1>2, <1>7, Sizes
    <2>2. Cell(k)' = buf'[Slot(Plus(r, k))]
        BY <1>1 DEF Cell
    <2>3. /\ Slot(Plus(r, k)) \in 0 .. INPUTBUF - 1
          /\ Slot(Plus(r, k)) = Slot(Plus(r, Filled)) => k = Filled
        BY <1>7, <2>1, CellPlace
    <2>4. DOMAIN buf = 0 .. INPUTBUF - 1
        BY DEF CTypeOK
    <2>5. CASE k = Filled
        BY <1>2, <1>7, <2>2, <2>3, <2>4, <2>5
    <2>6. CASE k # Filled
        <3>1. k < Filled
            BY <1>2, <2>6
        <3>2. Cell(k)' = buf[Slot(Plus(r, k))]
            BY <1>7, <2>2, <2>3, <2>4, <2>6
        <3> QED
            BY <3>1, <3>2 DEF Cell
    <2> QED
        BY <2>5, <2>6
<1>9. buf' \in [0 .. INPUTBUF - 1 -> Plain \cup {"newline", "eof"}]
    BY <1>7 DEF CTypeOK
<1>10. Stored(c)
    BY <1>1, <1>4, <1>6, <1>8 DEF Stored
<1> QED
    BY <1>4, <1>6, <1>9, <1>10

\* Keys are taken back from the end, one or all that are not entered.
Erased(k) ==
    /\ r' = r /\ w' = w /\ buf' = buf /\ e' \in 0 .. UINT - 1
    /\ k \in 1 .. Filled - Entered /\ Filled' = Filled - k

LEMMA RingErase ==
    ASSUME CTypeOK, InOrder, Erase
    PROVE  Erased(1)
<1>1. Indices /\ r \in 0 .. UINT - 1
    BY Index
<1>2. Filled \in 0 .. UINT - 1 /\ Entered \in Nat /\ Filled > Entered /\ 1 \in 0 .. UINT - 1
    BY <1>1, Sizes DEF Indices, Erase
<1>3. e' = Plus(r, Filled - 1)
    BY <1>1, <1>2, Along DEF Erase, Indices
<1>4. Filled - 1 \in 0 .. UINT - 1
    BY <1>2, Sizes
<1>5. Filled - 1 \in 0 .. UINT
    BY <1>4, Sizes
<1>6. e' \in 0 .. UINT - 1 /\ Minus(e', r) = Filled - 1
    BY <1>1, <1>3, <1>4, <1>5, Along, PlusIs
<1>7. Filled' = Filled - 1
    BY <1>6 DEF Filled, Erase
<1> QED
    BY <1>2, <1>6, <1>7 DEF Erased, Erase

LEMMA RingEraseLine ==
    ASSUME RingInv, EraseLine
    PROVE  e' = w /\ r' = r /\ w' = w /\ buf' = buf
<1>1. Indices /\ r \in 0 .. UINT - 1 /\ w \in 0 .. UINT - 1
    BY Index DEF RingInv
<1>2. Filled \in 0 .. UINT - 1 /\ Entered \in 0 .. UINT - 1 /\ Entered <= Filled
      /\ Filled <= INPUTBUF
    BY <1>1, Sizes DEF Indices
<1>3. PICK k \in 0 .. Filled - Entered :
          /\ k = Filled - Entered \/ buf[Slot(Minus(e, k + 1))] = "newline"
          /\ e' = Minus(e, k)
    BY <1>1 DEF EraseLine, Indices
<1>4. k = Filled - Entered
    <2> SUFFICES ASSUME k # Filled - Entered PROVE FALSE
        OBVIOUS
    <2>1. k + 1 \in 0 .. UINT - 1 /\ k + 1 <= Filled
        BY Sizes, <1>2, <1>3
    <2>2. Minus(e, k + 1) = Plus(r, Filled - (k + 1))
        BY <1>1, <1>2, <2>1, Along DEF Indices
    <2>3. Filled - (k + 1) \in Entered .. Filled - 1
        BY <1>2, <1>3
    <2>4. Cell(Filled - (k + 1)) # "newline"
        BY <2>3 DEF RingInv
    <2> QED
        BY <1>3, <2>2, <2>4 DEF Cell
<1>5. k \in 0 .. UINT - 1 /\ k <= Filled /\ Filled - k = Entered
    BY Sizes, <1>2, <1>3, <1>4
<1>6. e' = Plus(r, Entered)
    BY <1>1, <1>2, <1>3, <1>5, Along DEF Indices
<1> QED
    BY <1>1, <1>6 DEF Indices, EraseLine

\* The first key is taken.
Taken ==
    /\ w' = w /\ e' = e /\ buf' = buf /\ r' \in 0 .. UINT - 1
    /\ Entered >= 1 /\ Entered' = Entered - 1 /\ Filled' = Filled - 1
    /\ \A k \in 0 .. INPUTBUF - 1 : Cell(k)' = Cell(k + 1)

LEMMA RingTake ==
    ASSUME CTypeOK, InOrder, r # w, r' = Plus(r, 1), w' = w, e' = e, buf' = buf
    PROVE  Taken
<1>1. Indices /\ r \in 0 .. UINT - 1
    BY Index
<1>2. /\ Filled \in 0 .. UINT - 1 /\ Entered \in 0 .. UINT - 1 /\ Entered >= 1
      /\ Filled >= 1 /\ 1 \in 0 .. UINT - 1 /\ 1 \in 0 .. UINT
    BY <1>1, Sizes DEF Indices
<1>3. r' \in 0 .. UINT - 1
    BY <1>1, <1>2, PlusIs
<1>4. /\ Minus(Plus(r, Entered), Plus(r, 1)) = Entered - 1
      /\ Minus(Plus(r, Filled), Plus(r, 1)) = Filled - 1
    BY <1>1, <1>2, Along
<1>5. Entered' = Entered - 1 /\ Filled' = Filled - 1
    BY <1>1, <1>4 DEF Entered, Filled, Indices
<1>6. ASSUME NEW k \in 0 .. INPUTBUF - 1 PROVE Cell(k)' = Cell(k + 1)
    <2>1. k \in 0 .. UINT - 1 /\ 1 + k <= UINT /\ 1 + k = k + 1
        BY Sizes
    <2>2. Plus(r', k) = Plus(r, k + 1)
        BY <1>1, <1>2, <2>1, Along
    <2> QED
        BY <2>2 DEF Cell
<1> QED
    BY <1>2, <1>3, <1>5, <1>6 DEF Taken

-----------------------------------------------------------------------------
(***************************************************************************)
(* The readers of the console.                                             *)
(***************************************************************************)
\* What Remaining says of one reader.
Reading(p) ==
    /\ rd[p].pc \in {"away", "put", "locking", "writing"} => dst[p] = <<>>
    /\ rd[p].pc \in {"enter", "woken", "reading", "sleep", "asleep"} =>
          /\ rd[p].n >= 1 /\ Len(dst[p]) = rd[p].target - rd[p].n
          /\ \A k \in DOMAIN dst[p] : dst[p][k] # "newline"

AllReading == \A p \in Readers : Reading(p)

LEMMA ConsoleParts ==
    ConsoleIInv <=> RingInv /\ SleepsForReason /\ OneLock /\ AllReading
<1>1. Remaining <=> AllReading
    BY Zenon DEF Remaining, Reading, AllReading
<1>2. RingInv => CTypeOK /\ InOrder
    BY DEF RingInv
<1> QED
    BY <1>1, <1>2, RingInvIs DEF ConsoleIInv

LEMMA ConsolePartsNext ==
    ConsoleIInv' <=> RingInv' /\ SleepsForReason' /\ OneLock' /\ AllReading'
    BY ConsoleParts, PTL

THEOREM ConsoleInit == CInit => ConsoleIInv
<1> SUFFICES ASSUME CInit PROVE ConsoleIInv
    OBVIOUS
<1>1. /\ r = 0 /\ w = 0 /\ e = 0 /\ 0 \in 0 .. UINT - 1
      /\ \A p \in Readers : rd[p] = Away /\ dst[p] = <<>>
    BY Sizes DEF CInit
<1>2. <<>> \in Seq(Plain \cup {"newline"})
    OBVIOUS
<1>3. CTypeOK
    BY <1>1, <1>2 DEF CInit, CTypeOK, Away
<1>4. Entered = 0 /\ Filled = 0 /\ Minus(w, r) = 0 /\ Minus(e, r) = 0
    BY <1>1, MinusIs DEF Entered, Filled
<1>5. RingInv
    BY <1>3, <1>4, Sizes DEF RingInv, InOrder
<1>6. OneLock
    BY <1>1, ConsoleAssumption DEF CInit, OneLock, Away
<1>7. SleepsForReason
    BY <1>1 DEF SleepsForReason, Away
<1>8. AllReading
    <2> SUFFICES ASSUME NEW p \in Readers PROVE Reading(p)
        BY DEF AllReading
    <2>1. rd[p].pc = "away" /\ dst[p] = <<>>
        BY <1>1 DEF Away
    <2> QED
        BY <2>1 DEF Reading
<1> QED
    BY <1>5, <1>6, <1>7, <1>8, ConsoleParts

\* The ring stays as it is.
LEMMA RingStays ==
    ASSUME RingInv, RingSame, CTypeOK'
    PROVE  RingInv'
<1>1. Entered' = Entered /\ Filled' = Filled /\ InOrder'
    BY DEF RingSame, Entered, Filled, InOrder, RingInv
<1>2. \A k \in Entered .. Filled - 1 : Cell(k)' = Cell(k)
    BY DEF RingSame, Cell
<1> QED
    BY <1>1, <1>2 DEF RingInv

\* So does every reader but one.
Alone(p) == \A q \in Readers \ {p} : rd'[q] = rd[q] /\ dst'[q] = dst[q]

LEMMA OneReader ==
    ASSUME ConsoleIInv, NEW p \in Readers, RingSame, Alone(p), CTypeOK', OneLock',
           rd'[p].pc \in {"sleep", "asleep"} => r = w, Reading(p)'
    PROVE  ConsoleIInv'
<1>1. RingInv'
    BY ConsoleParts, RingStays
<1>2. SleepsForReason'
    BY DEF ConsoleIInv, SleepsForReason, RingSame, Alone
<1>3. ASSUME NEW q \in Readers PROVE Reading(q)'
    <2>1. CASE q = p
        BY <2>1
    <2>2. CASE q # p
        BY <2>2, ConsoleParts DEF Reading, Alone, AllReading
    <2> QED
        BY <2>1, <2>2
<1> QED
    BY <1>1, <1>2, <1>3, ConsolePartsNext DEF AllReading

\* Where a process may be.
Stops == {"away", "enter", "woken", "reading", "sleep", "asleep", "leave", "return",
          "put", "locking", "writing"}
ReaderStates == [pc : Stops, n : Nat, target : Nat]

\* A process at another point, and with m characters left.
Moved(s, c, m) == [s EXCEPT !.pc = c, !.n = m]

LEMMA ReaderWoken ==
    ASSUME NEW s \in ReaderStates
    PROVE  [s EXCEPT !.pc = "woken"] \in ReaderStates
    BY DEF ReaderStates, Stops

LEMMA ReaderMoved ==
    ASSUME NEW s \in ReaderStates, NEW c \in Stops, NEW m \in Nat
    PROVE  /\ Moved(s, c, m) \in ReaderStates
           /\ Moved(s, c, m).pc = c /\ Moved(s, c, m).n = m
<1>1. s \in [pc : Stops, n : Nat, target : Nat] /\ c \in Stops /\ m \in Nat
    BY DEF ReaderStates
<1>2. Moved(s, c, m) \in [pc : Stops, n : Nat, target : Nat]
    BY ONLY <1>1 DEF Moved
<1>3. Moved(s, c, m).pc = c /\ Moved(s, c, m).n = m
    BY ONLY <1>1 DEF Moved
<1> QED
    BY <1>2, <1>3 DEF ReaderStates

LEMMA ReaderType ==
    ASSUME CTypeOK, NEW p \in Readers
    PROVE  /\ rd[p] \in [pc : {"away", "enter", "woken", "reading", "sleep", "asleep",
                              "leave", "return",
                              "put", "locking", "writing"}, n : Nat, target : Nat]
           /\ rd[p].n \in Nat /\ rd[p].target \in Nat
           /\ dst[p] \in Seq(Plain \cup {"newline"})
    BY DEF CTypeOK

LEMMA ReadsSome == \A n \in Wants : n \in Nat /\ n >= 1
    BY ConsoleAssumption

LEMMA ConsoleStart ==
    ASSUME ConsoleIInv, NEW p \in Readers, NEW n \in Wants, Start(p, n)
    PROVE  ConsoleIInv'
<1>1. CTypeOK /\ OneLock /\ SleepsForReason /\ Reading(p) /\ NoReader \notin Readers
    BY ConsoleAssumption, ConsoleParts DEF ConsoleIInv, AllReading
<1>2. CTypeOK'
    BY <1>1, ReadsSome DEF Start, CTypeOK
<1>3. RingSame /\ Alone(p)
    BY <1>1 DEF Start, RingSame, Alone, CTypeOK
<1>4. OneLock'
    BY <1>1 DEF Start, OneLock, CTypeOK
<1>5. rd'[p].pc \in {"sleep", "asleep"} => r = w
    BY <1>1 DEF Start, SleepsForReason, CTypeOK
<1>6. Reading(p)'
    <2>1. rd'[p] = [pc |-> "enter", n |-> n, target |-> n] /\ dst' = dst /\ dst[p] = <<>>
        BY <1>1 DEF Start, Reading, CTypeOK
    <2> QED
        BY <2>1, ReadsSome DEF Reading
<1> QED
    BY <1>2, <1>3, <1>4, <1>5, <1>6, OneReader

LEMMA ConsoleEnter ==
    ASSUME ConsoleIInv, NEW p \in Readers, Enter(p)
    PROVE  ConsoleIInv'
<1>1. CTypeOK /\ OneLock /\ SleepsForReason /\ Reading(p) /\ NoReader \notin Readers
    BY ConsoleAssumption, ConsoleParts DEF ConsoleIInv, AllReading
<1>2. CTypeOK'
    BY <1>1 DEF Enter, CTypeOK
<1>3. RingSame /\ Alone(p)
    BY <1>1 DEF Enter, RingSame, Alone, CTypeOK
<1>4. OneLock'
    BY <1>1 DEF Enter, OneLock, CTypeOK
<1>5. rd'[p].pc \in {"sleep", "asleep"} => r = w
    BY <1>1 DEF Enter, SleepsForReason, CTypeOK
<1>6. Reading(p)'
    BY <1>1, ReaderType DEF Enter, Reading, CTypeOK
<1> QED
    BY <1>2, <1>3, <1>4, <1>5, <1>6, OneReader

LEMMA ConsoleLock ==
    ASSUME ConsoleIInv, NEW p \in Readers, Lock(p)
    PROVE  ConsoleIInv'
<1>1. CTypeOK /\ OneLock /\ SleepsForReason /\ Reading(p) /\ NoReader \notin Readers
    BY ConsoleAssumption, ConsoleParts DEF ConsoleIInv, AllReading
<1>2. CTypeOK'
    BY <1>1 DEF Lock, CTypeOK
<1>3. RingSame /\ Alone(p)
    BY <1>1 DEF Lock, RingSame, Alone, CTypeOK
<1>4. OneLock'
    BY <1>1 DEF Lock, OneLock, CTypeOK
<1>5. rd'[p].pc \in {"sleep", "asleep"} => r = w
    BY <1>1 DEF Lock, SleepsForReason, CTypeOK
<1>6. Reading(p)'
    BY <1>1, ReaderType DEF Lock, Reading, CTypeOK
<1> QED
    BY <1>2, <1>3, <1>4, <1>5, <1>6, OneReader

LEMMA ConsoleWaits ==
    ASSUME ConsoleIInv, NEW p \in Readers, WaitForLine(p)
    PROVE  ConsoleIInv'
<1>1. CTypeOK /\ OneLock /\ SleepsForReason /\ Reading(p) /\ NoReader \notin Readers
    BY ConsoleAssumption, ConsoleParts DEF ConsoleIInv, AllReading
<1>2. CTypeOK'
    BY <1>1 DEF WaitForLine, CTypeOK
<1>3. RingSame /\ Alone(p)
    BY <1>1 DEF WaitForLine, RingSame, Alone, CTypeOK
<1>4. OneLock'
    BY <1>1 DEF WaitForLine, OneLock, CTypeOK
<1>5. rd'[p].pc \in {"sleep", "asleep"} => r = w
    BY <1>1 DEF WaitForLine, SleepsForReason, CTypeOK
<1>6. Reading(p)'
    BY <1>1, ReaderType DEF WaitForLine, Reading, CTypeOK
<1> QED
    BY <1>2, <1>3, <1>4, <1>5, <1>6, OneReader

LEMMA ConsoleSleeps ==
    ASSUME ConsoleIInv, NEW p \in Readers, SleepOn(p)
    PROVE  ConsoleIInv'
<1>1. CTypeOK /\ OneLock /\ SleepsForReason /\ Reading(p) /\ NoReader \notin Readers
    BY ConsoleAssumption, ConsoleParts DEF ConsoleIInv, AllReading
<1>2. CTypeOK'
    BY <1>1 DEF SleepOn, CTypeOK
<1>3. RingSame /\ Alone(p)
    BY <1>1 DEF SleepOn, RingSame, Alone, CTypeOK
<1>4. OneLock'
    BY <1>1 DEF SleepOn, OneLock, CTypeOK
<1>5. rd'[p].pc \in {"sleep", "asleep"} => r = w
    BY <1>1 DEF SleepOn, SleepsForReason, CTypeOK
<1>6. Reading(p)'
    BY <1>1, ReaderType DEF SleepOn, Reading, CTypeOK
<1> QED
    BY <1>2, <1>3, <1>4, <1>5, <1>6, OneReader

LEMMA ConsoleGivesUp ==
    ASSUME ConsoleIInv, NEW p \in Readers, GiveUp(p)
    PROVE  ConsoleIInv'
<1>1. CTypeOK /\ OneLock /\ SleepsForReason /\ Reading(p) /\ NoReader \notin Readers
    BY ConsoleAssumption, ConsoleParts DEF ConsoleIInv, AllReading
<1>2. CTypeOK'
    BY <1>1 DEF GiveUp, Leave, CTypeOK
<1>3. RingSame /\ Alone(p)
    BY <1>1 DEF GiveUp, Leave, RingSame, Alone, CTypeOK
<1>4. OneLock'
    BY <1>1 DEF GiveUp, Leave, OneLock, CTypeOK
<1>5. rd'[p].pc \in {"sleep", "asleep"} => r = w
    BY <1>1 DEF GiveUp, Leave, SleepsForReason, CTypeOK
<1>6. Reading(p)'
    BY <1>1, ReaderType DEF GiveUp, Leave, Reading, CTypeOK
<1> QED
    BY <1>2, <1>3, <1>4, <1>5, <1>6, OneReader

LEMMA ConsoleRelock ==
    ASSUME ConsoleIInv, NEW p \in Readers, Relock(p)
    PROVE  ConsoleIInv'
<1>1. CTypeOK /\ OneLock /\ SleepsForReason /\ Reading(p) /\ NoReader \notin Readers
    BY ConsoleAssumption, ConsoleParts DEF ConsoleIInv, AllReading
<1>2. CTypeOK'
    BY <1>1 DEF Relock, CTypeOK
<1>3. RingSame /\ Alone(p)
    BY <1>1 DEF Relock, RingSame, Alone, CTypeOK
<1>4. OneLock'
    BY <1>1 DEF Relock, OneLock, CTypeOK
<1>5. rd'[p].pc \in {"sleep", "asleep"} => r = w
    BY <1>1 DEF Relock, SleepsForReason, CTypeOK
<1>6. Reading(p)'
    BY <1>1, ReaderType DEF Relock, Reading, CTypeOK
<1> QED
    BY <1>2, <1>3, <1>4, <1>5, <1>6, OneReader

LEMMA ConsoleReturns ==
    ASSUME ConsoleIInv, NEW p \in Readers, Return(p)
    PROVE  ConsoleIInv'
<1>1. CTypeOK /\ OneLock /\ SleepsForReason /\ Reading(p) /\ NoReader \notin Readers
    BY ConsoleAssumption, ConsoleParts DEF ConsoleIInv, AllReading
<1>2. CTypeOK'
    <2>1. /\ rd \in [Readers -> [pc : {"away", "enter", "woken", "reading", "sleep", "asleep",
                                      "leave", "return",
                                      "put", "locking", "writing"}, n : Nat, target : Nat]]
          /\ rd' = [rd EXCEPT ![p] = Away]
        BY <1>1 DEF Return, CTypeOK
    <2>2. rd' \in [Readers -> [pc : {"away", "enter", "woken", "reading", "sleep", "asleep",
                                    "leave", "return",
                                    "put", "locking", "writing"}, n : Nat, target : Nat]]
        BY <2>1 DEF Away
    <2>3. dst' \in [Readers -> Seq(Plain \cup {"newline"})]
        BY <1>1 DEF Return, CTypeOK
    <2> QED
        BY <1>1, <2>2, <2>3 DEF Return, CTypeOK
<1>3. RingSame /\ Alone(p)
    BY <1>1 DEF Return, Away, RingSame, Alone, CTypeOK
<1>4. OneLock'
    BY <1>1 DEF Return, Away, OneLock, CTypeOK
<1>5. rd'[p].pc \in {"sleep", "asleep"} => r = w
    BY <1>1 DEF Return, Away, SleepsForReason, CTypeOK
<1>6. Reading(p)'
    BY <1>1, ReaderType DEF Return, Away, Reading, CTypeOK
<1> QED
    BY <1>2, <1>3, <1>4, <1>5, <1>6, OneReader

LEMMA ConsoleAskWrite ==
    ASSUME ConsoleIInv, NEW p \in Readers, AskWrite(p)
    PROVE  ConsoleIInv'
<1>1. CTypeOK /\ OneLock /\ SleepsForReason /\ Reading(p) /\ NoReader \notin Readers
    BY ConsoleAssumption, ConsoleParts DEF ConsoleIInv, AllReading
<1>2. CTypeOK'
    BY <1>1 DEF AskWrite, CTypeOK
<1>3. RingSame /\ Alone(p)
    BY <1>1 DEF AskWrite, RingSame, Alone, CTypeOK
<1>4. OneLock'
    BY <1>1 DEF AskWrite, OneLock, CTypeOK
<1>5. rd'[p].pc \in {"sleep", "asleep"} => r = w
    BY <1>1 DEF AskWrite, SleepsForReason, CTypeOK
<1>6. Reading(p)'
    BY <1>1, ReaderType DEF AskWrite, Reading, CTypeOK
<1> QED
    BY <1>2, <1>3, <1>4, <1>5, <1>6, OneReader

LEMMA ConsoleEnterWrite ==
    ASSUME ConsoleIInv, NEW p \in Readers, EnterWrite(p)
    PROVE  ConsoleIInv'
<1>1. CTypeOK /\ OneLock /\ SleepsForReason /\ Reading(p) /\ NoReader \notin Readers
    BY ConsoleAssumption, ConsoleParts DEF ConsoleIInv, AllReading
<1>2. CTypeOK'
    BY <1>1 DEF EnterWrite, CTypeOK
<1>3. RingSame /\ Alone(p)
    BY <1>1 DEF EnterWrite, RingSame, Alone, CTypeOK
<1>4. OneLock'
    BY <1>1 DEF EnterWrite, OneLock, CTypeOK
<1>5. rd'[p].pc \in {"sleep", "asleep"} => r = w
    BY <1>1 DEF EnterWrite, SleepsForReason, CTypeOK
<1>6. Reading(p)'
    BY <1>1, ReaderType DEF EnterWrite, Reading, CTypeOK
<1> QED
    BY <1>2, <1>3, <1>4, <1>5, <1>6, OneReader

LEMMA ConsoleLockWrite ==
    ASSUME ConsoleIInv, NEW p \in Readers, LockWrite(p)
    PROVE  ConsoleIInv'
<1>1. CTypeOK /\ OneLock /\ SleepsForReason /\ Reading(p) /\ NoReader \notin Readers
    BY ConsoleAssumption, ConsoleParts DEF ConsoleIInv, AllReading
<1>2. CTypeOK'
    BY <1>1 DEF LockWrite, CTypeOK
<1>3. RingSame /\ Alone(p)
    BY <1>1 DEF LockWrite, RingSame, Alone, CTypeOK
<1>4. OneLock'
    BY <1>1 DEF LockWrite, OneLock, CTypeOK
<1>5. rd'[p].pc \in {"sleep", "asleep"} => r = w
    BY <1>1 DEF LockWrite, SleepsForReason, CTypeOK
<1>6. Reading(p)'
    BY <1>1, ReaderType DEF LockWrite, Reading, CTypeOK
<1> QED
    BY <1>2, <1>3, <1>4, <1>5, <1>6, OneReader

LEMMA ConsolePutAll ==
    ASSUME ConsoleIInv, NEW p \in Readers, PutAll(p)
    PROVE  ConsoleIInv'
<1>1. CTypeOK /\ OneLock /\ SleepsForReason /\ Reading(p) /\ NoReader \notin Readers
    BY ConsoleAssumption, ConsoleParts DEF ConsoleIInv, AllReading
<1>2. CTypeOK'
    BY <1>1 DEF PutAll, CTypeOK
<1>3. RingSame /\ Alone(p)
    BY <1>1 DEF PutAll, RingSame, Alone, CTypeOK
<1>4. OneLock'
    BY <1>1 DEF PutAll, OneLock, CTypeOK
<1>5. rd'[p].pc \in {"sleep", "asleep"} => r = w
    BY <1>1 DEF PutAll, SleepsForReason, CTypeOK
<1>6. Reading(p)'
    BY <1>1, ReaderType DEF PutAll, Reading, CTypeOK
<1> QED
    BY <1>2, <1>3, <1>4, <1>5, <1>6, OneReader

LEMMA ConsoleKills ==
    ASSUME ConsoleIInv, NEW p \in Readers, Kill(p)
    PROVE  ConsoleIInv'
<1>1. CTypeOK /\ OneLock /\ SleepsForReason /\ Reading(p) /\ NoReader \notin Readers
    BY ConsoleAssumption, ConsoleParts DEF ConsoleIInv, AllReading
<1>2. CTypeOK'
    BY <1>1 DEF Kill, CTypeOK
<1>3. RingSame /\ Alone(p)
    BY <1>1 DEF Kill, RingSame, Alone, CTypeOK
<1>4. OneLock'
    BY <1>1 DEF Kill, OneLock, CTypeOK
<1>5. rd'[p].pc \in {"sleep", "asleep"} => r = w
    BY <1>1 DEF Kill, SleepsForReason, CTypeOK
<1>6. Reading(p)'
    BY <1>1, ReaderType DEF Kill, Reading, CTypeOK
<1> QED
    BY <1>2, <1>3, <1>4, <1>5, <1>6, OneReader

LEMMA ConsoleReplaces ==
    ASSUME ConsoleIInv, NEW p \in Readers, Replaced(p)
    PROVE  ConsoleIInv'
<1>1. CTypeOK /\ OneLock /\ SleepsForReason /\ Reading(p) /\ NoReader \notin Readers
    BY ConsoleAssumption, ConsoleParts DEF ConsoleIInv, AllReading
<1>2. CTypeOK'
    BY <1>1 DEF Replaced, CTypeOK
<1>3. RingSame /\ Alone(p)
    BY <1>1 DEF Replaced, RingSame, Alone, CTypeOK
<1>4. OneLock'
    BY <1>1 DEF Replaced, OneLock, CTypeOK
<1>5. rd'[p].pc \in {"sleep", "asleep"} => r = w
    BY <1>1 DEF Replaced, SleepsForReason, CTypeOK
<1>6. Reading(p)'
    BY <1>1, ReaderType DEF Replaced, Reading, CTypeOK
<1> QED
    BY <1>2, <1>3, <1>4, <1>5, <1>6, OneReader

LEMMA RingStored ==
    ASSUME RingInv, NEW c, Stored(c), CTypeOK'
    PROVE  RingInv'
<1>1. /\ Filled \in Nat /\ Entered \in Nat /\ Entered <= Filled /\ Filled < INPUTBUF
      /\ Filled' = Filled + 1
    BY Index DEF RingInv, Indices, Stored
<1>2. Entered' \in Nat /\ Entered' <= Filled' /\ Filled' <= INPUTBUF
    BY <1>1, Sizes DEF Stored
<1>3. InOrder'
    BY <1>2 DEF InOrder, Entered, Filled
<1>4. Filled' = INPUTBUF => Entered' = Filled'
    BY <1>1 DEF Stored
<1>5. ASSUME NEW k \in Entered' .. Filled' - 1
      PROVE  Cell(k)' \notin {"newline", "eof"}
    <2>1. Entered' = Entered /\ c \notin {"newline", "eof"}
        BY <1>1, <1>2, <1>5 DEF Stored
    <2>2. k \in 0 .. Filled /\ k \in Entered .. Filled
        BY <1>1, <1>2, <1>5, <2>1
    <2>3. Cell(k)' = IF k < Filled THEN Cell(k) ELSE c
        BY <2>2 DEF Stored
    <2>4. k < Filled => k \in Entered .. Filled - 1
        BY <1>1, <2>2
    <2> QED
        BY <2>1, <2>3, <2>4 DEF RingInv
<1> QED
    BY <1>3, <1>4, <1>5 DEF RingInv

\* What an interrupt does to the readers: it wakes some that are asleep.
LEMMA ConsoleWoken ==
    ASSUME ConsoleIInv, RingInv', conslock = NoReader, r' = r,
           UNCHANGED <<conslock, inode, dst, dead>>,
           rd' = rd \/ WakeAll,
           w' = w \/ \A p \in Readers : rd'[p].pc # "asleep"
    PROVE  ConsoleIInv'
<1>1. CTypeOK /\ OneLock /\ SleepsForReason /\ NoReader \notin Readers
    BY ConsoleAssumption DEF ConsoleIInv
<1>2. ASSUME NEW p \in Readers
      PROVE  /\ rd'[p] = rd[p] \/ (rd[p].pc = "asleep" /\ rd'[p].pc = "woken")
             /\ rd'[p].n = rd[p].n /\ rd'[p].target = rd[p].target
             /\ rd[p].pc \notin {"reading", "sleep", "writing"}
    BY <1>1 DEF WakeAll, CTypeOK, OneLock
<1>3. OneLock'
    BY <1>1, <1>2 DEF OneLock
<1>4. SleepsForReason'
    BY <1>1, <1>2 DEF SleepsForReason
<1>5. AllReading'
    <2> SUFFICES ASSUME NEW p \in Readers PROVE Reading(p)'
        BY DEF AllReading
    <2>1. Reading(p)
        BY ConsoleParts DEF AllReading
    <2> QED
        BY <1>2, <2>1 DEF Reading
<1> QED
    BY <1>3, <1>4, <1>5, ConsolePartsNext

LEMMA ConsoleKey ==
    ASSUME ConsoleIInv, NEW c, Key(c)
    PROVE  ConsoleIInv'
<1>1. CTypeOK /\ InOrder /\ RingInv
    BY ConsoleParts DEF ConsoleIInv
<1>2. conslock = NoReader /\ UNCHANGED <<r, conslock, inode, dst, dead>> /\ (rd' = rd \/ WakeAll)
    BY DEF Key
<1>3. rd' \in [Readers -> [pc : {"away", "enter", "woken", "reading", "sleep", "asleep",
                                 "leave", "return",
                                 "put", "locking", "writing"}, n : Nat, target : Nat]]
    <2> SUFFICES rd' \in [Readers -> ReaderStates]
        BY DEF ReaderStates, Stops
    <2>1. rd \in [Readers -> ReaderStates]
        BY <1>1 DEF CTypeOK, ReaderStates, Stops
    <2>2. CASE WakeAll
        <3>1. ASSUME NEW q \in Readers
              PROVE  [rd[q] EXCEPT !.pc = "woken"] \in ReaderStates /\ rd[q] \in ReaderStates
            <4>1. rd[q] \in ReaderStates
                BY <2>1
            <4> QED
                BY <4>1, ReaderWoken
        <3> DEFINE F(q) == IF rd[q].pc = "asleep" THEN [rd[q] EXCEPT !.pc = "woken"] ELSE rd[q]
        <3>2. rd' = [q \in Readers |-> F(q)]
            BY <2>2 DEF WakeAll
        <3>3. \A q \in Readers : F(q) \in ReaderStates
            BY <3>1
        <3> HIDE DEF F
        <3> QED
            BY ONLY <3>2, <3>3
    <2> QED
        BY <1>2, <2>1, <2>2
<1>4. CTypeOK'
    BY <1>1, <1>2, <1>3, RingKey DEF CTypeOK
<1>5. RingInv'
    BY <1>1, <1>4, RingKey, RingStored
<1> QED
    BY <1>1, <1>2, <1>5, RingKey, ConsoleWoken

LEMMA Narrower ==
    ASSUME NEW a \in Nat, NEW f \in Nat, NEW g \in Nat, f <= g, g <= INPUTBUF,
           NEW k \in a .. f - 1
    PROVE  k \in a .. g - 1 /\ k \in 0 .. INPUTBUF
    BY Sizes

LEMMA ConsoleErase ==
    ASSUME ConsoleIInv, Erase \/ EraseLine
    PROVE  ConsoleIInv'
<1>1. CTypeOK /\ InOrder /\ RingInv /\ Indices /\ w \in 0 .. UINT - 1
    BY ConsoleParts, Index DEF ConsoleIInv
<1>2. conslock = NoReader /\ UNCHANGED <<buf, r, w, conslock, inode, rd, dst, dead>>
    BY DEF Erase, EraseLine
<1>3. /\ e' \in 0 .. UINT - 1 /\ Filled' \in Nat
      /\ Entered <= Filled' /\ Filled' <= Filled
      /\ Filled' = INPUTBUF => Entered = Filled'
    <2>1. CASE Erase
        <3>1. e' \in 0 .. UINT - 1 /\ 1 <= Filled - Entered /\ Filled' = Filled - 1
            BY <1>1, <2>1, RingErase DEF Erased, Indices
        <3> QED
            BY <1>1, <3>1, Sizes DEF Indices
    <2>2. CASE EraseLine
        <3>1. e' = w /\ r' = r
            BY <1>1, <2>2, RingEraseLine
        <3>2. Filled' = Entered
            BY <3>1 DEF Filled, Entered
        <3> QED
            BY <1>1, <3>1, <3>2 DEF Indices
    <2> QED
        BY <2>1, <2>2
<1>4. Entered' = Entered /\ \A k \in 0 .. INPUTBUF : Cell(k)' = Cell(k)
    BY <1>2 DEF Entered, Cell
<1>5. CTypeOK' /\ InOrder'
    <2>1. CTypeOK'
        BY <1>1, <1>2, <1>3 DEF CTypeOK
    <2>2. Filled' <= INPUTBUF
        BY <1>1, <1>3, Sizes DEF Indices
    <2>3. InOrder'
        BY <1>3, <1>4, <2>2 DEF InOrder, Entered, Filled
    <2> QED
        BY <2>1, <2>3
<1>6. RingInv'
    <2>1. ASSUME NEW k \in Entered' .. Filled' - 1 PROVE Cell(k)' \notin {"newline", "eof"}
        <3>1. k \in Entered .. Filled - 1 /\ k \in 0 .. INPUTBUF
            BY <1>1, <1>3, <1>4, <2>1, Narrower DEF Indices
        <3> QED
            BY <1>1, <1>4, <3>1 DEF RingInv
    <2> QED
        BY <1>3, <1>4, <1>5, <2>1 DEF RingInv
<1> QED
    BY <1>2, <1>6, ConsoleWoken

\* A key is taken: the others are not asleep, as there is something to read.
LEMMA ConsoleTake ==
    ASSUME ConsoleIInv, NEW p \in Readers, TakeKey(p)
    PROVE  ConsoleIInv'
<1>1. /\ CTypeOK /\ OneLock /\ SleepsForReason /\ RingInv /\ InOrder /\ Reading(p)
      /\ NoReader \notin Readers /\ Indices /\ r \in 0 .. UINT - 1
    BY ConsoleAssumption, ConsoleParts, Index DEF ConsoleIInv, AllReading
<1> DEFINE c == buf[Slot(r)]
<1>2. c = Cell(0) /\ c \in Plain \cup {"newline", "eof"}
    <2>1. Plus(r, 0) = r /\ 0 \in 0 .. INPUTBUF - 1
        BY <1>1, PlusIs, Sizes
    <2> QED
        BY <1>1, <2>1, CellPlace DEF Cell
<1>3. /\ rd[p].pc = "reading" /\ r # w /\ UNCHANGED <<buf, w, e, inode, dead>>
      /\ r' = r \/ r' = Plus(r, 1)
      /\ Alone(p) /\ conslock = p
    <2>1. rd[p].pc = "reading" /\ r # w /\ UNCHANGED <<buf, w, e, inode, dead>>
        BY DEF TakeKey
    <2>2. r' = r \/ r' = Plus(r, 1)
        BY DEF TakeKey, PutBack
    <2>3. Alone(p)
        BY <1>1 DEF TakeKey, Leave, Alone, CTypeOK
    <2> QED
        BY <1>1, <2>1, <2>2, <2>3 DEF OneLock
<1>4. /\ rd' \in [Readers -> [pc : {"away", "enter", "woken", "reading", "sleep", "asleep",
                                    "leave", "return",
                                    "put", "locking", "writing"}, n : Nat, target : Nat]]
      /\ conslock' = (IF rd'[p].pc = "reading" THEN p ELSE NoReader)
      /\ rd'[p].pc \in {"reading", "leave"}
      /\ dst' \in [Readers -> Seq(Plain \cup {"newline"})]
      /\ Reading(p)'
    <2>0. rd[p].n \in Nat /\ rd[p].n >= 1 /\ rd[p].target \in Nat
          /\ Len(dst[p]) = rd[p].target - rd[p].n
          /\ dst[p] \in Seq(Plain \cup {"newline"})
          /\ \A k \in DOMAIN dst[p] : dst[p][k] # "newline"
        BY <1>1, <1>3, ReaderType DEF Reading
    <2>1. CASE c = "eof"
        <3>1. conslock' = NoReader /\ rd' = [rd EXCEPT ![p].pc = "leave"] /\ dst' = dst
            BY <2>1 DEF TakeKey, Leave
        <3> QED
            BY <1>1, <3>1 DEF CTypeOK, Reading
    <2>2. CASE c # "eof" /\ (c = "newline" \/ rd[p].n = 1)
        <3>1. /\ conslock' = NoReader
              /\ rd' = [rd EXCEPT ![p].pc = "leave", ![p].n = @ - 1]
              /\ dst' = [dst EXCEPT ![p] = Append(@, c)]
            BY <2>2 DEF TakeKey
        <3>2. Append(dst[p], c) \in Seq(Plain \cup {"newline"}) /\ rd[p].n - 1 \in Nat
            BY <1>2, <2>0, <2>2
        <3>3. PICK x : x = Moved(rd[p], "leave", rd[p].n - 1)
            OBVIOUS
        <3>4. rd \in [Readers -> ReaderStates] /\ rd[p] \in ReaderStates
            BY <1>1 DEF CTypeOK, ReaderStates, Stops
        <3>5. rd' = [rd EXCEPT ![p] = x]
            BY <3>1, <3>3, <3>4 DEF Moved
        <3>6. x \in ReaderStates /\ x.pc = "leave"
            <4>1. "leave" \in Stops
                BY DEF Stops
            <4> QED
                BY <3>2, <3>3, <3>4, <4>1, ReaderMoved
        <3>7. rd' \in [Readers -> ReaderStates] /\ rd'[p].pc = "leave"
            BY <3>4, <3>5, <3>6
        <3>8. dst' \in [Readers -> Seq(Plain \cup {"newline"})]
            BY <1>1, <3>1, <3>2 DEF CTypeOK
        <3> QED
            BY <3>1, <3>7, <3>8 DEF Reading, ReaderStates, Stops
    <2>3. CASE c # "eof" /\ c # "newline" /\ rd[p].n # 1
        <3>1. /\ conslock' = conslock /\ rd' = [rd EXCEPT ![p].n = @ - 1]
              /\ dst' = [dst EXCEPT ![p] = Append(@, c)]
            BY <2>3 DEF TakeKey
        <3>2. Append(dst[p], c) \in Seq(Plain \cup {"newline"}) /\ rd[p].n - 1 \in Nat
            BY <1>2, <2>0, <2>3
        <3>3. /\ rd'[p].pc = "reading" /\ rd'[p].n = rd[p].n - 1
              /\ rd'[p].target = rd[p].target /\ dst'[p] = Append(dst[p], c)
            BY <1>1, <1>3, <3>1 DEF CTypeOK
        <3>4. \A k \in DOMAIN Append(dst[p], c) : Append(dst[p], c)[k] # "newline"
            BY <2>0, <2>3
        <3>5. Len(Append(dst[p], c)) = rd[p].target - (rd[p].n - 1)
            <4>1. Len(Append(dst[p], c)) = Len(dst[p]) + 1
                BY <1>2, <2>0, <2>3, AppendProperties
            <4> QED
                BY <2>0, <4>1
        <3>6. Reading(p)'
            BY <2>0, <2>3, <3>3, <3>4, <3>5 DEF Reading
        <3>7. /\ rd' \in [Readers -> [pc : {"away", "enter", "woken", "reading", "sleep",
                                            "asleep", "leave", "return",
                                            "put", "locking", "writing"},
                                      n : Nat, target : Nat]]
              /\ dst' \in [Readers -> Seq(Plain \cup {"newline"})]
            BY <1>1, <3>1, <3>2 DEF CTypeOK
        <3> QED
            BY <1>3, <3>1, <3>3, <3>6, <3>7
    <2> QED
        BY <2>1, <2>2, <2>3
<1> HIDE DEF c
<1>5. RingInv'
    <2>1. CASE r' = r
        <3>1. CTypeOK'
            BY <1>1, <1>3, <1>4, <2>1 DEF CTypeOK
        <3> QED
            BY <1>1, <1>3, <2>1, <3>1, RingStays DEF RingSame
    <2>2. CASE r' = Plus(r, 1)
        <3>1. Taken
            BY <1>1, <1>3, <2>2, RingTake
        <3>2. CTypeOK'
            BY <1>1, <1>3, <1>4, <3>1 DEF CTypeOK, Taken
        <3>3. /\ Entered \in Nat /\ Filled \in Nat /\ Entered >= 1 /\ Entered <= Filled
              /\ Filled <= INPUTBUF
              /\ Entered' = Entered - 1 /\ Filled' = Filled - 1
              /\ \A k \in 0 .. INPUTBUF - 1 : Cell(k)' = Cell(k + 1)
            BY <1>1, <3>1 DEF Indices, Taken
        <3>4. InOrder'
            <4>1. Entered' <= Filled' /\ Filled' <= INPUTBUF
                BY <3>3, Sizes
            <4> QED
                BY <4>1 DEF InOrder, Entered, Filled
        <3>5. ASSUME NEW k \in Entered' .. Filled' - 1
              PROVE  Cell(k)' \notin {"newline", "eof"}
            <4>1. k \in 0 .. INPUTBUF - 1 /\ k + 1 \in Entered .. Filled - 1
                BY <3>3, <3>5, Sizes
            <4> QED
                BY <1>1, <3>3, <4>1 DEF RingInv
        <3>6. Filled' # INPUTBUF
            BY <3>3, Sizes
        <3> QED
            BY <3>2, <3>4, <3>5, <3>6 DEF RingInv
    <2> QED
        BY <1>3, <2>1, <2>2
<1>6. OneLock'
    BY <1>1, <1>3, <1>4 DEF OneLock, Alone
<1>7. SleepsForReason'
    BY <1>1, <1>3, <1>4 DEF SleepsForReason, Alone
<1>8. AllReading'
    <2> SUFFICES ASSUME NEW q \in Readers PROVE Reading(q)'
        BY DEF AllReading
    <2>1. CASE q = p
        BY <1>4, <2>1
    <2>2. CASE q # p
        BY <1>3, <2>2, ConsoleParts DEF Reading, Alone, AllReading
    <2> QED
        BY <2>1, <2>2
<1> QED
    BY <1>5, <1>6, <1>7, <1>8, ConsolePartsNext

THEOREM ConsoleStep == ConsoleIInv /\ [CNext]_cvars => ConsoleIInv'
<1> SUFFICES ASSUME ConsoleIInv, [CNext]_cvars PROVE ConsoleIInv'
    OBVIOUS
<1>1. ASSUME NEW c \in Keys, Key(c) PROVE ConsoleIInv'
    BY <1>1, ConsoleKey
<1>2. CASE Erase \/ EraseLine
    BY <1>2, ConsoleErase
<1>3. ASSUME NEW p \in Readers, NEW n \in Wants, Start(p, n) PROVE ConsoleIInv'
    BY <1>3, ConsoleStart
<1>4. ASSUME NEW p \in Readers, Consoleread(p) PROVE ConsoleIInv'
    BY <1>4, ConsoleEnter, ConsoleLock, ConsoleWaits, ConsoleSleeps, ConsoleGivesUp,
        ConsoleTake, ConsoleRelock, ConsoleReturns DEF Consoleread
<1>5. ASSUME NEW p \in Readers, Kill(p) \/ Replaced(p) PROVE ConsoleIInv'
    BY <1>5, ConsoleKills, ConsoleReplaces
<1>6. ASSUME NEW p \in Readers, AskWrite(p) PROVE ConsoleIInv'
    BY <1>6, ConsoleAskWrite
<1>7. ASSUME NEW p \in Readers, Consolewrite(p) PROVE ConsoleIInv'
    BY <1>7, ConsoleEnterWrite, ConsoleLockWrite, ConsolePutAll DEF Consolewrite
<1>8. CASE UNCHANGED cvars
    BY <1>8, Zenon DEF cvars, ConsoleIInv, CTypeOK, InOrder, SleepsForReason, NeverStuck,
        OneLock, Unended, Remaining
<1> QED
    BY <1>1, <1>2, <1>3, <1>4, <1>5, <1>6, <1>7, <1>8 DEF CNext

\* Whatever keys come and whoever reads or writes, with any ring and any width of its
\* indices: the indices stay in order, no reader sleeps while there is something to
\* read, the ring is never stuck, nobody keeps the inode while it waits, and a write
\* has the console to itself (consoleintr, consoleread, consolewrite).
THEOREM ConsoleInvariant == CSpec => []ConsoleIInv
    BY ConsoleInit, ConsoleStep, PTL DEF CSpec

-----------------------------------------------------------------------------
(***************************************************************************)
(* The ring as the two sequences of Terminal.                              *)
(***************************************************************************)
Codes == Plain \cup {"newline", "eof"}

Views ==
    /\ Keyed(r, w) \in Seq(Codes) /\ Len(Keyed(r, w)) = Entered
    /\ \A i \in 1 .. Entered : Keyed(r, w)[i] = Cell(i - 1)
    /\ Keyed(w, e) \in Seq(Codes) /\ Len(Keyed(w, e)) = Filled - Entered
    /\ \A i \in 1 .. Filled - Entered : Keyed(w, e)[i] = Cell(Entered + i - 1)
    /\ Entered \in Nat /\ Filled \in Nat /\ Entered <= Filled /\ Filled <= INPUTBUF

LEMMA View == RingInv => Views
<1> SUFFICES ASSUME RingInv PROVE Views
    OBVIOUS
<1>1. CTypeOK /\ Indices /\ \A k \in 0 .. INPUTBUF - Entered : Plus(w, k) = Plus(r, Entered + k)
    BY Index DEF RingInv
<1>2. /\ Entered \in Nat /\ Filled \in Nat /\ Entered <= Filled /\ Filled <= INPUTBUF
      /\ Minus(w, r) = Entered /\ Minus(e, w) = Filled - Entered
    BY <1>1 DEF Indices, Entered
<1>3. Keyed(r, w) = [i \in 1 .. Entered |-> Cell(i - 1)]
    BY <1>2 DEF Keyed, Cell
<1>4. Keyed(w, e) = [i \in 1 .. Filled - Entered |-> Cell(Entered + i - 1)]
    <2>1. ASSUME NEW i \in 1 .. Filled - Entered
          PROVE  buf[Slot(Plus(w, i - 1))] = Cell(Entered + i - 1)
        <3>1. i - 1 \in 0 .. INPUTBUF - Entered /\ Entered + (i - 1) = Entered + i - 1
            BY <1>2, Sizes
        <3> QED
            BY <1>1, <3>1 DEF Cell
    <2> QED
        BY <1>2, <2>1 DEF Keyed
<1>5. \A k \in 0 .. INPUTBUF - 1 : Cell(k) \in Codes
    BY <1>1, CellPlace DEF Codes
<1>6. \A i \in 1 .. Entered : Cell(i - 1) \in Codes
    <2> SUFFICES ASSUME NEW i \in 1 .. Entered PROVE Cell(i - 1) \in Codes
        OBVIOUS
    <2>1. i - 1 \in 0 .. INPUTBUF - 1
        BY <1>2, Sizes
    <2> QED
        BY <1>5, <2>1
<1>7. \A i \in 1 .. Filled - Entered : Cell(Entered + i - 1) \in Codes
    <2> SUFFICES ASSUME NEW i \in 1 .. Filled - Entered PROVE Cell(Entered + i - 1) \in Codes
        OBVIOUS
    <2>1. Entered + i - 1 \in 0 .. INPUTBUF - 1
        BY <1>2, Sizes
    <2> QED
        BY <1>5, <2>1
<1>8. Filled - Entered \in Nat
    BY <1>2
<1>9. Keyed(r, w) \in Seq(Codes) /\ Len(Keyed(r, w)) = Entered
    BY <1>2, <1>3, <1>6
<1>10. Keyed(w, e) \in Seq(Codes) /\ Len(Keyed(w, e)) = Filled - Entered
    BY <1>4, <1>7, <1>8
<1> QED
    BY <1>2, <1>3, <1>4, <1>9, <1>10 DEF Views

LEMMA ViewNext == RingInv' => Views'
    BY View, PTL

LEMMA KeyStep ==
    ASSUME RingInv, RingInv', NEW c \in Codes, Key(c)
    PROVE  Term!TKey(c)
<1>1. Stored(c) /\ Views /\ Views' /\ dst' = dst
    BY RingKey, View, ViewNext DEF RingInv, Key
<1> DEFINE l == Append(Keyed(w, e), c)
           s == Keyed(r, w)
<1>2. /\ l \in Seq(Codes) /\ Len(l) = Filled - Entered + 1
      /\ \A i \in 1 .. Filled - Entered + 1 :
            l[i] = IF i <= Filled - Entered THEN Cell(Entered + i - 1) ELSE c
    <2>1. /\ l \in Seq(Codes) /\ Len(l) = Filled - Entered + 1
          /\ \A i \in 1 .. Filled - Entered : l[i] = Keyed(w, e)[i]
          /\ l[Filled - Entered + 1] = c
        BY <1>1, AppendProperties DEF Views
    <2>2. ASSUME NEW i \in 1 .. Filled - Entered + 1
          PROVE  l[i] = IF i <= Filled - Entered THEN Cell(Entered + i - 1) ELSE c
        <3>1. CASE i <= Filled - Entered
            <4>1. i \in 1 .. Filled - Entered
                BY <1>1, <3>1 DEF Views
            <4> QED
                BY <1>1, <2>1, <3>1, <4>1 DEF Views
        <3>2. CASE ~(i <= Filled - Entered)
            <4>1. i = Filled - Entered + 1
                BY <1>1, <3>2 DEF Views
            <4> QED
                BY <2>1, <3>2, <4>1
        <3> QED
            BY <3>1, <3>2
    <2> QED
        BY <2>1, <2>2
<1>3. /\ Entered \in Nat /\ Filled \in Nat /\ Entered <= Filled /\ Filled < INPUTBUF
      /\ s \in Seq(Codes) /\ Len(s) = Entered /\ Len(Keyed(w, e)) = Filled - Entered
      /\ \A i \in 1 .. Entered : s[i] = Cell(i - 1)
      /\ Filled' = Filled + 1
    BY <1>1 DEF Views, Stored
<1>4. \A k \in 0 .. Filled : Cell(k)' = IF k < Filled THEN Cell(k) ELSE c
    BY <1>1 DEF Stored
<1>5. /\ s \o l \in Seq(Codes) /\ Len(s \o l) = Filled + 1
      /\ \A i \in 1 .. Filled + 1 : (s \o l)[i] = IF i <= Filled THEN Cell(i - 1) ELSE c
    <2> HIDE DEF l, s
    <2>1. /\ s \o l \in Seq(Codes) /\ Len(s \o l) = Len(s) + Len(l)
          /\ \A i \in 1 .. Len(s) + Len(l) :
                (s \o l)[i] = IF i <= Len(s) THEN s[i] ELSE l[i - Len(s)]
        BY <1>2, <1>3, ConcatProperties
    <2>2. Len(s) + Len(l) = Filled + 1
        BY <1>2, <1>3
    <2>3. ASSUME NEW i \in 1 .. Filled + 1
          PROVE  (s \o l)[i] = IF i <= Filled THEN Cell(i - 1) ELSE c
        <3>1. (s \o l)[i] = IF i <= Entered THEN s[i] ELSE l[i - Entered]
            BY <1>3, <2>1, <2>2
        <3>2. CASE i <= Entered
            <4>1. i \in 1 .. Entered /\ i <= Filled
                BY <1>3, <3>2
            <4> QED
                BY <1>3, <3>1, <3>2, <4>1
        <3>3. CASE ~(i <= Entered)
            <4>1. /\ i - Entered \in 1 .. Filled - Entered + 1
                  /\ Entered + (i - Entered) - 1 = i - 1
                  /\ i - Entered <= Filled - Entered <=> i <= Filled
                BY <1>3, <3>3
            <4>2. l[i - Entered] =
                     IF i - Entered <= Filled - Entered THEN Cell(Entered + (i - Entered) - 1)
                     ELSE c
                BY <1>2, <4>1
            <4> QED
                BY <3>1, <3>3, <4>1, <4>2
        <3> QED
            BY <3>2, <3>3
    <2> QED
        BY <2>1, <2>2, <2>3
<1> HIDE DEF l, s
<1>6. CASE c \in {"newline", "eof"} \/ Filled + 1 = INPUTBUF
    <2>1. Entered' = Filled + 1
        BY <1>1, <1>6 DEF Stored
    <2>2. /\ Keyed(r, w)' \in Seq(Codes) /\ Len(Keyed(r, w)') = Filled + 1
          /\ \A i \in 1 .. Filled + 1 : Keyed(r, w)'[i] = Cell(i - 1)'
          /\ Keyed(w, e)' \in Seq(Codes) /\ Len(Keyed(w, e)') = Filled' - Entered'
        BY <1>1, <2>1 DEF Views
    <2>3. \A i \in 1 .. Filled + 1 : Keyed(r, w)'[i] = (s \o l)[i]
        <3> SUFFICES ASSUME NEW i \in 1 .. Filled + 1 PROVE Keyed(r, w)'[i] = (s \o l)[i]
            OBVIOUS
        <3>1. i - 1 \in 0 .. Filled /\ (i - 1 < Filled <=> i <= Filled)
            BY <1>3
        <3> QED
            BY <1>4, <1>5, <2>2, <3>1
    <2>4. Keyed(r, w)' = s \o l
        BY <1>5, <2>2, <2>3, SeqEqual
    <2>5. Keyed(w, e)' = <<>>
        BY <1>3, <2>1, <2>2, EmptySeq
    <2>6. Len(s) + Len(l) = INPUTBUF <=> Filled + 1 = INPUTBUF
        BY <1>2, <1>3
    <2> QED
        BY <1>1, <1>3, <1>6, <2>4, <2>5, <2>6 DEF Term!TKey, Term!Ends, l, s
<1>7. CASE ~(c \in {"newline", "eof"} \/ Filled + 1 = INPUTBUF)
    <2>1. Entered' = Entered
        BY <1>1, <1>7 DEF Stored
    <2>2. /\ Keyed(r, w)' \in Seq(Codes) /\ Len(Keyed(r, w)') = Entered
          /\ \A i \in 1 .. Entered : Keyed(r, w)'[i] = Cell(i - 1)'
          /\ Keyed(w, e)' \in Seq(Codes) /\ Len(Keyed(w, e)') = Filled + 1 - Entered
          /\ \A i \in 1 .. Filled + 1 - Entered : Keyed(w, e)'[i] = Cell(Entered + i - 1)'
        BY <1>1, <1>3, <2>1 DEF Views
    <2>3. \A i \in 1 .. Entered : Keyed(r, w)'[i] = s[i]
        <3> SUFFICES ASSUME NEW i \in 1 .. Entered PROVE Keyed(r, w)'[i] = s[i]
            OBVIOUS
        <3>1. i - 1 \in 0 .. Filled /\ i - 1 < Filled
            BY <1>3
        <3> QED
            BY <1>3, <1>4, <2>2, <3>1
    <2>4. Keyed(r, w)' = s
        BY <1>3, <2>2, <2>3, SeqEqual
    <2>5. Filled + 1 - Entered = Filled - Entered + 1
        BY <1>3
    <2>6. \A i \in 1 .. Filled - Entered + 1 : Keyed(w, e)'[i] = l[i]
        <3> SUFFICES ASSUME NEW i \in 1 .. Filled - Entered + 1
                     PROVE  Keyed(w, e)'[i] = l[i]
            OBVIOUS
        <3>1. PICK k \in 0 .. Filled :
                 k = Entered + i - 1 /\ (k < Filled <=> i <= Filled - Entered)
            BY <1>3
        <3>2. Keyed(w, e)'[i] = Cell(k)'
            BY <2>1, <2>2, <2>5, <3>1
        <3> QED
            BY <1>2, <1>4, <3>1, <3>2
    <2>7. Keyed(w, e)' = l
        BY <1>2, <2>2, <2>5, <2>6, SeqEqual
    <2>8. Len(s) + Len(l) # INPUTBUF
        BY <1>2, <1>3, <1>7
    <2> QED
        BY <1>1, <1>3, <1>7, <2>4, <2>7, <2>8 DEF Term!TKey, Term!Ends, l, s
<1> QED
    BY <1>6, <1>7

LEMMA EraseStep ==
    ASSUME RingInv, RingInv', Erase
    PROVE  Term!TErase
<1>1. /\ r' = r /\ w' = w /\ buf' = buf /\ Filled' = Filled - 1
      /\ 1 <= Filled - Entered /\ Views /\ Views' /\ dst' = dst
    BY RingErase, View, ViewNext DEF RingInv, Erased, Erase, Views
<1>2. Entered' = Entered /\ Entered \in Nat /\ Filled \in Nat
    BY <1>1 DEF Entered, Views
<1>3. \A k \in Int : Cell(k)' = Cell(k)
    BY <1>1 DEF Cell
<1> DEFINE l == Keyed(w, e)
           n == Filled - Entered
<1>4. l \in Seq(Codes) /\ Len(l) = n /\ \A i \in 1 .. n : l[i] = Cell(Entered + i - 1)
    BY <1>1 DEF Views
<1>5. /\ Keyed(w, e)' \in Seq(Codes) /\ Len(Keyed(w, e)') = n - 1
      /\ \A i \in 1 .. n - 1 : Keyed(w, e)'[i] = l[i]
    <2>1. /\ Keyed(w, e)' \in Seq(Codes) /\ Len(Keyed(w, e)') = Filled' - Entered'
          /\ \A i \in 1 .. Filled' - Entered' : Keyed(w, e)'[i] = Cell(Entered + i - 1)'
        BY <1>1 DEF Views
    <2>2. Filled' - Entered' = n - 1
        BY <1>1, <1>2
    <2>3. ASSUME NEW i \in 1 .. n - 1 PROVE Keyed(w, e)'[i] = l[i]
        <3>1. PICK k \in Int : k = Entered + i - 1
            BY <1>2
        <3>2. Keyed(w, e)'[i] = Cell(k)'
            BY <1>2, <2>1, <2>2, <3>1
        <3>3. i \in 1 .. n
            BY <1>1, <1>2
        <3> QED
            BY <1>3, <1>4, <3>1, <3>2, <3>3
    <2> QED
        BY <2>1, <2>2, <2>3
<1> HIDE DEF l
<1>6. /\ SubSeq(l, 1, n - 1) \in Seq(Codes) /\ Len(SubSeq(l, 1, n - 1)) = n - 1
      /\ \A i \in 1 .. n - 1 : SubSeq(l, 1, n - 1)[i] = l[i]
    <2>1. n \in Nat /\ n >= 1
        BY <1>1, <1>2
    <2> HIDE DEF n
    <2>2. \A i \in 1 .. n - 1 : l[i] \in Codes
        <3> SUFFICES ASSUME NEW i \in 1 .. n - 1 PROVE l[i] \in Codes
            OBVIOUS
        <3>1. i \in 1 .. Len(l)
            BY <1>4, <2>1
        <3> QED
            BY <1>4, <3>1, ElementOfSeq
    <2>3. 1 \in Int /\ n - 1 \in Int
        BY <2>1
    <2>4. /\ SubSeq(l, 1, n - 1) \in Seq(Codes)
          /\ Len(SubSeq(l, 1, n - 1)) = IF 1 <= n - 1 THEN (n - 1) - 1 + 1 ELSE 0
          /\ \A i \in 1 .. (n - 1) - 1 + 1 : SubSeq(l, 1, n - 1)[i] = l[1 + i - 1]
        BY <2>2, <2>3, SubSeqProperties
    <2> QED
        BY <2>1, <2>4
<1>7. Keyed(w, e)' = SubSeq(l, 1, Len(l) - 1)
    <2>1. Keyed(w, e)' = SubSeq(l, 1, n - 1)
        BY <1>5, <1>6, SeqEqual
    <2> QED
        BY <1>4, <2>1
<1>8. l # <<>>
    BY <1>1, <1>4
<1>9. Keyed(r, w)' = Keyed(r, w)
    BY <1>1 DEF Keyed
<1> QED
    BY <1>1, <1>7, <1>8, <1>9 DEF Term!TErase, Term!Front, l

LEMMA EraseLineStep ==
    ASSUME RingInv, RingInv', EraseLine
    PROVE  Term!TEraseLine
<1>1. e' = w /\ r' = r /\ w' = w /\ buf' = buf /\ dst' = dst
    BY RingEraseLine DEF EraseLine
<1>2. Views'
    BY ViewNext
<1>3. Filled' = Entered' /\ Entered' \in Nat
    BY <1>1, <1>2 DEF Filled, Entered, Views
<1>4. Keyed(w, e)' = <<>>
    BY <1>2, <1>3, EmptySeq DEF Views
<1>5. Keyed(r, w)' = Keyed(r, w)
    BY <1>1 DEF Keyed
<1> QED
    BY <1>1, <1>4, <1>5 DEF Term!TEraseLine

\* The first key that is entered is taken, by a read() or as the end of the input.
LEMMA TakenView ==
    ASSUME RingInv, RingInv', Taken
    PROVE  /\ Keyed(r, w) # <<>> /\ Head(Keyed(r, w)) = Cell(0)
           /\ Keyed(r, w)' = Tail(Keyed(r, w))
           /\ Keyed(w, e)' = Keyed(w, e)
<1> DEFINE s == Keyed(r, w)
<1>1. /\ s \in Seq(Codes) /\ Len(s) = Entered
      /\ \A i \in 1 .. Entered : s[i] = Cell(i - 1)
      /\ Entered \in Nat /\ Entered <= INPUTBUF /\ Entered >= 1 /\ Entered' = Entered - 1
      /\ Views'
    <2>1. Views /\ Views' /\ Entered <= INPUTBUF
        BY View, ViewNext, Sizes DEF Views
    <2> QED
        BY <2>1 DEF Views, Taken
<1>2. /\ Keyed(r, w)' \in Seq(Codes) /\ Len(Keyed(r, w)') = Entered - 1
      /\ \A i \in 1 .. Entered - 1 : Keyed(r, w)'[i] = Cell(i - 1)'
    BY <1>1 DEF Views
<1>3. Keyed(w, e)' = Keyed(w, e)
    BY DEF Keyed, Taken
<1> HIDE DEF s
<1>4. s # <<>> /\ Head(s) = Cell(0)
    <2>1. s # <<>> /\ s[1] = Cell(0)
        BY <1>1
    <2> QED
        BY <1>1, <2>1
<1>5. /\ Tail(s) \in Seq(Codes) /\ Len(Tail(s)) = Entered - 1
      /\ \A i \in 1 .. Entered - 1 : Tail(s)[i] = s[i + 1]
    BY <1>1, <1>4, HeadTailProperties
<1>6. \A i \in 1 .. Entered - 1 : Keyed(r, w)'[i] = Tail(s)[i]
    <2> SUFFICES ASSUME NEW i \in 1 .. Entered - 1 PROVE Keyed(r, w)'[i] = Tail(s)[i]
        OBVIOUS
    <2>1. PICK k \in 0 .. INPUTBUF - 1 : k = i - 1 /\ k + 1 = i
        BY <1>1, Sizes
    <2>2. Keyed(r, w)'[i] = Cell(k)'
        BY <1>2, <2>1
    <2>3. Cell(k)' = Cell(k + 1)
        BY <2>1 DEF Taken
    <2>4. i + 1 \in 1 .. Entered /\ (i + 1) - 1 = k + 1
        BY <1>1, <2>1
    <2>5. Tail(s)[i] = Cell(k + 1)
        BY <1>1, <1>5, <2>4
    <2> QED
        BY <2>2, <2>3, <2>5
<1>7. Keyed(r, w)' = Tail(s)
    BY <1>2, <1>5, <1>6, SeqEqual
<1> QED
    BY <1>3, <1>4, <1>7 DEF s

LEMMA TakeStep ==
    ASSUME ConsoleIInv, ConsoleIInv', NEW p \in Readers, TakeKey(p)
    PROVE  Term!TNext \/ UNCHANGED Term!tvars
<1>1. /\ CTypeOK /\ InOrder /\ RingInv /\ RingInv' /\ Reading(p) /\ r \in 0 .. UINT - 1
    BY ConsoleParts, ConsolePartsNext, Index DEF ConsoleIInv, AllReading
<1> DEFINE c == buf[Slot(r)]
<1>2. c = Cell(0)
    <2>1. Plus(r, 0) = r
        BY <1>1, PlusIs, Sizes
    <2> QED
        BY <2>1 DEF Cell
<1>3. /\ r # w /\ buf' = buf /\ w' = w /\ e' = e /\ rd[p].pc = "reading"
      /\ rd[p].n \in Nat /\ rd[p].target \in Nat /\ dst[p] \in Seq(Plain \cup {"newline"})
      /\ Len(dst[p]) = rd[p].target - rd[p].n
      /\ \A k \in DOMAIN dst[p] : dst[p][k] # "newline"
    <2>1. r # w /\ buf' = buf /\ w' = w /\ e' = e /\ rd[p].pc = "reading"
        BY DEF TakeKey
    <2> QED
        BY <1>1, <2>1, ReaderType DEF Reading
<1>4. r' = Plus(r, 1) => Taken
    BY <1>1, <1>3, RingTake
<1>5. CASE c = "eof"
    <2>1. dst' = dst /\ r' = PutBack(p)
        BY <1>5 DEF TakeKey
    <2>2. CASE rd[p].n < rd[p].target
        <3>1. r' = r
            BY <2>1, <2>2 DEF PutBack
        <3>2. Keyed(r, w)' = Keyed(r, w) /\ Keyed(w, e)' = Keyed(w, e)
            BY <1>3, <3>1 DEF Keyed
        <3> QED
            BY <2>1, <3>2 DEF Term!tvars
    <2>3. CASE ~(rd[p].n < rd[p].target)
        <3>1. r' = Plus(r, 1)
            BY <2>1, <2>3 DEF PutBack
        <3>2. dst[p] = <<>>
            BY <1>3, <2>3, LenProperties, EmptySeq
        <3>3. Term!TEof(p)
            BY <1>1, <1>2, <1>4, <1>5, <2>1, <3>1, <3>2, TakenView DEF Term!TEof
        <3> QED
            BY <3>3 DEF Term!TNext
    <2> QED
        BY <2>2, <2>3
<1>6. CASE c # "eof"
    <2>1. r' = Plus(r, 1) /\ dst' = [dst EXCEPT ![p] = Append(@, c)]
        BY <1>6 DEF TakeKey
    <2>2. dst[p] = <<>> \/ Term!Last(dst[p]) # "newline"
        <3> SUFFICES ASSUME dst[p] # <<>> PROVE dst[p][Len(dst[p])] # "newline"
            BY DEF Term!Last
        <3>1. Len(dst[p]) \in DOMAIN dst[p]
            BY <1>3
        <3> QED
            BY <1>3, <3>1
    <2>3. Term!TTake(p)
        BY <1>1, <1>2, <1>4, <1>6, <2>1, <2>2, TakenView DEF Term!TTake
    <2> QED
        BY <2>3 DEF Term!TNext
<1> QED
    BY <1>5, <1>6

THEOREM TerminalInit == CInit => Term!TInit
<1> SUFFICES ASSUME CInit PROVE Term!TInit
    OBVIOUS
<1>1. ConsoleIInv /\ r = 0 /\ w = 0 /\ e = 0 /\ dst = [p \in Readers |-> <<>>]
    BY ConsoleInit DEF CInit
<1>2. Views
    BY <1>1, ConsoleParts, View
<1>3. Entered = 0 /\ Filled = 0 /\ 0 \in 0 .. UINT - 1
    <2>1. 0 \in 0 .. UINT - 1
        BY Sizes
    <2> QED
        BY <1>1, <2>1, MinusIs DEF Entered, Filled
<1>4. Keyed(r, w) = <<>> /\ Keyed(w, e) = <<>>
    BY <1>2, <1>3, EmptySeq DEF Views
<1> QED
    BY <1>1, <1>4 DEF Term!TInit

\* Every step of the console is a step of the terminal, or none.
THEOREM TerminalStep ==
    ConsoleIInv /\ ConsoleIInv' /\ [CNext]_cvars => [Term!TNext]_Term!tvars
<1> SUFFICES ASSUME ConsoleIInv, ConsoleIInv', [CNext]_cvars
             PROVE  Term!TNext \/ UNCHANGED Term!tvars
    BY DEF Term!tvars
<1>0. RingInv /\ RingInv'
    BY ConsoleParts, ConsolePartsNext
<1>1. ASSUME NEW c \in Keys, Key(c) PROVE Term!TNext
    <2>1. c \in Codes
        BY <1>1 DEF Key, Codes
    <2>2. Term!TKey(c)
        BY <1>0, <1>1, <2>1, KeyStep
    <2> QED
        BY <2>1, <2>2 DEF Term!TNext, Codes, Term!Ends
<1>2. CASE Erase \/ EraseLine
    BY <1>0, <1>2, EraseStep, EraseLineStep DEF Term!TNext
<1>3. ASSUME NEW p \in Readers, TakeKey(p) PROVE Term!TNext \/ UNCHANGED Term!tvars
    BY <1>3, TakeStep
<1>4. ASSUME RingSame PROVE Keyed(r, w)' = Keyed(r, w) /\ Keyed(w, e)' = Keyed(w, e)
    BY <1>4 DEF RingSame, Keyed
<1>5. ASSUME NEW p \in Readers, Return(p) PROVE Term!TNext
    <2>1. RingSame /\ dst' = [dst EXCEPT ![p] = <<>>]
        BY <1>5 DEF Return, RingSame
    <2>2. Term!TReturn(p)
        BY <1>4, <2>1 DEF Term!TReturn
    <2> QED
        BY <2>2 DEF Term!TNext
<1>6. ASSUME NEW p \in Readers,
             \/ Enter(p) \/ Lock(p) \/ WaitForLine(p) \/ SleepOn(p) \/ GiveUp(p)
             \/ Relock(p) \/ AskWrite(p) \/ Consolewrite(p) \/ Kill(p) \/ Replaced(p)
             \/ \E n \in Wants : Start(p, n)
      PROVE  UNCHANGED Term!tvars
    <2>1. RingSame /\ dst' = dst
        BY <1>6 DEF Enter, Lock, WaitForLine, SleepOn, GiveUp, Relock, Kill, Replaced,
            Start, AskWrite, Consolewrite, EnterWrite, LockWrite, PutAll, RingSame
    <2> QED
        BY <1>4, <2>1 DEF Term!tvars
<1>7. CASE UNCHANGED cvars
    <2>1. RingSame /\ dst' = dst
        BY <1>7 DEF cvars, RingSame
    <2> QED
        BY <1>4, <2>1 DEF Term!tvars
<1> QED
    BY <1>1, <1>2, <1>3, <1>5, <1>6, <1>7 DEF CNext, Consoleread

\* The console is the line editor that Terminal describes: nothing that is typed is
\* lost, read twice or read out of order, and a read() stops at the end of a line.
THEOREM ConsoleImplementsTerminal == CSpec => TermSpec
<1>1. CSpec => []ConsoleIInv
    BY ConsoleInvariant
<1> QED
    BY <1>1, TerminalInit, TerminalStep, PTL DEF CSpec, TermSpec, Term!TSpec

-----------------------------------------------------------------------------
\* LocksIInv by processor and by context.
CpuInv(c) ==
    /\ on[c] \in Threads \cup {c} /\ mode[on[c]] # "fresh"
    /\ ncli[c] = Depth(on[c])
    /\ ncli[c] # 0 => ~intr[c]
    /\ mode[on[c]] = "irq" => ~intr[c]
    /\ ncli[c] = 0 /\ on[c] \in Threads /\ mode[on[c]] = "normal" => intr[c]
    /\ ncli[c] = 0 /\ on[c] = c /\ mode[c] = "normal" /\ ready[c] => intr[c]
    /\ ncli[c] # 0 =>
          /\ on[c] \in Threads /\ mode[on[c]] = "normal" => intena[c]
          /\ mode[on[c]] = "irq" => ~intena[c]
CalmInv(c) ==
    /\ nest[c] = 0 /\ mode[c] \in {"normal", "irq"}
    /\ on[c] # c => mode[c] = "normal"
    /\ mode[c] = "normal" => held[c] = {} \/ spin[c] = NoLock
    /\ ready[c] => on[c] = c /\ (mode[c] = "normal" => held[c] = {} /\ spin[c] = NoLock)
Apart == \A c, d \in Cpus : on[c] = on[d] => c = d
Idle(x) == \A c \in Cpus : on[c] # x
IdleInv == \A x \in Contexts : Idle(x) => held[x] = {} /\ spin[x] = NoLock /\ nest[x] = 0
SavedInv ==
    \A t \in Threads : Idle(t) =>
        /\ mode[t] = "normal" => saved[t]
        /\ mode[t] = "irq" => ~saved[t]
SystemInv ==
    /\ Apart /\ OwnerHolds /\ IdleInv /\ SavedInv
    /\ \A c \in Cpus : CpuInv(c)
    /\ \A c \in Cpus : CalmInv(c)

LEMMA LocksRegrouped == LocksIInv <=> LTypeOK /\ SystemInv
    BY Zenon DEF LocksIInv, SystemInv, OneCpu, NcliCounts, HolderUninterrupted, FlagKept,
                 SavedRight, SchedulerCalm, CpuInv, CalmInv, Apart, Idle, IdleInv, SavedInv

LEMMA LocksRegroupedPrime == LocksIInv' <=> LTypeOK' /\ SystemInv'
    BY LocksRegrouped, PTL

\* The constants as the provers need them.
LEMMA LocksApart ==
    /\ NoLock \notin SpinLocks /\ NoCpu \notin Cpus /\ PTable \in SpinLocks
    /\ \A c \in Cpus : c \notin Threads /\ c \in Contexts
    /\ \A t \in Threads : t \notin Cpus /\ t \in Contexts
    BY LocksAssumption DEF Contexts

\* The depth of a context counts what it has.
LEMMA Depths ==
    ASSUME LTypeOK, NEW x \in Contexts
    PROVE  /\ IsFiniteSet(held[x]) /\ Cardinality(held[x]) \in Nat
           /\ nest[x] \in Nat
           /\ Depth(x) \in Nat
           /\ Depth(x) = 0 <=> held[x] = {} /\ nest[x] = 0 /\ spin[x] = NoLock
<1>1. held[x] \in SUBSET SpinLocks /\ nest[x] \in Nat
    BY DEF LTypeOK
<1>2. IsFiniteSet(held[x])
    BY <1>1, LocksAssumption, FS_Subset
<1>3. Cardinality(held[x]) \in Nat /\ (Cardinality(held[x]) = 0 <=> held[x] = {})
    BY <1>2, FS_CardinalityType, FS_EmptySet
<1> DEFINE k == Cardinality(held[x])
           s == IF spin[x] = NoLock THEN 0 ELSE 1
<1>4. Depth(x) = k + nest[x] + s
    BY DEF Depth
<1>5. k \in Nat /\ s \in {0, 1} /\ (s = 0 <=> spin[x] = NoLock) /\ (k = 0 <=> held[x] = {})
    BY <1>3
<1> HIDE DEF k, s
<1>6. Depth(x) \in Nat /\ (Depth(x) = 0 <=> k = 0 /\ nest[x] = 0 /\ s = 0)
    BY <1>1, <1>4, <1>5
<1> QED
    BY <1>1, <1>2, <1>3, <1>5, <1>6

-----------------------------------------------------------------------------
\* A step of one processor that switches no context: everybody else keeps what
\* the invariant says of them.
OfOneCpu(c) ==
    /\ UNCHANGED <<on, saved>>
    /\ \A d \in Cpus \ {c} :
          ncli'[d] = ncli[d] /\ intena'[d] = intena[d] /\ intr'[d] = intr[d]
          /\ ready'[d] = ready[d]
    /\ \A x \in Contexts \ {on[c]} :
          held'[x] = held[x] /\ spin'[x] = spin[x] /\ nest'[x] = nest[x]
          /\ mode'[x] = mode[x]

LEMMA OthersKept ==
    ASSUME LTypeOK, SystemInv, NEW c \in Cpus, OfOneCpu(c)
    PROVE  /\ Apart' /\ IdleInv' /\ SavedInv'
           /\ \A d \in Cpus \ {c} : CpuInv(d)' /\ CalmInv(d)'
           /\ on[c] # c => nest'[c] = nest[c] /\ mode'[c] = mode[c]
                           /\ held'[c] = held[c] /\ spin'[c] = spin[c]
<1>0. on' = on /\ saved' = saved /\ on \in [Cpus -> Contexts]
    BY DEF OfOneCpu, LTypeOK
<1>1. Apart'
    BY <1>0 DEF SystemInv, Apart
<1>2. ASSUME NEW x \in Contexts, Idle(x)'
      PROVE  Idle(x) /\ x # on[c] /\ held'[x] = held[x] /\ spin'[x] = spin[x]
             /\ nest'[x] = nest[x] /\ mode'[x] = mode[x]
    <2>1. Idle(x) /\ x # on[c]
        BY <1>0, <1>2 DEF Idle
    <2> QED
        BY <2>1 DEF OfOneCpu
<1>3. IdleInv'
    BY <1>2 DEF SystemInv, IdleInv
<1>4. SavedInv'
    BY <1>0, <1>2, LocksApart DEF SystemInv, SavedInv
<1>5. ASSUME NEW d \in Cpus \ {c}
      PROVE  CpuInv(d)' /\ CalmInv(d)'
    <2>1. CpuInv(d) /\ CalmInv(d) /\ on[d] # on[c] /\ on[d] \in Contexts /\ d \in Contexts
        BY <1>0, LocksApart DEF SystemInv, Apart
    <2>2. on[c] # d
        BY LocksApart DEF SystemInv, CpuInv
    <2>3. /\ ncli'[d] = ncli[d] /\ intena'[d] = intena[d] /\ intr'[d] = intr[d]
          /\ ready'[d] = ready[d] /\ on'[d] = on[d]
          /\ held'[on[d]] = held[on[d]] /\ spin'[on[d]] = spin[on[d]]
          /\ nest'[on[d]] = nest[on[d]] /\ mode'[on[d]] = mode[on[d]]
          /\ held'[d] = held[d] /\ spin'[d] = spin[d]
          /\ nest'[d] = nest[d] /\ mode'[d] = mode[d]
        BY <1>0, <2>1, <2>2 DEF OfOneCpu
    <2>4. Depth(on[d])' = Depth(on[d])
        BY <2>3 DEF Depth
    <2>5. CpuInv(d)'
        BY <2>1, <2>3, <2>4 DEF CpuInv
    <2>6. CalmInv(d)'
        BY <2>1, <2>3 DEF CalmInv
    <2> QED
        BY <2>5, <2>6
<1>6. on[c] # c => nest'[c] = nest[c] /\ mode'[c] = mode[c]
                   /\ held'[c] = held[c] /\ spin'[c] = spin[c]
    BY LocksApart DEF OfOneCpu
<1> QED
    BY <1>1, <1>3, <1>4, <1>5, <1>6

\* Such a step keeps SystemInv if it keeps the processor's own part of it.
LEMMA OneCpuStep ==
    ASSUME LTypeOK, SystemInv, NEW c \in Cpus, OfOneCpu(c),
           CpuInv(c)', CalmInv(c)', OwnerHolds'
    PROVE  SystemInv'
<1>1. /\ Apart' /\ IdleInv' /\ SavedInv'
      /\ \A d \in Cpus \ {c} : CpuInv(d)' /\ CalmInv(d)'
    BY OthersKept, Zenon
<1>2. \A d \in Cpus : CpuInv(d)' /\ CalmInv(d)'
    BY <1>1
<1> QED
    BY <1>1, <1>2, Zenon DEF SystemInv

\* Without a change of locks their owners stay.
LEMMA OwnersKept ==
    ASSUME LTypeOK, SystemInv, UNCHANGED <<owner, held, on>>
    PROVE  OwnerHolds'
    BY DEF SystemInv, OwnerHolds

-----------------------------------------------------------------------------
\* The processor that moves, before its step.
LEMMA Here ==
    ASSUME LTypeOK, SystemInv, NEW c \in Cpus
    PROVE  /\ CpuInv(c) /\ CalmInv(c) /\ on[c] \in Contexts /\ c \in Contexts
           /\ on[c] \in Threads => on[c] # c
           /\ ncli[c] \in Nat /\ ncli[c] = Depth(on[c])
           /\ ncli[c] = 0 <=> held[on[c]] = {} /\ nest[on[c]] = 0 /\ spin[on[c]] = NoLock
<1>1. CpuInv(c) /\ CalmInv(c) /\ on[c] \in Contexts /\ c \in Contexts
    BY LocksApart DEF SystemInv, LTypeOK
<1>2. ncli[c] = Depth(on[c])
    BY <1>1 DEF CpuInv
<1> QED
    BY <1>1, <1>2, Depths, LocksApart

\* pushcli() by a thread or a handler whose depth grows by one.
LEMMA Pushed ==
    ASSUME LTypeOK, SystemInv, NEW c \in Cpus, Pushcli(c),
           OfOneCpu(c), mode'[on[c]] = mode[on[c]], ready'[c] => ready[c],
           Depth(on[c])' = Depth(on[c]) + 1
    PROVE  CpuInv(c)'
<1>1. /\ CpuInv(c) /\ on'[c] = on[c] /\ on[c] \in Contexts
      /\ ncli[c] \in Nat /\ ncli[c] = Depth(on[c])
    BY Here DEF OfOneCpu
<1>2. /\ ncli'[c] = ncli[c] + 1 /\ ~intr'[c]
      /\ ncli[c] = 0 => intena'[c] = intr[c]
      /\ ncli[c] # 0 => intena'[c] = intena[c]
    BY DEF Pushcli, LTypeOK
<1>3. ncli'[c] = Depth(on[c])' /\ ncli'[c] # 0
    BY <1>1, <1>2
<1> QED
    BY <1>1, <1>2, <1>3 DEF CpuInv

\* popcli() by one whose depth shrinks by one.
LEMMA Popped ==
    ASSUME LTypeOK, SystemInv, NEW c \in Cpus, Popcli(c),
           OfOneCpu(c), mode'[on[c]] = mode[on[c]], ready' = ready,
           on[c] = c => mode[c] = "irq" \/ ~ready[c],
           Depth(on[c])' = Depth(on[c]) - 1
    PROVE  CpuInv(c)'
<1>1. /\ CpuInv(c) /\ on'[c] = on[c] /\ on[c] \in Contexts
      /\ ncli[c] \in Nat /\ ncli[c] = Depth(on[c])
    BY Here DEF OfOneCpu
<1>2. /\ ncli'[c] = ncli[c] - 1 /\ ncli[c] # 0 /\ intena'[c] = intena[c]
      /\ intr'[c] <=> ncli[c] = 1 /\ intena[c]
    BY DEF Popcli, AtLastPop, LTypeOK
<1>3. ncli'[c] = Depth(on[c])' /\ (ncli'[c] = 0 <=> ncli[c] = 1)
    BY <1>1, <1>2
<1>4. /\ mode[on[c]] = "irq" => ~intr'[c]
      /\ ncli'[c] # 0 => ~intr'[c]
      /\ ncli'[c] = 0 /\ on[c] \in Threads /\ mode[on[c]] = "normal" => intr'[c]
    BY <1>1, <1>2, <1>3 DEF CpuInv
<1> QED
    BY <1>1, <1>2, <1>3, <1>4 DEF CpuInv

-----------------------------------------------------------------------------
\* The steps of one processor.
LEMMA PushOnlyStep ==
    ASSUME LTypeOK, SystemInv, NEW c \in Cpus, PushOnly(c)
    PROVE  SystemInv'
<1> DEFINE x == on[c]
<1>1. /\ x \in Threads /\ x \in Contexts /\ x # c
      /\ nest' = [nest EXCEPT ![x] = @ + 1] /\ Pushcli(c)
      /\ UNCHANGED <<owner, on, held, spin, mode, saved, ready>>
    BY Here DEF PushOnly
<1>2. OfOneCpu(c)
    BY <1>1 DEF OfOneCpu, Pushcli, LTypeOK
<1>3. Depth(x)' = Depth(x) + 1
    <2>1. nest'[x] = nest[x] + 1
        BY <1>1 DEF LTypeOK
    <2> QED
        BY <1>1, <2>1, Depths DEF Depth
<1>4. CpuInv(c)'
    BY <1>1, <1>2, <1>3, Pushed
<1>5. CalmInv(c)'
    BY <1>1, Here DEF CalmInv, LTypeOK
<1>6. OwnerHolds'
    BY <1>1, OwnersKept
<1> QED
    BY <1>2, <1>4, <1>5, <1>6, OneCpuStep

LEMMA PopOnlyStep ==
    ASSUME LTypeOK, SystemInv, NEW c \in Cpus, PopOnly(c)
    PROVE  SystemInv'
<1> DEFINE x == on[c]
<1>1. /\ x \in Contexts /\ nest[x] > 0
      /\ nest' = [nest EXCEPT ![x] = @ - 1] /\ Popcli(c)
      /\ UNCHANGED <<owner, on, held, spin, mode, saved, ready>>
    BY Here DEF PopOnly
<1>2. x # c
    BY <1>1, Here DEF CalmInv
<1>3. OfOneCpu(c)
    BY <1>1 DEF OfOneCpu, Popcli, LTypeOK
<1>4. Depth(x)' = Depth(x) - 1
    <2>1. nest'[x] = nest[x] - 1 /\ nest[x] \in Nat
        BY <1>1 DEF LTypeOK
    <2> QED
        BY <1>1, <2>1, Depths DEF Depth
<1>5. CpuInv(c)'
    BY <1>1, <1>2, <1>3, <1>4, Popped
<1>6. CalmInv(c)'
    BY <1>1, <1>2, Here DEF CalmInv, LTypeOK
<1>7. OwnerHolds'
    BY <1>1, OwnersKept
<1> QED
    BY <1>3, <1>5, <1>6, <1>7, OneCpuStep

LEMMA AcquireStartStep ==
    ASSUME LTypeOK, SystemInv, NEW c \in Cpus, NEW l \in SpinLocks, AcquireStart(c, l)
    PROVE  SystemInv'
<1> DEFINE x == on[c]
<1>1. /\ x \in Contexts /\ (x \in Threads \/ mode[x] = "irq") /\ spin[x] = NoLock
      /\ l # NoLock /\ spin' = [spin EXCEPT ![x] = l] /\ Pushcli(c)
      /\ UNCHANGED <<owner, on, held, nest, mode, saved, ready>>
    BY Here, LocksApart DEF AcquireStart
<1>2. OfOneCpu(c)
    BY <1>1 DEF OfOneCpu, Pushcli, LTypeOK
<1>3. Depth(x)' = Depth(x) + 1
    <2>1. spin'[x] = l
        BY <1>1 DEF LTypeOK
    <2> QED
        BY <1>1, <2>1, Depths DEF Depth
<1>4. CpuInv(c)'
    BY <1>1, <1>2, <1>3, Pushed
<1>5. CalmInv(c)'
    BY <1>1, Here DEF CalmInv, LTypeOK
<1>6. OwnerHolds'
    BY <1>1, OwnersKept
<1> QED
    BY <1>2, <1>4, <1>5, <1>6, OneCpuStep

LEMMA SchedulerAcquireStep ==
    ASSUME LTypeOK, SystemInv, NEW c \in Cpus, SchedulerAcquire(c)
    PROVE  SystemInv'
<1>1. /\ on[c] = c /\ c \in Contexts /\ mode[c] = "normal" /\ ready[c]
      /\ ready' = [ready EXCEPT ![c] = FALSE]
      /\ spin' = [spin EXCEPT ![c] = PTable] /\ Pushcli(c)
      /\ UNCHANGED <<owner, on, held, nest, mode, saved>>
    BY Here DEF SchedulerAcquire
<1>2. held[c] = {} /\ spin[c] = NoLock
    BY <1>1, Here DEF CalmInv
<1>3. OfOneCpu(c)
    BY <1>1 DEF OfOneCpu, Pushcli, LTypeOK
<1>4. ~ready'[c] /\ spin'[c] = PTable /\ PTable # NoLock
    BY <1>1, LocksApart DEF LTypeOK
<1>5. Depth(c)' = Depth(c) + 1
    <2> DEFINE k == Cardinality(held[c])
    <2>1. Depth(c) = k + nest[c] + 0
        BY <1>2 DEF Depth
    <2>2. Depth(c)' = k + nest[c] + 1
        BY <1>1, <1>4 DEF Depth
    <2>3. k \in Nat /\ nest[c] \in Nat
        BY <1>1, Depths
    <2> HIDE DEF k
    <2> QED
        BY <2>1, <2>2, <2>3
<1>6. CpuInv(c)'
    BY <1>1, <1>3, <1>4, <1>5, Pushed
<1>7. CalmInv(c)'
    BY <1>1, <1>2, <1>4, Here DEF CalmInv
<1>8. OwnerHolds'
    BY <1>1, OwnersKept
<1> QED
    BY <1>3, <1>6, <1>7, <1>8, OneCpuStep

LEMMA AcquireStep ==
    ASSUME LTypeOK, SystemInv, NEW c \in Cpus, Acquire(c)
    PROVE  SystemInv'
<1> DEFINE x == on[c]
           l == spin[x]
<1>1. /\ x \in Contexts /\ l # NoLock /\ owner[l] = NoCpu
      /\ owner' = [owner EXCEPT ![l] = c]
      /\ held' = [held EXCEPT ![x] = @ \cup {l}]
      /\ spin' = [spin EXCEPT ![x] = NoLock]
      /\ UNCHANGED <<cpuVars, on, nest, mode, saved, ready>>
    BY Here DEF Acquire
<1>2. l \in SpinLocks
    BY <1>1 DEF LTypeOK
<1>3. OfOneCpu(c)
    BY <1>1 DEF OfOneCpu, cpuVars, LTypeOK
<1>4. \A d \in Cpus : l \notin held[on[d]]
    BY <1>1, <1>2, LocksApart DEF SystemInv, OwnerHolds
<1>5. held'[x] = held[x] \cup {l} /\ spin'[x] = NoLock /\ nest'[x] = nest[x]
    BY <1>1 DEF LTypeOK
<1>6. Depth(x)' = Depth(x)
    <2>1. IsFiniteSet(held[x]) /\ Cardinality(held[x]) \in Nat /\ l \notin held[x]
        BY <1>1, <1>4, Depths
    <2>2. Cardinality(held[x] \cup {l}) = Cardinality(held[x]) + 1
        BY <2>1, FS_AddElement
    <2> DEFINE k == Cardinality(held[x])
    <2>3. Depth(x) = k + nest[x] + 1
        BY <1>1 DEF Depth
    <2>4. Depth(x)' = (k + 1) + nest[x] + 0
        BY <1>1, <1>5, <2>2 DEF Depth
    <2>5. k \in Nat /\ nest[x] \in Nat
        BY <1>1, Depths
    <2> HIDE DEF k
    <2> QED
        BY <2>3, <2>4, <2>5
<1>7. CpuInv(c)'
    <2>1. UNCHANGED <<ncli, intena, intr, on, mode, ready>>
        BY <1>1 DEF cpuVars
    <2> QED
        BY <1>6, <2>1, Here DEF CpuInv
<1>8. CalmInv(c)'
    <2>1. CASE x = c
        BY <1>1, <1>5, <2>1, Here DEF CalmInv
    <2>2. CASE x # c
        BY <1>1, <2>2, Here DEF CalmInv, LTypeOK
    <2> QED
        BY <2>1, <2>2
<1>9. OwnerHolds'
    <2> SUFFICES ASSUME NEW d \in Cpus, NEW k \in SpinLocks
                 PROVE  owner'[k] = d <=> k \in held'[on[d]]
        BY <1>1 DEF OwnerHolds
    <2>1. owner[k] = d <=> k \in held[on[d]]
        BY DEF SystemInv, OwnerHolds
    <2>2. on[d] \in Contexts /\ (d # c => on[d] # x)
        BY DEF SystemInv, Apart, LTypeOK
    <2>3. d # c => held'[on[d]] = held[on[d]]
        BY <1>1, <2>2 DEF LTypeOK
    <2>4. owner'[k] = IF k = l THEN c ELSE owner[k]
        BY <1>1, <1>2 DEF LTypeOK
    <2> QED
        BY <1>4, <1>5, <2>1, <2>3, <2>4
<1> QED
    BY <1>3, <1>7, <1>8, <1>9, OneCpuStep

LEMMA ReleaseStep ==
    ASSUME LTypeOK, SystemInv, NEW c \in Cpus, NEW l \in SpinLocks, Release(c, l)
    PROVE  SystemInv'
<1> DEFINE x == on[c]
<1>1. /\ x \in Contexts /\ spin[x] = NoLock /\ l \in held[x]
      /\ owner' = [owner EXCEPT ![l] = NoCpu]
      /\ held' = [held EXCEPT ![x] = @ \ {l}] /\ Popcli(c)
      /\ UNCHANGED <<on, spin, nest, mode, saved, ready>>
    BY Here DEF Release
<1>2. OfOneCpu(c)
    BY <1>1 DEF OfOneCpu, Popcli, LTypeOK
<1>3. held'[x] = held[x] \ {l} /\ spin'[x] = spin[x] /\ nest'[x] = nest[x]
    BY <1>1 DEF LTypeOK
<1>4. Depth(x)' = Depth(x) - 1
    <2>1. IsFiniteSet(held[x]) /\ Cardinality(held[x]) \in Nat /\ nest[x] \in Nat
        BY <1>1, Depths
    <2>2. Cardinality(held[x] \ {l}) = Cardinality(held[x]) - 1
        BY <1>1, <2>1, FS_RemoveElement
    <2> DEFINE k == Cardinality(held[x])
    <2>3. Depth(x) = k + nest[x] + 0
        BY <1>1 DEF Depth
    <2>4. Depth(x)' = (k - 1) + nest[x] + 0
        BY <1>1, <1>3, <2>2 DEF Depth
    <2>5. k \in Nat /\ nest[x] \in Nat
        BY <1>1, Depths
    <2> HIDE DEF k
    <2> QED
        BY <2>3, <2>4, <2>5
<1>5. x = c => mode[c] = "irq" \/ ~ready[c]
    BY <1>1, Here DEF CalmInv
<1>6. CpuInv(c)'
    BY <1>1, <1>2, <1>4, <1>5, Popped
<1>7. CalmInv(c)'
    <2>1. CASE x = c
        BY <1>1, <1>3, <2>1, Here DEF CalmInv
    <2>2. CASE x # c
        BY <1>1, <2>2, Here DEF CalmInv, LTypeOK
    <2> QED
        BY <2>1, <2>2
<1>8. OwnerHolds'
    <2> SUFFICES ASSUME NEW d \in Cpus, NEW k \in SpinLocks
                 PROVE  owner'[k] = d <=> k \in held'[on[d]]
        BY <1>1 DEF OwnerHolds
    <2>1. (owner[k] = d <=> k \in held[on[d]]) /\ owner[l] = c
        BY <1>1 DEF SystemInv, OwnerHolds
    <2>2. on[d] \in Contexts /\ (d # c => on[d] # x)
        BY DEF SystemInv, Apart, LTypeOK
    <2>3. d # c => held'[on[d]] = held[on[d]]
        BY <1>1, <2>2 DEF LTypeOK
    <2>4. owner'[k] = IF k = l THEN NoCpu ELSE owner[k]
        BY <1>1 DEF LTypeOK
    <2> QED
        BY <1>3, <2>1, <2>3, <2>4, LocksApart
<1> QED
    BY <1>2, <1>6, <1>7, <1>8, OneCpuStep

LEMMA InterruptStep ==
    ASSUME LTypeOK, SystemInv, NEW c \in Cpus, Interrupt(c)
    PROVE  SystemInv'
<1> DEFINE x == on[c]
<1>1. /\ x \in Contexts /\ intr[c]
      /\ intr' = [intr EXCEPT ![c] = FALSE]
      /\ mode' = [mode EXCEPT ![x] = "irq"]
      /\ UNCHANGED <<owner, ncli, intena, on, held, spin, nest, saved, ready>>
    BY Here DEF Interrupt, ctxVars
<1>2. ncli[c] = 0 /\ mode'[x] = "irq" /\ ~intr'[c]
    BY <1>1, Here DEF CpuInv, LTypeOK
<1>3. OfOneCpu(c)
    BY <1>1 DEF OfOneCpu, LTypeOK
<1>4. CpuInv(c)'
    <2>1. Depth(x)' = Depth(x)
        BY <1>1 DEF Depth
    <2> QED
        BY <1>1, <1>2, <2>1, Here DEF CpuInv
<1>5. CalmInv(c)'
    <2>1. CASE x = c
        BY <1>1, <1>2, <2>1, Here DEF CalmInv
    <2>2. CASE x # c
        BY <1>1, <2>2, Here DEF CalmInv, LTypeOK
    <2> QED
        BY <2>1, <2>2
<1>6. OwnerHolds'
    BY <1>1, OwnersKept
<1> QED
    BY <1>3, <1>4, <1>5, <1>6, OneCpuStep

LEMMA IretStep ==
    ASSUME LTypeOK, SystemInv, NEW c \in Cpus, Iret(c)
    PROVE  SystemInv'
<1> DEFINE x == on[c]
<1>1. /\ x \in Contexts /\ held[x] = {} /\ spin[x] = NoLock /\ nest[x] = 0
      /\ intr' = [intr EXCEPT ![c] = TRUE]
      /\ mode' = [mode EXCEPT ![x] = "normal"]
      /\ UNCHANGED <<owner, ncli, intena, on, held, spin, nest, saved, ready>>
    BY Here DEF Iret, ctxVars
<1>2. ncli[c] = 0 /\ mode'[x] = "normal" /\ intr'[c]
    BY <1>1, Here DEF LTypeOK
<1>3. OfOneCpu(c)
    BY <1>1 DEF OfOneCpu, LTypeOK
<1>4. CpuInv(c)'
    <2>1. Depth(x)' = Depth(x)
        BY <1>1 DEF Depth
    <2> QED
        BY <1>1, <1>2, <2>1, Here DEF CpuInv
<1>5. CalmInv(c)'
    <2>1. CASE x = c
        BY <1>1, <1>2, <2>1, Here DEF CalmInv
    <2>2. CASE x # c
        BY <1>1, <2>2, Here DEF CalmInv, LTypeOK
    <2> QED
        BY <2>1, <2>2
<1>6. OwnerHolds'
    BY <1>1, OwnersKept
<1> QED
    BY <1>3, <1>4, <1>5, <1>6, OneCpuStep

LEMMA SchedulerStiStep ==
    ASSUME LTypeOK, SystemInv, NEW c \in Cpus, SchedulerSti(c)
    PROVE  SystemInv'
<1>1. /\ on[c] = c /\ c \in Contexts /\ mode[c] = "normal"
      /\ held[c] = {} /\ spin[c] = NoLock
      /\ ready' = [ready EXCEPT ![c] = TRUE]
      /\ intr' = [intr EXCEPT ![c] = TRUE]
      /\ UNCHANGED <<owner, ncli, intena, on, held, spin, nest, mode, saved>>
    BY Here DEF SchedulerSti, ctxVars
<1>2. nest[c] = 0 /\ ncli[c] = 0 /\ intr'[c]
    BY <1>1, Here DEF CalmInv, LTypeOK
<1>3. OfOneCpu(c)
    BY <1>1 DEF OfOneCpu, LTypeOK
<1>4. CpuInv(c)'
    <2>1. Depth(c)' = Depth(c)
        BY <1>1 DEF Depth
    <2> QED
        BY <1>1, <1>2, <2>1, Here DEF CpuInv
<1>5. CalmInv(c)'
    BY <1>1, <1>2, Here DEF CalmInv
<1>6. OwnerHolds'
    BY <1>1, OwnersKept
<1> QED
    BY <1>3, <1>4, <1>5, <1>6, OneCpuStep

-----------------------------------------------------------------------------
\* The two switches: the processor leaves the context a for b, with ptable.lock
\* in hand and nothing else, and b was on no processor.
Switch(c, a, b) ==
    /\ a # b /\ on[c] = a /\ Idle(b) /\ held[a] = {PTable} /\ ncli[c] = 1
    /\ on' = [on EXCEPT ![c] = b]
    /\ held' = [held EXCEPT ![a] = {}, ![b] = {PTable}]
    /\ UNCHANGED <<owner, ncli, intr, spin, nest>>

LEMMA Switched ==
    ASSUME LTypeOK, SystemInv, NEW c \in Cpus, NEW a \in Contexts, NEW b \in Contexts,
           Switch(c, a, b)
    PROVE  /\ Apart' /\ OwnerHolds' /\ IdleInv'
           /\ on'[c] = b /\ ncli'[c] = Depth(b)' /\ ~intr'[c]
           /\ \A x \in Contexts \ {a} : Idle(x)' => Idle(x) /\ x # b
           /\ spin[a] = NoLock /\ nest[a] = 0
<1>0. /\ a # b /\ on[c] = a /\ Idle(b) /\ held[a] = {PTable} /\ ncli[c] = 1
      /\ on' = [on EXCEPT ![c] = b]
      /\ held' = [held EXCEPT ![a] = {}, ![b] = {PTable}]
      /\ UNCHANGED <<owner, ncli, intr, spin, nest>>
    BY DEF Switch
<1>1. /\ on'[c] = b /\ (\A d \in Cpus \ {c} : on'[d] = on[d] /\ on[d] # a /\ on[d] # b)
      /\ \A d \in Cpus : on[d] \in Contexts
    BY <1>0 DEF SystemInv, Apart, Idle, LTypeOK
<1>2. held'[b] = {PTable} /\ held'[a] = {}
      /\ \A x \in Contexts \ {a, b} : held'[x] = held[x]
    BY <1>0 DEF LTypeOK
<1>3. spin[b] = NoLock /\ nest[b] = 0
    BY <1>0 DEF SystemInv, IdleInv
<1>4. Cardinality({PTable}) = 1
    BY FS_Singleton
<1>5. Depth(b)' = 1
    <2>1. Depth(b)' = Cardinality({PTable}) + 0 + 0
        BY <1>0, <1>2, <1>3 DEF Depth
    <2> QED
        BY <1>4, <2>1
<1>6. spin[a] = NoLock /\ nest[a] = 0
    <2>1. ncli[c] = Cardinality({PTable}) + nest[a] + (IF spin[a] = NoLock THEN 0 ELSE 1)
        BY <1>0 DEF SystemInv, CpuInv, Depth
    <2>2. nest[a] \in Nat
        BY DEF LTypeOK
    <2> QED
        BY <1>0, <1>4, <2>1, <2>2
<1>7. Apart'
    BY <1>1 DEF SystemInv, Apart
<1>8. OwnerHolds'
    <2> SUFFICES ASSUME NEW d \in Cpus, NEW k \in SpinLocks
                 PROVE  owner[k] = d <=> k \in held'[on'[d]]
        BY <1>0 DEF OwnerHolds
    <2>1. owner[k] = d <=> k \in held[on[d]]
        BY DEF SystemInv, OwnerHolds
    <2>2. CASE d = c
        BY <1>0, <1>1, <1>2, <2>1, <2>2
    <2>3. CASE d # c
        <3>1. on'[d] = on[d] /\ on[d] \in Contexts \ {a, b}
            BY <1>1, <2>3
        <3>2. held'[on'[d]] = held[on[d]]
            BY <1>2, <3>1
        <3> QED
            BY <2>1, <3>2
    <2> QED
        BY <2>2, <2>3
<1>9. \A x \in Contexts \ {a} : Idle(x)' => Idle(x) /\ x # b
    BY <1>0, <1>1 DEF Idle
<1>10. IdleInv'
    BY <1>0, <1>2, <1>6, <1>9 DEF SystemInv, IdleInv
<1>11. ~intr'[c]
    BY <1>0 DEF SystemInv, CpuInv
<1> QED
    BY <1>0, <1>1, <1>5, <1>6, <1>7, <1>8, <1>9, <1>10, <1>11

\* The other processors see nothing of a switch.
LEMMA OthersSwitched ==
    ASSUME LTypeOK, SystemInv, NEW c \in Cpus, NEW d \in Cpus \ {c},
           NEW a \in Contexts, NEW b \in Contexts,
           on[c] = a, Idle(b), b \in Threads \cup {c},
           on' = [on EXCEPT ![c] = b],
           \A x \in Contexts \ {a, b} : held'[x] = held[x] /\ mode'[x] = mode[x],
           intena'[d] = intena[d],
           UNCHANGED <<ncli, intr, spin, nest, ready>>
    PROVE  CpuInv(d)' /\ CalmInv(d)'
<1>1. /\ CpuInv(d) /\ CalmInv(d) /\ on'[d] = on[d] /\ on[d] \in Contexts \ {a, b}
    BY DEF SystemInv, Apart, Idle, LTypeOK
<1>2. Depth(on[d])' = Depth(on[d])
    BY <1>1 DEF Depth
<1>3. mode'[on[d]] = mode[on[d]] /\ intena'[d] = intena[d]
    BY <1>1
<1>4. CpuInv(d)'
    BY <1>1, <1>2, <1>3 DEF CpuInv
<1>5. d = a \/ d = b \/ (held'[d] = held[d] /\ mode'[d] = mode[d])
    BY LocksApart
<1>6. d # a /\ d # b
    BY LocksApart DEF SystemInv, CpuInv
<1>7. CalmInv(d)'
    BY <1>1, <1>5, <1>6 DEF CalmInv
<1> QED
    BY <1>4, <1>7

LEMMA DispatchStep ==
    ASSUME LTypeOK, SystemInv, NEW c \in Cpus, NEW t \in Threads, Dispatch(c, t)
    PROVE  SystemInv'
<1>1. /\ on[c] = c /\ held[c] = {PTable} /\ mode[c] = "normal" /\ Idle(t)
      /\ on' = [on EXCEPT ![c] = t]
      /\ held' = [held EXCEPT ![c] = {}, ![t] = {PTable}]
      /\ intena' = [intena EXCEPT ![c] = Restored(c, t)]
      /\ mode' = [mode EXCEPT ![t] = IF @ = "fresh" THEN "start" ELSE @]
      /\ UNCHANGED <<owner, ncli, intr, spin, nest, saved, ready>>
    BY DEF Dispatch, Idle
<1>2. c \in Contexts /\ t \in Contexts /\ c # t
    BY LocksApart
<1>3. spin[c] = NoLock /\ nest[c] = 0 /\ ~ready[c]
    BY <1>1, Here DEF CalmInv
<1>4. ncli[c] = 1
    <2>1. ncli[c] = Depth(c)
        BY <1>1, Here
    <2>2. Depth(c) = Cardinality({PTable}) + 0 + 0
        BY <1>1, <1>3 DEF Depth
    <2>3. Cardinality({PTable}) = 1
        BY FS_Singleton
    <2> QED
        BY <2>1, <2>2, <2>3
<1>5. /\ Apart' /\ OwnerHolds' /\ IdleInv'
      /\ on'[c] = t /\ ncli'[c] = Depth(t)' /\ ~intr'[c]
      /\ \A x \in Contexts \ {c} : Idle(x)' => Idle(x) /\ x # t
    <2>1. Switch(c, c, t)
        BY <1>1, <1>2, <1>4 DEF Switch
    <2> QED
        BY <1>2, <2>1, Switched
<1>6. /\ mode'[t] = IF mode[t] = "fresh" THEN "start" ELSE mode[t]
      /\ \A x \in Contexts \ {t} : mode'[x] = mode[x]
      /\ mode[t] \in {"fresh", "start", "normal", "irq"}
    BY <1>1, <1>2 DEF LTypeOK
<1>7. SavedInv'
    BY <1>1, <1>5, <1>6, LocksApart DEF SystemInv, SavedInv
<1>8. CpuInv(c)'
    <2>1. mode'[t] # "fresh"
        BY <1>6
    <2>2. /\ mode'[t] = "normal" => intena'[c]
          /\ mode'[t] = "irq" => ~intena'[c]
        <3>1. mode[t] # "fresh" => intena'[c] = saved[t]
            BY <1>1 DEF Restored, LTypeOK
        <3>2. (mode[t] = "normal" => saved[t]) /\ (mode[t] = "irq" => ~saved[t])
            BY <1>1 DEF SystemInv, SavedInv
        <3> QED
            BY <1>6, <3>1, <3>2
    <2>3. ncli'[c] = 1 /\ ~intr'[c] /\ on'[c] = t
        BY <1>1, <1>4, <1>5
    <2> QED
        BY <1>2, <1>5, <2>1, <2>2, <2>3 DEF CpuInv
<1>9. CalmInv(c)'
    <2>1. held'[c] = {} /\ mode'[c] = mode[c]
        BY <1>1, <1>2, <1>6 DEF LTypeOK
    <2> QED
        BY <1>1, <1>3, <2>1, Here DEF CalmInv
<1>10. ASSUME NEW d \in Cpus \ {c}
       PROVE  CpuInv(d)' /\ CalmInv(d)'
    <2>1. /\ \A x \in Contexts \ {c, t} : held'[x] = held[x] /\ mode'[x] = mode[x]
          /\ intena'[d] = intena[d]
        BY <1>1, <1>6 DEF LTypeOK
    <2> QED
        BY <1>1, <1>2, <2>1, OthersSwitched
<1>11. \A d \in Cpus : CpuInv(d)' /\ CalmInv(d)'
    BY <1>8, <1>9, <1>10
<1> QED
    BY <1>5, <1>7, <1>11, Zenon DEF SystemInv

LEMMA SchedStep ==
    ASSUME LTypeOK, SystemInv, NEW c \in Cpus, Sched(c)
    PROVE  SystemInv'
<1>0. PICK t \in Threads : on[c] = t
    BY DEF Sched
<1>1. /\ t \in Threads /\ on[c] = t /\ held[t] = {PTable} /\ ncli[c] = 1 /\ ~intr[c]
      /\ saved' = [saved EXCEPT ![t] = intena[c]]
      /\ on' = [on EXCEPT ![c] = c]
      /\ held' = [held EXCEPT ![t] = {}, ![c] = {PTable}]
      /\ UNCHANGED <<owner, ncli, intena, intr, spin, nest, mode, ready>>
    BY <1>0 DEF Sched, cpuVars
<1>2. c \in Contexts /\ t \in Contexts /\ c # t /\ t # c
    BY <1>1, LocksApart
<1>3. Idle(c)
    BY <1>1, LocksApart DEF SystemInv, CpuInv, Idle
<1>4. held[c] = {} /\ spin[c] = NoLock /\ nest[c] = 0 /\ ~ready[c]
    BY <1>1, <1>2, <1>3, Here DEF SystemInv, IdleInv, CalmInv
<1>5. /\ Apart' /\ OwnerHolds' /\ IdleInv'
      /\ on'[c] = c /\ ncli'[c] = Depth(c)' /\ ~intr'[c]
      /\ \A x \in Contexts \ {t} : Idle(x)' => Idle(x) /\ x # c
    <2>1. Switch(c, t, c)
        BY <1>1, <1>2, <1>3 DEF Switch
    <2> QED
        BY <1>2, <2>1, Switched
<1>6. /\ mode[t] = "normal" => intena[c]
      /\ mode[t] = "irq" => ~intena[c]
    BY <1>1, Here DEF CpuInv
<1>7. SavedInv'
    <2>1. saved'[t] = intena[c] /\ \A x \in Threads \ {t} : saved'[x] = saved[x]
        BY <1>1 DEF LTypeOK
    <2> QED
        BY <1>1, <1>5, <1>6, <2>1, LocksApart DEF SystemInv, SavedInv
<1>8. CpuInv(c)'
    <2>1. mode'[c] = mode[c] /\ mode[c] = "normal" /\ c \notin Threads
        BY <1>1, <1>2, Here, LocksApart DEF CalmInv
    <2>2. ncli'[c] # 0 /\ ~ready'[c]
        BY <1>1, <1>4
    <2> QED
        BY <1>5, <2>1, <2>2 DEF CpuInv
<1>9. CalmInv(c)'
    BY <1>1, <1>4, Here DEF CalmInv
<1>10. ASSUME NEW d \in Cpus \ {c}
       PROVE  CpuInv(d)' /\ CalmInv(d)'
    <2>1. \A x \in Contexts \ {t, c} : held'[x] = held[x] /\ mode'[x] = mode[x]
        BY <1>1 DEF LTypeOK
    <2> QED
        BY <1>1, <1>2, <1>3, <2>1, OthersSwitched
<1>11. \A d \in Cpus : CpuInv(d)' /\ CalmInv(d)'
    BY <1>8, <1>9, <1>10
<1> QED
    BY <1>5, <1>7, <1>11, Zenon DEF SystemInv

-----------------------------------------------------------------------------
LEMMA LocksSteps ==
    ASSUME LNext
    PROVE  \E c \in Cpus :
              \/ PushOnly(c) \/ PopOnly(c)
              \/ \E l \in SpinLocks : AcquireStart(c, l) \/ Release(c, l)
              \/ Acquire(c) \/ Interrupt(c) \/ Iret(c)
              \/ SchedulerSti(c) \/ SchedulerAcquire(c)
              \/ \E t \in Threads : Dispatch(c, t)
              \/ Sched(c)
    BY DEF LNext

\* The types are kept: popcli() does not go below zero.
THEOREM LocksTypePreserved ==
    ASSUME LTypeOK, SystemInv, [LNext]_lvars
    PROVE  LTypeOK'
<1>0. /\ PTable \in SpinLocks /\ \A c \in Cpus : c \in Contexts /\ on[c] \in Contexts
      /\ \A t \in Threads : t \in Contexts
    BY LocksApart DEF LTypeOK
<1>1. ASSUME NEW c \in Cpus, Pushcli(c)
      PROVE  /\ ncli' \in [Cpus -> Nat] /\ intena' \in [Cpus -> BOOLEAN]
             /\ intr' \in [Cpus -> BOOLEAN]
    BY <1>1 DEF Pushcli, LTypeOK
<1>2. ASSUME NEW c \in Cpus, Popcli(c)
      PROVE  /\ ncli' \in [Cpus -> Nat] /\ intena' \in [Cpus -> BOOLEAN]
             /\ intr' \in [Cpus -> BOOLEAN]
    <2>1. ncli' \in [Cpus -> Nat] /\ intena' \in [Cpus -> BOOLEAN]
        BY <1>2 DEF Popcli, LTypeOK
    <2>2. AtLastPop(c) \in BOOLEAN
        BY Zenon DEF AtLastPop
    <2>3. intr' \in [Cpus -> BOOLEAN]
        BY <1>2, <2>2 DEF Popcli, LTypeOK
    <2> QED
        BY <2>1, <2>3
<1>3. ASSUME NEW c \in Cpus, PushOnly(c) \/ PopOnly(c)
      PROVE  LTypeOK'
    <2>1. nest[on[c]] \in Nat /\ (PopOnly(c) => nest[on[c]] > 0)
        BY <1>0 DEF PopOnly, LTypeOK
    <2>2. \E n \in Nat : nest' = [nest EXCEPT ![on[c]] = n]
        BY <1>0, <1>3, <2>1 DEF PushOnly, PopOnly
    <2>3. nest' \in [Contexts -> Nat]
        BY <1>0, <2>2 DEF LTypeOK
    <2> QED
        BY <1>1, <1>2, <1>3, <2>3 DEF PushOnly, PopOnly, LTypeOK
<1>4. ASSUME NEW c \in Cpus, NEW l \in SpinLocks, AcquireStart(c, l)
      PROVE  LTypeOK'
    BY <1>0, <1>1, <1>4 DEF AcquireStart, LTypeOK
<1>5. ASSUME NEW c \in Cpus, NEW l \in SpinLocks, Release(c, l)
      PROVE  LTypeOK'
    BY <1>0, <1>2, <1>5 DEF Release, LTypeOK
<1>6. ASSUME NEW c \in Cpus, Acquire(c)
      PROVE  LTypeOK'
    BY <1>0, <1>6 DEF Acquire, cpuVars, LTypeOK
<1>7. ASSUME NEW c \in Cpus, Interrupt(c) \/ Iret(c) \/ SchedulerSti(c)
      PROVE  LTypeOK'
    BY <1>0, <1>7 DEF Interrupt, Iret, SchedulerSti, ctxVars, LTypeOK
<1>8. ASSUME NEW c \in Cpus, SchedulerAcquire(c)
      PROVE  LTypeOK'
    BY <1>0, <1>1, <1>8 DEF SchedulerAcquire, LTypeOK
<1>9. ASSUME NEW c \in Cpus, NEW t \in Threads, Dispatch(c, t)
      PROVE  LTypeOK'
    <2>1. Restored(c, t) \in BOOLEAN
        BY DEF Restored, LTypeOK
    <2>2. intena' \in [Cpus -> BOOLEAN]
        BY <1>9, <2>1 DEF Dispatch, LTypeOK
    <2>3. /\ on' \in [Cpus -> Contexts] /\ held' \in [Contexts -> SUBSET SpinLocks]
          /\ mode' \in [Contexts -> {"fresh", "start", "normal", "irq"}]
        BY <1>0, <1>9 DEF Dispatch, LTypeOK
    <2> QED
        BY <1>9, <2>2, <2>3 DEF Dispatch, LTypeOK
<1>10. ASSUME NEW c \in Cpus, Sched(c)
       PROVE  LTypeOK'
    <2>1. saved' \in [Threads -> BOOLEAN]
        BY <1>10 DEF Sched, LTypeOK
    <2>2. on' \in [Cpus -> Contexts] /\ held' \in [Contexts -> SUBSET SpinLocks]
        BY <1>0, <1>10 DEF Sched, LTypeOK
    <2> QED
        BY <1>10, <2>1, <2>2 DEF Sched, cpuVars, LTypeOK
<1>11. CASE UNCHANGED lvars
    BY <1>11 DEF lvars, cpuVars, ctxVars, LTypeOK
<1> QED
    BY <1>3, <1>4, <1>5, <1>6, <1>7, <1>8, <1>9, <1>10, <1>11, LocksSteps

\* A step that changes nothing.
LEMMA LocksStutter ==
    ASSUME SystemInv, UNCHANGED lvars
    PROVE  SystemInv'
<1>1. /\ UNCHANGED <<owner, ncli, intena, intr, on>>
      /\ UNCHANGED <<held, spin, nest, mode, saved, ready>>
    BY DEF lvars, cpuVars, ctxVars
<1>2. \A x : Depth(x)' = Depth(x)
    BY <1>1 DEF Depth
<1>3. \A c \in Cpus : CpuInv(c)' /\ CalmInv(c)'
    BY <1>1, <1>2 DEF SystemInv, CpuInv, CalmInv
<1>4. Apart' /\ OwnerHolds' /\ IdleInv' /\ SavedInv'
    BY <1>1 DEF SystemInv, Apart, OwnerHolds, IdleInv, SavedInv, Idle
<1> QED
    BY <1>3, <1>4, Zenon DEF SystemInv

THEOREM LocksPreserved ==
    ASSUME LTypeOK, SystemInv, [LNext]_lvars
    PROVE  SystemInv'
    BY LocksSteps, PushOnlyStep, PopOnlyStep, AcquireStartStep, ReleaseStep, AcquireStep,
       InterruptStep, IretStep, SchedulerStiStep, SchedulerAcquireStep, DispatchStep,
       SchedStep, LocksStutter

THEOREM LocksInit == LInit => LocksIInv
<1> SUFFICES ASSUME LInit PROVE LTypeOK /\ SystemInv
    BY LocksRegrouped
<1>1. LTypeOK
    BY LocksApart DEF LInit, LTypeOK
<1>2. /\ on = [c \in Cpus |-> c] /\ \A c \in Cpus : c \in Contexts /\ c \notin Threads
      /\ \A c \in Cpus : mode[c] = "normal" /\ held[c] = {} /\ spin[c] = NoLock
                         /\ nest[c] = 0 /\ ncli[c] = 0 /\ ~intr[c] /\ ~ready[c]
    BY LocksApart DEF LInit
<1>3. \A c \in Cpus : CpuInv(c) /\ CalmInv(c)
    <2>1. \A c \in Cpus : Depth(c) = 0
        BY <1>1, <1>2, Depths
    <2> QED
        BY <1>2, <2>1 DEF CpuInv, CalmInv
<1>4. Apart /\ OwnerHolds /\ IdleInv /\ SavedInv
    BY <1>2, LocksApart DEF LInit, Apart, OwnerHolds, IdleInv, SavedInv
<1> QED
    BY <1>1, <1>3, <1>4 DEF SystemInv

\* Who holds a spin lock is not interrupted, and the interrupt flag of a thread
\* follows it from processor to processor (spinlock.c:28, 101-103, proc.c:359-363).
THEOREM LocksInvariant == LSpec => []LocksIInv
<1>1. LocksIInv /\ [LNext]_lvars => LocksIInv'
    BY LocksRegrouped, LocksRegroupedPrime, LocksTypePreserved, LocksPreserved
<1> QED
    BY LocksInit, <1>1, PTL DEF LSpec

\* One processor at a time is between acquire() and release() of a lock, whichever
\* context it runs (spinlock.c:24-44, proc.c:330-392).
Holders(l) == {c \in Cpus : l \in held[on[c]]}
THEOREM MutualExclusion ==
    LSpec => [](\A l \in SpinLocks : \A c, d \in Holders(l) : c = d)
<1>1. LocksIInv => \A l \in SpinLocks : \A c, d \in Holders(l) : c = d
    BY DEF LocksIInv, OwnerHolds, Holders
<1> QED
    BY LocksInvariant, <1>1, PTL
=============================================================================
