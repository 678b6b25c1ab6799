-------------------------------- MODULE Clock -------------------------------
(***************************************************************************)
(* The clock: the timer interrupt, the processes that sleep for a number of*)
(* ticks (sys_sleep) and kill().  ticks is unsigned and wraps; n is signed,*)
(* and compared as if it were not.                                         *)
(***************************************************************************)
EXTENDS Integers

CONSTANTS
    Sleepers, NoSleeper,
    WORD,                 \* first number that ticks does not hold
    Naps,                 \* arguments of sleep()
    Late                  \* ticks a runnable process may have to wait, at most

ASSUME ClockAssumption ==
    /\ NoSleeper \notin Sleepers
    /\ WORD \in Nat \ {0} /\ Late \in Nat
    /\ Naps \subseteq Int /\ \A n \in Naps : -(WORD \div 2) <= n /\ n < WORD \div 2

VARIABLES
    ticks,
    tickslock,            \* the process that holds it
    nap,                  \* pc, n and ticks0 of sys_sleep()
    passed,               \* ticks since a process called sleep() (a history)
    behind,               \* ticks since it was last able to run (a history)
    felled                \* processes that have been killed

kvars == <<ticks, tickslock, nap, passed, behind, felled>>

Awake == [pc |-> "awake", n |-> 0, ticks0 |-> 0]

KInit ==
    /\ ticks = 0 /\ tickslock = NoSleeper
    /\ nap    = [p \in Sleepers |-> Awake]
    /\ passed = [p \in Sleepers |-> 0]
    /\ behind = [p \in Sleepers |-> 0]
    /\ felled = {}

Asleep(p)   == nap[p].pc = "asleep"
Sleeping(p) == nap[p].pc \notin {"awake", "slept"}

\* trap(), on CPU 0: every sleeper is woken.  The history is not counted past WORD.
Tick ==
    /\ tickslock = NoSleeper
    /\ \A p \in Sleepers : Sleeping(p) => behind[p] < Late
    /\ ticks' = (ticks + 1) % WORD
    /\ nap' = [p \in Sleepers |-> IF Asleep(p) THEN [nap[p] EXCEPT !.pc = "woken"] ELSE nap[p]]
    /\ passed' = [p \in Sleepers |->
                    IF Sleeping(p) /\ passed[p] < WORD THEN passed[p] + 1 ELSE passed[p]]
    /\ behind' = [p \in Sleepers |-> IF Sleeping(p) /\ ~Asleep(p) THEN behind[p] + 1 ELSE 0]
    /\ UNCHANGED <<tickslock, felled>>

\* sys_sleep(): ticks0, and the comparison, each time it has tickslock.
Unsigned(n) == n % WORD
Elapsed(p)  == (ticks - nap[p].ticks0) % WORD
PastIt(p)   == ticks >= nap[p].ticks0 + nap[p].n      \* mutant: no care for wrapping
Over(p)     == Elapsed(p) >= nap[p].n

Sleep(p, n) ==
    /\ nap[p].pc = "awake" /\ tickslock = NoSleeper
    /\ tickslock' = p
    /\ nap' = [nap EXCEPT ![p] = [pc |-> "look", n |-> Unsigned(n), ticks0 |-> ticks]]
    /\ passed' = [passed EXCEPT ![p] = 0]
    /\ UNCHANGED <<ticks, behind, felled>>

Slept(p) ==
    /\ nap[p].pc = "look"
    /\ Over(p)
    /\ nap' = [nap EXCEPT ![p].pc = "slept"]
    /\ tickslock' = NoSleeper
    /\ UNCHANGED <<ticks, passed, behind, felled>>

Broken(p) ==
    /\ nap[p].pc = "look" /\ ~Over(p) /\ p \in felled
    /\ nap' = [nap EXCEPT ![p] = Awake]
    /\ tickslock' = NoSleeper
    /\ UNCHANGED <<ticks, passed, behind, felled>>

\* sleep() gives tickslock up; kill() may come before.
StaysAwhile(p) ==
    /\ nap[p].pc = "look" /\ ~Over(p) /\ p \notin felled
    /\ nap' = [nap EXCEPT ![p].pc = "sleep"]
    /\ UNCHANGED <<ticks, tickslock, passed, behind, felled>>

GoesToSleep(p) ==
    /\ nap[p].pc = "sleep"
    /\ nap' = [nap EXCEPT ![p].pc = "asleep"]
    /\ tickslock' = NoSleeper
    /\ behind' = [behind EXCEPT ![p] = 0]
    /\ UNCHANGED <<ticks, passed, felled>>

WakesUp(p) ==
    /\ nap[p].pc = "woken" /\ tickslock = NoSleeper
    /\ tickslock' = p
    /\ nap' = [nap EXCEPT ![p].pc = "look"]
    /\ UNCHANGED <<ticks, passed, behind, felled>>

ReturnSlept(p) ==
    /\ nap[p].pc = "slept"
    /\ nap' = [nap EXCEPT ![p] = Awake]
    /\ UNCHANGED <<ticks, tickslock, passed, behind, felled>>

KillSleeper(p) ==
    /\ p \notin felled
    /\ felled' = felled \cup {p}
    /\ nap' = IF Asleep(p) THEN [nap EXCEPT ![p].pc = "woken"] ELSE nap
    /\ UNCHANGED <<ticks, tickslock, passed, behind>>

SleeperReplaced(p) ==
    /\ p \in felled /\ nap[p].pc = "awake"
    /\ felled' = felled \ {p}
    /\ UNCHANGED <<ticks, tickslock, nap, passed, behind>>

KNext ==
    \/ Tick
    \/ \E p \in Sleepers :
          \/ \E n \in Naps : Sleep(p, n)
          \/ Slept(p) \/ Broken(p) \/ StaysAwhile(p) \/ GoesToSleep(p) \/ WakesUp(p)
          \/ ReturnSlept(p) \/ KillSleeper(p) \/ SleeperReplaced(p)

KSpec == KInit /\ [][KNext]_kvars

-----------------------------------------------------------------------------
KTypeOK ==
    /\ ticks \in 0 .. WORD - 1
    /\ tickslock \in Sleepers \cup {NoSleeper}
    /\ nap \in [Sleepers -> [pc : {"awake", "look", "sleep", "asleep", "woken", "slept"},
                             n : 0 .. WORD - 1, ticks0 : 0 .. WORD - 1]]
    /\ passed \in [Sleepers -> 0 .. WORD] /\ behind \in [Sleepers -> 0 .. Late]
    /\ felled \subseteq Sleepers

\* tickslock is held from the comparison to the return or the sleep.
LockHeld == \A p \in Sleepers : tickslock = p <=> nap[p].pc \in {"look", "sleep"}

\* The difference that sys_sleep() computes is the time that has passed, whether or
\* not ticks has wrapped, as long as it fits into a word.
Counted ==
    \A p \in Sleepers :
        Sleeping(p) => passed[p] >= WORD \/ Elapsed(p) = passed[p]

\* sleep(n) returns 0 after n ticks or more, also when ticks wraps on the way ...
SleepsEnough == \A p \in Sleepers : nap[p].pc = "slept" => passed[p] >= nap[p].n

\* ... and no later than it is scheduled: one that is asleep has not had its n ticks,
\* and one that returns has waited for the processor, at most, besides.
InTime ==
    \A p \in Sleepers :
        nap[p].n + Late < WORD =>
            /\ nap[p].pc \in {"asleep", "sleep"} => passed[p] < nap[p].n
            /\ nap[p].pc \in {"woken", "look"}   => passed[p] <= nap[p].n + behind[p]
            /\ nap[p].pc = "slept"               => passed[p] <= nap[p].n + Late

ClockIInv == KTypeOK /\ LockHeld /\ Counted /\ SleepsEnough /\ InTime
=============================================================================
