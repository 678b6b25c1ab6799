-------------------------------- MODULE Proc --------------------------------
(***************************************************************************)
(* The process table of proc.c: allocproc, fork, exit, wait, kill, sleep,  *)
(* wakeup, yield and the per-CPU scheduler, with the part of trap.c that   *)
(* decides when a killed process dies.                                     *)
(*                                                                         *)
(* Several CPUs run kernel threads.  ptable.lock is explicit because it is *)
(* held ACROSS the context switch: a thread acquires it, changes its state *)
(* and calls sched(); the scheduler of that CPU goes on with its loop and  *)
(* the next thread it dispatches is the one that releases it.  A critical  *)
(* section that does not switch is one action.  The writes proc.c makes to *)
(* the table without the lock (a fork that fails, the parent of the child, *)
(* a fault that kills its own process) are actions of their own.           *)
(***************************************************************************)
EXTENDS Naturals

CONSTANTS
    NPROC,     \* slots of ptable.proc
    CPUs,      \* the processors that run scheduler()
    NoCpu,     \* ptable.lock is free
    Chans,     \* sleep channels that are not process addresses
    KillPids,  \* arguments user programs pass to kill()
    MaxPid     \* bound: fork is not tried once nextpid exceeds it

Procs    == 1 .. NPROC
initproc == 1                   \* userinit() runs first and gets the first slot
Null     == 0                   \* the null pointer: no process, no channel

\* Nobody kills init (exit() panics on it), and pids stay below 2^31.
ASSUME ProcAssumption ==
    /\ NPROC \in Nat /\ NPROC >= 1
    /\ NoCpu \notin CPUs
    /\ Chans \cap (Procs \cup {Null}) = {}
    /\ KillPids \subseteq Nat /\ 1 \notin KillPids
    /\ MaxPid \in Nat

VARIABLES
    state, pid, parent, chan, killed,  \* struct proc
    pc,      \* where the process is: user code or a point of a system call
    ctx,     \* where p->context resumes: forkret, in yield(), in sleep()
    np,      \* the slot fork() is filling in
    cproc,   \* cpu -> the process it runs (c->proc)
    pos,     \* cpu -> the loop variable p of scheduler()
    ptlock,  \* the CPU holding ptable.lock
    nextpid

procVars == <<state, pid, parent, chan, killed>>
vars     == <<procVars, pc, ctx, np, cproc, pos, ptlock, nextpid>>

States == {"UNUSED", "EMBRYO", "SLEEPING", "RUNNABLE", "RUNNING", "ZOMBIE"}
Alive  == {"SLEEPING", "RUNNABLE", "RUNNING"}
Points == {"user", "syscall", "fork1", "fork2", "wait", "block", "ret", "exit"}

TypeOK ==
    /\ state   \in [Procs -> States]
    /\ pid     \in [Procs -> Nat]
    /\ parent  \in [Procs -> Procs \cup {Null}]
    /\ chan    \in [Procs -> Procs \cup Chans \cup {Null}]
    /\ killed  \in [Procs -> BOOLEAN]
    /\ pc      \in [Procs -> Points]
    /\ ctx     \in [Procs -> {"forkret", "yield", "sleep"}]
    /\ np      \in [Procs -> Procs \cup {Null}]
    /\ cproc   \in [CPUs -> Procs \cup {Null}]
    /\ pos     \in [CPUs -> 1 .. NPROC + 1]
    /\ ptlock  \in CPUs \cup {NoCpu}
    /\ nextpid \in Nat

\* After userinit(): one RUNNABLE process, every CPU about to enter scheduler().
Init ==
    /\ state   = [p \in Procs |-> IF p = initproc THEN "RUNNABLE" ELSE "UNUSED"]
    /\ pid     = [p \in Procs |-> IF p = initproc THEN 1 ELSE 0]
    /\ parent  = [p \in Procs |-> Null]
    /\ chan    = [p \in Procs |-> Null]
    /\ killed  = [p \in Procs |-> FALSE]
    /\ pc      = [p \in Procs |-> "user"]
    /\ ctx     = [p \in Procs |-> "forkret"]
    /\ np      = [p \in Procs |-> Null]
    /\ cproc   = [c \in CPUs |-> Null]
    /\ pos     = [c \in CPUs |-> NPROC + 1]
    /\ ptlock  = NoCpu
    /\ nextpid = 2

-----------------------------------------------------------------------------
(***************************************************************************)
(* Helpers.                                                                *)
(***************************************************************************)

\* The slot of S (if any) that a loop over ptable.proc comes to first.
First(S) == {p \in S : \A q \in S : p <= q}

Slots(s)    == {p \in Procs : state[p] = s}
Children(p) == {q \in Procs : parent[q] = p}
Zombies(p)  == {q \in Children(p) : state[q] = "ZOMBIE"}

\* wakeup1(): the state function once everyone asleep on a channel of S is awake.
Wakeup1(S) ==
    [p \in Procs |-> IF state[p] = "SLEEPING" /\ chan[p] \in S
                     THEN "RUNNABLE" ELSE state[p]]

\* CPU c executes process p, which is at point w and does not hold the lock.
At(c, p, w) == cproc[c] = p /\ ptlock # c /\ pc[p] = w

\* CPU c has just been switched to process p, which still holds the lock.
Resumed(c, p) == cproc[c] = p /\ ptlock = c /\ state[p] = "RUNNING"

Goto(p, w) == pc' = [pc EXCEPT ![p] = w]
Acquire    == ptlock = NoCpu

\* Acquire ptable.lock and take it along into sched().
ToSchedUnlocked(c) == ptlock' = NoCpu       \* mutant: released before the switch
ToSched(c)         == ptlock' = c

\* nextpid++ under the lock.
SamePid == nextpid                          \* mutant: the increment is lost
NextPid == nextpid + 1

-----------------------------------------------------------------------------
(***************************************************************************)
(* trap(): system call entry and return, faults, the timer.                *)
(***************************************************************************)

\* A trap from user space: exit() if killed, else (INT T_SYSCALL) syscall().
TrapEnter(c, p) ==
    /\ At(c, p, "user")
    /\ Goto(p, IF killed[p] THEN "exit" ELSE "syscall")
    /\ UNCHANGED <<procVars, ctx, np, cproc, pos, ptlock, nextpid>>

TrapReturn(c, p) ==
    /\ At(c, p, "ret")
    /\ Goto(p, IF killed[p] THEN "exit" ELSE "user")
    /\ UNCHANGED <<procVars, ctx, np, cproc, pos, ptlock, nextpid>>

\* User code misbehaves: trap() kills the current process, without ptable.lock.
Fault(c, p) ==
    /\ At(c, p, "user")
    /\ p # initproc
    /\ killed' = [killed EXCEPT ![p] = TRUE]
    /\ Goto(p, "exit")
    /\ UNCHANGED <<state, pid, parent, chan, ctx, np, cproc, pos, ptlock, nextpid>>

\* The clock tick makes the running process call yield(), in user or kernel
\* mode; a killed process caught in user mode exits instead (TrapEnter).
Yield(c, p) ==
    /\ cproc[c] = p
    /\ state[p] = "RUNNING"
    /\ ~(pc[p] = "user" /\ killed[p])
    /\ Acquire
    /\ ToSched(c)
    /\ state'  = [state EXCEPT ![p] = "RUNNABLE"]
    /\ ctx'    = [ctx EXCEPT ![p] = "yield"]
    /\ UNCHANGED <<pid, parent, chan, killed, pc, np, cproc, pos, nextpid>>

-----------------------------------------------------------------------------
(***************************************************************************)
(* fork(): allocproc under the lock, then the copy without it, then        *)
(* RUNNABLE under the lock.                                                *)
(***************************************************************************)

\* allocproc() up to its release: returns 0 when the table is full.
ForkAlloc(c, p) ==
    /\ At(c, p, "syscall")
    /\ Acquire
    /\ nextpid <= MaxPid
    /\ \/ /\ Slots("UNUSED") = {}
          /\ Goto(p, "ret")
          /\ UNCHANGED <<state, pid, np, nextpid>>
       \/ /\ \E q \in First(Slots("UNUSED")) :
                /\ state' = [state EXCEPT ![q] = "EMBRYO"]
                /\ pid'   = [pid EXCEPT ![q] = nextpid]
                /\ np'    = [np EXCEPT ![p] = q]
          /\ nextpid' = NextPid
          /\ Goto(p, "fork1")
    /\ UNCHANGED <<parent, chan, killed, ctx, cproc, pos, ptlock>>

\* kalloc() or copyuvm() found no page: the slot is given back, pid and all,
\* without the lock.
ForkFail(c, p) ==
    /\ At(c, p, "fork1")
    /\ state' = [state EXCEPT ![np[p]] = "UNUSED"]
    /\ np'    = [np EXCEPT ![p] = Null]
    /\ Goto(p, "ret")
    /\ UNCHANGED <<pid, parent, chan, killed, ctx, cproc, pos, ptlock, nextpid>>

ForkCopy(c, p) ==
    /\ At(c, p, "fork1")
    /\ parent' = [parent EXCEPT ![np[p]] = p]
    /\ Goto(p, "fork2")
    /\ UNCHANGED <<state, pid, chan, killed, ctx, np, cproc, pos, ptlock, nextpid>>

ForkReady(c, p) ==
    /\ At(c, p, "fork2")
    /\ Acquire
    /\ state' = [state EXCEPT ![np[p]] = "RUNNABLE"]
    /\ ctx'   = [ctx EXCEPT ![np[p]] = "forkret"]
    /\ pc'    = [pc EXCEPT ![p] = "ret", ![np[p]] = "user"]
    /\ np'    = [np EXCEPT ![p] = Null]
    /\ UNCHANGED <<pid, parent, chan, killed, cproc, pos, ptlock, nextpid>>

-----------------------------------------------------------------------------
(***************************************************************************)
(* exit(), wait(), kill(), sleep(), wakeup().                              *)
(***************************************************************************)

SysExit(c, p) ==
    /\ At(c, p, "syscall")
    /\ p # initproc
    /\ Goto(p, "exit")
    /\ UNCHANGED <<procVars, ctx, np, cproc, pos, ptlock, nextpid>>

\* The channels exit() wakes: its parent, and init if it inherits a ZOMBIE.
NobodyWoken(p) == {}                        \* mutant: no wakeup at all
ExitWakes(p)  == {parent[p]} \cup (IF Zombies(p) = {} THEN {} ELSE {initproc})

\* Pass abandoned children to init.
Abandoned(p)  == parent                     \* mutant: the loop is missing
Inherited(p)  == [q \in Procs |-> IF parent[q] = p THEN initproc ELSE parent[q]]

\* exit() once the files are closed: wake whoever waits for this, give the
\* children to init, become a ZOMBIE and go to sched() with the lock.
ExitZombie(c, p) ==
    /\ At(c, p, "exit")
    /\ p # initproc
    /\ Acquire
    /\ ToSched(c)
    /\ state'  = [Wakeup1(ExitWakes(p)) EXCEPT ![p] = "ZOMBIE"]
    /\ parent' = Inherited(p)
    /\ UNCHANGED <<pid, chan, killed, pc, ctx, np, cproc, pos, nextpid>>

\* One round of the loop of wait(), entered and left with the lock held by c.
WaitReap(p) ==
    /\ \E q \in First(Zombies(p)) :
          /\ state'  = [state EXCEPT ![q] = "UNUSED"]
          /\ pid'    = [pid EXCEPT ![q] = 0]
          /\ parent' = [parent EXCEPT ![q] = Null]
          /\ killed' = [killed EXCEPT ![q] = FALSE]
    /\ Goto(p, "ret")
    /\ ptlock' = NoCpu
    /\ chan'   = [chan EXCEPT ![p] = Null]
    /\ UNCHANGED ctx

WaitFail(p) ==
    /\ Zombies(p) = {}
    /\ Children(p) = {} \/ killed[p]
    /\ Goto(p, "ret")
    /\ ptlock' = NoCpu
    /\ chan'   = [chan EXCEPT ![p] = Null]
    /\ UNCHANGED <<state, pid, parent, killed, ctx>>

WaitSleep(c, p) ==
    /\ Zombies(p) = {}
    /\ Children(p) # {} /\ ~killed[p]
    /\ state'  = [state EXCEPT ![p] = "SLEEPING"]
    /\ chan'   = [chan EXCEPT ![p] = p]
    /\ ctx'    = [ctx EXCEPT ![p] = "sleep"]
    /\ Goto(p, "wait")
    /\ ptlock' = c
    /\ UNCHANGED <<pid, parent, killed>>

\* wait() when called, and again each time sleep() returns with the lock.
Wait(c, p) ==
    /\ \/ At(c, p, "syscall") /\ Acquire
       \/ Resumed(c, p) /\ pc[p] = "wait"
    /\ WaitReap(p) \/ WaitFail(p) \/ WaitSleep(c, p)
    /\ UNCHANGED <<np, cproc, pos, nextpid>>

\* What kill() makes of the state of the process it marks.
AnyRunnable(q) == "RUNNABLE"                \* mutant: the test for SLEEPING is lost
NotWoken(q)    == state[q]                  \* mutant: the sleeper stays asleep
Killed(q)      == IF state[q] = "SLEEPING" THEN "RUNNABLE" ELSE state[q]

\* kill(k): the first slot whose pid is k, whatever its state.
Kill(c, p, k) ==
    /\ At(c, p, "syscall")
    /\ Acquire
    /\ \/ /\ \A q \in Procs : pid[q] # k
          /\ UNCHANGED <<state, killed>>
       \/ \E q \in First({r \in Procs : pid[r] = k}) :
             /\ killed' = [killed EXCEPT ![q] = TRUE]
             /\ state'  = [state EXCEPT ![q] = Killed(q)]
    /\ Goto(p, "ret")
    /\ UNCHANGED <<pid, parent, chan, ctx, np, cproc, pos, ptlock, nextpid>>

\* sleep(ch, lk) called by the rest of the kernel (pipes, disk, log, console,
\* clock), whose own lock and condition belong to the modules of those parts.
\* exit() sleeps too, while it closes files, and goes on exiting afterwards.
Sleep(c, p, ch) ==
    /\ At(c, p, "syscall") \/ At(c, p, "block") \/ At(c, p, "exit")
    /\ Acquire
    /\ ToSched(c)
    /\ state'  = [state EXCEPT ![p] = "SLEEPING"]
    /\ chan'   = [chan EXCEPT ![p] = ch]
    /\ ctx'    = [ctx EXCEPT ![p] = "sleep"]
    /\ Goto(p, IF pc[p] = "exit" THEN "exit" ELSE "block")
    /\ UNCHANGED <<pid, parent, killed, np, cproc, pos, nextpid>>

\* The call that slept found its condition true, or gave up.
BlockDone(c, p) ==
    /\ At(c, p, "block")
    /\ Goto(p, "ret")
    /\ UNCHANGED <<procVars, ctx, np, cproc, pos, ptlock, nextpid>>

\* wakeup(ch) by another process or an interrupt handler.
Wakeup(ch) ==
    /\ Acquire
    /\ state' = Wakeup1({ch})
    /\ UNCHANGED <<pid, parent, chan, killed, pc, ctx, np, cproc, pos, ptlock, nextpid>>

-----------------------------------------------------------------------------
(***************************************************************************)
(* scheduler() and sched().                                                *)
(***************************************************************************)

ScanStart(c) ==
    /\ cproc[c] = Null
    /\ Acquire
    /\ ptlock' = c
    /\ pos'    = [pos EXCEPT ![c] = 1]
    /\ UNCHANGED <<procVars, pc, ctx, np, cproc, nextpid>>

\* The slots the loop has yet to visit and would run.
AheadAny(c) == {p \in Slots("RUNNABLE") \cup Slots("RUNNING") : p >= pos[c]} \* mutant
Ahead(c)    == {p \in Slots("RUNNABLE") : p >= pos[c]}

Dispatch(c) ==
    /\ cproc[c] = Null
    /\ ptlock = c
    /\ \E p \in First(Ahead(c)) :
          /\ cproc' = [cproc EXCEPT ![c] = p]
          /\ pos'   = [pos EXCEPT ![c] = p]
          /\ state' = [state EXCEPT ![p] = "RUNNING"]
    /\ UNCHANGED <<pid, parent, chan, killed, pc, ctx, np, ptlock, nextpid>>

ScanEnd(c) ==
    /\ cproc[c] = Null
    /\ ptlock = c
    /\ Ahead(c) = {}
    /\ ptlock' = NoCpu
    /\ pos'    = [pos EXCEPT ![c] = NPROC + 1]
    /\ UNCHANGED <<procVars, pc, ctx, np, cproc, nextpid>>

\* The loop of scheduler() goes on after the slot it ran.
FirstSlot(p) == 1                           \* mutant: it starts again
NextSlot(p)  == p + 1

\* sched() switches to the scheduler of this CPU.
Sched(c, p) ==
    /\ cproc[c] = p
    /\ ptlock = c
    /\ state[p] # "RUNNING"
    /\ cproc' = [cproc EXCEPT ![c] = Null]
    /\ pos'   = [pos EXCEPT ![c] = NextSlot(p)]
    /\ UNCHANGED <<procVars, pc, ctx, np, ptlock, nextpid>>

\* Back from swtch in forkret(), yield() or a sleep() on another lock: release
\* ptable.lock.  After a yield() from user mode trap() looks at killed again.
Resume(c, p) ==
    /\ Resumed(c, p)
    /\ pc[p] # "wait"
    /\ ptlock' = NoCpu
    /\ chan' = IF ctx[p] = "sleep" THEN [chan EXCEPT ![p] = Null] ELSE chan
    /\ pc'   = IF ctx[p] = "yield" /\ pc[p] = "user" /\ killed[p]
               THEN [pc EXCEPT ![p] = "exit"] ELSE pc
    /\ UNCHANGED <<state, pid, parent, killed, ctx, np, cproc, pos, nextpid>>

-----------------------------------------------------------------------------
KillAny(c, p)  == \E k \in KillPids : Kill(c, p, k)
SleepAny(c, p) == \E ch \in Chans : Sleep(c, p, ch)

\* Steps of the thread of p on CPU c other than the clock tick.
Thread(c, p) ==
    \/ TrapEnter(c, p) \/ TrapReturn(c, p) \/ Fault(c, p)
    \/ ForkAlloc(c, p) \/ ForkFail(c, p) \/ ForkCopy(c, p) \/ ForkReady(c, p)
    \/ SysExit(c, p) \/ ExitZombie(c, p) \/ Wait(c, p)
    \/ KillAny(c, p) \/ SleepAny(c, p) \/ BlockDone(c, p)

\* Steps of the context switch.
Switch(c) ==
    \/ ScanStart(c) \/ Dispatch(c) \/ ScanEnd(c)
    \/ \E p \in Procs : Sched(c, p) \/ Resume(c, p)

Next ==
    \/ \E c \in CPUs : Switch(c) \/ \E p \in Procs : Thread(c, p) \/ Yield(c, p)
    \/ \E ch \in Chans : Wakeup(ch)

Spec == Init /\ [][Next]_vars

-----------------------------------------------------------------------------
(***************************************************************************)
(* Fairness, for one processor (a test-and-set spinlock promises nothing   *)
(* to two).  The scheduler loop and the clock never stop.  A time slice is *)
(* long enough for the process to take a step, so whoever runs again and   *)
(* again gets one done (strong fairness); in user space that step is the   *)
(* next trap.  init calls wait() for ever (init.c:22-36).                  *)
(***************************************************************************)
SliceStep(c, p) ==
    \/ TrapEnter(c, p) \/ TrapReturn(c, p)
    \/ ForkAlloc(c, p) \/ ForkFail(c, p) \/ ForkCopy(c, p) \/ ForkReady(c, p)
    \/ SysExit(c, p) \/ ExitZombie(c, p) \/ Wait(c, p)
    \/ KillAny(c, p) \/ SleepAny(c, p) \/ BlockDone(c, p)

Fairness ==
    \A c \in CPUs :
        /\ WF_vars(Switch(c))
        /\ WF_vars(\E p \in Procs : Yield(c, p))
        /\ \A p \in Procs : SF_vars(SliceStep(c, p))
        /\ SF_vars(Wait(c, initproc))

FairSpec == Spec /\ Fairness
=============================================================================
