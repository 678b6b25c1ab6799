------------------------------- MODULE Locks --------------------------------
(***************************************************************************)
(* Spin locks and interrupts: pushcli() and popcli() (spinlock.c), the     *)
(* interrupt handlers that take locks, and the switch between threads and  *)
(* the scheduler, in the middle of which ptable.lock is held (proc.c).     *)
(*                                                                         *)
(* A context is a thread, or the scheduler of a CPU (which bears the name  *)
(* of the CPU).  Between cli and the end of an acquire() or release()      *)
(* nothing else happens on the CPU: xchg with lk->cpu, and the reverse     *)
(* with popcli(), are one step.  A panic() is a step that is missing.      *)
(***************************************************************************)
EXTENDS Integers, FiniteSets

CONSTANTS
    Cpus, NoCpu,
    Threads,
    SpinLocks, PTable, NoLock,
    MaxNest               \* pushcli() without a lock, one in the other

Contexts == Threads \cup Cpus

ASSUME LocksAssumption ==
    /\ NoCpu \notin Cpus /\ NoLock \notin SpinLocks /\ PTable \in SpinLocks
    /\ Threads \cap Cpus = {} /\ IsFiniteSet(SpinLocks) /\ MaxNest \in Nat

VARIABLES
    owner,                \* of struct spinlock: cpu, or NoCpu when not locked
    ncli, intena, intr,   \* of each CPU; intr is the flag FL_IF
    on,                   \* the context that runs on each CPU
    held, spin, nest,     \* of each context: locks, the one it spins for, other pushcli()s
    mode,                 \* "fresh", "start" (in forkret), "normal", "irq" (in an interrupt)
    saved,                \* the local variable intena of sched()
    ready                 \* the scheduler has executed sti()

cpuVars == <<ncli, intena, intr>>
ctxVars == <<held, spin, nest>>
lvars   == <<owner, cpuVars, on, ctxVars, mode, saved, ready>>

LInit ==
    /\ owner  = [l \in SpinLocks |-> NoCpu]
    /\ ncli   = [c \in Cpus |-> 0]
    /\ intena = [c \in Cpus |-> FALSE]
    /\ intr   = [c \in Cpus |-> FALSE]
    /\ on     = [c \in Cpus |-> c]
    /\ held   = [x \in Contexts |-> {}]
    /\ spin   = [x \in Contexts |-> NoLock]
    /\ nest   = [x \in Contexts |-> 0]
    /\ mode   = [x \in Contexts |-> IF x \in Threads THEN "fresh" ELSE "normal"]
    /\ saved  = [t \in Threads |-> FALSE]
    /\ ready  = [c \in Cpus |-> FALSE]

-----------------------------------------------------------------------------
Pushcli(c) ==
    /\ intena' = [intena EXCEPT ![c] = IF ncli[c] = 0 THEN intr[c] ELSE @]
    /\ ncli'   = [ncli EXCEPT ![c] = @ + 1]
    /\ intr'   = [intr EXCEPT ![c] = FALSE]

\* Interrupts come on again with the last popcli().
AtEachPop(c) == intena[c]                   \* mutant: whatever ncli is
AtLastPop(c) == ncli[c] = 1 /\ intena[c]

Popcli(c) ==
    /\ ~intr[c] /\ ncli[c] >= 1
    /\ ncli' = [ncli EXCEPT ![c] = @ - 1]
    /\ intr' = [intr EXCEPT ![c] = AtLastPop(c)]
    /\ UNCHANGED intena

\* myproc(), holding(): a CPU must not change under them.
PushOnly(c) ==
    LET x == on[c] IN
    /\ x \in Threads /\ spin[x] = NoLock /\ nest[x] < MaxNest
    /\ nest' = [nest EXCEPT ![x] = @ + 1]
    /\ Pushcli(c)
    /\ UNCHANGED <<owner, on, held, spin, mode, saved, ready>>

PopOnly(c) ==
    LET x == on[c] IN
    /\ spin[x] = NoLock /\ nest[x] > 0
    /\ nest' = [nest EXCEPT ![x] = @ - 1]
    /\ Popcli(c)
    /\ UNCHANGED <<owner, on, held, spin, mode, saved, ready>>

-----------------------------------------------------------------------------
\* acquire() by the thread or interrupt handler that runs on c.
AcquireStart(c, l) ==
    LET x == on[c] IN
    /\ x \in Threads \/ mode[x] = "irq"
    /\ spin[x] = NoLock /\ l \notin held[x]
    /\ spin' = [spin EXCEPT ![x] = l]
    /\ Pushcli(c)
    /\ UNCHANGED <<owner, on, held, nest, mode, saved, ready>>

\* xchg finds the lock free.
Acquire(c) ==
    LET x == on[c] IN
    /\ spin[x] # NoLock
    /\ owner[spin[x]] = NoCpu
    /\ owner' = [owner EXCEPT ![spin[x]] = c]
    /\ held'  = [held EXCEPT ![x] = @ \cup {spin[x]}]
    /\ spin'  = [spin EXCEPT ![x] = NoLock]
    /\ UNCHANGED <<cpuVars, on, nest, mode, saved, ready>>

Release(c, l) ==
    LET x == on[c] IN
    /\ spin[x] = NoLock /\ l \in held[x]
    /\ owner' = [owner EXCEPT ![l] = NoCpu]
    /\ held'  = [held EXCEPT ![x] = @ \ {l}]
    /\ Popcli(c)
    /\ UNCHANGED <<on, spin, nest, mode, saved, ready>>

-----------------------------------------------------------------------------
\* An interrupt, when they are on; and the return from it, with what the trap
\* frame says of FL_IF.  forkret() goes to user space the same way.
Interrupt(c) ==
    /\ intr[c]
    /\ intr' = [intr EXCEPT ![c] = FALSE]
    /\ mode' = [mode EXCEPT ![on[c]] = "irq"]
    /\ UNCHANGED <<owner, ncli, intena, on, ctxVars, saved, ready>>

Iret(c) ==
    LET x == on[c] IN
    /\ mode[x] # "normal"
    /\ held[x] = {} /\ spin[x] = NoLock /\ nest[x] = 0
    /\ mode' = [mode EXCEPT ![x] = "normal"]
    /\ intr' = [intr EXCEPT ![c] = TRUE]
    /\ UNCHANGED <<owner, ncli, intena, on, ctxVars, saved, ready>>

-----------------------------------------------------------------------------
\* scheduler(): sti(), then acquire(&ptable.lock).
SchedulerSti(c) ==
    /\ on[c] = c /\ mode[c] = "normal" /\ ~ready[c]
    /\ held[c] = {} /\ spin[c] = NoLock
    /\ ready' = [ready EXCEPT ![c] = TRUE]
    /\ intr'  = [intr EXCEPT ![c] = TRUE]
    /\ UNCHANGED <<owner, ncli, intena, on, ctxVars, mode, saved>>

SchedulerAcquire(c) ==
    /\ on[c] = c /\ mode[c] = "normal" /\ ready[c]
    /\ ready' = [ready EXCEPT ![c] = FALSE]
    /\ spin'  = [spin EXCEPT ![c] = PTable]
    /\ Pushcli(c)
    /\ UNCHANGED <<owner, on, held, nest, mode, saved>>

\* swtch() to a thread: the end of its sched(), or forkret().  The lock goes with
\* the CPU from one context to the other.
OfTheCpu(c, t) == intena[c]                 \* mutant: intena is not restored
Restored(c, t) == IF mode[t] = "fresh" THEN intena[c] ELSE saved[t]

Dispatch(c, t) ==
    /\ on[c] = c /\ held[c] = {PTable} /\ mode[c] = "normal"
    /\ \A d \in Cpus : on[d] # t
    /\ on'     = [on EXCEPT ![c] = t]
    /\ held'   = [held EXCEPT ![c] = {}, ![t] = {PTable}]
    /\ intena' = [intena EXCEPT ![c] = Restored(c, t)]
    /\ mode'   = [mode EXCEPT ![t] = IF @ = "fresh" THEN "start" ELSE @]
    /\ UNCHANGED <<owner, ncli, intr, spin, nest, saved, ready>>

\* sched(), with ptable.lock and nothing else (the first forkret() reads the disk
\* and sleeps).
Sched(c) ==
    LET x == on[c] IN
    /\ x \in Threads
    /\ held[x] = {PTable} /\ ncli[c] = 1 /\ spin[x] = NoLock /\ ~intr[c]
    /\ saved' = [saved EXCEPT ![x] = intena[c]]
    /\ on'    = [on EXCEPT ![c] = c]
    /\ held'  = [held EXCEPT ![x] = {}, ![c] = {PTable}]
    /\ UNCHANGED <<owner, cpuVars, spin, nest, mode, ready>>

-----------------------------------------------------------------------------
LNext ==
    \E c \in Cpus :
       \/ PushOnly(c) \/ PopOnly(c)
       \/ \E l \in SpinLocks : AcquireStart(c, l) \/ Release(c, l)
       \/ Acquire(c)
       \/ Interrupt(c) \/ Iret(c)
       \/ SchedulerSti(c) \/ SchedulerAcquire(c)
       \/ \E t \in Threads : Dispatch(c, t)
       \/ Sched(c)

LSpec == LInit /\ [][LNext]_lvars

-----------------------------------------------------------------------------
LTypeOK ==
    /\ owner \in [SpinLocks -> Cpus \cup {NoCpu}]
    /\ ncli \in [Cpus -> Nat] /\ intena \in [Cpus -> BOOLEAN] /\ intr \in [Cpus -> BOOLEAN]
    /\ on \in [Cpus -> Contexts]
    /\ held \in [Contexts -> SUBSET SpinLocks]
    /\ spin \in [Contexts -> SpinLocks \cup {NoLock}]
    /\ nest \in [Contexts -> Nat]
    /\ mode \in [Contexts -> {"fresh", "start", "normal", "irq"}]
    /\ saved \in [Threads -> BOOLEAN] /\ ready \in [Cpus -> BOOLEAN]

\* A context runs on one CPU, and the scheduler of a CPU on that one; who does not
\* run holds nothing.
OneCpu ==
    /\ \A c, d \in Cpus : on[c] = on[d] => c = d
    /\ \A c \in Cpus : on[c] \in Threads \cup {c} /\ mode[on[c]] # "fresh"
    /\ \A x \in Contexts :
          (\A c \in Cpus : on[c] # x) => held[x] = {} /\ spin[x] = NoLock /\ nest[x] = 0

\* A spin lock belongs to what runs on its CPU: ptable.lock is handed over with it.
OwnerHolds ==
    \A c \in Cpus, l \in SpinLocks : owner[l] = c <=> l \in held[on[c]]

\* pushcli() counts: every lock held or waited for, and the rest.
Depth(x) == Cardinality(held[x]) + nest[x] + (IF spin[x] = NoLock THEN 0 ELSE 1)
NcliCounts == \A c \in Cpus : ncli[c] = Depth(on[c])

\* acquire() disables interrupts to avoid deadlock (spinlock.c:28): whoever holds or
\* waits for a spin lock is not interrupted, on whichever CPU it took the lock.
HolderUninterrupted == \A c \in Cpus : ncli[c] # 0 => ~intr[c]

\* "If interrupts are off, then pushcli, popcli leaves them off", and otherwise they
\* come on again (spinlock.c:101-103); intena is a property of the thread, not of
\* the CPU (proc.c:359-363): a thread that slept in sched() and went on on another
\* CPU, after other threads and their interrupts, finds the flag as it was.
FlagKept ==
    \A c \in Cpus :
        /\ mode[on[c]] = "irq" => ~intr[c]
        /\ ncli[c] = 0 /\ on[c] \in Threads /\ mode[on[c]] = "normal" => intr[c]
        /\ ncli[c] = 0 /\ on[c] = c /\ mode[c] = "normal" /\ ready[c] => intr[c]
        /\ ncli[c] # 0 =>
              /\ on[c] \in Threads /\ mode[on[c]] = "normal" => intena[c]
              /\ mode[on[c]] = "irq" => ~intena[c]

\* Contexts that are not running wait in sched(), with the flag they will want.
SavedRight ==
    \A t \in Threads : (\A c \in Cpus : on[c] # t) =>
        /\ mode[t] = "normal" => saved[t]
        /\ mode[t] = "irq" => ~saved[t]

\* The scheduler goes from sti() to acquire() without a lock, and takes none but
\* ptable.lock itself; its interrupts give back what they take (proc.c:330-350).
SchedulerCalm ==
    \A c \in Cpus :
        /\ nest[c] = 0 /\ mode[c] \in {"normal", "irq"}
        /\ on[c] # c => mode[c] = "normal"
        /\ mode[c] = "normal" => held[c] = {} \/ spin[c] = NoLock
        /\ ready[c] => on[c] = c /\ (mode[c] = "normal" => held[c] = {} /\ spin[c] = NoLock)

LocksIInv ==
    /\ LTypeOK /\ OneCpu /\ OwnerHolds /\ NcliCounts
    /\ HolderUninterrupted /\ FlagKept /\ SavedRight /\ SchedulerCalm
=============================================================================
