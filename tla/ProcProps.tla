------------------------------ MODULE ProcProps ------------------------------
(***************************************************************************)
(* What the process table promises.                                        *)
(***************************************************************************)
EXTENDS Proc

(***************************************************************************)
(* Safety.                                                                 *)
(***************************************************************************)

\* A CPU is on the stack of a process that is not RUNNING only between the
\* change of state and the switch, and then it holds ptable.lock; no two CPUs
\* are on the same stack; and a RUNNING process is on some CPU.  (sched(),
\* proc.c:371-376, and the hand-over of the lock in scheduler().)
OnCpu ==
    /\ \A c \in CPUs : cproc[c] # Null /\ ptlock # c => state[cproc[c]] = "RUNNING"
    /\ \A c, d \in CPUs : cproc[c] = cproc[d] /\ cproc[c] # Null => c = d
    /\ \A p \in Procs : state[p] = "RUNNING" => \E c \in CPUs : cproc[c] = p

\* wait() frees the kernel stack of a zombie only when no CPU is on it any
\* more, and fork() never hands out a slot a CPU still runs on: a process
\* becomes a ZOMBIE long before it leaves its stack (proc.c:265-266, 287-291).
StackSafe ==
    \A c \in CPUs : cproc[c] # Null => state[cproc[c]] \notin {"UNUSED", "EMBRYO"}

\* Every process but init has a parent that can still call wait() for it: an
\* exiting process leaves no child behind, not even one that fork() is just
\* making RUNNABLE or one that is a ZOMBIE already (proc.c:255-262).
ParentAlive ==
    \A p \in Procs \ {initproc} :
        state[p] \in Alive \cup {"ZOMBIE"} =>
            parent[p] \in Procs /\ state[parent[p]] \in Alive

\* No exit is missed: a process asleep in wait() has no child left to reap,
\* neither one of its own nor one it inherited (proc.c:252-262, 309-310).
NoMissedZombie ==
    \A p \in Procs : state[p] = "SLEEPING" /\ pc[p] = "wait" => Zombies(p) = {}

\* kill() compares pids only and stops at the first slot that matches; the slot
\* it finds is the live process of that pid, never a free slot in front of it
\* that kept the pid of a fork that failed (proc.c:485-492, 96, 196).
KillFindsTheLiveOne ==
    \A p, q \in Procs : state[p] # "UNUSED" /\ pid[q] = pid[p] => q = p

\* A ZOMBIE stays one until its own parent, running wait(), takes it: no
\* wakeup and no kill brings back a process that has freed its memory.
ZombieStays ==
    [][\A p \in Procs : state[p] = "ZOMBIE" =>
          \/ state'[p] = "ZOMBIE"
          \/ state'[p] = "UNUSED" /\ \E c \in CPUs : cproc[c] = parent[p]]_vars

-----------------------------------------------------------------------------
(***************************************************************************)
(* The inductive invariant behind the safety properties.                   *)
(***************************************************************************)

\* init is there for ever: nobody kills it and it never exits.
InitAlive ==
    /\ state[initproc] \in Alive
    /\ ~killed[initproc]
    /\ pid[initproc] = 1
    /\ pc[initproc] # "exit"
    /\ parent[initproc] = Null

InFork(p) == pc[p] \in {"fork1", "fork2"}

\* A fork owns the slot it fills; the parent field is null until ForkCopy.
ForkInv ==
    /\ \A p \in Procs : InFork(p) =>
          /\ state[p] \in {"RUNNABLE", "RUNNING"}
          /\ np[p] \in Procs
          /\ state[np[p]] = "EMBRYO"
          /\ parent[np[p]] = IF pc[p] = "fork1" THEN Null ELSE p
    /\ \A p, q \in Procs : InFork(p) /\ InFork(q) /\ np[p] = np[q] => p = q
    /\ \A p \in Procs : state[p] = "UNUSED" => parent[p] = Null
    /\ \A p \in Procs : parent[p] # p

WaitChan ==
    \A p \in Procs : state[p] = "SLEEPING" /\ pc[p] = "wait" => chan[p] = p

\* Pids are handed out once, and only a free slot may have none.
PidInv ==
    /\ \A p \in Procs : pid[p] < nextpid
    /\ \A p \in Procs : state[p] # "UNUSED" => pid[p] # 0
    /\ \A p, q \in Procs : pid[p] = pid[q] /\ pid[p] # 0 => p = q

\* The invariant every action preserves: the context switch hands each stack
\* from one CPU to the next, and fork, exit and wait keep the process tree.
ProcIInv ==
    /\ TypeOK /\ OnCpu /\ StackSafe /\ InitAlive
    /\ ForkInv /\ ParentAlive /\ WaitChan /\ NoMissedZombie /\ PidInv

-----------------------------------------------------------------------------
(***************************************************************************)
(* Liveness, under FairSpec.                                               *)
(***************************************************************************)

\* The scan of scheduler() goes on after the slot it last ran, so a RUNNABLE
\* process runs whatever the others do (proc.c:333-352).
EveryoneRuns ==
    \A p \in Procs : state[p] = "RUNNABLE" ~> state[p] = "RUNNING"

\* A killed process dies: it leaves wait(), and the next trap or the next clock
\* tick in user space finds the mark (proc.c:476-478, trap.c:97-111).
KilledDies ==
    \A p \in Procs \ {initproc} :
        killed[p] /\ state[p] \in Alive ~> state[p] \in {"ZOMBIE", "UNUSED"}

\* init goes on reaping as long as it has a zombie, so the slots of orphans
\* come back (proc.c:255-262, init.c:34).
InitReaps ==
    \/ []<>(Zombies(initproc) = {})
    \/ []<><<\E p \in Zombies(initproc) : state'[p] = "UNUSED">>_vars
=============================================================================
