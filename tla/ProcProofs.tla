----------------------------- MODULE ProcProofs -----------------------------
(***************************************************************************)
(* The safety of the process table for every number of slots, processors   *)
(* and sleep channels, and of the frames and address spaces of processes   *)
(* for every number and size of them: ProcIInv and FramesIInv are          *)
(* inductive.                                                              *)
(***************************************************************************)
EXTENDS ProcProps, MemoryProps, FiniteSetTheorems, TLAPS

\* All that most proofs need to know of the slots.
LEMMA SlotFacts == initproc \in Procs /\ Null \notin Procs /\ Procs \subseteq Nat
    BY ProcAssumption DEF Procs, Null, initproc

\* The loop variable of scheduler() stays in the table or just behind it.
LEMMA SlotRange ==
    /\ 1 \in 1 .. NPROC + 1 /\ NPROC + 1 \in 1 .. NPROC + 1
    /\ \A p \in Procs : p \in 1 .. NPROC + 1 /\ p + 1 \in 1 .. NPROC + 1
    BY ProcAssumption DEF Procs

\* Every step has one of these forms.
LEMMA StepCases ==
    ASSUME Next
    PROVE  \/ \E c \in CPUs : ScanStart(c) \/ Dispatch(c) \/ ScanEnd(c)
           \/ \E c \in CPUs, p \in Procs :
                \/ Sched(c, p) \/ Resume(c, p) \/ Yield(c, p)
                \/ TrapEnter(c, p) \/ TrapReturn(c, p) \/ Fault(c, p)
                \/ ForkAlloc(c, p) \/ ForkFail(c, p)
                \/ ForkCopy(c, p) \/ ForkReady(c, p)
                \/ SysExit(c, p) \/ ExitZombie(c, p) \/ Wait(c, p)
                \/ KillAny(c, p) \/ SleepAny(c, p) \/ BlockDone(c, p)
           \/ \E ch \in Chans : Wakeup(ch)
    BY DEF Next, Switch, Thread

-----------------------------------------------------------------------------
(***************************************************************************)
(* One theorem per part of the invariant, one step per action.             *)
(***************************************************************************)

\* Every variable keeps its type.
THEOREM TypePreserved ==
    ASSUME TypeOK, Next
    PROVE  TypeOK'
<1> USE SlotFacts, SlotRange DEF TypeOK, procVars, States, Points
<1>1. ASSUME NEW c \in CPUs, ScanStart(c) \/ ScanEnd(c)
      PROVE  TypeOK'
    BY <1>1 DEF ScanStart, ScanEnd, Acquire
<1>2. ASSUME NEW c \in CPUs, Dispatch(c)
      PROVE  TypeOK'
    BY <1>2 DEF Dispatch, First, Ahead, Slots
<1>3. ASSUME NEW c \in CPUs, NEW p \in Procs, Sched(c, p)
      PROVE  TypeOK'
    BY <1>3 DEF Sched, NextSlot
<1>4. ASSUME NEW c \in CPUs, NEW p \in Procs, Resume(c, p)
      PROVE  TypeOK'
    BY <1>4 DEF Resume, Resumed
<1>5. ASSUME NEW c \in CPUs, NEW p \in Procs, Yield(c, p)
      PROVE  TypeOK'
    BY <1>5 DEF Yield, ToSched, Acquire
<1>6. ASSUME NEW c \in CPUs, NEW p \in Procs,
             TrapEnter(c, p) \/ TrapReturn(c, p) \/ Fault(c, p)
             \/ SysExit(c, p) \/ BlockDone(c, p)
      PROVE  TypeOK'
    <2>1. CASE TrapEnter(c, p)
        BY <2>1 DEF TrapEnter, At, Goto
    <2>2. CASE TrapReturn(c, p)
        BY <2>2 DEF TrapReturn, At, Goto
    <2>3. CASE Fault(c, p)
        BY <2>3 DEF Fault, At, Goto
    <2>4. CASE SysExit(c, p)
        BY <2>4 DEF SysExit, At, Goto
    <2>5. CASE BlockDone(c, p)
        BY <2>5 DEF BlockDone, At, Goto
    <2> QED
        BY <1>6, <2>1, <2>2, <2>3, <2>4, <2>5
<1>7. ASSUME NEW c \in CPUs, NEW p \in Procs, ForkAlloc(c, p)
      PROVE  TypeOK'
    <2>1. CASE Goto(p, "ret") /\ UNCHANGED <<state, pid, np, nextpid>>
        BY <1>7, <2>1 DEF ForkAlloc, Goto
    <2>2. ASSUME NEW q \in Procs, state[q] = "UNUSED",
                 state' = [state EXCEPT ![q] = "EMBRYO"],
                 pid' = [pid EXCEPT ![q] = nextpid],
                 np' = [np EXCEPT ![p] = q],
                 nextpid' = nextpid + 1,
                 Goto(p, "fork1")
          PROVE  TypeOK'
        BY <1>7, <2>2 DEF ForkAlloc, At, Acquire, Goto
    <2> QED
        BY <1>7, <2>1, <2>2 DEF ForkAlloc, First, Slots, NextPid
<1>8. ASSUME NEW c \in CPUs, NEW p \in Procs, ForkFail(c, p)
      PROVE  TypeOK'
    BY <1>8 DEF ForkFail, At, Goto
<1>9. ASSUME NEW c \in CPUs, NEW p \in Procs, ForkCopy(c, p)
      PROVE  TypeOK'
    BY <1>9 DEF ForkCopy, At, Goto
<1>10. ASSUME NEW c \in CPUs, NEW p \in Procs, ForkReady(c, p)
      PROVE  TypeOK'
    BY <1>10 DEF ForkReady, At, Acquire
<1>11. ASSUME NEW c \in CPUs, NEW p \in Procs, ExitZombie(c, p)
      PROVE  TypeOK'
    BY <1>11 DEF ExitZombie, At, Acquire, ToSched, Inherited, Wakeup1
<1>12. ASSUME NEW c \in CPUs, NEW p \in Procs, Wait(c, p)
      PROVE  TypeOK'
    <2>1. CASE WaitReap(p)
        BY <1>12, <2>1 DEF Wait, WaitReap, First, Zombies, Children, Goto, Resumed, At, Acquire
    <2>2. CASE WaitFail(p)
        BY <1>12, <2>2 DEF Wait, WaitFail, First, Zombies, Children, Goto, Resumed, At, Acquire
    <2>3. CASE WaitSleep(c, p)
        BY <1>12, <2>3 DEF Wait, WaitSleep, First, Zombies, Children, Goto, Resumed, At, Acquire
    <2> QED
        BY <1>12, <2>1, <2>2, <2>3 DEF Wait
<1>13. ASSUME NEW c \in CPUs, NEW p \in Procs, KillAny(c, p)
      PROVE  TypeOK'
    <2>1. PICK k \in KillPids : Kill(c, p, k)
        BY <1>13 DEF KillAny
    <2>2. CASE UNCHANGED <<state, killed>>
        BY <2>1, <2>2 DEF Kill, Goto
    <2>3. ASSUME NEW q \in Procs, pid[q] = k,
                 killed' = [killed EXCEPT ![q] = TRUE],
                 state' = [state EXCEPT ![q] = Killed(q)]
          PROVE  TypeOK'
        BY <2>1, <2>3 DEF Kill, Killed, Goto, At, Acquire
    <2> QED
        BY <2>1, <2>2, <2>3 DEF Kill, First
<1>14. ASSUME NEW c \in CPUs, NEW p \in Procs, SleepAny(c, p)
      PROVE  TypeOK'
    BY <1>14 DEF SleepAny, At, Acquire, Sleep, ToSched, Goto
<1>15. ASSUME NEW ch \in Chans, Wakeup(ch)
      PROVE  TypeOK'
    BY <1>15 DEF Wakeup, Acquire, Wakeup1
<1> QED
    BY <1>1, <1>2, <1>3, <1>4, <1>5, <1>6, <1>7, <1>8, <1>9, <1>10, <1>11, <1>12, <1>13, <1>14, <1>15, StepCases

\* The context switch: who is on which stack.
THEOREM OnCpuPreserved ==
    ASSUME TypeOK, OnCpu, StackSafe, ForkInv, Next
    PROVE  OnCpu' /\ StackSafe'
<1> USE SlotFacts, ProcAssumption DEF TypeOK, OnCpu, StackSafe, procVars
<1>1. ASSUME NEW c \in CPUs, ScanStart(c) \/ ScanEnd(c)
      PROVE  OnCpu' /\ StackSafe'
    BY <1>1 DEF ScanStart, ScanEnd, Acquire
<1>2. ASSUME NEW c \in CPUs, Dispatch(c)
      PROVE  OnCpu' /\ StackSafe'
    BY <1>2 DEF Dispatch, First, Ahead, Slots
<1>3. ASSUME NEW c \in CPUs, NEW p \in Procs, Sched(c, p)
      PROVE  OnCpu' /\ StackSafe'
    BY <1>3 DEF Sched, NextSlot
<1>4. ASSUME NEW c \in CPUs, NEW p \in Procs, Resume(c, p)
      PROVE  OnCpu' /\ StackSafe'
    BY <1>4 DEF Resume, Resumed
<1>5. ASSUME NEW c \in CPUs, NEW p \in Procs, Yield(c, p)
      PROVE  OnCpu' /\ StackSafe'
    BY <1>5 DEF Yield, ToSched, Acquire
<1>6. ASSUME NEW c \in CPUs, NEW p \in Procs,
             TrapEnter(c, p) \/ TrapReturn(c, p) \/ Fault(c, p)
             \/ SysExit(c, p) \/ BlockDone(c, p)
      PROVE  OnCpu' /\ StackSafe'
    BY <1>6 DEF TrapEnter, TrapReturn, Fault, SysExit, BlockDone, At, Goto
<1>7. ASSUME NEW c \in CPUs, NEW p \in Procs, ForkAlloc(c, p)
      PROVE  OnCpu' /\ StackSafe'
    <2>1. CASE Goto(p, "ret") /\ UNCHANGED <<state, pid, np, nextpid>>
        BY <1>7, <2>1 DEF ForkAlloc, Goto
    <2>2. ASSUME NEW q \in Procs, state[q] = "UNUSED",
                 state' = [state EXCEPT ![q] = "EMBRYO"],
                 pid' = [pid EXCEPT ![q] = nextpid],
                 np' = [np EXCEPT ![p] = q],
                 nextpid' = nextpid + 1,
                 Goto(p, "fork1")
          PROVE  OnCpu' /\ StackSafe'
        BY <1>7, <2>2 DEF ForkAlloc, At, Acquire, Goto
    <2> QED
        BY <1>7, <2>1, <2>2 DEF ForkAlloc, First, Slots, NextPid
<1>8. ASSUME NEW c \in CPUs, NEW p \in Procs, ForkFail(c, p)
      PROVE  OnCpu' /\ StackSafe'
    BY <1>8 DEF ForkFail, At, Acquire, ForkInv, InFork
<1>9. ASSUME NEW c \in CPUs, NEW p \in Procs, ForkCopy(c, p)
      PROVE  OnCpu' /\ StackSafe'
    BY <1>9 DEF ForkCopy, At, Goto
<1>10. ASSUME NEW c \in CPUs, NEW p \in Procs, ForkReady(c, p)
      PROVE  OnCpu' /\ StackSafe'
    BY <1>10 DEF ForkReady, At, Acquire, ForkInv, InFork
<1>11. ASSUME NEW c \in CPUs, NEW p \in Procs, ExitZombie(c, p)
      PROVE  OnCpu' /\ StackSafe'
    <2> DEFINE W == {q \in Procs : state[q] = "SLEEPING" /\ chan[q] \in ExitWakes(p)}
    <2>1. /\ cproc[c] = p /\ ptlock = NoCpu /\ ptlock' = c /\ UNCHANGED cproc
          /\ state' = [Wakeup1(ExitWakes(p)) EXCEPT ![p] = "ZOMBIE"]
        BY <1>11 DEF ExitZombie, At, Acquire, ToSched
    <2>2. \A q \in Procs : state'[q] = IF q = p THEN "ZOMBIE"
                                      ELSE IF q \in W THEN "RUNNABLE" ELSE state[q]
        BY <2>1 DEF Wakeup1
    <2>3. \A q \in W : state[q] = "SLEEPING"
        OBVIOUS
    <2>4. \A d \in CPUs : cproc[d] # Null =>
              cproc[d] \in Procs /\ state[cproc[d]] = "RUNNING" /\ cproc[d] \notin W
        BY <2>1
    <2>5. p \notin W /\ state[p] = "RUNNING"
        BY <2>1, <2>3
    <2> HIDE DEF W
    <2>6. \A d \in CPUs : cproc[d] # Null =>
              state'[cproc[d]] = IF d = c THEN "ZOMBIE" ELSE "RUNNING"
        <3>1. cproc[c] = p /\ p # Null
            BY <2>1
        <3>2. ASSUME NEW d \in CPUs, cproc[d] # Null, d # c
              PROVE  state'[cproc[d]] = "RUNNING"
            <4>1. cproc[d] # p
                BY <3>1, <3>2
            <4> QED
                BY <2>2, <2>4, <3>2, <4>1
        <3>3. state'[cproc[c]] = "ZOMBIE"
            BY <2>2, <3>1
        <3> QED
            BY <3>2, <3>3
    <2>7. \A q \in Procs : state'[q] = "RUNNING" => state[q] = "RUNNING"
        BY <2>2
    <2>8. StackSafe'
        BY <2>1, <2>6
    <2>9. OnCpu'
        BY <2>1, <2>6, <2>7, <2>2, <2>3, <2>5
    <2> QED
        BY <2>8, <2>9
<1>12. ASSUME NEW c \in CPUs, NEW p \in Procs, Wait(c, p)
      PROVE  OnCpu' /\ StackSafe'
    <2>1. CASE WaitReap(p)
        BY <1>12, <2>1 DEF Wait, WaitReap, First, Zombies, Children, Goto, Resumed, At, Acquire
    <2>2. CASE WaitFail(p)
        BY <1>12, <2>2 DEF Wait, WaitFail, First, Zombies, Children, Goto, Resumed, At, Acquire
    <2>3. CASE WaitSleep(c, p)
        BY <1>12, <2>3 DEF Wait, WaitSleep, First, Zombies, Children, Goto, Resumed, At, Acquire
    <2> QED
        BY <1>12, <2>1, <2>2, <2>3 DEF Wait
<1>13. ASSUME NEW c \in CPUs, NEW p \in Procs, KillAny(c, p)
      PROVE  OnCpu' /\ StackSafe'
    <2>1. PICK k \in KillPids : Kill(c, p, k)
        BY <1>13 DEF KillAny
    <2>2. CASE UNCHANGED <<state, killed>>
        BY <2>1, <2>2 DEF Kill, Goto
    <2>3. ASSUME NEW q \in Procs, pid[q] = k,
                 killed' = [killed EXCEPT ![q] = TRUE],
                 state' = [state EXCEPT ![q] = Killed(q)]
          PROVE  OnCpu' /\ StackSafe'
        BY <2>1, <2>3 DEF Kill, Killed, Goto, At, Acquire
    <2> QED
        BY <2>1, <2>2, <2>3 DEF Kill, First
<1>14. ASSUME NEW c \in CPUs, NEW p \in Procs, SleepAny(c, p)
      PROVE  OnCpu' /\ StackSafe'
    BY <1>14 DEF SleepAny, At, Acquire, Sleep, ToSched, Goto
<1>15. ASSUME NEW ch \in Chans, Wakeup(ch)
      PROVE  OnCpu' /\ StackSafe'
    BY <1>15 DEF Wakeup, Acquire, Wakeup1
<1> QED
    BY <1>1, <1>2, <1>3, <1>4, <1>5, <1>6, <1>7, <1>8, <1>9, <1>10, <1>11, <1>12, <1>13, <1>14, <1>15, StepCases

\* init stays.
THEOREM InitPreserved ==
    ASSUME TypeOK, OnCpu, InitAlive, ForkInv, Next
    PROVE  InitAlive'
<1> USE SlotFacts, ProcAssumption DEF TypeOK, OnCpu, InitAlive, ForkInv, InFork, Alive, procVars
<1>1. ASSUME NEW c \in CPUs, ScanStart(c) \/ ScanEnd(c)
      PROVE  InitAlive'
    BY <1>1 DEF ScanStart, ScanEnd, Acquire
<1>2. ASSUME NEW c \in CPUs, Dispatch(c)
      PROVE  InitAlive'
    BY <1>2 DEF Dispatch, First, Ahead, Slots
<1>3. ASSUME NEW c \in CPUs, NEW p \in Procs, Sched(c, p)
      PROVE  InitAlive'
    BY <1>3 DEF Sched, NextSlot
<1>4. ASSUME NEW c \in CPUs, NEW p \in Procs, Resume(c, p)
      PROVE  InitAlive'
    BY <1>4 DEF Resume, Resumed
<1>5. ASSUME NEW c \in CPUs, NEW p \in Procs, Yield(c, p)
      PROVE  InitAlive'
    BY <1>5 DEF Yield, ToSched, Acquire
<1>6. ASSUME NEW c \in CPUs, NEW p \in Procs,
             TrapEnter(c, p) \/ TrapReturn(c, p) \/ Fault(c, p)
             \/ SysExit(c, p) \/ BlockDone(c, p)
      PROVE  InitAlive'
    BY <1>6 DEF TrapEnter, TrapReturn, Fault, SysExit, BlockDone, At, Goto
<1>7. ASSUME NEW c \in CPUs, NEW p \in Procs, ForkAlloc(c, p)
      PROVE  InitAlive'
    <2>1. CASE Goto(p, "ret") /\ UNCHANGED <<state, pid, np, nextpid>>
        BY <1>7, <2>1 DEF ForkAlloc, Goto
    <2>2. ASSUME NEW q \in Procs, state[q] = "UNUSED",
                 state' = [state EXCEPT ![q] = "EMBRYO"],
                 pid' = [pid EXCEPT ![q] = nextpid],
                 np' = [np EXCEPT ![p] = q],
                 nextpid' = nextpid + 1,
                 Goto(p, "fork1")
          PROVE  InitAlive'
        BY <1>7, <2>2 DEF ForkAlloc, At, Acquire, Goto
    <2> QED
        BY <1>7, <2>1, <2>2 DEF ForkAlloc, First, Slots, NextPid
<1>8. ASSUME NEW c \in CPUs, NEW p \in Procs, ForkFail(c, p)
      PROVE  InitAlive'
    BY <1>8 DEF ForkFail, At, Goto
<1>9. ASSUME NEW c \in CPUs, NEW p \in Procs, ForkCopy(c, p)
      PROVE  InitAlive'
    BY <1>9 DEF ForkCopy, At, Goto
<1>10. ASSUME NEW c \in CPUs, NEW p \in Procs, ForkReady(c, p)
      PROVE  InitAlive'
    BY <1>10 DEF ForkReady, At, Acquire
<1>11. ASSUME NEW c \in CPUs, NEW p \in Procs, ExitZombie(c, p)
      PROVE  InitAlive'
    BY <1>11 DEF ExitZombie, At, Acquire, ToSched, Inherited, Wakeup1
<1>12. ASSUME NEW c \in CPUs, NEW p \in Procs, Wait(c, p)
      PROVE  InitAlive'
    <2>1. CASE WaitReap(p)
        BY <1>12, <2>1 DEF Wait, WaitReap, First, Zombies, Children, Goto, Resumed, At, Acquire
    <2>2. CASE WaitFail(p)
        BY <1>12, <2>2 DEF Wait, WaitFail, First, Zombies, Children, Goto, Resumed, At, Acquire
    <2>3. CASE WaitSleep(c, p)
        BY <1>12, <2>3 DEF Wait, WaitSleep, First, Zombies, Children, Goto, Resumed, At, Acquire
    <2> QED
        BY <1>12, <2>1, <2>2, <2>3 DEF Wait
<1>13. ASSUME NEW c \in CPUs, NEW p \in Procs, KillAny(c, p)
      PROVE  InitAlive'
    <2>1. PICK k \in KillPids : Kill(c, p, k)
        BY <1>13 DEF KillAny
    <2>2. CASE UNCHANGED <<state, killed>>
        BY <2>1, <2>2 DEF Kill, Goto
    <2>3. ASSUME NEW q \in Procs, pid[q] = k,
                 killed' = [killed EXCEPT ![q] = TRUE],
                 state' = [state EXCEPT ![q] = Killed(q)]
          PROVE  InitAlive'
        BY <2>1, <2>3 DEF Kill, Killed, Goto, At, Acquire
    <2> QED
        BY <2>1, <2>2, <2>3 DEF Kill, First
<1>14. ASSUME NEW c \in CPUs, NEW p \in Procs, SleepAny(c, p)
      PROVE  InitAlive'
    BY <1>14 DEF SleepAny, At, Acquire, Sleep, ToSched, Goto
<1>15. ASSUME NEW ch \in Chans, Wakeup(ch)
      PROVE  InitAlive'
    BY <1>15 DEF Wakeup, Acquire, Wakeup1
<1> QED
    BY <1>1, <1>2, <1>3, <1>4, <1>5, <1>6, <1>7, <1>8, <1>9, <1>10, <1>11, <1>12, <1>13, <1>14, <1>15, StepCases

\* The slot a fork fills.
THEOREM ForkPreserved ==
    ASSUME TypeOK, OnCpu, InitAlive, ForkInv, Next
    PROVE  ForkInv'
<1> USE SlotFacts, ProcAssumption DEF TypeOK, OnCpu, ForkInv, InFork, procVars
<1>1. ASSUME NEW c \in CPUs, ScanStart(c) \/ ScanEnd(c)
      PROVE  ForkInv'
    BY <1>1 DEF ScanStart, ScanEnd, Acquire
<1>2. ASSUME NEW c \in CPUs, Dispatch(c)
      PROVE  ForkInv'
    BY <1>2 DEF Dispatch, First, Ahead, Slots
<1>3. ASSUME NEW c \in CPUs, NEW p \in Procs, Sched(c, p)
      PROVE  ForkInv'
    BY <1>3 DEF Sched, NextSlot
<1>4. ASSUME NEW c \in CPUs, NEW p \in Procs, Resume(c, p)
      PROVE  ForkInv'
    BY <1>4 DEF Resume, Resumed
<1>5. ASSUME NEW c \in CPUs, NEW p \in Procs, Yield(c, p)
      PROVE  ForkInv'
    BY <1>5 DEF Yield, ToSched, Acquire
<1>6. ASSUME NEW c \in CPUs, NEW p \in Procs,
             TrapEnter(c, p) \/ TrapReturn(c, p) \/ Fault(c, p)
             \/ SysExit(c, p) \/ BlockDone(c, p)
      PROVE  ForkInv'
    BY <1>6 DEF TrapEnter, TrapReturn, Fault, SysExit, BlockDone, At, Goto
<1>7. ASSUME NEW c \in CPUs, NEW p \in Procs, ForkAlloc(c, p)
      PROVE  ForkInv'
    <2>1. CASE Goto(p, "ret") /\ UNCHANGED <<state, pid, np, nextpid>>
        BY <1>7, <2>1 DEF ForkAlloc, Goto
    <2>2. ASSUME NEW q \in Procs, state[q] = "UNUSED",
                 state' = [state EXCEPT ![q] = "EMBRYO"],
                 pid' = [pid EXCEPT ![q] = nextpid],
                 np' = [np EXCEPT ![p] = q],
                 nextpid' = nextpid + 1,
                 Goto(p, "fork1")
          PROVE  ForkInv'
        BY <1>7, <2>2 DEF ForkAlloc, At, Acquire, Goto
    <2> QED
        BY <1>7, <2>1, <2>2 DEF ForkAlloc, First, Slots, NextPid
<1>8. ASSUME NEW c \in CPUs, NEW p \in Procs, ForkFail(c, p)
      PROVE  ForkInv'
    BY <1>8 DEF ForkFail, At, Goto
<1>9. ASSUME NEW c \in CPUs, NEW p \in Procs, ForkCopy(c, p)
      PROVE  ForkInv'
    BY <1>9 DEF ForkCopy, At, Goto
<1>10. ASSUME NEW c \in CPUs, NEW p \in Procs, ForkReady(c, p)
      PROVE  ForkInv'
    BY <1>10 DEF ForkReady, At, Acquire
<1>11. ASSUME NEW c \in CPUs, NEW p \in Procs, ExitZombie(c, p)
      PROVE  ForkInv'
    <2>1. /\ state[p] = "RUNNING" /\ pc[p] = "exit" /\ p # initproc
          /\ state' = [Wakeup1(ExitWakes(p)) EXCEPT ![p] = "ZOMBIE"]
          /\ parent' = Inherited(p)
          /\ UNCHANGED <<pid, chan, killed, pc, ctx, np>>
        BY <1>11 DEF ExitZombie, At, Acquire
    <2>2. \A q \in Procs :
             /\ parent'[q] = IF parent[q] = p THEN initproc ELSE parent[q]
             /\ q # p /\ ~(state[q] = "SLEEPING" /\ chan[q] \in ExitWakes(p))
                   => state'[q] = state[q]
             /\ q # p /\ state[q] = "SLEEPING" /\ chan[q] \in ExitWakes(p)
                   => state'[q] = "RUNNABLE"
             /\ state'[p] = "ZOMBIE"
        BY <2>1 DEF Inherited, Wakeup1
    <2>3. \A q \in Procs : state'[q] = "UNUSED" => state[q] = "UNUSED"
        BY <2>1, <2>2
    <2>4. ASSUME NEW q \in Procs, InFork(q)
          PROVE  /\ state'[q] \in {"RUNNABLE", "RUNNING"}
                 /\ state'[np[q]] = "EMBRYO"
                 /\ parent'[np[q]] = IF pc[q] = "fork1" THEN Null ELSE q
      <3>1. q # p /\ np[q] \in Procs \ {p} /\ state[np[q]] = "EMBRYO"
          BY <2>1, <2>4
      <3>2. state'[q] = state[q] /\ state'[np[q]] = "EMBRYO"
          BY <2>1, <2>2, <2>4, <3>1
      <3>3. parent[np[q]] # p
          BY <2>4, <3>1
      <3>4. parent'[np[q]] = parent[np[q]]
          BY <2>2, <3>1, <3>3, Zenon
      <3> QED
          BY <2>4, <3>2, <3>4
    <2>5. \A q \in Procs : parent'[q] # q
        BY <2>1, <2>2 DEF InitAlive
    <2> QED
        BY <2>1, <2>2, <2>3, <2>4, <2>5
<1>12. ASSUME NEW c \in CPUs, NEW p \in Procs, Wait(c, p)
      PROVE  ForkInv'
    <2>1. CASE WaitReap(p)
        BY <1>12, <2>1 DEF Wait, WaitReap, First, Zombies, Children, Goto, Resumed, At, Acquire
    <2>2. CASE WaitFail(p)
        BY <1>12, <2>2 DEF Wait, WaitFail, First, Zombies, Children, Goto, Resumed, At, Acquire
    <2>3. CASE WaitSleep(c, p)
        BY <1>12, <2>3 DEF Wait, WaitSleep, First, Zombies, Children, Goto, Resumed, At, Acquire
    <2> QED
        BY <1>12, <2>1, <2>2, <2>3 DEF Wait
<1>13. ASSUME NEW c \in CPUs, NEW p \in Procs, KillAny(c, p)
      PROVE  ForkInv'
    <2>1. PICK k \in KillPids : Kill(c, p, k)
        BY <1>13 DEF KillAny
    <2>2. CASE UNCHANGED <<state, killed>>
        BY <2>1, <2>2 DEF Kill, Goto
    <2>3. ASSUME NEW q \in Procs, pid[q] = k,
                 killed' = [killed EXCEPT ![q] = TRUE],
                 state' = [state EXCEPT ![q] = Killed(q)]
          PROVE  ForkInv'
        BY <2>1, <2>3 DEF Kill, Killed, Goto, At, Acquire
    <2> QED
        BY <2>1, <2>2, <2>3 DEF Kill, First
<1>14. ASSUME NEW c \in CPUs, NEW p \in Procs, SleepAny(c, p)
      PROVE  ForkInv'
    BY <1>14 DEF SleepAny, At, Acquire, Sleep, ToSched, Goto
<1>15. ASSUME NEW ch \in Chans, Wakeup(ch)
      PROVE  ForkInv'
    BY <1>15 DEF Wakeup, Acquire, Wakeup1
<1> QED
    BY <1>1, <1>2, <1>3, <1>4, <1>5, <1>6, <1>7, <1>8, <1>9, <1>10, <1>11, <1>12, <1>13, <1>14, <1>15, StepCases

\* The process tree.
THEOREM ParentPreserved ==
    ASSUME TypeOK, OnCpu, InitAlive, ForkInv, ParentAlive, Next
    PROVE  ParentAlive'
<1> USE SlotFacts, ProcAssumption DEF TypeOK, OnCpu, ParentAlive, Alive, procVars
<1>1. ASSUME NEW c \in CPUs, ScanStart(c) \/ ScanEnd(c)
      PROVE  ParentAlive'
    BY <1>1 DEF ScanStart, ScanEnd, Acquire
<1>2. ASSUME NEW c \in CPUs, Dispatch(c)
      PROVE  ParentAlive'
    <2>1. PICK p \in Procs : /\ state[p] = "RUNNABLE"
                            /\ state' = [state EXCEPT ![p] = "RUNNING"]
                            /\ UNCHANGED parent
        BY <1>2 DEF Dispatch, First, Ahead, Slots
    <2>2. \A q \in Procs : (state'[q] \in Alive <=> state[q] \in Alive)
                         /\ (state'[q] = "ZOMBIE" <=> state[q] = "ZOMBIE")
        BY <2>1
    <2> QED
        BY <2>1, <2>2
<1>3. ASSUME NEW c \in CPUs, NEW p \in Procs, Sched(c, p)
      PROVE  ParentAlive'
    BY <1>3 DEF Sched, NextSlot
<1>4. ASSUME NEW c \in CPUs, NEW p \in Procs, Resume(c, p)
      PROVE  ParentAlive'
    BY <1>4 DEF Resume, Resumed
<1>5. ASSUME NEW c \in CPUs, NEW p \in Procs, Yield(c, p)
      PROVE  ParentAlive'
    BY <1>5 DEF Yield, ToSched, Acquire
<1>6. ASSUME NEW c \in CPUs, NEW p \in Procs,
             TrapEnter(c, p) \/ TrapReturn(c, p) \/ Fault(c, p)
             \/ SysExit(c, p) \/ BlockDone(c, p)
      PROVE  ParentAlive'
    BY <1>6 DEF TrapEnter, TrapReturn, Fault, SysExit, BlockDone, At, Goto
<1>7. ASSUME NEW c \in CPUs, NEW p \in Procs, ForkAlloc(c, p)
      PROVE  ParentAlive'
    <2>1. CASE Goto(p, "ret") /\ UNCHANGED <<state, pid, np, nextpid>>
        BY <1>7, <2>1 DEF ForkAlloc, Goto
    <2>2. ASSUME NEW q \in Procs, state[q] = "UNUSED",
                 state' = [state EXCEPT ![q] = "EMBRYO"],
                 pid' = [pid EXCEPT ![q] = nextpid],
                 np' = [np EXCEPT ![p] = q],
                 nextpid' = nextpid + 1,
                 Goto(p, "fork1")
          PROVE  ParentAlive'
        BY <1>7, <2>2 DEF ForkAlloc, At, Acquire, Goto
    <2> QED
        BY <1>7, <2>1, <2>2 DEF ForkAlloc, First, Slots, NextPid
<1>8. ASSUME NEW c \in CPUs, NEW p \in Procs, ForkFail(c, p)
      PROVE  ParentAlive'
    BY <1>8 DEF ForkFail, At, Acquire, ForkInv, InFork
<1>9. ASSUME NEW c \in CPUs, NEW p \in Procs, ForkCopy(c, p)
      PROVE  ParentAlive'
    BY <1>9 DEF ForkCopy, At, Goto
<1>10. ASSUME NEW c \in CPUs, NEW p \in Procs, ForkReady(c, p)
      PROVE  ParentAlive'
    BY <1>10 DEF ForkReady, At, Acquire, ForkInv, InFork
<1>11. ASSUME NEW c \in CPUs, NEW p \in Procs, ExitZombie(c, p)
      PROVE  ParentAlive'
    <2>1. /\ state[p] = "RUNNING" /\ pc[p] = "exit" /\ p # initproc
          /\ state' = [Wakeup1(ExitWakes(p)) EXCEPT ![p] = "ZOMBIE"]
          /\ parent' = Inherited(p)
          /\ UNCHANGED <<pid, chan, killed, pc, ctx, np>>
        BY <1>11 DEF ExitZombie, At, Acquire
    <2>2. \A q \in Procs :
             /\ parent'[q] = IF parent[q] = p THEN initproc ELSE parent[q]
             /\ q # p /\ ~(state[q] = "SLEEPING" /\ chan[q] \in ExitWakes(p))
                   => state'[q] = state[q]
             /\ q # p /\ state[q] = "SLEEPING" /\ chan[q] \in ExitWakes(p)
                   => state'[q] = "RUNNABLE"
             /\ state'[p] = "ZOMBIE"
        BY <2>1 DEF Inherited, Wakeup1
    <2>3. state'[initproc] \in Alive
        BY <2>1, <2>2 DEF InitAlive
    <2>4. ASSUME NEW q \in Procs \ {initproc}, state'[q] \in Alive \cup {"ZOMBIE"}
          PROVE  parent'[q] \in Procs /\ state'[parent'[q]] \in Alive
      <3>1. parent[q] \in Procs /\ state[parent[q]] \in Alive
          BY <2>1, <2>2, <2>4
      <3>2. CASE parent[q] = p
          BY <2>2, <2>3, <3>2
      <3>3. CASE parent[q] # p
          BY <2>2, <3>1, <3>3
      <3> QED
          BY <3>2, <3>3
    <2> QED
        BY <2>4
<1>12. ASSUME NEW c \in CPUs, NEW p \in Procs, Wait(c, p)
      PROVE  ParentAlive'
    <2>1. CASE WaitReap(p)
        BY <1>12, <2>1 DEF Wait, WaitReap, First, Zombies, Children, Goto, Resumed, At, Acquire
    <2>2. CASE WaitFail(p)
        BY <1>12, <2>2 DEF Wait, WaitFail, First, Zombies, Children, Goto, Resumed, At, Acquire
    <2>3. CASE WaitSleep(c, p)
        BY <1>12, <2>3 DEF Wait, WaitSleep, First, Zombies, Children, Goto, Resumed, At, Acquire
    <2> QED
        BY <1>12, <2>1, <2>2, <2>3 DEF Wait
<1>13. ASSUME NEW c \in CPUs, NEW p \in Procs, KillAny(c, p)
      PROVE  ParentAlive'
    <2>1. PICK k \in KillPids : Kill(c, p, k)
        BY <1>13 DEF KillAny
    <2>2. CASE UNCHANGED <<state, killed>>
        BY <2>1, <2>2 DEF Kill, Goto
    <2>3. ASSUME NEW q \in Procs, pid[q] = k,
                 killed' = [killed EXCEPT ![q] = TRUE],
                 state' = [state EXCEPT ![q] = Killed(q)]
          PROVE  ParentAlive'
        BY <2>1, <2>3 DEF Kill, Killed, Goto, At, Acquire
    <2> QED
        BY <2>1, <2>2, <2>3 DEF Kill, First
<1>14. ASSUME NEW c \in CPUs, NEW p \in Procs, SleepAny(c, p)
      PROVE  ParentAlive'
    BY <1>14 DEF SleepAny, At, Acquire, Sleep, ToSched, Goto
<1>15. ASSUME NEW ch \in Chans, Wakeup(ch)
      PROVE  ParentAlive'
    BY <1>15 DEF Wakeup, Acquire, Wakeup1
<1> QED
    BY <1>1, <1>2, <1>3, <1>4, <1>5, <1>6, <1>7, <1>8, <1>9, <1>10, <1>11, <1>12, <1>13, <1>14, <1>15, StepCases

\* No exit is missed.
THEOREM WaitPreserved ==
    ASSUME TypeOK, OnCpu, ForkInv, WaitChan, NoMissedZombie, Next
    PROVE  WaitChan' /\ NoMissedZombie'
<1> USE SlotFacts, ProcAssumption DEF TypeOK, OnCpu, WaitChan, NoMissedZombie, Zombies, Children, procVars
<1>1. ASSUME NEW c \in CPUs, ScanStart(c) \/ ScanEnd(c)
      PROVE  WaitChan' /\ NoMissedZombie'
    BY <1>1 DEF ScanStart, ScanEnd, Acquire
<1>2. ASSUME NEW c \in CPUs, Dispatch(c)
      PROVE  WaitChan' /\ NoMissedZombie'
    BY <1>2 DEF Dispatch, First, Ahead, Slots
<1>3. ASSUME NEW c \in CPUs, NEW p \in Procs, Sched(c, p)
      PROVE  WaitChan' /\ NoMissedZombie'
    BY <1>3 DEF Sched, NextSlot
<1>4. ASSUME NEW c \in CPUs, NEW p \in Procs, Resume(c, p)
      PROVE  WaitChan' /\ NoMissedZombie'
    BY <1>4 DEF Resume, Resumed
<1>5. ASSUME NEW c \in CPUs, NEW p \in Procs, Yield(c, p)
      PROVE  WaitChan' /\ NoMissedZombie'
    BY <1>5 DEF Yield, ToSched, Acquire
<1>6. ASSUME NEW c \in CPUs, NEW p \in Procs,
             TrapEnter(c, p) \/ TrapReturn(c, p) \/ Fault(c, p)
             \/ SysExit(c, p) \/ BlockDone(c, p)
      PROVE  WaitChan' /\ NoMissedZombie'
    BY <1>6 DEF TrapEnter, TrapReturn, Fault, SysExit, BlockDone, At, Goto
<1>7. ASSUME NEW c \in CPUs, NEW p \in Procs, ForkAlloc(c, p)
      PROVE  WaitChan' /\ NoMissedZombie'
    <2>1. CASE Goto(p, "ret") /\ UNCHANGED <<state, pid, np, nextpid>>
        BY <1>7, <2>1 DEF ForkAlloc, Goto
    <2>2. ASSUME NEW q \in Procs, state[q] = "UNUSED",
                 state' = [state EXCEPT ![q] = "EMBRYO"],
                 pid' = [pid EXCEPT ![q] = nextpid],
                 np' = [np EXCEPT ![p] = q],
                 nextpid' = nextpid + 1,
                 Goto(p, "fork1")
          PROVE  WaitChan' /\ NoMissedZombie'
        BY <1>7, <2>2 DEF ForkAlloc, At, Acquire, Goto
    <2> QED
        BY <1>7, <2>1, <2>2 DEF ForkAlloc, First, Slots, NextPid
<1>8. ASSUME NEW c \in CPUs, NEW p \in Procs, ForkFail(c, p)
      PROVE  WaitChan' /\ NoMissedZombie'
    BY <1>8 DEF ForkFail, At, Goto
<1>9. ASSUME NEW c \in CPUs, NEW p \in Procs, ForkCopy(c, p)
      PROVE  WaitChan' /\ NoMissedZombie'
    BY <1>9 DEF ForkCopy, At, Goto
<1>10. ASSUME NEW c \in CPUs, NEW p \in Procs, ForkReady(c, p)
      PROVE  WaitChan' /\ NoMissedZombie'
    BY <1>10 DEF ForkReady, At, Acquire
<1>11. ASSUME NEW c \in CPUs, NEW p \in Procs, ExitZombie(c, p)
      PROVE  WaitChan' /\ NoMissedZombie'
    <2>1. /\ state[p] = "RUNNING" /\ pc[p] = "exit" /\ p # initproc
          /\ state' = [Wakeup1(ExitWakes(p)) EXCEPT ![p] = "ZOMBIE"]
          /\ parent' = Inherited(p)
          /\ UNCHANGED <<pid, chan, killed, pc, ctx, np>>
        BY <1>11 DEF ExitZombie, At, Acquire
    <2>2. \A q \in Procs :
             /\ parent'[q] = IF parent[q] = p THEN initproc ELSE parent[q]
             /\ q # p /\ ~(state[q] = "SLEEPING" /\ chan[q] \in ExitWakes(p))
                   => state'[q] = state[q]
             /\ q # p /\ state[q] = "SLEEPING" /\ chan[q] \in ExitWakes(p)
                   => state'[q] = "RUNNABLE"
             /\ state'[p] = "ZOMBIE"
        BY <2>1 DEF Inherited, Wakeup1
    <2>3. WaitChan'
        BY <2>1, <2>2
    <2>4. ASSUME NEW q \in Procs, state'[q] = "SLEEPING", pc'[q] = "wait",
                 NEW r \in Procs, parent'[r] = q, state'[r] = "ZOMBIE"
          PROVE  FALSE
      <3>1. q # p /\ state[q] = "SLEEPING" /\ pc[q] = "wait" /\ chan[q] = q
            /\ q \notin ExitWakes(p)
          BY <2>1, <2>2, <2>4
      <3>2. r = p \/ state[r] = "ZOMBIE"
          BY <2>2, <2>4
      <3>3. CASE parent[r] = p
          BY <2>1, <2>2, <2>4, <3>1, <3>2, <3>3 DEF ForkInv, ExitWakes
      <3>4. CASE parent[r] # p
          BY <2>1, <2>2, <2>4, <3>1, <3>2, <3>4 DEF ExitWakes
      <3> QED
          BY <3>3, <3>4
    <2>5. NoMissedZombie'
      <3>1. SUFFICES ASSUME NEW q \in Procs, state'[q] = "SLEEPING", pc'[q] = "wait"
                     PROVE  Zombies(q)' = {}
          BY DEF NoMissedZombie
      <3> QED
          BY <2>4, <3>1 DEF Zombies, Children
    <2> QED
        BY <2>3, <2>5
<1>12. ASSUME NEW c \in CPUs, NEW p \in Procs, Wait(c, p)
      PROVE  WaitChan' /\ NoMissedZombie'
    <2>1. CASE WaitReap(p)
        BY <1>12, <2>1 DEF Wait, WaitReap, First, Zombies, Children, Goto, Resumed, At, Acquire
    <2>2. CASE WaitFail(p)
        BY <1>12, <2>2 DEF Wait, WaitFail, First, Zombies, Children, Goto, Resumed, At, Acquire
    <2>3. CASE WaitSleep(c, p)
        BY <1>12, <2>3 DEF Wait, WaitSleep, First, Zombies, Children, Goto, Resumed, At, Acquire
    <2> QED
        BY <1>12, <2>1, <2>2, <2>3 DEF Wait
<1>13. ASSUME NEW c \in CPUs, NEW p \in Procs, KillAny(c, p)
      PROVE  WaitChan' /\ NoMissedZombie'
    <2>1. PICK k \in KillPids : Kill(c, p, k)
        BY <1>13 DEF KillAny
    <2>2. CASE UNCHANGED <<state, killed>>
        BY <2>1, <2>2 DEF Kill, Goto
    <2>3. ASSUME NEW q \in Procs, pid[q] = k,
                 killed' = [killed EXCEPT ![q] = TRUE],
                 state' = [state EXCEPT ![q] = Killed(q)]
          PROVE  WaitChan' /\ NoMissedZombie'
        BY <2>1, <2>3 DEF Kill, Killed, Goto, At, Acquire
    <2> QED
        BY <2>1, <2>2, <2>3 DEF Kill, First
<1>14. ASSUME NEW c \in CPUs, NEW p \in Procs, SleepAny(c, p)
      PROVE  WaitChan' /\ NoMissedZombie'
    BY <1>14 DEF SleepAny, At, Acquire, Sleep, ToSched, Goto
<1>15. ASSUME NEW ch \in Chans, Wakeup(ch)
      PROVE  WaitChan' /\ NoMissedZombie'
    BY <1>15 DEF Wakeup, Acquire, Wakeup1
<1> QED
    BY <1>1, <1>2, <1>3, <1>4, <1>5, <1>6, <1>7, <1>8, <1>9, <1>10, <1>11, <1>12, <1>13, <1>14, <1>15, StepCases

\* Pids name one slot.
THEOREM PidPreserved ==
    ASSUME TypeOK, PidInv, ForkInv, OnCpu, Next
    PROVE  PidInv'
<1> USE SlotFacts, ProcAssumption DEF TypeOK, PidInv, OnCpu, procVars
<1>1. ASSUME NEW c \in CPUs, ScanStart(c) \/ ScanEnd(c)
      PROVE  PidInv'
    BY <1>1 DEF ScanStart, ScanEnd, Acquire
<1>2. ASSUME NEW c \in CPUs, Dispatch(c)
      PROVE  PidInv'
    BY <1>2 DEF Dispatch, First, Ahead, Slots
<1>3. ASSUME NEW c \in CPUs, NEW p \in Procs, Sched(c, p)
      PROVE  PidInv'
    BY <1>3 DEF Sched, NextSlot
<1>4. ASSUME NEW c \in CPUs, NEW p \in Procs, Resume(c, p)
      PROVE  PidInv'
    BY <1>4 DEF Resume, Resumed
<1>5. ASSUME NEW c \in CPUs, NEW p \in Procs, Yield(c, p)
      PROVE  PidInv'
    BY <1>5 DEF Yield, ToSched, Acquire
<1>6. ASSUME NEW c \in CPUs, NEW p \in Procs,
             TrapEnter(c, p) \/ TrapReturn(c, p) \/ Fault(c, p)
             \/ SysExit(c, p) \/ BlockDone(c, p)
      PROVE  PidInv'
    BY <1>6 DEF TrapEnter, TrapReturn, Fault, SysExit, BlockDone, At, Goto
<1>7. ASSUME NEW c \in CPUs, NEW p \in Procs, ForkAlloc(c, p)
      PROVE  PidInv'
    <2>1. CASE Goto(p, "ret") /\ UNCHANGED <<state, pid, np, nextpid>>
        BY <1>7, <2>1 DEF ForkAlloc, Goto
    <2>2. ASSUME NEW q \in Procs, state[q] = "UNUSED",
                 state' = [state EXCEPT ![q] = "EMBRYO"],
                 pid' = [pid EXCEPT ![q] = nextpid],
                 np' = [np EXCEPT ![p] = q],
                 nextpid' = nextpid + 1,
                 Goto(p, "fork1")
          PROVE  PidInv'
        BY <1>7, <2>2 DEF ForkAlloc, At, Acquire, Goto
    <2> QED
        BY <1>7, <2>1, <2>2 DEF ForkAlloc, First, Slots, NextPid
<1>8. ASSUME NEW c \in CPUs, NEW p \in Procs, ForkFail(c, p)
      PROVE  PidInv'
    BY <1>8 DEF ForkFail, At, Acquire, ForkInv, InFork
<1>9. ASSUME NEW c \in CPUs, NEW p \in Procs, ForkCopy(c, p)
      PROVE  PidInv'
    BY <1>9 DEF ForkCopy, At, Goto
<1>10. ASSUME NEW c \in CPUs, NEW p \in Procs, ForkReady(c, p)
      PROVE  PidInv'
    BY <1>10 DEF ForkReady, At, Acquire, ForkInv, InFork
<1>11. ASSUME NEW c \in CPUs, NEW p \in Procs, ExitZombie(c, p)
      PROVE  PidInv'
    BY <1>11 DEF ExitZombie, At, Acquire, ToSched, Inherited, Wakeup1
<1>12. ASSUME NEW c \in CPUs, NEW p \in Procs, Wait(c, p)
      PROVE  PidInv'
    <2>1. CASE WaitReap(p)
        BY <1>12, <2>1 DEF Wait, WaitReap, First, Zombies, Children, Goto, Resumed, At, Acquire
    <2>2. CASE WaitFail(p)
        BY <1>12, <2>2 DEF Wait, WaitFail, First, Zombies, Children, Goto, Resumed, At, Acquire
    <2>3. CASE WaitSleep(c, p)
        BY <1>12, <2>3 DEF Wait, WaitSleep, First, Zombies, Children, Goto, Resumed, At, Acquire
    <2> QED
        BY <1>12, <2>1, <2>2, <2>3 DEF Wait
<1>13. ASSUME NEW c \in CPUs, NEW p \in Procs, KillAny(c, p)
      PROVE  PidInv'
    <2>1. PICK k \in KillPids : Kill(c, p, k)
        BY <1>13 DEF KillAny
    <2>2. CASE UNCHANGED <<state, killed>>
        BY <2>1, <2>2 DEF Kill, Goto
    <2>3. ASSUME NEW q \in Procs, pid[q] = k,
                 killed' = [killed EXCEPT ![q] = TRUE],
                 state' = [state EXCEPT ![q] = Killed(q)]
          PROVE  PidInv'
        BY <2>1, <2>3 DEF Kill, Killed, Goto, At, Acquire
    <2> QED
        BY <2>1, <2>2, <2>3 DEF Kill, First
<1>14. ASSUME NEW c \in CPUs, NEW p \in Procs, SleepAny(c, p)
      PROVE  PidInv'
    BY <1>14 DEF SleepAny, At, Acquire, Sleep, ToSched, Goto
<1>15. ASSUME NEW ch \in Chans, Wakeup(ch)
      PROVE  PidInv'
    BY <1>15 DEF Wakeup, Acquire, Wakeup1
<1> QED
    BY <1>1, <1>2, <1>3, <1>4, <1>5, <1>6, <1>7, <1>8, <1>9, <1>10, <1>11, <1>12, <1>13, <1>14, <1>15, StepCases

-----------------------------------------------------------------------------
(***************************************************************************)
(* The invariant, and what follows from it.                                *)
(***************************************************************************)

\* It holds after userinit().
LEMMA InitEstablishes == Init => ProcIInv
<1> SUFFICES ASSUME Init PROVE ProcIInv
    OBVIOUS
<1> USE SlotFacts DEF Init
<1>1. TypeOK
    BY SlotRange DEF TypeOK, States, Points, initproc
<1>2. OnCpu /\ StackSafe /\ InitAlive
    BY DEF OnCpu, StackSafe, InitAlive, Alive
<1>3. ForkInv /\ ParentAlive
    BY DEF ForkInv, InFork, ParentAlive, Alive
<1>4. WaitChan /\ NoMissedZombie
    BY DEF WaitChan, NoMissedZombie
<1>5. PidInv
    BY DEF PidInv
<1> QED
    BY <1>1, <1>2, <1>3, <1>4, <1>5 DEF ProcIInv

\* The invariant holds in every reachable state, for any number of slots,
\* processors and sleep channels.
THEOREM ProcInvariant == Spec => []ProcIInv
<1>1. ProcIInv /\ Next => ProcIInv'
    BY TypePreserved, OnCpuPreserved, InitPreserved, ForkPreserved,
       ParentPreserved, WaitPreserved, PidPreserved DEF ProcIInv
<1>2. ProcIInv /\ UNCHANGED vars => ProcIInv'
    BY DEF ProcIInv, TypeOK, OnCpu, StackSafe, InitAlive, ForkInv, InFork,
           ParentAlive, WaitChan, NoMissedZombie, PidInv, Zombies, Children,
           vars, procVars
<1> QED
    BY InitEstablishes, <1>1, <1>2, PTL DEF Spec

\* No CPU is on the stack of a process that does not run, and no two CPUs are
\* on the same stack (sched() and the lock it is entered with).
COROLLARY OnCpuHolds == Spec => []OnCpu
<1>1. ProcIInv => OnCpu
    BY DEF ProcIInv
<1> QED
    BY ProcInvariant, <1>1, PTL

\* wait() and fork() never free or reuse a stack some CPU is on.
COROLLARY StackSafeHolds == Spec => []StackSafe
<1>1. ProcIInv => StackSafe
    BY DEF ProcIInv
<1> QED
    BY ProcInvariant, <1>1, PTL

\* exit() leaves no process without a parent that can reap it.
COROLLARY ParentAliveHolds == Spec => []ParentAlive
<1>1. ProcIInv => ParentAlive
    BY DEF ProcIInv
<1> QED
    BY ProcInvariant, <1>1, PTL

\* No process sleeps in wait() while it has a ZOMBIE child.
COROLLARY NoMissedZombieHolds == Spec => []NoMissedZombie
<1>1. ProcIInv => NoMissedZombie
    BY DEF ProcIInv
<1> QED
    BY ProcInvariant, <1>1, PTL

\* kill() cannot mistake a stale slot for the live process with its pid.
COROLLARY KillFindsHolds == Spec => []KillFindsTheLiveOne
<1>1. ProcIInv => KillFindsTheLiveOne
    BY DEF ProcIInv, PidInv, KillFindsTheLiveOne
<1> QED
    BY ProcInvariant, <1>1, PTL

\* Only the parent, inside wait(), takes a process out of the ZOMBIE state.
LEMMA ZombieStep ==
    ASSUME ProcIInv, Next, NEW z \in Procs, state[z] = "ZOMBIE"
    PROVE  \/ state'[z] = "ZOMBIE"
           \/ state'[z] = "UNUSED" /\ \E c \in CPUs : cproc[c] = parent[z]
<1> USE SlotFacts DEF TypeOK, procVars
<1>0. TypeOK /\ OnCpu /\ ForkInv
    BY DEF ProcIInv
<1>1. ASSUME NEW c \in CPUs, NEW p \in Procs, Wait(c, p)
      PROVE  \/ state'[z] = "ZOMBIE"
             \/ state'[z] = "UNUSED" /\ cproc[c] = parent[z]
    <2>1. cproc[c] = p /\ state[p] = "RUNNING"
        BY <1>0, <1>1 DEF Wait, At, Acquire, Resumed, OnCpu
    <2>2. CASE WaitReap(p)
        BY <1>0, <2>1, <2>2 DEF WaitReap, First, Zombies, Children
    <2>3. CASE WaitFail(p)
        BY <2>3 DEF WaitFail
    <2>4. CASE WaitSleep(c, p)
        BY <1>0, <2>1, <2>4 DEF WaitSleep
    <2> QED
        BY <1>1, <2>2, <2>3, <2>4 DEF Wait
<1>2. ASSUME NEW c \in CPUs, NEW p \in Procs,
             ExitZombie(c, p) \/ KillAny(c, p) \/ SleepAny(c, p)
             \/ Yield(c, p) \/ Sched(c, p) \/ Resume(c, p)
      PROVE  state'[z] = "ZOMBIE"
    <2>1. CASE ExitZombie(c, p)
        BY <1>0, <2>1 DEF ExitZombie, Wakeup1
    <2>2. CASE KillAny(c, p)
        BY <1>0, <2>2 DEF KillAny, Kill, Killed, First
    <2>3. CASE SleepAny(c, p) \/ Yield(c, p)
        BY <1>0, <2>3 DEF SleepAny, Sleep, Yield, At, Acquire, OnCpu
    <2>4. CASE Sched(c, p) \/ Resume(c, p)
        BY <2>4 DEF Sched, Resume
    <2> QED
        BY <1>2, <2>1, <2>2, <2>3, <2>4
<1>3. ASSUME NEW c \in CPUs, NEW p \in Procs,
             ForkAlloc(c, p) \/ ForkFail(c, p) \/ ForkReady(c, p)
      PROVE  state'[z] = "ZOMBIE"
    BY <1>0, <1>3 DEF ForkAlloc, ForkFail, ForkReady, First, Slots, At,
                      ForkInv, InFork
<1>4. ASSUME NEW c \in CPUs, NEW p \in Procs,
             TrapEnter(c, p) \/ TrapReturn(c, p) \/ Fault(c, p)
             \/ ForkCopy(c, p) \/ SysExit(c, p) \/ BlockDone(c, p)
      PROVE  state'[z] = "ZOMBIE"
    BY <1>4 DEF TrapEnter, TrapReturn, Fault, ForkCopy, SysExit, BlockDone
<1>5. ASSUME NEW c \in CPUs, ScanStart(c) \/ Dispatch(c) \/ ScanEnd(c)
      PROVE  state'[z] = "ZOMBIE"
    BY <1>0, <1>5 DEF ScanStart, Dispatch, ScanEnd, First, Ahead, Slots
<1>6. ASSUME NEW ch \in Chans, Wakeup(ch)
      PROVE  state'[z] = "ZOMBIE"
    BY <1>6 DEF Wakeup, Wakeup1
<1> QED
    BY <1>1, <1>2, <1>3, <1>4, <1>5, <1>6, StepCases

\* A dead process is not brought back by a kill or a wakeup.
THEOREM ZombieStaysHolds == Spec => ZombieStays
<1>1. ProcIInv /\ [Next]_vars =>
        [\A p \in Procs : state[p] = "ZOMBIE" =>
           \/ state'[p] = "ZOMBIE"
           \/ state'[p] = "UNUSED" /\ \E c \in CPUs : cproc[c] = parent[p]]_vars
    BY ZombieStep
<1> QED
    BY ProcInvariant, <1>1, PTL DEF Spec, ZombieStays
-----------------------------------------------------------------------------
(***************************************************************************)
(* Frames and address spaces (module Memory).                              *)
(***************************************************************************)
\* Addresses, pages and tables.
LEMMA Sizes ==
    /\ PGSIZE \in Nat /\ PGSIZE > 0 /\ NPTENTRIES \in Nat /\ NPTENTRIES > 0
    /\ KERNBASE \in Nat /\ KERNBASE > PGSIZE /\ ADDRESSES \in Nat /\ 2 * KERNBASE <= ADDRESSES
    /\ NFRAMES \in Nat /\ NFRAMES >= 5
    BY MemoryAssumption

LEMMA Division ==
    ASSUME NEW d \in Nat, d > 0
    PROVE  /\ \A a \in Nat : /\ a \div d \in Nat /\ (a \div d) * d <= a /\ a < (a \div d) * d + d
                             /\ a % d = a - (a \div d) * d
           /\ \A k \in Nat : k * d \in Nat /\ (k * d) \div d = k /\ (k * d) % d = 0
           /\ \A n, k \in Nat : n < k <=> n * d < k * d
           /\ \A k \in Nat : (k + 1) * d = k * d + d
<1>1. \A a \in Nat : /\ a \div d \in Nat /\ (a \div d) * d <= a /\ a < (a \div d) * d + d
                     /\ a % d = a - (a \div d) * d
  OBVIOUS
<1>2. \A k \in Nat : k * d \in Nat /\ (k * d) \div d = k /\ (k * d) % d = 0
  OBVIOUS
<1>3. \A n, k \in Nat : n < k <=> n * d < k * d
  OBVIOUS
<1>4. \A k \in Nat : (k + 1) * d = k * d + d
  OBVIOUS
<1> QED BY <1>1, <1>2, <1>3, <1>4

\* A multiple of the page size that is below a + PGSIZE is the next one from a.
LEMMA Multiples ==
    \A a \in Nat : Aligned(a) => PN(a) \in Nat /\ a = PN(a) * PGSIZE
    BY Sizes, Division DEF Aligned, PN

LEMMA Rounded ==
    ASSUME NEW a \in Nat
    PROVE  /\ RoundUp(a) \in Nat /\ Aligned(RoundUp(a))
           /\ a <= RoundUp(a) /\ RoundUp(a) < a + PGSIZE
<1> DEFINE k == (a + PGSIZE - 1) \div PGSIZE
<1>1. a + PGSIZE - 1 \in Nat
  BY Sizes
<1>2. k \in Nat /\ k * PGSIZE <= a + PGSIZE - 1 /\ a + PGSIZE - 1 < k * PGSIZE + PGSIZE
  BY <1>1, Sizes, Division
<1>3. k * PGSIZE \in Nat /\ (k * PGSIZE) % PGSIZE = 0
  BY <1>2, Sizes, Division
<1>4. RoundUp(a) = k * PGSIZE
  BY DEF RoundUp
<1> QED BY <1>2, <1>3, <1>4, Sizes DEF Aligned

\* From a to the next multiple of the page size no page begins.
LEMMA SamePages ==
    ASSUME NEW a \in Nat, NEW b \in Nat, Aligned(b), a <= b, b < a + PGSIZE
    PROVE  Under(b) = Under(a)
<1>1. PICK k \in Nat : b = k * PGSIZE
  BY Multiples
<1>2. ASSUME NEW n \in Page PROVE n * PGSIZE < b <=> n * PGSIZE < a
  <2>1. n \in Nat
    BY DEF Page
  <2>2. n < k <=> n * PGSIZE < k * PGSIZE
    BY <1>1, <2>1, Sizes, Division
  <2>3. CASE n < k
    <3>1. n + 1 <= k /\ (n + 1) * PGSIZE = n * PGSIZE + PGSIZE
      BY <1>1, <2>1, <2>3, Sizes, Division
    <3>2. n + 1 = k \/ n + 1 < k
      BY <1>1, <2>1, <3>1
    <3>3. (n + 1) * PGSIZE <= k * PGSIZE
      <4>1. n + 1 < k => (n + 1) * PGSIZE < k * PGSIZE
        BY <1>1, <2>1, Sizes, Division
      <4> QED BY <1>1, <2>1, <3>2, <4>1, Sizes, Division
    <3>4. n * PGSIZE \in Nat
      BY <2>1, Sizes, Division
    <3> QED BY <1>1, <2>2, <2>3, <3>1, <3>3, <3>4, Sizes
  <2>4. CASE ~(n < k)
    <3>1. n * PGSIZE \in Nat
      BY <2>1, Sizes, Division
    <3> QED BY <1>1, <2>2, <2>4, <3>1
  <2> QED BY <2>3, <2>4
<1> QED BY <1>2 DEF Under

\* The address space ends at the end of a page and of a table.
LEMMA Whole ==
    /\ Aligned(KERNBASE) /\ KERNBASE \div PGSIZE \in Nat
    /\ KERNBASE = (KERNBASE \div PGSIZE) * PGSIZE
    /\ KTable \in Nat /\ KERNBASE \div PGSIZE = KTable * NPTENTRIES
    /\ 0 \in Page
<1>1. PGSIZE * NPTENTRIES \in Nat /\ PGSIZE * NPTENTRIES > 0
  BY Sizes
<1>2. KTable \in Nat /\ KERNBASE = KTable * (PGSIZE * NPTENTRIES)
  <2>1. KERNBASE % (PGSIZE * NPTENTRIES) = 0
    BY MemoryAssumption
  <2> QED BY <1>1, <2>1, Sizes, Division DEF KTable
<1>3. KTable * NPTENTRIES \in Nat /\ KERNBASE = (KTable * NPTENTRIES) * PGSIZE
  BY <1>2, Sizes
<1>4. KERNBASE \div PGSIZE = KTable * NPTENTRIES /\ KERNBASE % PGSIZE = 0
  BY <1>3, Sizes, Division
<1>5. KERNBASE \div PGSIZE # 0
  BY <1>3, <1>4, Sizes
<1> QED BY <1>2, <1>3, <1>4, <1>5 DEF Aligned, Page

LEMMA PageFacts ==
    \A n \in Page : /\ n \in Nat /\ n < KERNBASE \div PGSIZE
                    /\ n * PGSIZE \in Nat /\ n * PGSIZE < KERNBASE
<1>1. ASSUME NEW n \in Page PROVE n \in Nat /\ n < KERNBASE \div PGSIZE
  BY Whole DEF Page
<1>2. ASSUME NEW n \in Page PROVE n * PGSIZE \in Nat /\ n * PGSIZE < KERNBASE
  <2>1. n * PGSIZE < (KERNBASE \div PGSIZE) * PGSIZE
    BY <1>1, Whole, Sizes, Division
  <2> QED BY <1>1, <2>1, Whole, Sizes, Division
<1> QED BY <1>1, <1>2

\* The page at an aligned address, and the address of the page after it.
LEMMA ThisPage ==
    ASSUME NEW a \in Nat, Aligned(a), a < KERNBASE
    PROVE  /\ PN(a) \in Page /\ PN(a) * PGSIZE = a /\ PN(a) \notin Under(a)
           /\ a + PGSIZE \in Nat /\ Aligned(a + PGSIZE) /\ a + PGSIZE <= KERNBASE
           /\ Under(a + PGSIZE) = Under(a) \cup {PN(a)}
<1> DEFINE k == PN(a)
<1>1. k \in Nat /\ a = k * PGSIZE
  BY Multiples
<1>2. (k + 1) * PGSIZE = a + PGSIZE /\ k + 1 \in Nat
  BY <1>1, Sizes, Division
<1>3. k < KERNBASE \div PGSIZE
  BY <1>1, Whole, Sizes, Division
<1>4. k \in Page
  BY <1>1, <1>3, Whole DEF Page
<1>5. a + PGSIZE <= KERNBASE
  <2>1. k + 1 = KERNBASE \div PGSIZE \/ k + 1 < KERNBASE \div PGSIZE
    BY <1>1, <1>3, Whole
  <2>2. k + 1 < KERNBASE \div PGSIZE => (k + 1) * PGSIZE < (KERNBASE \div PGSIZE) * PGSIZE
    BY <1>2, Whole, Sizes, Division
  <2> QED BY <1>2, <2>1, <2>2, Whole, Sizes
<1>6. Aligned(a + PGSIZE)
  <2>1. ((k + 1) * PGSIZE) % PGSIZE = 0
    BY <1>2, Sizes, Division
  <2> QED BY <1>2, <2>1 DEF Aligned
<1>7. ASSUME NEW n \in Page
      PROVE  /\ n * PGSIZE < a <=> n < k
             /\ n * PGSIZE < a + PGSIZE <=> n < k + 1
  <2>1. n \in Nat
    BY PageFacts
  <2>2. n < k <=> n * PGSIZE < k * PGSIZE
    BY <1>1, <2>1, Sizes, Division
  <2>3. n < k + 1 <=> n * PGSIZE < (k + 1) * PGSIZE
    BY <1>2, <2>1, Sizes, Division
  <2> QED BY <1>1, <1>2, <2>2, <2>3
<1>8. ASSUME NEW n \in Page PROVE n < k + 1 <=> n < k \/ n = k
  BY <1>1, PageFacts
<1>9. k \notin Under(a)
  BY <1>1, <1>4 DEF Under
<1>10. Under(a + PGSIZE) = Under(a) \cup {k}
  BY <1>4, <1>7, <1>8 DEF Under
<1> HIDE DEF k
<1> QED BY <1>1, <1>2, <1>4, <1>5, <1>6, <1>9, <1>10, Sizes DEF k

\* The table of a page is not that of the kernel.
LEMMA TableFacts ==
    \A n \in Page : PDX(n) \in Table /\ PDX(n) \in Nat /\ PDX(n) < KTable
<1> SUFFICES ASSUME NEW n \in Page
             PROVE  PDX(n) \in Table /\ PDX(n) \in Nat /\ PDX(n) < KTable
  OBVIOUS
<1>1. n \in Nat /\ n < KTable * NPTENTRIES
  BY PageFacts, Whole
<1>2. PDX(n) \in Nat /\ PDX(n) * NPTENTRIES <= n
  BY <1>1, Sizes, Division DEF PDX
<1>3. PDX(n) * NPTENTRIES \in Nat /\ KTable * NPTENTRIES \in Nat
  BY <1>2, Whole, Sizes, Division
<1>4. PDX(n) * NPTENTRIES < KTable * NPTENTRIES
  BY <1>1, <1>2, <1>3
<1>5. PDX(n) < KTable
  BY <1>2, <1>4, Whole, Sizes, Division
<1> QED BY <1>2, <1>5, Whole DEF Table

\* Where the table after that of page n begins.
LEMMA NextTable ==
    ASSUME NEW n \in Page, NEW b, b = (PDX(n) + 1) * NPTENTRIES * PGSIZE
    PROVE  /\ b \in Nat /\ Aligned(b) /\ b <= KERNBASE /\ n * PGSIZE < b
           /\ \A k \in Page : n <= k /\ k * PGSIZE < b => PDX(k) = PDX(n)
<1> DEFINE t == PDX(n)
<1> DEFINE e == (t + 1) * NPTENTRIES
<1>1. n \in Nat /\ t \in Nat /\ t < KTable /\ t * NPTENTRIES <= n /\ n < t * NPTENTRIES + NPTENTRIES
  BY PageFacts, TableFacts, Sizes, Division DEF PDX
<1>2. e \in Nat /\ e = t * NPTENTRIES + NPTENTRIES /\ b = e * PGSIZE
  BY <1>1, Sizes, Division
<1>3. b \in Nat /\ b % PGSIZE = 0
  BY <1>2, Sizes, Division
<1>4. b <= KERNBASE
  <2>1. e <= KTable * NPTENTRIES
    <3>1. t + 1 = KTable \/ t + 1 < KTable
      BY <1>1, Whole
    <3>2. t + 1 < KTable => (t + 1) * NPTENTRIES < KTable * NPTENTRIES
      BY <1>1, Whole, Sizes, Division
    <3> QED BY <1>2, <3>1, <3>2, Whole, Sizes, Division
  <2> DEFINE m == KERNBASE \div PGSIZE
  <2>2. m \in Nat /\ e <= m /\ m * PGSIZE = KERNBASE
    BY <2>1, Whole
  <2> HIDE DEF m, e
  <2>3. e = m \/ e < m
    BY <1>2, <2>2
  <2>4. e < m => e * PGSIZE < m * PGSIZE
    BY <1>2, <2>2, Sizes, Division
  <2> QED BY <1>2, <1>3, <2>2, <2>3, <2>4, Sizes
<1>5. ASSUME NEW k \in Page PROVE k * PGSIZE < b <=> k < e
  BY <1>2, PageFacts, Sizes, Division
<1>6. n * PGSIZE < b
  BY <1>1, <1>2, <1>5
<1>7. ASSUME NEW k \in Page, n <= k, k * PGSIZE < b PROVE PDX(k) = t
  <2>1. k \in Nat /\ t * NPTENTRIES <= k /\ k < t * NPTENTRIES + NPTENTRIES
    <3>1. t * NPTENTRIES \in Nat
      BY <1>1, Sizes, Division
    <3> QED BY <1>1, <1>2, <1>5, <1>7, <3>1, PageFacts
  <2> DEFINE d == k \div NPTENTRIES
  <2>2. d \in Nat /\ d * NPTENTRIES <= k /\ k < d * NPTENTRIES + NPTENTRIES
    BY <2>1, Sizes, Division
  <2>3. d < t + 1 /\ t < d + 1
    <3>1. /\ d * NPTENTRIES \in Nat /\ t * NPTENTRIES \in Nat
          /\ (t + 1) * NPTENTRIES = t * NPTENTRIES + NPTENTRIES
          /\ (d + 1) * NPTENTRIES = d * NPTENTRIES + NPTENTRIES
      BY <1>1, <2>2, Sizes, Division
    <3>2. d * NPTENTRIES < (t + 1) * NPTENTRIES /\ t * NPTENTRIES < (d + 1) * NPTENTRIES
      BY <2>1, <2>2, <3>1, Sizes
    <3>3. t + 1 \in Nat /\ d + 1 \in Nat
      BY <1>1, <2>2
    <3> HIDE DEF t, d
    <3> QED BY <1>1, <2>2, <3>2, <3>3, Sizes, Division
  <2>4. d = t
    BY <1>1, <2>2, <2>3
  <2> QED BY <2>4 DEF PDX
<1> QED BY <1>3, <1>4, <1>6, <1>7 DEF Aligned

-----------------------------------------------------------------------------
\* The frames, and the places that hold them.  OneOwner is FramesOwned without
\* cardinalities, of any places h and any free list fr.
OneOwner(h, fr) ==
    /\ \A x \in Places : h[x] # 0 => h[x] \in Frame \ fr
    /\ \A x, y \in Places : h[x] = h[y] /\ h[x] # 0 => x = y
    /\ \A f \in Frame \ fr : \E x \in Places : h[x] = f

Held == [x \in Places |-> HeldAt(x)]

LEMMA Triples ==
    ASSUME NEW A, NEW B, NEW C, IsFiniteSet(A), IsFiniteSet(B), IsFiniteSet(C)
    PROVE  IsFiniteSet(A \X B \X C)
<1> DEFINE S == (A \X B) \X C
<1> DEFINE f == [x \in S |-> <<x[1][1], x[1][2], x[2]>>]
<1>1. IsFiniteSet(A \X B)
  BY FS_Product
<1>2. IsFiniteSet(S)
  BY <1>1, FS_Product
<1>3. f \in [S -> A \X B \X C]
  OBVIOUS
<1>4. ASSUME NEW t \in A \X B \X C PROVE \E x \in S : f[x] = t
  <2>1. <<<<t[1], t[2]>>, t[3]>> \in S /\ f[<<<<t[1], t[2]>>, t[3]>>] = t
    OBVIOUS
  <2> QED BY <2>1
<1>5. f \in Surjection(S, A \X B \X C)
  BY <1>3, <1>4 DEF Surjection
<1> HIDE DEF f, S
<1> QED BY <1>2, <1>5, FS_Surjection

LEMMA PlacesFinite == IsFiniteSet(Places)
<1>1. IsFiniteSet(MProcs)
  BY MemoryAssumption
<1>2. /\ IsFiniteSet({"kstack", "mem"}) /\ IsFiniteSet({"cur", "new"})
      /\ IsFiniteSet({<<"frame", 0>>}) /\ IsFiniteSet({<<"dir", 0>>})
      /\ IsFiniteSet({"tab"}) /\ IsFiniteSet({"page"})
  <2>1. IsFiniteSet({"kstack"} \cup {"mem"}) /\ IsFiniteSet({"cur"} \cup {"new"})
    BY FS_Singleton, FS_Union
  <2>2. {"kstack", "mem"} = {"kstack"} \cup {"mem"} /\ {"cur", "new"} = {"cur"} \cup {"new"}
    OBVIOUS
  <2>3. IsFiniteSet({"kstack", "mem"}) /\ IsFiniteSet({"cur", "new"})
    BY <2>1, <2>2, Zenon
  <2> QED BY <2>3, FS_Singleton
<1>3. IsFiniteSet(Table) /\ IsFiniteSet(Page)
  <2>1. KTable \in Int /\ (KERNBASE \div PGSIZE) - 1 \in Int
    BY Whole
  <2> QED BY <2>1, FS_Interval DEF Table, Page
<1>4. IsFiniteSet({"tab"} \X Table) /\ IsFiniteSet({"page"} \X Page)
  BY <1>2, <1>3, FS_Product
<1>5. IsFiniteSet(Part)
  <2>1. IsFiniteSet({<<"dir", 0>>} \cup {"tab"} \X Table)
    BY <1>2, <1>4, FS_Union
  <2> QED BY <1>4, <2>1, FS_Union DEF Part
<1>6. /\ IsFiniteSet(MProcs \X {"kstack", "mem"} \X {<<"frame", 0>>})
      /\ IsFiniteSet(MProcs \X {"cur", "new"} \X Part)
  BY <1>1, <1>2, <1>5, Triples
<1> QED BY <1>6, FS_Union DEF Places

LEMMA OwnedOnce ==
    ASSUME \A x \in Places : HeldAt(x) \in Frame \cup {0}
    PROVE  FramesOwned <=> OneOwner(Held, free)
<1> DEFINE T == Frame \ free
<1> DEFINE h == [x \in Holding |-> HeldAt(x)]
<1>1. IsFiniteSet(Holding)
  BY PlacesFinite, FS_Subset DEF Holding
<1>2. 0 \notin Frame
  BY DEF Frame
<1>3. ASSUME FramesOwned PROVE OneOwner(Held, free)
  <2>1. {HeldAt(x) : x \in Holding} = T /\ Cardinality(Holding) = Cardinality(T)
    BY <1>3 DEF FramesOwned
  <2>2. h \in Surjection(Holding, T)
    BY <2>1 DEF Surjection
  <2> HIDE DEF h, T
  <2>3. h \in Injection(Holding, T)
    BY <1>1, <2>1, <2>2, FS_Surjection
  <2> USE DEF h, T
  <2>4. \A x, y \in Holding : HeldAt(x) = HeldAt(y) => x = y
    BY <2>3 DEF Injection, IsInjective
  <2>5. \A x \in Places : HeldAt(x) # 0 => x \in Holding /\ HeldAt(x) \in T
    BY <2>1 DEF Holding
  <2>6. \A f \in T : \E x \in Places : HeldAt(x) = f
    BY <2>1 DEF Holding
  <2> QED BY <2>4, <2>5, <2>6 DEF OneOwner, Held
<1>4. ASSUME OneOwner(Held, free) PROVE FramesOwned
  <2>1. \A x \in Holding : x \in Places /\ HeldAt(x) # 0 /\ HeldAt(x) \in T
    BY <1>4 DEF OneOwner, Held, Holding
  <2>2. \A f \in T : \E x \in Holding : HeldAt(x) = f
    BY <1>2, <1>4 DEF OneOwner, Held, Holding
  <2>3. h \in Surjection(Holding, T)
    BY <2>1, <2>2 DEF Surjection
  <2>4. \A x, y \in Holding : HeldAt(x) = HeldAt(y) => x = y
    BY <1>4, <2>1 DEF OneOwner, Held
  <2>5. h \in Injection(Holding, T)
    BY <2>1, <2>4 DEF Injection, IsInjective
  <2>6. {HeldAt(x) : x \in Holding} = T
    BY <2>1, <2>2
  <2> HIDE DEF h, T
  <2>7. Cardinality(T) = Cardinality(Holding)
    BY <1>1, <2>3, <2>5, FS_Surjection
  <2> USE DEF T
  <2> QED BY <2>6, <2>7 DEF FramesOwned
<1> QED BY <1>3, <1>4

\* kalloc() gives a frame to a place that holds none ...
LEMMA Given ==
    ASSUME NEW h, NEW g, NEW fr, OneOwner(h, fr), fr \subseteq Frame,
           NEW x \in Places, h[x] = 0, NEW f \in fr,
           \A y \in Places : g[y] = IF y = x THEN f ELSE h[y]
    PROVE  OneOwner(g, fr \ {f})
<1>1. f \in Frame /\ f # 0 /\ \A y \in Places : h[y] # f
  <2>1. f \in Frame /\ f # 0
    BY DEF Frame
  <2>2. ASSUME NEW y \in Places PROVE h[y] # f
    BY <2>1 DEF OneOwner
  <2> QED
    BY <2>1, <2>2
<1>2. \A y \in Places : g[y] # 0 => g[y] \in Frame \ (fr \ {f})
  BY <1>1 DEF OneOwner
<1>3. \A y, z \in Places : g[y] = g[z] /\ g[y] # 0 => y = z
  BY <1>1 DEF OneOwner
<1>4. ASSUME NEW e \in Frame \ (fr \ {f}) PROVE \E y \in Places : g[y] = e
  <2>1. CASE e = f
    <3>1. g[x] = f
      OBVIOUS
    <3> QED BY <2>1, <3>1
  <2>2. CASE e # f
    <3>1. PICK y \in Places : h[y] = e
      BY <2>2 DEF OneOwner
    <3>2. y # x
      BY <1>1, <3>1 DEF Frame
    <3> QED BY <3>1, <3>2
  <2> QED BY <2>1, <2>2
<1> QED BY <1>2, <1>3, <1>4 DEF OneOwner

\* ... kfree() takes it away ...
LEMMA TakenBack ==
    ASSUME NEW h, NEW g, NEW fr, OneOwner(h, fr), fr \subseteq Frame,
           NEW x \in Places, \A y \in Places : h[y] \in Frame \cup {0},
           \A y \in Places : g[y] = IF y = x THEN 0 ELSE h[y]
    PROVE  OneOwner(g, fr \cup ({h[x]} \ {0}))
    BY DEF OneOwner, Frame

\* ... and nothing else: what two places hold can change places.
LEMMA Swapped ==
    ASSUME NEW h, NEW g, NEW fr, OneOwner(h, fr),
           NEW s, \A y \in Places : s[y] \in Places /\ s[s[y]] = y /\ g[y] = h[s[y]]
    PROVE  OneOwner(g, fr)
<1>1. \A x \in Places : g[x] # 0 => g[x] \in Frame \ fr
  BY DEF OneOwner
<1>2. \A x, y \in Places : g[x] = g[y] /\ g[x] # 0 => x = y
  BY DEF OneOwner
<1>3. ASSUME NEW f \in Frame \ fr PROVE \E x \in Places : g[x] = f
  <2>1. PICK y \in Places : h[y] = f
    BY DEF OneOwner
  <2>2. g[s[y]] = f
    BY <2>1
  <2> QED BY <2>2
<1> QED BY <1>1, <1>2, <1>3 DEF OneOwner

-----------------------------------------------------------------------------
\* The places, by what they are.
StackOf(p)    == <<p, "kstack", <<"frame", 0>>>>
MemOf(p)      == <<p, "mem", <<"frame", 0>>>>
CurPart(p, k) == <<p, "cur", k>>
NewPart(p, k) == <<p, "new", k>>

LEMMA PlacesThere ==
    \A p \in MProcs :
       /\ StackOf(p) \in Places /\ MemOf(p) \in Places
       /\ \A k \in Part : CurPart(p, k) \in Places /\ NewPart(p, k) \in Places
    BY DEF Places, StackOf, MemOf, CurPart, NewPart

LEMMA PlaceCases ==
    ASSUME NEW y \in Places
    PROVE  \E p \in MProcs : \/ y = StackOf(p)
                             \/ y = MemOf(p)
                             \/ \E k \in Part : y = CurPart(p, k) \/ y = NewPart(p, k)
<1>1. CASE y \in MProcs \X {"kstack", "mem"} \X {<<"frame", 0>>}
  BY <1>1 DEF StackOf, MemOf
<1>2. CASE y \in MProcs \X {"cur", "new"} \X Part
  BY <1>2 DEF CurPart, NewPart
<1> QED BY <1>1, <1>2 DEF Places

LEMMA PartCases ==
    /\ <<"dir", 0>> \in Part
    /\ \A t \in Table : <<"tab", t>> \in Part
    /\ \A n \in Page : <<"page", n>> \in Part
    /\ \A k \in Part : \/ k = <<"dir", 0>>
                       \/ \E t \in Table : k = <<"tab", t>>
                       \/ \E n \in Page : k = <<"page", n>>
    BY DEF Part

LEMMA PartValues ==
    \A s, i : /\ PartOf(s, <<"dir", 0>>) = s.dir
              /\ PartOf(s, <<"tab", i>>) = s.tabs[i]
              /\ PartOf(s, <<"page", i>>) = s.pages[i]
    BY DEF PartOf

LEMMA HeldValues ==
    \A p \in MProcs :
       /\ Held[StackOf(p)] = kstack[p] /\ Held[MemOf(p)] = mop[p].mem
       /\ \A k \in Part : /\ Held[CurPart(p, k)] = PartOf(cur[p], k)
                          /\ Held[NewPart(p, k)] = PartOf(new[p], k)
<1>1. \A p \in MProcs : HeldAt(StackOf(p)) = kstack[p] /\ HeldAt(MemOf(p)) = mop[p].mem
  BY DEF HeldAt, StackOf, MemOf
<1>2. \A p \in MProcs, k \in Part : /\ HeldAt(CurPart(p, k)) = PartOf(cur[p], k)
                                    /\ HeldAt(NewPart(p, k)) = PartOf(new[p], k)
  BY DEF HeldAt, CurPart, NewPart
<1> QED BY <1>1, <1>2, PlacesThere DEF Held

LEMMA HeldValuesPrime ==
    \A p \in MProcs :
       /\ Held'[StackOf(p)] = kstack'[p] /\ Held'[MemOf(p)] = mop'[p].mem
       /\ \A k \in Part : /\ Held'[CurPart(p, k)] = PartOf(cur'[p], k)
                          /\ Held'[NewPart(p, k)] = PartOf(new'[p], k)
<1>1. \A p \in MProcs : HeldAt(StackOf(p))' = kstack'[p] /\ HeldAt(MemOf(p))' = mop'[p].mem
  BY DEF HeldAt, StackOf, MemOf
<1>2. \A p \in MProcs, k \in Part : /\ HeldAt(CurPart(p, k))' = PartOf(cur'[p], k)
                                    /\ HeldAt(NewPart(p, k))' = PartOf(new'[p], k)
  BY DEF HeldAt, CurPart, NewPart
<1>3. Held' = [x \in Places |-> HeldAt(x)']
  BY DEF Held
<1> QED BY <1>1, <1>2, <1>3, PlacesThere

LEMMA PlacesDiffer ==
    \A p, q, j, k :
       /\ StackOf(p) = StackOf(q) <=> p = q
       /\ MemOf(p) = MemOf(q) <=> p = q
       /\ CurPart(p, j) = CurPart(q, k) <=> p = q /\ j = k
       /\ NewPart(p, j) = NewPart(q, k) <=> p = q /\ j = k
       /\ StackOf(p) # MemOf(q) /\ StackOf(p) # CurPart(q, k) /\ StackOf(p) # NewPart(q, k)
       /\ MemOf(p) # CurPart(q, k) /\ MemOf(p) # NewPart(q, k)
       /\ CurPart(p, j) # NewPart(q, k)
    BY DEF StackOf, MemOf, CurPart, NewPart

\* The four ways in which one place changes.
MemBecomes(p, f)    == \A q \in MProcs : mop'[q].mem = IF q = p THEN f ELSE mop[q].mem
StackBecomes(p, f)  == \A q \in MProcs : kstack'[q] = IF q = p THEN f ELSE kstack[q]
CurBecomes(p, k, f) ==
    \A q \in MProcs, j \in Part :
       PartOf(cur'[q], j) = IF q = p /\ j = k THEN f ELSE PartOf(cur[q], j)
NewBecomes(p, k, f) ==
    \A q \in MProcs, j \in Part :
       PartOf(new'[q], j) = IF q = p /\ j = k THEN f ELSE PartOf(new[q], j)
SameMem   == \A q \in MProcs : mop'[q].mem = mop[q].mem
SameStack == \A q \in MProcs : kstack'[q] = kstack[q]
SameCur   == \A q \in MProcs, j \in Part : PartOf(cur'[q], j) = PartOf(cur[q], j)
SameNew   == \A q \in MProcs, j \in Part : PartOf(new'[q], j) = PartOf(new[q], j)

LEMMA OneChanges ==
    ASSUME NEW p \in MProcs, NEW k \in Part, NEW f, NEW z,
           \/ MemBecomes(p, f) /\ SameStack /\ SameCur /\ SameNew /\ z = MemOf(p)
           \/ StackBecomes(p, f) /\ SameMem /\ SameCur /\ SameNew /\ z = StackOf(p)
           \/ CurBecomes(p, k, f) /\ SameMem /\ SameStack /\ SameNew /\ z = CurPart(p, k)
           \/ NewBecomes(p, k, f) /\ SameMem /\ SameStack /\ SameCur /\ z = NewPart(p, k)
    PROVE  \A y \in Places : Held'[y] = IF y = z THEN f ELSE Held[y]
<1> SUFFICES ASSUME NEW y \in Places PROVE Held'[y] = IF y = z THEN f ELSE Held[y]
  OBVIOUS
<1> USE DEF MemBecomes, StackBecomes, CurBecomes, NewBecomes, SameMem, SameStack, SameCur, SameNew
<1>1. PICK q \in MProcs : \/ y = StackOf(q)
                         \/ y = MemOf(q)
                         \/ \E j \in Part : y = CurPart(q, j) \/ y = NewPart(q, j)
  BY PlaceCases
<1>2. CASE y = StackOf(q)
  BY <1>2, HeldValues, HeldValuesPrime, PlacesDiffer
<1>3. CASE y = MemOf(q)
  BY <1>3, HeldValues, HeldValuesPrime, PlacesDiffer
<1>4. ASSUME NEW j \in Part, y = CurPart(q, j) PROVE Held'[y] = IF y = z THEN f ELSE Held[y]
  BY <1>4, HeldValues, HeldValuesPrime, PlacesDiffer
<1>5. ASSUME NEW j \in Part, y = NewPart(q, j) PROVE Held'[y] = IF y = z THEN f ELSE Held[y]
  BY <1>5, HeldValues, HeldValuesPrime, PlacesDiffer
<1> QED BY <1>1, <1>2, <1>3, <1>4, <1>5

Changes(p, k, z, f) ==
    \/ MemBecomes(p, f) /\ SameStack /\ SameCur /\ SameNew /\ z = MemOf(p)
    \/ StackBecomes(p, f) /\ SameMem /\ SameCur /\ SameNew /\ z = StackOf(p)
    \/ CurBecomes(p, k, f) /\ SameMem /\ SameStack /\ SameNew /\ z = CurPart(p, k)
    \/ NewBecomes(p, k, f) /\ SameMem /\ SameStack /\ SameCur /\ z = NewPart(p, k)

\* A place is given a frame ...
LEMMA Allocates ==
    ASSUME OneOwner(Held, free), free \subseteq Frame,
           NEW p \in MProcs, NEW k \in Part, NEW f \in free, NEW z, Changes(p, k, z, f),
           Held[z] = 0, free' = free \ {f}
    PROVE  OneOwner(Held', free')
<1>1. \A y \in Places : Held'[y] = IF y = z THEN f ELSE Held[y]
  BY OneChanges DEF Changes
<1>2. z \in Places
  BY PlacesThere DEF Changes
<1>3. ASSUME NEW h, NEW g, h = Held, g = Held' PROVE OneOwner(g, free \ {f})
  <2>1. OneOwner(h, free) /\ h[z] = 0
    BY <1>3
  <2>2. \A y \in Places : g[y] = IF y = z THEN f ELSE h[y]
    BY <1>1, <1>3
  <2> QED BY <1>2, <2>1, <2>2, Given
<1> QED BY <1>3

\* ... and gives one back.
LEMMA Releases ==
    ASSUME OneOwner(Held, free), free \subseteq Frame,
           \A y \in Places : Held[y] \in Frame \cup {0},
           NEW p \in MProcs, NEW k \in Part, NEW z, Changes(p, k, z, 0),
           free' = free \cup ({Held[z]} \ {0})
    PROVE  OneOwner(Held', free')
<1>1. \A y \in Places : Held'[y] = IF y = z THEN 0 ELSE Held[y]
  BY OneChanges DEF Changes
<1>2. z \in Places
  BY PlacesThere DEF Changes
<1>3. ASSUME NEW h, NEW g, h = Held, g = Held' PROVE OneOwner(g, free \cup ({Held[z]} \ {0}))
  <2>1. OneOwner(h, free) /\ \A y \in Places : h[y] \in Frame \cup {0}
    BY <1>3
  <2>2. \A y \in Places : g[y] = IF y = z THEN 0 ELSE h[y]
    BY <1>1, <1>3
  <2>3. OneOwner(g, free \cup ({h[z]} \ {0}))
    BY <1>2, <2>1, <2>2, TakenBack
  <2> QED BY <1>3, <2>3
<1> QED BY <1>3

\* All that the space p builds and that of process q hold change places.
SpacesSwap(p, q) ==
    /\ SameMem
    /\ \A r \in MProcs : /\ cur'[r] = IF r = q THEN new[p] ELSE cur[r]
                         /\ new'[r] = IF r = p THEN cur[q] ELSE new[r]

LEMMA HeldSwap ==
    ASSUME NEW p \in MProcs, NEW q \in MProcs, SpacesSwap(p, q), NEW g,
           \A r \in MProcs : /\ g[StackOf(r)] = kstack'[r] /\ g[MemOf(r)] = mop[r].mem
                             /\ \A k \in Part : /\ g[CurPart(r, k)] = PartOf(cur[r], k)
                                                /\ g[NewPart(r, k)] = PartOf(new[r], k),
           NEW s, s = [y \in Places |->
                         IF y[1] = q /\ y[2] = "cur" THEN NewPart(p, y[3])
                         ELSE IF y[1] = p /\ y[2] = "new" THEN CurPart(q, y[3]) ELSE y]
    PROVE  \A y \in Places : s[y] \in Places /\ s[s[y]] = y /\ Held'[y] = g[s[y]]
<1>1. \A r \in MProcs : /\ s[StackOf(r)] = StackOf(r) /\ s[MemOf(r)] = MemOf(r)
                        /\ \A k \in Part :
                              /\ s[CurPart(r, k)] = IF r = q THEN NewPart(p, k) ELSE CurPart(r, k)
                              /\ s[NewPart(r, k)] = IF r = p THEN CurPart(q, k) ELSE NewPart(r, k)
  BY PlacesThere DEF StackOf, MemOf, CurPart, NewPart
<1>2. SUFFICES ASSUME NEW y \in Places
               PROVE  s[y] \in Places /\ s[s[y]] = y /\ Held'[y] = g[s[y]]
  OBVIOUS
<1>3. PICK r \in MProcs : \/ y = StackOf(r)
                         \/ y = MemOf(r)
                         \/ \E k \in Part : y = CurPart(r, k) \/ y = NewPart(r, k)
  BY PlaceCases
<1>4. CASE y = StackOf(r)
  <2>1. s[y] = y /\ y \in Places
    BY <1>1, <1>4, PlacesThere
  <2>2. Held'[y] = kstack'[r] /\ g[y] = kstack'[r]
    BY <1>4, HeldValuesPrime
  <2> QED BY <2>1, <2>2
<1>5. CASE y = MemOf(r)
  <2>1. s[y] = y /\ y \in Places
    BY <1>1, <1>5, PlacesThere
  <2>2. Held'[y] = mop'[r].mem /\ g[y] = mop[r].mem
    BY <1>5, HeldValuesPrime
  <2> QED BY <2>1, <2>2 DEF SpacesSwap, SameMem
<1>6. ASSUME NEW k \in Part, y = CurPart(r, k)
      PROVE  s[y] \in Places /\ s[s[y]] = y /\ Held'[y] = g[s[y]]
  <2>1. Held'[y] = PartOf(cur'[r], k) /\ cur'[r] = IF r = q THEN new[p] ELSE cur[r]
    BY <1>6, HeldValuesPrime DEF SpacesSwap
  <2>2. s[y] = IF r = q THEN NewPart(p, k) ELSE y
    BY <1>1, <1>6
  <2>3. CASE r = q
    <3>1. s[y] = NewPart(p, k) /\ s[NewPart(p, k)] = CurPart(q, k)
      BY <1>1, <2>2, <2>3
    <3>2. g[NewPart(p, k)] = PartOf(new[p], k) /\ NewPart(p, k) \in Places
      BY PlacesThere
    <3> QED BY <1>6, <2>1, <2>3, <3>1, <3>2
  <2>4. CASE r # q
    <3>1. s[y] = y /\ g[y] = PartOf(cur[r], k)
      BY <1>6, <2>2, <2>4
    <3> QED BY <2>1, <2>4, <3>1
  <2> QED BY <2>3, <2>4
<1>7. ASSUME NEW k \in Part, y = NewPart(r, k)
      PROVE  s[y] \in Places /\ s[s[y]] = y /\ Held'[y] = g[s[y]]
  <2>1. Held'[y] = PartOf(new'[r], k) /\ new'[r] = IF r = p THEN cur[q] ELSE new[r]
    BY <1>7, HeldValuesPrime DEF SpacesSwap
  <2>2. s[y] = IF r = p THEN CurPart(q, k) ELSE y
    BY <1>1, <1>7
  <2>3. CASE r = p
    <3>1. s[y] = CurPart(q, k) /\ s[CurPart(q, k)] = NewPart(p, k)
      BY <1>1, <2>2, <2>3
    <3>2. g[CurPart(q, k)] = PartOf(cur[q], k) /\ CurPart(q, k) \in Places
      BY PlacesThere
    <3> QED BY <1>7, <2>1, <2>3, <3>1, <3>2
  <2>4. CASE r # p
    <3>1. s[y] = y /\ g[y] = PartOf(new[r], k)
      BY <1>7, <2>2, <2>4
    <3> QED BY <2>1, <2>4, <3>1
  <2> QED BY <2>3, <2>4
<1> QED BY <1>3, <1>4, <1>5, <1>6, <1>7

LEMMA Exchanges ==
    ASSUME OneOwner(Held, free), NEW p \in MProcs, NEW q \in MProcs, SpacesSwap(p, q),
           SameStack, free' = free
    PROVE  OneOwner(Held', free')
<1> DEFINE s == [y \in Places |->
                    IF y[1] = q /\ y[2] = "cur" THEN NewPart(p, y[3])
                    ELSE IF y[1] = p /\ y[2] = "new" THEN CurPart(q, y[3]) ELSE y]
<1>1. ASSUME NEW h, h = Held PROVE \A y \in Places : s[y] \in Places /\ s[s[y]] = y /\ Held'[y] = h[s[y]]
  <2>1. \A r \in MProcs : /\ h[StackOf(r)] = kstack'[r] /\ h[MemOf(r)] = mop[r].mem
                          /\ \A k \in Part : /\ h[CurPart(r, k)] = PartOf(cur[r], k)
                                             /\ h[NewPart(r, k)] = PartOf(new[r], k)
    BY <1>1, HeldValues DEF SameStack
  <2> HIDE DEF s
  <2>2. s = [y \in Places |->
                    IF y[1] = q /\ y[2] = "cur" THEN NewPart(p, y[3])
                    ELSE IF y[1] = p /\ y[2] = "new" THEN CurPart(q, y[3]) ELSE y]
    BY DEF s
  <2> QED BY <2>1, <2>2, HeldSwap
<1>2. ASSUME NEW h, NEW g, h = Held, g = Held' PROVE OneOwner(g, free)
  <2> HIDE DEF s
  <2>1. \A y \in Places : s[y] \in Places /\ s[s[y]] = y /\ g[y] = h[s[y]]
    BY <1>1, <1>2
  <2>2. OneOwner(h, free)
    BY <1>2
  <2> QED BY <2>1, <2>2, Swapped
<1> QED BY <1>2

\* wait() gives the kernel stack of q back, too.
LEMMA Reclaims ==
    ASSUME OneOwner(Held, free), free \subseteq Frame,
           \A y \in Places : Held[y] \in Frame \cup {0},
           NEW p \in MProcs, NEW q \in MProcs, SpacesSwap(p, q),
           StackBecomes(q, 0), free' = free \cup ({kstack[q]} \ {0})
    PROVE  OneOwner(Held', free')
<1> DEFINE s == [y \in Places |->
                    IF y[1] = q /\ y[2] = "cur" THEN NewPart(p, y[3])
                    ELSE IF y[1] = p /\ y[2] = "new" THEN CurPart(q, y[3]) ELSE y]
<1> DEFINE m == [y \in Places |-> IF y = StackOf(q) THEN 0 ELSE Held[y]]
<1>1. \A r \in MProcs : /\ m[StackOf(r)] = kstack'[r] /\ m[MemOf(r)] = mop[r].mem
                        /\ \A k \in Part : /\ m[CurPart(r, k)] = PartOf(cur[r], k)
                                           /\ m[NewPart(r, k)] = PartOf(new[r], k)
  BY HeldValues, PlacesThere, PlacesDiffer DEF StackBecomes
<1>2. ASSUME NEW h, NEW n, h = Held, n = m PROVE OneOwner(n, free')
  <2>1. OneOwner(h, free) /\ \A y \in Places : h[y] \in Frame \cup {0}
    BY <1>2
  <2>2. \A y \in Places : n[y] = IF y = StackOf(q) THEN 0 ELSE h[y]
    BY <1>2
  <2>3. StackOf(q) \in Places /\ h[StackOf(q)] = kstack[q]
    BY <1>2, HeldValues, PlacesThere
  <2>4. OneOwner(n, free \cup ({h[StackOf(q)]} \ {0}))
    BY <2>1, <2>2, <2>3, TakenBack
  <2> QED BY <2>3, <2>4
<1> HIDE DEF s, m
<1>3. ASSUME NEW n, NEW g, n = m, g = Held' PROVE OneOwner(g, free')
  <2>1. \A r \in MProcs : /\ n[StackOf(r)] = kstack'[r] /\ n[MemOf(r)] = mop[r].mem
                          /\ \A k \in Part : /\ n[CurPart(r, k)] = PartOf(cur[r], k)
                                             /\ n[NewPart(r, k)] = PartOf(new[r], k)
    BY <1>1, <1>3
  <2>2. s = [y \in Places |->
                    IF y[1] = q /\ y[2] = "cur" THEN NewPart(p, y[3])
                    ELSE IF y[1] = p /\ y[2] = "new" THEN CurPart(q, y[3]) ELSE y]
    BY DEF s
  <2>3. \A y \in Places : s[y] \in Places /\ s[s[y]] = y /\ Held'[y] = n[s[y]]
    BY <2>1, <2>2, HeldSwap
  <2>4. \A y \in Places : s[y] \in Places /\ s[s[y]] = y /\ g[y] = n[s[y]]
    BY <1>3, <2>3
  <2>5. ASSUME NEW fr, fr = free' PROVE OneOwner(g, fr)
    <3>1. OneOwner(n, fr)
      BY <1>2, <1>3, <2>5
    <3> QED BY <2>4, <3>1, Swapped
  <2> QED BY <2>5
<1> QED BY <1>3

\* mappages(): the frame of the call goes to page n of its space, and f to table t.
Mapped(old, then, p, n, t, f) ==
    \A q \in MProcs, j \in Part :
       PartOf(then[q], j) = IF q = p /\ j = <<"page", n>> THEN mop[p].mem
                            ELSE IF q = p /\ j = <<"tab", t>> THEN f ELSE PartOf(old[q], j)

Maps(p, n, t, f, b, c) ==
    /\ MemBecomes(p, 0) /\ SameStack
    /\ \/ /\ Mapped(cur, cur', p, n, t, f) /\ SameNew
          /\ b = CurPart(p, <<"page", n>>) /\ c = CurPart(p, <<"tab", t>>)
       \/ /\ Mapped(new, new', p, n, t, f) /\ SameCur
          /\ b = NewPart(p, <<"page", n>>) /\ c = NewPart(p, <<"tab", t>>)

LEMMA Moved ==
    ASSUME NEW h, NEW g, NEW fr, OneOwner(h, fr), NEW a \in Places, NEW b \in Places, a # b,
           h[b] = 0,
           \A y \in Places : g[y] = IF y = a THEN 0 ELSE IF y = b THEN h[a] ELSE h[y]
    PROVE  OneOwner(g, fr)
<1>1. \A x \in Places : g[x] # 0 => g[x] \in Frame \ fr
  BY DEF OneOwner
<1>2. \A x, y \in Places : g[x] = g[y] /\ g[x] # 0 => x = y
  BY DEF OneOwner
<1>3. ASSUME NEW f \in Frame \ fr PROVE \E x \in Places : g[x] = f
  <2>1. PICK y \in Places : h[y] = f
    BY DEF OneOwner
  <2>2. f # 0
    BY DEF Frame
  <2>3. CASE y = a
    <3>1. g[b] = f
      BY <2>1, <2>3
    <3> QED BY <3>1
  <2>4. CASE y # a
    <3>1. g[y] = f
      BY <2>1, <2>2, <2>4
    <3> QED BY <3>1
  <2> QED BY <2>3, <2>4
<1> QED BY <1>1, <1>2, <1>3 DEF OneOwner

LEMMA MapsHeld ==
    ASSUME NEW p \in MProcs, NEW n \in Page, NEW t \in Table, NEW f, NEW b, NEW c,
           Maps(p, n, t, f, b, c)
    PROVE  /\ b \in Places /\ c \in Places /\ b # c /\ b # MemOf(p) /\ c # MemOf(p)
           /\ \A y \in Places :
                 Held'[y] = IF y = MemOf(p) THEN 0 ELSE IF y = b THEN mop[p].mem
                            ELSE IF y = c THEN f ELSE Held[y]
<1>1. /\ <<"page", n>> \in Part /\ <<"tab", t>> \in Part
      /\ <<"page", n>> # <<"tab", t>>
  BY PartCases
<1>2. b \in Places /\ c \in Places /\ b # c /\ b # MemOf(p) /\ c # MemOf(p)
  BY <1>1, PlacesThere, PlacesDiffer DEF Maps
<1>3. ASSUME NEW y \in Places
      PROVE  Held'[y] = IF y = MemOf(p) THEN 0 ELSE IF y = b THEN mop[p].mem
                        ELSE IF y = c THEN f ELSE Held[y]
  <2>1. PICK q \in MProcs : \/ y = StackOf(q)
                           \/ y = MemOf(q)
                           \/ \E j \in Part : y = CurPart(q, j) \/ y = NewPart(q, j)
    BY PlaceCases
  <2>2. CASE y = StackOf(q)
    BY <2>2, HeldValues, HeldValuesPrime, PlacesDiffer DEF Maps, SameStack
  <2>3. CASE y = MemOf(q)
    BY <2>3, HeldValues, HeldValuesPrime, PlacesDiffer DEF Maps, MemBecomes
  <2>4. ASSUME NEW j \in Part, y = CurPart(q, j)
        PROVE  Held'[y] = IF y = MemOf(p) THEN 0 ELSE IF y = b THEN mop[p].mem
                          ELSE IF y = c THEN f ELSE Held[y]
    <3>1. y # MemOf(p) /\ Held'[y] = PartOf(cur'[q], j) /\ Held[y] = PartOf(cur[q], j)
      BY <2>4, HeldValues, HeldValuesPrime, PlacesDiffer
    <3> QED BY <1>1, <2>4, <3>1, PlacesDiffer DEF Maps, Mapped, SameCur
  <2>5. ASSUME NEW j \in Part, y = NewPart(q, j)
        PROVE  Held'[y] = IF y = MemOf(p) THEN 0 ELSE IF y = b THEN mop[p].mem
                          ELSE IF y = c THEN f ELSE Held[y]
    <3>1. y # MemOf(p) /\ Held'[y] = PartOf(new'[q], j) /\ Held[y] = PartOf(new[q], j)
      BY <2>5, HeldValues, HeldValuesPrime, PlacesDiffer
    <3> QED BY <1>1, <2>5, <3>1, PlacesDiffer DEF Maps, Mapped, SameNew
  <2> QED BY <2>1, <2>2, <2>3, <2>4, <2>5
<1> QED BY <1>2, <1>3

LEMMA MapsOwned ==
    ASSUME OneOwner(Held, free), free \subseteq Frame,
           NEW p \in MProcs, NEW n \in Page, NEW t \in Table, NEW f, NEW b, NEW c,
           Maps(p, n, t, f, b, c), Held[b] = 0,
           \/ f = Held[c] /\ free' = free
           \/ Held[c] = 0 /\ f \in free /\ free' = free \ {f}
    PROVE  OneOwner(Held', free')
<1> DEFINE m == [y \in Places |-> IF y = c THEN f ELSE Held[y]]
<1>1. /\ b \in Places /\ c \in Places /\ b # c /\ b # MemOf(p) /\ c # MemOf(p)
      /\ \A y \in Places :
            Held'[y] = IF y = MemOf(p) THEN 0 ELSE IF y = b THEN mop[p].mem
                       ELSE IF y = c THEN f ELSE Held[y]
  BY MapsHeld
<1>2. ASSUME NEW h, NEW k, NEW fr, h = Held, k = m, fr = free' PROVE OneOwner(k, fr)
  <2>1. OneOwner(h, free) /\ \A y \in Places : k[y] = IF y = c THEN f ELSE h[y]
    BY <1>2
  <2>2. CASE f = Held[c] /\ free' = free
    <3>1. \A y \in Places : k[y] = h[y]
      BY <1>2, <2>1, <2>2
    <3> QED BY <1>2, <2>1, <2>2, <3>1 DEF OneOwner
  <2>3. CASE Held[c] = 0 /\ f \in free /\ free' = free \ {f}
    <3>1. OneOwner(k, free \ {f})
      BY <1>1, <1>2, <2>1, <2>3, Given
    <3> QED BY <1>2, <2>3, <3>1
  <2> QED BY <2>2, <2>3
<1>3. MemOf(p) \in Places /\ Held[MemOf(p)] = mop[p].mem
  BY HeldValues, PlacesThere
<1>4. /\ m[b] = 0 /\ m[MemOf(p)] = mop[p].mem
      /\ \A y \in Places : Held'[y] = IF y = MemOf(p) THEN 0 ELSE IF y = b THEN m[MemOf(p)]
                                      ELSE m[y]
  BY <1>1, <1>3
<1> HIDE DEF m
<1>5. ASSUME NEW k, NEW g, NEW fr, k = m, g = Held', fr = free' PROVE OneOwner(g, fr)
  <2>1. OneOwner(k, fr) /\ k[b] = 0
    BY <1>2, <1>4, <1>5
  <2>2. \A y \in Places : g[y] = IF y = MemOf(p) THEN 0 ELSE IF y = b THEN k[MemOf(p)] ELSE k[y]
    BY <1>4, <1>5
  <2> QED BY <1>1, <1>3, <2>1, <2>2, Moved
<1> QED BY <1>5

-----------------------------------------------------------------------------
\* FramesIInv by process: m is its call, c its memory, n the space it builds, s its
\* size, g and z whether it is in gone and in zombie.
Typed(m, c, n, s) ==
    /\ m \in MopType /\ <<m.do, m.by>> \in Doing
    /\ c \in SpaceType /\ n \in SpaceType /\ s \in 0 .. KERNBASE - 1

SpaceRight(m, c, n, z) ==
    /\ Backed(c) /\ Backed(n)
    /\ c.dir = 0 => c = NoSpace
    /\ z => c.dir # 0 /\ m.do = "none"
    /\ m.do # "none" => c.dir # 0
    /\ m.do \in {"none", "unfork"} \/ m.by = "sbrk" => n = NoSpace
    /\ m.do = "setup" => n = [NoSpace EXCEPT !.dir = n.dir]
    /\ m.do \in {"copy", "load", "args"} => n.dir # 0
    /\ m.do \in {"alloc", "undo"} /\ m.by # "sbrk" => n.dir # 0

CallRight(m) ==
    /\ m.do = "none" => m = NoOp
    /\ m.mem # 0 => m.do \in {"alloc", "copy", "undo"}
    /\ m.by = "fork" <=> m.child # NoProc

LoopRight(m, s) ==
    /\ m.do \in {"alloc", "undo", "dealloc"} => m.lo < m.hi /\ m.lo <= m.at /\ Aligned(m.at)
    /\ m.do = "alloc" => m.at < m.hi + PGSIZE /\ (m.mem # 0 => m.at < m.hi)
    /\ m.do = "copy"  => m.at < s + PGSIZE /\ Aligned(m.at) /\ (m.mem # 0 => m.at < s)
    /\ m.do = "setup" => m.at = 0 /\ m.lo = 0
    /\ m.by = "sbrk"  => s = IF m.do = "dealloc" THEN m.hi ELSE m.lo

PageRight(m, c, n, s, g) ==
    /\ m.do = "alloc" /\ m.by # "sbrk" => Has(n) = Under(m.at)
    /\ m.do = "copy" => Has(n) = Under(m.at)
    /\ m.do \in {"load", "args"} => Has(n) = Under(m.lo)
    /\ m.do = "alloc" /\ m.by = "sbrk" =>
          Has(c) \subseteq Under(m.at) /\ (~g => Has(c) = Under(m.at))
    /\ m.do \in {"dealloc", "undo"} /\ m.by = "sbrk" =>
          /\ Has(c) \subseteq Under(m.lo) \cup (Under(m.hi) \ Under(m.at))
          /\ ~g => Under(m.lo) \subseteq Has(c)
    /\ c.dir # 0 /\ m.by # "sbrk" =>
          Has(c) \subseteq Under(s) /\ (~g => Has(c) = Under(s))

ProcessRight(p) ==
    /\ Typed(mop[p], cur[p], new[p], sz[p])
    /\ SpaceRight(mop[p], cur[p], new[p], p \in zombie)
    /\ CallRight(mop[p])
    /\ LoopRight(mop[p], sz[p])
    /\ PageRight(mop[p], cur[p], new[p], sz[p], p \in gone)

MChildren ==
    \A p \in MProcs :
       mop[p].by = "fork" =>
          /\ kstack[mop[p].child] # 0 /\ cur[mop[p].child].dir = 0
          /\ \A q \in MProcs : mop[q].child = mop[p].child => q = p

Functions ==
    /\ cur = [q \in MProcs |-> cur[q]] /\ new = [q \in MProcs |-> new[q]]
    /\ sz = [q \in MProcs |-> sz[q]] /\ mop = [q \in MProcs |-> mop[q]]

Globals ==
    /\ Functions
    /\ free \subseteq Frame /\ kstack \in [MProcs -> Frame \cup {0}]
    /\ zombie \subseteq MProcs /\ gone \subseteq MProcs

LEMMA Regrouped ==
    FramesIInv <=> Globals /\ OneOwner(Held, free) /\ MChildren /\ \A p \in MProcs : ProcessRight(p)
<1> DEFINE A == \A p \in MProcs : Typed(mop[p], cur[p], new[p], sz[p])
<1>1. MTypeOK <=> Globals /\ A
  BY DEF MTypeOK, Globals, Functions, Typed
<1>2. ASSUME MTypeOK PROVE FramesOwned <=> OneOwner(Held, free)
  <2>1. \A p \in MProcs, k \in Part : /\ PartOf(cur[p], k) \in Frame \cup {0}
                                      /\ PartOf(new[p], k) \in Frame \cup {0}
    <3>1. ASSUME NEW s \in SpaceType, NEW k \in Part PROVE PartOf(s, k) \in Frame \cup {0}
      BY PartCases, PartValues DEF SpaceType
    <3> QED BY <1>2, <3>1 DEF MTypeOK
  <2>2. ASSUME NEW y \in Places PROVE HeldAt(y) \in Frame \cup {0}
    <3>1. PICK p \in MProcs : \/ y = StackOf(p)
                             \/ y = MemOf(p)
                             \/ \E j \in Part : y = CurPart(p, j) \/ y = NewPart(p, j)
      BY PlaceCases
    <3>2. kstack[p] \in Frame \cup {0} /\ mop[p].mem \in Frame \cup {0}
      BY <1>2 DEF MTypeOK, MopType
    <3>3. Held[y] \in Frame \cup {0}
      BY <2>1, <3>1, <3>2, HeldValues
    <3> QED BY <3>3 DEF Held
  <2> QED BY <2>2, OwnedOnce
<1>3. SpacesRight /\ CallsRight /\ LoopsRight /\ PagesRight /\ SizesRight
         <=> /\ MChildren
             /\ \A p \in MProcs : /\ SpaceRight(mop[p], cur[p], new[p], p \in zombie)
                                  /\ CallRight(mop[p])
                                  /\ LoopRight(mop[p], sz[p])
                                  /\ PageRight(mop[p], cur[p], new[p], sz[p], p \in gone)
  <2>1. SpacesRight <=> \A p \in MProcs : SpaceRight(mop[p], cur[p], new[p], p \in zombie)
    BY DEF SpacesRight, SpaceRight, Building, Growing
  <2>2. CallsRight <=> MChildren /\ \A p \in MProcs : CallRight(mop[p])
    BY DEF CallsRight, MChildren, CallRight
  <2>3. LoopsRight <=> \A p \in MProcs : LoopRight(mop[p], sz[p])
    BY DEF LoopsRight, LoopRight
  <2>4. PagesRight /\ SizesRight
           <=> \A p \in MProcs : PageRight(mop[p], cur[p], new[p], sz[p], p \in gone)
    BY DEF PagesRight, SizesRight, PageRight, Growing
  <2> QED BY <2>1, <2>2, <2>3, <2>4
<1> QED BY <1>1, <1>2, <1>3 DEF FramesIInv, ProcessRight

LEMMA RegroupedPrime ==
    FramesIInv' <=> Globals' /\ OneOwner(Held', free') /\ MChildren' /\ \A p \in MProcs : ProcessRight(p)'
<1>1. (FramesIInv <=> Globals /\ OneOwner(Held, free) /\ MChildren
                      /\ \A p \in MProcs : ProcessRight(p))'
  BY Regrouped, PTL
<1>2. OneOwner(Held, free)' <=> OneOwner(Held', free')
  BY DEF OneOwner
<1> QED BY <1>1, <1>2

\* A call that changes nothing but what belongs to its process leaves the rest right.
OnlyOf(p) ==
    /\ Functions' /\ UNCHANGED kstack
    /\ free' \subseteq Frame /\ zombie' \subseteq MProcs /\ gone' \subseteq MProcs
    /\ \A q \in MProcs \ {p} :
          /\ cur'[q] = cur[q] /\ new'[q] = new[q] /\ mop'[q] = mop[q] /\ sz'[q] = sz[q]
          /\ q \in zombie' <=> q \in zombie
          /\ q \in gone' <=> q \in gone
    /\ cur[p].dir = 0 <=> cur'[p].dir = 0
    /\ mop'[p].child \in {NoProc, mop[p].child}

LEMMA Local ==
    ASSUME FramesIInv, NEW p \in MProcs, OnlyOf(p), OneOwner(Held', free'), ProcessRight(p)'
    PROVE  FramesIInv'
<1>1. Globals /\ MChildren /\ \A q \in MProcs : ProcessRight(q)
  BY Regrouped
<1>2. Globals'
  BY <1>1 DEF OnlyOf, Globals
<1>3. ASSUME NEW q \in MProcs PROVE ProcessRight(q)'
  <2>1. CASE q = p
    BY <2>1
  <2>2. CASE q # p
    <3>1. /\ cur'[q] = cur[q] /\ new'[q] = new[q] /\ mop'[q] = mop[q] /\ sz'[q] = sz[q]
          /\ (q \in zombie') = (q \in zombie) /\ (q \in gone') = (q \in gone)
      BY <2>2 DEF OnlyOf
    <3>2. ProcessRight(q)
      BY <1>1
    <3> QED BY <3>1, <3>2 DEF ProcessRight, Typed, SpaceRight, CallRight, LoopRight, PageRight
  <2> QED BY <2>1, <2>2
<1>4. MChildren'
  <2> SUFFICES ASSUME NEW q \in MProcs, mop'[q].by = "fork"
               PROVE  /\ kstack'[mop'[q].child] # 0 /\ cur'[mop'[q].child].dir = 0
                      /\ \A r \in MProcs : mop'[r].child = mop'[q].child => r = q
    BY DEF MChildren
  <2>1. mop'[q].child # NoProc /\ mop'[q].child \in MProcs
    <3>1. Typed(mop'[q], cur'[q], new'[q], sz'[q]) /\ CallRight(mop'[q])
      BY <1>3 DEF ProcessRight
    <3> QED BY <3>1 DEF Typed, CallRight, MopType
  <2>2. mop'[q].child = mop[q].child /\ mop[q].by = "fork"
    <3>1. mop'[q].child = mop[q].child
      BY <2>1 DEF OnlyOf
    <3>2. CallRight(mop[q])
      BY <1>1 DEF ProcessRight
    <3> QED BY <2>1, <3>1, <3>2 DEF CallRight
  <2>3. /\ kstack[mop[q].child] # 0 /\ cur[mop[q].child].dir = 0
        /\ \A r \in MProcs : mop[r].child = mop[q].child => r = q
    BY <1>1, <2>2 DEF MChildren
  <2>4. cur'[mop[q].child].dir = 0
    BY <2>1, <2>2, <2>3 DEF OnlyOf
  <2>5. ASSUME NEW r \in MProcs, mop'[r].child = mop'[q].child PROVE r = q
    <3>1. mop[r].child = mop'[r].child
      BY <2>1, <2>5 DEF OnlyOf
    <3> QED BY <2>2, <2>3, <2>5, <3>1
  <2> QED BY <2>2, <2>3, <2>4, <2>5 DEF OnlyOf
<1> QED BY <1>2, <1>3, <1>4, RegroupedPrime

LEMMA Still ==
    ASSUME OneOwner(Held, free), SameMem, SameStack, SameCur, SameNew, free' = free
    PROVE  OneOwner(Held', free')
<1>1. ASSUME NEW y \in Places PROVE Held'[y] = Held[y]
  <2>1. PICK q \in MProcs : \/ y = StackOf(q)
                           \/ y = MemOf(q)
                           \/ \E j \in Part : y = CurPart(q, j) \/ y = NewPart(q, j)
    BY PlaceCases
  <2> QED BY <2>1, HeldValues, HeldValuesPrime DEF SameMem, SameStack, SameCur, SameNew
<1>2. ASSUME NEW h, NEW g, h = Held, g = Held' PROVE OneOwner(g, free)
  <2>1. OneOwner(h, free) /\ \A y \in Places : g[y] = h[y]
    BY <1>1, <1>2
  <2> QED BY <2>1 DEF OneOwner
<1> QED BY <1>2

LEMMA UnderGrows == \A a, b \in Nat : a <= b => Under(a) \subseteq Under(b)
    BY PageFacts DEF Under

\* Where the loops begin.
LEMMA FirstPage ==
    ASSUME NEW lo \in 0 .. KERNBASE - 1, NEW hi \in 0 .. KERNBASE - 1, lo < hi
    PROVE  /\ RoundUp(lo) \in 0 .. KERNBASE /\ Aligned(RoundUp(lo))
           /\ lo <= RoundUp(lo) /\ RoundUp(lo) < hi + PGSIZE
           /\ Under(RoundUp(lo)) = Under(lo)
<1> DEFINE a == RoundUp(lo)
<1>1. a \in Nat /\ Aligned(a) /\ lo <= a /\ a < lo + PGSIZE
  BY Rounded, Sizes
<1>2. Under(a) = Under(lo)
  BY <1>1, SamePages
<1>3. a <= KERNBASE
  <2>1. PICK k \in Nat : a = k * PGSIZE
    BY <1>1, Multiples
  <2> DEFINE e == KERNBASE \div PGSIZE
  <2>2. e \in Nat /\ KERNBASE = e * PGSIZE /\ (e + 1) * PGSIZE = KERNBASE + PGSIZE /\ e + 1 \in Nat
    BY Whole, Sizes, Division
  <2> HIDE DEF e
  <2>3. k < e + 1
    <3>1. k * PGSIZE < (e + 1) * PGSIZE
      BY <1>1, <2>1, <2>2, Sizes
    <3> QED BY <2>2, <3>1, Sizes, Division
  <2>4. k = e \/ k < e
    BY <2>2, <2>3
  <2>5. k < e => k * PGSIZE < e * PGSIZE
    BY <2>2, Sizes, Division
  <2> QED BY <1>1, <2>1, <2>2, <2>4, <2>5, Sizes
<1> QED BY <1>1, <1>2, <1>3, Sizes

-----------------------------------------------------------------------------
\* The steps of a call on what belongs to its process.
LEMMA AllocPageStep ==
    ASSUME FramesIInv, NEW p \in MProcs, AllocPage(p)
    PROVE  FramesIInv'
<1> DEFINE m == mop[p]
<1>1. Globals /\ OneOwner(Held, free) /\ ProcessRight(p)
  BY Regrouped
<1>2. PICK f \in free : free' = free \ {f} /\ mop' = [mop EXCEPT ![p].mem = f]
  BY DEF AllocPage, Kalloc
<1>3. /\ m.do = "alloc" /\ m.mem = 0 /\ m.at < m.hi
      /\ UNCHANGED <<kstack, cur, sz, zombie, new, gone>>
  BY DEF AllocPage, In
<1>4. /\ mop'[p] = [m EXCEPT !.mem = f] /\ \A q \in MProcs \ {p} : mop'[q] = mop[q]
      /\ mop' = [q \in MProcs |-> mop'[q]]
  BY <1>1, <1>2 DEF Globals, Functions
<1>5. m \in MopType /\ f \in Frame /\ f # 0
  BY <1>1, <1>2 DEF ProcessRight, Typed, Globals, Frame
<1>6. mop'[p] \in MopType /\ mop'[p].mem = f /\ mop'[p].do = m.do /\ mop'[p].by = m.by
      /\ mop'[p].child = m.child /\ mop'[p].lo = m.lo /\ mop'[p].hi = m.hi /\ mop'[p].at = m.at
  BY <1>4, <1>5 DEF MopType
<1>7. OneOwner(Held', free')
  <2>1. MemBecomes(p, f) /\ SameStack /\ SameCur /\ SameNew
    BY <1>3, <1>4, <1>6 DEF MemBecomes, SameStack, SameCur, SameNew
  <2>2. Changes(p, <<"dir", 0>>, MemOf(p), f)
    BY <2>1 DEF Changes
  <2>3. Held[MemOf(p)] = 0
    BY <1>3, HeldValues
  <2>4. free \subseteq Frame /\ <<"dir", 0>> \in Part
    BY <1>1, PartCases DEF Globals
  <2> QED BY <1>1, <1>2, <2>2, <2>3, <2>4, Allocates
<1>8. OnlyOf(p)
  BY <1>1, <1>2, <1>3, <1>4, <1>6 DEF OnlyOf, Globals, Functions
<1>9. ProcessRight(p)'
  <2>1. Typed(mop[p], cur[p], new[p], sz[p])'
    BY <1>1, <1>3, <1>6 DEF ProcessRight, Typed
  <2>2. SpaceRight(mop[p], cur[p], new[p], p \in zombie)'
    BY <1>1, <1>3, <1>6 DEF ProcessRight, SpaceRight
  <2>3. CallRight(mop[p])'
    BY <1>1, <1>3, <1>6 DEF ProcessRight, CallRight
  <2>4. LoopRight(mop[p], sz[p])'
    BY <1>1, <1>3, <1>6 DEF ProcessRight, LoopRight
  <2>5. PageRight(mop[p], cur[p], new[p], sz[p], p \in gone)'
    BY <1>1, <1>3, <1>6 DEF ProcessRight, PageRight
  <2> QED BY <2>1, <2>2, <2>3, <2>4, <2>5 DEF ProcessRight
<1> QED BY <1>7, <1>8, <1>9, Local

LEMMA NoOpTyped ==
    /\ NoOp \in MopType /\ NoOp.do = "none" /\ NoOp.by = "none" /\ NoOp.mem = 0
    /\ NoOp.child = NoProc /\ NoOp.at = 0 /\ NoOp.lo = 0
<1>1. 0 \in 0 .. KERNBASE /\ 0 \in 0 .. KERNBASE - 1 /\ 0 \in Frame \cup {0}
      /\ NoProc \in MProcs \cup {NoProc}
  BY Sizes
<1>2. NoOp \in MopType
  BY <1>1 DEF NoOp, MopType, Steps, Calls
<1> QED BY <1>2 DEF NoOp

\* A step that moves no frame.
LEMMA Proceeds ==
    ASSUME FramesIInv, NEW p \in MProcs, UNCHANGED <<free, kstack, cur, new>>,
           \A q \in MProcs \ {p} :
              /\ mop'[q] = mop[q] /\ sz'[q] = sz[q]
              /\ q \in zombie' <=> q \in zombie
              /\ q \in gone' <=> q \in gone,
           mop' = [q \in MProcs |-> mop'[q]], sz' = [q \in MProcs |-> sz'[q]],
           zombie' \subseteq MProcs, gone' \subseteq MProcs,
           mop'[p].mem = mop[p].mem, mop'[p].child \in {NoProc, mop[p].child},
           ProcessRight(p)'
    PROVE  FramesIInv'
<1>1. Globals /\ OneOwner(Held, free) /\ ProcessRight(p)
  BY Regrouped
<1>2. SameMem /\ SameStack /\ SameCur /\ SameNew
  BY DEF SameMem, SameStack, SameCur, SameNew
<1>3. OneOwner(Held', free')
  BY <1>1, <1>2, Still
<1>4. OnlyOf(p)
  BY <1>1 DEF OnlyOf, Globals, Functions
<1> QED BY <1>3, <1>4, Local

\* An allocuvm() that has failed frees what it has mapped.
LEMMA UndoStarts ==
    ASSUME FramesIInv, NEW p \in MProcs, mop[p].do = "alloc", mop[p].at < mop[p].hi, Undo(p),
           UNCHANGED <<free, kstack, cur, sz, zombie, new, gone>>
    PROVE  FramesIInv'
<1> DEFINE m == mop[p]
<1>1. Globals /\ ProcessRight(p)
  BY Regrouped
<1>2. m \in MopType
  BY <1>1 DEF ProcessRight, Typed
<1>3. /\ mop'[p] = [m EXCEPT !.do = "undo", !.at = FirstAbove(m.lo)]
      /\ \A q \in MProcs \ {p} : mop'[q] = mop[q]
      /\ mop' = [q \in MProcs |-> mop'[q]]
  BY <1>1 DEF Globals, Functions, Undo
<1>4. m.lo \in 0 .. KERNBASE - 1 /\ m.hi \in 0 .. KERNBASE - 1 /\ m.lo < m.hi /\ m.at \in 0 .. KERNBASE
      /\ m.lo <= m.at
  BY <1>1, <1>2 DEF ProcessRight, LoopRight, MopType
<1> DEFINE a == FirstAbove(m.lo)
<1>5. a \in 0 .. KERNBASE /\ Aligned(a) /\ m.lo <= a /\ Under(a) = Under(m.lo)
  BY <1>4, FirstPage DEF FirstAbove
<1>6. /\ mop'[p] \in MopType /\ mop'[p].do = "undo" /\ mop'[p].at = a /\ mop'[p].by = m.by
      /\ mop'[p].child = m.child /\ mop'[p].lo = m.lo /\ mop'[p].hi = m.hi /\ mop'[p].mem = m.mem
  BY <1>2, <1>3, <1>5 DEF MopType, Steps
<1>7. Under(m.lo) \subseteq Under(m.at) /\ Under(m.at) \subseteq Under(m.hi)
  BY <1>4, UnderGrows
<1> HIDE DEF a
<1>8. ProcessRight(p)'
  <2>1. Typed(mop[p], cur[p], new[p], sz[p])'
    BY <1>1, <1>6 DEF ProcessRight, Typed, Doing
  <2>2. SpaceRight(mop[p], cur[p], new[p], p \in zombie)'
    BY <1>1, <1>6 DEF ProcessRight, SpaceRight
  <2>3. CallRight(mop[p])'
    BY <1>1, <1>6 DEF ProcessRight, CallRight
  <2>4. LoopRight(mop[p], sz[p])'
    BY <1>1, <1>4, <1>5, <1>6 DEF ProcessRight, LoopRight
  <2>5. PageRight(mop[p], cur[p], new[p], sz[p], p \in gone)'
    BY <1>1, <1>5, <1>6, <1>7 DEF ProcessRight, PageRight
  <2> QED BY <2>1, <2>2, <2>3, <2>4, <2>5 DEF ProcessRight
<1>9. zombie' \subseteq MProcs /\ gone' \subseteq MProcs /\ sz' = [q \in MProcs |-> sz'[q]]
  BY <1>1 DEF Globals, Functions
<1> QED BY <1>3, <1>6, <1>8, <1>9, Proceeds

\* A call that goes to another loop: what becomes of its record.
MovedTo(m, w, b, lo, hi, a) == [m EXCEPT !.do = w, !.by = b, !.lo = lo, !.hi = hi, !.at = a]

LEMMA MopMoved ==
    ASSUME NEW m \in MopType, NEW w \in Steps, NEW b \in Calls, NEW lo \in 0 .. KERNBASE - 1,
           NEW hi \in 0 .. KERNBASE - 1, NEW a \in 0 .. KERNBASE
    PROVE  LET e == MovedTo(m, w, b, lo, hi, a)
           IN  /\ e \in MopType
               /\ e.do = w /\ e.by = b /\ e.lo = lo /\ e.hi = hi /\ e.at = a
               /\ e.mem = m.mem /\ e.child = m.child
<1> DEFINE e == MovedTo(m, w, b, lo, hi, a)
<1> DEFINE C == MProcs \cup {NoProc}
           L == 0 .. KERNBASE - 1
           A == 0 .. KERNBASE
           F == Frame \cup {0}
<1>1. /\ m \in [do : Steps, by : Calls, child : C, lo : L, hi : L, at : A, mem : F]
      /\ w \in Steps /\ b \in Calls /\ lo \in L /\ hi \in L /\ a \in A
  BY DEF MopType
<1> HIDE DEF C, L, A, F
<1>2. e \in [do : Steps, by : Calls, child : C, lo : L, hi : L, at : A, mem : F]
  BY ONLY <1>1 DEF MovedTo
<1>3. /\ e.do = w /\ e.by = b /\ e.lo = lo /\ e.hi = hi /\ e.at = a
      /\ e.mem = m.mem /\ e.child = m.child
  BY ONLY <1>1 DEF MovedTo
<1> HIDE DEF e
<1>4. e \in MopType
  BY <1>2 DEF MopType, C, L, A, F
<1> QED BY <1>3, <1>4 DEF e

LEMMA LoopMoves ==
    ASSUME Globals, NEW p \in MProcs, NEW w, NEW b, NEW lo, NEW hi, NEW a,
           Loop(p, w, b, lo, hi, a)
    PROVE  /\ mop'[p] = MovedTo(mop[p], w, b, lo, hi, a)
           /\ \A q \in MProcs \ {p} : mop'[q] = mop[q]
           /\ mop' = [q \in MProcs |-> mop'[q]]
<1>1. mop = [q \in MProcs |-> mop[q]]
  BY DEF Globals, Functions
<1>2. mop' = [mop EXCEPT ![p].do = w, ![p].by = b, ![p].lo = lo, ![p].hi = hi, ![p].at = a]
  BY DEF Loop
<1> QED BY <1>1, <1>2 DEF MovedTo

LEMMA AllocFailStep ==
    ASSUME FramesIInv, NEW p \in MProcs, AllocFail(p)
    PROVE  FramesIInv'
    BY UndoStarts DEF AllocFail, In

LEMMA AllocDoneStep ==
    ASSUME FramesIInv, NEW p \in MProcs, AllocDone(p)
    PROVE  FramesIInv'
<1> DEFINE m == mop[p]
<1>1. Globals /\ ProcessRight(p)
  BY Regrouped
<1>2. m \in MopType /\ m.do = "alloc" /\ m.by \in {"sbrk", "exec", "stack"}
      /\ m.mem = 0 /\ m.at >= m.hi /\ UNCHANGED <<free, kstack, cur, zombie, new, gone>>
  BY <1>1 DEF ProcessRight, Typed, Doing, AllocDone, In
<1>3. m.lo \in 0 .. KERNBASE - 1 /\ m.hi \in 0 .. KERNBASE - 1 /\ m.at \in 0 .. KERNBASE
      /\ Aligned(m.at) /\ m.at < m.hi + PGSIZE /\ cur[p].dir # 0
  BY <1>1, <1>2 DEF ProcessRight, LoopRight, SpaceRight, MopType
<1>4. Under(m.at) = Under(m.hi)
  BY <1>2, <1>3, SamePages, Sizes
<1>5. zombie' \subseteq MProcs /\ gone' \subseteq MProcs
  BY <1>1, <1>2 DEF Globals
<1>6. CASE m.by = "sbrk"
  <2>1. /\ mop'[p] = NoOp /\ \A q \in MProcs \ {p} : mop'[q] = mop[q]
        /\ mop' = [q \in MProcs |-> mop'[q]]
        /\ sz'[p] = m.hi /\ \A q \in MProcs \ {p} : sz'[q] = sz[q]
        /\ sz' = [q \in MProcs |-> sz'[q]]
    BY <1>1, <1>6 DEF AllocDone, Finish, Globals, Functions
  <2>2. /\ NoOp \in MopType /\ NoOp.do = "none" /\ NoOp.by = "none" /\ NoOp.mem = 0
        /\ NoOp.child = NoProc
    BY NoOpTyped
  <2>3. ProcessRight(p)'
    <3>1. Typed(mop[p], cur[p], new[p], sz[p])'
      BY <1>1, <1>2, <1>3, <2>1, <2>2 DEF ProcessRight, Typed, Doing
    <3>2. SpaceRight(mop[p], cur[p], new[p], p \in zombie)'
      BY <1>1, <1>2, <1>6, <2>1, <2>2 DEF ProcessRight, SpaceRight
    <3>3. CallRight(mop[p])'
      BY <2>1, <2>2 DEF CallRight
    <3>4. LoopRight(mop[p], sz[p])'
      BY <2>1, <2>2 DEF LoopRight
    <3>5. PageRight(mop[p], cur[p], new[p], sz[p], p \in gone)'
      BY <1>1, <1>2, <1>4, <1>6, <2>1, <2>2 DEF ProcessRight, PageRight
    <3> QED BY <3>1, <3>2, <3>3, <3>4, <3>5 DEF ProcessRight
  <2> QED BY <1>2, <1>5, <2>1, <2>2, <2>3, Proceeds
<1>7. CASE m.by \in {"exec", "stack"}
  <2> DEFINE w == IF m.by = "exec" THEN "load" ELSE "args"
  <2>1. /\ mop'[p] = MovedTo(m, w, "exec", m.hi, 0, 0)
        /\ \A q \in MProcs \ {p} : mop'[q] = mop[q]
        /\ mop' = [q \in MProcs |-> mop'[q]]
        /\ sz' = sz /\ sz' = [q \in MProcs |-> sz'[q]]
    <3>1. Loop(p, w, "exec", m.hi, 0, 0) /\ sz' = sz
      BY <1>7 DEF AllocDone
    <3>2. sz = [q \in MProcs |-> sz[q]]
      BY <1>1 DEF Globals, Functions
    <3> HIDE DEF w
    <3>3. /\ mop'[p] = MovedTo(mop[p], w, "exec", m.hi, 0, 0)
          /\ \A q \in MProcs \ {p} : mop'[q] = mop[q]
          /\ mop' = [q \in MProcs |-> mop'[q]]
      BY <1>1, <3>1, LoopMoves
    <3> QED BY <3>1, <3>2, <3>3
  <2>2. /\ mop'[p] \in MopType /\ mop'[p].do = w /\ mop'[p].by = "exec" /\ mop'[p].lo = m.hi
        /\ mop'[p].mem = 0 /\ mop'[p].child = m.child
    <3>1. 0 \in 0 .. KERNBASE /\ 0 \in 0 .. KERNBASE - 1
      BY Sizes
    <3>2. w \in Steps /\ "exec" \in Calls
      BY DEF Steps, Calls
    <3> HIDE DEF w, m
    <3> QED BY <1>2, <1>3, <2>1, <3>1, <3>2, MopMoved
  <2>3. w \in {"load", "args"}
    OBVIOUS
  <2> HIDE DEF w
  <2>4. ProcessRight(p)'
    <3>1. Typed(mop[p], cur[p], new[p], sz[p])'
      BY <1>1, <1>2, <2>1, <2>2, <2>3 DEF ProcessRight, Typed, Doing
    <3>2. SpaceRight(mop[p], cur[p], new[p], p \in zombie)'
      BY <1>1, <1>2, <1>7, <2>2, <2>3 DEF ProcessRight, SpaceRight
    <3>3. CallRight(mop[p])'
      BY <1>1, <1>2, <1>7, <2>2, <2>3 DEF ProcessRight, CallRight
    <3>4. LoopRight(mop[p], sz[p])'
      BY <2>2, <2>3 DEF LoopRight
    <3>5. PageRight(mop[p], cur[p], new[p], sz[p], p \in gone)'
      BY <1>1, <1>2, <1>4, <1>7, <2>1, <2>2, <2>3 DEF ProcessRight, PageRight
    <3> QED BY <3>1, <3>2, <3>3, <3>4, <3>5 DEF ProcessRight
  <2> QED BY <1>2, <1>5, <2>1, <2>2, <2>4, Proceeds
<1> QED BY <1>2, <1>6, <1>7

\* A space e that is s with one more page, and perhaps the table it is in.
LEMMA PageMapped ==
    ASSUME NEW s \in SpaceType, Backed(s), NEW n \in Page, NEW f \in Frame, NEW g \in Frame,
           NEW e, e = [dir |-> s.dir, tabs |-> [s.tabs EXCEPT ![PDX(n)] = g],
                       pages |-> [s.pages EXCEPT ![n] = f]]
    PROVE  /\ e \in SpaceType /\ Backed(e) /\ e.dir = s.dir /\ Has(e) = Has(s) \cup {n}
           /\ \A j \in Part : PartOf(e, j) = IF j = <<"page", n>> THEN f
                                             ELSE IF j = <<"tab", PDX(n)>> THEN g
                                             ELSE PartOf(s, j)
<1> DEFINE t == PDX(n)
<1>1. t \in Table /\ \A k \in Page : PDX(k) \in Table
  BY TableFacts
<1>2. f # 0 /\ g # 0
  BY DEF Frame
<1>3. /\ s.tabs \in [Table -> Frame \cup {0}] /\ s.pages \in [Page -> Frame \cup {0}]
      /\ s.dir \in Frame \cup {0}
  BY DEF SpaceType
<1>4. /\ e.dir = s.dir
      /\ \A u \in Table : e.tabs[u] = IF u = t THEN g ELSE s.tabs[u]
      /\ \A k \in Page : e.pages[k] = IF k = n THEN f ELSE s.pages[k]
  BY <1>1, <1>3
<1>5. e \in SpaceType
  BY <1>1, <1>3 DEF SpaceType
<1>6. Backed(e)
  <2> SUFFICES ASSUME NEW k \in Page, e.tabs[PDX(k)] = 0 PROVE e.pages[k] = 0
    BY DEF Backed
  <2>1. PDX(k) # t /\ k # n
    BY <1>1, <1>2, <1>4
  <2> QED BY <1>1, <1>4, <2>1 DEF Backed
<1>7. Has(e) = Has(s) \cup {n}
  BY <1>2, <1>4 DEF Has
<1>8. ASSUME NEW j \in Part
      PROVE  PartOf(e, j) = IF j = <<"page", n>> THEN f ELSE IF j = <<"tab", t>> THEN g
                            ELSE PartOf(s, j)
  <2>1. CASE j = <<"dir", 0>>
    BY <1>4, <2>1, PartValues
  <2>2. ASSUME NEW u \in Table, j = <<"tab", u>>
        PROVE  PartOf(e, j) = IF u = t THEN g ELSE PartOf(s, j)
    <3>1. PartOf(e, j) = e.tabs[u] /\ PartOf(s, j) = s.tabs[u]
      BY <2>2, PartValues, Zenon
    <3> HIDE DEF t
    <3> QED BY <1>4, <3>1
  <2>3. ASSUME NEW k \in Page, j = <<"page", k>>
        PROVE  PartOf(e, j) = IF k = n THEN f ELSE PartOf(s, j)
    <3>1. PartOf(e, j) = e.pages[k] /\ PartOf(s, j) = s.pages[k]
      BY <2>3, PartValues, Zenon
    <3> QED BY <1>4, <3>1
  <2> HIDE DEF t
  <2> QED BY <2>1, <2>2, <2>3, PartCases
<1> HIDE DEF t
<1> QED BY <1>4, <1>5, <1>6, <1>7, <1>8 DEF t

LEMMA MapPageStep ==
    ASSUME FramesIInv, NEW p \in MProcs, MapPage(p)
    PROVE  FramesIInv'
<1> DEFINE m == mop[p]
           n == PN(m.at)
           t == PDX(n)
           s == Space(p)
<1>1. Globals /\ OneOwner(Held, free) /\ ProcessRight(p)
  BY Regrouped
<1>2. /\ m \in MopType /\ m.do \in {"alloc", "copy"} /\ m.mem # 0 /\ m.mem \in Frame
      /\ <<m.do, m.by>> \in Doing
  BY <1>1 DEF MapPage, Mapping, ProcessRight, Typed, MopType
<1>3. UNCHANGED <<kstack, sz, zombie, gone>>
  BY DEF MapPage
<1>4. m.at \in Nat /\ m.at < KERNBASE /\ Aligned(m.at) /\ cur[p].dir # 0
  <2>1. CASE m.do = "alloc"
    BY <1>1, <1>2, <2>1, Sizes DEF ProcessRight, LoopRight, SpaceRight, MopType
  <2>2. CASE m.do = "copy"
    BY <1>1, <1>2, <2>2, Sizes DEF ProcessRight, LoopRight, SpaceRight, MopType, Typed
  <2> QED BY <1>2, <2>1, <2>2
<1>5. /\ n \in Page /\ n \notin Under(m.at) /\ m.at + PGSIZE \in 0 .. KERNBASE /\ Aligned(m.at + PGSIZE)
      /\ Under(m.at + PGSIZE) = Under(m.at) \cup {n}
  BY <1>4, ThisPage, Sizes
<1>6. t \in Table
  BY <1>5, TableFacts
<1>7. s \in SpaceType /\ Backed(s) /\ s.pages[n] = 0
  <2>1. CASE m.by = "sbrk"
    <3>1. m.do = "alloc" /\ s = cur[p]
      BY <1>2, <2>1 DEF Doing, Space
    <3>2. Has(cur[p]) \subseteq Under(m.at)
      BY <1>1, <2>1, <3>1 DEF ProcessRight, PageRight
    <3> QED BY <1>1, <1>5, <3>1, <3>2 DEF ProcessRight, Typed, SpaceRight, Has
  <2>2. CASE m.by # "sbrk"
    <3>1. s = new[p] /\ Has(new[p]) = Under(m.at)
      BY <1>1, <1>2, <2>2 DEF ProcessRight, PageRight, Space
    <3> QED BY <1>1, <1>5, <3>1 DEF ProcessRight, Typed, SpaceRight, Has
  <2> QED BY <2>1, <2>2
<1>8. \E e, g : /\ SetSpace(p, e)
                /\ e = [dir |-> s.dir, tabs |-> [s.tabs EXCEPT ![t] = g],
                        pages |-> [s.pages EXCEPT ![n] = m.mem]]
                /\ g \in Frame
                /\ \/ g = s.tabs[t] /\ free' = free
                   \/ s.tabs[t] = 0 /\ g \in free /\ free' = free \ {g}
  <2>1. /\ s = [dir |-> s.dir, tabs |-> s.tabs, pages |-> s.pages]
        /\ s.tabs \in [Table -> Frame \cup {0}]
    BY <1>7 DEF SpaceType
  <2> DEFINE x == [s EXCEPT !.pages[n] = m.mem]
  <2>2. x = [dir |-> s.dir, tabs |-> s.tabs, pages |-> [s.pages EXCEPT ![n] = m.mem]]
    BY <2>1
  <2>3. CASE s.tabs[t] # 0 /\ SetSpace(p, x) /\ UNCHANGED free
    <3>1. s.tabs = [s.tabs EXCEPT ![t] = s.tabs[t]]
      BY <1>6, <2>1
    <3>2. s.tabs[t] \in Frame
      BY <1>6, <2>1, <2>3
    <3>3. x = [dir |-> s.dir, tabs |-> [s.tabs EXCEPT ![t] = s.tabs[t]],
               pages |-> [s.pages EXCEPT ![n] = m.mem]]
      BY <2>2, <3>1
    <3> HIDE DEF x, s, t, n
    <3> QED BY <2>3, <3>2, <3>3
  <2>4. ASSUME s.tabs[t] = 0, NEW g \in free, Kalloc(g), SetSpace(p, [x EXCEPT !.tabs[t] = g])
        PROVE  \E e, h : /\ SetSpace(p, e)
                         /\ e = [dir |-> s.dir, tabs |-> [s.tabs EXCEPT ![t] = h],
                                 pages |-> [s.pages EXCEPT ![n] = m.mem]]
                         /\ h \in Frame
                         /\ \/ h = s.tabs[t] /\ free' = free
                            \/ s.tabs[t] = 0 /\ h \in free /\ free' = free \ {h}
    <3>1. g \in Frame /\ free' = free \ {g}
      BY <1>1, <2>4 DEF Globals, Kalloc
    <3>2. [x EXCEPT !.tabs[t] = g] = [dir |-> s.dir, tabs |-> [s.tabs EXCEPT ![t] = g],
                                      pages |-> [s.pages EXCEPT ![n] = m.mem]]
      <4> HIDE DEF x, s, t, n
      <4> QED BY <2>2
    <3> HIDE DEF x, s, t, n
    <3> QED BY <2>4, <3>1, <3>2
  <2> QED BY <2>3, <2>4 DEF MapPage
<1>9. PICK e, g : /\ SetSpace(p, e)
                 /\ e = [dir |-> s.dir, tabs |-> [s.tabs EXCEPT ![t] = g],
                         pages |-> [s.pages EXCEPT ![n] = m.mem]]
                 /\ g \in Frame
                 /\ \/ g = s.tabs[t] /\ free' = free
                    \/ s.tabs[t] = 0 /\ g \in free /\ free' = free \ {g}
  BY <1>8
<1>10. /\ e \in SpaceType /\ Backed(e) /\ e.dir = s.dir /\ Has(e) = Has(s) \cup {n}
       /\ \A j \in Part : PartOf(e, j) = IF j = <<"page", n>> THEN m.mem
                                         ELSE IF j = <<"tab", t>> THEN g ELSE PartOf(s, j)
  BY <1>2, <1>5, <1>7, <1>9, PageMapped
<1>11. /\ mop'[p] = [m EXCEPT !.at = m.at + PGSIZE, !.mem = 0]
       /\ \A q \in MProcs \ {p} : mop'[q] = mop[q]
       /\ mop' = [q \in MProcs |-> mop'[q]]
  BY <1>1 DEF Globals, Functions, MapPage, NextPage
<1>12. /\ mop'[p] \in MopType /\ mop'[p].do = m.do /\ mop'[p].by = m.by /\ mop'[p].mem = 0
       /\ mop'[p].child = m.child /\ mop'[p].lo = m.lo /\ mop'[p].hi = m.hi
       /\ mop'[p].at = m.at + PGSIZE
  BY <1>2, <1>5, <1>11 DEF MopType
<1> HIDE DEF s, t, n
<1>13. MemBecomes(p, 0) /\ SameStack
  BY <1>3, <1>11, <1>12 DEF MemBecomes, SameStack
<1>14. PartOf(s, <<"page", n>>) = 0 /\ PartOf(s, <<"tab", t>>) = s.tabs[t]
       /\ <<"page", n>> \in Part /\ <<"tab", t>> \in Part
  BY <1>5, <1>6, <1>7, PartValues, PartCases
<1>15. CallRight(mop[p])'
  BY <1>1, <1>2, <1>12 DEF ProcessRight, CallRight
<1>16. LoopRight(mop[p], sz[p])'
  <2>1. m.mem # 0 /\ LoopRight(m, sz[p])
    BY <1>1, <1>2 DEF ProcessRight
  <2>2. /\ m.lo \in Nat /\ m.hi \in Nat /\ sz[p] \in Nat
    BY <1>1, <1>2, Sizes DEF ProcessRight, Typed, MopType
  <2> QED BY <1>2, <1>3, <1>4, <1>5, <1>12, <2>1, <2>2, Sizes DEF LoopRight
<1>17. CASE m.by = "sbrk"
  <2>1. m.do = "alloc" /\ s = cur[p] /\ new' = new /\ cur'[p] = e
        /\ (\A q \in MProcs \ {p} : cur'[q] = cur[q]) /\ cur' = [q \in MProcs |-> cur'[q]]
    BY <1>1, <1>2, <1>9, <1>17 DEF Doing, Space, SetSpace, Globals, Functions, s
  <2>2. OneOwner(Held', free')
    <3>1. Mapped(cur, cur', p, n, t, g) /\ SameNew
      BY <1>10, <2>1 DEF Mapped, SameNew
    <3>2. Maps(p, n, t, g, CurPart(p, <<"page", n>>), CurPart(p, <<"tab", t>>))
      BY <1>13, <3>1 DEF Maps
    <3>3. Held[CurPart(p, <<"page", n>>)] = 0 /\ Held[CurPart(p, <<"tab", t>>)] = s.tabs[t]
      BY <1>14, <2>1, HeldValues
    <3>4. free \subseteq Frame
      BY <1>1 DEF Globals
    <3> QED BY <1>1, <1>5, <1>6, <1>9, <3>2, <3>3, <3>4, MapsOwned
  <2>3. OnlyOf(p)
    BY <1>1, <1>3, <1>9, <1>10, <1>11, <1>12, <2>1 DEF OnlyOf, Globals, Functions
  <2>4. ProcessRight(p)'
    <3>1. Typed(mop[p], cur[p], new[p], sz[p])'
      BY <1>1, <1>2, <1>3, <1>10, <1>12, <2>1 DEF ProcessRight, Typed
    <3>2. SpaceRight(mop[p], cur[p], new[p], p \in zombie)'
      BY <1>1, <1>3, <1>4, <1>10, <1>12, <1>17, <2>1 DEF ProcessRight, SpaceRight
    <3>3. PageRight(mop[p], cur[p], new[p], sz[p], p \in gone)'
      BY <1>1, <1>3, <1>5, <1>10, <1>12, <1>17, <2>1 DEF ProcessRight, PageRight
    <3> QED BY <1>15, <1>16, <3>1, <3>2, <3>3 DEF ProcessRight
  <2> QED BY <2>2, <2>3, <2>4, Local
<1>18. CASE m.by # "sbrk"
  <2>1. s = new[p] /\ cur' = cur /\ new'[p] = e
        /\ (\A q \in MProcs \ {p} : new'[q] = new[q]) /\ new' = [q \in MProcs |-> new'[q]]
    BY <1>1, <1>2, <1>9, <1>18 DEF Space, SetSpace, Globals, Functions, s
  <2>2. OneOwner(Held', free')
    <3>1. Mapped(new, new', p, n, t, g) /\ SameCur
      BY <1>10, <2>1 DEF Mapped, SameCur
    <3>2. Maps(p, n, t, g, NewPart(p, <<"page", n>>), NewPart(p, <<"tab", t>>))
      BY <1>13, <3>1 DEF Maps
    <3>3. Held[NewPart(p, <<"page", n>>)] = 0 /\ Held[NewPart(p, <<"tab", t>>)] = s.tabs[t]
      BY <1>14, <2>1, HeldValues
    <3>4. free \subseteq Frame
      BY <1>1 DEF Globals
    <3> QED BY <1>1, <1>5, <1>6, <1>9, <3>2, <3>3, <3>4, MapsOwned
  <2>3. OnlyOf(p)
    BY <1>1, <1>3, <1>9, <1>10, <1>11, <1>12, <2>1 DEF OnlyOf, Globals, Functions
  <2>4. ProcessRight(p)'
    <3>1. Typed(mop[p], cur[p], new[p], sz[p])'
      BY <1>1, <1>2, <1>3, <1>10, <1>12, <2>1 DEF ProcessRight, Typed
    <3>2. SpaceRight(mop[p], cur[p], new[p], p \in zombie)'
      BY <1>1, <1>2, <1>3, <1>4, <1>10, <1>12, <1>18, <2>1 DEF ProcessRight, SpaceRight
    <3>3. PageRight(mop[p], cur[p], new[p], sz[p], p \in gone)'
      BY <1>1, <1>2, <1>3, <1>5, <1>10, <1>12, <1>18, <2>1 DEF ProcessRight, PageRight
    <3> QED BY <1>15, <1>16, <3>1, <3>2, <3>3 DEF ProcessRight
  <2> QED BY <2>2, <2>3, <2>4, Local
<1> QED BY <1>17, <1>18

LEMMA HeldTyped ==
    ASSUME FramesIInv
    PROVE  \A y \in Places : Held[y] \in Frame \cup {0}
<1>1. Globals /\ \A p \in MProcs : ProcessRight(p)
  BY Regrouped
<1>2. ASSUME NEW s \in SpaceType, NEW k \in Part PROVE PartOf(s, k) \in Frame \cup {0}
  BY PartCases, PartValues DEF SpaceType
<1> SUFFICES ASSUME NEW y \in Places PROVE Held[y] \in Frame \cup {0}
  OBVIOUS
<1>3. PICK p \in MProcs : \/ y = StackOf(p)
                         \/ y = MemOf(p)
                         \/ \E j \in Part : y = CurPart(p, j) \/ y = NewPart(p, j)
  BY PlaceCases
<1>4. /\ kstack[p] \in Frame \cup {0} /\ mop[p].mem \in Frame \cup {0}
      /\ cur[p] \in SpaceType /\ new[p] \in SpaceType
  BY <1>1 DEF Globals, ProcessRight, Typed, MopType
<1> QED BY <1>2, <1>3, <1>4, HeldValues

LEMMA MemReleased ==
    ASSUME FramesIInv, NEW p \in MProcs, UNCHANGED <<kstack, cur, new>>,
           mop'[p].mem = 0, \A q \in MProcs \ {p} : mop'[q] = mop[q], Kfree(mop[p].mem)
    PROVE  OneOwner(Held', free')
<1>1. Globals /\ OneOwner(Held, free)
  BY Regrouped
<1>2. MemBecomes(p, 0) /\ SameStack /\ SameCur /\ SameNew
  BY DEF MemBecomes, SameStack, SameCur, SameNew
<1>3. Changes(p, <<"dir", 0>>, MemOf(p), 0) /\ <<"dir", 0>> \in Part
  BY <1>2, PartCases DEF Changes
<1>4. free' = free \cup ({Held[MemOf(p)]} \ {0}) /\ free \subseteq Frame
  BY <1>1, HeldValues DEF Kfree, Globals
<1> QED BY <1>1, <1>3, <1>4, HeldTyped, Releases

LEMMA FreedTyped ==
    ASSUME FramesIInv, NEW f \in Frame \cup {0}, Kfree(f)
    PROVE  free' \subseteq Frame
<1>1. free \subseteq Frame
  BY Regrouped DEF Globals
<1> QED BY <1>1 DEF Kfree

\* A call that has failed, and gives its frame back, frees what it was building.
LEMMA GivesUp ==
    ASSUME FramesIInv, NEW p \in MProcs, mop[p].by \in {"fork", "exec", "stack"},
           mop[p].do # "none",
           Kfree(mop[p].mem), mop' = [mop EXCEPT ![p].do = "free", ![p].mem = 0],
           UNCHANGED <<kstack, cur, sz, zombie, new, gone>>
    PROVE  FramesIInv'
<1> DEFINE m == mop[p]
<1>1. Globals /\ ProcessRight(p)
  BY Regrouped
<1>2. m \in MopType
  BY <1>1 DEF ProcessRight, Typed
<1>3. /\ mop'[p] = [m EXCEPT !.do = "free", !.mem = 0]
      /\ \A q \in MProcs \ {p} : mop'[q] = mop[q]
      /\ mop' = [q \in MProcs |-> mop'[q]]
  BY <1>1 DEF Globals, Functions
<1>4. /\ mop'[p] \in MopType /\ mop'[p].do = "free" /\ mop'[p].mem = 0 /\ mop'[p].by = m.by
      /\ mop'[p].child = m.child
  BY <1>2, <1>3 DEF MopType, Steps
<1>5. OneOwner(Held', free')
  BY <1>3, <1>4, MemReleased
<1>6. free' \subseteq Frame
  BY <1>2, FreedTyped DEF MopType
<1>7. OnlyOf(p)
  BY <1>1, <1>3, <1>4, <1>6 DEF OnlyOf, Globals, Functions
<1>8. ProcessRight(p)'
  <2>1. Typed(mop[p], cur[p], new[p], sz[p])'
    <3>1. <<"free", m.by>> \in Doing
      BY DEF Doing
    <3> QED BY <1>1, <1>4, <3>1 DEF ProcessRight, Typed
  <2>2. SpaceRight(mop[p], cur[p], new[p], p \in zombie)'
    BY <1>1, <1>4 DEF ProcessRight, SpaceRight
  <2>3. CallRight(mop[p])'
    BY <1>1, <1>4 DEF ProcessRight, CallRight
  <2>4. LoopRight(mop[p], sz[p])'
    BY <1>1, <1>4 DEF ProcessRight, LoopRight
  <2>5. PageRight(mop[p], cur[p], new[p], sz[p], p \in gone)'
    BY <1>1, <1>4 DEF ProcessRight, PageRight
  <2> QED BY <2>1, <2>2, <2>3, <2>4, <2>5 DEF ProcessRight
<1> QED BY <1>5, <1>7, <1>8, Local

LEMMA MapFailStep ==
    ASSUME FramesIInv, NEW p \in MProcs, MapFail(p)
    PROVE  FramesIInv'
<1>1. ProcessRight(p)
  BY Regrouped
<1>2. mop[p].do \in {"alloc", "copy"} /\ mop[p].mem # 0
  BY DEF MapFail, Mapping
<1>3. CASE mop[p].do = "alloc"
  <2>1. mop[p].at < mop[p].hi
    BY <1>1, <1>2, <1>3 DEF ProcessRight, LoopRight
  <2> QED BY <1>3, <2>1, UndoStarts DEF MapFail, In
<1>4. CASE mop[p].do = "copy"
  <2>1. mop[p].by = "fork"
    BY <1>1, <1>4 DEF ProcessRight, Typed, Doing
  <2> QED BY <1>4, <2>1, GivesUp DEF MapFail, In
<1> QED BY <1>2, <1>3, <1>4

LEMMA UndoDoneStep ==
    ASSUME FramesIInv, NEW p \in MProcs, UndoDone(p)
    PROVE  FramesIInv'
<1> DEFINE m == mop[p]
<1>1. Globals /\ ProcessRight(p)
  BY Regrouped
<1>2. /\ m \in MopType /\ m.do = "undo" /\ m.by \in {"sbrk", "exec", "stack"} /\ m.at >= m.hi
      /\ Kfree(m.mem) /\ UNCHANGED <<kstack, cur, sz, zombie, new, gone>>
  BY <1>1 DEF ProcessRight, Typed, Doing, UndoDone, In
<1>3. CASE m.by # "sbrk"
  BY <1>2, <1>3, GivesUp DEF UndoDone
<1>4. CASE m.by = "sbrk"
  <2>1. /\ mop'[p] = NoOp /\ \A q \in MProcs \ {p} : mop'[q] = mop[q]
        /\ mop' = [q \in MProcs |-> mop'[q]]
    BY <1>1, <1>4 DEF UndoDone, Finish, Globals, Functions
  <2>2. OneOwner(Held', free')
    BY <1>2, <2>1, NoOpTyped, MemReleased
  <2>3. free' \subseteq Frame
    BY <1>2, FreedTyped DEF MopType
  <2>4. OnlyOf(p)
    BY <1>1, <1>2, <2>1, <2>3, NoOpTyped DEF OnlyOf, Globals, Functions
  <2>5. Under(m.hi) \subseteq Under(m.at) /\ sz[p] = m.lo
    <3>1. m.hi \in Nat /\ m.at \in Nat
      BY <1>2, Sizes DEF MopType
    <3> QED BY <1>1, <1>2, <1>4, <3>1, UnderGrows DEF ProcessRight, LoopRight
  <2>6. ProcessRight(p)'
    <3>1. Typed(mop[p], cur[p], new[p], sz[p])'
      BY <1>1, <1>2, <2>1, NoOpTyped DEF ProcessRight, Typed, Doing
    <3>2. SpaceRight(mop[p], cur[p], new[p], p \in zombie)'
      BY <1>1, <1>2, <1>4, <2>1, NoOpTyped DEF ProcessRight, SpaceRight
    <3>3. CallRight(mop[p])'
      BY <2>1, NoOpTyped DEF CallRight
    <3>4. LoopRight(mop[p], sz[p])'
      BY <2>1, NoOpTyped DEF LoopRight
    <3>5. PageRight(mop[p], cur[p], new[p], sz[p], p \in gone)'
      BY <1>1, <1>2, <1>4, <2>1, <2>5, NoOpTyped DEF ProcessRight, PageRight
    <3> QED BY <3>1, <3>2, <3>3, <3>4, <3>5 DEF ProcessRight
  <2> QED BY <2>2, <2>4, <2>6, Local
<1> QED BY <1>3, <1>4

\* A space e that is s without one of its pages.
LEMMA PageCleared ==
    ASSUME NEW s \in SpaceType, Backed(s), NEW n \in Page, NEW e, e = [s EXCEPT !.pages[n] = 0]
    PROVE  /\ e \in SpaceType /\ Backed(e) /\ e.dir = s.dir /\ e.tabs = s.tabs
           /\ Has(e) = Has(s) \ {n}
           /\ \A k \in Page : e.pages[k] = IF k = n THEN 0 ELSE s.pages[k]
           /\ \A j \in Part : PartOf(e, j) = IF j = <<"page", n>> THEN 0 ELSE PartOf(s, j)
<1>1. /\ s = [dir |-> s.dir, tabs |-> s.tabs, pages |-> s.pages]
      /\ s.tabs \in [Table -> Frame \cup {0}] /\ s.pages \in [Page -> Frame \cup {0}]
      /\ s.dir \in Frame \cup {0}
  BY DEF SpaceType
<1>2. e = [dir |-> s.dir, tabs |-> s.tabs, pages |-> [s.pages EXCEPT ![n] = 0]]
  BY <1>1
<1>3. /\ e.dir = s.dir /\ e.tabs = s.tabs
      /\ \A k \in Page : e.pages[k] = IF k = n THEN 0 ELSE s.pages[k]
  BY <1>1, <1>2
<1>4. e \in SpaceType
  BY <1>1, <1>2 DEF SpaceType
<1>5. Backed(e) /\ Has(e) = Has(s) \ {n}
  BY <1>3 DEF Backed, Has
<1>6. ASSUME NEW j \in Part
      PROVE  PartOf(e, j) = IF j = <<"page", n>> THEN 0 ELSE PartOf(s, j)
  <2>1. CASE j = <<"dir", 0>>
    BY <1>3, <2>1, PartValues
  <2>2. ASSUME NEW u \in Table, j = <<"tab", u>>
        PROVE  PartOf(e, j) = PartOf(s, j) /\ j # <<"page", n>>
    <3>1. PartOf(e, j) = e.tabs[u] /\ PartOf(s, j) = s.tabs[u]
      BY <2>2, PartValues, Zenon
    <3> QED BY <1>3, <2>2, <3>1
  <2>3. ASSUME NEW k \in Page, j = <<"page", k>>
        PROVE  PartOf(e, j) = IF k = n THEN 0 ELSE PartOf(s, j)
    <3>1. PartOf(e, j) = e.pages[k] /\ PartOf(s, j) = s.pages[k]
      BY <2>3, PartValues, Zenon
    <3> QED BY <1>3, <3>1
  <2> QED BY <2>1, <2>2, <2>3, PartCases
<1> QED BY <1>3, <1>4, <1>5, <1>6

\* The pages of a table that is missing are behind the next address of the loop.
LEMMA TableSkipped ==
    ASSUME NEW s \in SpaceType, Backed(s), NEW n \in Page, s.tabs[PDX(n)] = 0,
           NEW b, b = (PDX(n) + 1) * NPTENTRIES * PGSIZE
    PROVE  /\ b \in 0 .. KERNBASE /\ Aligned(b) /\ n * PGSIZE < b
           /\ Has(s) \cap (Under(b) \ Under(n * PGSIZE)) = {}
<1>1. b \in Nat /\ Aligned(b) /\ b <= KERNBASE /\ n * PGSIZE < b
  BY NextTable
<1>2. ASSUME NEW k \in Page, k \in Under(b), k \notin Under(n * PGSIZE) PROVE s.pages[k] = 0
  <2>1. k * PGSIZE < b /\ ~(k * PGSIZE < n * PGSIZE) /\ k \in Nat /\ n \in Nat
    BY <1>2, PageFacts DEF Under
  <2>2. n <= k
    BY <2>1, Sizes, Division
  <2>3. PDX(k) = PDX(n)
    BY <2>1, <2>2, NextTable
  <2> QED BY <2>3 DEF Backed
<1> QED BY <1>1, <1>2, Sizes DEF Has

LEMMA DeallocPageStep ==
    ASSUME FramesIInv, NEW p \in MProcs, DeallocPage(p)
    PROVE  FramesIInv'
<1> DEFINE m == mop[p]
           n == PN(m.at)
           s == Space(p)
<1>1. Globals /\ OneOwner(Held, free) /\ ProcessRight(p)
  BY Regrouped
<1>2. /\ m \in MopType /\ m.do \in {"dealloc", "undo"} /\ m.at < m.hi
      /\ m.do = "dealloc" => m.by = "sbrk"
      /\ <<m.do, m.by>> \in Doing
      /\ UNCHANGED <<kstack, sz, zombie, gone>>
  BY <1>1 DEF DeallocPage, ProcessRight, Typed, Doing
<1>3. /\ m.at \in Nat /\ m.at < KERNBASE /\ Aligned(m.at) /\ m.lo <= m.at /\ m.lo \in Nat
      /\ m.hi \in Nat /\ m.lo < m.hi
  BY <1>1, <1>2, Sizes DEF ProcessRight, LoopRight, MopType
<1>4. /\ n \in Page /\ n * PGSIZE = m.at /\ n \notin Under(m.at)
      /\ m.at + PGSIZE \in 0 .. KERNBASE /\ Aligned(m.at + PGSIZE)
      /\ Under(m.at + PGSIZE) = Under(m.at) \cup {n}
  BY <1>3, ThisPage, Sizes
<1>5. s \in SpaceType /\ Backed(s)
  BY <1>1 DEF ProcessRight, Typed, SpaceRight, Space
<1>6. Under(m.lo) \subseteq Under(m.at)
  BY <1>3, UnderGrows
<1> HIDE DEF n
\* What holds of the call holds of it with any next address.
<1>7. ASSUME NEW a \in 0 .. KERNBASE, Aligned(a), m.at <= a, mop' = [mop EXCEPT ![p].at = a]
      PROVE  /\ mop'[p] \in MopType /\ mop'[p].do = m.do /\ mop'[p].by = m.by /\ mop'[p].mem = m.mem
             /\ mop'[p].child = m.child /\ mop'[p].lo = m.lo /\ mop'[p].hi = m.hi /\ mop'[p].at = a
             /\ \A q \in MProcs \ {p} : mop'[q] = mop[q]
             /\ mop' = [q \in MProcs |-> mop'[q]]
             /\ CallRight(mop[p])' /\ LoopRight(mop[p], sz[p])'
  <2>1. /\ mop'[p] = [m EXCEPT !.at = a]
        /\ \A q \in MProcs \ {p} : mop'[q] = mop[q]
        /\ mop' = [q \in MProcs |-> mop'[q]]
    BY <1>1, <1>7 DEF Globals, Functions
  <2>2. /\ mop'[p] \in MopType /\ mop'[p].do = m.do /\ mop'[p].by = m.by /\ mop'[p].mem = m.mem
        /\ mop'[p].child = m.child /\ mop'[p].lo = m.lo /\ mop'[p].hi = m.hi /\ mop'[p].at = a
    BY <1>2, <2>1 DEF MopType
  <2>3. CallRight(mop[p])'
    BY <1>1, <1>2, <2>2 DEF ProcessRight, CallRight
  <2>4. LoopRight(mop[p], sz[p])'
    BY <1>1, <1>2, <1>3, <1>7, <2>2, Sizes DEF ProcessRight, LoopRight
  <2> QED BY <2>1, <2>2, <2>3, <2>4
<1>8. CASE s.tabs[PDX(n)] = 0
  <2> DEFINE b == (PDX(n) + 1) * NPTENTRIES * PGSIZE
  <2>1. b \in 0 .. KERNBASE /\ Aligned(b) /\ m.at < b /\ Has(s) \cap (Under(b) \ Under(m.at)) = {}
    BY <1>4, <1>5, <1>8, TableSkipped
  <2>2. mop' = [mop EXCEPT ![p].at = b] /\ UNCHANGED <<free, cur, new>>
    BY <1>8 DEF DeallocPage, n
  <2> HIDE DEF b
  <2>3. /\ mop'[p] \in MopType /\ mop'[p].do = m.do /\ mop'[p].by = m.by /\ mop'[p].mem = m.mem
        /\ mop'[p].child = m.child /\ mop'[p].lo = m.lo /\ mop'[p].hi = m.hi /\ mop'[p].at = b
        /\ \A q \in MProcs \ {p} : mop'[q] = mop[q]
        /\ mop' = [q \in MProcs |-> mop'[q]]
        /\ CallRight(mop[p])' /\ LoopRight(mop[p], sz[p])'
    <3>1. m.at <= b
      BY <1>3, <2>1
    <3> QED BY <1>7, <2>1, <2>2, <3>1
  <2>4. ProcessRight(p)'
    <3>1. Typed(mop[p], cur[p], new[p], sz[p])'
      BY <1>1, <1>2, <2>2, <2>3 DEF ProcessRight, Typed
    <3>2. SpaceRight(mop[p], cur[p], new[p], p \in zombie)'
      BY <1>1, <1>2, <2>2, <2>3 DEF ProcessRight, SpaceRight
    <3>3. PageRight(mop[p], cur[p], new[p], sz[p], p \in gone)'
      BY <1>1, <1>2, <2>1, <2>2, <2>3 DEF ProcessRight, PageRight, Space
    <3> QED BY <2>3, <3>1, <3>2, <3>3 DEF ProcessRight
  <2>5. zombie' \subseteq MProcs /\ gone' \subseteq MProcs /\ sz' = [q \in MProcs |-> sz'[q]]
    BY <1>1, <1>2 DEF Globals, Functions
  <2> QED BY <1>2, <2>2, <2>3, <2>4, <2>5, Proceeds
<1>9. CASE s.tabs[PDX(n)] # 0
  <2> DEFINE e == [s EXCEPT !.pages[n] = 0]
  <2>1. /\ e \in SpaceType /\ Backed(e) /\ e.dir = s.dir /\ Has(e) = Has(s) \ {n}
        /\ \A j \in Part : PartOf(e, j) = IF j = <<"page", n>> THEN 0 ELSE PartOf(s, j)
    BY <1>4, <1>5, PageCleared
  <2>2. Kfree(s.pages[n]) /\ SetSpace(p, e) /\ mop' = [mop EXCEPT ![p].at = m.at + PGSIZE]
    BY <1>9 DEF DeallocPage, n
  <2>3. /\ mop'[p] \in MopType /\ mop'[p].do = m.do /\ mop'[p].by = m.by /\ mop'[p].mem = m.mem
        /\ mop'[p].child = m.child /\ mop'[p].lo = m.lo /\ mop'[p].hi = m.hi
        /\ mop'[p].at = m.at + PGSIZE
        /\ \A q \in MProcs \ {p} : mop'[q] = mop[q]
        /\ mop' = [q \in MProcs |-> mop'[q]]
        /\ CallRight(mop[p])' /\ LoopRight(mop[p], sz[p])'
    <3> DEFINE a == m.at + PGSIZE
    <3>1. a \in 0 .. KERNBASE /\ Aligned(a) /\ m.at <= a /\ mop' = [mop EXCEPT ![p].at = a]
      BY <1>3, <1>4, <2>2, Sizes
    <3> HIDE DEF a
    <3>2. /\ mop'[p] \in MopType /\ mop'[p].do = m.do /\ mop'[p].by = m.by /\ mop'[p].mem = m.mem
          /\ mop'[p].child = m.child /\ mop'[p].lo = m.lo /\ mop'[p].hi = m.hi
          /\ mop'[p].at = a
          /\ \A q \in MProcs \ {p} : mop'[q] = mop[q]
          /\ mop' = [q \in MProcs |-> mop'[q]]
          /\ CallRight(mop[p])' /\ LoopRight(mop[p], sz[p])'
      BY <1>7, <3>1
    <3> QED BY <3>2 DEF a
  <2> HIDE DEF e
  <2>4. SameMem /\ SameStack
    BY <1>2, <2>3 DEF SameMem, SameStack
  <2>5. s.pages[n] \in Frame \cup {0} /\ PartOf(s, <<"page", n>>) = s.pages[n]
        /\ <<"page", n>> \in Part /\ free \subseteq Frame
    BY <1>1, <1>4, <1>5, PartValues, PartCases DEF SpaceType, Globals
  <2>6. free' \subseteq Frame
    BY <2>2, <2>5, FreedTyped
  <2>7. CASE m.by = "sbrk"
    <3>1. s = cur[p] /\ new' = new /\ cur'[p] = e
          /\ (\A q \in MProcs \ {p} : cur'[q] = cur[q]) /\ cur' = [q \in MProcs |-> cur'[q]]
      BY <1>1, <2>2, <2>7 DEF Space, SetSpace, Globals, Functions
    <3>2. OneOwner(Held', free')
      <4>1. CurBecomes(p, <<"page", n>>, 0) /\ SameNew
        BY <2>1, <3>1 DEF CurBecomes, SameNew
      <4>2. Changes(p, <<"page", n>>, CurPart(p, <<"page", n>>), 0)
        BY <2>4, <4>1 DEF Changes
      <4>3. free' = free \cup ({Held[CurPart(p, <<"page", n>>)]} \ {0})
        BY <2>2, <2>5, <3>1, HeldValues DEF Kfree
      <4> QED BY <1>1, <2>5, <4>2, <4>3, HeldTyped, Releases
    <3>3. OnlyOf(p)
      BY <1>1, <1>2, <2>1, <2>3, <2>6, <3>1 DEF OnlyOf, Globals, Functions
    <3>4. ProcessRight(p)'
      <4>1. Typed(mop[p], cur[p], new[p], sz[p])'
        BY <1>1, <1>2, <2>1, <2>3, <3>1 DEF ProcessRight, Typed
      <4>2. SpaceRight(mop[p], cur[p], new[p], p \in zombie)'
        BY <1>1, <1>2, <2>1, <2>3, <2>7, <3>1 DEF ProcessRight, SpaceRight
      <4>3. PageRight(mop[p], cur[p], new[p], sz[p], p \in gone)'
        BY <1>1, <1>2, <1>4, <1>6, <2>1, <2>3, <2>7, <3>1 DEF ProcessRight, PageRight
      <4> QED BY <2>3, <4>1, <4>2, <4>3 DEF ProcessRight
    <3> QED BY <3>2, <3>3, <3>4, Local
  <2>8. CASE m.by # "sbrk"
    <3>1. s = new[p] /\ cur' = cur /\ new'[p] = e
          /\ (\A q \in MProcs \ {p} : new'[q] = new[q]) /\ new' = [q \in MProcs |-> new'[q]]
      BY <1>1, <2>2, <2>8 DEF Space, SetSpace, Globals, Functions
    <3>2. OneOwner(Held', free')
      <4>1. NewBecomes(p, <<"page", n>>, 0) /\ SameCur
        BY <2>1, <3>1 DEF NewBecomes, SameCur
      <4>2. Changes(p, <<"page", n>>, NewPart(p, <<"page", n>>), 0)
        BY <2>4, <4>1 DEF Changes
      <4>3. free' = free \cup ({Held[NewPart(p, <<"page", n>>)]} \ {0})
        BY <2>2, <2>5, <3>1, HeldValues DEF Kfree
      <4> QED BY <1>1, <2>5, <4>2, <4>3, HeldTyped, Releases
    <3>3. OnlyOf(p)
      BY <1>1, <1>2, <2>1, <2>3, <2>6, <3>1 DEF OnlyOf, Globals, Functions
    <3>4. ProcessRight(p)'
      <4>1. Typed(mop[p], cur[p], new[p], sz[p])'
        BY <1>1, <1>2, <2>1, <2>3, <3>1 DEF ProcessRight, Typed
      <4>2. SpaceRight(mop[p], cur[p], new[p], p \in zombie)'
        BY <1>1, <1>2, <2>1, <2>3, <2>8, <3>1 DEF ProcessRight, SpaceRight
      <4>3. PageRight(mop[p], cur[p], new[p], sz[p], p \in gone)'
        BY <1>1, <1>2, <2>1, <2>3, <2>8, <3>1 DEF ProcessRight, PageRight
      <4> QED BY <2>3, <4>1, <4>2, <4>3 DEF ProcessRight
    <3> QED BY <3>2, <3>3, <3>4, Local
  <2> QED BY <2>7, <2>8
<1> QED BY <1>8, <1>9

\* sbrk() wraps around the address space only where it fails.
LEMMA NewSize ==
    ASSUME NEW s \in 0 .. KERNBASE - 1, NEW k \in Amounts, NEW to, to = (s + k) % ADDRESSES
    PROVE  /\ to \in Nat
           /\ k > 0 => to > s
<1>1. k \in Int /\ k < ADDRESSES \div 2 /\ -(ADDRESSES \div 2) < k
  BY MemoryAssumption
<1>2. ADDRESSES \div 2 \in Nat /\ 2 * (ADDRESSES \div 2) <= ADDRESSES /\ ADDRESSES > 0
  BY Sizes
<1>3. s \in Nat /\ 2 * s < ADDRESSES
  BY Sizes
<1>4. to \in Nat
  BY <1>1, <1>2, <1>3, Sizes
<1>5. ASSUME k > 0 PROVE to > s
  <2>1. s + k \in Nat /\ s + k < ADDRESSES
    <3> DEFINE h == ADDRESSES \div 2
    <3>1. h \in Nat /\ 2 * h <= ADDRESSES /\ k < h
      BY <1>1, <1>2
    <3> HIDE DEF h
    <3> QED BY <1>1, <1>3, <1>5, <3>1, Sizes
  <2>2. (s + k) % ADDRESSES = s + k
    BY <1>2, <2>1, Sizes
  <2> QED BY <1>1, <1>3, <1>5, <2>2
<1> QED BY <1>4, <1>5

LEMMA SbrkStep ==
    ASSUME FramesIInv, NEW p \in MProcs, NEW k \in Amounts, Sbrk(p, k)
    PROVE  FramesIInv'
<1> DEFINE m == mop[p]
           to == (sz[p] + k) % ADDRESSES
<1>1. Globals /\ ProcessRight(p)
  BY Regrouped
<1>2. /\ m.do = "none" /\ m = NoOp /\ cur[p].dir # 0 /\ p \notin zombie
      /\ sz[p] \in 0 .. KERNBASE - 1
      /\ UNCHANGED <<free, kstack, cur, sz, zombie, new, gone>>
  BY <1>1 DEF ProcessRight, Typed, CallRight, Sbrk, Idle
<1>3. to \in Nat /\ (k > 0 => to > sz[p])
  BY <1>2, NewSize
<1> HIDE DEF to
<1>4. ASSUME NEW d \in {"alloc", "dealloc"}, NEW lo \in 0 .. KERNBASE - 1, NEW hi \in 0 .. KERNBASE - 1,
             NEW a, lo < hi, a = RoundUp(lo), sz[p] = IF d = "dealloc" THEN hi ELSE lo,
             Loop(p, d, "sbrk", lo, hi, a)
      PROVE  FramesIInv'
  <2>1. /\ mop'[p] = [m EXCEPT !.do = d, !.by = "sbrk", !.lo = lo, !.hi = hi, !.at = a]
        /\ \A q \in MProcs \ {p} : mop'[q] = mop[q]
        /\ mop' = [q \in MProcs |-> mop'[q]]
    BY <1>1, <1>4 DEF Globals, Functions, Loop
  <2>2. /\ a \in 0 .. KERNBASE /\ Aligned(a) /\ lo <= a /\ a < hi + PGSIZE /\ Under(a) = Under(lo)
    BY <1>4, FirstPage
  <2>3. /\ mop'[p] \in MopType /\ mop'[p].do = d /\ mop'[p].by = "sbrk" /\ mop'[p].lo = lo
        /\ mop'[p].hi = hi /\ mop'[p].at = a /\ mop'[p].mem = 0 /\ mop'[p].child = NoProc
    <3>1. mop'[p] = MovedTo(m, d, "sbrk", lo, hi, a)
      BY <2>1 DEF MovedTo
    <3>2. m \in MopType /\ m.mem = 0 /\ m.child = NoProc
      BY <1>2, NoOpTyped
    <3>3. d \in Steps /\ "sbrk" \in Calls
      BY DEF Steps, Calls
    <3> QED BY <2>2, <3>1, <3>2, <3>3, MopMoved
  <2>4. Under(lo) \subseteq Under(hi)
    BY <1>4, Sizes, UnderGrows
  <2>5. ProcessRight(p)'
    <3>1. Typed(mop[p], cur[p], new[p], sz[p])'
      <4>1. <<d, "sbrk">> \in Doing
        BY DEF Doing
      <4> QED BY <1>1, <1>2, <2>3, <4>1 DEF ProcessRight, Typed
    <3>2. SpaceRight(mop[p], cur[p], new[p], p \in zombie)'
      BY <1>1, <1>2, <2>3 DEF ProcessRight, SpaceRight
    <3>3. CallRight(mop[p])'
      BY <2>3 DEF CallRight
    <3>4. LoopRight(mop[p], sz[p])'
      BY <1>2, <1>4, <2>2, <2>3 DEF LoopRight
    <3>5. PageRight(mop[p], cur[p], new[p], sz[p], p \in gone)'
      <4>1. /\ Has(cur[p]) \subseteq Under(sz[p])
            /\ p \notin gone => Has(cur[p]) = Under(sz[p])
        BY <1>1, <1>2, NoOpTyped DEF ProcessRight, PageRight
      <4> QED BY <1>2, <1>4, <2>2, <2>3, <2>4, <4>1 DEF PageRight
    <3> QED BY <3>1, <3>2, <3>3, <3>4, <3>5 DEF ProcessRight
  <2>6. zombie' \subseteq MProcs /\ gone' \subseteq MProcs /\ sz' = [q \in MProcs |-> sz'[q]]
    BY <1>1, <1>2 DEF Globals, Functions
  <2> QED BY <1>2, <2>1, <2>3, <2>5, <2>6, NoOpTyped, Proceeds
<1>5. \/ k > 0 /\ to < KERNBASE /\ Loop(p, "alloc", "sbrk", sz[p], to, RoundUp(sz[p]))
      \/ k < 0 /\ to < sz[p] /\ Loop(p, "dealloc", "sbrk", to, sz[p], RoundUp(to))
  BY DEF Sbrk, Allocuvm, Deallocuvm, FirstAbove, to
<1>6. CASE k > 0 /\ to < KERNBASE /\ Loop(p, "alloc", "sbrk", sz[p], to, RoundUp(sz[p]))
  <2>1. to \in 0 .. KERNBASE - 1 /\ sz[p] < to
    BY <1>2, <1>3, <1>6, Sizes
  <2> QED BY <1>2, <1>4, <1>6, <2>1
<1>7. CASE k < 0 /\ to < sz[p] /\ Loop(p, "dealloc", "sbrk", to, sz[p], RoundUp(to))
  <2>1. to \in 0 .. KERNBASE - 1
    BY <1>2, <1>3, <1>7, Sizes
  <2> QED BY <1>2, <1>4, <1>7, <2>1
<1> QED BY <1>5, <1>6, <1>7

LEMMA DeallocDoneStep ==
    ASSUME FramesIInv, NEW p \in MProcs, DeallocDone(p)
    PROVE  FramesIInv'
<1> DEFINE m == mop[p]
<1>1. Globals /\ ProcessRight(p)
  BY Regrouped
<1>2. /\ m \in MopType /\ m.do = "dealloc" /\ m.by = "sbrk" /\ m.at >= m.hi
      /\ UNCHANGED <<free, kstack, cur, zombie, new>>
  BY <1>1 DEF ProcessRight, Typed, Doing, DeallocDone, In
<1>3. m.lo \in 0 .. KERNBASE - 1 /\ m.hi \in Nat /\ m.at \in Nat /\ m.mem = 0
  BY <1>1, <1>2, Sizes DEF MopType, ProcessRight, CallRight
<1>4. /\ mop'[p] = NoOp /\ \A q \in MProcs \ {p} : mop'[q] = mop[q]
      /\ mop' = [q \in MProcs |-> mop'[q]]
  BY <1>1 DEF DeallocDone, Finish, Globals, Functions
<1>5. Has(cur[p]) \subseteq Under(m.lo) /\ (p \notin gone => Has(cur[p]) = Under(m.lo))
  <2>1. Under(m.hi) \subseteq Under(m.at)
    BY <1>2, <1>3, UnderGrows
  <2> QED BY <1>1, <1>2, <2>1 DEF ProcessRight, PageRight
<1>6. \/ m.lo = 0 /\ gone' = gone \cup {p} /\ sz' = sz
      \/ m.lo # 0 /\ sz' = [sz EXCEPT ![p] = m.lo] /\ gone' = gone
  BY DEF DeallocDone
<1>7. /\ sz' = [q \in MProcs |-> sz'[q]] /\ \A q \in MProcs \ {p} : sz'[q] = sz[q]
      /\ gone' \subseteq MProcs /\ \A q \in MProcs \ {p} : q \in gone' <=> q \in gone
      /\ zombie' \subseteq MProcs
      /\ sz'[p] \in 0 .. KERNBASE - 1
  BY <1>1, <1>2, <1>3, <1>6 DEF Globals, Functions, ProcessRight, Typed
<1>8. Has(cur[p]) \subseteq Under(sz'[p]) /\ (p \notin gone' => Has(cur[p]) = Under(sz'[p]))
  <2>1. CASE m.lo = 0 /\ gone' = gone \cup {p} /\ sz' = sz
    <3>1. Under(0) = {}
      BY PageFacts DEF Under
    <3> QED BY <1>5, <2>1, <3>1
  <2>2. CASE m.lo # 0 /\ sz' = [sz EXCEPT ![p] = m.lo] /\ gone' = gone
    <3>1. sz'[p] = m.lo
      BY <1>1, <2>2 DEF Globals, Functions
    <3> QED BY <1>5, <2>2, <3>1
  <2> QED BY <1>6, <2>1, <2>2
<1>9. ProcessRight(p)'
  <2>1. Typed(mop[p], cur[p], new[p], sz[p])'
    BY <1>1, <1>2, <1>4, <1>7, NoOpTyped DEF ProcessRight, Typed, Doing
  <2>2. SpaceRight(mop[p], cur[p], new[p], p \in zombie)'
    BY <1>1, <1>2, <1>4, NoOpTyped DEF ProcessRight, SpaceRight
  <2>3. CallRight(mop[p])'
    BY <1>4, NoOpTyped DEF CallRight
  <2>4. LoopRight(mop[p], sz[p])'
    BY <1>4, NoOpTyped DEF LoopRight
  <2>5. PageRight(mop[p], cur[p], new[p], sz[p], p \in gone)'
    BY <1>2, <1>4, <1>8, NoOpTyped DEF PageRight
  <2> QED BY <2>1, <2>2, <2>3, <2>4, <2>5 DEF ProcessRight
<1> QED BY <1>2, <1>3, <1>4, <1>7, <1>9, NoOpTyped, Proceeds

\* exit() ends what the process has, and frees nothing yet.
LEMMA ExitStep ==
    ASSUME FramesIInv, NEW p \in MProcs, ExitSpace(p)
    PROVE  FramesIInv'
<1>1. Globals /\ ProcessRight(p)
  BY Regrouped
<1>2. /\ mop[p].do = "none" /\ cur[p].dir # 0 /\ zombie' = zombie \cup {p}
      /\ UNCHANGED <<free, kstack, cur, sz, new, mop, gone>>
  BY DEF ExitSpace, Idle
<1>3. ProcessRight(p)'
  <2>1. SpaceRight(mop[p], cur[p], new[p], p \in zombie)'
    BY <1>1, <1>2 DEF ProcessRight, SpaceRight
  <2> QED BY <1>1, <1>2, <2>1 DEF ProcessRight, Typed, CallRight, LoopRight, PageRight
<1>4. /\ zombie' \subseteq MProcs /\ gone' \subseteq MProcs /\ sz' = [q \in MProcs |-> sz'[q]]
      /\ mop' = [q \in MProcs |-> mop'[q]]
  BY <1>1, <1>2 DEF Globals, Functions
<1> QED BY <1>2, <1>3, <1>4, Proceeds

\* The steps that only change where a call is.
LEMMA TurnsTo ==
    ASSUME FramesIInv, NEW p \in MProcs, NEW d \in Steps, NEW b \in Calls, <<d, b>> \in Doing,
           mop' = [mop EXCEPT ![p].do = d, ![p].by = b], mop[p].child = NoProc, b # "fork",
           b # "sbrk", mop[p].by # "sbrk", mop[p].mem = 0, d \in {"setup", "free"},
           cur[p].dir # 0, p \notin zombie,
           d = "setup" => /\ mop[p].at = 0 /\ mop[p].lo = 0
                          /\ new[p] = [NoSpace EXCEPT !.dir = new[p].dir],
           UNCHANGED <<free, kstack, cur, sz, zombie, new, gone>>
    PROVE  FramesIInv'
<1>1. Globals /\ ProcessRight(p)
  BY Regrouped
<1>2. mop[p] \in MopType
  BY <1>1 DEF ProcessRight, Typed
<1>3. /\ mop'[p] = [mop[p] EXCEPT !.do = d, !.by = b] /\ \A q \in MProcs \ {p} : mop'[q] = mop[q]
      /\ mop' = [q \in MProcs |-> mop'[q]]
  BY <1>1 DEF Globals, Functions
<1>4. /\ mop'[p] \in MopType /\ mop'[p].do = d /\ mop'[p].by = b /\ mop'[p].child = mop[p].child
      /\ mop'[p].at = mop[p].at /\ mop'[p].mem = mop[p].mem /\ mop'[p].lo = mop[p].lo
  BY <1>2, <1>3 DEF MopType
<1>5. ProcessRight(p)'
  <2>1. Typed(mop[p], cur[p], new[p], sz[p])'
    BY <1>1, <1>4 DEF ProcessRight, Typed
  <2>2. SpaceRight(mop[p], cur[p], new[p], p \in zombie)'
    BY <1>1, <1>4 DEF ProcessRight, SpaceRight
  <2>3. CallRight(mop[p])'
    BY <1>4 DEF CallRight
  <2>4. LoopRight(mop[p], sz[p])'
    BY <1>4 DEF LoopRight
  <2>5. PageRight(mop[p], cur[p], new[p], sz[p], p \in gone)'
    BY <1>1, <1>4 DEF ProcessRight, PageRight
  <2> QED BY <2>1, <2>2, <2>3, <2>4, <2>5 DEF ProcessRight
<1>6. zombie' \subseteq MProcs /\ gone' \subseteq MProcs /\ sz' = [q \in MProcs |-> sz'[q]]
  BY <1>1 DEF Globals, Functions
<1> QED BY <1>3, <1>4, <1>5, <1>6, Proceeds

LEMMA ExecStep ==
    ASSUME FramesIInv, NEW p \in MProcs, Exec(p)
    PROVE  FramesIInv'
<1>1. ProcessRight(p)
  BY Regrouped
<1>2. /\ mop[p].do = "none" /\ mop[p] = NoOp /\ cur[p].dir # 0 /\ p \notin zombie
      /\ new[p] = NoSpace
  BY <1>1 DEF ProcessRight, CallRight, SpaceRight, Exec, Idle
<1>3. <<"setup", "exec">> \in Doing /\ "setup" \in Steps /\ "exec" \in Calls
  BY DEF Doing, Steps, Calls
<1>4. new[p] = [NoSpace EXCEPT !.dir = new[p].dir]
  BY <1>2 DEF NoSpace
<1> QED BY <1>2, <1>3, <1>4, NoOpTyped, TurnsTo DEF Exec

LEMMA LoadFails ==
    ASSUME FramesIInv, NEW p \in MProcs, mop[p].do \in {"load", "args"}, MGoto(p, "free"),
           UNCHANGED <<free, kstack, cur, sz, zombie, new, gone>>
    PROVE  FramesIInv'
<1>1. Globals /\ ProcessRight(p)
  BY Regrouped
<1>2. /\ mop[p] \in MopType /\ mop[p].by = "exec" /\ mop[p].child = NoProc /\ mop[p].mem = 0
      /\ cur[p].dir # 0 /\ p \notin zombie
  BY <1>1 DEF ProcessRight, Typed, Doing, CallRight, SpaceRight
<1>3. <<"free", "exec">> \in Doing /\ "free" \in Steps /\ "exec" \in Calls
  BY DEF Doing, Steps, Calls
<1>4. mop' = [mop EXCEPT ![p].do = "free", ![p].by = "exec"]
  <2>1. [mop[p] EXCEPT !.do = "free", !.by = "exec"] = [mop[p] EXCEPT !.do = "free"]
    BY <1>2 DEF MopType
  <2> QED BY <1>1, <2>1 DEF MGoto, Globals, Functions
<1> QED BY <1>2, <1>3, <1>4, TurnsTo

\* exec() begins the next allocuvm().
LEMMA LoadGoesOn ==
    ASSUME FramesIInv, NEW p \in MProcs, mop[p].do = "load", NEW b \in {"exec", "stack"},
           NEW lo \in 0 .. KERNBASE - 1, NEW hi \in 0 .. KERNBASE - 1, lo < hi,
           Under(lo) = Under(mop[p].lo), Allocuvm(p, b, lo, hi),
           UNCHANGED <<free, kstack, cur, sz, zombie, new, gone>>
    PROVE  FramesIInv'
<1> DEFINE m == mop[p]
           a == RoundUp(lo)
<1>1. Globals /\ ProcessRight(p)
  BY Regrouped
<1>2. /\ m \in MopType /\ m.by = "exec" /\ m.child = NoProc /\ m.mem = 0
      /\ cur[p].dir # 0 /\ p \notin zombie
  BY <1>1 DEF ProcessRight, Typed, Doing, CallRight, SpaceRight
<1>3. /\ mop'[p] = MovedTo(m, "alloc", b, lo, hi, a)
      /\ \A q \in MProcs \ {p} : mop'[q] = mop[q]
      /\ mop' = [q \in MProcs |-> mop'[q]]
  <2>1. Loop(p, "alloc", b, lo, hi, a)
    BY DEF Allocuvm
  <2> HIDE DEF a
  <2> QED BY <1>1, <2>1, LoopMoves
<1>4. a \in 0 .. KERNBASE /\ Aligned(a) /\ lo <= a /\ a < hi + PGSIZE /\ Under(a) = Under(lo)
  BY FirstPage
<1> HIDE DEF a
<1>5. /\ mop'[p] \in MopType /\ mop'[p].do = "alloc" /\ mop'[p].by = b /\ mop'[p].lo = lo
      /\ mop'[p].hi = hi /\ mop'[p].at = a /\ mop'[p].mem = 0 /\ mop'[p].child = NoProc
  <2>1. "alloc" \in Steps /\ b \in Calls
    BY DEF Steps, Calls
  <2> HIDE DEF m
  <2> QED BY <1>2, <1>3, <1>4, <2>1, MopMoved
<1>6. ProcessRight(p)'
  <2>1. Typed(mop[p], cur[p], new[p], sz[p])'
    <3>1. <<"alloc", b>> \in Doing
      BY DEF Doing
    <3> QED BY <1>1, <1>5, <3>1 DEF ProcessRight, Typed
  <2>2. SpaceRight(mop[p], cur[p], new[p], p \in zombie)'
    BY <1>1, <1>2, <1>5 DEF ProcessRight, SpaceRight
  <2>3. CallRight(mop[p])'
    BY <1>5 DEF CallRight
  <2>4. LoopRight(mop[p], sz[p])'
    BY <1>4, <1>5 DEF LoopRight
  <2>5. PageRight(mop[p], cur[p], new[p], sz[p], p \in gone)'
    BY <1>1, <1>2, <1>4, <1>5 DEF ProcessRight, PageRight
  <2> QED BY <2>1, <2>2, <2>3, <2>4, <2>5 DEF ProcessRight
<1>7. zombie' \subseteq MProcs /\ gone' \subseteq MProcs /\ sz' = [q \in MProcs |-> sz'[q]]
  BY <1>1 DEF Globals, Functions
<1> QED BY <1>2, <1>3, <1>5, <1>6, <1>7, Proceeds

LEMMA LoadStep ==
    ASSUME FramesIInv, NEW p \in MProcs, Load(p)
    PROVE  FramesIInv'
<1>1. mop[p].do = "load" /\ UNCHANGED <<free, kstack, cur, sz, zombie, new, gone>>
  BY DEF Load, In
<1>2. mop[p].lo \in 0 .. KERNBASE - 1
  BY Regrouped DEF ProcessRight, Typed, MopType
<1>3. CASE MGoto(p, "free")
  BY <1>1, <1>3, LoadFails
<1>4. ASSUME NEW e \in Segments, mop[p].lo < e, e < KERNBASE, Allocuvm(p, "exec", mop[p].lo, e)
      PROVE  FramesIInv'
  <2>1. e \in 0 .. KERNBASE - 1
    BY <1>2, <1>4, Sizes, MemoryAssumption
  <2> QED BY <1>1, <1>2, <1>4, <2>1, LoadGoesOn
<1> QED BY <1>3, <1>4 DEF Load

LEMMA StackStep ==
    ASSUME FramesIInv, NEW p \in MProcs, Stack(p)
    PROVE  FramesIInv'
<1> DEFINE top == RoundUp(mop[p].lo)
<1>1. mop[p].do = "load" /\ UNCHANGED <<free, kstack, cur, sz, zombie, new, gone>>
  BY DEF Stack, In
<1>2. mop[p].lo \in 0 .. KERNBASE - 1
  BY Regrouped DEF ProcessRight, Typed, MopType
<1>3. CASE top + 2 * PGSIZE < KERNBASE
  <2>1. top \in Nat /\ Under(top) = Under(mop[p].lo)
    BY <1>2, Sizes, Rounded, SamePages
  <2>2. Allocuvm(p, "stack", top, top + 2 * PGSIZE)
    BY <1>3 DEF Stack
  <2> HIDE DEF top
  <2>3. top \in 0 .. KERNBASE - 1 /\ top + 2 * PGSIZE \in 0 .. KERNBASE - 1 /\ top < top + 2 * PGSIZE
    BY <1>3, <2>1, Sizes
  <2> QED BY <1>1, <2>1, <2>2, <2>3, LoadGoesOn
<1>4. CASE ~(top + 2 * PGSIZE < KERNBASE)
  BY <1>1, <1>4, LoadFails DEF Stack
<1> QED BY <1>3, <1>4

LEMMA ArgsFailStep ==
    ASSUME FramesIInv, NEW p \in MProcs, ArgsFail(p)
    PROVE  FramesIInv'
    BY LoadFails DEF ArgsFail, In

LEMMA NoSpaceDir ==
    ASSUME NEW d
    PROVE  /\ [NoSpace EXCEPT !.dir = d].dir = d
           /\ [NoSpace EXCEPT !.dir = d].tabs = NoSpace.tabs
           /\ [NoSpace EXCEPT !.dir = d].pages = NoSpace.pages
    BY DEF NoSpace

LEMMA NoSpaceTyped ==
    /\ NoSpace \in SpaceType /\ NoSpace.dir = 0 /\ Backed(NoSpace) /\ Has(NoSpace) = {}
    /\ \A t \in Table : NoSpace.tabs[t] = 0
    /\ \A n \in Page : NoSpace.pages[n] = 0
    /\ [NoSpace EXCEPT !.dir = 0] = NoSpace
    BY DEF NoSpace, SpaceType, Backed, Has

\* A call that has nothing of its own left: it is over, but for the stack of a child.
LEMMA Abandons ==
    ASSUME FramesIInv, NEW p \in MProcs, mop[p].do \in {"setup", "free"}, Abandon(p),
           new'[p] = NoSpace, UNCHANGED <<cur, sz, zombie, gone>>
    PROVE  /\ ProcessRight(p)'
           /\ mop'[p].mem = mop[p].mem /\ mop'[p].child \in {NoProc, mop[p].child}
           /\ \A q \in MProcs \ {p} : mop'[q] = mop[q]
           /\ mop' = [q \in MProcs |-> mop'[q]]
<1>1. Globals /\ ProcessRight(p)
  BY Regrouped
<1>2. /\ mop[p] \in MopType /\ mop[p].mem = 0 /\ mop[p].by \in {"fork", "exec", "stack", "reap"}
      /\ cur[p].dir # 0 /\ p \notin zombie
  BY <1>1 DEF ProcessRight, Typed, Doing, CallRight, SpaceRight
<1>3. /\ \A q \in MProcs \ {p} : mop'[q] = mop[q]
      /\ mop' = [q \in MProcs |-> mop'[q]]
      /\ mop'[p] = IF mop[p].by = "fork" THEN [mop[p] EXCEPT !.do = "unfork"] ELSE NoOp
  BY <1>1 DEF Globals, Functions, Abandon, MGoto, Finish
<1>4. /\ mop'[p] \in MopType /\ <<mop'[p].do, mop'[p].by>> \in Doing /\ mop'[p].mem = 0
      /\ mop'[p].do \in {"unfork", "none"} /\ (mop'[p].do = "none" => mop'[p] = NoOp)
      /\ mop'[p].by # "sbrk" /\ mop'[p].child \in {NoProc, mop[p].child}
      /\ mop'[p].by = "fork" <=> mop'[p].child # NoProc
  <2>1. CASE mop[p].by = "fork"
    <3>1. mop'[p] \in MopType /\ mop'[p].do = "unfork" /\ mop'[p].by = "fork" /\ mop'[p].mem = 0
          /\ mop'[p].child = mop[p].child
      BY <1>2, <1>3, <2>1 DEF MopType, Steps
    <3>2. <<"unfork", "fork">> \in Doing
      BY DEF Doing
    <3> QED BY <1>1, <2>1, <3>1, <3>2 DEF ProcessRight, CallRight
  <2>2. CASE mop[p].by # "fork"
    <3>1. mop'[p] = NoOp /\ <<"none", "none">> \in Doing
      BY <1>3, <2>2 DEF Doing
    <3> QED BY <3>1, NoOpTyped
  <2> QED BY <2>1, <2>2
<1>5. ProcessRight(p)'
  <2>1. Typed(mop[p], cur[p], new[p], sz[p])'
    BY <1>1, <1>4, NoSpaceTyped DEF ProcessRight, Typed
  <2>2. SpaceRight(mop[p], cur[p], new[p], p \in zombie)'
    BY <1>1, <1>2, <1>4, NoSpaceTyped DEF ProcessRight, SpaceRight
  <2>3. CallRight(mop[p])'
    BY <1>4 DEF CallRight
  <2>4. LoopRight(mop[p], sz[p])'
    BY <1>4 DEF LoopRight
  <2>5. PageRight(mop[p], cur[p], new[p], sz[p], p \in gone)'
    BY <1>1, <1>2, <1>4 DEF ProcessRight, PageRight
  <2> QED BY <2>1, <2>2, <2>3, <2>4, <2>5 DEF ProcessRight
<1> QED BY <1>2, <1>3, <1>4, <1>5

\* freevm(): one frame of the space goes back.
LEMMA NewReleased ==
    ASSUME FramesIInv, NEW p \in MProcs, UNCHANGED <<kstack, cur>>, SameMem,
           NEW k \in Part, Kfree(PartOf(new[p], k)), \A q \in MProcs \ {p} : new'[q] = new[q],
           \A j \in Part : PartOf(new'[p], j) = IF j = k THEN 0 ELSE PartOf(new[p], j)
    PROVE  OneOwner(Held', free') /\ free' \subseteq Frame
<1>1. Globals /\ OneOwner(Held, free)
  BY Regrouped
<1>2. NewBecomes(p, k, 0) /\ SameStack /\ SameCur
  BY DEF NewBecomes, SameStack, SameCur
<1>3. Changes(p, k, NewPart(p, k), 0)
  BY <1>2 DEF Changes
<1>4. free' = free \cup ({Held[NewPart(p, k)]} \ {0}) /\ free \subseteq Frame
  BY <1>1, HeldValues DEF Kfree, Globals
<1>5. PartOf(new[p], k) \in Frame \cup {0}
  BY HeldTyped, HeldValues, PlacesThere
<1>6. free' \subseteq Frame
  BY <1>5, FreedTyped
<1> QED BY <1>1, <1>3, <1>4, <1>6, HeldTyped, Releases

LEMMA FreePageStep ==
    ASSUME FramesIInv, NEW p \in MProcs, FreePage(p)
    PROVE  FramesIInv'
<1>1. Globals /\ ProcessRight(p)
  BY Regrouped
<1>2. PICK n \in Page : Kfree(new[p].pages[n]) /\ new' = [new EXCEPT ![p].pages[n] = 0]
  BY DEF FreePage
<1>3. mop[p].do = "free" /\ UNCHANGED <<kstack, cur, sz, zombie, mop, gone>>
  BY DEF FreePage, In
<1> DEFINE e == [new[p] EXCEPT !.pages[n] = 0]
<1>4. /\ new'[p] = e /\ (\A q \in MProcs \ {p} : new'[q] = new[q])
      /\ new' = [q \in MProcs |-> new'[q]]
  BY <1>1, <1>2 DEF Globals, Functions
<1>5. new[p] \in SpaceType /\ Backed(new[p])
  BY <1>1 DEF ProcessRight, Typed, SpaceRight
<1>6. /\ e \in SpaceType /\ Backed(e)
      /\ \A j \in Part : PartOf(e, j) = IF j = <<"page", n>> THEN 0 ELSE PartOf(new[p], j)
  BY <1>5, PageCleared
<1> HIDE DEF e
<1>7. PartOf(new[p], <<"page", n>>) = new[p].pages[n] /\ <<"page", n>> \in Part
  BY PartValues, PartCases
<1>8. OneOwner(Held', free') /\ free' \subseteq Frame
  <2>1. SameMem
    BY <1>3 DEF SameMem
  <2> QED BY <1>2, <1>3, <1>4, <1>6, <1>7, <2>1, NewReleased
<1>9. OnlyOf(p)
  BY <1>1, <1>3, <1>4, <1>8 DEF OnlyOf, Globals, Functions
<1>10. ProcessRight(p)'
  <2>1. mop[p].by # "sbrk"
    BY <1>1, <1>3 DEF ProcessRight, Typed, Doing
  <2>2. Typed(mop[p], cur[p], new[p], sz[p])'
    BY <1>1, <1>3, <1>4, <1>6 DEF ProcessRight, Typed
  <2>3. SpaceRight(mop[p], cur[p], new[p], p \in zombie)'
    BY <1>1, <1>3, <1>4, <1>6, <2>1 DEF ProcessRight, SpaceRight
  <2>4. PageRight(mop[p], cur[p], new[p], sz[p], p \in gone)'
    BY <1>1, <1>3, <2>1 DEF ProcessRight, PageRight
  <2> QED BY <1>1, <1>3, <2>2, <2>3, <2>4 DEF ProcessRight, CallRight, LoopRight
<1> QED BY <1>8, <1>9, <1>10, Local

LEMMA FreeTableStep ==
    ASSUME FramesIInv, NEW p \in MProcs, FreeTable(p)
    PROVE  FramesIInv'
<1>1. Globals /\ ProcessRight(p)
  BY Regrouped
<1>2. PICK t \in Table : Kfree(new[p].tabs[t]) /\ new' = [new EXCEPT ![p].tabs[t] = 0]
  BY DEF FreeTable
<1>3. /\ mop[p].do = "free" /\ UNCHANGED <<kstack, cur, sz, zombie, mop, gone>>
      /\ new[p].pages = NoSpace.pages
  BY DEF FreeTable, In
<1> DEFINE s == new[p]
           e == [s EXCEPT !.tabs[t] = 0]
<1>4. /\ new'[p] = e /\ (\A q \in MProcs \ {p} : new'[q] = new[q])
      /\ new' = [q \in MProcs |-> new'[q]]
  BY <1>1, <1>2 DEF Globals, Functions
<1>5. /\ s \in SpaceType /\ s = [dir |-> s.dir, tabs |-> s.tabs, pages |-> s.pages]
      /\ s.tabs \in [Table -> Frame \cup {0}]
  BY <1>1 DEF ProcessRight, Typed, SpaceType
<1>6. e = [dir |-> s.dir, tabs |-> [s.tabs EXCEPT ![t] = 0], pages |-> s.pages]
  BY <1>5
<1>7. /\ e \in SpaceType /\ e.dir = s.dir /\ e.pages = s.pages
      /\ \A u \in Table : e.tabs[u] = IF u = t THEN 0 ELSE s.tabs[u]
  BY <1>5, <1>6 DEF SpaceType
<1> HIDE DEF e
<1>8. Backed(e)
  BY <1>3, <1>7, NoSpaceTyped DEF Backed
<1>9. ASSUME NEW j \in Part
      PROVE  PartOf(e, j) = IF j = <<"tab", t>> THEN 0 ELSE PartOf(s, j)
  <2>1. CASE j = <<"dir", 0>>
    BY <1>7, <2>1, PartValues
  <2>2. ASSUME NEW u \in Table, j = <<"tab", u>>
        PROVE  PartOf(e, j) = IF u = t THEN 0 ELSE PartOf(s, j)
    <3>1. PartOf(e, j) = e.tabs[u] /\ PartOf(s, j) = s.tabs[u]
      BY <2>2, PartValues, Zenon
    <3> QED BY <1>7, <3>1
  <2>3. ASSUME NEW k \in Page, j = <<"page", k>>
        PROVE  PartOf(e, j) = PartOf(s, j) /\ j # <<"tab", t>>
    <3>1. PartOf(e, j) = e.pages[k] /\ PartOf(s, j) = s.pages[k]
      BY <2>3, PartValues, Zenon
    <3> QED BY <1>7, <2>3, <3>1
  <2> QED BY <2>1, <2>2, <2>3, PartCases
<1>10. PartOf(s, <<"tab", t>>) = s.tabs[t] /\ <<"tab", t>> \in Part
  BY PartValues, PartCases
<1>11. OneOwner(Held', free') /\ free' \subseteq Frame
  <2>1. SameMem
    BY <1>3 DEF SameMem
  <2> QED BY <1>2, <1>3, <1>4, <1>9, <1>10, <2>1, NewReleased
<1>12. OnlyOf(p)
  BY <1>1, <1>3, <1>4, <1>11 DEF OnlyOf, Globals, Functions
<1>13. ProcessRight(p)'
  <2>1. mop[p].by # "sbrk"
    BY <1>1, <1>3 DEF ProcessRight, Typed, Doing
  <2>2. Typed(mop[p], cur[p], new[p], sz[p])'
    BY <1>1, <1>3, <1>4, <1>7 DEF ProcessRight, Typed
  <2>3. SpaceRight(mop[p], cur[p], new[p], p \in zombie)'
    BY <1>1, <1>3, <1>4, <1>8, <2>1 DEF ProcessRight, SpaceRight
  <2>4. PageRight(mop[p], cur[p], new[p], sz[p], p \in gone)'
    BY <1>1, <1>3, <2>1 DEF ProcessRight, PageRight
  <2> QED BY <1>1, <1>3, <2>2, <2>3, <2>4 DEF ProcessRight, CallRight, LoopRight
<1> QED BY <1>11, <1>12, <1>13, Local

LEMMA FreeDirStep ==
    ASSUME FramesIInv, NEW p \in MProcs, FreeDir(p)
    PROVE  FramesIInv'
<1>1. Globals /\ ProcessRight(p)
  BY Regrouped
<1>2. /\ mop[p].do = "free" /\ new[p] = [NoSpace EXCEPT !.dir = new[p].dir] /\ Kfree(new[p].dir)
      /\ Abandon(p) /\ UNCHANGED <<kstack, cur, sz, zombie, gone>>
  BY DEF FreeDir, In
<1>3. /\ new'[p] = NoSpace /\ (\A q \in MProcs \ {p} : new'[q] = new[q])
      /\ new' = [q \in MProcs |-> new'[q]]
  BY <1>1 DEF FreeDir, Globals, Functions
<1>4. new[p].tabs = NoSpace.tabs /\ new[p].pages = NoSpace.pages
  <2>1. PICK d : d = new[p].dir
    OBVIOUS
  <2>2. new[p] = [NoSpace EXCEPT !.dir = d]
    BY <1>2, <2>1
  <2> QED BY <2>2, NoSpaceDir
<1>5. ASSUME NEW j \in Part
      PROVE  PartOf(NoSpace, j) = IF j = <<"dir", 0>> THEN 0 ELSE PartOf(new[p], j)
  <2>1. CASE j = <<"dir", 0>>
    BY <2>1, PartValues, NoSpaceTyped
  <2>2. ASSUME NEW u \in Table, j = <<"tab", u>>
        PROVE  PartOf(NoSpace, j) = PartOf(new[p], j) /\ j # <<"dir", 0>>
    <3>1. PartOf(NoSpace, j) = NoSpace.tabs[u] /\ PartOf(new[p], j) = new[p].tabs[u]
      BY <2>2, PartValues, Zenon
    <3> QED BY <1>4, <2>2, <3>1
  <2>3. ASSUME NEW k \in Page, j = <<"page", k>>
        PROVE  PartOf(NoSpace, j) = PartOf(new[p], j) /\ j # <<"dir", 0>>
    <3>1. PartOf(NoSpace, j) = NoSpace.pages[k] /\ PartOf(new[p], j) = new[p].pages[k]
      BY <2>3, PartValues, Zenon
    <3> QED BY <1>4, <2>3, <3>1
  <2> QED BY <2>1, <2>2, <2>3, PartCases
<1>6. /\ ProcessRight(p)'
      /\ mop'[p].mem = mop[p].mem /\ mop'[p].child \in {NoProc, mop[p].child}
      /\ \A q \in MProcs \ {p} : mop'[q] = mop[q]
      /\ mop' = [q \in MProcs |-> mop'[q]]
  BY <1>2, <1>3, Abandons
<1>7. OneOwner(Held', free') /\ free' \subseteq Frame
  <2>1. SameMem
    BY <1>6 DEF SameMem
  <2>2. PartOf(new[p], <<"dir", 0>>) = new[p].dir /\ <<"dir", 0>> \in Part
    BY PartValues, PartCases
  <2> QED BY <1>2, <1>3, <1>5, <2>1, <2>2, NewReleased
<1>8. OnlyOf(p)
  BY <1>1, <1>2, <1>3, <1>6, <1>7 DEF OnlyOf, Globals, Functions
<1> QED BY <1>6, <1>7, <1>8, Local

\* setupkvm() and copyuvm(): one place of the space takes a frame.
LEMMA NewAllocated ==
    ASSUME FramesIInv, NEW p \in MProcs, UNCHANGED <<kstack, cur>>, SameMem,
           NEW k \in Part, NEW f \in free, free' = free \ {f}, PartOf(new[p], k) = 0,
           \A q \in MProcs \ {p} : new'[q] = new[q],
           \A j \in Part : PartOf(new'[p], j) = IF j = k THEN f ELSE PartOf(new[p], j)
    PROVE  OneOwner(Held', free') /\ free' \subseteq Frame
<1>1. Globals /\ OneOwner(Held, free)
  BY Regrouped
<1>2. NewBecomes(p, k, f) /\ SameStack /\ SameCur
  BY DEF NewBecomes, SameStack, SameCur
<1>3. Changes(p, k, NewPart(p, k), f)
  BY <1>2 DEF Changes
<1>4. free \subseteq Frame /\ Held[NewPart(p, k)] = 0
  BY <1>1, HeldValues DEF Globals
<1> QED BY <1>1, <1>3, <1>4, Allocates

LEMMA SetupDirStep ==
    ASSUME FramesIInv, NEW p \in MProcs, SetupDir(p)
    PROVE  FramesIInv'
<1>1. Globals /\ OneOwner(Held, free) /\ ProcessRight(p)
  BY Regrouped
<1>2. mop[p].do = "setup" /\ new[p].dir = 0 /\ UNCHANGED <<kstack, cur, sz, zombie, gone>>
  BY DEF SetupDir, In
<1>3. new[p] = NoSpace
  BY <1>1, <1>2, NoSpaceTyped DEF ProcessRight, SpaceRight
<1>4. ASSUME NEW f \in free, free' = free \ {f}, new' = [new EXCEPT ![p].dir = f], UNCHANGED mop
      PROVE  FramesIInv'
  <2> DEFINE e == [NoSpace EXCEPT !.dir = f]
  <2>1. /\ new'[p] = e /\ (\A q \in MProcs \ {p} : new'[q] = new[q])
        /\ new' = [q \in MProcs |-> new'[q]]
    BY <1>1, <1>3, <1>4 DEF Globals, Functions
  <2>2. e.dir = f /\ e.tabs = NoSpace.tabs /\ e.pages = NoSpace.pages /\ f \in Frame /\ f # 0
    BY <1>1, NoSpaceTyped DEF Globals, Frame
  <2>3. e \in SpaceType /\ Backed(e) /\ e = [NoSpace EXCEPT !.dir = e.dir]
    <3>1. e = [dir |-> f, tabs |-> NoSpace.tabs, pages |-> NoSpace.pages]
      BY DEF NoSpace
    <3>2. NoSpace.tabs \in [Table -> Frame \cup {0}] /\ NoSpace.pages \in [Page -> Frame \cup {0}]
      BY DEF NoSpace
    <3>3. e \in SpaceType
      BY <2>2, <3>1, <3>2 DEF SpaceType
    <3>4. Backed(e)
      BY <2>2, NoSpaceTyped DEF Backed
    <3> QED BY <2>2, <3>3, <3>4
  <2> HIDE DEF e
  <2>4. ASSUME NEW j \in Part
        PROVE  PartOf(e, j) = IF j = <<"dir", 0>> THEN f ELSE PartOf(NoSpace, j)
    <3>1. CASE j = <<"dir", 0>>
      BY <2>2, <3>1, PartValues
    <3>2. ASSUME NEW u \in Table, j = <<"tab", u>>
          PROVE  PartOf(e, j) = PartOf(NoSpace, j) /\ j # <<"dir", 0>>
      <4>1. PartOf(e, j) = e.tabs[u] /\ PartOf(NoSpace, j) = NoSpace.tabs[u]
        BY <3>2, PartValues, Zenon
      <4> QED BY <2>2, <3>2, <4>1
    <3>3. ASSUME NEW i \in Page, j = <<"page", i>>
          PROVE  PartOf(e, j) = PartOf(NoSpace, j) /\ j # <<"dir", 0>>
      <4>1. PartOf(e, j) = e.pages[i] /\ PartOf(NoSpace, j) = NoSpace.pages[i]
        BY <3>3, PartValues, Zenon
      <4> QED BY <2>2, <3>3, <4>1
    <3> QED BY <3>1, <3>2, <3>3, PartCases
  <2>5. OneOwner(Held', free') /\ free' \subseteq Frame
    <3>1. SameMem
      BY <1>4 DEF SameMem
    <3>2. PartOf(new[p], <<"dir", 0>>) = 0 /\ <<"dir", 0>> \in Part
      BY <1>2, PartValues, PartCases
    <3> QED BY <1>2, <1>3, <1>4, <2>1, <2>4, <3>1, <3>2, NewAllocated
  <2>6. OnlyOf(p)
    BY <1>1, <1>2, <1>4, <2>1, <2>5 DEF OnlyOf, Globals, Functions
  <2>7. ProcessRight(p)'
    <3>1. mop[p].by # "sbrk"
      BY <1>1, <1>2 DEF ProcessRight, Typed, Doing
    <3>2. Typed(mop[p], cur[p], new[p], sz[p])'
      BY <1>1, <1>2, <1>4, <2>1, <2>3 DEF ProcessRight, Typed
    <3>3. SpaceRight(mop[p], cur[p], new[p], p \in zombie)'
      BY <1>1, <1>2, <1>4, <2>1, <2>3, <3>1 DEF ProcessRight, SpaceRight
    <3>4. PageRight(mop[p], cur[p], new[p], sz[p], p \in gone)'
      BY <1>1, <1>2, <1>4, <3>1 DEF ProcessRight, PageRight
    <3> QED BY <1>1, <1>2, <1>4, <3>2, <3>3, <3>4 DEF ProcessRight, CallRight, LoopRight
  <2> QED BY <2>5, <2>6, <2>7, Local
<1>5. ASSUME Abandon(p), UNCHANGED <<free, new>> PROVE FramesIInv'
  <2>1. /\ ProcessRight(p)'
        /\ mop'[p].mem = mop[p].mem /\ mop'[p].child \in {NoProc, mop[p].child}
        /\ \A q \in MProcs \ {p} : mop'[q] = mop[q]
        /\ mop' = [q \in MProcs |-> mop'[q]]
    BY <1>2, <1>3, <1>5, Abandons
  <2>2. zombie' \subseteq MProcs /\ gone' \subseteq MProcs /\ sz' = [q \in MProcs |-> sz'[q]]
    BY <1>1, <1>2 DEF Globals, Functions
  <2> QED BY <1>2, <1>5, <2>1, <2>2, Proceeds
<1> QED BY <1>4, <1>5 DEF SetupDir, Kalloc

\* setupkvm() and copyuvm() find no frame: what there is of the space is freed.
LEMMA RunsOut ==
    ASSUME FramesIInv, NEW p \in MProcs, mop[p].do \in {"setup", "copy"}, mop[p].mem = 0,
           MGoto(p, "free"), UNCHANGED <<free, kstack, cur, sz, zombie, new, gone>>
    PROVE  FramesIInv'
<1>1. Globals /\ ProcessRight(p)
  BY Regrouped
<1>2. mop[p] \in MopType /\ mop[p].by \in {"fork", "exec"}
  BY <1>1 DEF ProcessRight, Typed, Doing
<1>3. [mop[p] EXCEPT !.do = "free", !.mem = 0] = [mop[p] EXCEPT !.do = "free"]
  BY <1>2 DEF MopType
<1>4. mop' = [mop EXCEPT ![p].do = "free", ![p].mem = 0]
  BY <1>1, <1>3 DEF MGoto, Globals, Functions
<1>5. Kfree(mop[p].mem)
  BY DEF Kfree
<1> QED BY <1>2, <1>4, <1>5, GivesUp

LEMMA SetupKernelStep ==
    ASSUME FramesIInv, NEW p \in MProcs, SetupKernel(p)
    PROVE  FramesIInv'
<1> DEFINE m == mop[p]
           s == new[p]
<1>1. Globals /\ OneOwner(Held, free) /\ ProcessRight(p)
  BY Regrouped
<1>2. m.do = "setup" /\ s.dir # 0 /\ UNCHANGED <<kstack, cur, sz, zombie, gone>>
  BY DEF SetupKernel, In
<1>3. /\ m \in MopType /\ m.by \in {"fork", "exec"} /\ m.mem = 0 /\ m.at = 0 /\ m.lo = 0
      /\ cur[p].dir # 0 /\ p \notin zombie /\ s = [NoSpace EXCEPT !.dir = s.dir]
  BY <1>1, <1>2 DEF ProcessRight, Typed, Doing, CallRight, SpaceRight, LoopRight
<1>4. /\ s \in SpaceType /\ s = [dir |-> s.dir, tabs |-> s.tabs, pages |-> s.pages]
      /\ s.tabs = NoSpace.tabs /\ s.pages = NoSpace.pages
      /\ s.tabs \in [Table -> Frame \cup {0}]
  BY <1>1, <1>3, NoSpaceTyped DEF ProcessRight, Typed, SpaceType
<1>5. KTable \in Table
  BY Whole DEF Table
<1>6. ASSUME NEW f \in free, free' = free \ {f}, new' = [new EXCEPT ![p].tabs[KTable] = f],
             NEW d, d = (IF m.by = "fork" THEN "copy" ELSE "load"), MGoto(p, d)
      PROVE  FramesIInv'
  <2> DEFINE e == [s EXCEPT !.tabs[KTable] = f]
  <2>1. /\ new'[p] = e /\ (\A q \in MProcs \ {p} : new'[q] = new[q])
        /\ new' = [q \in MProcs |-> new'[q]]
    BY <1>1, <1>6 DEF Globals, Functions
  <2>2. e = [dir |-> s.dir, tabs |-> [s.tabs EXCEPT ![KTable] = f], pages |-> s.pages] /\ f \in Frame
    BY <1>1, <1>4, <1>6 DEF Globals
  <2>3. /\ e \in SpaceType /\ e.dir = s.dir /\ e.pages = s.pages
        /\ \A u \in Table : e.tabs[u] = IF u = KTable THEN f ELSE s.tabs[u]
    BY <1>4, <1>5, <2>2 DEF SpaceType
  <2> HIDE DEF e
  <2>4. Backed(e) /\ Has(e) = {}
    BY <1>4, <2>3, NoSpaceTyped DEF Backed, Has
  <2>5. ASSUME NEW j \in Part
        PROVE  PartOf(e, j) = IF j = <<"tab", KTable>> THEN f ELSE PartOf(s, j)
    <3>1. CASE j = <<"dir", 0>>
      BY <2>3, <3>1, PartValues
    <3>2. ASSUME NEW u \in Table, j = <<"tab", u>>
          PROVE  PartOf(e, j) = IF u = KTable THEN f ELSE PartOf(s, j)
      <4>1. PartOf(e, j) = e.tabs[u] /\ PartOf(s, j) = s.tabs[u]
        BY <3>2, PartValues, Zenon
      <4> QED BY <2>3, <4>1
    <3>3. ASSUME NEW i \in Page, j = <<"page", i>>
          PROVE  PartOf(e, j) = PartOf(s, j) /\ j # <<"tab", KTable>>
      <4>1. PartOf(e, j) = e.pages[i] /\ PartOf(s, j) = s.pages[i]
        BY <3>3, PartValues, Zenon
      <4> QED BY <2>3, <3>3, <4>1
    <3> QED BY <3>1, <3>2, <3>3, PartCases
  <2>6. /\ mop'[p] = [m EXCEPT !.do = d] /\ \A q \in MProcs \ {p} : mop'[q] = mop[q]
        /\ mop' = [q \in MProcs |-> mop'[q]]
    BY <1>1, <1>6 DEF MGoto, Globals, Functions
  <2>7. /\ mop'[p] \in MopType /\ mop'[p].do = d /\ mop'[p].by = m.by /\ mop'[p].at = 0
        /\ mop'[p].mem = 0 /\ mop'[p].lo = 0 /\ mop'[p].child = m.child /\ <<d, m.by>> \in Doing
    BY <1>3, <1>6, <2>6 DEF MopType, Steps, Doing
  <2>8. OneOwner(Held', free') /\ free' \subseteq Frame
    <3>1. SameMem
      BY <1>3, <2>6, <2>7 DEF SameMem
    <3>2. <<"tab", KTable>> \in Part /\ PartOf(s, <<"tab", KTable>>) = s.tabs[KTable]
      BY <1>5, PartValues, PartCases
    <3>3. PartOf(s, <<"tab", KTable>>) = 0
      BY <1>4, <1>5, <3>2, NoSpaceTyped
    <3> QED BY <1>2, <1>6, <2>1, <2>5, <3>1, <3>2, <3>3, NewAllocated
  <2>9. OnlyOf(p)
    BY <1>1, <1>2, <2>1, <2>6, <2>7, <2>8 DEF OnlyOf, Globals, Functions
  <2>10. ProcessRight(p)'
    <3>1. Under(0) = {} /\ Aligned(0) /\ sz[p] \in Nat
      BY <1>1, PageFacts, Sizes, Division DEF Under, Aligned, ProcessRight, Typed
    <3>2. Typed(mop[p], cur[p], new[p], sz[p])'
      BY <1>1, <1>2, <2>1, <2>3, <2>7 DEF ProcessRight, Typed
    <3>3. SpaceRight(mop[p], cur[p], new[p], p \in zombie)'
      BY <1>1, <1>2, <1>3, <1>6, <2>1, <2>3, <2>4, <2>7 DEF ProcessRight, SpaceRight
    <3>4. CallRight(mop[p])'
      BY <1>1, <1>6, <2>7 DEF ProcessRight, CallRight
    <3>5. LoopRight(mop[p], sz[p])'
      BY <1>2, <1>3, <1>6, <2>7, <3>1, Sizes DEF LoopRight
    <3>6. PageRight(mop[p], cur[p], new[p], sz[p], p \in gone)'
      BY <1>1, <1>2, <1>3, <1>6, <2>1, <2>4, <2>7, <3>1 DEF ProcessRight, PageRight
    <3> QED BY <3>2, <3>3, <3>4, <3>5, <3>6 DEF ProcessRight
  <2> QED BY <2>8, <2>9, <2>10, Local
<1>7. ASSUME MGoto(p, "free"), UNCHANGED <<free, new>> PROVE FramesIInv'
  BY <1>2, <1>3, <1>7, RunsOut
<1> QED BY <1>6, <1>7 DEF SetupKernel, Kalloc

LEMMA CopyPageStep ==
    ASSUME FramesIInv, NEW p \in MProcs, CopyPage(p)
    PROVE  FramesIInv'
<1> DEFINE m == mop[p]
<1>1. Globals /\ OneOwner(Held, free) /\ ProcessRight(p)
  BY Regrouped
<1>2. /\ m.do = "copy" /\ m.mem = 0 /\ m.at < sz[p]
      /\ UNCHANGED <<kstack, cur, sz, zombie, new, gone>>
  BY DEF CopyPage, In
<1>3. ASSUME NEW f \in free, free' = free \ {f}, mop' = [mop EXCEPT ![p].mem = f]
      PROVE  FramesIInv'
  <2>1. /\ mop'[p] = [m EXCEPT !.mem = f] /\ \A q \in MProcs \ {p} : mop'[q] = mop[q]
        /\ mop' = [q \in MProcs |-> mop'[q]]
    BY <1>1, <1>3 DEF Globals, Functions
  <2>2. m \in MopType /\ f \in Frame /\ f # 0
    BY <1>1, <1>3 DEF ProcessRight, Typed, Globals, Frame
  <2>3. mop'[p] \in MopType /\ mop'[p].mem = f /\ mop'[p].do = m.do /\ mop'[p].by = m.by
        /\ mop'[p].child = m.child /\ mop'[p].lo = m.lo /\ mop'[p].hi = m.hi /\ mop'[p].at = m.at
    BY <2>1, <2>2 DEF MopType
  <2>4. OneOwner(Held', free')
    <3>1. MemBecomes(p, f) /\ SameStack /\ SameCur /\ SameNew
      BY <1>2, <2>1, <2>3 DEF MemBecomes, SameStack, SameCur, SameNew
    <3>2. Changes(p, <<"dir", 0>>, MemOf(p), f)
      BY <3>1 DEF Changes
    <3>3. Held[MemOf(p)] = 0
      BY <1>2, HeldValues
    <3>4. free \subseteq Frame /\ <<"dir", 0>> \in Part
      BY <1>1, PartCases DEF Globals
    <3> QED BY <1>1, <1>3, <3>2, <3>3, <3>4, Allocates
  <2>5. OnlyOf(p)
    BY <1>1, <1>2, <1>3, <2>1, <2>3 DEF OnlyOf, Globals, Functions
  <2>6. ProcessRight(p)'
    <3>1. Typed(mop[p], cur[p], new[p], sz[p])'
      BY <1>1, <1>2, <2>3 DEF ProcessRight, Typed
    <3>2. SpaceRight(mop[p], cur[p], new[p], p \in zombie)'
      BY <1>1, <1>2, <2>3 DEF ProcessRight, SpaceRight
    <3>3. CallRight(mop[p])'
      BY <1>1, <1>2, <2>3 DEF ProcessRight, CallRight
    <3>4. LoopRight(mop[p], sz[p])'
      BY <1>1, <1>2, <2>3 DEF ProcessRight, LoopRight
    <3>5. PageRight(mop[p], cur[p], new[p], sz[p], p \in gone)'
      BY <1>1, <1>2, <2>3 DEF ProcessRight, PageRight
    <3> QED BY <3>1, <3>2, <3>3, <3>4, <3>5 DEF ProcessRight
  <2> QED BY <2>4, <2>5, <2>6, Local
<1>4. ASSUME MGoto(p, "free"), UNCHANGED free PROVE FramesIInv'
  BY <1>2, <1>4, RunsOut
<1> QED BY <1>3, <1>4 DEF CopyPage, Kalloc

\* exec() takes the space it has built for its own, and frees the one it had.
LEMMA CommitStep ==
    ASSUME FramesIInv, NEW p \in MProcs, Commit(p)
    PROVE  FramesIInv'
<1> DEFINE m == mop[p]
<1>1. Globals /\ OneOwner(Held, free) /\ ProcessRight(p)
  BY Regrouped
<1>2. /\ m.do = "args" /\ cur' = [cur EXCEPT ![p] = new[p]] /\ new' = [new EXCEPT ![p] = cur[p]]
      /\ sz' = [sz EXCEPT ![p] = m.lo] /\ gone' = gone \ {p} /\ MGoto(p, "free")
      /\ UNCHANGED <<free, kstack, zombie>>
  BY DEF Commit, In
<1>3. /\ m \in MopType /\ m.by = "exec" /\ m.child = NoProc /\ m.mem = 0
      /\ cur[p].dir # 0 /\ p \notin zombie /\ new[p].dir # 0
  BY <1>1, <1>2 DEF ProcessRight, Typed, Doing, CallRight, SpaceRight
<1>4. /\ mop'[p] = [m EXCEPT !.do = "free"] /\ \A q \in MProcs \ {p} : mop'[q] = mop[q]
      /\ mop' = [q \in MProcs |-> mop'[q]]
      /\ cur'[p] = new[p] /\ new'[p] = cur[p] /\ sz'[p] = m.lo /\ p \notin gone'
      /\ \A q \in MProcs \ {p} : /\ cur'[q] = cur[q] /\ new'[q] = new[q] /\ sz'[q] = sz[q]
                                 /\ q \in gone' <=> q \in gone
      /\ cur' = [q \in MProcs |-> cur'[q]] /\ new' = [q \in MProcs |-> new'[q]]
      /\ sz' = [q \in MProcs |-> sz'[q]] /\ gone' \subseteq MProcs
  BY <1>1, <1>2 DEF MGoto, Globals, Functions
<1>5. /\ mop'[p] \in MopType /\ mop'[p].do = "free" /\ mop'[p].by = "exec" /\ mop'[p].mem = 0
      /\ mop'[p].child = NoProc /\ <<"free", "exec">> \in Doing
  BY <1>3, <1>4 DEF MopType, Steps, Doing
<1>6. OneOwner(Held', free')
  <2>1. SameMem /\ SameStack
    <3>1. \A q \in MProcs : mop'[q].mem = mop[q].mem
      <4> SUFFICES ASSUME NEW q \in MProcs PROVE mop'[q].mem = mop[q].mem
        OBVIOUS
      <4>1. CASE q = p
        BY <1>3, <1>5, <4>1
      <4>2. CASE q # p
        BY <1>4, <4>2
      <4> QED BY <4>1, <4>2
    <3> QED BY <1>2, <3>1 DEF SameMem, SameStack
  <2>2. SpacesSwap(p, p)
    BY <1>4, <2>1 DEF SpacesSwap
  <2> QED BY <1>1, <1>2, <2>1, <2>2, Exchanges
<1>7. OnlyOf(p)
  BY <1>1, <1>2, <1>3, <1>4, <1>5 DEF OnlyOf, Globals, Functions
<1>8. ProcessRight(p)'
  <2>1. Typed(mop[p], cur[p], new[p], sz[p])'
    <3>1. m.lo \in 0 .. KERNBASE - 1
      BY <1>3 DEF MopType
    <3> QED BY <1>1, <1>4, <1>5, <3>1 DEF ProcessRight, Typed
  <2>2. SpaceRight(mop[p], cur[p], new[p], p \in zombie)'
    BY <1>1, <1>2, <1>3, <1>4, <1>5 DEF ProcessRight, SpaceRight
  <2>3. CallRight(mop[p])'
    BY <1>5 DEF CallRight
  <2>4. LoopRight(mop[p], sz[p])'
    BY <1>5 DEF LoopRight
  <2>5. PageRight(mop[p], cur[p], new[p], sz[p], p \in gone)'
    BY <1>1, <1>2, <1>4, <1>5 DEF ProcessRight, PageRight
  <2> QED BY <2>1, <2>2, <2>3, <2>4, <2>5 DEF ProcessRight
<1> QED BY <1>6, <1>7, <1>8, Local

-----------------------------------------------------------------------------
\* fork() and wait(), which reach another process.
LEMMA Unmoved ==
    ASSUME NEW q \in MProcs, ProcessRight(q),
           cur'[q] = cur[q], new'[q] = new[q], mop'[q] = mop[q], sz'[q] = sz[q],
           q \in zombie' <=> q \in zombie, q \in gone' <=> q \in gone
    PROVE  ProcessRight(q)'
<1>1. (q \in zombie') = (q \in zombie) /\ (q \in gone') = (q \in gone)
  OBVIOUS
<1> QED BY <1>1 DEF ProcessRight, Typed, SpaceRight, CallRight, LoopRight, PageRight

\* A child belongs to one fork(), and has no memory yet.
LEMMA ChildOf ==
    ASSUME FramesIInv, NEW r \in MProcs, NEW q \in MProcs, mop[r].child = q
    PROVE  /\ mop[r].by = "fork" /\ kstack[q] # 0 /\ cur[q].dir = 0
           /\ \A s \in MProcs : mop[s].child = q => s = r
           /\ q # r /\ mop[q] = NoOp /\ new[q] = NoSpace /\ q \notin zombie
<1>1. MChildren /\ ProcessRight(r) /\ ProcessRight(q)
  BY Regrouped
<1>2. q # NoProc
  BY MemoryAssumption
<1>3. mop[r].by = "fork"
  BY <1>1, <1>2 DEF ProcessRight, CallRight
<1>4. kstack[q] # 0 /\ cur[q].dir = 0 /\ \A s \in MProcs : mop[s].child = q => s = r
  BY <1>1, <1>3 DEF MChildren
<1>5. cur[r].dir # 0
  BY <1>1, <1>3 DEF ProcessRight, Typed, Doing, SpaceRight
<1>6. mop[q] = NoOp /\ new[q] = NoSpace /\ q \notin zombie
  BY <1>1, <1>4 DEF ProcessRight, SpaceRight, CallRight
<1> QED BY <1>3, <1>4, <1>5, <1>6

LEMMA ForkStep ==
    ASSUME FramesIInv, NEW p \in MProcs, NEW q \in MProcs, ForkSpace(p, q)
    PROVE  FramesIInv'
<1>1. Globals /\ OneOwner(Held, free) /\ MChildren /\ \A r \in MProcs : ProcessRight(r)
  BY Regrouped
<1>2. PICK f \in free : free' = free \ {f} /\ kstack' = [kstack EXCEPT ![q] = f]
  BY DEF ForkSpace, Kalloc
<1>3. /\ mop[p].do = "none" /\ cur[p].dir # 0 /\ p \notin zombie /\ kstack[q] = 0 /\ cur[q].dir = 0
      /\ mop' = [mop EXCEPT ![p].do = "setup", ![p].by = "fork", ![p].child = q]
      /\ UNCHANGED <<cur, sz, zombie, new, gone>>
  BY DEF ForkSpace, Idle
<1>4. mop[p] = NoOp /\ new[p] = NoSpace
  BY <1>1, <1>3 DEF ProcessRight, CallRight, SpaceRight
<1>5. /\ mop'[p] = [NoOp EXCEPT !.do = "setup", !.by = "fork", !.child = q]
      /\ \A r \in MProcs \ {p} : mop'[r] = mop[r]
      /\ mop' = [r \in MProcs |-> mop'[r]]
  BY <1>1, <1>3, <1>4 DEF Globals, Functions
<1>6. /\ mop'[p] \in MopType /\ mop'[p].do = "setup" /\ mop'[p].by = "fork" /\ mop'[p].child = q
      /\ mop'[p].at = 0 /\ mop'[p].lo = 0 /\ mop'[p].mem = 0 /\ <<"setup", "fork">> \in Doing
  BY <1>5, NoOpTyped DEF MopType, Steps, Calls, Doing
<1>7. f \in Frame /\ f # 0 /\ q # NoProc
  BY <1>1, MemoryAssumption DEF Globals, Frame
<1>8. OneOwner(Held', free')
  <2>1. StackBecomes(q, f) /\ SameMem /\ SameCur /\ SameNew
    BY <1>1, <1>2, <1>3, <1>4, <1>5, <1>6, NoOpTyped
       DEF Globals, StackBecomes, SameMem, SameCur, SameNew
  <2>2. Changes(q, <<"dir", 0>>, StackOf(q), f) /\ <<"dir", 0>> \in Part
    BY <2>1, PartCases DEF Changes
  <2>3. Held[StackOf(q)] = 0 /\ free \subseteq Frame
    BY <1>1, <1>3, HeldValues DEF Globals
  <2> QED BY <1>1, <1>2, <2>2, <2>3, Allocates
<1>9. Globals'
  BY <1>1, <1>2, <1>3, <1>5, <1>7 DEF Globals, Functions
<1>10. MChildren'
  <2> SUFFICES ASSUME NEW r \in MProcs, mop'[r].by = "fork"
               PROVE  /\ kstack'[mop'[r].child] # 0 /\ cur'[mop'[r].child].dir = 0
                      /\ \A s \in MProcs : mop'[s].child = mop'[r].child => s = r
    BY DEF MChildren
  <2>1. \A s \in MProcs : mop[s].child # q
    BY <1>3, ChildOf
  <2>2. CASE r = p
    <3>1. kstack'[q] = f /\ \A s \in MProcs : mop'[s].child = q => s = p
      BY <1>1, <1>2, <1>5, <2>1 DEF Globals
    <3> QED BY <1>3, <1>6, <1>7, <2>2, <3>1
  <2>3. CASE r # p
    <3>1. /\ mop'[r] = mop[r] /\ mop[r].child # q /\ kstack[mop[r].child] # 0
          /\ cur[mop[r].child].dir = 0 /\ \A s \in MProcs : mop[s].child = mop[r].child => s = r
      BY <1>1, <1>5, <2>1, <2>3 DEF MChildren
    <3>2. kstack'[mop[r].child] # 0
      <4>1. mop[r].child \in MProcs
        <5>1. ProcessRight(r) /\ mop[r].by = "fork"
          BY <1>1, <3>1
        <5> QED BY <5>1 DEF ProcessRight, CallRight, Typed, MopType
      <4> QED BY <1>1, <1>2, <3>1, <4>1 DEF Globals
    <3>3. mop'[r].child = mop[r].child /\ cur'[mop[r].child].dir = 0
      BY <1>3, <3>1
    <3>4. ASSUME NEW s \in MProcs, mop'[s].child = mop[r].child PROVE s = r
      <4>1. s # p
        BY <1>6, <3>1, <3>4
      <4>2. mop'[s] = mop[s]
        BY <1>5, <4>1
      <4> QED BY <3>1, <3>4, <4>2
    <3> QED BY <3>2, <3>3, <3>4
  <2> QED BY <2>2, <2>3
<1>11. ASSUME NEW r \in MProcs PROVE ProcessRight(r)'
  <2>1. CASE r # p
    BY <1>1, <1>3, <1>5, <2>1, Unmoved
  <2>2. CASE r = p
    <3>1. Typed(mop[p], cur[p], new[p], sz[p])'
      BY <1>1, <1>3, <1>6 DEF ProcessRight, Typed
    <3>2. SpaceRight(mop[p], cur[p], new[p], p \in zombie)'
      BY <1>1, <1>3, <1>4, <1>6, NoSpaceTyped DEF ProcessRight, SpaceRight
    <3>3. CallRight(mop[p])'
      BY <1>6, <1>7 DEF CallRight
    <3>4. LoopRight(mop[p], sz[p])'
      BY <1>6 DEF LoopRight
    <3>5. PageRight(mop[p], cur[p], new[p], sz[p], p \in gone)'
      BY <1>1, <1>3, <1>4, <1>6, NoOpTyped DEF ProcessRight, PageRight
    <3> QED BY <2>2, <3>1, <3>2, <3>3, <3>4, <3>5 DEF ProcessRight
  <2> QED BY <2>1, <2>2
<1> QED BY <1>8, <1>9, <1>10, <1>11, RegroupedPrime

\* A fork() that is over has no child any more, and leaves those of others alone.
LEMMA ForkOver ==
    ASSUME FramesIInv, NEW p \in MProcs, NEW q \in MProcs, mop[p].child = q,
           mop' = [mop EXCEPT ![p] = NoOp],
           \A c \in MProcs \ {q} : kstack'[c] = kstack[c] /\ cur'[c] = cur[c]
    PROVE  /\ MChildren'
           /\ mop'[p] = NoOp /\ \A r \in MProcs \ {p} : mop'[r] = mop[r]
           /\ mop' = [r \in MProcs |-> mop'[r]]
<1>1. Globals /\ MChildren /\ \A r \in MProcs : ProcessRight(r)
  BY Regrouped
<1>2. /\ mop'[p] = NoOp /\ \A r \in MProcs \ {p} : mop'[r] = mop[r]
      /\ mop' = [r \in MProcs |-> mop'[r]]
  BY <1>1 DEF Globals, Functions
<1>3. MChildren'
  <2> SUFFICES ASSUME NEW r \in MProcs, mop'[r].by = "fork"
               PROVE  /\ kstack'[mop'[r].child] # 0 /\ cur'[mop'[r].child].dir = 0
                      /\ \A s \in MProcs : mop'[s].child = mop'[r].child => s = r
    BY DEF MChildren
  <2>1. r # p /\ mop'[r] = mop[r]
    BY <1>2, NoOpTyped
  <2> DEFINE c == mop[r].child
  <2>2. c \in MProcs /\ c # NoProc
    <3>1. ProcessRight(r) /\ mop[r].by = "fork"
      BY <1>1, <2>1
    <3> QED BY <3>1, MemoryAssumption DEF ProcessRight, CallRight, Typed, MopType
  <2>3. kstack[c] # 0 /\ cur[c].dir = 0 /\ \A s \in MProcs : mop[s].child = c => s = r
    BY <1>1, <2>1 DEF MChildren
  <2>4. c # q
    BY <2>1, <2>3
  <2> HIDE DEF c
  <2>5. kstack'[c] # 0 /\ cur'[c].dir = 0
    BY <2>2, <2>3, <2>4
  <2>6. ASSUME NEW s \in MProcs, mop'[s].child = c PROVE s = r
    BY <1>2, <2>2, <2>3, <2>6, NoOpTyped
  <2> QED BY <2>1, <2>5, <2>6 DEF c
<1> QED BY <1>2, <1>3

LEMMA CopyDoneStep ==
    ASSUME FramesIInv, NEW p \in MProcs, CopyDone(p)
    PROVE  FramesIInv'
<1> DEFINE m == mop[p]
<1>1. Globals /\ OneOwner(Held, free) /\ \A r \in MProcs : ProcessRight(r)
  BY Regrouped
<1>2. PICK q \in MProcs : q = m.child
  <2>1. m \in MopType /\ m.do = "copy" /\ <<m.do, m.by>> \in Doing /\ CallRight(m)
    BY <1>1 DEF CopyDone, In, ProcessRight, Typed
  <2>2. m.by = "fork"
    BY <2>1 DEF Doing
  <2> QED BY <2>1, <2>2 DEF CallRight, MopType
<1>3. /\ m.do = "copy" /\ m.mem = 0 /\ m.at >= sz[p]
      /\ cur' = [cur EXCEPT ![q] = new[p]] /\ new' = [new EXCEPT ![p] = NoSpace]
      /\ sz' = [sz EXCEPT ![q] = sz[p]] /\ mop' = [mop EXCEPT ![p] = NoOp]
      /\ UNCHANGED <<free, kstack, zombie, gone>>
  BY <1>2 DEF CopyDone, In, Finish
<1>4. ProcessRight(p)
  BY <1>1
<1>5. /\ m \in MopType /\ m.by = "fork" /\ cur[p].dir # 0 /\ new[p].dir # 0
      /\ Backed(new[p]) /\ new[p] \in SpaceType /\ sz[p] \in 0 .. KERNBASE - 1
      /\ m.at < sz[p] + PGSIZE /\ Aligned(m.at) /\ Has(new[p]) = Under(m.at)
  BY <1>3, <1>4 DEF ProcessRight, Typed, Doing, CallRight, SpaceRight, LoopRight, PageRight
<1>6. /\ cur[q].dir = 0 /\ q # p /\ mop[q] = NoOp /\ new[q] = NoSpace /\ q \notin zombie
  BY <1>2, ChildOf
<1>7. cur[q] = NoSpace
  BY <1>1, <1>2, <1>6 DEF ProcessRight, SpaceRight
<1>8. Has(new[p]) = Under(sz[p])
  <2>1. m.at \in Nat /\ sz[p] \in Nat /\ sz[p] <= m.at
    BY <1>3, <1>5, Sizes DEF MopType
  <2> QED BY <1>5, <2>1, SamePages
<1>9. /\ cur'[q] = new[p] /\ sz'[q] = sz[p] /\ new'[p] = NoSpace
      /\ \A r \in MProcs \ {q} : cur'[r] = cur[r] /\ sz'[r] = sz[r]
      /\ \A r \in MProcs \ {p} : new'[r] = new[r]
      /\ cur' = [r \in MProcs |-> cur'[r]] /\ new' = [r \in MProcs |-> new'[r]]
      /\ sz' = [r \in MProcs |-> sz'[r]]
  BY <1>1, <1>2, <1>3 DEF Globals, Functions
<1>10. /\ MChildren'
       /\ mop'[p] = NoOp /\ \A r \in MProcs \ {p} : mop'[r] = mop[r]
       /\ mop' = [r \in MProcs |-> mop'[r]]
  BY <1>2, <1>3, <1>9, ForkOver
<1>11. Globals'
  BY <1>1, <1>3, <1>9, <1>10 DEF Globals, Functions
<1>12. OneOwner(Held', free')
  <2>1. SpacesSwap(p, q) /\ SameStack
    BY <1>2, <1>3, <1>7, <1>9, <1>10, NoOpTyped DEF SpacesSwap, SameMem, SameStack
  <2> QED BY <1>1, <1>2, <1>3, <2>1, Exchanges
<1>13. <<"none", "none">> \in Doing
  BY DEF Doing
<1>14. ProcessRight(p)'
  <2>1. cur'[p] = cur[p] /\ sz'[p] = sz[p] /\ (p \in zombie') = (p \in zombie)
        /\ (p \in gone') = (p \in gone)
    BY <1>3, <1>6, <1>9
  <2>2. Typed(mop[p], cur[p], new[p], sz[p])'
    BY <1>4, <1>9, <1>10, <1>13, <2>1, NoOpTyped, NoSpaceTyped DEF ProcessRight, Typed
  <2>3. SpaceRight(mop[p], cur[p], new[p], p \in zombie)'
    BY <1>3, <1>4, <1>9, <1>10, <2>1, NoOpTyped, NoSpaceTyped DEF ProcessRight, SpaceRight
  <2>4. CallRight(mop[p])' /\ LoopRight(mop[p], sz[p])'
    BY <1>10, NoOpTyped DEF CallRight, LoopRight
  <2>5. PageRight(mop[p], cur[p], new[p], sz[p], p \in gone)'
    BY <1>4, <1>5, <1>10, <2>1, NoOpTyped DEF ProcessRight, PageRight
  <2> QED BY <2>2, <2>3, <2>4, <2>5 DEF ProcessRight
<1>15. ProcessRight(q)'
  <2>1. mop'[q] = NoOp /\ new'[q] = NoSpace /\ q \notin zombie'
    BY <1>2, <1>3, <1>6, <1>9, <1>10
  <2>2. Typed(mop[q], cur[q], new[q], sz[q])'
    BY <1>5, <1>9, <1>13, <2>1, NoOpTyped, NoSpaceTyped DEF Typed
  <2>3. SpaceRight(mop[q], cur[q], new[q], q \in zombie)'
    BY <1>5, <1>9, <2>1, NoOpTyped, NoSpaceTyped DEF SpaceRight
  <2>4. CallRight(mop[q])' /\ LoopRight(mop[q], sz[q])'
    BY <2>1, NoOpTyped DEF CallRight, LoopRight
  <2>5. PageRight(mop[q], cur[q], new[q], sz[q], q \in gone)'
    BY <1>8, <1>9, <2>1, NoOpTyped DEF PageRight
  <2> QED BY <2>2, <2>3, <2>4, <2>5 DEF ProcessRight
<1>16. ASSUME NEW r \in MProcs, r # p, r # q PROVE ProcessRight(r)'
  BY <1>1, <1>3, <1>9, <1>10, <1>16, Unmoved
<1> QED BY <1>10, <1>11, <1>12, <1>14, <1>15, <1>16, RegroupedPrime

LEMMA UnforkStep ==
    ASSUME FramesIInv, NEW p \in MProcs, Unfork(p)
    PROVE  FramesIInv'
<1> DEFINE q == mop[p].child
<1>1. Globals /\ OneOwner(Held, free) /\ \A r \in MProcs : ProcessRight(r)
  BY Regrouped
<1>2. /\ mop[p].do = "unfork" /\ Kfree(kstack[q]) /\ kstack' = [kstack EXCEPT ![q] = 0]
      /\ mop' = [mop EXCEPT ![p] = NoOp] /\ UNCHANGED <<cur, sz, zombie, new, gone>>
  BY DEF Unfork, In, Finish
<1>3. ProcessRight(p)
  BY <1>1
<1>4. /\ mop[p] \in MopType /\ mop[p].by = "fork" /\ q # NoProc /\ mop[p].mem = 0
      /\ cur[p].dir # 0 /\ p \notin zombie /\ new[p] = NoSpace
  BY <1>2, <1>3 DEF ProcessRight, Typed, Doing, CallRight, SpaceRight
<1>5. q \in MProcs
  BY <1>4 DEF MopType
<1> HIDE DEF q
<1>6. kstack[q] \in Frame \cup {0}
  BY <1>1, <1>5 DEF Globals
<1>7. /\ kstack'[q] = 0 /\ \A r \in MProcs \ {q} : kstack'[r] = kstack[r]
      /\ kstack' \in [MProcs -> Frame \cup {0}]
  BY <1>1, <1>2, <1>5 DEF Globals
<1>8. /\ MChildren'
      /\ mop'[p] = NoOp /\ \A r \in MProcs \ {p} : mop'[r] = mop[r]
      /\ mop' = [r \in MProcs |-> mop'[r]]
  BY <1>2, <1>5, <1>7, ForkOver DEF q
<1>9. free' \subseteq Frame
  BY <1>2, <1>6, FreedTyped
<1>10. Globals'
  BY <1>1, <1>2, <1>7, <1>8, <1>9 DEF Globals, Functions
<1>11. OneOwner(Held', free')
  <2>1. StackBecomes(q, 0) /\ SameMem /\ SameCur /\ SameNew
    BY <1>2, <1>4, <1>7, <1>8, NoOpTyped DEF StackBecomes, SameMem, SameCur, SameNew
  <2>2. Changes(q, <<"dir", 0>>, StackOf(q), 0) /\ <<"dir", 0>> \in Part
    BY <2>1, PartCases DEF Changes
  <2>3. free' = free \cup ({Held[StackOf(q)]} \ {0}) /\ free \subseteq Frame
    BY <1>1, <1>2, <1>5, HeldValues DEF Kfree, Globals
  <2> QED BY <1>1, <1>5, <2>2, <2>3, HeldTyped, Releases
<1>12. ProcessRight(p)'
  <2>1. <<"none", "none">> \in Doing
    BY DEF Doing
  <2>2. Typed(mop[p], cur[p], new[p], sz[p])'
    BY <1>2, <1>3, <1>8, <2>1, NoOpTyped DEF ProcessRight, Typed
  <2>3. SpaceRight(mop[p], cur[p], new[p], p \in zombie)'
    BY <1>2, <1>3, <1>4, <1>8, NoOpTyped DEF ProcessRight, SpaceRight
  <2>4. CallRight(mop[p])' /\ LoopRight(mop[p], sz[p])'
    BY <1>8, NoOpTyped DEF CallRight, LoopRight
  <2>5. PageRight(mop[p], cur[p], new[p], sz[p], p \in gone)'
    BY <1>2, <1>3, <1>4, <1>8, NoOpTyped DEF ProcessRight, PageRight
  <2> QED BY <2>2, <2>3, <2>4, <2>5 DEF ProcessRight
<1>13. ASSUME NEW r \in MProcs, r # p PROVE ProcessRight(r)'
  BY <1>1, <1>2, <1>8, <1>13, Unmoved
<1> QED BY <1>8, <1>10, <1>11, <1>12, <1>13, RegroupedPrime

\* wait(): the memory of the child becomes that which the parent frees.
LEMMA ReapStep ==
    ASSUME FramesIInv, NEW p \in MProcs, NEW q \in MProcs, Reap(p, q)
    PROVE  FramesIInv'
<1>1. /\ Globals /\ OneOwner(Held, free) /\ MChildren /\ ProcessRight(p) /\ ProcessRight(q)
      /\ \A r \in MProcs : ProcessRight(r)
  BY Regrouped
<1>2. /\ mop[p].do = "none" /\ cur[p].dir # 0 /\ p \notin zombie /\ q \in zombie
      /\ Kfree(kstack[q]) /\ kstack' = [kstack EXCEPT ![q] = 0]
      /\ cur' = [cur EXCEPT ![q] = NoSpace] /\ new' = [new EXCEPT ![p] = cur[q]]
      /\ zombie' = zombie \ {q} /\ gone' = gone \ {q} /\ sz' = sz
      /\ mop' = [mop EXCEPT ![p].do = "free", ![p].by = "reap"]
  BY DEF Reap, Idle
<1>3. mop[p] = NoOp /\ new[p] = NoSpace /\ p # q
  BY <1>1, <1>2 DEF ProcessRight, CallRight, SpaceRight
<1>4. cur[q].dir # 0 /\ mop[q] = NoOp /\ new[q] = NoSpace /\ Backed(cur[q]) /\ cur[q] \in SpaceType
  BY <1>1, <1>2 DEF ProcessRight, Typed, CallRight, SpaceRight
<1>5. /\ kstack'[q] = 0 /\ (\A r \in MProcs \ {q} : kstack'[r] = kstack[r])
      /\ kstack' \in [MProcs -> Frame \cup {0}] /\ kstack[q] \in Frame \cup {0}
  BY <1>1, <1>2 DEF Globals
<1>6. /\ cur'[q] = NoSpace /\ new'[p] = cur[q]
      /\ \A r \in MProcs \ {q} : cur'[r] = cur[r] /\ (r \in zombie' <=> r \in zombie)
                                 /\ (r \in gone' <=> r \in gone)
      /\ \A r \in MProcs \ {p} : new'[r] = new[r]
      /\ cur' = [r \in MProcs |-> cur'[r]] /\ new' = [r \in MProcs |-> new'[r]]
      /\ zombie' \subseteq MProcs /\ gone' \subseteq MProcs
  BY <1>1, <1>2 DEF Globals, Functions
<1>7. /\ mop'[p] = [NoOp EXCEPT !.do = "free", !.by = "reap"]
      /\ \A r \in MProcs \ {p} : mop'[r] = mop[r]
      /\ mop' = [r \in MProcs |-> mop'[r]]
  BY <1>1, <1>2, <1>3 DEF Globals, Functions
<1>8. /\ mop'[p] \in MopType /\ mop'[p].do = "free" /\ mop'[p].by = "reap" /\ mop'[p].mem = 0
      /\ mop'[p].child = NoProc /\ <<"free", "reap">> \in Doing
  BY <1>7, NoOpTyped DEF MopType, Steps, Calls, Doing
<1>9. free' \subseteq Frame
  BY <1>2, <1>5, FreedTyped
<1>10. Globals'
  BY <1>1, <1>2, <1>5, <1>6, <1>7, <1>9 DEF Globals, Functions
<1>11. OneOwner(Held', free')
  <2>1. SameMem
    BY <1>3, <1>7, <1>8, NoOpTyped DEF SameMem
  <2>2. SpacesSwap(p, q)
    BY <1>3, <1>6, <2>1 DEF SpacesSwap
  <2>3. StackBecomes(q, 0) /\ free' = free \cup ({kstack[q]} \ {0}) /\ free \subseteq Frame
    BY <1>1, <1>2, <1>5 DEF StackBecomes, Kfree, Globals
  <2> QED BY <1>1, <2>2, <2>3, HeldTyped, Reclaims
<1>12. MChildren'
  <2> SUFFICES ASSUME NEW r \in MProcs, mop'[r].by = "fork"
               PROVE  /\ kstack'[mop'[r].child] # 0 /\ cur'[mop'[r].child].dir = 0
                      /\ \A s \in MProcs : mop'[s].child = mop'[r].child => s = r
    BY DEF MChildren
  <2>1. r # p /\ mop'[r] = mop[r]
    BY <1>7, <1>8
  <2> DEFINE c == mop[r].child
  <2>2. c \in MProcs /\ c # NoProc
    <3>1. ProcessRight(r) /\ mop[r].by = "fork"
      BY <1>1, <2>1
    <3> QED BY <3>1, MemoryAssumption DEF ProcessRight, CallRight, Typed, MopType
  <2>3. kstack[c] # 0 /\ cur[c].dir = 0 /\ \A s \in MProcs : mop[s].child = c => s = r
    BY <1>1, <2>1 DEF MChildren
  <2> HIDE DEF c
  <2>4. c # q
    BY <1>4, <2>3
  <2>5. kstack'[c] # 0 /\ cur'[c].dir = 0
    BY <1>5, <1>6, <2>2, <2>3, <2>4
  <2>6. ASSUME NEW s \in MProcs, mop'[s].child = c PROVE s = r
    BY <1>7, <1>8, <2>2, <2>3, <2>6
  <2> QED BY <2>1, <2>5, <2>6 DEF c
<1>13. ProcessRight(p)'
  <2>1. cur'[p] = cur[p] /\ sz'[p] = sz[p] /\ p \notin zombie' /\ (p \in gone') = (p \in gone)
    BY <1>2, <1>3, <1>6
  <2>2. Typed(mop[p], cur[p], new[p], sz[p])'
    BY <1>1, <1>4, <1>6, <1>8, <2>1 DEF ProcessRight, Typed
  <2>3. SpaceRight(mop[p], cur[p], new[p], p \in zombie)'
    BY <1>1, <1>2, <1>4, <1>6, <1>8, <2>1 DEF ProcessRight, SpaceRight
  <2>4. CallRight(mop[p])' /\ LoopRight(mop[p], sz[p])'
    BY <1>8 DEF CallRight, LoopRight
  <2>5. PageRight(mop[p], cur[p], new[p], sz[p], p \in gone)'
    BY <1>1, <1>3, <1>8, <2>1, NoOpTyped DEF ProcessRight, PageRight
  <2> QED BY <2>2, <2>3, <2>4, <2>5 DEF ProcessRight
<1>14. ProcessRight(q)'
  <2>1. mop'[q] = NoOp /\ new'[q] = NoSpace /\ q \notin zombie' /\ sz'[q] = sz[q]
    BY <1>2, <1>3, <1>4, <1>6, <1>7
  <2>2. Typed(mop[q], cur[q], new[q], sz[q])'
    <3>1. <<"none", "none">> \in Doing
      BY DEF Doing
    <3> QED BY <1>1, <1>6, <2>1, <3>1, NoOpTyped, NoSpaceTyped DEF ProcessRight, Typed
  <2>3. SpaceRight(mop[q], cur[q], new[q], q \in zombie)'
    BY <1>6, <2>1, NoOpTyped, NoSpaceTyped DEF SpaceRight
  <2>4. CallRight(mop[q])' /\ LoopRight(mop[q], sz[q])'
    BY <2>1, NoOpTyped DEF CallRight, LoopRight
  <2>5. PageRight(mop[q], cur[q], new[q], sz[q], q \in gone)'
    BY <1>6, <2>1, NoOpTyped, NoSpaceTyped DEF PageRight
  <2> QED BY <2>2, <2>3, <2>4, <2>5 DEF ProcessRight
<1>15. ASSUME NEW r \in MProcs, r # p, r # q PROVE ProcessRight(r)'
  BY <1>1, <1>2, <1>6, <1>7, <1>15, Unmoved
<1> QED BY <1>10, <1>11, <1>12, <1>13, <1>14, <1>15, RegroupedPrime

-----------------------------------------------------------------------------
\* The first process: its stack, its directory, two tables and one page.
LEMMA FirstFrames ==
    ASSUME MInit
    PROVE  OneOwner(Held, free)
<1> DEFINE FP == FirstProc
           PlaceOf(f) == IF f = 1 THEN StackOf(FP) ELSE IF f = 2 THEN CurPart(FP, <<"dir", 0>>)
                    ELSE IF f = 3 THEN CurPart(FP, <<"tab", KTable>>)
                    ELSE IF f = 4 THEN CurPart(FP, <<"tab", 0>>) ELSE CurPart(FP, <<"page", 0>>)
<1>1. FP \in MProcs /\ 0 \in Page /\ 0 \in Table /\ KTable \in Table /\ KTable # 0
  <2>1. KTable # 0
    BY Whole, Sizes
  <2> QED BY <2>1, MemoryAssumption, Whole DEF Table
<1>2. 1 .. 5 \subseteq Frame /\ Frame \ free = 1 .. 5
  BY Sizes DEF Frame, MInit
<1>3. /\ cur[FP].dir = 2
      /\ \A t \in Table : cur[FP].tabs[t] = IF t = 0 THEN 4 ELSE IF t = KTable THEN 3 ELSE 0
      /\ \A n \in Page : cur[FP].pages[n] = IF n = 0 THEN 5 ELSE 0
      /\ \A p \in MProcs \ {FP} : cur[p] = NoSpace
  BY <1>1 DEF MInit, NoSpace
<1>4. /\ \A p \in MProcs : kstack[p] = (IF p = FP THEN 1 ELSE 0) /\ mop[p].mem = 0 /\ new[p] = NoSpace
  BY NoOpTyped DEF MInit
<1>5. /\ <<"dir", 0>> \in Part /\ <<"tab", 0>> \in Part /\ <<"tab", KTable>> \in Part
      /\ <<"page", 0>> \in Part
  BY <1>1, PartCases
<1>6. ASSUME NEW k \in Part PROVE PartOf(NoSpace, k) = 0
  BY PartCases, PartValues, NoSpaceTyped
<1>7. ASSUME NEW k \in Part, NEW s, s = cur[FP]
      PROVE  PartOf(s, k) = IF k = <<"dir", 0>> THEN 2 ELSE IF k = <<"tab", KTable>> THEN 3
                            ELSE IF k = <<"tab", 0>> THEN 4 ELSE IF k = <<"page", 0>> THEN 5 ELSE 0
  <2>1. CASE k = <<"dir", 0>>
    BY <1>3, <1>7, <2>1, PartValues
  <2>2. ASSUME NEW t \in Table, k = <<"tab", t>>
        PROVE  PartOf(s, k) = IF t = KTable THEN 3 ELSE IF t = 0 THEN 4 ELSE 0
    <3>1. PartOf(s, k) = s.tabs[t]
      BY <2>2, PartValues, Zenon
    <3> QED BY <1>1, <1>3, <1>7, <3>1
  <2>3. ASSUME NEW n \in Page, k = <<"page", n>>
        PROVE  PartOf(s, k) = IF n = 0 THEN 5 ELSE 0
    <3>1. PartOf(s, k) = s.pages[n]
      BY <2>3, PartValues, Zenon
    <3> QED BY <1>3, <1>7, <3>1
  <2> QED BY <1>1, <2>1, <2>2, <2>3, PartCases
<1>8. ASSUME NEW x \in Places, Held[x] # 0 PROVE Held[x] \in 1 .. 5 /\ x = PlaceOf(Held[x])
  <2>1. PICK p \in MProcs : \/ x = StackOf(p)
                           \/ x = MemOf(p)
                           \/ \E j \in Part : x = CurPart(p, j) \/ x = NewPart(p, j)
    BY PlaceCases
  <2>2. x # MemOf(p)
    BY <1>4, <1>8, HeldValues
  <2>3. ASSUME NEW j \in Part, x = NewPart(p, j) PROVE FALSE
    <3>1. Held[x] = PartOf(NoSpace, j)
      BY <1>4, <2>3, HeldValues
    <3> QED BY <1>6, <1>8, <3>1
  <2>4. CASE x = StackOf(p)
    <3>1. Held[x] = kstack[p]
      BY <2>4, HeldValues
    <3>2. p = FP /\ Held[x] = 1
      BY <1>4, <1>8, <3>1
    <3> QED BY <2>4, <3>2
  <2>5. ASSUME NEW j \in Part, x = CurPart(p, j) PROVE Held[x] \in 1 .. 5 /\ x = PlaceOf(Held[x])
    <3>1. Held[x] = PartOf(cur[p], j)
      BY <2>5, HeldValues
    <3>2. p = FP
      <4>1. SUFFICES ASSUME p # FP PROVE FALSE
        OBVIOUS
      <4>2. PartOf(cur[p], j) = PartOf(NoSpace, j)
        BY <1>3, <4>1
      <4> QED BY <1>6, <1>8, <3>1, <4>2
    <3>3. Held[x] = IF j = <<"dir", 0>> THEN 2 ELSE IF j = <<"tab", KTable>> THEN 3
                    ELSE IF j = <<"tab", 0>> THEN 4 ELSE IF j = <<"page", 0>> THEN 5 ELSE 0
      BY <1>7, <3>1, <3>2
    <3> HIDE DEF FP
    <3> QED BY <1>8, <2>5, <3>2, <3>3
  <2> QED BY <2>1, <2>2, <2>3, <2>4, <2>5
<1>9. ASSUME NEW f \in 1 .. 5 PROVE PlaceOf(f) \in Places /\ Held[PlaceOf(f)] = f
  <2>1. PlaceOf(f) \in Places
    BY <1>1, <1>5, PlacesThere
  <2>2. PartOf(cur[FP], <<"dir", 0>>) = 2 /\ PartOf(cur[FP], <<"tab", KTable>>) = 3
    BY <1>5, <1>7
  <2>3. PartOf(cur[FP], <<"tab", 0>>) = 4 /\ PartOf(cur[FP], <<"page", 0>>) = 5
    BY <1>1, <1>5, <1>7
  <2>4. f = 1 \/ f = 2 \/ f = 3 \/ f = 4 \/ f = 5
    OBVIOUS
  <2>5. kstack[FP] = 1
    BY <1>1, <1>4
  <2> HIDE DEF FP
  <2> QED BY <1>1, <1>5, <2>1, <2>2, <2>3, <2>4, <2>5, HeldValues
<1> HIDE DEF PlaceOf
<1>10. \A x \in Places : Held[x] # 0 => Held[x] \in Frame \ free
  BY <1>2, <1>8
<1>11. \A x, y \in Places : Held[x] = Held[y] /\ Held[x] # 0 => x = y
  BY <1>8
<1>12. \A f \in Frame \ free : \E x \in Places : Held[x] = f
  BY <1>2, <1>9
<1> QED BY <1>10, <1>11, <1>12 DEF OneOwner

LEMMA MInitEstablishes == MInit => FramesIInv
<1> SUFFICES ASSUME MInit PROVE FramesIInv
  OBVIOUS
<1> DEFINE FP == FirstProc
<1>1. FP \in MProcs /\ 0 \in Page /\ 0 \in Table /\ KTable \in Table /\ KTable # 0
  <2>1. KTable # 0
    BY Whole, Sizes
  <2> QED BY <2>1, MemoryAssumption, Whole DEF Table
<1>2. {1, 2, 3, 4, 5} \subseteq Frame /\ 0 \in 0 .. KERNBASE - 1 /\ PGSIZE \in 0 .. KERNBASE - 1
  BY Sizes DEF Frame
<1>3. cur[FP] \in SpaceType /\ cur[FP].dir = 2 /\ Backed(cur[FP]) /\ Has(cur[FP]) = {0}
  <2> DEFINE c == cur[FP]
             tabs == [NoSpace.tabs EXCEPT ![KTable] = 3, ![0] = 4]
             pages == [NoSpace.pages EXCEPT ![0] = 5]
  <2>1. c = [dir |-> 2, tabs |-> tabs, pages |-> pages]
    BY <1>1 DEF MInit
  <2>2. NoSpace.tabs = [t \in Table |-> 0] /\ NoSpace.pages = [n \in Page |-> 0]
    BY DEF NoSpace
  <2>3. tabs \in [Table -> Frame \cup {0}] /\ tabs[0] = 4
    BY <1>1, <1>2, <2>2
  <2>4. pages \in [Page -> Frame \cup {0}] /\ \A n \in Page : pages[n] = IF n = 0 THEN 5 ELSE 0
    BY <1>1, <1>2, <2>2
  <2> HIDE DEF tabs, pages
  <2>5. c.dir = 2 /\ c.tabs = tabs /\ c.pages = pages /\ c \in SpaceType
    BY <1>2, <2>1, <2>3, <2>4 DEF SpaceType
  <2> HIDE DEF c
  <2>6. PDX(0) = 0
    BY Sizes, Division DEF PDX
  <2>7. Backed(c) /\ Has(c) = {0}
    BY <1>1, <2>3, <2>4, <2>5, <2>6 DEF Backed, Has
  <2> QED BY <2>5, <2>7 DEF c
<1>4. Under(PGSIZE) = {0} /\ Under(0) = {}
  <2>1. ASSUME NEW n \in Page PROVE n * PGSIZE < PGSIZE <=> n = 0
    <3>1. n \in Nat /\ 1 * PGSIZE = PGSIZE /\ n < 1 <=> n * PGSIZE < 1 * PGSIZE
      BY PageFacts, Sizes, Division
    <3> QED BY <3>1, PageFacts, Sizes
  <2>2. \A n \in Page : ~(n * PGSIZE < 0)
    BY PageFacts
  <2> QED BY <1>1, <2>1, <2>2 DEF Under
<1>5. Globals
  <2>1. kstack \in [MProcs -> Frame \cup {0}]
    BY <1>2 DEF MInit
  <2> QED BY <2>1 DEF Globals, Functions, MInit
<1>6. MChildren
  BY NoOpTyped DEF MChildren, MInit
<1>7. ASSUME NEW p \in MProcs PROVE ProcessRight(p)
  <2>1. mop[p] = NoOp /\ new[p] = NoSpace /\ p \notin zombie /\ p \notin gone
        /\ sz[p] = (IF p = FP THEN PGSIZE ELSE 0) /\ (p # FP => cur[p] = NoSpace)
    BY DEF MInit
  <2> HIDE DEF FP
  <2>2. Typed(mop[p], cur[p], new[p], sz[p])
    <3>1. <<"none", "none">> \in Doing
      BY DEF Doing
    <3> QED BY <1>2, <1>3, <2>1, <3>1, NoOpTyped, NoSpaceTyped DEF Typed
  <2>3. SpaceRight(mop[p], cur[p], new[p], p \in zombie)
    BY <1>3, <2>1, NoOpTyped, NoSpaceTyped DEF SpaceRight
  <2>4. CallRight(mop[p]) /\ LoopRight(mop[p], sz[p])
    BY <2>1, NoOpTyped DEF CallRight, LoopRight
  <2>5. PageRight(mop[p], cur[p], new[p], sz[p], p \in gone)
    BY <1>3, <1>4, <2>1, NoOpTyped, NoSpaceTyped DEF PageRight
  <2> QED BY <2>2, <2>3, <2>4, <2>5 DEF ProcessRight
<1> QED BY <1>5, <1>6, <1>7, FirstFrames, Regrouped

LEMMA Stutter ==
    ASSUME FramesIInv, UNCHANGED mvars
    PROVE  FramesIInv'
<1>1. Globals /\ OneOwner(Held, free) /\ MChildren /\ \A r \in MProcs : ProcessRight(r)
  BY Regrouped
<1>2. UNCHANGED <<free, kstack, cur, sz, zombie, new, gone, mop>>
  BY DEF mvars
<1>3. OneOwner(Held', free')
  <2>1. SameMem /\ SameStack /\ SameCur /\ SameNew
    BY <1>2 DEF SameMem, SameStack, SameCur, SameNew
  <2> QED BY <1>1, <1>2, <2>1, Still
<1>4. Globals' /\ MChildren'
  BY <1>1, <1>2 DEF Globals, Functions, MChildren
<1>5. ASSUME NEW r \in MProcs PROVE ProcessRight(r)'
  BY <1>1, <1>2, Unmoved
<1> QED BY <1>3, <1>4, <1>5, RegroupedPrime

LEMMA StepPreserves ==
    ASSUME FramesIInv, MNext
    PROVE  FramesIInv'
<1>1. PICK p \in MProcs :
        \/ \E n \in Amounts : Sbrk(p, n)
        \/ \E q \in MProcs : ForkSpace(p, q) \/ Reap(p, q)
        \/ Exec(p) \/ ExitSpace(p)
        \/ Alloc(p) \/ Dealloc(p) \/ Freevm(p)
        \/ SetupDir(p) \/ SetupKernel(p) \/ CopyPage(p) \/ CopyDone(p) \/ Unfork(p)
        \/ Load(p) \/ Stack(p) \/ Commit(p) \/ ArgsFail(p)
  BY DEF MNext
<1>2. ASSUME NEW n \in Amounts, Sbrk(p, n) PROVE FramesIInv'
  BY <1>2, SbrkStep
<1>3. ASSUME NEW q \in MProcs, ForkSpace(p, q) \/ Reap(p, q) PROVE FramesIInv'
  BY <1>3, ForkStep, ReapStep
<1>4. CASE Exec(p) \/ ExitSpace(p)
  BY <1>4, ExecStep, ExitStep
<1>5. CASE Alloc(p)
  BY <1>5, AllocPageStep, AllocFailStep, MapPageStep, MapFailStep, AllocDoneStep DEF Alloc
<1>6. CASE Dealloc(p)
  BY <1>6, DeallocPageStep, DeallocDoneStep, UndoDoneStep DEF Dealloc
<1>7. CASE Freevm(p)
  BY <1>7, FreePageStep, FreeTableStep, FreeDirStep DEF Freevm
<1>8. CASE SetupDir(p) \/ SetupKernel(p)
  BY <1>8, SetupDirStep, SetupKernelStep
<1>9. CASE CopyPage(p) \/ CopyDone(p) \/ Unfork(p)
  BY <1>9, CopyPageStep, CopyDoneStep, UnforkStep
<1>10. CASE Load(p) \/ Stack(p) \/ Commit(p) \/ ArgsFail(p)
  BY <1>10, LoadStep, StackStep, CommitStep, ArgsFailStep
<1> QED BY <1>1, <1>2, <1>3, <1>4, <1>5, <1>6, <1>7, <1>8, <1>9, <1>10

\* Whatever runs out in the middle of fork(), exec() and sbrk(), in however many
\* processes at once: every frame is on the free list or has one place that will free
\* it, and a process that is not in sbrk() has the pages below its size and no other,
\* but for one that growproc() has shrunk to nothing (vm.c, proc.c, exec.c, kalloc.c).
THEOREM FramesInvariant == MSpec => []FramesIInv
<1>1. MInit => FramesIInv
  BY MInitEstablishes
<1>2. FramesIInv /\ [MNext]_mvars => FramesIInv'
  BY StepPreserves, Stutter
<1> QED BY <1>1, <1>2, PTL DEF MSpec
=============================================================================
