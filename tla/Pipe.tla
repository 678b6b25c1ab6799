-------------------------------- MODULE Pipe --------------------------------
(***************************************************************************)
(* A pipe (pipe.c): a ring of PIPESIZE bytes under a spin lock, with the   *)
(* sleep(), wakeup() and kill() of proc.c it depends on, and fileclose()   *)
(* as far as it closes the ends.                                           *)
(*                                                                         *)
(* What a process does under p->lock without sleeping is one action.  The  *)
(* lock is explicit from the moment a call decides to sleep until sleep()  *)
(* has taken ptable.lock and released it, because a kill() fits in there   *)
(* and a wakeup() must not.                                                *)
(***************************************************************************)
EXTENDS Integers, Sequences

CONSTANTS
    Procs,     \* the processes that use the pipe
    NoProc,    \* a lock is free
    PIPESIZE,
    W,         \* nread and nwrite are counted modulo W (2^32 in the code)
    Readers,   \* who holds the read end at first (after pipe, fork and close)
    Writers,   \* who holds the write end at first
    Bufs,      \* what write() may be called with: non-empty byte sequences
    Counts,    \* how many bytes read() may ask for
    Killable   \* whom kill() may hit

\* The bytes written.
Bytes == UNION {{b[i] : i \in DOMAIN b} : b \in Bufs}

\* 512 divides 2^32, so that nread % PIPESIZE does not jump when nread wraps.
ASSUME PipeAssumption ==
    /\ NoProc \notin Procs
    /\ PIPESIZE \in Nat \ {0}
    /\ W \in Nat /\ W > PIPESIZE /\ W % PIPESIZE = 0
    /\ Readers \subseteq Procs /\ Readers # {}
    /\ Writers \subseteq Procs /\ Writers # {}
    /\ Bufs \subseteq Seq(Bytes) \ {<<>>}
    /\ Counts \subseteq Nat \ {0}
    /\ Killable \subseteq Procs

VARIABLES
    data, nread, nwrite, readopen, writeopen,  \* struct pipe
    freed,      \* pipeclose() gave the page back
    lk,         \* who holds p->lock across an action
    ptlk,       \* who holds ptable.lock across an action
    pc,         \* where each process is
    op,         \* the call it is in (and sleeps in): read or write
    todo,       \* write(): the bytes not yet copied in, addr[i .. n-1]
    want,       \* read(): the count it was given
    ret,        \* what the last call returned
    killed,
    rd, wr      \* who still holds the read end, the write end

pipeVars == <<data, nread, nwrite, readopen, writeopen, freed>>
vars     == <<pipeVars, lk, ptlk, pc, op, todo, want, ret, killed, rd, wr>>

Error == <<"error">>
Done  == <<"done">>

Init ==
    /\ data = [i \in 0 .. PIPESIZE - 1 |-> "junk"]
    /\ nread = 0 /\ nwrite = 0
    /\ readopen = TRUE /\ writeopen = TRUE
    /\ freed = FALSE
    /\ lk = NoProc /\ ptlk = NoProc
    /\ pc     = [p \in Procs |-> "user"]
    /\ op     = [p \in Procs |-> "none"]
    /\ todo   = [p \in Procs |-> <<>>]
    /\ want   = [p \in Procs |-> 0]
    /\ ret    = [p \in Procs |-> <<>>]
    /\ killed = [p \in Procs |-> FALSE]
    /\ rd = Readers /\ wr = Writers

-----------------------------------------------------------------------------
Free     == lk = NoProc /\ ptlk = NoProc
Count    == (nwrite - nread) % W            \* bytes in the ring
Full     == nwrite = (nread + PIPESIZE) % W
Empty    == nread = nwrite
Goto(p, w) == pc' = [pc EXCEPT ![p] = w]
Return(p)  == op' = [op EXCEPT ![p] = "none"]

\* The i-th byte to be read, i >= 1.
Byte(i) == data[(nread + i - 1) % PIPESIZE]

\* pc once everyone asleep in a call of kind o is runnable: readers sleep on
\* &p->nread, writers on &p->nwrite.
NoWakeup(o) == pc                           \* mutant: the wakeup is forgotten
Woken(o) == [p \in Procs |-> IF pc[p] = "asleep" /\ op[p] = o THEN o ELSE pc[p]]

Shorter(n, m) == IF n < m THEN n ELSE m

\* data once the first k bytes of b are stored from nwrite on.
Unwrapped(b, k) ==                          \* mutant: the index is not reduced
    [j \in 0 .. PIPESIZE - 1 |->
        IF j \in nwrite .. nwrite + k - 1 THEN b[j - nwrite + 1] ELSE data[j]]
Stored(b, k) ==
    [j \in 0 .. PIPESIZE - 1 |->
        LET d == (j - nwrite) % PIPESIZE IN IF d < k THEN b[d + 1] ELSE data[j]]

-----------------------------------------------------------------------------
(***************************************************************************)
(* pipewrite()                                                             *)
(***************************************************************************)
StartWrite(p, b) ==
    /\ pc[p] = "user" /\ p \in wr /\ ~killed[p]
    /\ op'   = [op EXCEPT ![p] = "write"]
    /\ todo' = [todo EXCEPT ![p] = b]
    /\ ret'  = [ret EXCEPT ![p] = <<>>]
    /\ Goto(p, "write")
    /\ UNCHANGED <<pipeVars, lk, ptlk, want, killed, rd, wr>>

\* How much of todo fits.
RoomForAll(p) == Len(todo[p])               \* mutant: the ring is never full
Room(p) == Shorter(Len(todo[p]), PIPESIZE - Count)

Fill(p) ==
    /\ data'   = Stored(todo[p], Room(p))
    /\ nwrite' = (nwrite + Room(p)) % W
    /\ UNCHANGED <<nread, readopen, writeopen, freed>>

\* With p->lock: everything fitted, pipewrite() wakes the readers and returns n.
WriteAll(p) ==
    /\ Room(p) = Len(todo[p])
    /\ todo' = [todo EXCEPT ![p] = <<>>]
    /\ ret'  = [ret EXCEPT ![p] = Done]
    /\ pc'   = [Woken("read") EXCEPT ![p] = "user"]
    /\ Return(p)
    /\ UNCHANGED lk

\* The ring is full and nobody will read, or the writer was killed.
WriteFail(p) ==
    /\ Room(p) < Len(todo[p])
    /\ ~readopen \/ killed[p]
    /\ todo' = [todo EXCEPT ![p] = <<>>]
    /\ ret'  = [ret EXCEPT ![p] = Error]
    /\ Goto(p, "user")
    /\ Return(p)
    /\ UNCHANGED lk

\* The ring is full: wake the readers and go to sleep, p->lock still held.
WriteWait(p) ==
    /\ Room(p) < Len(todo[p])
    /\ readopen /\ ~killed[p]
    /\ todo' = [todo EXCEPT ![p] = SubSeq(@, Room(p) + 1, Len(@))]
    /\ pc'   = [Woken("read") EXCEPT ![p] = "sleep"]
    /\ lk'   = p
    /\ UNCHANGED <<ret, op>>

Write(p) ==
    /\ pc[p] = "write"
    /\ Free
    /\ Fill(p)
    /\ WriteAll(p) \/ WriteFail(p) \/ WriteWait(p)
    /\ UNCHANGED <<ptlk, want, killed, rd, wr>>

-----------------------------------------------------------------------------
(***************************************************************************)
(* piperead()                                                              *)
(***************************************************************************)
StartRead(p, n) ==
    /\ pc[p] = "user" /\ p \in rd /\ ~killed[p]
    /\ op'   = [op EXCEPT ![p] = "read"]
    /\ want' = [want EXCEPT ![p] = n]
    /\ ret'  = [ret EXCEPT ![p] = <<>>]
    /\ Goto(p, "read")
    /\ UNCHANGED <<pipeVars, lk, ptlk, todo, killed, rd, wr>>

ReadWaits == Empty /\ writeopen

\* Nothing there: give up if killed, else go to sleep, p->lock still held.
ReadFail(p) ==
    /\ ReadWaits /\ killed[p]
    /\ ret'  = [ret EXCEPT ![p] = Error]
    /\ want' = [want EXCEPT ![p] = 0]
    /\ Goto(p, "user")
    /\ Return(p)
    /\ UNCHANGED <<pipeVars, lk>>

ReadWait(p) ==
    /\ ReadWaits /\ ~killed[p]
    /\ lk' = p
    /\ Goto(p, "sleep")
    /\ UNCHANGED <<pipeVars, ret, want, op>>

\* Copy out what there is, wake the writers, return; 0 bytes at end of file.
ReadSome(p) ==
    /\ ~ReadWaits
    /\ LET m == Shorter(want[p], Count) IN
          /\ ret'   = [ret EXCEPT ![p] = [i \in 1 .. m |-> Byte(i)]]
          /\ nread' = (nread + m) % W
    /\ want' = [want EXCEPT ![p] = 0]
    /\ pc'   = [Woken("write") EXCEPT ![p] = "user"]
    /\ Return(p)
    /\ UNCHANGED <<data, nwrite, readopen, writeopen, freed, lk>>

Read(p) ==
    /\ pc[p] = "read"
    /\ Free
    /\ ReadFail(p) \/ ReadWait(p) \/ ReadSome(p)
    /\ UNCHANGED <<ptlk, todo, killed, rd, wr>>

-----------------------------------------------------------------------------
(***************************************************************************)
(* sleep(chan, &p->lock), kill(), and closing the ends.                    *)
(***************************************************************************)

\* The lock that covers the rest of sleep().
Uncovered(p) == NoProc                      \* mutant: ptable.lock is not taken
Covered(p)   == p

\* acquire(&ptable.lock); release(lk)
SleepSwap(p) ==
    /\ pc[p] = "sleep" /\ lk = p
    /\ ptlk = NoProc
    /\ ptlk' = Covered(p)
    /\ lk'   = NoProc
    /\ Goto(p, "sleep2")
    /\ UNCHANGED <<pipeVars, op, todo, want, ret, killed, rd, wr>>

\* p->state = SLEEPING; sched(), after which ptable.lock is free again.
SleepCommit(p) ==
    /\ pc[p] = "sleep2"
    /\ Goto(p, "asleep")
    /\ ptlk' = NoProc
    /\ UNCHANGED <<pipeVars, lk, op, todo, want, ret, killed, rd, wr>>

\* kill(): mark the process and make it runnable if it is asleep.
Kill(p) ==
    /\ p \in Killable /\ ~killed[p]
    /\ ptlk = NoProc
    /\ killed' = [killed EXCEPT ![p] = TRUE]
    /\ pc' = [pc EXCEPT ![p] = IF @ = "asleep" THEN op[p] ELSE @]
    /\ UNCHANGED <<pipeVars, lk, ptlk, op, todo, want, ret, rd, wr>>

\* close() or exit(): the reference count of the file of that end goes down;
\* whoever takes it to zero goes on to pipeclose().
CloseRead(p) ==
    /\ pc[p] = "user" /\ p \in rd
    /\ rd' = rd \ {p}
    /\ Goto(p, IF rd = {p} THEN "closeread" ELSE "user")
    /\ UNCHANGED <<pipeVars, lk, ptlk, op, todo, want, ret, killed, wr>>

CloseWrite(p) ==
    /\ pc[p] = "user" /\ p \in wr
    /\ wr' = wr \ {p}
    /\ Goto(p, IF wr = {p} THEN "closewrite" ELSE "user")
    /\ UNCHANGED <<pipeVars, lk, ptlk, op, todo, want, ret, killed, rd>>

\* Where pipeclose() goes when it has cleared its flag: to kfree() if the other
\* end is closed too.
FreeAlways(open) == "free"                  \* mutant: the other end is ignored
AfterClose(open) == IF open THEN "user" ELSE "free"

PipeCloseRead(p) ==
    /\ pc[p] = "closeread"
    /\ Free
    /\ readopen' = FALSE
    /\ pc' = [Woken("write") EXCEPT ![p] = AfterClose(writeopen)]
    /\ UNCHANGED <<data, nread, nwrite, writeopen, freed,
                   lk, ptlk, op, todo, want, ret, killed, rd, wr>>

PipeCloseWrite(p) ==
    /\ pc[p] = "closewrite"
    /\ Free
    /\ writeopen' = FALSE
    /\ pc' = [Woken("read") EXCEPT ![p] = AfterClose(readopen)]
    /\ UNCHANGED <<data, nread, nwrite, readopen, freed,
                   lk, ptlk, op, todo, want, ret, killed, rd, wr>>

KFree(p) ==
    /\ pc[p] = "free"
    /\ freed' = TRUE
    /\ Goto(p, "user")
    /\ UNCHANGED <<data, nread, nwrite, readopen, writeopen,
                   lk, ptlk, op, todo, want, ret, killed, rd, wr>>

-----------------------------------------------------------------------------
\* What a process in the kernel does next.
Kernel(p) ==
    \/ Write(p) \/ Read(p) \/ SleepSwap(p) \/ SleepCommit(p)
    \/ PipeCloseRead(p) \/ PipeCloseWrite(p) \/ KFree(p)

\* What user code may ask for.
User(p) ==
    \/ \E b \in Bufs : StartWrite(p, b)
    \/ \E n \in Counts : StartRead(p, n)
    \/ CloseRead(p) \/ CloseWrite(p)

Next == \E p \in Procs : Kernel(p) \/ User(p) \/ Kill(p)

Spec == Init /\ [][Next]_vars

(***************************************************************************)
(* Fairness: the scheduler runs every process in the kernel, and one that  *)
(* finds p->lock free again and again gets it (the holder of a spin lock   *)
(* has interrupts off, so it is never preempted and the others rarely      *)
(* spin).  Nothing obliges user code to call anything, but a process that  *)
(* was killed exits, which closes what it holds.                           *)
(***************************************************************************)
Exits(p) == killed[p] /\ (CloseRead(p) \/ CloseWrite(p))

FairSpec ==
    Spec /\ \A p \in Procs : SF_vars(Kernel(p)) /\ WF_vars(Exits(p))
=============================================================================
