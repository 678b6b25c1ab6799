---------------------------- MODULE BufferCache ----------------------------
(***************************************************************************)
(* The buffer cache (bio.c) with the sleep locks of its buffers and the    *)
(* disk driver under it (ide.c): bget, bread, bwrite, brelse, iderw and    *)
(* the interrupt handler.                                                  *)
(*                                                                         *)
(* What is done under bcache.lock or under idelock is one action.  A sleep *)
(* lock is taken by whoever finds it free; a process that sleep() woke for *)
(* nothing looks again and sleeps again, which is no step here.  Changing  *)
(* a buffer and log_write()ing it is one action, for the caller has it     *)
(* locked all the while.                                                   *)
(***************************************************************************)
EXTENDS Integers, Sequences, FiniteSets

CONSTANTS
    Procs, NoProc,
    Bufs, NoBuf,
    Blocks, NoBlock,
    Nests,            \* <<m, n>>: a process that has block m may bread() block n
    Vals, Zero,
    MaxHeld,          \* buffers a process has at a time (2 in fs.c and log.c)
    MaxPinned         \* blocks the log keeps in the cache at a time

ASSUME CacheAssumption ==
    /\ NoProc \notin Procs /\ NoBuf \notin Bufs
    /\ NoBlock \notin Blocks
    /\ Nests \subseteq Blocks \X Blocks /\ \A n \in Blocks : <<n, n>> \notin Nests
    /\ IsFiniteSet(Procs) /\ IsFiniteSet(Bufs)
    /\ Zero \in Vals
    /\ MaxHeld \in Nat \ {0} /\ MaxPinned \in Nat

VARIABLES
    blk, refcnt, valid, dirty, data,  \* struct buf (dev is always the same)
    holder,  \* buffer -> the process that has its sleep lock
    lru,     \* the order of the list: <<b, d>> if b was used after d
    queue,   \* idequeue
    cmd,     \* what the controller is working on
    disk,
    pc,      \* where each process is in bread, bwrite or brelse
    cur,     \* the buffer it is there with
    held,    \* the buffers bread() gave it and it has not released
    got      \* what its last bread() found in the buffer

bufVars  == <<blk, refcnt, valid, dirty, data, holder, lru>>
procVars == <<pc, cur, held, got>>
vars     == <<bufVars, queue, cmd, disk, procVars>>

\* The buffers are in one list, in order o.
IsOrder(o) ==
    /\ \A b, d \in Bufs : b # d => (<<b, d>> \in o <=> <<d, b>> \notin o)
    /\ \A b \in Bufs : <<b, b>> \notin o
    /\ \A b, d, e \in Bufs : <<b, d>> \in o /\ <<d, e>> \in o => <<b, e>> \in o

NoCmd == [block |-> NoBlock, write |-> FALSE, val |-> Zero]

Init ==
    /\ blk    = [b \in Bufs |-> NoBlock]
    /\ refcnt = [b \in Bufs |-> 0]
    /\ valid  = [b \in Bufs |-> FALSE]
    /\ dirty  = [b \in Bufs |-> FALSE]
    /\ data   = [b \in Bufs |-> Zero]
    /\ holder = [b \in Bufs |-> NoProc]
    /\ lru \in {o \in SUBSET (Bufs \X Bufs) : IsOrder(o)}
    /\ queue = <<>>
    /\ cmd   = NoCmd
    /\ disk  = [n \in Blocks |-> Zero]
    /\ pc    = [p \in Procs |-> "run"]
    /\ cur   = [p \in Procs |-> NoBuf]
    /\ held  = [p \in Procs |-> {}]
    /\ got   = [p \in Procs |-> Zero]

-----------------------------------------------------------------------------
(***************************************************************************)
(* bget()                                                                  *)
(***************************************************************************)

\* p calls bread(n), as the nesting of the calls allows.
Calls(p, n) ==
    /\ pc[p] = "run"
    /\ Cardinality(held[p]) < MaxHeld
    /\ \A b \in held[p] : <<blk[b], n>> \in Nests

Cached(n) == {b \in Bufs : blk[b] = n}

\* The block is in the cache: count the reference and wait for the buffer.
BgetHit(p, n) ==
    /\ Calls(p, n)
    /\ \E b \in Cached(n) :
          /\ refcnt' = [refcnt EXCEPT ![b] = @ + 1]
          /\ cur'    = [cur EXCEPT ![p] = b]
    /\ pc' = [pc EXCEPT ![p] = "lock"]
    /\ UNCHANGED <<blk, valid, dirty, data, holder, lru, queue, cmd, disk, held, got>>

\* A buffer nobody uses, and not one that waits for a commit.
Unused(b)     == refcnt[b] = 0              \* mutant: evicts what the log has pinned
Clean(b)      == ~dirty[b]                  \* mutant: evicts what somebody uses
Recyclable(b) == refcnt[b] = 0 /\ ~dirty[b]

\* The block is not in the cache: recycle the least recently used such buffer.
\* bget() panics if there is none: no step.
BgetMiss(p, n) ==
    /\ Calls(p, n)
    /\ Cached(n) = {}
    /\ \E b \in Bufs :
          /\ Recyclable(b)
          /\ \A d \in Bufs \ {b} : Recyclable(d) => <<d, b>> \in lru
          /\ blk'    = [blk EXCEPT ![b] = n]
          /\ valid'  = [valid EXCEPT ![b] = FALSE]
          /\ dirty'  = [dirty EXCEPT ![b] = FALSE]
          /\ refcnt' = [refcnt EXCEPT ![b] = 1]
          /\ cur'    = [cur EXCEPT ![p] = b]
    /\ pc' = [pc EXCEPT ![p] = "lock"]
    /\ UNCHANGED <<data, holder, lru, queue, cmd, disk, held, got>>

-----------------------------------------------------------------------------
(***************************************************************************)
(* bread(), bwrite(), brelse()                                             *)
(***************************************************************************)

\* p has the buffer, and what is in it.
Give(p, b) ==
    /\ held' = [held EXCEPT ![p] = @ \cup {b}]
    /\ got'  = [got EXCEPT ![p] = data[b]]
    /\ cur'  = [cur EXCEPT ![p] = NoBuf]

\* acquiresleep() of bget(), and then bread(): read the block if need be.
LockBuf(p) ==
    /\ pc[p] = "lock"
    /\ holder[cur[p]] = NoProc
    /\ holder' = [holder EXCEPT ![cur[p]] = p]
    /\ IF valid[cur[p]]
       THEN pc' = [pc EXCEPT ![p] = "run"] /\ Give(p, cur[p])
       ELSE pc' = [pc EXCEPT ![p] = "rw"] /\ UNCHANGED <<cur, held, got>>
    /\ UNCHANGED <<blk, refcnt, valid, dirty, data, lru, queue, cmd, disk>>

\* The buffers on their way to or from the disk, and those that wait for a commit.
InTransit == {cur[p] : p \in {q \in Procs : pc[q] \in {"rw", "io"}}}
Pinned    == {b \in Bufs : dirty[b]} \ InTransit

\* The caller changes a buffer and log_write()s it, which pins it.
LogWrite(p, b, v) ==
    /\ pc[p] = "run" /\ b \in held[p]
    /\ dirty[b] \/ Cardinality(Pinned) < MaxPinned
    /\ data'  = [data EXCEPT ![b] = v]
    /\ dirty' = [dirty EXCEPT ![b] = TRUE]
    /\ UNCHANGED <<blk, refcnt, valid, holder, lru, queue, cmd, disk, procVars>>

\* The caller (log.c) changes a buffer and bwrite()s it.
Bwrite(p, b, v) ==
    /\ pc[p] = "run" /\ b \in held[p]
    /\ data'  = [data EXCEPT ![b] = v]
    /\ dirty' = [dirty EXCEPT ![b] = TRUE]
    /\ held'  = [held EXCEPT ![p] = @ \ {b}]
    /\ cur'   = [cur EXCEPT ![p] = b]
    /\ pc'    = [pc EXCEPT ![p] = "rw"]
    /\ UNCHANGED <<blk, refcnt, valid, holder, lru, queue, cmd, disk, got>>

\* brelse(): releasesleep() first, the reference afterwards.
Brelse(p, b) ==
    /\ pc[p] = "run" /\ b \in held[p]
    /\ holder' = [holder EXCEPT ![b] = NoProc]
    /\ held'   = [held EXCEPT ![p] = @ \ {b}]
    /\ cur'    = [cur EXCEPT ![p] = b]
    /\ pc'     = [pc EXCEPT ![p] = "unref"]
    /\ UNCHANGED <<blk, refcnt, valid, dirty, data, lru, queue, cmd, disk, got>>

ToFront(b) == {r \in lru : r[2] # b} \cup ({b} \X (Bufs \ {b}))

\* What is left of the references to b.
Leaked(b)  == refcnt[b]                     \* mutant: the reference stays
Dropped(b) == refcnt[b] - 1

Unref(p) ==
    /\ pc[p] = "unref"
    /\ refcnt' = [refcnt EXCEPT ![cur[p]] = Dropped(cur[p])]
    /\ lru'    = IF refcnt[cur[p]] = 1 THEN ToFront(cur[p]) ELSE lru
    /\ cur'    = [cur EXCEPT ![p] = NoBuf]
    /\ pc'     = [pc EXCEPT ![p] = "run"]
    /\ UNCHANGED <<blk, valid, dirty, data, holder, queue, cmd, disk, held, got>>

-----------------------------------------------------------------------------
(***************************************************************************)
(* The disk driver.                                                        *)
(***************************************************************************)

\* idestart(): the command for b; a write hands the data over at once.
DiskCommand(b) == [block |-> blk[b], write |-> dirty[b], val |-> data[b]]

\* The command once b is at the end of the queue.
Iderw(p) ==
    /\ pc[p] = "rw"
    /\ queue' = Append(queue, cur[p])
    /\ cmd'   = IF queue = <<>> THEN DiskCommand(cur[p]) ELSE cmd
    /\ pc'    = [pc EXCEPT ![p] = "io"]
    /\ UNCHANGED <<bufVars, disk, cur, held, got>>

\* ideintr() starts the disk on the next buffer of the queue.
StartNone == NoCmd                          \* mutant: the disk is left idle
StartNext == IF Len(queue) > 1 THEN DiskCommand(queue[2]) ELSE NoCmd

\* The disk is done with the command and interrupts: the request at the head of
\* the queue is finished.
Ideintr ==
    /\ queue # <<>> /\ cmd # NoCmd
    /\ LET b == Head(queue) IN
          /\ disk'  = IF cmd.write THEN [disk EXCEPT ![cmd.block] = cmd.val] ELSE disk
          /\ data'  = IF dirty[b] THEN data ELSE [data EXCEPT ![b] = disk[cmd.block]]
          /\ valid' = [valid EXCEPT ![b] = TRUE]
          /\ dirty' = [dirty EXCEPT ![b] = FALSE]
    /\ queue' = Tail(queue)
    /\ cmd'   = StartNext
    /\ UNCHANGED <<blk, refcnt, holder, lru, procVars>>

\* iderw() finds the request done.
IderwDone(p) ==
    /\ pc[p] = "io"
    /\ valid[cur[p]] /\ ~dirty[cur[p]]
    /\ Give(p, cur[p])
    /\ pc' = [pc EXCEPT ![p] = "run"]
    /\ UNCHANGED <<bufVars, queue, cmd, disk>>

-----------------------------------------------------------------------------
Bget(p)    == \E n \in Blocks : BgetHit(p, n) \/ BgetMiss(p, n)
Finish(p)  == Iderw(p) \/ IderwDone(p) \/ Unref(p)
Release(p) == \E b \in held[p] : Brelse(p, b)
Change(p)  == \E b \in held[p], v \in Vals : LogWrite(p, b, v) \/ Bwrite(p, b, v)

Next ==
    \/ \E p \in Procs : Bget(p) \/ LockBuf(p) \/ Finish(p) \/ Release(p) \/ Change(p)
    \/ Ideintr

Spec == Init /\ [][Next]_vars

(***************************************************************************)
(* Fairness: the disk answers; a process in the kernel takes its next step *)
(* and gets a sleep lock that is free again and again; callers release     *)
(* every buffer they were given.  Nobody has to call bread().              *)
(***************************************************************************)
FairSpec ==
    /\ Spec
    /\ WF_vars(Ideintr)
    /\ \A p \in Procs :
          /\ WF_vars(Finish(p)) /\ SF_vars(LockBuf(p))
          /\ \A b \in Bufs : SF_vars(Brelse(p, b))
=============================================================================
