------------------------------ MODULE LogProps ------------------------------
(***************************************************************************)
(* What the log promises.                                                  *)
(***************************************************************************)
EXTENDS Log

Committing(p) == pc[p] \in {"commit", "writelog", "writehead", "install", "erase", "done"}
InOp          == {p \in Procs : pc[p] = "inop"}
OneToOne(h)   == \A i, j \in 1 .. Len(h) : h[i] = h[j] => i = j

TypeOK ==
    /\ home \in [Blocks -> Vals] /\ mem \in [Blocks -> Vals]
    /\ logblk \in [1 .. NLOG - 1 -> Vals]
    /\ lh \in Seq(Blocks) /\ Len(lh) <= LOGSIZE /\ Len(lh) <= NLOG - 1
    /\ head \in Seq(Blocks) /\ Len(head) <= LOGSIZE /\ Len(head) <= NLOG - 1
    /\ outstanding \in Nat /\ committing \in BOOLEAN
    /\ pc \in [Procs -> Points]
    /\ wrote \in [Procs -> SUBSET Blocks]
    /\ boot \in {"up", "readhead", "install", "erase"}
    /\ tail \in Nat \ {0}

\* The reservations of begin_op() are enough: whatever calls run together, none
\* of them finds the log full or a commit going on, so log_write() and end_op()
\* never panic (log.c:132, 152-153, 218-219).
NoPanic ==
    \A p \in InOp : ~TooBig /\ ~committing

\* No wakeup on &log is missed: whoever sleeps in begin_op() would have to wait
\* if it looked again (log.c:130-134, 154-162, 170-171).
WaiterHasReason ==
    \A p \in Procs : pc[p] = "asleep" => ~Admits

\* When no call is in progress and no commit, everything is on disk at home and
\* the log is empty: a call that was alone is durable when end_op() returns.
IdleMeansDurable ==
    boot = "up" /\ outstanding = 0 /\ ~committing =>
        head = <<>> /\ lh = <<>> /\ home = mem

\* Home locations hm with the log blocks l that header h names over them.
Replayed(h, l, hm) ==
    [b \in Blocks |->
        IF b \in Logged(h) THEN l[CHOOSE i \in 1 .. Len(h) : h[i] = b] ELSE hm[b]]

\* What the disk holds once recovery has run.
Recovered == Replayed(head, logblk, home)

\* Crash safety: commit, crash and recovery together are one atomic change of
\* the disk from one state between operations to another.
Disk == INSTANCE AtomicDisk WITH
    cur     <- IF boot = "up" THEN mem ELSE Recovered,
    durable <- Recovered,
    active  <- InOp
DiskSpec == Disk!ASpec

-----------------------------------------------------------------------------
(***************************************************************************)
(* The inductive invariant behind crash safety.                            *)
(***************************************************************************)

\* begin_op() and end_op() count the calls in progress, and the one process that
\* took the count to zero commits.
CommitInv ==
    /\ outstanding = Cardinality(InOp)
    /\ \A p, q \in Procs : Committing(p) /\ Committing(q) => p = q
    /\ committing <=> \E p \in Procs : Committing(p)
    /\ committing => outstanding = 0
    /\ boot # "up" => \A p \in Procs : pc[p] = "idle"

\* The blocks that the calls in progress may still log, one pair for each.
Reserved == {r \in InOp \X (1 .. MAXOPBLOCKS) : r[2] > Cardinality(wrote[r[1]])}

\* What is in the log and what may still come fits.
RoomInv ==
    /\ Len(lh) + Cardinality(Reserved) <= LOGSIZE
    /\ \A p \in Procs :
          /\ wrote[p] \subseteq Logged(lh)
          /\ IsFiniteSet(wrote[p]) /\ Cardinality(wrote[p]) <= OpBlocks
          /\ pc[p] # "inop" => wrote[p] = {}

\* Logged blocks differ from home only through the log, others not at all.
CacheInv ==
    /\ OneToOne(lh) /\ OneToOne(head)
    /\ boot = "up" => \A b \in Blocks \ Logged(lh) : mem[b] = home[b]
    /\ boot # "up" => mem = home
    /\ outstanding = 0 /\ ~committing /\ boot = "up" => lh = <<>>

\* The first n blocks of the log hold what the transaction wrote; the first n of
\* the log are installed.
InLog(n)  == \A i \in 1 .. n : logblk[i] = mem[lh[i]]
AtHome(n) == \A i \in 1 .. n : home[lh[i]] = logblk[i]

\* How far process p has got with its commit.
PhaseOf(p) ==
    /\ pc[p] \in {"commit", "writelog", "writehead", "done"} => head = <<>>
    /\ pc[p] \in {"writelog", "writehead", "install", "erase"} => lh # <<>>
    /\ pc[p] \in {"writelog", "install"} => tail <= Len(lh)
    /\ pc[p] = "writelog" => InLog(tail - 1)
    /\ pc[p] = "writehead" => tail = 1 /\ InLog(Len(lh))
    /\ pc[p] \in {"install", "erase"} => head = lh /\ InLog(Len(lh))
    /\ pc[p] = "install" => AtHome(tail - 1)
    /\ pc[p] = "erase" => AtHome(Len(lh))
    /\ pc[p] = "done" => lh = <<>>

\* How far the recovery has got.
RecoveryInv ==
    /\ boot = "readhead" => lh = <<>>
    /\ boot \in {"install", "erase"} => lh = head
    /\ boot = "install" => tail <= Len(lh) /\ AtHome(tail - 1)
    /\ boot = "erase" => AtHome(Len(lh))

PhaseInv ==
    /\ boot = "up" /\ ~committing => head = <<>>
    /\ \A p \in Procs : PhaseOf(p)
    /\ RecoveryInv

LogIInv ==
    /\ TypeOK /\ CommitInv /\ RoomInv /\ CacheInv /\ PhaseInv
    /\ WaiterHasReason

-----------------------------------------------------------------------------
(***************************************************************************)
(* Liveness, under FairSpec.                                               *)
(***************************************************************************)

\* Nobody waits in begin_op() for ever while nobody else gets in: if calls and
\* commits come to an end, so does the wait.
NoWedge ==
    \A p \in Procs :
        \/ []<>(pc[p] \notin {"begin", "asleep"})
        \/ []<><<\E r \in Procs : pc[r] # "inop" /\ pc'[r] = "inop">>_vars
        \/ []<><<Crash>>_vars
=============================================================================
