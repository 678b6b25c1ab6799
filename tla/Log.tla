--------------------------------- MODULE Log ---------------------------------
(***************************************************************************)
(* The write-ahead log of log.c: begin_op, log_write, end_op, commit, and  *)
(* recovery after a crash at any point between two disk writes.            *)
(*                                                                         *)
(* A disk write of one block is atomic.  The buffer cache is what bread()  *)
(* makes of it: a logged block is pinned (B_DIRTY), so it is read from the *)
(* cache until it is installed; any other block reads as it is on disk.    *)
(* sleep() gives log.lock up and sleeps in one step, as Pipe justifies.    *)
(***************************************************************************)
EXTENDS Integers, Sequences, FiniteSets

CONSTANTS
    Procs,        \* processes making file system calls
    Blocks,       \* home locations
    Vals,         \* contents of a block
    Zero,         \* what mkfs fills the disk with
    MAXOPBLOCKS,  \* what begin_op() reserves for one call
    LOGSIZE,      \* blocks a log header has room for
    NLOG,         \* log.size: blocks of the log on disk, the header one of them
    OpBlocks      \* different blocks a call really writes at most

\* A call must leave two blocks of its reservation: mkfs makes a log of LOGSIZE
\* blocks, header included, so one less than the header promises is there, and
\* log_write() panics on a full log even if the block is in it.  The calls of
\* fs.c, file.c and sysfile.c write at most 7 different blocks of the 10 reserved.
ASSUME LogAssumption ==
    /\ {MAXOPBLOCKS, LOGSIZE, NLOG, OpBlocks} \subseteq Nat
    /\ OpBlocks + 2 <= MAXOPBLOCKS
    /\ MAXOPBLOCKS <= LOGSIZE /\ LOGSIZE <= NLOG
    /\ Zero \in Vals
    /\ IsFiniteSet(Procs)

VARIABLES
    home, logblk, head,       \* on disk: home locations, log blocks, header
    mem,                      \* what bread() returns: cache over disk
    lh,                       \* log.lh: the blocks of the transaction, in order
    outstanding, committing,  \* struct log
    pc,                       \* process -> where it is
    wrote,                    \* process -> the blocks its call has logged
    boot,                     \* where recovery is, "up" when it is over
    tail                      \* loop variable of write_log / install_trans

disk == <<home, logblk, head>>
vars == <<disk, mem, lh, outstanding, committing, pc, wrote, boot, tail>>

Points == {"idle", "begin", "asleep", "inop",
           "commit", "writelog", "writehead", "install", "erase", "done"}

Init ==
    /\ home = [b \in Blocks |-> Zero]
    /\ logblk = [i \in 1 .. NLOG - 1 |-> Zero]
    /\ head = <<>>
    /\ mem = home
    /\ lh = <<>>
    /\ outstanding = 0 /\ committing = FALSE
    /\ pc    = [p \in Procs |-> "idle"]
    /\ wrote = [p \in Procs |-> {}]
    /\ boot = "up"
    /\ tail = 1

-----------------------------------------------------------------------------
Goto(p, w) == pc' = [pc EXCEPT ![p] = w]

\* The blocks named by a log header.
Logged(h) == {h[i] : i \in 1 .. Len(h)}

\* pc once everyone asleep on &log is runnable.
NobodyWoken == pc                           \* mutant: the wakeup is forgotten
Woken == [p \in Procs |-> IF pc[p] = "asleep" THEN "begin" ELSE pc[p]]

-----------------------------------------------------------------------------
(***************************************************************************)
(* File system calls.                                                      *)
(***************************************************************************)

\* begin_op() need not wait (OneMoreFits is a mutant: it forgets the caller).
OneMoreFits ==
    ~committing /\ Len(lh) + outstanding * MAXOPBLOCKS <= LOGSIZE
Admits ==
    ~committing /\ Len(lh) + (outstanding + 1) * MAXOPBLOCKS <= LOGSIZE

BeginOp(p) ==
    /\ boot = "up"
    /\ pc[p] \in {"idle", "begin"}
    /\ \/ /\ Admits
          /\ Goto(p, "inop")
          /\ outstanding' = outstanding + 1
          /\ wrote' = [wrote EXCEPT ![p] = {}]
       \/ /\ ~Admits
          /\ Goto(p, "asleep")
          /\ UNCHANGED <<outstanding, wrote>>
    /\ UNCHANGED <<disk, mem, lh, committing, boot, tail>>

\* Somebody kills a process asleep in begin_op(), which looks again.
Kill(p) ==
    /\ pc[p] = "asleep"
    /\ Goto(p, "begin")
    /\ UNCHANGED <<disk, mem, lh, outstanding, committing, wrote, boot, tail>>

\* log.lh once block b is recorded: absorbed if it is there already.
Twice(b)    == Append(lh, b)                \* mutant: no absorption
Recorded(b) == IF b \in Logged(lh) THEN lh ELSE Append(lh, b)

\* log_write() panics: "too big a transaction".
TooBig == Len(lh) >= LOGSIZE \/ Len(lh) >= NLOG - 1

\* A call changes a block it has locked in the cache and log_write()s it.
LogWrite(p, b, v) ==
    /\ pc[p] = "inop"
    /\ Cardinality(wrote[p] \cup {b}) <= OpBlocks
    /\ ~TooBig
    /\ mem'   = [mem EXCEPT ![b] = v]
    /\ lh'    = Recorded(b)
    /\ wrote' = [wrote EXCEPT ![p] = @ \cup {b}]
    /\ UNCHANGED <<disk, outstanding, committing, pc, boot, tail>>

\* end_op(): the last one out commits, any other wakes those who wait for room.
EndOp(p) ==
    /\ pc[p] = "inop"
    /\ outstanding' = outstanding - 1
    /\ IF outstanding = 1
       THEN committing' = TRUE /\ Goto(p, "commit")
       ELSE committing' = committing /\ pc' = [Woken EXCEPT ![p] = "idle"]
    /\ wrote' = [wrote EXCEPT ![p] = {}]
    /\ UNCHANGED <<disk, mem, lh, boot, tail>>

-----------------------------------------------------------------------------
(***************************************************************************)
(* commit(), one step per disk write, without log.lock.                    *)
(***************************************************************************)
HeadFirst == "writehead"                    \* mutant: header before the blocks
LogFirst  == "writelog"

CommitStart(p) ==
    /\ pc[p] = "commit"
    /\ Goto(p, IF lh = <<>> THEN "done" ELSE LogFirst)
    /\ tail' = 1
    /\ UNCHANGED <<disk, mem, lh, outstanding, committing, wrote, boot>>

\* write_log(): the next modified block from the cache to the log.
WriteLog(p) ==
    /\ pc[p] = "writelog"
    /\ logblk' = [logblk EXCEPT ![tail] = mem[lh[tail]]]
    /\ tail'   = IF tail = Len(lh) THEN 1 ELSE tail + 1
    /\ Goto(p, IF tail = Len(lh) THEN "writehead" ELSE "writelog")
    /\ UNCHANGED <<home, head, mem, lh, outstanding, committing, wrote, boot>>

\* write_head(): the true point at which the transaction commits.
WriteHead(p) ==
    /\ pc[p] = "writehead"
    /\ head' = lh
    /\ Goto(p, "install")
    /\ UNCHANGED <<home, logblk, mem, lh, outstanding, committing, wrote, boot, tail>>

\* install_trans(): the next log block to its home location.
Installed == [home EXCEPT ![lh[tail]] = logblk[tail]]

Install(p) ==
    /\ pc[p] = "install"
    /\ home' = Installed
    /\ tail' = IF tail = Len(lh) THEN 1 ELSE tail + 1
    /\ Goto(p, IF tail = Len(lh) THEN "erase" ELSE "install")
    /\ UNCHANGED <<logblk, head, mem, lh, outstanding, committing, wrote, boot>>

\* log.lh.n = 0; write_head()
Erase(p) ==
    /\ pc[p] = "erase"
    /\ lh'   = <<>>
    /\ head' = <<>>
    /\ Goto(p, "done")
    /\ UNCHANGED <<home, logblk, mem, outstanding, committing, wrote, boot, tail>>

\* end_op() again, with log.lock: let the others in.
CommitDone(p) ==
    /\ pc[p] = "done"
    /\ committing' = FALSE
    /\ pc' = [Woken EXCEPT ![p] = "idle"]
    /\ UNCHANGED <<disk, mem, lh, outstanding, wrote, boot, tail>>

-----------------------------------------------------------------------------
(***************************************************************************)
(* Crash and recovery (initlog, recover_from_log).                         *)
(***************************************************************************)

\* The machine stops; only the disk is left.  It may stop during recovery.
Crash ==
    /\ lh' = <<>>
    /\ outstanding' = 0 /\ committing' = FALSE
    /\ pc'    = [p \in Procs |-> "idle"]
    /\ wrote' = [p \in Procs |-> {}]
    /\ boot' = "readhead"
    /\ tail' = 1
    /\ mem' = home
    /\ UNCHANGED disk

EraseEarly == "erase"                       \* mutant: recovery installs nothing
InstallNext == "install"

ReadHead ==
    /\ boot = "readhead"
    /\ lh' = head
    /\ tail' = 1
    /\ boot' = IF head = <<>> THEN "erase" ELSE InstallNext
    /\ UNCHANGED <<disk, mem, outstanding, committing, pc, wrote>>

RecoverInstall ==
    /\ boot = "install"
    /\ home' = Installed
    /\ mem'  = home'
    /\ tail' = IF tail = Len(lh) THEN 1 ELSE tail + 1
    /\ boot' = IF tail = Len(lh) THEN "erase" ELSE "install"
    /\ UNCHANGED <<logblk, head, lh, outstanding, committing, pc, wrote>>

RecoverErase ==
    /\ boot = "erase"
    /\ lh'   = <<>>
    /\ head' = <<>>
    /\ boot' = "up"
    /\ UNCHANGED <<home, logblk, mem, outstanding, committing, pc, wrote, tail>>

-----------------------------------------------------------------------------
CommitStep(p) ==
    \/ CommitStart(p) \/ WriteLog(p) \/ WriteHead(p)
    \/ Install(p) \/ Erase(p) \/ CommitDone(p)

Recover == ReadHead \/ RecoverInstall \/ RecoverErase

Next ==
    \/ \E p \in Procs : BeginOp(p) \/ Kill(p) \/ EndOp(p) \/ CommitStep(p)
    \/ \E p \in Procs, b \in Blocks, v \in Vals : LogWrite(p, b, v)
    \/ Crash \/ Recover

Spec == Init /\ [][Next]_vars

(***************************************************************************)
(* Fairness: the kernel code of a call goes on, and a call ends; a process *)
(* woken in begin_op() runs again.  Nobody has to start a call, and nobody *)
(* has to crash; recovery goes on.                                         *)
(***************************************************************************)
FairSpec ==
    /\ Spec
    /\ \A p \in Procs :
          /\ WF_vars(CommitStep(p)) /\ WF_vars(EndOp(p))
          /\ WF_vars(pc[p] = "begin" /\ BeginOp(p))
    /\ WF_vars(Recover)
=============================================================================
