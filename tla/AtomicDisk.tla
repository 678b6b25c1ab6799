----------------------------- MODULE AtomicDisk -----------------------------
(***************************************************************************)
(* What log.c promises the file system: the blocks change in groups of     *)
(* whole operations.  A crash takes the disk back to the last commit, and  *)
(* a commit happens only when no operation is in progress, so no operation *)
(* is ever on disk in part.                                                *)
(***************************************************************************)
CONSTANTS Procs, Blocks, Vals

VARIABLES
    cur,      \* what the blocks hold for whoever reads them now
    durable,  \* what they hold after a crash
    active    \* the processes between begin_op() and end_op()

avars == <<cur, durable, active>>

AInit ==
    /\ cur \in [Blocks -> Vals]
    /\ durable = cur
    /\ active = {}

ABegin(p) ==
    /\ p \notin active
    /\ active' = active \cup {p}
    /\ UNCHANGED <<cur, durable>>

AWrite(p, b, v) ==
    /\ p \in active
    /\ cur' = [cur EXCEPT ![b] = v]
    /\ UNCHANGED <<durable, active>>

AEnd(p) ==
    /\ p \in active
    /\ active' = active \ {p}
    /\ UNCHANGED <<cur, durable>>

ACommit ==
    /\ active = {}
    /\ durable' = cur
    /\ UNCHANGED <<cur, active>>

ACrash ==
    /\ cur' = durable
    /\ active' = {}
    /\ UNCHANGED durable

ANext ==
    \/ \E p \in Procs : ABegin(p) \/ AEnd(p)
    \/ \E p \in Procs, b \in Blocks, v \in Vals : AWrite(p, b, v)
    \/ ACommit \/ ACrash

ASpec == AInit /\ [][ANext]_avars
=============================================================================
