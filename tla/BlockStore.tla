----------------------------- MODULE BlockStore -----------------------------
(***************************************************************************)
(* What the buffer cache promises: every block is a register with a lock.  *)
(* One process at a time has a block, bread() gives it what was last put   *)
(* there, and where the contents are kept makes no difference.             *)
(***************************************************************************)
CONSTANTS Procs, NoProc, Blocks, Vals, Zero

VARIABLES
    cur,     \* block -> contents
    owner,   \* block -> the process that has it
    got      \* process -> what its last bread() returned

bvars == <<cur, owner, got>>

BInit ==
    /\ cur   = [n \in Blocks |-> Zero]
    /\ owner = [n \in Blocks |-> NoProc]
    /\ got   = [p \in Procs |-> Zero]

BTake(p, n) ==
    /\ owner[n] = NoProc
    /\ owner' = [owner EXCEPT ![n] = p]
    /\ UNCHANGED cur

\* A process gets a block at once, or has to wait for the contents.
BGet(p, n)  == BTake(p, n) /\ got' = [got EXCEPT ![p] = cur[n]]
BWait(p, n) == BTake(p, n) /\ UNCHANGED got
BRead(p, n) ==
    /\ owner[n] = p
    /\ got' = [got EXCEPT ![p] = cur[n]]
    /\ UNCHANGED <<cur, owner>>

BPut(p, n, v) ==
    /\ owner[n] = p
    /\ cur' = [cur EXCEPT ![n] = v]
    /\ UNCHANGED <<owner, got>>

BFree(p, n) ==
    /\ owner[n] = p
    /\ owner' = [owner EXCEPT ![n] = NoProc]
    /\ UNCHANGED <<cur, got>>

BNext ==
    \E p \in Procs, n \in Blocks :
        \/ BGet(p, n) \/ BWait(p, n) \/ BRead(p, n) \/ BFree(p, n)
        \/ \E v \in Vals : BPut(p, n, v)

BSpec == BInit /\ [][BNext]_bvars
=============================================================================
