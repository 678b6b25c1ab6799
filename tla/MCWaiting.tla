----------------------------- MODULE MCWaiting ------------------------------
(***************************************************************************)
(* Whoever waits goes on: the liveness of a pipe, the log and the buffer   *)
(* cache, side by side.  The first state chooses one of them; the others   *)
(* stand still in their initial state.                                     *)
(***************************************************************************)
EXTENDS LogProps

CONSTANTS p1, p2, p3, n1, n2, n3, n4, n5, none

Users == {p1, p2, p3}

VARIABLE part
VARIABLES pipe_data, pipe_nread, pipe_nwrite, pipe_readopen, pipe_writeopen, pipe_freed,
    pipe_lk, pipe_ptlk, pipe_pc, pipe_op, pipe_todo, pipe_want, pipe_ret, pipe_killed,
    pipe_rd, pipe_wr
VARIABLES cache_blk, cache_refcnt, cache_valid, cache_dirty, cache_data, cache_holder,
    cache_lru, cache_queue, cache_cmd, cache_disk, cache_pc, cache_cur, cache_held,
    cache_got

Pip == INSTANCE PipeProps WITH
    Procs <- Users, NoProc <- none, PIPESIZE <- 2, W <- 4, Readers <- {p1}, Writers <-
    {p2, p3}, Bufs <- {<<n1, n2, n3>>}, Counts <- {2}, Killable <- {},
    data <- pipe_data, nread <- pipe_nread, nwrite <- pipe_nwrite, readopen <-
    pipe_readopen, writeopen <- pipe_writeopen, freed <- pipe_freed, lk <- pipe_lk, ptlk
    <- pipe_ptlk, pc <- pipe_pc, op <- pipe_op, todo <- pipe_todo, want <- pipe_want,
    ret <- pipe_ret, killed <- pipe_killed, rd <- pipe_rd, wr <- pipe_wr
Cch == INSTANCE BufferCacheProps WITH
    Procs <- {p1, p2}, NoProc <- none, Bufs <- {n1, n2}, NoBuf <- none, Blocks <- {n3, n4},
    NoBlock <- none, Nests <- {<<n3, n4>>}, Vals <- {0}, Zero <- 0, MaxHeld <- 2,
    MaxPinned <- 1,
    blk <- cache_blk, refcnt <- cache_refcnt, valid <- cache_valid, dirty <-
    cache_dirty, data <- cache_data, holder <- cache_holder, lru <- cache_lru, queue <-
    cache_queue, cmd <- cache_cmd, disk <- cache_disk, pc <- cache_pc, cur <- cache_cur,
    held <- cache_held, got <- cache_got

pipeVars == <<pipe_data, pipe_nread, pipe_nwrite, pipe_readopen, pipe_writeopen,
    pipe_freed, pipe_lk, pipe_ptlk, pipe_pc, pipe_op, pipe_todo, pipe_want, pipe_ret,
    pipe_killed, pipe_rd, pipe_wr>>
cacheVars == <<cache_blk, cache_refcnt, cache_valid, cache_dirty, cache_data,
    cache_holder, cache_lru, cache_queue, cache_cmd, cache_disk, cache_pc, cache_cur,
    cache_held, cache_got>>

AnOrder == CHOOSE o \in SUBSET ({n1, n2} \X {n1, n2}) : Cch!IsOrder(o)

WaitingInit ==
    /\ part \in {"pipe", "log", "cache"}
    /\ Pip!Init /\ Init /\ Cch!Init
    /\ part # "cache" => cache_lru = AnOrder

WaitingNext ==
    /\ UNCHANGED part
    /\ IF part = "pipe" THEN Pip!Next ELSE UNCHANGED pipeVars
    /\ IF part = "log" THEN Next ELSE UNCHANGED vars
    /\ IF part = "cache" THEN Cch!Next ELSE UNCHANGED cacheVars

waitingVars == <<part, pipeVars, vars, cacheVars>>

\* The fairness of each FairSpec, while its part is the one that runs.
PipeFair ==
    \A p \in Users :
        /\ SF_pipeVars(part = "pipe" /\ Pip!Kernel(p))
        /\ WF_pipeVars(part = "pipe" /\ Pip!Exits(p))

LogFair ==
    /\ \A p \in Users :
          /\ WF_vars(part = "log" /\ CommitStep(p))
          /\ WF_vars(part = "log" /\ EndOp(p))
          /\ WF_vars(part = "log" /\ pc[p] = "begin" /\ BeginOp(p))
    /\ WF_vars(part = "log" /\ Recover)

CacheFair ==
    /\ WF_cacheVars(part = "cache" /\ Cch!Ideintr)
    /\ \A p \in {p1, p2} :
          /\ WF_cacheVars(part = "cache" /\ Cch!Finish(p))
          /\ SF_cacheVars(part = "cache" /\ Cch!LockBuf(p))
          /\ \A k \in {n1, n2} : SF_cacheVars(part = "cache" /\ Cch!Brelse(p, k))

WaitingSpec ==
    /\ WaitingInit /\ [][WaitingNext]_waitingVars
    /\ PipeFair /\ LogFair /\ CacheFair

-----------------------------------------------------------------------------
\* See the module of each for what these say, and of which code.  NoWedge and NoPanic
\* of LogProps are checked here too: this log is small enough to be filled to its
\* last block.
ReadReturns   == part = "pipe" => Pip!ReadReturns
WriteReleased == part = "pipe" => Pip!WriteReleased
CallsReturn   == part = "cache" => Cch!CallsReturn
=============================================================================
