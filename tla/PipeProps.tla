------------------------------ MODULE PipeProps ------------------------------
(***************************************************************************)
(* What a pipe promises.                                                   *)
(***************************************************************************)
EXTENDS Pipe

Points == {"user", "read", "write", "sleep", "sleep2", "asleep",
           "closeread", "closewrite", "free"}
Waits  == {"read", "write", "sleep", "sleep2", "asleep"}
InPipe(p) == pc[p] \in Points \ {"user", "free"}
InRead(p)  == op[p] = "read"  /\ pc[p] \in {"read", "sleep", "sleep2", "asleep"}
InWrite(p) == op[p] = "write" /\ pc[p] \in {"write", "sleep", "sleep2", "asleep"}

\* The types, and the ring holds at most PIPESIZE bytes.
TypeOK ==
    /\ DOMAIN data = 0 .. PIPESIZE - 1
    /\ nread \in 0 .. W - 1 /\ nwrite \in 0 .. W - 1
    /\ Count <= PIPESIZE
    /\ {readopen, writeopen, freed} \subseteq BOOLEAN
    /\ {lk, ptlk} \subseteq Procs \cup {NoProc}
    /\ pc \in [Procs -> Points]
    /\ op \in [Procs -> {"none", "read", "write"}]
    /\ todo \in [Procs -> Seq(Bytes)]
    /\ want \in [Procs -> Counts \cup {0}]
    /\ killed \in [Procs -> BOOLEAN]
    /\ rd \subseteq Procs /\ wr \subseteq Procs

\* Nobody sleeps for nothing: when p->lock is free, a sleeping writer faces a
\* full ring and an open read end, and a sleeping reader an empty ring and an
\* open write end -- unless a writer was killed, whose failing write() leaves
\* bytes behind without waking the readers (pipe.c:85-88 against 90 and 95).
NoLostWakeup ==
    lk = NoProc =>
        \A p \in Procs : pc[p] = "asleep" =>
            /\ op[p] = "write" => Full /\ readopen
            /\ op[p] = "read"  => writeopen /\ (Empty \/ \E w \in Procs : killed[w])

\* The page of the pipe is freed once, by the second closer, when nobody is in
\* the pipe code or can get there again (pipe.c:70-74, file.c:70-77).
FreedOnce ==
    /\ \A p, r \in Procs : pc[p] = "free" /\ pc[r] = "free" => p = r
    /\ freed => \A p \in Procs : pc[p] # "free"
    /\ freed \/ (\E p \in Procs : pc[p] = "free") =>
          rd = {} /\ wr = {} /\ \A p \in Procs : ~InPipe(p)

\* Who may be where.  A flag of struct pipe is set as long as a process holds that
\* end or is on its way to clear it, one process does so, and one of them frees
\* the page; a call is made by a holder of the end (file.c:56-74, pipe.c:59-75).
Closing(w) == {p \in Procs : pc[p] = w}
EndsInv ==
    /\ readopen  <=> rd # {} \/ Closing("closeread") # {}
    /\ writeopen <=> wr # {} \/ Closing("closewrite") # {}
    /\ \A w \in {"closeread", "closewrite", "free"} :
          \A p, r \in Closing(w) : p = r
    /\ Closing("closeread") # {} => rd = {}
    /\ Closing("closewrite") # {} => wr = {}
    /\ freed \/ Closing("free") # {} => ~readopen /\ ~writeopen
    /\ freed => Closing("free") = {}
    /\ \A p \in Procs :
          /\ pc[p] \in {"read", "write"} => op[p] = pc[p]
          /\ pc[p] \in Waits <=> op[p] # "none"
          /\ op[p] = "read" => p \in rd
          /\ op[p] = "write" => p \in wr

\* Why a process that decided to sleep must: nothing changes the ring from the
\* test until ptable.lock is released, whichever of the two locks covers it
\* (pipe.c:85-91, 106-111, proc.c:428-440).
MustWait(p) ==
    /\ op[p] = "write" => Full /\ readopen
    /\ op[p] = "read"  => writeopen /\ (Empty \/ \E w \in Procs : killed[w])
SleepInv ==
    \A p \in Procs :
        /\ pc[p] = "sleep" <=> lk = p
        /\ pc[p] = "sleep2" <=> ptlk = p
        /\ pc[p] \in {"sleep", "sleep2", "asleep"} => MustWait(p)

PipeIInv == TypeOK /\ EndsInv /\ SleepInv

\* The ring, the counters and the sleeping make a first-in first-out stream.
Stream == INSTANCE ByteStream WITH
    Size  <- PIPESIZE,
    q     <- [i \in 1 .. Count |-> Byte(i)],
    ropen <- readopen,
    wopen <- writeopen
StreamSpec == Stream!SSpec

-----------------------------------------------------------------------------
(***************************************************************************)
(* Liveness, under FairSpec.                                               *)
(***************************************************************************)

\* A read() with something to return, bytes or end of file, returns, or another
\* reader gets there first (pipe.c:95, 65, 106-120).
ReadReturns ==
    \A p \in Procs :
        InRead(p) /\ ReadWaits = FALSE ~> ~InRead(p) \/ ReadWaits

\* Closing the last read end lets every write() out (pipe.c:67-68, 86-88).
WriteReleased ==
    \A p \in Procs : InWrite(p) /\ ~readopen ~> ~InWrite(p)

\* kill() wakes the process if it sleeps (proc.c:488), so a read() or write()
\* on a pipe of a killed process comes to an end.
KilledLeaves ==
    \A p \in Procs : killed[p] /\ (InRead(p) \/ InWrite(p)) ~> pc[p] = "user"
=============================================================================
