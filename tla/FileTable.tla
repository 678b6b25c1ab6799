----------------------------- MODULE FileTable ------------------------------
(***************************************************************************)
(* Open files: ftable and its reference counts (file.c), the descriptors   *)
(* of processes, and the calls that make and drop references: open, pipe,  *)
(* dup, close, fork and exit (sysfile.c, pipe.c, proc.c), with everything  *)
(* that may run out half way.                                              *)
(*                                                                         *)
(* ofile belongs to its process, so only the steps under ftable.lock, the  *)
(* lock of the pipe and that of the page allocator are told apart.         *)
(***************************************************************************)
EXTENDS Integers, Sequences, FiniteSets

CONSTANTS
    Users,            \* processes
    Files, NoFile,    \* ftable.file
    Fds,              \* 0 .. NOFILE-1
    Pages,            \* pages a pipe can be in
    Inodes            \* inodes that can be opened

ASSUME FileTableAssumption ==
    /\ NoFile \notin Files /\ Users \cap Files = {}
    /\ IsFiniteSet(Users) /\ IsFiniteSet(Files)
    /\ IsFiniteSet(Fds) /\ Fds = 0 .. Cardinality(Fds) - 1

VARIABLES
    fref,             \* of struct file: ref,
    what,             \* and type, pipe or ip, writable
    ofile, live,      \* of each process
    ends,             \* page -> ends of the pipe in it that are open; none when free
    iref,             \* references to inodes taken by open()
    job               \* the call a process is in

ftvars == <<fref, what, ofile, live, ends, iref, job>>

Nothing   == [type |-> "none"]
PipeEnd(g, e) == [type |-> "pipe", page |-> g, end |-> e]
Inode(i)  == [type |-> "inode", ip |-> i]

\* at: the point reached; new: files allocated by this call, not in ofile yet;
\* ip: the inode open() holds; drop: files to fileclose(); last: what the file
\* was that fileclose() has just freed.
User == [at |-> "user", new |-> <<>>, ip |-> {}, drop |-> <<>>, last |-> Nothing]

NoneOpen ==
    /\ fref  = [f \in Files |-> 0]
    /\ what  = [f \in Files |-> Nothing]
    /\ ofile = [p \in Users |-> [d \in Fds |-> NoFile]]
    /\ ends  = [g \in Pages |-> {}]
    /\ iref  = [i \in Inodes |-> 0]
    /\ job   = [p \in Users |-> User]

FTInit == NoneOpen /\ \E p \in Users : live = {p}

-----------------------------------------------------------------------------
FreeFds(p) == {d \in Fds : ofile[p][d] = NoFile}

\* fdalloc() takes the lowest.
Lowest(S)  == CHOOSE d \in S : \A e \in S : d <= e
Fdalloc(p, f) == ofile' = [ofile EXCEPT ![p][Lowest(FreeFds(p))] = f]

\* filealloc()
Filealloc(f) == fref[f] = 0 /\ fref' = [fref EXCEPT ![f] = 1]
NoneFree     == \A f \in Files : fref[f] # 0

Ready(p) == p \in live /\ job[p].at = "user"
At(p, w) == job[p].at = w /\ job[p].drop = <<>> /\ job[p].last = Nothing
Go(p, w) == job' = [job EXCEPT ![p].at = w]
Drop(p, s) == job' = [job EXCEPT ![p].at = "end", ![p].new = <<>>, ![p].drop = s]

-----------------------------------------------------------------------------
\* fileclose() of the next file: give the reference back, and with the last one
\* free the file before what it stands for is closed.
Stale(f)   == what[f]                       \* mutant: type is not reset
Cleared(f) == Nothing

FilecloseRef(p) ==
    /\ job[p].drop # <<>> /\ job[p].last = Nothing
    /\ LET f == Head(job[p].drop) IN
          /\ fref[f] >= 1
          /\ fref' = [fref EXCEPT ![f] = @ - 1]
          /\ what' = IF fref[f] = 1 THEN [what EXCEPT ![f] = Cleared(f)] ELSE what
          /\ job'  = [job EXCEPT ![p].drop = Tail(@),
                                 ![p].last = IF fref[f] = 1 THEN what[f] ELSE Nothing]
    /\ UNCHANGED <<ofile, live, ends, iref>>

\* pipeclose(): the page goes with the second end.
FileclosePipe(p) ==
    /\ job[p].last.type = "pipe"
    /\ ends' = [ends EXCEPT ![job[p].last.page] = @ \ {job[p].last.end}]
    /\ job'  = [job EXCEPT ![p].last = Nothing]
    /\ UNCHANGED <<fref, what, ofile, live, iref>>

FilecloseInode(p) ==
    /\ job[p].last.type = "inode"
    /\ iref' = [iref EXCEPT ![job[p].last.ip] = @ - 1]
    /\ job'  = [job EXCEPT ![p].last = Nothing]
    /\ UNCHANGED <<fref, what, ofile, live, ends>>

\* The call returns; open() that failed has its inode to put.
CallEnds(p) ==
    /\ At(p, "end")
    /\ iref' = [i \in Inodes |-> IF i \in job[p].ip THEN iref[i] - 1 ELSE iref[i]]
    /\ job'  = [job EXCEPT ![p] = User]
    /\ UNCHANGED <<fref, what, ofile, live, ends>>

-----------------------------------------------------------------------------
\* sys_pipe(), pipealloc(): two files and a page.
PipeStart(p) ==
    /\ Ready(p)
    /\ Go(p, "pipe")
    /\ UNCHANGED <<fref, what, ofile, live, ends, iref>>

PipeFile(p) ==
    /\ At(p, "pipe") /\ Len(job[p].new) < 2
    /\ \/ \E f \in Files :
             Filealloc(f) /\ job' = [job EXCEPT ![p].new = Append(@, f)]
       \/ NoneFree /\ Drop(p, job[p].new) /\ UNCHANGED fref
    /\ UNCHANGED <<what, ofile, live, ends, iref>>

PipeNoPage(p) ==
    /\ At(p, "pipe") /\ Len(job[p].new) = 2
    /\ Drop(p, job[p].new)
    /\ UNCHANGED <<fref, what, ofile, live, ends, iref>>

\* The page is there; then two descriptors, or none.
Fit(p, n) == Cardinality(FreeFds(p)) >= n

PipeMade(p) ==
    /\ At(p, "pipe") /\ Len(job[p].new) = 2
    /\ LET rf == job[p].new[1]
           wf == job[p].new[2]
           d0 == Lowest(FreeFds(p))
           d1 == Lowest(FreeFds(p) \ {d0})
       IN
       /\ \E g \in Pages :
             /\ ends[g] = {}
             /\ ends' = [ends EXCEPT ![g] = {"r", "w"}]
             /\ what' = [what EXCEPT ![rf] = PipeEnd(g, "r"), ![wf] = PipeEnd(g, "w")]
       /\ IF Fit(p, 2)
          THEN /\ ofile' = [ofile EXCEPT ![p][d0] = rf, ![p][d1] = wf]
               /\ Drop(p, <<>>)
          ELSE Drop(p, job[p].new) /\ UNCHANGED ofile
    /\ UNCHANGED <<fref, live, iref>>

-----------------------------------------------------------------------------
\* sys_open(): the inode, then a file and a descriptor; end_op() may sleep before
\* the file is filled in.
OpenStart(p, i) ==
    /\ Ready(p)
    /\ iref' = [iref EXCEPT ![i] = @ + 1]
    /\ job'  = [job EXCEPT ![p].at = "open", ![p].ip = {i}]
    /\ UNCHANGED <<fref, what, ofile, live, ends>>

OpenFile(p) ==
    /\ At(p, "open")
    /\ \/ \E f \in Files :
             /\ Filealloc(f)
             /\ IF Fit(p, 1)
                THEN Fdalloc(p, f) /\ job' = [job EXCEPT ![p].at = "opened", ![p].new = <<f>>]
                ELSE Drop(p, <<f>>) /\ UNCHANGED ofile
       \/ NoneFree /\ Drop(p, <<>>) /\ UNCHANGED <<fref, ofile>>
    /\ UNCHANGED <<what, live, ends, iref>>

OpenFill(p) ==
    /\ At(p, "opened")
    /\ what' = [what EXCEPT ![job[p].new[1]] = Inode(CHOOSE i \in job[p].ip : TRUE)]
    /\ job'  = [job EXCEPT ![p] = User]
    /\ UNCHANGED <<fref, ofile, live, ends, iref>>

-----------------------------------------------------------------------------
\* sys_dup(): fdalloc(), filedup().
Dup(p, d) ==
    /\ Ready(p) /\ ofile[p][d] # NoFile /\ Fit(p, 1)
    /\ Fdalloc(p, ofile[p][d])
    /\ fref' = [fref EXCEPT ![ofile[p][d]] = @ + 1]
    /\ UNCHANGED <<what, live, ends, iref, job>>

Close(p, d) ==
    /\ Ready(p) /\ ofile[p][d] # NoFile
    /\ ofile' = [ofile EXCEPT ![p][d] = NoFile]
    /\ Drop(p, <<ofile[p][d]>>)
    /\ UNCHANGED <<fref, what, live, ends, iref>>

Holds(p, f) == Cardinality({d \in Fds : ofile[p][d] = f})

\* fork(): filedup() of every descriptor, while the parent keeps them open.
Once(p, f)   == IF Holds(p, f) > 0 THEN 1 ELSE 0    \* mutant: one for each file
Shared(p, f) == Holds(p, f)

Fork(p, q) ==
    /\ Ready(p) /\ q \notin live /\ job[q] = User
    /\ live'  = live \cup {q}
    /\ fref'  = [f \in Files |-> fref[f] + Shared(p, f)]
    /\ ofile' = [ofile EXCEPT ![q] = ofile[p]]
    /\ UNCHANGED <<what, ends, iref, job>>

\* exit() closes what is open, lowest descriptor first.
Exit(p) ==
    /\ Ready(p)
    /\ Go(p, "exit")
    /\ UNCHANGED <<fref, what, ofile, live, ends, iref>>

ExitClose(p) ==
    /\ At(p, "exit") /\ FreeFds(p) # Fds
    /\ LET d == Lowest(Fds \ FreeFds(p)) IN
          /\ ofile' = [ofile EXCEPT ![p][d] = NoFile]
          /\ job'   = [job EXCEPT ![p].drop = <<ofile[p][d]>>]
    /\ UNCHANGED <<fref, what, live, ends, iref>>

Exited(p) ==
    /\ At(p, "exit") /\ FreeFds(p) = Fds
    /\ live' = live \ {p}
    /\ job'  = [job EXCEPT ![p] = User]
    /\ UNCHANGED <<fref, what, ofile, ends, iref>>

-----------------------------------------------------------------------------
FTNext ==
    \E p \in Users :
       \/ FilecloseRef(p) \/ FileclosePipe(p) \/ FilecloseInode(p) \/ CallEnds(p)
       \/ PipeStart(p) \/ PipeFile(p) \/ PipeNoPage(p) \/ PipeMade(p)
       \/ \E i \in Inodes : OpenStart(p, i)
       \/ OpenFile(p) \/ OpenFill(p)
       \/ \E d \in Fds : Dup(p, d) \/ Close(p, d)
       \/ \E q \in Users : Fork(p, q)
       \/ Exit(p) \/ ExitClose(p) \/ Exited(p)

FTSpec == FTInit /\ [][FTNext]_ftvars
=============================================================================
