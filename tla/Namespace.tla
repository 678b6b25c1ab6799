----------------------------- MODULE Namespace -----------------------------
(***************************************************************************)
(* Inodes, directories and path names: the inode cache (iget, ilock, iput),*)
(* ialloc, dirlookup, dirlink, namex (fs.c) and the system calls that edit *)
(* directories (sysfile.c), each call in a transaction of the log, and a   *)
(* crash at any point.                                                     *)
(*                                                                         *)
(* An inode on disk and its copy in the cache are one here: the cache is   *)
(* write-through, and both change under the inode's sleep lock.  What a    *)
(* process does while it holds that lock and takes no other is one action. *)
(* A panic() is a step that is missing.                                    *)
(***************************************************************************)
EXTENDS Integers, Sequences, FiniteSets

CONSTANTS
    Procs, NoProc,
    Inodes, Root, NoInode,
    Names,            \* what directory entries are called
    Sessions          \* sets of requests [call, path, new]; new is link()'s second path

Dots == {".", ".."}

NoPath  == [abs |-> FALSE, elems |-> <<>>]
Path    == [abs : BOOLEAN, elems : Seq(Names \cup Dots)]
Calls   == {"open", "creat", "mkdir", "mknod", "link", "unlink", "chdir", "close"}

ASSUME NamespaceAssumption ==
    /\ NoProc \notin Procs /\ NoInode \notin Inodes /\ Root \in Inodes
    /\ Names \cap Dots = {}
    /\ IsFiniteSet(Procs) /\ IsFiniteSet(Inodes) /\ IsFiniteSet(Names)
    /\ \A r \in UNION Sessions : r.call \in Calls /\ r.path \in Path /\ r.new \in Path

VARIABLES
    type, nlink,      \* of struct dinode
    ents,             \* directory -> name -> inode
    up,               \* directory -> its entry ".."
    stray,            \* an entry has been made in a directory that was removed
    durable,          \* what the log has committed of these five
    ref, valid, lock, \* of struct inode
    cwd, open,        \* of each process; one open file at a time
    act,              \* the call a process is in
    session           \* what the programs of this behaviour ask for

fsVars    == <<type, nlink, ents, up, stray>>
cacheVars == <<ref, valid, lock>>
ofileVars == <<cwd, open>>
vars      == <<fsVars, durable, cacheVars, ofileVars, act, session>>

NoEnts == [n \in Names |-> NoInode]
Volume == [type |-> type, nlink |-> nlink, ents |-> ents, up |-> up, stray |-> stray]

\* at: the point reached; ip, dp, src: the inodes it works on; puts: what it still
\* has to iput() before it goes on; half: iput() has released the lock of the
\* first of them and not yet the reference.
Idle ==
    [at |-> "user", call |-> "none", path |-> <<>>, new |-> <<>>, ip |-> NoInode,
     dp |-> NoInode, src |-> NoInode, puts |-> <<>>, half |-> FALSE]

\* What mkfs makes: an empty root directory.
Init ==
    /\ type  = [i \in Inodes |-> IF i = Root THEN "dir" ELSE "free"]
    /\ nlink = [i \in Inodes |-> IF i = Root THEN 1 ELSE 0]
    /\ ents  = [i \in Inodes |-> NoEnts]
    /\ up    = [i \in Inodes |-> IF i = Root THEN Root ELSE NoInode]
    /\ stray = FALSE
    /\ durable = Volume
    /\ ref   = [i \in Inodes |-> IF i = Root THEN Cardinality(Procs) ELSE 0]
    /\ valid = [i \in Inodes |-> FALSE]
    /\ lock  = [i \in Inodes |-> NoProc]
    /\ cwd   = [p \in Procs |-> Root]
    /\ open  = [p \in Procs |-> NoInode]
    /\ act   = [p \in Procs |-> Idle]
    /\ session \in Sessions

-----------------------------------------------------------------------------
(***************************************************************************)
(* The inode cache.  An entry without references holds no inode: the next  *)
(* iget() takes it over, not valid.                                        *)
(***************************************************************************)

\* iget(), idup()
Iget(i) == ref' = [ref EXCEPT ![i] = @ + 1]

\* ilock() waits for the lock of i; it panics on an inode without a type.
Ilock(i) == lock[i] = NoProc /\ type[i] # "free"
Read(i)  == valid' = [valid EXCEPT ![i] = TRUE]

At(p, w) == act[p].at = w /\ act[p].puts = <<>>

\* The call has only iput()s of s and end_op() left.
Finish(p, s) == act' = [act EXCEPT ![p] = [Idle EXCEPT !.at = "end", !.puts = s]]

\* The last user of a file without links frees it.
Unlinked(i)  == valid[i] /\ nlink[i] = 0    \* mutant: whoever else has it open
LastUser(i)  == valid[i] /\ nlink[i] = 0 /\ ref[i] = 1

\* iput(), with the lock of the inode: free it if this is its last user ...
IputLocked(p) ==
    /\ act[p].puts # <<>> /\ ~act[p].half
    /\ LET i == Head(act[p].puts) IN
          /\ lock[i] = NoProc
          /\ IF LastUser(i)
             THEN /\ type'  = [type EXCEPT ![i] = "free"]
                  /\ ents'  = [ents EXCEPT ![i] = NoEnts]
                  /\ up'    = [up EXCEPT ![i] = NoInode]
                  /\ valid' = [valid EXCEPT ![i] = FALSE]
             ELSE UNCHANGED <<type, ents, up, valid>>
    /\ act' = [act EXCEPT ![p].half = TRUE]
    /\ UNCHANGED <<nlink, stray, durable, session, ref, lock, ofileVars>>

\* ... and then, with icache.lock, drop the reference.
IputRef(p) ==
    /\ act[p].half
    /\ LET i == Head(act[p].puts) IN
          /\ ref'   = [ref EXCEPT ![i] = @ - 1]
          /\ valid' = [valid EXCEPT ![i] = @ /\ ref[i] > 1]
    /\ act' = [act EXCEPT ![p].puts = Tail(@), ![p].half = FALSE]
    /\ UNCHANGED <<fsVars, durable, session, lock, ofileVars>>

-----------------------------------------------------------------------------
(***************************************************************************)
(* Transactions.                                                           *)
(***************************************************************************)

\* namex(): start at the root or in the current directory.
WalkFrom(p, q) == IF q.abs THEN Root ELSE cwd[p]

\* begin_op() and the first steps of a call with a path.
Begin(p, r) ==
    /\ act[p].at = "user" /\ r.call # "close"
    /\ act' = [act EXCEPT ![p] = [Idle EXCEPT
                  !.at = "walk", !.call = r.call, !.path = r.path.elems,
                  !.new = IF r.call = "link" THEN <<r.new>> ELSE <<>>,
                  !.ip = WalkFrom(p, r.path)]]
    /\ Iget(WalkFrom(p, r.path))
    /\ UNCHANGED <<fsVars, durable, session, valid, lock, ofileVars>>

\* close() of an inode: fileclose() is begin_op(), iput(), end_op().
Close(p) ==
    /\ act[p].at = "user" /\ \E r \in session : r.call = "close"
    /\ open[p] # NoInode
    /\ open' = [open EXCEPT ![p] = NoInode]
    /\ Finish(p, <<open[p]>>)
    /\ UNCHANGED <<fsVars, durable, session, cacheVars, cwd>>

\* The other calls in progress; end_op() commits when there is none.
Anyone(p) == {}                             \* mutant: end_op() always commits
Others(p) == {q \in Procs \ {p} : act[q].at # "user"}

End(p) ==
    /\ At(p, "end")
    /\ durable' = IF Others(p) = {} THEN Volume ELSE durable
    /\ act' = [act EXCEPT ![p] = Idle]
    /\ UNCHANGED <<fsVars, cacheVars, ofileVars, session>>

\* The machine stops and starts again: the log brings back what it committed,
\* and everybody starts in the root directory.
Crash ==
    /\ type' = durable.type /\ nlink' = durable.nlink /\ ents' = durable.ents
    /\ up'   = durable.up   /\ stray' = durable.stray
    /\ ref'   = [i \in Inodes |-> IF i = Root THEN Cardinality(Procs) ELSE 0]
    /\ valid' = [i \in Inodes |-> FALSE]
    /\ lock'  = [i \in Inodes |-> NoProc]
    /\ cwd'   = [p \in Procs |-> Root]
    /\ open'  = [p \in Procs |-> NoInode]
    /\ act'   = [p \in Procs |-> Idle]
    /\ UNCHANGED <<durable, session>>

-----------------------------------------------------------------------------
(***************************************************************************)
(* Path names.                                                             *)
(***************************************************************************)

\* dirlookup()
Lookup(d, n) == IF n = "." THEN d ELSE IF n = ".." THEN up[d] ELSE ents[d][n]

\* nameiparent() and not namei(); the last element of the path.
Parent(p) == act[p].call \in {"creat", "mkdir", "mknod", "unlink", "linkto"}
Last(p)   == Head(act[p].path)

\* nameiparent() stops one element before the end.
AtParent(p) == Parent(p) /\ Len(act[p].path) = 1

\* A call that fails ends its transaction; sys_link() first takes back the link.
Fail(p, s) ==
    IF act[p].call = "linkto"
    THEN act' = [act EXCEPT ![p] =
                    [Idle EXCEPT !.at = "bad", !.src = act[p].src, !.puts = s]]
    ELSE Finish(p, s)

\* The loop of namex(): no such name or not a directory ...
WalkFail(p) ==
    /\ At(p, "walk") /\ act[p].path # <<>>
    /\ LET i == act[p].ip IN
          /\ Ilock(i)
          /\ type[i] # "dir" \/ (~AtParent(p) /\ Lookup(i, Last(p)) = NoInode)
          /\ Read(i)
          /\ Fail(p, <<i>>)
    /\ UNCHANGED <<fsVars, durable, session, ref, lock, ofileVars>>

\* ... the directory nameiparent() returns ...
WalkParent(p) ==
    /\ At(p, "walk") /\ act[p].path # <<>>
    /\ LET i == act[p].ip IN
          /\ Ilock(i)
          /\ type[i] = "dir" /\ AtParent(p)
          /\ Read(i)
          /\ act' = [act EXCEPT ![p].at = "parent", ![p].dp = i, ![p].ip = NoInode]
    /\ UNCHANGED <<fsVars, durable, session, ref, lock, ofileVars>>

\* ... or one element further: the next inode is held before this one is let go.
WalkNext(p) ==
    /\ At(p, "walk") /\ act[p].path # <<>>
    /\ LET i == act[p].ip
           j == Lookup(i, Last(p))
       IN
          /\ Ilock(i)
          /\ type[i] = "dir" /\ ~AtParent(p) /\ j # NoInode
          /\ Iget(j)
          /\ Read(i)
          /\ act' = [act EXCEPT ![p].ip = j, ![p].path = Tail(@), ![p].puts = <<i>>]
    /\ UNCHANGED <<fsVars, durable, session, lock, ofileVars>>

\* The path has no element left: nameiparent() fails.
WalkEnd(p) ==
    /\ At(p, "walk") /\ act[p].path = <<>>
    /\ IF Parent(p)
       THEN Fail(p, <<act[p].ip>>)
       ELSE act' = [act EXCEPT ![p].at = "found"]
    /\ UNCHANGED <<fsVars, durable, session, cacheVars, ofileVars>>

-----------------------------------------------------------------------------
(***************************************************************************)
(* open() and create().                                                    *)
(***************************************************************************)

\* sys_open(), with the inode locked: filealloc() and fdalloc() may fail.
TakeFile(p) ==
    \/ /\ open[p] = NoInode
       /\ open' = [open EXCEPT ![p] = act[p].ip]
       /\ Finish(p, <<>>)
    \/ Finish(p, <<act[p].ip>>) /\ UNCHANGED open

\* open() of what is there; for writing it must not be a directory.
OpenFound(p) ==
    /\ At(p, "found") /\ act[p].call = "open"
    /\ Ilock(act[p].ip)
    /\ Read(act[p].ip)
    /\ TakeFile(p)
    /\ UNCHANGED <<fsVars, durable, session, ref, lock, cwd>>

Makes(c) == IF c = "mkdir" THEN "dir" ELSE IF c = "mknod" THEN "dev" ELSE "file"
Creates(p) == At(p, "parent") /\ act[p].call \in {"creat", "mkdir", "mknod"}

\* create() finds the name: it gives the directory back and looks at the inode.
CreateExists(p) ==
    /\ Creates(p)
    /\ Ilock(act[p].dp)
    /\ LET j == Lookup(act[p].dp, Last(p)) IN
          /\ j # NoInode
          /\ Iget(j)
          /\ act' = [act EXCEPT ![p].at = "exists", ![p].ip = j, ![p].dp = NoInode,
                                ![p].path = <<>>, ![p].puts = <<act[p].dp>>]
    /\ UNCHANGED <<fsVars, durable, session, valid, lock, ofileVars>>

Exists(p) ==
    /\ At(p, "exists")
    /\ Ilock(act[p].ip)
    /\ Read(act[p].ip)
    /\ IF act[p].call = "creat" /\ type[act[p].ip] = "file"
       THEN /\ lock' = [lock EXCEPT ![act[p].ip] = p]
            /\ act'  = [act EXCEPT ![p].at = "created"]
       ELSE Finish(p, <<act[p].ip>>) /\ UNCHANGED lock
    /\ UNCHANGED <<fsVars, durable, session, ref, ofileVars>>

\* The links of the directory once an inode of type t is in it: ".." counts.
Forgotten(d, t)  == nlink[d]                \* mutant: dp->nlink++ is missing
DirLinks(d, t)   == nlink[d] + (IF t = "dir" THEN 1 ELSE 0)

\* create() makes inode i, which ialloc() finds free, links it into the directory
\* and gives the directory back while it has the new inode locked.
CreateAs(p, i) ==
    /\ Creates(p)
    /\ LET d == act[p].dp
           t == Makes(act[p].call)
       IN
       /\ Ilock(d)
       /\ Lookup(d, Last(p)) = NoInode
       /\ type[i] = "free" /\ lock[i] = NoProc
       /\ type'  = [type EXCEPT ![i] = t]
       /\ nlink' = [nlink EXCEPT ![i] = 1, ![d] = DirLinks(d, t)]
       /\ ents'  = [ents EXCEPT ![d][Last(p)] = i]
       /\ up'    = [up EXCEPT ![i] = IF t = "dir" THEN d ELSE NoInode]
       /\ stray' = (stray \/ nlink[d] = 0)
       /\ act'   = [act EXCEPT ![p].at = "created", ![p].ip = i, ![p].dp = NoInode,
                               ![p].path = <<>>, ![p].puts = <<d>>]
    /\ Iget(i)
    /\ Read(i)
    /\ lock' = [lock EXCEPT ![i] = p]
    /\ UNCHANGED <<durable, session, ofileVars>>

CreateNew(p) == \E i \in Inodes : CreateAs(p, i)

\* Back in sys_open(), sys_mkdir() or sys_mknod().
Created(p) ==
    /\ At(p, "created")
    /\ lock' = [lock EXCEPT ![act[p].ip] = NoProc]
    /\ IF act[p].call = "creat"
       THEN TakeFile(p)
       ELSE Finish(p, <<act[p].ip>>) /\ UNCHANGED open
    /\ UNCHANGED <<fsVars, durable, session, ref, valid, cwd>>

-----------------------------------------------------------------------------
(***************************************************************************)
(* chdir(), unlink(), link().                                              *)
(***************************************************************************)

Chdir(p) ==
    /\ At(p, "found") /\ act[p].call = "chdir"
    /\ Ilock(act[p].ip)
    /\ Read(act[p].ip)
    /\ IF type[act[p].ip] = "dir"
       THEN Finish(p, <<cwd[p]>>) /\ cwd' = [cwd EXCEPT ![p] = act[p].ip]
       ELSE Finish(p, <<act[p].ip>>) /\ UNCHANGED cwd
    /\ UNCHANGED <<fsVars, durable, session, ref, lock, open>>

\* sys_unlink() finds the entry and goes on with the directory locked.
UnlinkLook(p) ==
    /\ At(p, "parent") /\ act[p].call = "unlink"
    /\ Ilock(act[p].dp)
    /\ LET j == Lookup(act[p].dp, Last(p)) IN
          IF Last(p) \in Dots \/ j = NoInode
          THEN Finish(p, <<act[p].dp>>) /\ UNCHANGED <<ref, lock>>
          ELSE /\ Iget(j)
               /\ lock' = [lock EXCEPT ![act[p].dp] = p]
               /\ act'  = [act EXCEPT ![p].at = "unlink", ![p].ip = j]
    /\ UNCHANGED <<fsVars, durable, session, valid, ofileVars>>

\* isdirempty()
Anything(i) == TRUE                         \* mutant: isdirempty() is not called
Empty(i)    == type[i] = "dir" => ents[i] = NoEnts

\* It erases the entry of a file or of an empty directory, and gives the directory
\* back while it has the inode locked.
Unlink(p) ==
    /\ At(p, "unlink")
    /\ LET i == act[p].ip
           d == act[p].dp
       IN
       /\ Ilock(i) /\ nlink[i] >= 1
       /\ Empty(i)
       /\ ents'  = [ents EXCEPT ![d][Last(p)] = NoInode]
       /\ nlink' = IF type[i] = "dir" THEN [nlink EXCEPT ![d] = @ - 1] ELSE nlink
       /\ Read(i)
       /\ lock'  = [lock EXCEPT ![i] = p, ![d] = NoProc]
       /\ act'   = [act EXCEPT ![p].at = "unlinked", ![p].dp = NoInode,
                               ![p].path = <<>>, ![p].puts = <<d>>]
    /\ UNCHANGED <<type, up, stray, durable, session, ref, ofileVars>>

UnlinkNotEmpty(p) ==
    /\ At(p, "unlink")
    /\ Ilock(act[p].ip) /\ nlink[act[p].ip] >= 1
    /\ ~Empty(act[p].ip)
    /\ Read(act[p].ip)
    /\ act' = [act EXCEPT ![p].at = "refused", ![p].ip = NoInode, ![p].path = <<>>,
                          ![p].puts = <<act[p].ip>>]
    /\ UNCHANGED <<fsVars, durable, session, ref, lock, ofileVars>>

\* The directory is given back; what was asked for is refused.
Refused(p) ==
    /\ At(p, "refused")
    /\ lock' = [lock EXCEPT ![act[p].dp] = NoProc]
    /\ Fail(p, <<act[p].dp>>)
    /\ UNCHANGED <<fsVars, durable, session, ref, valid, ofileVars>>

UnlinkDone(p) ==
    /\ At(p, "unlinked")
    /\ nlink' = [nlink EXCEPT ![act[p].ip] = @ - 1]
    /\ lock'  = [lock EXCEPT ![act[p].ip] = NoProc]
    /\ Finish(p, <<act[p].ip>>)
    /\ UNCHANGED <<type, ents, up, stray, durable, session, ref, valid, ofileVars>>

\* sys_link() counts the link first and looks for the new directory afterwards.
Link(p) ==
    /\ At(p, "found") /\ act[p].call = "link"
    /\ Ilock(act[p].ip)
    /\ Read(act[p].ip)
    /\ LET i == act[p].ip
           q == act[p].new[1]
       IN
       IF type[i] = "dir"
       THEN Finish(p, <<i>>) /\ UNCHANGED <<nlink, ref>>
       ELSE /\ nlink' = [nlink EXCEPT ![i] = @ + 1]
            /\ act'   = [act EXCEPT ![p] = [Idle EXCEPT
                            !.at = "walk", !.call = "linkto", !.src = i,
                            !.path = q.elems, !.ip = WalkFrom(p, q)]]
            /\ Iget(WalkFrom(p, q))
    /\ UNCHANGED <<type, ents, up, stray, durable, session, lock, ofileVars>>

\* dirlink() of the name ...
LinkTo(p) ==
    /\ At(p, "parent") /\ act[p].call = "linkto"
    /\ LET d == act[p].dp IN
          /\ Ilock(d)
          /\ Lookup(d, Last(p)) = NoInode
          /\ ents'  = [ents EXCEPT ![d][Last(p)] = act[p].src]
          /\ stray' = (stray \/ nlink[d] = 0)
          /\ Finish(p, <<d, act[p].src>>)
    /\ UNCHANGED <<type, nlink, up, durable, session, cacheVars, ofileVars>>

\* ... or iput() of what has that name already, with the directory locked.
LinkTaken(p) ==
    /\ At(p, "parent") /\ act[p].call = "linkto"
    /\ LET d == act[p].dp
           j == Lookup(d, Last(p))
       IN
       /\ Ilock(d)
       /\ j # NoInode
       /\ Iget(j)
       /\ lock' = [lock EXCEPT ![d] = p]
       /\ act'  = [act EXCEPT ![p].at = "refused", ![p].path = <<>>, ![p].puts = <<j>>]
    /\ UNCHANGED <<fsVars, durable, session, valid, ofileVars>>

\* bad: take the link back.
LinkBad(p) ==
    /\ At(p, "bad")
    /\ Ilock(act[p].src)
    /\ nlink' = [nlink EXCEPT ![act[p].src] = @ - 1]
    /\ Finish(p, <<act[p].src>>)
    /\ UNCHANGED <<type, ents, up, stray, durable, session, cacheVars, ofileVars>>

-----------------------------------------------------------------------------
Iput(p)    == IputLocked(p) \/ IputRef(p)
Namex(p)   == WalkFail(p) \/ WalkParent(p) \/ WalkNext(p) \/ WalkEnd(p)
Create(p)  == CreateExists(p) \/ Exists(p) \/ CreateNew(p) \/ Created(p)
SysUnlink(p) == UnlinkLook(p) \/ Unlink(p) \/ UnlinkNotEmpty(p) \/ UnlinkDone(p)
SysLink(p) == Link(p) \/ LinkTo(p) \/ LinkTaken(p) \/ LinkBad(p)

Step(p) ==
    \/ \E r \in session : Begin(p, r)
    \/ Close(p) \/ End(p)
    \/ Iput(p) \/ Namex(p) \/ Create(p) \/ OpenFound(p) \/ Chdir(p)
    \/ SysUnlink(p) \/ SysLink(p) \/ Refused(p)

Next == (\E p \in Procs : Step(p)) \/ Crash

Spec == Init /\ [][Next]_vars
=============================================================================
