--------------------------- MODULE NamespaceProps ---------------------------
(***************************************************************************)
(* What inodes, link counts and names promise.                             *)
(***************************************************************************)
EXTENDS Namespace

Types  == {"free", "file", "dir", "dev"}
Points == {"user", "walk", "found", "parent", "exists", "created", "unlink",
           "unlinked", "refused", "bad", "end"}
Some   == Inodes \cup {NoInode}
VolumeType ==
    [type : [Inodes -> Types], nlink : [Inodes -> Nat],
     ents : [Inodes -> [Names -> Some]], up : [Inodes -> Some], stray : BOOLEAN]

CallType ==
    [at : Points, call : Calls \cup {"none", "linkto"}, path : Seq(Names \cup Dots),
     new : Seq(Path), ip : Some, dp : Some, src : Some, puts : Seq(Inodes),
     half : BOOLEAN]

TypeOK ==
    /\ Volume \in VolumeType /\ durable \in VolumeType
    /\ ref \in [Inodes -> Nat] /\ valid \in [Inodes -> BOOLEAN]
    /\ lock \in [Inodes -> Procs \cup {NoProc}]
    /\ cwd \in [Procs -> Inodes] /\ open \in [Procs -> Some]
    /\ act \in [Procs -> CallType]
    /\ session \in Sessions

-----------------------------------------------------------------------------
\* What a process points to: its current directory and its open file, and what
\* a call works on or still has to put.
Roles == {"cwd", "open", "ip", "dp", "src", "put1", "put2"}

Nth(s, k) == IF k <= Len(s) THEN s[k] ELSE NoInode

Held(p) ==
    [cwd |-> cwd[p], open |-> open[p], ip |-> act[p].ip, dp |-> act[p].dp,
     src |-> act[p].src, put1 |-> Nth(act[p].puts, 1), put2 |-> Nth(act[p].puts, 2)]

Users(i) == {x \in Procs \X Roles : Held(x[1])[x[2]] = i}

\* The cache counts every pointer to an inode: open files, current directories
\* and those of calls in progress, whatever order they come and go in
\* (fs.c:122-127).
RefInv == \A i \in Inodes : ref[i] = Cardinality(Users(i))

\* What a process points to at each point of a call.
Shape(a) ==
    /\ Len(a.puts) <= 2 /\ (a.half => a.puts # <<>>)
    /\ a.at = "user" => a.puts = <<>>
    /\ a.ip # NoInode <=>
          a.at \in {"walk", "found", "exists", "created", "unlink", "unlinked"}
    /\ a.dp # NoInode <=> a.at \in {"parent", "unlink", "refused"}
    /\ a.src # NoInode <=> a.at = "bad" \/ a.call = "linkto"
    /\ a.call = "linkto" => a.at \in {"walk", "parent", "refused"}
    /\ a.call = "link" => a.new # <<>>
    /\ a.at \in {"parent", "unlink"} => a.path # <<>>

ShapeInv == \A p \in Procs : Shape(act[p])

\* What has been opened, and where a process is, stays there when its last name
\* goes (fs.c:118-120); so does what a call relies on without the lock.
UsedStays ==
    \A p \in Procs :
        /\ \A i \in {cwd[p], open[p]} \ {NoInode} : type[i] # "free"
        /\ act[p].at \in {"created", "unlinked"} => type[act[p].ip] # "free"
        /\ act[p].at \in {"parent", "unlink"} => type[act[p].dp] = "dir"
        /\ act[p].src # NoInode => type[act[p].src] \in {"file", "dev"}

\* Between finding an entry and erasing it, unlink() relies on the lock of the
\* directory (sysfile.c:209-233).
EntryStays ==
    \A p \in Procs : act[p].at = "unlink" =>
        Last(p) \in Names /\ ents[act[p].dp][Last(p)] = act[p].ip

\* Who has the lock of an inode.
LockInv ==
    \A i \in Inodes, p \in Procs :
        lock[i] = p <=>
            \/ act[p].at \in {"created", "unlinked"} /\ act[p].ip = i
            \/ act[p].at \in {"unlink", "refused"} /\ act[p].dp = i

-----------------------------------------------------------------------------
(***************************************************************************)
(* Link counts, of a volume v.                                             *)
(***************************************************************************)
Named(v, i)   == {x \in Inodes \X Names : v.ents[x[1]][x[2]] = i}
Subdirs(v, i) == {d \in Inodes \ {Root} : v.up[d] = i /\ Named(v, d) # {}}

\* The names of an inode: entries of directories, and ".." of the directories in it.
Links(v, i) ==
    Cardinality(Named(v, i)) + Cardinality(Subdirs(v, i)) + (IF i = Root THEN 1 ELSE 0)

\* Links counted before they are made or after they are gone.
InFlight(i) ==
    {p \in Procs : (act[p].at = "unlinked" /\ act[p].ip = i) \/ act[p].src = i}

Pending  == [i \in Inodes |-> InFlight(i)]
NoneLeft == [i \in Inodes |-> {}]

\* No entry leads to a free inode, and a directory has one name, in the
\* directory its ".." leads to; only directories have entries.
Sound(v) ==
    /\ v.type[Root] = "dir" /\ Named(v, Root) = {}
    /\ \A i \in Inodes :
          /\ v.type[i] = "dir" => v.up[i] \in Inodes
          /\ v.type[i] # "dir" => v.up[i] = NoInode /\ v.ents[i] = NoEnts
          /\ Named(v, i) # {} =>
                /\ v.type[i] # "free"
                /\ v.type[i] = "dir" => \E n \in Names : Named(v, i) = {<<v.up[i], n>>}

\* A directory that was removed stays empty, as long as nobody makes an entry in it.
RemovedEmpty(v) ==
    \A i \in Inodes \ {Root} :
        v.type[i] = "dir" /\ Named(v, i) = {} => v.ents[i] = NoEnts

\* An inode has no more names than its link count says, with the links of m that
\* are not names; and no fewer, as long as nobody makes an entry in a directory
\* that was removed.
Counted(v, m) ==
    \A i \in Inodes : v.type[i] # "free" =>
        /\ Links(v, i) + Cardinality(m[i]) <= v.nlink[i]
        /\ ~v.stray => v.nlink[i] = Links(v, i) + Cardinality(m[i])

RightLinks(v, m) == Sound(v) /\ (~v.stray => RemovedEmpty(v)) /\ Counted(v, m)

\* The link count of an inode is the number of its names (fs.c:99-102,
\* sysfile.c:148, 229-236, 274-278).
LinkInv == RightLinks(Volume, Pending)

NamesIInv ==
    TypeOK /\ ShapeInv /\ RefInv /\ UsedStays /\ EntryStays /\ LockInv /\ LinkInv

\* Whatever the machine was doing when it stopped, what the log brings back has
\* right link counts, with nothing left to do: a transaction holds whole calls
\* only (sysfile.c:135-171, 203-246, log.c:6-12).
RecoversConsistent == RightLinks(durable, NoneLeft)

\* Names come and go one at a time, and a directory goes empty (NameTree).
Tree == INSTANCE NameTree WITH
    kind <- type, names <- ents,
    saved <- [kind |-> durable.type, names |-> durable.ents]
TreeSpec == Tree!TSpec

-----------------------------------------------------------------------------
\* What each process waits for the lock of.
Wants(p) ==
    IF act[p].puts # <<>> THEN IF act[p].half THEN NoInode ELSE Head(act[p].puts)
    ELSE IF act[p].at \in {"walk", "found", "exists", "unlink"} THEN act[p].ip
    ELSE IF act[p].at = "parent" THEN act[p].dp
    ELSE IF act[p].at = "bad" THEN act[p].src
    ELSE NoInode

WaitsFor(p, q) == Wants(p) # NoInode /\ lock[Wants(p)] = q

\* Processes do not wait for each other's inodes (fs.c:146-150).
NoLockCycle == \A p, q \in Procs : ~(WaitsFor(p, q) /\ WaitsFor(q, p))

\* "ialloc() allocates, and iput() frees if the reference and link counts have
\* fallen to zero" (fs.c:118-120).
FreedWhenUnused ==
    [][Crash \/ \A i \in Inodes :
          ref[i] # 0 /\ ref'[i] = 0 /\ nlink'[i] = 0 => type'[i] = "free"]_vars
=============================================================================
