--------------------------- MODULE FileTableProps ---------------------------
(***************************************************************************)
(* What the file table promises.                                           *)
(***************************************************************************)
EXTENDS FileTable

Whats == {Nothing} \cup {PipeEnd(g, e) : g \in Pages, e \in {"r", "w"}}
                   \cup {Inode(i) : i \in Inodes}

FTTypeOK ==
    /\ fref \in [Files -> Nat] /\ what \in [Files -> Whats]
    /\ ofile \in [Users -> [Fds -> Files \cup {NoFile}]] /\ live \subseteq Users
    /\ ends \in [Pages -> SUBSET {"r", "w"}] /\ iref \in [Inodes -> Nat]
    /\ job \in [Users ->
          [at : {"user", "pipe", "open", "opened", "end", "exit"}, new : Seq(Files),
           ip : SUBSET Inodes, drop : Seq(Files), last : Whats]]

\* What a call has in hand at each point.
JobShape(j) ==
    /\ Len(j.new) <= 2 /\ Len(j.drop) <= 2
    /\ j.at \in {"user", "pipe", "open", "opened"} => j.drop = <<>> /\ j.last = Nothing
    /\ j.at \in {"user", "open", "end", "exit"} => j.new = <<>>
    /\ j.at \in {"user", "pipe", "exit"} => j.ip = {}
    /\ j.at \in {"open", "opened"} => \E i \in Inodes : j.ip = {i}
    /\ j.at = "opened" => Len(j.new) = 1

\* Who does not live has no files and is in no call.
JobsInv ==
    \A p \in Users :
        /\ JobShape(job[p])
        /\ p \notin live => job[p] = User /\ FreeFds(p) = Fds

\* The references to a file: descriptors, and what calls in progress have yet to
\* install or to close.
Nth(s, k) == IF k <= Len(s) THEN s[k] ELSE NoFile
Spots == {"new1", "new2", "drop1", "drop2"}
InHand(j) ==
    [new1 |-> IF j.at = "pipe" THEN Nth(j.new, 1) ELSE NoFile,
     new2 |-> IF j.at = "pipe" THEN Nth(j.new, 2) ELSE NoFile,
     drop1 |-> Nth(j.drop, 1), drop2 |-> Nth(j.drop, 2)]
DescriptorRefs(f) == {x \in Users \X Fds : ofile[x[1]][x[2]] = f}
JobRefs(f)        == {x \in Users \X Spots : InHand(job[x[1]])[x[2]] = f}

\* A file's count is the number of its descriptors and of calls that have yet to
\* install it or to close it, whatever ran out on the way; a file nobody has is
\* nothing, so that the next open() or pipe() that fails closes nothing with it.
RefsCounted ==
    \A f \in Files :
        /\ fref[f] = Cardinality(DescriptorRefs(f)) + Cardinality(JobRefs(f))
        /\ fref[f] = 0 => what[f] = Nothing

\* A file that pipe() or open() has taken and not filled in is theirs alone
\* (pipe.c:29-46, sysfile.c:325-340).
NewIsOwn ==
    \A p \in Users :
        /\ job[p].at \in {"pipe", "opened"} =>
              \A k \in 1 .. Len(job[p].new) :
                  what[job[p].new[k]] = Nothing /\ fref[job[p].new[k]] = 1
        /\ job[p].at = "opened" => \E d \in Fds : ofile[p][d] = job[p].new[1]

\* Each open end of a pipe has one file, or one process about to close it: the
\* page is freed once, and no file leads to a page that is free.
EndOwners(g, e) ==
    {f \in Files : what[f] = PipeEnd(g, e)} \cup {p \in Users : job[p].last = PipeEnd(g, e)}
EndsOwned ==
    \A g \in Pages, e \in {"r", "w"} :
        Cardinality(EndOwners(g, e)) = (IF e \in ends[g] THEN 1 ELSE 0)

\* Every reference to an inode is one of an open file, of a file being closed or of
\* an open() that is not finished.
NodesCounted ==
    \A i \in Inodes :
        iref[i] = Cardinality({f \in Files : what[f] = Inode(i)}
                              \cup {p \in Users : job[p].last = Inode(i)})
                  + Cardinality({p \in Users : i \in job[p].ip})

FilesIInv == FTTypeOK /\ JobsInv /\ RefsCounted /\ NewIsOwn /\ EndsOwned /\ NodesCounted
=============================================================================
