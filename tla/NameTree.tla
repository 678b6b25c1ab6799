------------------------------ MODULE NameTree ------------------------------
(***************************************************************************)
(* What the file system calls promise about names: a name appears in one   *)
(* step, for something that exists, and only where there was none; it goes *)
(* in one step, and a directory only when it is empty; what has a name is  *)
(* not freed; and a crash brings back all the names of an earlier state.   *)
(***************************************************************************)
CONSTANTS Inodes, NoInode, Root, Names

VARIABLES
    kind,     \* inode -> "free", "file", "dir" or "dev"
    names,    \* directory -> name -> inode
    saved     \* what a crash goes back to

tvars == <<kind, names, saved>>

TEmpty    == [n \in Names |-> NoInode]
TNamed(i) == \E d \in Inodes, n \in Names : names[d][n] = i

TInit ==
    /\ kind  = [i \in Inodes |-> IF i = Root THEN "dir" ELSE "free"]
    /\ names = [i \in Inodes |-> TEmpty]
    /\ saved = [kind |-> kind, names |-> names]

TCreate(d, n, i) ==
    /\ kind[d] = "dir" /\ kind[i] = "free" /\ names[d][n] = NoInode
    /\ names' = [names EXCEPT ![d][n] = i]
    /\ \E t \in {"file", "dir", "dev"} : kind' = [kind EXCEPT ![i] = t]
    /\ UNCHANGED saved

TLink(d, n, i) ==
    /\ kind[d] = "dir" /\ kind[i] \in {"file", "dev"} /\ names[d][n] = NoInode
    /\ names' = [names EXCEPT ![d][n] = i]
    /\ UNCHANGED <<kind, saved>>

TRemove(d, n) ==
    /\ names[d][n] # NoInode
    /\ kind[names[d][n]] = "dir" => names[names[d][n]] = TEmpty
    /\ names' = [names EXCEPT ![d][n] = NoInode]
    /\ UNCHANGED <<kind, saved>>

TFree(i) ==
    /\ kind[i] # "free" /\ i # Root /\ ~TNamed(i)
    /\ kind'  = [kind EXCEPT ![i] = "free"]
    /\ names' = [names EXCEPT ![i] = TEmpty]
    /\ UNCHANGED saved

TSave  == saved' = [kind |-> kind, names |-> names] /\ UNCHANGED <<kind, names>>
TCrash == kind' = saved.kind /\ names' = saved.names /\ UNCHANGED saved

TNext ==
    \/ \E d \in Inodes, n \in Names :
          \/ TRemove(d, n)
          \/ \E i \in Inodes : TCreate(d, n, i) \/ TLink(d, n, i)
    \/ \E i \in Inodes : TFree(i)
    \/ TSave \/ TCrash

TSpec == TInit /\ [][TNext]_tvars
=============================================================================
