-------------------------- MODULE BufferCacheProps --------------------------
(***************************************************************************)
(* What the buffer cache promises.                                         *)
(***************************************************************************)
EXTENDS BufferCache

Points == {"run", "lock", "rw", "io", "unref"}

TypeOK ==
    /\ blk    \in [Bufs -> Blocks \cup {NoBlock}]
    /\ refcnt \in [Bufs -> Nat]
    /\ valid  \in [Bufs -> BOOLEAN] /\ dirty \in [Bufs -> BOOLEAN]
    /\ data   \in [Bufs -> Vals]
    /\ holder \in [Bufs -> Procs \cup {NoProc}]
    /\ lru    \in SUBSET (Bufs \X Bufs)
    /\ queue  \in Seq(Bufs)
    /\ cmd    \in [block : Blocks \cup {NoBlock}, write : BOOLEAN, val : Vals]
    /\ disk   \in [Blocks -> Vals]
    /\ pc     \in [Procs -> Points]
    /\ cur    \in [Procs -> Bufs \cup {NoBuf}]
    /\ held   \in [Procs -> SUBSET Bufs]
    /\ got    \in [Procs -> Vals]

\* The processes that count as a reference to b.
Users(b) == {p \in Procs : cur[p] = b \/ b \in held[p]}

\* A buffer counts its users, a process uses it once, and no two buffers are for
\* one block, though a process that was promised a buffer waits for it without
\* any lock (bio.c:71-73, 86-88, 126-129).
RefInv ==
    /\ \A p \in Procs : pc[p] = "run" <=> cur[p] = NoBuf
    /\ \A p \in Procs : cur[p] \notin held[p]
    /\ \A b \in Bufs : refcnt[b] = Cardinality(Users(b))
    /\ \A b, d \in Bufs : blk[b] = blk[d] /\ blk[b] # NoBlock => b = d
    /\ \A p \in Procs : \A b \in held[p] \cup ({cur[p]} \ {NoBuf}) : blk[b] # NoBlock

\* Who has the sleep lock of a buffer: whoever holds it or does I/O on it.
LockInv ==
    \A b \in Bufs, p \in Procs :
        holder[b] = p <=> b \in held[p] \/ (cur[p] = b /\ pc[p] \in {"rw", "io"})

\* The queue of the driver: each request is there once and somebody waits for
\* it, and the controller works on the first one (ide.c:109-131, 149-164).
QueueInv ==
    /\ \A i, j \in 1 .. Len(queue) : queue[i] = queue[j] => i = j
    /\ \A i \in 1 .. Len(queue) : \E p \in Procs : pc[p] = "io" /\ cur[p] = queue[i]
    /\ \A p \in Procs : pc[p] = "io" =>
          \/ \E i \in 1 .. Len(queue) : queue[i] = cur[p]
          \/ valid[cur[p]] /\ ~dirty[cur[p]]
    /\ cmd = IF queue = <<>> THEN NoCmd ELSE DiskCommand(queue[1])
    /\ \A i \in 1 .. Len(queue) : valid[queue[i]] => dirty[queue[i]]

\* A buffer that is valid and not dirty holds what is on the disk; what is held
\* or dirty is valid.
DataInv ==
    /\ \A b \in Bufs : valid[b] /\ ~dirty[b] => blk[b] \in Blocks /\ data[b] = disk[blk[b]]
    /\ \A b \in Bufs : dirty[b] => valid[b]
    /\ \A p \in Procs : \A b \in held[p] : valid[b]
    /\ \A p \in Procs : pc[p] = "rw" => (valid[cur[p]] => dirty[cur[p]])

\* Processes keep to their share, and the log to its own.
ShareInv ==
    /\ \A p \in Procs : Cardinality(held[p]) + (IF pc[p] = "run" THEN 0 ELSE 1) <= MaxHeld
    /\ Cardinality(Pinned) <= MaxPinned

\* The invariant every action preserves.
CacheIInv == TypeOK /\ RefInv /\ LockInv /\ QueueInv /\ DataInv /\ IsOrder(lru) /\ ShareInv

\* Blocks are registers with locks: bread() returns what was last written to the
\* block, be it on disk, on its way there or waiting in the cache for a commit,
\* and to one process at a time (bio.c:1-20).
ContentsOf(n) ==
    IF \E b \in Bufs : blk[b] = n /\ valid[b]
    THEN data[CHOOSE b \in Bufs : blk[b] = n]
    ELSE disk[n]
OwnerOf(n) ==
    IF \E b \in Bufs : blk[b] = n
    THEN holder[CHOOSE b \in Bufs : blk[b] = n]
    ELSE NoProc
Store == INSTANCE BlockStore WITH
    cur   <- [n \in Blocks |-> ContentsOf(n)],
    owner <- [n \in Blocks |-> OwnerOf(n)]
StoreSpec == Store!BSpec

\* The processes that have a buffer, wait for one or are about to give one back.
Busy == {p \in Procs : pc[p] # "run" \/ held[p] # {}}

\* bget() runs out of buffers only when the processes that are at it now, however many
\* there have been, and the blocks of the transaction need the whole cache: no step
\* loses a buffer for good, with a reference or a mark that stays (bio.c:81-92).
BufferLeft ==
    Cardinality(Pinned) + Cardinality(Busy) * MaxHeld < Cardinality(Bufs) =>
        \E b \in Bufs : Recyclable(b)

\* Every bread() and bwrite() comes back, under FairSpec: the driver loses no
\* request, and processes that take buffers in one order do not wait for each
\* other for ever (ide.c:126-128, 162-164, sleeplock.c:23-42).
CallsReturn == \A p \in Procs : pc[p] # "run" ~> pc[p] = "run"
=============================================================================
