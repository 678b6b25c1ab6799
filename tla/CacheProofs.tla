---------------------------- MODULE CacheProofs -----------------------------
(***************************************************************************)
(* The buffer cache and its driver for every number of processes, buffers  *)
(* and blocks: CacheIInv is inductive, the cache implements BlockStore, and*)
(* bget() finds a buffer.                                                  *)
(***************************************************************************)
EXTENDS BufferCacheProps, FiniteSetTheorems, TLAPS

\* The constants as the provers need them.
LEMMA Constants ==
    /\ NoProc \notin Procs /\ NoBuf \notin Bufs /\ NoBlock \notin Blocks
    /\ IsFiniteSet(Procs) /\ IsFiniteSet(Bufs) /\ Zero \in Vals
    /\ \A n \in Blocks : <<n, n>> \notin Nests
    BY CacheAssumption

\* A buffer is counted as long as somebody uses it.
LEMMA Counted ==
    ASSUME TypeOK, RefInv, NEW b \in Bufs
    PROVE  /\ IsFiniteSet(Users(b)) /\ refcnt[b] \in Nat
           /\ refcnt[b] = Cardinality(Users(b))
           /\ refcnt[b] = 0 <=> Users(b) = {}
<1>1. IsFiniteSet(Users(b))
    <2>1. Users(b) \in SUBSET Procs
        BY DEF Users
    <2> QED
        BY <2>1, Constants, FS_Subset
<1>2. refcnt[b] \in Nat /\ refcnt[b] = Cardinality(Users(b))
    BY DEF TypeOK, RefInv
<1>3. Cardinality(Users(b)) = 0 <=> Users(b) = {}
    BY <1>1, FS_EmptySet
<1> QED
    BY <1>1, <1>2, <1>3

\* The buffer a process is in a call with.
LEMMA InCall ==
    ASSUME TypeOK, RefInv, LockInv, NEW p \in Procs, pc[p] # "run"
    PROVE  /\ cur[p] \in Bufs /\ cur[p] # NoBuf /\ blk[cur[p]] \in Blocks
           /\ p \in Users(cur[p]) /\ refcnt[cur[p]] # 0 /\ cur[p] \notin held[p]
           /\ pc[p] \in {"rw", "io"} => holder[cur[p]] = p
<1>1. cur[p] \in Bufs /\ cur[p] # NoBuf /\ cur[p] \notin held[p]
    BY DEF TypeOK, RefInv
<1>2. blk[cur[p]] \in Blocks
    <2>1. blk[cur[p]] # NoBlock
        BY <1>1 DEF RefInv
    <2> QED
        BY <1>1, <2>1 DEF TypeOK
<1>3. p \in Users(cur[p])
    BY DEF Users
<1>4. refcnt[cur[p]] # 0
    BY <1>1, <1>3, Counted
<1> QED
    BY <1>1, <1>2, <1>3, <1>4 DEF LockInv

\* The buffers a process has.
LEMMA Having ==
    ASSUME TypeOK, RefInv, LockInv, DataInv, NEW p \in Procs, NEW b \in held[p]
    PROVE  /\ b \in Bufs /\ blk[b] \in Blocks /\ b # cur[p] /\ b # NoBuf
           /\ p \in Users(b) /\ refcnt[b] # 0
           /\ holder[b] = p /\ valid[b]
           /\ \A q \in Procs \ {p} : b \notin held[q]
           /\ \A q \in Procs : pc[q] \in {"rw", "io"} => cur[q] # b
<1>1. b \in Bufs /\ b # cur[p] /\ b # NoBuf
    BY Constants DEF TypeOK, RefInv
<1>2. blk[b] \in Blocks
    <2>1. blk[b] # NoBlock
        BY DEF RefInv
    <2> QED
        BY <1>1, <2>1 DEF TypeOK
<1>3. p \in Users(b)
    BY DEF Users
<1>4. refcnt[b] # 0
    BY <1>1, <1>3, Counted
<1>5. holder[b] = p /\ valid[b]
    BY <1>1 DEF LockInv, DataInv
<1>6. \A q \in Procs \ {p} : b \notin held[q]
    BY <1>1, <1>5 DEF LockInv
<1>7. \A q \in Procs : pc[q] \in {"rw", "io"} => cur[q] # b
    BY <1>1, <1>5 DEF LockInv
<1> QED
    BY <1>1, <1>2, <1>3, <1>4, <1>5, <1>6, <1>7

\* What is queued for the disk.
LEMMA Queued ==
    ASSUME TypeOK, RefInv, LockInv, QueueInv, NEW i \in 1 .. Len(queue)
    PROVE  /\ Len(queue) \in Nat /\ queue[i] \in Bufs /\ blk[queue[i]] \in Blocks
           /\ \E p \in Procs : pc[p] = "io" /\ cur[p] = queue[i] /\ holder[queue[i]] = p
           /\ refcnt[queue[i]] # 0
<1>1. PICK p \in Procs : pc[p] = "io" /\ cur[p] = queue[i]
    BY DEF QueueInv
<1>2. Len(queue) \in Nat
    BY DEF TypeOK
<1> QED
    BY <1>1, <1>2, InCall

\* The command is the one for the first request.
LEMMA Command ==
    ASSUME TypeOK, RefInv, LockInv, QueueInv, queue # <<>>
    PROVE  /\ 1 \in 1 .. Len(queue) /\ Head(queue) = queue[1]
           /\ cmd = DiskCommand(Head(queue))
           /\ cmd.block = blk[Head(queue)] /\ cmd.block \in Blocks
           /\ cmd.write = dirty[Head(queue)] /\ cmd.val = data[Head(queue)]
<1>1. 1 \in 1 .. Len(queue) /\ Head(queue) = queue[1]
    BY DEF TypeOK
<1>2. cmd = DiskCommand(Head(queue))
    BY <1>1 DEF QueueInv
<1> QED
    BY <1>1, <1>2, Queued DEF DiskCommand

LEMMA StepCases ==
    ASSUME Next
    PROVE  \/ \E p \in Procs :
                 \/ \E n \in Blocks : BgetHit(p, n) \/ BgetMiss(p, n)
                 \/ LockBuf(p) \/ Iderw(p) \/ IderwDone(p) \/ Unref(p)
                 \/ \E b \in held[p] : Brelse(p, b)
                 \/ \E b \in held[p], v \in Vals : LogWrite(p, b, v) \/ Bwrite(p, b, v)
           \/ Ideintr
    BY DEF Next, Bget, Finish, Release, Change

-----------------------------------------------------------------------------
THEOREM TypePreserved ==
    ASSUME TypeOK, RefInv, LockInv, QueueInv, [Next]_vars
    PROVE  TypeOK'
<1>0. /\ \A p \in Procs : pc[p] # "run" => cur[p] \in Bufs
      /\ \A p \in Procs : held[p] \subseteq Bufs
      /\ {"run", "lock", "rw", "io", "unref"} \subseteq Points
    BY InCall DEF TypeOK, Points
<1>1. ASSUME NEW p \in Procs, NEW n \in Blocks, BgetHit(p, n)
      PROVE  TypeOK'
    <2>1. PICK b \in Bufs : /\ refcnt' = [refcnt EXCEPT ![b] = @ + 1]
                            /\ cur' = [cur EXCEPT ![p] = b]
        BY <1>1 DEF BgetHit, Cached
    <2>2. refcnt' \in [Bufs -> Nat] /\ cur' \in [Procs -> Bufs \cup {NoBuf}]
        BY <2>1 DEF TypeOK
    <2>3. pc' \in [Procs -> Points]
        BY <1>0, <1>1 DEF BgetHit, TypeOK
    <2> QED
        BY <1>1, <2>2, <2>3 DEF BgetHit, TypeOK
<1>2. ASSUME NEW p \in Procs, NEW n \in Blocks, BgetMiss(p, n)
      PROVE  TypeOK'
    <2>1. PICK b \in Bufs : /\ blk' = [blk EXCEPT ![b] = n]
                            /\ valid' = [valid EXCEPT ![b] = FALSE]
                            /\ dirty' = [dirty EXCEPT ![b] = FALSE]
                            /\ refcnt' = [refcnt EXCEPT ![b] = 1]
                            /\ cur' = [cur EXCEPT ![p] = b]
        BY <1>2 DEF BgetMiss
    <2>2. refcnt' \in [Bufs -> Nat] /\ cur' \in [Procs -> Bufs \cup {NoBuf}]
          /\ blk' \in [Bufs -> Blocks \cup {NoBlock}]
        BY <2>1 DEF TypeOK
    <2>3. valid' \in [Bufs -> BOOLEAN] /\ dirty' \in [Bufs -> BOOLEAN]
        BY <2>1 DEF TypeOK
    <2>4. pc' \in [Procs -> Points]
        BY <1>0, <1>2 DEF BgetMiss, TypeOK
    <2> QED
        BY <1>2, <2>2, <2>3, <2>4 DEF BgetMiss, TypeOK
<1>3. ASSUME NEW p \in Procs, LockBuf(p)
      PROVE  TypeOK'
    <2>1. cur[p] \in Bufs
        BY <1>0, <1>3 DEF LockBuf
    <2>2. holder' \in [Bufs -> Procs \cup {NoProc}]
        BY <1>3, <2>1 DEF LockBuf, TypeOK
    <2>3. pc' \in [Procs -> Points]
        BY <1>0, <1>3 DEF LockBuf, TypeOK
    <2>4. cur' \in [Procs -> Bufs \cup {NoBuf}]
        BY <1>3 DEF LockBuf, Give, TypeOK
    <2>5. held' \in [Procs -> SUBSET Bufs]
        <3>1. held[p] \cup {cur[p]} \in SUBSET Bufs
            BY <1>0, <2>1
        <3>2. held' = held \/ held' = [held EXCEPT ![p] = held[p] \cup {cur[p]}]
            BY <1>3 DEF LockBuf, Give, TypeOK
        <3> QED
            BY <3>1, <3>2 DEF TypeOK
    <2>6. got' \in [Procs -> Vals]
        <3>1. data[cur[p]] \in Vals
            BY <2>1 DEF TypeOK
        <3>2. got' = got \/ got' = [got EXCEPT ![p] = data[cur[p]]]
            BY <1>3 DEF LockBuf, Give
        <3> QED
            BY <3>1, <3>2 DEF TypeOK
    <2> QED
        BY <1>3, <2>2, <2>3, <2>4, <2>5, <2>6 DEF LockBuf, TypeOK
<1>4. ASSUME NEW p \in Procs, NEW b \in held[p], NEW v \in Vals, LogWrite(p, b, v)
      PROVE  TypeOK'
    <2>1. data' \in [Bufs -> Vals] /\ dirty' \in [Bufs -> BOOLEAN]
        BY <1>0, <1>4 DEF LogWrite, TypeOK
    <2> QED
        BY <1>4, <2>1 DEF LogWrite, procVars, TypeOK
<1>5. ASSUME NEW p \in Procs, NEW b \in held[p], NEW v \in Vals, Bwrite(p, b, v)
      PROVE  TypeOK'
    <2>1. data' \in [Bufs -> Vals] /\ dirty' \in [Bufs -> BOOLEAN]
        BY <1>0, <1>5 DEF Bwrite, TypeOK
    <2>2. cur' \in [Procs -> Bufs \cup {NoBuf}] /\ held' \in [Procs -> SUBSET Bufs]
        BY <1>0, <1>5 DEF Bwrite, TypeOK
    <2>3. pc' \in [Procs -> Points]
        BY <1>0, <1>5 DEF Bwrite, TypeOK
    <2> QED
        BY <1>5, <2>1, <2>2, <2>3 DEF Bwrite, TypeOK
<1>6. ASSUME NEW p \in Procs, NEW b \in held[p], Brelse(p, b)
      PROVE  TypeOK'
    <2>1. holder' \in [Bufs -> Procs \cup {NoProc}]
        BY <1>0, <1>6 DEF Brelse, TypeOK
    <2>2. cur' \in [Procs -> Bufs \cup {NoBuf}] /\ held' \in [Procs -> SUBSET Bufs]
        BY <1>0, <1>6 DEF Brelse, TypeOK
    <2>3. pc' \in [Procs -> Points]
        BY <1>0, <1>6 DEF Brelse, TypeOK
    <2> QED
        BY <1>6, <2>1, <2>2, <2>3 DEF Brelse, TypeOK
<1>7. ASSUME NEW p \in Procs, Unref(p)
      PROVE  TypeOK'
    <2>1. cur[p] \in Bufs /\ refcnt[cur[p]] \in Nat \ {0}
        BY <1>7, InCall, Counted DEF Unref
    <2>2. refcnt' \in [Bufs -> Nat]
        BY <1>7, <2>1 DEF Unref, Dropped, TypeOK
    <2>3. lru' \in SUBSET (Bufs \X Bufs)
        BY <1>7, <2>1 DEF Unref, ToFront, TypeOK
    <2>4. cur' \in [Procs -> Bufs \cup {NoBuf}] /\ pc' \in [Procs -> Points]
        BY <1>0, <1>7 DEF Unref, TypeOK
    <2> QED
        BY <1>7, <2>2, <2>3, <2>4 DEF Unref, TypeOK
<1>8. ASSUME NEW p \in Procs, Iderw(p)
      PROVE  TypeOK'
    <2>1. cur[p] \in Bufs
        BY <1>0, <1>8 DEF Iderw
    <2>2. queue' \in Seq(Bufs)
        BY <1>8, <2>1 DEF Iderw, TypeOK
    <2>3. DiskCommand(cur[p]) \in [block : Blocks \cup {NoBlock}, write : BOOLEAN, val : Vals]
        BY <2>1 DEF DiskCommand, TypeOK
    <2>4. cmd' \in [block : Blocks \cup {NoBlock}, write : BOOLEAN, val : Vals]
        BY <1>8, <2>3 DEF Iderw, TypeOK
    <2>5. pc' \in [Procs -> Points]
        BY <1>0, <1>8 DEF Iderw, TypeOK
    <2> QED
        BY <1>8, <2>2, <2>4, <2>5 DEF Iderw, bufVars, TypeOK
<1>9. ASSUME NEW p \in Procs, IderwDone(p)
      PROVE  TypeOK'
    <2>1. cur[p] \in Bufs
        BY <1>0, <1>9 DEF IderwDone
    <2>2. cur' \in [Procs -> Bufs \cup {NoBuf}] /\ held' \in [Procs -> SUBSET Bufs]
        BY <1>0, <1>9, <2>1 DEF IderwDone, Give, TypeOK
    <2>3. got' \in [Procs -> Vals] /\ pc' \in [Procs -> Points]
        BY <1>0, <1>9, <2>1 DEF IderwDone, Give, TypeOK
    <2> QED
        BY <1>9, <2>2, <2>3 DEF IderwDone, bufVars, TypeOK
<1>10. ASSUME Ideintr
       PROVE  TypeOK'
    <2>1. queue # <<>>
        BY <1>10 DEF Ideintr
    <2>2. Head(queue) \in Bufs /\ cmd.block \in Blocks /\ cmd.val \in Vals
        BY <2>1, Command DEF TypeOK
    <2>3. disk' \in [Blocks -> Vals]
        BY <1>10, <2>2 DEF Ideintr, TypeOK
    <2>4. data' \in [Bufs -> Vals]
        BY <1>10, <2>2 DEF Ideintr, TypeOK
    <2>5. valid' \in [Bufs -> BOOLEAN] /\ dirty' \in [Bufs -> BOOLEAN]
        BY <1>10, <2>2 DEF Ideintr, TypeOK
    <2>6. queue' \in Seq(Bufs)
        BY <1>10, <2>1 DEF Ideintr, TypeOK
    <2>7. NoCmd \in [block : Blocks \cup {NoBlock}, write : BOOLEAN, val : Vals]
        BY Constants DEF NoCmd
    <2>8. Len(queue) > 1 =>
             DiskCommand(queue[2]) \in
                 [block : Blocks \cup {NoBlock}, write : BOOLEAN, val : Vals]
        BY DEF DiskCommand, TypeOK
    <2>9. cmd' \in [block : Blocks \cup {NoBlock}, write : BOOLEAN, val : Vals]
        BY <1>10, <2>7, <2>8 DEF Ideintr, StartNext
    <2> QED
        BY <1>10, <2>3, <2>4, <2>5, <2>6, <2>9 DEF Ideintr, procVars, TypeOK
<1>11. CASE UNCHANGED vars
    BY <1>11 DEF vars, bufVars, procVars, TypeOK
<1> QED
    BY <1>1, <1>2, <1>3, <1>4, <1>5, <1>6, <1>7, <1>8, <1>9, <1>10, <1>11, StepCases

-----------------------------------------------------------------------------
\* A step that gives a buffer from cur to held or back, and counts nothing.
LEMMA UseKept ==
    ASSUME TypeOK, RefInv, blk' = blk, refcnt' = refcnt,
           NEW p \in Procs, NEW b \in Bufs, p \in Users(b),
           \A q \in Procs \ {p} :
               cur'[q] = cur[q] /\ held'[q] = held[q] /\ pc'[q] = pc[q],
           \/ pc'[p] = "run" /\ cur'[p] = NoBuf /\ held'[p] = held[p] \cup {b}
                /\ (cur[p] = b \/ cur[p] = NoBuf)
           \/ pc'[p] # "run" /\ cur'[p] = b /\ held'[p] = held[p] \ {b}
                /\ (cur[p] = b \/ cur[p] = NoBuf)
    PROVE  RefInv'
<1>0. NoBuf \notin Bufs /\ b # NoBuf /\ \A q \in Procs : held[q] \subseteq Bufs
    BY Constants DEF TypeOK
<1>1. \A q \in Procs : pc'[q] = "run" <=> cur'[q] = NoBuf
    BY <1>0 DEF RefInv
<1>2. \A q \in Procs : cur'[q] \notin held'[q]
    <2>1. cur'[p] \notin held'[p]
        BY <1>0
    <2> QED
        BY <2>1 DEF RefInv
<1>3. \A d \in Bufs : Users(d)' = Users(d)
    <2> SUFFICES ASSUME NEW d \in Bufs, NEW q \in Procs
                 PROVE  cur'[q] = d \/ d \in held'[q] <=> cur[q] = d \/ d \in held[q]
        BY Zenon DEF Users
    <2>1. CASE q # p
        BY <2>1
    <2>2. CASE q = p
        BY <2>2, <1>0 DEF Users
    <2> QED
        BY <2>1, <2>2
<1>4. \A d \in Bufs : refcnt'[d] = Cardinality(Users(d)')
    BY <1>3 DEF RefInv
<1>5. \A d, e \in Bufs : blk'[d] = blk'[e] /\ blk'[d] # NoBlock => d = e
    BY DEF RefInv
<1>6. \A q \in Procs : \A d \in held'[q] \cup ({cur'[q]} \ {NoBuf}) : blk'[d] # NoBlock
    <2>1. blk[b] # NoBlock
        BY <1>0 DEF RefInv, Users
    <2>2. \A d \in held'[p] \cup ({cur'[p]} \ {NoBuf}) : d = b \/ d \in held[p]
        BY <1>0
    <2>3. \A d \in held'[p] \cup ({cur'[p]} \ {NoBuf}) : blk'[d] # NoBlock
        BY <2>1, <2>2 DEF RefInv
    <2> QED
        BY <2>3 DEF RefInv
<1> QED
    BY <1>1, <1>2, <1>4, <1>5, <1>6 DEF RefInv

THEOREM RefPreserved ==
    ASSUME TypeOK, RefInv, LockInv, QueueInv, DataInv, [Next]_vars, TypeOK'
    PROVE  RefInv'
<1>0. \A p \in Procs : held[p] \subseteq Bufs /\ cur[p] \in Bufs \cup {NoBuf}
    BY DEF TypeOK
<1>1. ASSUME NEW p \in Procs, NEW n \in Blocks, BgetHit(p, n)
      PROVE  RefInv'
    <2>1. PICK b \in Bufs : /\ blk[b] = n
                            /\ refcnt' = [refcnt EXCEPT ![b] = @ + 1]
                            /\ cur' = [cur EXCEPT ![p] = b]
        BY <1>1 DEF BgetHit, Cached
    <2>2. pc[p] = "run" /\ cur[p] = NoBuf
        BY <1>1 DEF BgetHit, Calls, RefInv
    <2>3. b \notin held[p]
        BY <1>1, <2>1, Constants DEF BgetHit, Calls
    <2>4. blk' = blk /\ held' = held /\ pc' = [pc EXCEPT ![p] = "lock"]
        BY <1>1 DEF BgetHit
    <2>5. cur'[p] = b /\ pc'[p] = "lock" /\ b # NoBuf /\ n # NoBlock
          /\ \A q \in Procs \ {p} : cur'[q] = cur[q] /\ pc'[q] = pc[q]
        BY <2>1, <2>4, Constants DEF TypeOK
    <2>6. Users(b)' = Users(b) \cup {p} /\ p \notin Users(b)
        BY <2>1, <2>2, <2>3, <2>4, <2>5 DEF Users
    <2>7. \A d \in Bufs \ {b} : Users(d)' = Users(d)
        BY <2>2, <2>4, <2>5, Constants DEF Users
    <2>8. \A d \in Bufs : refcnt'[d] = Cardinality(Users(d)')
        <3>1. refcnt'[b] = Cardinality(Users(b)')
            <4>1. IsFiniteSet(Users(b)) /\ refcnt[b] = Cardinality(Users(b))
                BY Counted
            <4>2. Cardinality(Users(b) \cup {p}) = Cardinality(Users(b)) + 1
                BY <2>6, <4>1, FS_AddElement
            <4>3. refcnt'[b] = refcnt[b] + 1
                BY <2>1 DEF TypeOK
            <4> QED
                BY <2>6, <4>1, <4>2, <4>3
        <3>2. \A d \in Bufs \ {b} : refcnt'[d] = Cardinality(Users(d)')
            BY <2>1, <2>7 DEF TypeOK, RefInv
        <3> QED
            BY <3>1, <3>2
    <2>9. \A q \in Procs : pc'[q] = "run" <=> cur'[q] = NoBuf
        BY <2>5 DEF RefInv
    <2>10. \A q \in Procs : cur'[q] \notin held'[q]
        BY <2>3, <2>4, <2>5 DEF RefInv
    <2>11. \A q \in Procs : \A d \in held'[q] \cup ({cur'[q]} \ {NoBuf}) : blk'[d] # NoBlock
        BY <2>1, <2>4, <2>5 DEF RefInv
    <2> QED
        BY <2>4, <2>8, <2>9, <2>10, <2>11 DEF RefInv
<1>2. ASSUME NEW p \in Procs, NEW n \in Blocks, BgetMiss(p, n)
      PROVE  RefInv'
    <2>1. PICK b \in Bufs : /\ Recyclable(b)
                            /\ blk' = [blk EXCEPT ![b] = n]
                            /\ refcnt' = [refcnt EXCEPT ![b] = 1]
                            /\ cur' = [cur EXCEPT ![p] = b]
        BY <1>2 DEF BgetMiss
    <2>2. pc[p] = "run" /\ cur[p] = NoBuf /\ \A d \in Bufs : blk[d] # n
        BY <1>2 DEF BgetMiss, Calls, Cached, RefInv
    <2>3. Users(b) = {} /\ \A q \in Procs : cur[q] # b /\ b \notin held[q]
        BY <2>1, Counted DEF Recyclable, Users
    <2>4. held' = held /\ pc' = [pc EXCEPT ![p] = "lock"]
        BY <1>2 DEF BgetMiss
    <2>5. cur'[p] = b /\ pc'[p] = "lock" /\ b # NoBuf /\ n # NoBlock
          /\ \A q \in Procs \ {p} : cur'[q] = cur[q] /\ pc'[q] = pc[q]
        BY <2>1, <2>4, Constants DEF TypeOK
    <2>6. Users(b)' = {p}
        BY <2>3, <2>4, <2>5 DEF Users
    <2>7. \A d \in Bufs \ {b} : Users(d)' = Users(d)
        BY <2>2, <2>4, <2>5, Constants DEF Users
    <2>8. \A d \in Bufs : refcnt'[d] = Cardinality(Users(d)')
        <3>1. refcnt'[b] = Cardinality(Users(b)')
            BY <2>1, <2>6, FS_Singleton DEF TypeOK
        <3>2. \A d \in Bufs \ {b} : refcnt'[d] = Cardinality(Users(d)')
            BY <2>1, <2>7 DEF TypeOK, RefInv
        <3> QED
            BY <3>1, <3>2
    <2>9. \A q \in Procs : pc'[q] = "run" <=> cur'[q] = NoBuf
        BY <2>5 DEF RefInv
    <2>10. \A q \in Procs : cur'[q] \notin held'[q]
        BY <2>3, <2>4, <2>5 DEF RefInv
    <2>11. \A d, e \in Bufs : blk'[d] = blk'[e] /\ blk'[d] # NoBlock => d = e
        BY <2>1, <2>2 DEF RefInv, TypeOK
    <2>12. \A q \in Procs : \A d \in held'[q] \cup ({cur'[q]} \ {NoBuf}) : blk'[d] # NoBlock
        <3>1. blk'[b] = n /\ \A d : d # b => blk'[d] = blk[d]
            BY <2>1 DEF TypeOK
        <3> QED
            BY <3>1, <2>4, <2>5 DEF RefInv
    <2> QED
        BY <2>8, <2>9, <2>10, <2>11, <2>12 DEF RefInv
<1>3. ASSUME NEW p \in Procs, LockBuf(p)
      PROVE  RefInv'
    <2>1. cur[p] \in Bufs /\ p \in Users(cur[p]) /\ cur[p] # NoBuf
        BY <1>3, InCall DEF LockBuf
    <2>2. blk' = blk /\ refcnt' = refcnt
        BY <1>3 DEF LockBuf
    <2>3. CASE valid[cur[p]]
        <3>1. pc'[p] = "run" /\ cur'[p] = NoBuf /\ held'[p] = held[p] \cup {cur[p]}
              /\ \A q \in Procs \ {p} :
                     cur'[q] = cur[q] /\ held'[q] = held[q] /\ pc'[q] = pc[q]
            BY <1>3, <2>3 DEF LockBuf, Give, TypeOK
        <3> QED
            BY <2>1, <2>2, <3>1, UseKept
    <2>4. CASE ~valid[cur[p]]
        <3>1. pc'[p] # "run" /\ cur'[p] = cur[p] /\ held'[p] = held[p] \ {cur[p]}
              /\ \A q \in Procs \ {p} :
                     cur'[q] = cur[q] /\ held'[q] = held[q] /\ pc'[q] = pc[q]
            BY <1>3, <2>4 DEF LockBuf, Give, TypeOK, RefInv
        <3> QED
            BY <2>1, <2>2, <3>1, UseKept
    <2> QED
        BY <2>3, <2>4
<1>4. ASSUME NEW p \in Procs, NEW b \in held[p], NEW v \in Vals, LogWrite(p, b, v)
      PROVE  RefInv'
    <2>1. /\ blk' = blk /\ refcnt' = refcnt
          /\ cur' = cur /\ held' = held /\ pc' = pc
        BY <1>4 DEF LogWrite, procVars
    <2> QED
        BY <2>1 DEF RefInv, Users
<1>5. ASSUME NEW p \in Procs, NEW b \in held[p],
             (\E v \in Vals : Bwrite(p, b, v)) \/ Brelse(p, b)
      PROVE  RefInv'
    <2>1. b \in Bufs /\ p \in Users(b)
        BY Having
    <2>2. blk' = blk /\ refcnt' = refcnt /\ cur[p] = NoBuf
        BY <1>5 DEF Bwrite, Brelse, RefInv
    <2>3. pc'[p] # "run" /\ cur'[p] = b /\ held'[p] = held[p] \ {b}
          /\ \A q \in Procs \ {p} :
                 cur'[q] = cur[q] /\ held'[q] = held[q] /\ pc'[q] = pc[q]
        BY <1>5 DEF Bwrite, Brelse, TypeOK
    <2> QED
        BY <2>1, <2>2, <2>3, UseKept
<1>6. ASSUME NEW p \in Procs, Unref(p)
      PROVE  RefInv'
    <2>1. PICK b \in Bufs : b = cur[p]
        BY <1>6, InCall DEF Unref
    <2>2. /\ p \in Users(b) /\ b \notin held[p]
          /\ blk' = blk /\ held' = held /\ b # NoBuf
        BY <1>6, <2>1, InCall DEF Unref
    <2>3. refcnt' = [refcnt EXCEPT ![b] = refcnt[b] - 1]
        BY <1>6, <2>1 DEF Unref, Dropped
    <2>4. cur'[p] = NoBuf /\ pc'[p] = "run"
          /\ \A q \in Procs \ {p} : cur'[q] = cur[q] /\ pc'[q] = pc[q]
        BY <1>6 DEF Unref, TypeOK
    <2>5. Users(b)' = Users(b) \ {p}
        BY <2>1, <2>2, <2>4 DEF Users
    <2>6. \A d \in Bufs \ {b} : Users(d)' = Users(d)
        BY <2>1, <2>2, <2>4, Constants DEF Users
    <2>7. \A d \in Bufs : refcnt'[d] = Cardinality(Users(d)')
        <3>1. refcnt'[b] = Cardinality(Users(b)')
            <4>1. IsFiniteSet(Users(b)) /\ refcnt[b] = Cardinality(Users(b))
                BY Counted
            <4>2. Cardinality(Users(b) \ {p}) = Cardinality(Users(b)) - 1
                BY <2>2, <4>1, FS_RemoveElement
            <4>3. refcnt'[b] = refcnt[b] - 1
                BY <2>3 DEF TypeOK
            <4> QED
                BY <2>5, <4>1, <4>2, <4>3
        <3>2. \A d \in Bufs \ {b} : refcnt'[d] = Cardinality(Users(d)')
            BY <2>3, <2>6 DEF TypeOK, RefInv
        <3> QED
            BY <3>1, <3>2
    <2>8. \A q \in Procs : pc'[q] = "run" <=> cur'[q] = NoBuf
        BY <2>4 DEF RefInv
    <2>9. \A q \in Procs : cur'[q] \notin held'[q]
        <3>1. NoBuf \notin held[p]
            BY <1>0, Constants
        <3> QED
            BY <3>1, <2>2, <2>4 DEF RefInv
    <2>10. \A q \in Procs : \A d \in held'[q] \cup ({cur'[q]} \ {NoBuf}) : blk'[d] # NoBlock
        BY <2>2, <2>4 DEF RefInv
    <2> QED
        BY <2>2, <2>7, <2>8, <2>9, <2>10 DEF RefInv
<1>7. ASSUME NEW p \in Procs, Iderw(p)
      PROVE  RefInv'
    <2>1. cur[p] \in Bufs /\ p \in Users(cur[p]) /\ cur[p] \notin held[p]
        BY <1>7, InCall DEF Iderw
    <2>2. blk' = blk /\ refcnt' = refcnt
        BY <1>7 DEF Iderw, bufVars
    <2>3. pc'[p] # "run" /\ cur'[p] = cur[p] /\ held'[p] = held[p] \ {cur[p]}
          /\ \A q \in Procs \ {p} :
                 cur'[q] = cur[q] /\ held'[q] = held[q] /\ pc'[q] = pc[q]
        BY <1>7, <2>1 DEF Iderw, TypeOK
    <2> QED
        BY <2>1, <2>2, <2>3, UseKept
<1>8. ASSUME NEW p \in Procs, IderwDone(p)
      PROVE  RefInv'
    <2>1. cur[p] \in Bufs /\ p \in Users(cur[p])
        BY <1>8, InCall DEF IderwDone
    <2>2. blk' = blk /\ refcnt' = refcnt
        BY <1>8 DEF IderwDone, bufVars
    <2>3. pc'[p] = "run" /\ cur'[p] = NoBuf /\ held'[p] = held[p] \cup {cur[p]}
          /\ \A q \in Procs \ {p} :
                 cur'[q] = cur[q] /\ held'[q] = held[q] /\ pc'[q] = pc[q]
        BY <1>8 DEF IderwDone, Give, TypeOK
    <2> QED
        BY <2>1, <2>2, <2>3, UseKept
<1>9. CASE Ideintr \/ UNCHANGED vars
    <2>1. /\ blk' = blk /\ refcnt' = refcnt
          /\ cur' = cur /\ held' = held /\ pc' = pc
        BY <1>9 DEF Ideintr, vars, bufVars, procVars
    <2> QED
        BY <2>1 DEF RefInv, Users
<1> QED
    BY <1>1, <1>2, <1>3, <1>4, <1>5, <1>6, <1>7, <1>8, <1>9, StepCases

-----------------------------------------------------------------------------
\* The sleep locks: nothing changes what p has.
Has(p, b) == b \in held[p] \/ (cur[p] = b /\ pc[p] \in {"rw", "io"})

LEMMA LocksKept ==
    ASSUME LockInv, holder' = holder,
           NEW p \in Procs,
           \A q \in Procs \ {p} :
               cur'[q] = cur[q] /\ held'[q] = held[q] /\ pc'[q] = pc[q],
           \A d \in Bufs : Has(p, d)' = Has(p, d)
    PROVE  LockInv'
<1> SUFFICES ASSUME NEW b \in Bufs, NEW q \in Procs
             PROVE  holder'[b] = q <=> Has(q, b)'
    BY DEF LockInv, Has
<1>1. Has(q, b)' <=> Has(q, b)
    <2>1. CASE q = p
        BY <2>1
    <2>2. CASE q # p
        BY <2>2 DEF Has
    <2> QED
        BY <2>1, <2>2
<1>2. holder[b] = q <=> Has(q, b)
    BY DEF LockInv, Has
<1> QED
    BY <1>1, <1>2

THEOREM LockPreserved ==
    ASSUME TypeOK, RefInv, LockInv, QueueInv, DataInv, [Next]_vars, TypeOK'
    PROVE  LockInv'
<1>0. NoProc \notin Procs /\ NoBuf \notin Bufs
    BY Constants
<1>1. ASSUME NEW p \in Procs, NEW n \in Blocks, BgetHit(p, n) \/ BgetMiss(p, n)
      PROVE  LockInv'
    <2>1. PICK b \in Bufs : cur' = [cur EXCEPT ![p] = b]
        BY <1>1 DEF BgetHit, BgetMiss, Cached
    <2>2. /\ pc[p] = "run" /\ pc' = [pc EXCEPT ![p] = "lock"]
          /\ held' = held /\ holder' = holder
        BY <1>1 DEF BgetHit, BgetMiss, Calls
    <2>3. pc'[p] = "lock"
          /\ \A q \in Procs \ {p} : cur'[q] = cur[q] /\ held'[q] = held[q] /\ pc'[q] = pc[q]
        BY <2>1, <2>2 DEF TypeOK
    <2>4. \A d \in Bufs : Has(p, d)' = Has(p, d)
        BY <2>2, <2>3 DEF Has
    <2> QED
        BY <2>2, <2>3, <2>4, LocksKept
<1>2. ASSUME NEW p \in Procs, LockBuf(p)
      PROVE  LockInv'
    <2>1. PICK b \in Bufs : b = cur[p]
        BY <1>2, InCall DEF LockBuf
    <2>2. holder[b] = NoProc /\ holder' = [holder EXCEPT ![b] = p] /\ pc[p] = "lock"
        BY <1>2, <2>1 DEF LockBuf
    <2>3. holder'[b] = p /\ \A d \in Bufs \ {b} : holder'[d] = holder[d]
        BY <2>2 DEF TypeOK
    <2>4. \A q \in Procs \ {p} : cur'[q] = cur[q] /\ held'[q] = held[q] /\ pc'[q] = pc[q]
        BY <1>2 DEF LockBuf, Give, TypeOK
    <2>5. \/ pc'[p] = "run" /\ held'[p] = held[p] \cup {b}
          \/ pc'[p] = "rw" /\ held'[p] = held[p] /\ cur'[p] = b
        BY <1>2, <2>1 DEF LockBuf, Give, TypeOK
    <2>6. \A q \in Procs : ~Has(q, b)
        BY <1>0, <2>2 DEF LockInv, Has
    <2>7. \A q \in Procs : holder'[b] = q <=> Has(q, b)'
        BY <2>3, <2>4, <2>5, <2>6 DEF Has
    <2>8. \A q \in Procs : \A d \in Bufs \ {b} : Has(q, d)' <=> Has(q, d)
        BY <2>1, <2>2, <2>4, <2>5 DEF Has
    <2>9. \A q \in Procs : \A d \in Bufs \ {b} : holder[d] = q <=> Has(q, d)
        BY DEF LockInv, Has
    <2> SUFFICES ASSUME NEW d \in Bufs, NEW q \in Procs
                 PROVE  holder'[d] = q <=> Has(q, d)'
        BY DEF LockInv, Has
    <2> QED
        BY <2>3, <2>7, <2>8, <2>9
<1>3. ASSUME NEW p \in Procs, NEW b \in held[p], NEW v \in Vals, LogWrite(p, b, v)
      PROVE  LockInv'
    <2>1. holder' = holder /\ cur' = cur /\ held' = held /\ pc' = pc
        BY <1>3 DEF LogWrite, procVars
    <2> QED
        BY <2>1 DEF LockInv
<1>4. ASSUME NEW p \in Procs, NEW b \in held[p], NEW v \in Vals, Bwrite(p, b, v)
      PROVE  LockInv'
    <2>1. /\ holder' = holder /\ pc[p] = "run"
          /\ pc'[p] = "rw" /\ cur'[p] = b /\ held'[p] = held[p] \ {b}
          /\ \A q \in Procs \ {p} : cur'[q] = cur[q] /\ held'[q] = held[q] /\ pc'[q] = pc[q]
        BY <1>4 DEF Bwrite, TypeOK
    <2>2. \A d \in Bufs : Has(p, d)' = Has(p, d)
        BY <2>1 DEF Has
    <2> QED
        BY <2>1, <2>2, LocksKept
<1>5. ASSUME NEW p \in Procs, NEW b \in held[p], Brelse(p, b)
      PROVE  LockInv'
    <2>1. b \in Bufs /\ \A q \in Procs \ {p} : ~Has(q, b)
        BY Having DEF Has
    <2>2. /\ pc[p] = "run" /\ pc'[p] = "unref" /\ held'[p] = held[p] \ {b}
          /\ \A q \in Procs \ {p} : cur'[q] = cur[q] /\ held'[q] = held[q] /\ pc'[q] = pc[q]
        BY <1>5 DEF Brelse, TypeOK
    <2>3. holder'[b] = NoProc /\ \A d \in Bufs \ {b} : holder'[d] = holder[d]
        BY <1>5, <2>1 DEF Brelse, TypeOK
    <2>4. \A q \in Procs : ~Has(q, b)'
        BY <2>1, <2>2 DEF Has
    <2>5. \A q \in Procs : \A d \in Bufs \ {b} : Has(q, d)' <=> Has(q, d)
        BY <2>2 DEF Has
    <2>6. \A q \in Procs : \A d \in Bufs \ {b} : holder[d] = q <=> Has(q, d)
        BY DEF LockInv, Has
    <2> SUFFICES ASSUME NEW d \in Bufs, NEW q \in Procs
                 PROVE  holder'[d] = q <=> Has(q, d)'
        BY DEF LockInv, Has
    <2> QED
        BY <1>0, <2>3, <2>4, <2>5, <2>6
<1>6. ASSUME NEW p \in Procs, Unref(p) \/ Iderw(p)
      PROVE  LockInv'
    <2>1. /\ holder' = holder /\ held' = held
          /\ \/ pc[p] = "unref" /\ pc'[p] = "run"
             \/ pc[p] = "rw" /\ pc'[p] = "io" /\ cur'[p] = cur[p]
          /\ \A q \in Procs \ {p} : cur'[q] = cur[q] /\ pc'[q] = pc[q]
        BY <1>6 DEF Unref, Iderw, bufVars, TypeOK
    <2>2. \A d \in Bufs : Has(p, d)' = Has(p, d)
        BY <2>1 DEF Has
    <2> QED
        BY <2>1, <2>2, LocksKept
<1>7. ASSUME NEW p \in Procs, IderwDone(p)
      PROVE  LockInv'
    <2>1. cur[p] \in Bufs
        BY <1>7, InCall DEF IderwDone
    <2>2. /\ holder' = holder /\ pc[p] = "io" /\ pc'[p] = "run"
          /\ held'[p] = held[p] \cup {cur[p]}
          /\ \A q \in Procs \ {p} : cur'[q] = cur[q] /\ held'[q] = held[q] /\ pc'[q] = pc[q]
        BY <1>7 DEF IderwDone, Give, bufVars, TypeOK
    <2>3. \A d \in Bufs : Has(p, d)' = Has(p, d)
        BY <2>2 DEF Has
    <2> QED
        BY <2>2, <2>3, LocksKept
<1>8. CASE Ideintr \/ UNCHANGED vars
    <2>1. holder' = holder /\ cur' = cur /\ held' = held /\ pc' = pc
        BY <1>8 DEF Ideintr, vars, bufVars, procVars
    <2> QED
        BY <2>1 DEF LockInv
<1> QED
    BY <1>1, <1>2, <1>3, <1>4, <1>5, <1>6, <1>7, <1>8, StepCases

-----------------------------------------------------------------------------
\* Steps that leave the driver alone, and the buffers that it works on.
Same(b) == /\ blk'[b] = blk[b] /\ valid'[b] = valid[b]
           /\ dirty'[b] = dirty[b] /\ data'[b] = data[b]

LEMMA QueueKept ==
    ASSUME TypeOK, RefInv, LockInv, QueueInv, queue' = queue, cmd' = cmd,
           NEW p \in Procs, pc[p] # "io", pc'[p] # "io",
           \A q \in Procs \ {p} : pc'[q] = pc[q] /\ cur'[q] = cur[q],
           \A q \in Procs : pc[q] = "io" => Same(cur[q])
    PROVE  QueueInv'
<1>1. \A q \in Procs : /\ pc'[q] = "io" <=> pc[q] = "io"
                       /\ pc[q] = "io" => cur'[q] = cur[q]
    OBVIOUS
<1>2. \A i \in 1 .. Len(queue) : Same(queue[i])
    BY DEF QueueInv
<1>3. \A i \in 1 .. Len(queue') : \E q \in Procs : pc'[q] = "io" /\ cur'[q] = queue'[i]
    BY <1>1 DEF QueueInv
<1>4. ASSUME NEW q \in Procs, pc'[q] = "io"
      PROVE  \/ \E i \in 1 .. Len(queue') : queue'[i] = cur'[q]
             \/ valid'[cur'[q]] /\ ~dirty'[cur'[q]]
    BY <1>1, <1>4 DEF QueueInv, Same
<1>5. cmd' = IF queue' = <<>> THEN NoCmd ELSE DiskCommand(queue[1])'
    <2>1. CASE queue = <<>>
        BY <2>1 DEF QueueInv
    <2>2. CASE queue # <<>>
        <3>1. 1 \in 1 .. Len(queue) /\ cmd = DiskCommand(queue[1])
            BY <2>2, Command DEF QueueInv
        <3>2. DiskCommand(queue[1])' = DiskCommand(queue[1])
            BY <1>2, <3>1 DEF DiskCommand, Same
        <3> QED
            BY <2>2, <3>1, <3>2
    <2> QED
        BY <2>1, <2>2
<1>6. \A i \in 1 .. Len(queue') : valid'[queue'[i]] => dirty'[queue'[i]]
    BY <1>2 DEF QueueInv, Same
<1> QED
    BY <1>3, <1>4, <1>5, <1>6 DEF QueueInv

\* A buffer that has users is not on the disk's list unless one of them waits there.
THEOREM QueuePreserved ==
    ASSUME TypeOK, RefInv, LockInv, QueueInv, DataInv, [Next]_vars, TypeOK'
    PROVE  QueueInv'
<1>1. ASSUME NEW p \in Procs, NEW n \in Blocks, BgetHit(p, n)
      PROVE  QueueInv'
    <2>1. PICK b \in Bufs : cur' = [cur EXCEPT ![p] = b]
        BY <1>1 DEF BgetHit, Cached
    <2>2. /\ queue' = queue /\ cmd' = cmd /\ pc[p] = "run" /\ pc'[p] = "lock"
          /\ \A q \in Procs \ {p} : pc'[q] = pc[q] /\ cur'[q] = cur[q]
        BY <1>1, <2>1 DEF BgetHit, Calls, TypeOK
    <2>3. \A d \in Bufs : Same(d)
        BY <1>1 DEF BgetHit, Same
    <2> QED
        BY <2>2, <2>3, QueueKept, InCall
<1>2. ASSUME NEW p \in Procs, NEW n \in Blocks, BgetMiss(p, n)
      PROVE  QueueInv'
    <2>1. PICK b \in Bufs : /\ Recyclable(b)
                            /\ blk' = [blk EXCEPT ![b] = n]
                            /\ valid' = [valid EXCEPT ![b] = FALSE]
                            /\ dirty' = [dirty EXCEPT ![b] = FALSE]
                            /\ cur' = [cur EXCEPT ![p] = b]
        BY <1>2 DEF BgetMiss
    <2>2. /\ queue' = queue /\ cmd' = cmd /\ pc[p] = "run" /\ pc'[p] = "lock"
          /\ \A q \in Procs \ {p} : pc'[q] = pc[q] /\ cur'[q] = cur[q]
        BY <1>2, <2>1 DEF BgetMiss, Calls, TypeOK
    <2>3. \A d \in Bufs \ {b} : Same(d)
        BY <1>2, <2>1 DEF BgetMiss, Same, TypeOK
    <2>4. \A q \in Procs : pc[q] = "io" => cur[q] \in Bufs \ {b}
        BY <2>1, InCall DEF Recyclable
    <2> QED
        BY <2>2, <2>3, <2>4, QueueKept
<1>3. ASSUME NEW p \in Procs, LockBuf(p) \/ Unref(p)
      PROVE  QueueInv'
    <2>1. /\ queue' = queue /\ cmd' = cmd /\ pc[p] # "io" /\ pc'[p] # "io"
          /\ \A q \in Procs \ {p} : pc'[q] = pc[q] /\ cur'[q] = cur[q]
        BY <1>3 DEF LockBuf, Unref, Give, TypeOK
    <2>2. \A b \in Bufs : Same(b)
        BY <1>3 DEF LockBuf, Unref, Same
    <2> QED
        BY <2>1, <2>2, QueueKept, InCall
<1>4. ASSUME NEW p \in Procs, NEW b \in held[p],
             Brelse(p, b) \/ \E v \in Vals : LogWrite(p, b, v) \/ Bwrite(p, b, v)
      PROVE  QueueInv'
    <2>1. /\ queue' = queue /\ cmd' = cmd /\ pc[p] # "io" /\ pc'[p] # "io"
          /\ \A q \in Procs \ {p} : pc'[q] = pc[q] /\ cur'[q] = cur[q]
        BY <1>4 DEF LogWrite, Bwrite, Brelse, procVars, TypeOK
    <2>2. \A d \in Bufs \ {b} : Same(d)
        BY <1>4 DEF LogWrite, Bwrite, Brelse, Same, TypeOK
    <2>3. \A q \in Procs : pc[q] = "io" => cur[q] \in Bufs \ {b}
        BY InCall, Having
    <2> QED
        BY <2>1, <2>2, <2>3, QueueKept
<1>5. ASSUME NEW p \in Procs, Iderw(p)
      PROVE  QueueInv'
    <2>1. PICK b \in Bufs : b = cur[p]
        BY <1>5, InCall DEF Iderw
    <2>2. /\ holder[b] = p /\ pc[p] = "rw" /\ queue' = Append(queue, b)
          /\ cmd' = IF queue = <<>> THEN DiskCommand(b) ELSE cmd
          /\ cur' = cur /\ pc'[p] = "io" /\ \A q \in Procs \ {p} : pc'[q] = pc[q]
        BY <1>5, <2>1, InCall DEF Iderw, TypeOK
    <2>3. \A d : DiskCommand(d)' = DiskCommand(d)
        BY <1>5 DEF Iderw, bufVars, DiskCommand
    <2>4. \A i \in 1 .. Len(queue) : queue[i] # b
        BY <2>2, Queued
    <2>5. /\ Len(queue) \in Nat /\ Len(queue') = Len(queue) + 1
          /\ queue'[Len(queue) + 1] = b
          /\ \A i \in 1 .. Len(queue) : queue'[i] = queue[i]
        BY <2>2 DEF TypeOK
    <2>6. \A i, j \in 1 .. Len(queue') : queue'[i] = queue'[j] => i = j
        BY <2>4, <2>5 DEF QueueInv
    <2>7. \A i \in 1 .. Len(queue') : \E q \in Procs : pc'[q] = "io" /\ cur'[q] = queue'[i]
        <3>1. ASSUME NEW i \in 1 .. Len(queue)
              PROVE  \E q \in Procs : pc'[q] = "io" /\ cur'[q] = queue'[i]
            <4>1. PICK q \in Procs : pc[q] = "io" /\ cur[q] = queue[i]
                BY DEF QueueInv
            <4> QED
                BY <2>2, <2>5, <4>1
        <3>2. pc'[p] = "io" /\ cur'[p] = queue'[Len(queue) + 1]
            BY <2>1, <2>2, <2>5
        <3> QED
            BY <2>5, <3>1, <3>2
    <2>8. ASSUME NEW q \in Procs, pc'[q] = "io"
          PROVE  \/ \E i \in 1 .. Len(queue') : queue'[i] = cur'[q]
                 \/ valid'[cur'[q]] /\ ~dirty'[cur'[q]]
        <3>1. CASE q = p
            <4>1. Len(queue) + 1 \in 1 .. Len(queue')
                BY <2>5
            <4> QED
                BY <2>1, <2>2, <2>5, <3>1, <4>1
        <3>2. CASE q # p
            <4>1. pc[q] = "io" /\ cur'[q] = cur[q]
                BY <2>2, <2>8, <3>2
            <4>2. \A i \in 1 .. Len(queue) : i \in 1 .. Len(queue')
                BY <2>5
            <4>3. valid' = valid /\ dirty' = dirty
                BY <1>5 DEF Iderw, bufVars
            <4> QED
                BY <2>5, <4>1, <4>2, <4>3 DEF QueueInv
        <3> QED
            BY <3>1, <3>2
    <2>9. cmd' = IF queue' = <<>> THEN NoCmd ELSE DiskCommand(queue[1])'
        <3>1. queue' # <<>>
            BY <2>5
        <3>2. CASE queue = <<>>
            <4>1. queue'[1] = b
                BY <2>5, <3>2
            <4> QED
                BY <2>2, <2>3, <3>1, <3>2, <4>1
        <3>3. CASE queue # <<>>
            <4>1. 1 \in 1 .. Len(queue) /\ cmd = DiskCommand(queue[1])
                BY <3>3, Command
            <4> QED
                BY <2>2, <2>3, <2>5, <3>1, <3>3, <4>1
        <3> QED
            BY <3>2, <3>3
    <2>10. \A i \in 1 .. Len(queue') : valid'[queue'[i]] => dirty'[queue'[i]]
        <3>1. valid[b] => dirty[b]
            BY <2>1, <2>2 DEF DataInv
        <3>2. valid' = valid /\ dirty' = dirty
            BY <1>5 DEF Iderw, bufVars
        <3>3. \A i \in 1 .. Len(queue) : valid[queue[i]] => dirty[queue[i]]
            BY DEF QueueInv
        <3> QED
            BY <2>5, <3>1, <3>2, <3>3
    <2> QED
        BY <2>6, <2>7, <2>8, <2>9, <2>10 DEF QueueInv
<1>6. ASSUME NEW p \in Procs, IderwDone(p)
      PROVE  QueueInv'
    <2>1. /\ pc[p] = "io" /\ valid[cur[p]] /\ ~dirty[cur[p]]
          /\ queue' = queue /\ cmd' = cmd /\ pc'[p] = "run"
          /\ \A q \in Procs \ {p} : pc'[q] = pc[q] /\ cur'[q] = cur[q]
        BY <1>6 DEF IderwDone, Give, TypeOK
    <2>2. blk' = blk /\ valid' = valid /\ dirty' = dirty /\ data' = data
        BY <1>6 DEF IderwDone, bufVars
    <2>3. \A d : DiskCommand(d)' = DiskCommand(d)
        BY <2>2 DEF DiskCommand
    <2>4. \A i \in 1 .. Len(queue) : queue[i] # cur[p]
        BY <2>1 DEF QueueInv
    <2>5. \A i \in 1 .. Len(queue') : \E q \in Procs : pc'[q] = "io" /\ cur'[q] = queue'[i]
        BY <2>1, <2>4 DEF QueueInv
    <2>6. \A q \in Procs : pc'[q] = "io" =>
             \/ \E i \in 1 .. Len(queue') : queue'[i] = cur'[q]
             \/ valid'[cur'[q]] /\ ~dirty'[cur'[q]]
        BY <2>1, <2>2 DEF QueueInv
    <2>7. cmd' = IF queue' = <<>> THEN NoCmd ELSE DiskCommand(queue[1])'
        BY <2>1, <2>3 DEF QueueInv
    <2>8. \A i \in 1 .. Len(queue') : valid'[queue'[i]] => dirty'[queue'[i]]
        BY <2>1, <2>2 DEF QueueInv
    <2> QED
        BY <2>1, <2>5, <2>6, <2>7, <2>8 DEF QueueInv
<1>7. ASSUME Ideintr
      PROVE  QueueInv'
    <2>1. PICK b \in Bufs : b = queue[1] /\ b = Head(queue)
        BY <1>7, Command, Queued DEF Ideintr
    <2>2. /\ queue # <<>> /\ queue' = Tail(queue) /\ cmd' = StartNext
          /\ blk' = blk /\ pc' = pc /\ cur' = cur
        BY <1>7 DEF Ideintr, procVars
    <2>3. /\ valid' = [valid EXCEPT ![b] = TRUE]
          /\ dirty' = [dirty EXCEPT ![b] = FALSE]
          /\ data' = IF dirty[b] THEN data ELSE [data EXCEPT ![b] = disk[cmd.block]]
        BY <1>7, <2>1 DEF Ideintr
    <2>4. valid'[b] /\ ~dirty'[b]
          /\ \A d \in Bufs \ {b} :
                 valid'[d] = valid[d] /\ dirty'[d] = dirty[d] /\ data'[d] = data[d]
        BY <2>3 DEF TypeOK
    <2>5. /\ Len(queue) \in Nat \ {0} /\ Len(queue') = Len(queue) - 1
          /\ \A i \in 1 .. Len(queue') : queue'[i] = queue[i + 1]
        BY <2>2 DEF TypeOK
    <2>6. \A i \in 1 .. Len(queue') : i + 1 \in 1 .. Len(queue) /\ queue[i + 1] \in Bufs \ {b}
        <3>1. \A i \in 1 .. Len(queue') : i + 1 \in 1 .. Len(queue) /\ i + 1 # 1
            BY <2>5
        <3>2. 1 \in 1 .. Len(queue)
            BY <2>5
        <3> QED
            BY <2>1, <3>1, <3>2, Queued DEF QueueInv
    <2>7. \A i, j \in 1 .. Len(queue') : queue'[i] = queue'[j] => i = j
        <3> SUFFICES ASSUME NEW i \in 1 .. Len(queue'), NEW j \in 1 .. Len(queue'),
                            queue'[i] = queue'[j]
                     PROVE  i = j
            OBVIOUS
        <3>1. i + 1 = j + 1
            BY <2>5, <2>6 DEF QueueInv
        <3> QED
            BY <2>5, <3>1
    <2>8. \A i \in 1 .. Len(queue') : \E q \in Procs : pc'[q] = "io" /\ cur'[q] = queue'[i]
        BY <2>2, <2>5, <2>6 DEF QueueInv
    <2>9. ASSUME NEW q \in Procs, pc'[q] = "io"
          PROVE  \/ \E i \in 1 .. Len(queue') : queue'[i] = cur'[q]
                 \/ valid'[cur'[q]] /\ ~dirty'[cur'[q]]
        <3>1. pc[q] = "io" /\ cur'[q] = cur[q] /\ cur[q] \in Bufs
            BY <2>2, <2>9, InCall
        <3>2. CASE cur[q] = b
            BY <2>4, <3>1, <3>2
        <3>3. CASE cur[q] # b
            <4>1. CASE valid[cur[q]] /\ ~dirty[cur[q]]
                BY <2>4, <3>1, <3>3, <4>1
            <4>2. CASE ~(valid[cur[q]] /\ ~dirty[cur[q]])
                <5>1. PICK i \in 1 .. Len(queue) : queue[i] = cur[q]
                    BY <3>1, <4>2 DEF QueueInv
                <5>2. i # 1 /\ i - 1 \in 1 .. Len(queue') /\ (i - 1) + 1 = i
                    BY <2>1, <2>5, <3>3, <5>1
                <5> QED
                    BY <2>5, <3>1, <5>1, <5>2
            <4> QED
                BY <4>1, <4>2
        <3> QED
            BY <3>2, <3>3
    <2>10. cmd' = IF queue' = <<>> THEN NoCmd ELSE DiskCommand(queue[1])'
        <3>1. CASE Len(queue) > 1
            <4>1. queue' # <<>> /\ 1 \in 1 .. Len(queue') /\ queue'[1] = queue[2]
                BY <2>5, <3>1
            <4>2. queue[2] \in Bufs \ {b}
                BY <2>6, <4>1
            <4>3. DiskCommand(queue[1])' = DiskCommand(queue[2])
                BY <2>2, <2>4, <4>1, <4>2 DEF DiskCommand
            <4> QED
                BY <2>2, <3>1, <4>1, <4>3 DEF StartNext
        <3>2. CASE ~(Len(queue) > 1)
            <4>1. queue' = <<>>
                BY <2>2, <2>5, <3>2 DEF TypeOK
            <4> QED
                BY <2>2, <3>2, <4>1 DEF StartNext
        <3> QED
            BY <3>1, <3>2
    <2>11. \A i \in 1 .. Len(queue') : valid'[queue'[i]] => dirty'[queue'[i]]
        BY <2>4, <2>5, <2>6 DEF QueueInv
    <2> QED
        BY <2>7, <2>8, <2>9, <2>10, <2>11 DEF QueueInv
<1>8. CASE UNCHANGED vars
    <2>1. /\ queue' = queue /\ cmd' = cmd /\ pc' = pc /\ cur' = cur
          /\ blk' = blk /\ valid' = valid /\ dirty' = dirty /\ data' = data
        BY <1>8 DEF vars, bufVars, procVars
    <2>2. DiskCommand(queue[1])' = DiskCommand(queue[1])
        BY <2>1 DEF DiskCommand
    <2>3. cmd' = IF queue' = <<>> THEN NoCmd ELSE DiskCommand(queue[1])'
        BY <2>1, <2>2 DEF QueueInv
    <2> QED
        BY <2>1, <2>3 DEF QueueInv
<1> QED
    BY <1>1, <1>2, <1>3, <1>4, <1>5, <1>6, <1>7, <1>8, StepCases

-----------------------------------------------------------------------------
THEOREM DataPreserved ==
    ASSUME TypeOK, RefInv, LockInv, QueueInv, DataInv, [Next]_vars, TypeOK'
    PROVE  DataInv'
<1>0. NoBuf \notin Bufs /\ NoBlock \notin Blocks
    BY Constants
<1>1. ASSUME NEW p \in Procs, NEW n \in Blocks, BgetHit(p, n)
      PROVE  DataInv'
    <2>1. /\ \A b : Same(b)
          /\ disk' = disk /\ held' = held /\ pc'[p] = "lock"
          /\ \A q \in Procs \ {p} : pc'[q] = pc[q] /\ cur'[q] = cur[q]
        BY <1>1 DEF BgetHit, Same, TypeOK
    <2> QED
        BY <2>1 DEF DataInv, Same
<1>2. ASSUME NEW p \in Procs, NEW n \in Blocks, BgetMiss(p, n)
      PROVE  DataInv'
    <2>1. PICK b \in Bufs : /\ Recyclable(b)
                            /\ blk' = [blk EXCEPT ![b] = n]
                            /\ valid' = [valid EXCEPT ![b] = FALSE]
                            /\ dirty' = [dirty EXCEPT ![b] = FALSE]
                            /\ cur' = [cur EXCEPT ![p] = b]
        BY <1>2 DEF BgetMiss
    <2>2. /\ ~valid'[b] /\ ~dirty'[b] /\ \A d \in Bufs \ {b} : Same(d)
          /\ disk' = disk /\ held' = held /\ pc'[p] = "lock"
          /\ \A q \in Procs \ {p} : pc'[q] = pc[q] /\ cur'[q] = cur[q]
        BY <1>2, <2>1 DEF BgetMiss, Same, TypeOK
    <2>3. \A q \in Procs : b \notin held[q] /\ cur[q] # b
        BY <2>1, Counted DEF Recyclable, Users
    <2>4. \A d \in Bufs : valid'[d] /\ ~dirty'[d] =>
                             blk'[d] \in Blocks /\ data'[d] = disk'[blk'[d]]
        BY <2>2 DEF DataInv, Same
    <2>5. \A d \in Bufs : dirty'[d] => valid'[d]
        BY <2>2 DEF DataInv, Same
    <2>6. \A q \in Procs : \A d \in held'[q] : valid'[d]
        BY <2>2, <2>3, Having DEF DataInv, Same
    <2>7. \A q \in Procs : pc'[q] = "rw" => (valid'[cur'[q]] => dirty'[cur'[q]])
        BY <2>2, <2>3, InCall DEF DataInv, Same
    <2> QED
        BY <2>4, <2>5, <2>6, <2>7 DEF DataInv
<1>3. ASSUME NEW p \in Procs, LockBuf(p)
      PROVE  DataInv'
    <2>1. /\ \A b : Same(b)
          /\ disk' = disk
          /\ \A q \in Procs \ {p} : pc'[q] = pc[q] /\ cur'[q] = cur[q] /\ held'[q] = held[q]
        BY <1>3 DEF LockBuf, Give, Same, TypeOK
    <2>2. \/ valid[cur[p]] /\ pc'[p] = "run" /\ held'[p] = held[p] \cup {cur[p]}
          \/ ~valid[cur[p]] /\ pc'[p] = "rw" /\ held'[p] = held[p] /\ cur'[p] = cur[p]
        BY <1>3 DEF LockBuf, Give, TypeOK
    <2>3. \A q \in Procs : \A d \in held'[q] : valid'[d]
        BY <2>1, <2>2 DEF DataInv, Same
    <2>4. \A q \in Procs : pc'[q] = "rw" => (valid'[cur'[q]] => dirty'[cur'[q]])
        BY <2>1, <2>2 DEF DataInv, Same
    <2> QED
        BY <2>1, <2>3, <2>4 DEF DataInv, Same
<1>4. ASSUME NEW p \in Procs, NEW b \in held[p], NEW v \in Vals,
             LogWrite(p, b, v) \/ Bwrite(p, b, v)
      PROVE  DataInv'
    <2>1. /\ blk' = blk /\ valid' = valid /\ disk' = disk
          /\ dirty' = [dirty EXCEPT ![b] = TRUE] /\ data' = [data EXCEPT ![b] = v]
        BY <1>4 DEF LogWrite, Bwrite
    <2>2. b \in Bufs /\ valid[b]
        BY Having
    <2>3. dirty'[b] /\ \A d \in Bufs \ {b} : dirty'[d] = dirty[d] /\ data'[d] = data[d]
        BY <2>1, <2>2 DEF TypeOK
    <2>4. /\ held'[p] \subseteq held[p]
          /\ pc'[p] = "rw" => cur'[p] = b
          /\ \A q \in Procs \ {p} : pc'[q] = pc[q] /\ cur'[q] = cur[q] /\ held'[q] = held[q]
        BY <1>4 DEF LogWrite, Bwrite, procVars, TypeOK
    <2>5. \A d \in Bufs : valid'[d] /\ ~dirty'[d] =>
                             blk'[d] \in Blocks /\ data'[d] = disk'[blk'[d]]
        BY <2>1, <2>3 DEF DataInv
    <2>6. \A d \in Bufs : dirty'[d] => valid'[d]
        BY <2>1, <2>2, <2>3 DEF DataInv
    <2>7. \A q \in Procs : \A d \in held'[q] : valid'[d]
        BY <2>1, <2>4 DEF DataInv
    <2>8. \A q \in Procs : pc'[q] = "rw" => (valid'[cur'[q]] => dirty'[cur'[q]])
        BY <2>1, <2>3, <2>4, InCall DEF DataInv
    <2> QED
        BY <2>5, <2>6, <2>7, <2>8 DEF DataInv
<1>5. ASSUME NEW p \in Procs,
             Unref(p) \/ Iderw(p) \/ \E b \in held[p] : Brelse(p, b)
      PROVE  DataInv'
    <2>1. /\ blk' = blk /\ valid' = valid /\ dirty' = dirty /\ data' = data /\ disk' = disk
          /\ pc'[p] # "rw" /\ held'[p] \subseteq held[p]
          /\ \A q \in Procs \ {p} : pc'[q] = pc[q] /\ cur'[q] = cur[q] /\ held'[q] = held[q]
        BY <1>5 DEF Unref, Iderw, Brelse, bufVars, TypeOK
    <2> QED
        BY <2>1 DEF DataInv
<1>6. ASSUME NEW p \in Procs, IderwDone(p)
      PROVE  DataInv'
    <2>1. /\ blk' = blk /\ valid' = valid /\ dirty' = dirty /\ data' = data /\ disk' = disk
          /\ pc'[p] = "run" /\ held'[p] = held[p] \cup {cur[p]} /\ valid[cur[p]]
          /\ \A q \in Procs \ {p} : pc'[q] = pc[q] /\ cur'[q] = cur[q] /\ held'[q] = held[q]
        BY <1>6 DEF IderwDone, Give, bufVars, TypeOK
    <2> QED
        BY <2>1 DEF DataInv
<1>7. ASSUME Ideintr
      PROVE  DataInv'
    <2>1. PICK b \in Bufs : /\ b = Head(queue) /\ b = queue[1]
                            /\ blk[b] \in Blocks /\ cmd.block = blk[b]
                            /\ cmd.write = dirty[b] /\ cmd.val = data[b]
        BY <1>7, Command, Queued DEF Ideintr
    <2>2. /\ blk' = blk /\ pc' = pc /\ cur' = cur /\ held' = held
          /\ disk' = IF dirty[b] THEN [disk EXCEPT ![blk[b]] = data[b]] ELSE disk
          /\ data' = IF dirty[b] THEN data ELSE [data EXCEPT ![b] = disk[blk[b]]]
          /\ valid' = [valid EXCEPT ![b] = TRUE]
          /\ dirty' = [dirty EXCEPT ![b] = FALSE]
        BY <1>7, <2>1 DEF Ideintr, procVars
    <2>3. PICK q \in Procs : pc[q] = "io" /\ holder[b] = q
        BY <1>7, <2>1, Command, Queued DEF Ideintr
    <2>4. valid'[b] /\ ~dirty'[b]
          /\ \A d \in Bufs \ {b} : Same(d)
        BY <2>2 DEF Same, TypeOK
    <2>5. \A d \in Bufs : valid'[d] /\ ~dirty'[d] =>
                             blk'[d] \in Blocks /\ data'[d] = disk'[blk'[d]]
        <3>1. data'[b] = disk'[blk'[b]]
            BY <2>1, <2>2 DEF TypeOK
        <3>2. ASSUME NEW d \in Bufs \ {b}, valid'[d], ~dirty'[d]
              PROVE  blk'[d] \in Blocks /\ data'[d] = disk'[blk'[d]]
            <4>1. blk[d] \in Blocks /\ data[d] = disk[blk[d]]
                BY <2>4, <3>2 DEF DataInv, Same
            <4>2. blk[d] # blk[b]
                BY <1>0, <4>1 DEF RefInv
            <4> QED
                BY <2>1, <2>2, <2>4, <4>1, <4>2 DEF Same, TypeOK
        <3> QED
            BY <2>1, <2>2, <3>1, <3>2
    <2>6. \A d \in Bufs : dirty'[d] => valid'[d]
        BY <2>4 DEF DataInv, Same
    <2>7. \A r \in Procs : \A d \in held'[r] : valid'[d]
        BY <2>2, <2>4, Having DEF DataInv, Same
    <2>8. \A r \in Procs : pc'[r] = "rw" => (valid'[cur'[r]] => dirty'[cur'[r]])
        <3>1. ASSUME NEW r \in Procs, pc[r] = "rw"
              PROVE  cur[r] \in Bufs \ {b} /\ (valid[cur[r]] => dirty[cur[r]])
            BY <2>3, <3>1, InCall DEF DataInv
        <3> QED
            BY <2>2, <2>4, <3>1 DEF Same
    <2> QED
        BY <2>5, <2>6, <2>7, <2>8 DEF DataInv
<1>8. CASE UNCHANGED vars
    BY <1>8 DEF vars, bufVars, procVars, DataInv
<1> QED
    BY <1>1, <1>2, <1>3, <1>4, <1>5, <1>6, <1>7, <1>8, StepCases

-----------------------------------------------------------------------------
\* The list of brelse(): its buffer goes to the front and the rest keep their order.
LEMMA OrderPreserved ==
    ASSUME TypeOK, RefInv, LockInv, IsOrder(lru), [Next]_vars
    PROVE  IsOrder(lru')
<1>1. ASSUME NEW p \in Procs, Unref(p)
      PROVE  IsOrder(lru')
    <2>1. PICK b \in Bufs : b = cur[p]
        BY <1>1, InCall DEF Unref
    <2>2. IsOrder(ToFront(b))
        <3>1. \A d, e \in Bufs :
                 <<d, e>> \in ToFront(b) <=> (<<d, e>> \in lru /\ e # b) \/ (d = b /\ e # b)
            BY DEF ToFront
        <3>2. \A d, e \in Bufs : d # e => (<<d, e>> \in ToFront(b) <=> <<e, d>> \notin ToFront(b))
            BY <3>1 DEF IsOrder
        <3>3. \A d \in Bufs : <<d, d>> \notin ToFront(b)
            BY <3>1 DEF IsOrder
        <3>4. ASSUME NEW d \in Bufs, NEW e \in Bufs, NEW f \in Bufs,
                     <<d, e>> \in ToFront(b), <<e, f>> \in ToFront(b)
              PROVE  <<d, f>> \in ToFront(b)
            BY <3>1, <3>4 DEF IsOrder
        <3> QED
            BY <3>2, <3>3, <3>4 DEF IsOrder
    <2> QED
        BY <1>1, <2>1, <2>2 DEF Unref
<1>2. CASE UNCHANGED lru
    BY <1>2
<1> QED
    BY <1>1, <1>2, StepCases DEF BgetHit, BgetMiss, LockBuf, Iderw, IderwDone, Brelse,
                                 LogWrite, Bwrite, Ideintr, vars, bufVars

-----------------------------------------------------------------------------
\* What a process has of its share.
Taken(p) == Cardinality(held[p]) + (IF pc[p] = "run" THEN 0 ELSE 1)

LEMMA Finite ==
    ASSUME TypeOK
    PROVE  /\ \A p \in Procs : IsFiniteSet(held[p]) /\ Cardinality(held[p]) \in Nat
           /\ IsFiniteSet(Pinned) /\ Cardinality(Pinned) \in Nat
<1>1. \A p \in Procs : held[p] \in SUBSET Bufs
    BY DEF TypeOK
<1>2. Pinned \in SUBSET Bufs
    BY DEF Pinned
<1>3. \A S \in SUBSET Bufs : IsFiniteSet(S) /\ Cardinality(S) \in Nat
    BY Constants, FS_Subset, FS_CardinalityType
<1> QED
    BY <1>1, <1>2, <1>3

LEMMA SharePreserved ==
    ASSUME TypeOK, RefInv, LockInv, QueueInv, DataInv, ShareInv, [Next]_vars
    PROVE  \A p \in Procs : Taken(p)' <= MaxHeld
<1>0. MaxHeld \in Nat /\ \A p \in Procs : Taken(p) <= MaxHeld
    BY CacheAssumption DEF ShareInv, Taken
<1>1. ASSUME NEW p \in Procs,
             \A q \in Procs \ {p} : pc'[q] = pc[q] /\ held'[q] = held[q],
             Taken(p)' <= MaxHeld
      PROVE  \A q \in Procs : Taken(q)' <= MaxHeld
    BY <1>0, <1>1 DEF Taken
<1>2. ASSUME NEW p \in Procs, NEW n \in Blocks, BgetHit(p, n) \/ BgetMiss(p, n)
      PROVE  \A q \in Procs : Taken(q)' <= MaxHeld
    <2>1. /\ held' = held /\ pc'[p] = "lock" /\ Cardinality(held[p]) < MaxHeld
          /\ \A q \in Procs \ {p} : pc'[q] = pc[q]
        BY <1>2 DEF BgetHit, BgetMiss, Calls, TypeOK
    <2>2. Taken(p)' <= MaxHeld
        BY <1>0, <2>1, Finite DEF Taken
    <2> QED
        BY <1>1, <2>1, <2>2
<1>3. ASSUME NEW p \in Procs, LockBuf(p) \/ IderwDone(p)
      PROVE  \A q \in Procs : Taken(q)' <= MaxHeld
    <2>1. /\ \/ pc'[p] = "run" /\ held'[p] = held[p] \cup {cur[p]}
             \/ pc'[p] # "run" /\ held'[p] = held[p]
          /\ \A q \in Procs \ {p} : pc'[q] = pc[q] /\ held'[q] = held[q]
          /\ pc[p] # "run"
        BY <1>3 DEF LockBuf, IderwDone, Give, TypeOK
    <2>2. Cardinality(held[p] \cup {cur[p]}) = Cardinality(held[p]) + 1
        BY Finite, FS_AddElement DEF RefInv
    <2>3. Taken(p)' <= MaxHeld
        <3>1. Taken(p) <= MaxHeld /\ Cardinality(held[p]) \in Nat
            BY <1>0, Finite
        <3>2. Taken(p) = Cardinality(held[p]) + 1
            BY <2>1 DEF Taken
        <3>3. Taken(p)' = Taken(p)
            <4>1. CASE pc'[p] = "run" /\ held'[p] = held[p] \cup {cur[p]}
                BY <2>2, <3>1, <3>2, <4>1 DEF Taken
            <4>2. CASE pc'[p] # "run" /\ held'[p] = held[p]
                BY <3>2, <4>2 DEF Taken
            <4> QED
                BY <2>1, <4>1, <4>2
        <3> QED
            BY <3>1, <3>3
    <2> QED
        BY <1>1, <2>1, <2>3
<1>4. ASSUME NEW p \in Procs, NEW b \in held[p],
             (\E v \in Vals : Bwrite(p, b, v)) \/ Brelse(p, b)
      PROVE  \A q \in Procs : Taken(q)' <= MaxHeld
    <2>1. /\ pc[p] = "run" /\ pc'[p] # "run" /\ held'[p] = held[p] \ {b}
          /\ \A q \in Procs \ {p} : pc'[q] = pc[q] /\ held'[q] = held[q]
        BY <1>4 DEF Bwrite, Brelse, TypeOK
    <2>2. Cardinality(held[p] \ {b}) = Cardinality(held[p]) - 1
        BY Finite, FS_RemoveElement
    <2>3. Taken(p)' <= MaxHeld
        <3>1. Taken(p) <= MaxHeld /\ Cardinality(held[p]) \in Nat
            BY <1>0, Finite
        <3> QED
            BY <1>0, <2>1, <2>2, <3>1 DEF Taken
    <2> QED
        BY <1>1, <2>1, <2>3
<1>5. ASSUME NEW p \in Procs, Unref(p) \/ Iderw(p)
      PROVE  \A q \in Procs : Taken(q)' <= MaxHeld
    <2>1. /\ pc[p] # "run" /\ held' = held
          /\ \A q \in Procs \ {p} : pc'[q] = pc[q]
        BY <1>5 DEF Unref, Iderw, TypeOK
    <2>2. Taken(p)' <= MaxHeld
        <3>1. Taken(p) <= MaxHeld /\ Cardinality(held[p]) \in Nat
            BY <1>0, Finite
        <3> QED
            BY <1>0, <2>1, <3>1 DEF Taken
    <2> QED
        BY <1>1, <2>1, <2>2
<1>6. CASE Ideintr \/ UNCHANGED vars
              \/ \E p \in Procs : \E b \in held[p], v \in Vals : LogWrite(p, b, v)
    <2>1. pc' = pc /\ held' = held
        BY <1>6 DEF Ideintr, LogWrite, vars, procVars
    <2> QED
        BY <1>0, <2>1 DEF Taken
<1> QED
    BY <1>2, <1>3, <1>4, <1>5, <1>6, StepCases

-----------------------------------------------------------------------------
\* Only log_write() pins a buffer: bwrite() has its buffer on the way to the disk
\* until it is clean.
Moves(p) == pc[p] \in {"rw", "io"}

LEMMA PinnedCases ==
    ASSUME NEW b \in Bufs
    PROVE  b \in Pinned <=> dirty[b] /\ \A p \in Procs : Moves(p) => cur[p] # b
    BY DEF Pinned, InTransit, Moves

LEMMA PinnedShrinks ==
    ASSUME TypeOK, ShareInv, [Next]_vars, Pinned' \subseteq Pinned
    PROVE  Cardinality(Pinned') <= MaxPinned
<1>1. Cardinality(Pinned') <= Cardinality(Pinned) /\ IsFiniteSet(Pinned')
    BY Finite, FS_Subset
<1>2. Cardinality(Pinned') \in Nat /\ Cardinality(Pinned) \in Nat /\ MaxPinned \in Nat
    BY <1>1, Finite, FS_CardinalityType, CacheAssumption
<1> QED
    BY <1>1, <1>2 DEF ShareInv

LEMMA PinPreserved ==
    ASSUME TypeOK, RefInv, LockInv, QueueInv, DataInv, ShareInv, [Next]_vars
    PROVE  Cardinality(Pinned') <= MaxPinned
<1>0. NoBuf \notin Bufs
    BY Constants
<1>1. ASSUME NEW p \in Procs,
             \A q \in Procs \ {p} : pc'[q] = pc[q] /\ cur'[q] = cur[q],
             \A b \in Bufs : dirty'[b] /\ ~(Moves(p)' /\ cur'[p] = b)
                                 => dirty[b] /\ ~(Moves(p) /\ cur[p] = b)
      PROVE  Cardinality(Pinned') <= MaxPinned
    <2>1. ASSUME NEW b \in Bufs, b \in Pinned'
          PROVE  b \in Pinned
        <3>1. dirty'[b] /\ \A q \in Procs : Moves(q)' => cur'[q] # b
            BY <2>1 DEF Pinned, InTransit, Moves
        <3>2. dirty[b] /\ \A q \in Procs : Moves(q) => cur[q] # b
            BY <1>1, <3>1 DEF Moves
        <3> QED
            BY <3>2, PinnedCases
    <2>2. Pinned' \subseteq Pinned
        BY <2>1 DEF Pinned
    <2> QED
        BY <2>2, PinnedShrinks
<1>2. ASSUME NEW p \in Procs, NEW n \in Blocks, BgetHit(p, n) \/ BgetMiss(p, n)
      PROVE  Cardinality(Pinned') <= MaxPinned
    <2>1. PICK b \in Bufs : cur' = [cur EXCEPT ![p] = b]
        BY <1>2 DEF BgetHit, BgetMiss, Cached
    <2>2. /\ pc[p] = "run" /\ pc'[p] = "lock"
          /\ \A q \in Procs \ {p} : pc'[q] = pc[q] /\ cur'[q] = cur[q]
        BY <1>2, <2>1 DEF BgetHit, BgetMiss, Calls, TypeOK
    <2>3. \A d \in Bufs : dirty'[d] => dirty[d]
        BY <1>2 DEF BgetHit, BgetMiss, TypeOK
    <2> QED
        BY <1>1, <2>2, <2>3 DEF Moves
<1>3. ASSUME NEW p \in Procs, LockBuf(p) \/ Iderw(p) \/ IderwDone(p) \/ Unref(p)
      PROVE  Cardinality(Pinned') <= MaxPinned
    <2>1. dirty' = dirty /\ \A q \in Procs \ {p} : pc'[q] = pc[q] /\ cur'[q] = cur[q]
        BY <1>3 DEF LockBuf, Iderw, IderwDone, Unref, Give, bufVars, TypeOK
    <2>2. \/ ~Moves(p)
          \/ Moves(p) /\ Moves(p)' /\ cur'[p] = cur[p]
          \/ ~dirty[cur[p]]
        BY <1>3 DEF LockBuf, Iderw, IderwDone, Unref, Moves, TypeOK
    <2> QED
        BY <1>1, <2>1, <2>2
<1>4. ASSUME NEW p \in Procs, NEW b \in held[p], NEW v \in Vals, Bwrite(p, b, v)
      PROVE  Cardinality(Pinned') <= MaxPinned
    <2>1. /\ pc[p] = "run" /\ pc'[p] = "rw" /\ cur'[p] = b
          /\ \A q \in Procs \ {p} : pc'[q] = pc[q] /\ cur'[q] = cur[q]
          /\ \A d \in Bufs \ {b} : dirty'[d] = dirty[d]
        BY <1>4 DEF Bwrite, TypeOK
    <2> QED
        BY <1>1, <2>1 DEF Moves
<1>5. ASSUME NEW p \in Procs, NEW b \in held[p], Brelse(p, b)
      PROVE  Cardinality(Pinned') <= MaxPinned
    <2>1. /\ pc[p] = "run" /\ dirty' = dirty
          /\ \A q \in Procs \ {p} : pc'[q] = pc[q] /\ cur'[q] = cur[q]
        BY <1>5 DEF Brelse, TypeOK
    <2> QED
        BY <1>1, <2>1 DEF Moves
<1>6. ASSUME NEW p \in Procs, NEW b \in held[p], NEW v \in Vals, LogWrite(p, b, v)
      PROVE  Cardinality(Pinned') <= MaxPinned
    <2>1. /\ pc' = pc /\ cur' = cur /\ InTransit' = InTransit
          /\ dirty' = [dirty EXCEPT ![b] = TRUE]
        BY <1>6 DEF LogWrite, procVars, InTransit
    <2>2. CASE dirty[b]
        <3>1. Pinned' \subseteq Pinned
            BY <2>1, <2>2 DEF Pinned, TypeOK
        <3> QED
            BY <3>1, PinnedShrinks
    <2>3. CASE Cardinality(Pinned) < MaxPinned
        <3>1. Pinned' \in SUBSET (Pinned \cup {b})
            BY <2>1 DEF Pinned, TypeOK
        <3>2. /\ IsFiniteSet(Pinned \cup {b})
              /\ Cardinality(Pinned \cup {b}) <= Cardinality(Pinned) + 1
            <4>1. IsFiniteSet(Pinned) /\ Cardinality(Pinned) \in Nat
                BY Finite
            <4>2. /\ IsFiniteSet(Pinned \cup {b})
                  /\ \/ Cardinality(Pinned \cup {b}) = Cardinality(Pinned)
                     \/ Cardinality(Pinned \cup {b}) = Cardinality(Pinned) + 1
                BY <4>1, FS_AddElement
            <4> QED
                BY <4>1, <4>2
        <3>3. IsFiniteSet(Pinned') /\ Cardinality(Pinned') <= Cardinality(Pinned \cup {b})
            BY <3>1, <3>2, FS_Subset
        <3>4. /\ Cardinality(Pinned') \in Nat /\ Cardinality(Pinned \cup {b}) \in Nat
              /\ Cardinality(Pinned) \in Nat /\ MaxPinned \in Nat
            BY <3>2, <3>3, Finite, FS_CardinalityType, CacheAssumption
        <3> QED
            BY <2>3, <3>2, <3>3, <3>4
    <2> QED
        BY <1>6, <2>2, <2>3 DEF LogWrite
<1>7. CASE Ideintr \/ UNCHANGED vars
    <2>1. /\ pc' = pc /\ cur' = cur /\ InTransit' = InTransit
          /\ \A b \in Bufs : dirty'[b] => dirty[b]
        BY <1>7 DEF Ideintr, vars, procVars, bufVars, InTransit, TypeOK
    <2>2. Pinned' \subseteq Pinned
        BY <2>1 DEF Pinned
    <2> QED
        BY <2>2, PinnedShrinks
<1> QED
    BY <1>2, <1>3, <1>4, <1>5, <1>6, <1>7, StepCases

-----------------------------------------------------------------------------
THEOREM InitEstablishes ==
    ASSUME Init
    PROVE  CacheIInv
<1>1. TypeOK
    <2>1. NoCmd \in [block : Blocks \cup {NoBlock}, write : BOOLEAN, val : Vals]
        BY Constants DEF NoCmd
    <2>2. /\ blk \in [Bufs -> Blocks \cup {NoBlock}] /\ refcnt \in [Bufs -> Nat]
          /\ valid \in [Bufs -> BOOLEAN] /\ dirty \in [Bufs -> BOOLEAN]
        BY DEF Init
    <2>3. /\ data \in [Bufs -> Vals] /\ disk \in [Blocks -> Vals] /\ got \in [Procs -> Vals]
        BY Constants DEF Init
    <2>4. /\ holder \in [Bufs -> Procs \cup {NoProc}]
          /\ cur \in [Procs -> Bufs \cup {NoBuf}] /\ held \in [Procs -> SUBSET Bufs]
        BY DEF Init
    <2>5. lru \in SUBSET (Bufs \X Bufs) /\ queue \in Seq(Bufs) /\ pc \in [Procs -> Points]
        BY DEF Init, Points
    <2>6. cmd \in [block : Blocks \cup {NoBlock}, write : BOOLEAN, val : Vals]
        BY <2>1, Zenon DEF Init
    <2> QED
        BY <2>2, <2>3, <2>4, <2>5, <2>6 DEF TypeOK
<1>2. RefInv
    <2>1. \A b \in Bufs : Users(b) = {}
        BY Constants DEF Init, Users
    <2>2. \A b \in Bufs : refcnt[b] = Cardinality(Users(b))
        BY <2>1, FS_EmptySet DEF Init
    <2> QED
        BY <2>2, Constants DEF Init, RefInv
<1>3. LockInv
    BY Constants DEF Init, LockInv
<1>4. QueueInv
    BY DEF Init, QueueInv
<1>5. DataInv
    BY DEF Init, DataInv
<1>6. IsOrder(lru)
    BY DEF Init
<1>7. ShareInv
    <2>1. Pinned = {} /\ \A p \in Procs : held[p] = {} /\ pc[p] = "run"
        BY DEF Init, Pinned
    <2>2. Cardinality({}) = 0 /\ MaxHeld \in Nat \ {0} /\ MaxPinned \in Nat
        BY FS_EmptySet, CacheAssumption
    <2>3. \A p \in Procs : Cardinality(held[p]) = 0
        BY <2>1, <2>2
    <2>4. Cardinality(Pinned) = 0
        BY <2>1, <2>2
    <2> QED
        BY <2>1, <2>2, <2>3, <2>4 DEF ShareInv
<1> QED
    BY <1>1, <1>2, <1>3, <1>4, <1>5, <1>6, <1>7 DEF CacheIInv

\* The cache, its locks, its reference counts and the driver's queue agree, whatever
\* the number of processes, buffers and blocks (bio.c, sleeplock.c, ide.c).
THEOREM CacheInvariant == Spec => []CacheIInv
<1>1. Init => CacheIInv
    BY InitEstablishes
<1>2. CacheIInv /\ [Next]_vars => CacheIInv'
    <2> SUFFICES ASSUME CacheIInv, [Next]_vars
                 PROVE  CacheIInv'
        OBVIOUS
    <2>1. TypeOK /\ RefInv /\ LockInv /\ QueueInv /\ DataInv /\ IsOrder(lru) /\ ShareInv
        BY DEF CacheIInv
    <2>2. TypeOK'
        BY <2>1, TypePreserved
    <2>3. RefInv' /\ LockInv' /\ QueueInv' /\ DataInv'
        BY <2>1, <2>2, RefPreserved, LockPreserved, QueuePreserved, DataPreserved
    <2>4. IsOrder(lru)'
        BY <2>1, OrderPreserved DEF IsOrder
    <2>5. ShareInv'
        BY <2>1, SharePreserved, PinPreserved DEF ShareInv, Taken
    <2> QED
        BY <2>2, <2>3, <2>4, <2>5 DEF CacheIInv
<1> QED
    BY <1>1, <1>2, PTL DEF Spec

-----------------------------------------------------------------------------
(***************************************************************************)
(* The buffer cache implements BlockStore: seen through ContentsOf and     *)
(* OwnerOf, every step of a process or of the disk is a step of the store  *)
(* or none.                                                                *)
(***************************************************************************)
\* A block that has a buffer, before a step and after it.
LEMMA InBuffer ==
    ASSUME RefInv, NEW n \in Blocks, NEW b \in Bufs, blk[b] = n
    PROVE  /\ ContentsOf(n) = IF valid[b] THEN data[b] ELSE disk[n]
           /\ OwnerOf(n) = holder[b]
<1>1. \A e \in Bufs : blk[e] = n => e = b
    BY Constants DEF RefInv
<1>2. (CHOOSE e \in Bufs : blk[e] = n) = b
    BY <1>1
<1>3. (\E e \in Bufs : blk[e] = n /\ valid[e]) <=> valid[b]
    BY <1>1
<1>4. \E e \in Bufs : blk[e] = n
    OBVIOUS
<1>5. ContentsOf(n) = IF valid[b] THEN data[b] ELSE disk[n]
    BY <1>2, <1>3 DEF ContentsOf
<1>6. OwnerOf(n) = holder[b]
    BY <1>2, <1>4 DEF OwnerOf
<1> QED
    BY <1>5, <1>6

LEMMA InBufferNext ==
    ASSUME RefInv', NEW n \in Blocks, NEW b \in Bufs, blk'[b] = n
    PROVE  /\ ContentsOf(n)' = IF valid'[b] THEN data'[b] ELSE disk'[n]
           /\ OwnerOf(n)' = holder'[b]
<1>1. \A e \in Bufs : blk'[e] = n => e = b
    BY Constants DEF RefInv
<1>2. (CHOOSE e \in Bufs : blk'[e] = n) = b
    BY <1>1
<1>3. (\E e \in Bufs : blk'[e] = n /\ valid'[e]) <=> valid'[b]
    BY <1>1
<1>4. \E e \in Bufs : blk'[e] = n
    OBVIOUS
<1>5. ContentsOf(n)' = IF valid'[b] THEN data'[b] ELSE disk'[n]
    BY <1>2, <1>3 DEF ContentsOf
<1>6. OwnerOf(n)' = holder'[b]
    BY <1>2, <1>4 DEF OwnerOf
<1> QED
    BY <1>5, <1>6

\* A block that has none.
LEMMA Uncached ==
    ASSUME NEW n \in Blocks
    PROVE  /\ (\A b \in Bufs : blk[b] # n) => ContentsOf(n) = disk[n] /\ OwnerOf(n) = NoProc
           /\ (\A b \in Bufs : blk'[b] # n) =>
                  ContentsOf(n)' = disk'[n] /\ OwnerOf(n)' = NoProc
    BY DEF ContentsOf, OwnerOf

-----------------------------------------------------------------------------
\* A step that leaves the buffers other than b in place, and their blocks on the disk.
Rest(b, n) ==
    /\ \A d \in Bufs \ {b} : /\ blk'[d] = blk[d] /\ valid'[d] = valid[d]
                             /\ data'[d] = data[d] /\ holder'[d] = holder[d]
    /\ \A k \in Blocks \ {n} : disk'[k] = disk[k]

LEMMA OthersKept ==
    ASSUME RefInv, RefInv', NEW b, NEW n, Rest(b, n), NEW k \in Blocks \ {n},
           b \in Bufs => blk[b] # k /\ blk'[b] # k
    PROVE  ContentsOf(k)' = ContentsOf(k) /\ OwnerOf(k)' = OwnerOf(k)
<1>1. CASE \E d \in Bufs : blk[d] = k
    <2>1. PICK d \in Bufs : blk[d] = k
        BY <1>1
    <2>2. d # b /\ blk'[d] = k
        BY <2>1 DEF Rest
    <2>3. ContentsOf(k) = (IF valid[d] THEN data[d] ELSE disk[k]) /\ OwnerOf(k) = holder[d]
        BY <2>1, InBuffer
    <2>4. /\ ContentsOf(k)' = (IF valid'[d] THEN data'[d] ELSE disk'[k])
          /\ OwnerOf(k)' = holder'[d]
        BY <2>2, InBufferNext
    <2> QED
        BY <2>2, <2>3, <2>4 DEF Rest
<1>2. CASE \A d \in Bufs : blk[d] # k
    <2>1. \A d \in Bufs : blk'[d] # k
        BY <1>2 DEF Rest
    <2> QED
        BY <1>2, <2>1, Uncached DEF Rest
<1> QED
    BY <1>1, <1>2

-----------------------------------------------------------------------------
\* The store's steps, block by block.
LEMMA Taking ==
    ASSUME NEW p \in Procs, NEW n \in Blocks, OwnerOf(n) = NoProc, OwnerOf(n)' = p,
           \A k \in Blocks \ {n} : OwnerOf(k)' = OwnerOf(k),
           \A k \in Blocks : ContentsOf(k)' = ContentsOf(k)
    PROVE  Store!BTake(p, n)
    BY DEF Store!BTake

LEMMA Reading ==
    ASSUME NEW p \in Procs, NEW n \in Blocks, OwnerOf(n) = p,
           got' = [got EXCEPT ![p] = ContentsOf(n)],
           \A k \in Blocks : ContentsOf(k)' = ContentsOf(k) /\ OwnerOf(k)' = OwnerOf(k)
    PROVE  Store!BRead(p, n)
    BY DEF Store!BRead

LEMMA Putting ==
    ASSUME NEW p \in Procs, NEW n \in Blocks, NEW v \in Vals, OwnerOf(n) = p,
           ContentsOf(n)' = v, got' = got,
           \A k \in Blocks : OwnerOf(k)' = OwnerOf(k),
           \A k \in Blocks \ {n} : ContentsOf(k)' = ContentsOf(k)
    PROVE  Store!BPut(p, n, v)
    BY DEF Store!BPut

LEMMA Freeing ==
    ASSUME NEW p \in Procs, NEW n \in Blocks, OwnerOf(n) = p, OwnerOf(n)' = NoProc,
           got' = got,
           \A k \in Blocks \ {n} : OwnerOf(k)' = OwnerOf(k),
           \A k \in Blocks : ContentsOf(k)' = ContentsOf(k)
    PROVE  Store!BFree(p, n)
    BY DEF Store!BFree

LEMMA Staying ==
    ASSUME got' = got,
           \A k \in Blocks : ContentsOf(k)' = ContentsOf(k) /\ OwnerOf(k)' = OwnerOf(k)
    PROVE  UNCHANGED Store!bvars
    BY DEF Store!bvars

-----------------------------------------------------------------------------
\* The store starts as the cache and the disk do.
THEOREM StoreInit == Init => Store!BInit
<1> SUFFICES ASSUME Init PROVE Store!BInit
    OBVIOUS
<1>1. \A n \in Blocks : \A b \in Bufs : blk[b] # n
    BY Constants DEF Init
<1>2. \A n \in Blocks : ContentsOf(n) = Zero /\ OwnerOf(n) = NoProc
    BY <1>1 DEF ContentsOf, OwnerOf, Init
<1> QED
    BY <1>2 DEF Store!BInit, Init

\* Every step of the cache or the disk is a step of the store on one block, or none.
THEOREM StoreStep ==
    ASSUME CacheIInv, CacheIInv', [Next]_vars
    PROVE  [Store!BNext]_Store!bvars
<1>0. TypeOK /\ RefInv /\ LockInv /\ QueueInv /\ DataInv /\ RefInv' /\ LockInv' /\ TypeOK'
    BY DEF CacheIInv
<1> USE <1>0
<1>s. ASSUME got' = got, blk' = blk, holder' = holder,
             \A b \in Bufs : valid'[b] = valid[b] /\ data'[b] = data[b], disk' = disk
      PROVE  UNCHANGED Store!bvars
    <2>1. \A k \in Blocks : ContentsOf(k)' = ContentsOf(k) /\ OwnerOf(k)' = OwnerOf(k)
        <3> SUFFICES ASSUME NEW k \in Blocks
                     PROVE  ContentsOf(k)' = ContentsOf(k) /\ OwnerOf(k)' = OwnerOf(k)
            OBVIOUS
        <3>1. Rest(NoBuf, NoBlock) /\ NoBuf \notin Bufs /\ k # NoBlock
            BY <1>s, Constants DEF Rest
        <3> QED
            BY <3>1, OthersKept
    <2> QED
        BY <1>s, <2>1, Staying
<1>1. ASSUME NEW p \in Procs, NEW n \in Blocks, BgetHit(p, n)
      PROVE  UNCHANGED Store!bvars
    BY <1>1, <1>s DEF BgetHit
<1>2. ASSUME NEW p \in Procs, NEW n \in Blocks, BgetMiss(p, n)
      PROVE  UNCHANGED Store!bvars
    <2>1. PICK b \in Bufs : /\ Recyclable(b)
                            /\ blk' = [blk EXCEPT ![b] = n]
                            /\ valid' = [valid EXCEPT ![b] = FALSE]
        BY <1>2 DEF BgetMiss
    <2>2. /\ got' = got /\ data' = data /\ holder' = holder /\ disk' = disk
          /\ \A d \in Bufs : blk[d] # n
        BY <1>2 DEF BgetMiss, Cached
    <2>3. blk'[b] = n /\ ~valid'[b]
          /\ \A d \in Bufs \ {b} : blk'[d] = blk[d] /\ valid'[d] = valid[d]
        BY <2>1 DEF TypeOK
    <2>4. holder[b] = NoProc
        <3>1. \A p1 \in Procs : cur[p1] # b /\ b \notin held[p1]
            BY <2>1, Counted DEF Recyclable, Users
        <3> QED
            BY <3>1 DEF LockInv, TypeOK
    <2>5. ContentsOf(n)' = ContentsOf(n) /\ OwnerOf(n)' = OwnerOf(n)
        BY <2>2, <2>3, <2>4, Uncached, InBufferNext
    <2>6. ASSUME NEW k \in Blocks \ {n}, blk[b] = k
          PROVE  ContentsOf(k)' = ContentsOf(k) /\ OwnerOf(k)' = OwnerOf(k)
        <3>1. ContentsOf(k) = disk[k] /\ OwnerOf(k) = NoProc
            BY <2>1, <2>4, <2>6, InBuffer DEF Recyclable, DataInv
        <3>2. \A d \in Bufs : blk'[d] # k
            <4>1. \A d \in Bufs : blk[d] = k => d = b
                BY <2>6, Constants DEF RefInv
            <4> QED
                BY <2>3, <4>1
        <3> QED
            BY <2>2, <3>1, <3>2, Uncached
    <2>7. ASSUME NEW k \in Blocks \ {n}, blk[b] # k
          PROVE  ContentsOf(k)' = ContentsOf(k) /\ OwnerOf(k)' = OwnerOf(k)
        <3>1. Rest(b, n)
            BY <2>2, <2>3 DEF Rest
        <3> QED
            BY <2>3, <2>7, <3>1, OthersKept
    <2> QED
        BY <2>2, <2>5, <2>6, <2>7, Staying
<1>3. ASSUME NEW p \in Procs, LockBuf(p)
      PROVE  Store!BNext
    <2>1. PICK b \in Bufs, n \in Blocks : b = cur[p] /\ n = blk[b]
        BY <1>3, InCall DEF LockBuf
    <2>2. /\ holder[b] = NoProc /\ holder' = [holder EXCEPT ![b] = p]
          /\ blk' = blk /\ valid' = valid /\ data' = data /\ disk' = disk
          /\ \/ valid[b] /\ got' = [got EXCEPT ![p] = data[b]]
             \/ got' = got
        BY <1>3, <2>1 DEF LockBuf, Give
    <2>3. holder'[b] = p /\ \A d \in Bufs \ {b} : holder'[d] = holder[d]
        BY <2>2 DEF TypeOK
    <2>4. /\ ContentsOf(n) = (IF valid[b] THEN data[b] ELSE disk[n]) /\ OwnerOf(n) = NoProc
          /\ ContentsOf(n)' = ContentsOf(n) /\ OwnerOf(n)' = p
        BY <2>1, <2>2, <2>3, InBuffer, InBufferNext
    <2>5. ASSUME NEW k \in Blocks \ {n}
          PROVE  ContentsOf(k)' = ContentsOf(k) /\ OwnerOf(k)' = OwnerOf(k)
        <3>1. Rest(b, n)
            BY <2>2, <2>3 DEF Rest
        <3> QED
            BY <2>1, <2>2, <3>1, OthersKept
    <2>6. Store!BTake(p, n)
        BY <2>4, <2>5, Taking
    <2>7. Store!BGet(p, n) \/ Store!BWait(p, n)
        <3>1. CASE valid[b] /\ got' = [got EXCEPT ![p] = data[b]]
            BY <2>4, <2>6, <3>1 DEF Store!BGet
        <3>2. CASE got' = got
            BY <2>6, <3>2 DEF Store!BWait
        <3> QED
            BY <2>2, <3>1, <3>2
    <2> QED
        BY <2>7 DEF Store!BNext
<1>4. ASSUME NEW p \in Procs, NEW b \in held[p], NEW v \in Vals,
             LogWrite(p, b, v) \/ Bwrite(p, b, v)
      PROVE  Store!BNext
    <2>1. PICK n \in Blocks : n = blk[b] /\ b \in Bufs /\ holder[b] = p /\ valid[b]
        BY Having
    <2>2. /\ blk' = blk /\ valid' = valid /\ holder' = holder /\ disk' = disk /\ got' = got
          /\ data' = [data EXCEPT ![b] = v]
        BY <1>4 DEF LogWrite, Bwrite, procVars
    <2>3. data'[b] = v /\ \A d \in Bufs \ {b} : data'[d] = data[d]
        BY <2>1, <2>2 DEF TypeOK
    <2>4. OwnerOf(n) = p /\ OwnerOf(n)' = p /\ ContentsOf(n)' = v
        BY <2>1, <2>2, <2>3, InBuffer, InBufferNext
    <2>5. ASSUME NEW k \in Blocks \ {n}
          PROVE  ContentsOf(k)' = ContentsOf(k) /\ OwnerOf(k)' = OwnerOf(k)
        <3>1. Rest(b, n)
            BY <2>2, <2>3 DEF Rest
        <3> QED
            BY <2>1, <2>2, <3>1, OthersKept
    <2>6. Store!BPut(p, n, v)
        BY <2>2, <2>4, <2>5, Putting
    <2> QED
        BY <2>6 DEF Store!BNext
<1>5. ASSUME NEW p \in Procs, NEW b \in held[p], Brelse(p, b)
      PROVE  Store!BNext
    <2>1. PICK n \in Blocks : n = blk[b] /\ b \in Bufs /\ holder[b] = p
        BY Having
    <2>2. /\ blk' = blk /\ valid' = valid /\ data' = data /\ disk' = disk /\ got' = got
          /\ holder' = [holder EXCEPT ![b] = NoProc]
        BY <1>5 DEF Brelse
    <2>3. holder'[b] = NoProc /\ \A d \in Bufs \ {b} : holder'[d] = holder[d]
        BY <2>1, <2>2 DEF TypeOK
    <2>4. OwnerOf(n) = p /\ OwnerOf(n)' = NoProc /\ ContentsOf(n)' = ContentsOf(n)
        BY <2>1, <2>2, <2>3, InBuffer, InBufferNext
    <2>5. ASSUME NEW k \in Blocks \ {n}
          PROVE  ContentsOf(k)' = ContentsOf(k) /\ OwnerOf(k)' = OwnerOf(k)
        <3>1. Rest(b, n)
            BY <2>2, <2>3 DEF Rest
        <3> QED
            BY <2>1, <2>2, <3>1, OthersKept
    <2>6. Store!BFree(p, n)
        BY <2>2, <2>4, <2>5, Freeing
    <2> QED
        BY <2>6 DEF Store!BNext
<1>6. ASSUME NEW p \in Procs, Unref(p) \/ Iderw(p)
      PROVE  UNCHANGED Store!bvars
    BY <1>6, <1>s DEF Unref, Iderw, bufVars
<1>7. ASSUME NEW p \in Procs, IderwDone(p)
      PROVE  Store!BNext
    <2>1. PICK b \in Bufs, n \in Blocks :
             b = cur[p] /\ n = blk[b] /\ holder[b] = p /\ valid[b]
        BY <1>7, InCall DEF IderwDone
    <2>2. /\ blk' = blk /\ valid' = valid /\ holder' = holder /\ data' = data /\ disk' = disk
          /\ got' = [got EXCEPT ![p] = data[b]]
        BY <1>7, <2>1 DEF IderwDone, Give, bufVars
    <2>3. ContentsOf(n) = data[b] /\ OwnerOf(n) = p
        BY <2>1, InBuffer
    <2>4. \A k \in Blocks : ContentsOf(k)' = ContentsOf(k) /\ OwnerOf(k)' = OwnerOf(k)
        BY <2>2 DEF ContentsOf, OwnerOf
    <2>5. Store!BRead(p, n)
        BY <2>2, <2>3, <2>4, Reading
    <2> QED
        BY <2>5 DEF Store!BNext
<1>8. ASSUME Ideintr
      PROVE  UNCHANGED Store!bvars
    <2>1. PICK b \in Bufs, n \in Blocks :
             /\ b = Head(queue) /\ b = queue[1] /\ n = blk[b] /\ cmd.block = n
             /\ cmd.write = dirty[b] /\ cmd.val = data[b]
        BY <1>8, Command, Queued DEF Ideintr
    <2>2. /\ blk' = blk /\ holder' = holder /\ got' = got
          /\ disk' = IF dirty[b] THEN [disk EXCEPT ![n] = data[b]] ELSE disk
          /\ data' = IF dirty[b] THEN data ELSE [data EXCEPT ![b] = disk[n]]
          /\ valid' = [valid EXCEPT ![b] = TRUE]
        BY <1>8, <2>1 DEF Ideintr, procVars
    <2>3. /\ valid'[b] /\ data'[b] = (IF dirty[b] THEN data[b] ELSE disk[n])
          /\ \A d \in Bufs \ {b} : valid'[d] = valid[d] /\ data'[d] = data[d]
          /\ \A k \in Blocks \ {n} : disk'[k] = disk[k]
        BY <2>2 DEF TypeOK
    <2>4. valid[b] <=> dirty[b]
        <3>1. 1 \in 1 .. Len(queue)
            BY <1>8, Command DEF Ideintr
        <3>2. valid[b] => dirty[b]
            BY <2>1, <3>1 DEF QueueInv
        <3> QED
            BY <3>2 DEF DataInv
    <2>5. ContentsOf(n) = (IF valid[b] THEN data[b] ELSE disk[n]) /\ OwnerOf(n) = holder[b]
        BY <2>1, InBuffer
    <2>6. ContentsOf(n)' = data'[b] /\ OwnerOf(n)' = holder[b]
        BY <2>1, <2>2, <2>3, InBufferNext
    <2>7. ASSUME NEW k \in Blocks \ {n}
          PROVE  ContentsOf(k)' = ContentsOf(k) /\ OwnerOf(k)' = OwnerOf(k)
        <3>1. Rest(b, n)
            BY <2>2, <2>3 DEF Rest
        <3> QED
            BY <2>1, <2>2, <3>1, OthersKept
    <2> QED
        BY <2>2, <2>3, <2>4, <2>5, <2>6, <2>7, Staying
<1>9. CASE UNCHANGED vars
    BY <1>9, <1>s DEF vars, bufVars, procVars
<1> QED
    BY <1>1, <1>2, <1>3, <1>4, <1>5, <1>6, <1>7, <1>8, <1>9, StepCases

\* Blocks are registers with locks, whatever the number of processes, buffers and
\* blocks: where the cache keeps a block cannot be told (bio.c:1-20).
THEOREM CacheImplementsStore == Spec => StoreSpec
<1>1. Spec => []CacheIInv
    BY CacheInvariant
<1>2. CacheIInv /\ CacheIInv' /\ [Next]_vars => [Store!BNext]_Store!bvars
    BY StoreStep
<1> QED
    BY <1>1, <1>2, StoreInit, PTL DEF Spec, StoreSpec, Store!BSpec

-----------------------------------------------------------------------------
\* The buffers p has or is about to have.
Share(p) == held[p] \cup (IF pc[p] = "run" THEN {} ELSE {cur[p]})

LEMMA ShareBound ==
    ASSUME CacheIInv, NEW p \in Procs
    PROVE  /\ Share(p) \in SUBSET Bufs /\ IsFiniteSet(Share(p))
           /\ Cardinality(Share(p)) \in Nat /\ Cardinality(Share(p)) <= MaxHeld
           /\ pc[p] = "run" => Share(p) = held[p]
<1>1. /\ IsFiniteSet(held[p]) /\ Cardinality(held[p]) \in Nat
      /\ Taken(p) <= MaxHeld /\ held[p] \in SUBSET Bufs
    BY Finite DEF CacheIInv, ShareInv, Taken, TypeOK
<1>2. CASE pc[p] = "run"
    BY <1>1, <1>2 DEF Share, Taken
<1>3. CASE pc[p] # "run"
    <2>1. cur[p] \in Bufs /\ cur[p] \notin held[p]
        BY <1>3, InCall DEF CacheIInv
    <2>2. Share(p) = held[p] \cup {cur[p]}
        BY <1>3 DEF Share
    <2>3. IsFiniteSet(Share(p)) /\ Cardinality(Share(p)) = Cardinality(held[p]) + 1
        BY <1>1, <2>1, <2>2, FS_AddElement
    <2> QED
        BY <1>1, <1>3, <2>1, <2>2, <2>3 DEF Taken
<1> QED
    BY <1>2, <1>3

\* A family of sets, none larger than m, covers no more elements than there are
\* places in the family: number the elements of each set and give every element
\* the place of its number in a set it is in.
LEMMA FamilyBound ==
    ASSUME NEW P, IsFiniteSet(P), NEW m \in Nat \ {0}, NEW F,
           \A q \in P : /\ IsFiniteSet(F[q]) /\ Cardinality(F[q]) \in Nat
                        /\ Cardinality(F[q]) <= m,
           NEW U, \A b \in U : \E q \in P : b \in F[q]
    PROVE  /\ IsFiniteSet(U) /\ Cardinality(U) \in Nat
           /\ Cardinality(P) * m \in Nat /\ Cardinality(U) <= Cardinality(P) * m
<1> DEFINE n(q)    == Cardinality(F[q])
           Slots   == P \X (1 .. m)
           num(q)  == CHOOSE f : f \in Bijection(1 .. n(q), F[q])
           who(b)  == CHOOSE q \in P : b \in F[q]
           idx(b)  == CHOOSE i \in 1 .. n(who(b)) : num(who(b))[i] = b
           place   == [b \in U |-> <<who(b), idx(b)>>]
<1>1. ASSUME NEW q \in P
      PROVE  num(q) \in Bijection(1 .. n(q), F[q])
    <2>1. \E f : f \in Bijection(1 .. n(q), F[q])
        BY FS_CardinalityType DEF ExistsBijection
    <2> QED
        BY <2>1
<1>2. ASSUME NEW b \in U
      PROVE  /\ who(b) \in P /\ b \in F[who(b)]
             /\ idx(b) \in 1 .. n(who(b)) /\ num(who(b))[idx(b)] = b
    <2>1. who(b) \in P /\ b \in F[who(b)]
        <3>1. \E q \in P : b \in F[q]
            OBVIOUS
        <3> QED
            BY <3>1
    <2>2. \E i \in 1 .. n(who(b)) : num(who(b))[i] = b
        <3>1. num(who(b)) \in Surjection(1 .. n(who(b)), F[who(b)])
            BY <1>1, <2>1 DEF Bijection
        <3> HIDE DEF num, who, n
        <3> QED
            BY <2>1, <3>1 DEF Surjection
    <2>3. idx(b) \in 1 .. n(who(b)) /\ num(who(b))[idx(b)] = b
        <3> HIDE DEF num, who, n
        <3> QED
            BY <2>2
    <2> QED
        BY <2>1, <2>3
<1>3. /\ IsFiniteSet(Slots) /\ Cardinality(Slots) = Cardinality(P) * m
      /\ Cardinality(P) \in Nat /\ Cardinality(Slots) \in Nat
    <2>1. IsFiniteSet(1 .. m) /\ Cardinality(1 .. m) = m
        BY FS_Interval
    <2>2. IsFiniteSet(Slots) /\ Cardinality(Slots) = Cardinality(P) * Cardinality(1 .. m)
        BY <2>1, FS_Product
    <2> QED
        BY <2>1, <2>2, FS_CardinalityType
<1>4. place \in Injection(U, Slots)
    <2>1. ASSUME NEW b \in U
          PROVE  place[b] = <<who(b), idx(b)>> /\ place[b] \in Slots
        <3>1. place[b] = <<who(b), idx(b)>>
            OBVIOUS
        <3>2. n(who(b)) \in Nat /\ n(who(b)) <= m
            BY <1>2
        <3>3. who(b) \in P /\ idx(b) \in 1 .. n(who(b))
            BY <1>2
        <3> HIDE DEF who, idx, n
        <3>4. idx(b) \in 1 .. m
            BY <3>2, <3>3
        <3> QED
            BY <3>1, <3>3, <3>4
    <2>2. ASSUME NEW b \in U, NEW d \in U, place[b] = place[d]
          PROVE  b = d
        <3>1. <<who(b), idx(b)>> = <<who(d), idx(d)>>
            BY <2>1, <2>2
        <3>2. num(who(b))[idx(b)] = b /\ num(who(d))[idx(d)] = d
            BY <1>2
        <3> HIDE DEF who, idx, num, place
        <3>3. who(b) = who(d) /\ idx(b) = idx(d)
            BY <3>1
        <3> QED
            BY <3>2, <3>3
    <2>3. place \in [U -> Slots]
        BY <2>1
    <2> HIDE DEF place, Slots
    <2> QED
        BY <2>2, <2>3 DEF Injection, IsInjective
<1>5. IsFiniteSet(U) /\ Cardinality(U) <= Cardinality(Slots)
    <2> HIDE DEF place, Slots
    <2> QED
        BY <1>3, <1>4, FS_Injection
<1>6. Cardinality(U) \in Nat
    BY <1>5, FS_CardinalityType
<1> HIDE DEF Slots
<1> QED
    BY <1>3, <1>5, <1>6

\* A buffer that cannot be recycled is pinned by the log or part of a share.
LEMMA NotRecyclable ==
    ASSUME CacheIInv, NEW b \in Bufs, ~Recyclable(b)
    PROVE  b \in Pinned \/ \E q \in Procs : b \in Share(q)
<1>1. CASE refcnt[b] # 0
    <2>1. PICK q \in Procs : cur[q] = b \/ b \in held[q]
        BY <1>1, Counted DEF CacheIInv, Users
    <2>2. cur[q] = b => pc[q] # "run"
        BY Constants DEF CacheIInv, RefInv
    <2> QED
        BY <2>1, <2>2 DEF Share
<1>2. CASE dirty[b] /\ b \in InTransit
    <2>1. PICK q \in Procs : pc[q] \in {"rw", "io"} /\ cur[q] = b
        BY <1>2 DEF InTransit
    <2> QED
        BY <2>1 DEF Share
<1>3. CASE dirty[b] /\ b \notin InTransit
    BY <1>3 DEF Pinned
<1> QED
    BY <1>1, <1>2, <1>3 DEF Recyclable

\* Whatever the number of processes, buffers and blocks: while fewer buffers than there
\* are belong to the log and to the processes at work, bget() finds one to recycle, so
\* no sequence of calls uses the cache up for good (bio.c:81-92).
THEOREM BufferIsLeft == Spec => []BufferLeft
<1>1. ASSUME CacheIInv
      PROVE  BufferLeft
    <2> SUFFICES ASSUME Cardinality(Pinned) + Cardinality(Busy) * MaxHeld < Cardinality(Bufs),
                        \A b \in Bufs : ~Recyclable(b)
                 PROVE  FALSE
        BY DEF BufferLeft
    <2> DEFINE F    == [q \in Busy |-> Share(q)]
               Used == {b \in Bufs : \E q \in Busy : b \in F[q]}
    <2>1. /\ \A q \in Busy : /\ IsFiniteSet(F[q]) /\ Cardinality(F[q]) \in Nat
                             /\ Cardinality(F[q]) <= MaxHeld
          /\ IsFiniteSet(Busy)
        <3>1. Busy \in SUBSET Procs /\ IsFiniteSet(Procs)
            BY Constants DEF Busy
        <3>2. IsFiniteSet(Busy)
            BY <3>1, FS_Subset
        <3> QED
            BY <1>1, <3>1, <3>2, ShareBound
    <2>2. \A b \in Used : \E q \in Busy : b \in F[q]
        OBVIOUS
    <2>3. Bufs = Pinned \cup Used
        <3>1. ASSUME NEW b \in Bufs, b \notin Pinned
              PROVE  b \in Used
            <4>1. PICK q \in Procs : b \in Share(q)
                BY <1>1, <3>1, NotRecyclable
            <4>2. q \in Busy
                BY <4>1 DEF Busy, Share
            <4> QED
                BY <4>1, <4>2
        <3>2. Pinned \subseteq Bufs
            BY DEF Pinned
        <3> QED
            BY <3>1, <3>2
    <2> HIDE DEF F, Used
    <2>4. MaxHeld \in Nat \ {0}
        BY CacheAssumption
    <2>5. /\ IsFiniteSet(Used) /\ Cardinality(Used) \in Nat
          /\ Cardinality(Busy) * MaxHeld \in Nat
          /\ Cardinality(Used) <= Cardinality(Busy) * MaxHeld
        BY <2>1, <2>2, <2>4, FamilyBound
    <2>6. IsFiniteSet(Pinned) /\ Cardinality(Pinned) \in Nat
        BY <1>1, Finite DEF CacheIInv
    <2>7. /\ Cardinality(Pinned \cup Used)
                = Cardinality(Pinned) + Cardinality(Used) - Cardinality(Pinned \cap Used)
          /\ Cardinality(Pinned \cap Used) \in Nat
        <3>1. IsFiniteSet(Pinned \cap Used)
            <4>1. Pinned \cap Used \in SUBSET Pinned
                OBVIOUS
            <4> QED
                BY <2>6, <4>1, FS_Subset
        <3> QED
            BY <2>5, <2>6, <3>1, FS_Union, FS_CardinalityType
    <2>8. Cardinality(Bufs) = Cardinality(Pinned \cup Used)
        BY <2>3
    <2> QED
        BY <2>5, <2>6, <2>7, <2>8
<1> QED
    BY <1>1, CacheInvariant, PTL
=============================================================================
