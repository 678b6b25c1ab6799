------------------------------ MODULE FileData ------------------------------
(***************************************************************************)
(* The contents of files: blocks (balloc, bfree), the map from a file to   *)
(* its blocks (bmap, itrunc), readi and writei (fs.c), and the transactions*)
(* and offsets of fileread() and filewrite() (file.c).                     *)
(*                                                                         *)
(* The lock of the inode is held from begin to end of a chunk; processes   *)
(* that work on different files meet in the bitmap, whose block is locked  *)
(* for one balloc() or bfree().  That off + n wraps is left out: argptr()  *)
(* has checked n.  A panic() is a step that is missing.                    *)
(***************************************************************************)
EXTENDS Integers, Sequences, FiniteSets

CONSTANTS
    Writers, NoWriter,    \* processes
    Opens,                \* struct file; several processes may share one
    Disk,                 \* inodes
    NBLOCKS,              \* data blocks are 1 .. NBLOCKS
    BSIZE, NDIRECT, NINDIRECT, MAXOPBLOCKS,
    Lengths               \* of read() and write()

NoOne   == 0              \* no block; also what a zeroed byte holds
Zero    == NoWriter       \* a byte nobody has written
Block   == 1 .. NBLOCKS
MAXFILE == NDIRECT + NINDIRECT
Chunk   == ((MAXOPBLOCKS - 1 - 1 - 2) \div 2) * BSIZE

\* MAXOPBLOCKS is 10 (param.h); that a chunk fits in a transaction needs 7.
ASSUME FileDataAssumption ==
    /\ NoWriter \notin Writers
    /\ {BSIZE, NDIRECT, NINDIRECT} \subseteq Nat \ {0}
    /\ MAXOPBLOCKS \in Nat /\ MAXOPBLOCKS > 6
    /\ NBLOCKS \in Nat /\ Lengths \subseteq Nat \ {0}

VARIABLES
    bitmap,               \* blocks in use
    bytes,                \* block -> its bytes; a byte is the process that wrote it
    ents,                 \* block -> its block numbers, when it is an indirect block
    addrs, size,          \* of struct inode
    ilock,                \* the process that has the inode locked
    fip, off,             \* of struct file: its inode, if open, and the offset
    io,                   \* the call a process is in
    logged,               \* blocks logged by the transaction a process is in
    got                   \* what read() returns to a process

fdvars == <<bitmap, bytes, ents, addrs, size, ilock, fip, off, io, logged, got>>

\* left: bytes of write() still to do after this chunk; at, end: the bytes of the
\* chunk still to write; map: the block bmap() has found; next: where itrunc() is.
None == [do |-> "none", file |-> 0, ip |-> 0, left |-> 0, at |-> 0, end |-> 0, map |-> 0,
         next |-> 0]

NoBytes == [k \in 0 .. BSIZE - 1 |-> Zero]
NoEnts  == [k \in 0 .. NINDIRECT - 1 |-> 0]

FDInit ==
    /\ bitmap = {}
    /\ bytes  = [b \in Block |-> NoBytes]
    /\ ents   = [b \in Block |-> NoEnts]
    /\ addrs  = [i \in Disk |-> [k \in 0 .. NDIRECT |-> 0]]
    /\ size   = [i \in Disk |-> 0]
    /\ ilock  = [i \in Disk |-> NoWriter]
    /\ fip    = [f \in Opens |-> {}]
    /\ off    = [f \in Opens |-> 0]
    /\ io     = [p \in Writers |-> None]
    /\ logged = [p \in Writers |-> {}]
    /\ got    = [p \in Writers |-> <<>>]

-----------------------------------------------------------------------------
SmallerOf(m, n) == IF m < n THEN m ELSE n

\* What bmap() finds, or 0.
Direct(n)    == n < NDIRECT
Mapped(i, n) ==
    IF Direct(n) THEN addrs[i][n]
    ELSE IF addrs[i][NDIRECT] = 0 THEN 0
    ELSE ents[addrs[i][NDIRECT]][n - NDIRECT]

\* balloc() takes the first free block, marks and zeroes it; it panics when there
\* is none.
Anywhere(b) == TRUE                         \* mutant: the bit is not looked at
FreeBlock(b) == b \notin bitmap

Balloc(b) ==
    /\ FreeBlock(b) /\ \A e \in Block : FreeBlock(e) => b <= e
    /\ bitmap' = bitmap \cup {b}

Zeroed(b) ==
    /\ bytes' = [bytes EXCEPT ![b] = NoBytes]
    /\ ents'  = [ents EXCEPT ![b] = NoEnts]

TheBitmap == 0            \* the block of the bitmap, among those logged
Log(p, S) == logged' = [logged EXCEPT ![p] = @ \cup S]

-----------------------------------------------------------------------------
\* sys_open(), fork() and close(), as far as the offset goes.
Open(f, i) ==
    /\ fip[f] = {}
    /\ \A p \in Writers : ~(io[p].do = "trunc" /\ io[p].ip = i)
    /\ fip' = [fip EXCEPT ![f] = {i}]
    /\ off' = [off EXCEPT ![f] = 0]
    /\ UNCHANGED <<bitmap, bytes, ents, addrs, size, ilock, io, logged, got>>

CloseFile(f) ==
    /\ fip[f] # {} /\ \A p \in Writers : io[p].file # f
    /\ fip' = [fip EXCEPT ![f] = {}]
    /\ off' = [off EXCEPT ![f] = 0]
    /\ UNCHANGED <<bitmap, bytes, ents, addrs, size, ilock, io, logged, got>>

\* fileread() with readi(): what is there from the offset on.
Byte(i, k) == bytes[Mapped(i, k \div BSIZE)][k % BSIZE]

InUser(p) == io[p].do = "none" /\ got[p] = <<>>

Read(p, f, n) ==
    /\ InUser(p)
    /\ \E i \in fip[f] :
          /\ ilock[i] = NoWriter
          /\ off[f] <= size[i]
          /\ LET m == SmallerOf(n, size[i] - off[f]) IN
                /\ \A k \in off[f] .. off[f] + m - 1 : Mapped(i, k \div BSIZE) # 0
                /\ got' = [got EXCEPT ![p] = [k \in 1 .. m |-> Byte(i, off[f] + k - 1)]]
                /\ off' = [off EXCEPT ![f] = @ + m]
    /\ UNCHANGED <<bitmap, bytes, ents, addrs, size, ilock, fip, io, logged>>

BackToUser(p) ==
    /\ got[p] # <<>>
    /\ got' = [got EXCEPT ![p] = <<>>]
    /\ UNCHANGED <<bitmap, bytes, ents, addrs, size, ilock, fip, off, io, logged>>

-----------------------------------------------------------------------------
\* filewrite(): the first chunk, and the next ones; each is a transaction.
TooLong(f, n) == off[f] + n > MAXFILE * BSIZE

WholeCall(n) == n                           \* mutant: one transaction for all
Chunked(n)   == SmallerOf(n, Chunk)

StartWrite(p, f, n) ==
    /\ InUser(p) /\ fip[f] # {}
    /\ io' = [io EXCEPT ![p] = [None EXCEPT !.do = "chunk", !.file = f, !.left = n]]
    /\ UNCHANGED <<bitmap, bytes, ents, addrs, size, ilock, fip, off, logged, got>>

\* begin_op(), ilock(), and the checks of writei(): a chunk that does not fit ends
\* the call.
StartChunk(p) ==
    /\ io[p].do = "chunk" /\ io[p].left > 0
    /\ \E i \in fip[io[p].file] :
          LET f == io[p].file
              n == Chunked(io[p].left)
          IN
          /\ ilock[i] = NoWriter
          /\ IF off[f] > size[i] \/ TooLong(f, n)
             THEN io' = [io EXCEPT ![p] = None] /\ UNCHANGED ilock
             ELSE /\ ilock' = [ilock EXCEPT ![i] = p]
                  /\ io' = [io EXCEPT ![p].do = "write", ![p].ip = i, ![p].at = off[f],
                                      ![p].end = off[f] + n, ![p].left = @ - n]
    /\ UNCHANGED <<bitmap, bytes, ents, addrs, size, fip, off, logged, got>>

EndWrite(p) ==
    /\ io[p].do = "chunk" /\ io[p].left = 0
    /\ io' = [io EXCEPT ![p] = None]
    /\ UNCHANGED <<bitmap, bytes, ents, addrs, size, ilock, fip, off, logged, got>>

Writing(p) == io[p].do = "write" /\ io[p].at < io[p].end
Bn(p)      == io[p].at \div BSIZE

\* bmap(): the indirect block, when it is missing ...
MapIndirect(p) ==
    /\ Writing(p) /\ io[p].map = 0 /\ ~Direct(Bn(p)) /\ addrs[io[p].ip][NDIRECT] = 0
    /\ \E b \in Block :
          /\ Balloc(b) /\ Zeroed(b)
          /\ addrs' = [addrs EXCEPT ![io[p].ip][NDIRECT] = b]
          /\ Log(p, {TheBitmap, b})
    /\ UNCHANGED <<size, ilock, fip, off, io, got>>

\* ... the block itself, when it is missing ...
MapNew(p) ==
    LET i == io[p].ip IN
    /\ Writing(p) /\ io[p].map = 0 /\ Mapped(i, Bn(p)) = 0
    /\ Direct(Bn(p)) \/ addrs[i][NDIRECT] # 0
    /\ \E b \in Block :
          /\ Balloc(b)
          /\ bytes' = [bytes EXCEPT ![b] = NoBytes]
          /\ IF Direct(Bn(p))
             THEN /\ addrs' = [addrs EXCEPT ![i][Bn(p)] = b]
                  /\ ents'  = [ents EXCEPT ![b] = NoEnts]
                  /\ Log(p, {TheBitmap, b})
             ELSE /\ ents' = [ents EXCEPT ![b] = NoEnts,
                                          ![addrs[i][NDIRECT]][Bn(p) - NDIRECT] = b]
                  /\ Log(p, {TheBitmap, b, addrs[i][NDIRECT]})
                  /\ UNCHANGED addrs
          /\ io' = [io EXCEPT ![p].map = b]
    /\ UNCHANGED <<size, ilock, fip, off, got>>

\* ... or what is there.
MapOld(p) ==
    /\ Writing(p) /\ io[p].map = 0 /\ Mapped(io[p].ip, Bn(p)) # 0
    /\ io' = [io EXCEPT ![p].map = Mapped(io[p].ip, Bn(p))]
    /\ UNCHANGED <<bitmap, bytes, ents, addrs, size, ilock, fip, off, logged, got>>

\* writei() copies as much as goes into the block.
Copy(p) ==
    LET a == io[p].at
        m == SmallerOf(io[p].end - a, BSIZE - (a % BSIZE))
    IN
    /\ Writing(p) /\ io[p].map # 0
    /\ bytes' = [bytes EXCEPT ![io[p].map] =
                    [k \in 0 .. BSIZE - 1 |->
                        IF k >= a % BSIZE /\ k < (a % BSIZE) + m THEN p ELSE @[k]]]
    /\ Log(p, {io[p].map})
    /\ io' = [io EXCEPT ![p].at = a + m, ![p].map = 0]
    /\ UNCHANGED <<bitmap, ents, addrs, size, ilock, fip, off, got>>

\* The end of writei() and of the transaction; the offset moves under ilock.
Grown(i, e) == IF e > size[i] THEN e ELSE size[i]
EndChunk(p) ==
    /\ io[p].do = "write" /\ io[p].at = io[p].end
    /\ size'  = [size EXCEPT ![io[p].ip] = Grown(io[p].ip, io[p].end)]
    /\ off'   = [off EXCEPT ![io[p].file] = io[p].end]
    /\ ilock' = [ilock EXCEPT ![io[p].ip] = NoWriter]
    /\ io'    = [io EXCEPT ![p] =
                    [None EXCEPT !.do = "chunk", !.file = io[p].file, !.left = io[p].left]]
    /\ logged' = [logged EXCEPT ![p] = {}]
    /\ UNCHANGED <<bitmap, bytes, ents, addrs, fip, got>>

-----------------------------------------------------------------------------
\* itrunc(), called by iput() on an inode nobody has open or can open any more;
\* the inode is then made again, for a new file.
StartTrunc(p, i) ==
    /\ InUser(p) /\ ilock[i] = NoWriter
    /\ \A f \in Opens : i \notin fip[f]
    /\ size[i] # 0
    /\ ilock' = [ilock EXCEPT ![i] = p]
    /\ io' = [io EXCEPT ![p] = [None EXCEPT !.do = "trunc", !.ip = i]]
    /\ UNCHANGED <<bitmap, bytes, ents, addrs, size, fip, off, logged, got>>

Bfree(p, b) ==
    /\ b \in bitmap
    /\ bitmap' = bitmap \ {b}
    /\ Log(p, {TheBitmap})

Truncs(p) == io[p].do = "trunc"

\* The direct blocks, then those in the indirect block (which is left as it is),
\* then the indirect block.
FreeDirect(p) ==
    LET i == io[p].ip
        k == io[p].next
    IN
    /\ Truncs(p) /\ k < NDIRECT
    /\ IF addrs[i][k] # 0
       THEN Bfree(p, addrs[i][k]) /\ addrs' = [addrs EXCEPT ![i][k] = 0]
       ELSE UNCHANGED <<bitmap, addrs, logged>>
    /\ io' = [io EXCEPT ![p].next = k + 1]
    /\ UNCHANGED <<bytes, ents, size, ilock, fip, off, got>>

LastEntry == NINDIRECT - 1                  \* mutant: one entry too few
PastLast  == NINDIRECT

FreeEntry(p) ==
    LET i == io[p].ip
        k == io[p].next - NDIRECT
    IN
    /\ Truncs(p) /\ k >= 0 /\ k < PastLast /\ addrs[i][NDIRECT] # 0
    /\ IF ents[addrs[i][NDIRECT]][k] # 0
       THEN Bfree(p, ents[addrs[i][NDIRECT]][k])
       ELSE UNCHANGED <<bitmap, logged>>
    /\ io' = [io EXCEPT ![p].next = @ + 1]
    /\ UNCHANGED <<bytes, ents, addrs, size, ilock, fip, off, got>>

EndTrunc(p) ==
    LET i == io[p].ip IN
    /\ Truncs(p) /\ io[p].next >= NDIRECT
    /\ addrs[i][NDIRECT] = 0 \/ io[p].next - NDIRECT = PastLast
    /\ bitmap' = bitmap \ {addrs[i][NDIRECT]}
    /\ addrs'  = [addrs EXCEPT ![i][NDIRECT] = 0]
    /\ size'   = [size EXCEPT ![i] = 0]
    /\ ilock'  = [ilock EXCEPT ![i] = NoWriter]
    /\ io'     = [io EXCEPT ![p] = None]
    /\ logged' = [logged EXCEPT ![p] = {}]
    /\ UNCHANGED <<bytes, ents, fip, off, got>>

-----------------------------------------------------------------------------
Writei(p) == MapIndirect(p) \/ MapNew(p) \/ MapOld(p) \/ Copy(p) \/ EndChunk(p)
Itrunc(p) == FreeDirect(p) \/ FreeEntry(p) \/ EndTrunc(p)

FDNext ==
    \/ \E f \in Opens : CloseFile(f) \/ \E i \in Disk : Open(f, i)
    \/ \E p \in Writers :
          \/ \E f \in Opens, n \in Lengths : Read(p, f, n) \/ StartWrite(p, f, n)
          \/ BackToUser(p) \/ StartChunk(p) \/ EndWrite(p) \/ Writei(p)
          \/ \E i \in Disk : StartTrunc(p, i)
          \/ Itrunc(p)

FDSpec == FDInit /\ [][FDNext]_fdvars
=============================================================================
