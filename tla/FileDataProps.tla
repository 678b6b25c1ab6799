---------------------------- MODULE FileDataProps ---------------------------
(***************************************************************************)
(* What the contents of files promise.                                     *)
(***************************************************************************)
EXTENDS FileData

Doings ==
    [do : {"none", "chunk", "write", "trunc"}, file : Opens \cup {0}, ip : Disk \cup {0},
     left : Nat, at : Nat, end : Nat, map : Block \cup {0}, next : Nat]

FDTypeOK ==
    /\ bitmap \subseteq Block
    /\ bytes \in [Block -> [0 .. BSIZE - 1 -> Writers \cup {Zero}]]
    /\ ents \in [Block -> [0 .. NINDIRECT - 1 -> Block \cup {0}]]
    /\ addrs \in [Disk -> [0 .. NDIRECT -> Block \cup {0}]]
    /\ size \in [Disk -> 0 .. MAXFILE * BSIZE]
    /\ ilock \in [Disk -> Writers \cup {NoWriter}]
    /\ fip \in [Opens -> SUBSET Disk] /\ off \in [Opens -> Nat]
    /\ io \in [Writers -> Doings]
    /\ logged \in [Writers -> SUBSET (Block \cup {TheBitmap})]
    /\ got \in [Writers -> Seq(Writers \cup {Zero})]

\* The block number at place k of a file, or 0: the direct blocks, the indirect block,
\* and its entries, but for those that itrunc() has passed.
Truncated(i, k) == \E p \in Writers : Truncs(p) /\ io[p].ip = i /\ io[p].next > k
BlockPlaces == 0 .. MAXFILE
BlockAt(i, k) ==
    IF k <= NDIRECT THEN addrs[i][k]
    ELSE IF addrs[i][NDIRECT] = 0 \/ Truncated(i, k - 1) THEN 0
    ELSE ents[addrs[i][NDIRECT]][k - 1 - NDIRECT]

\* A block is in use exactly when one file uses it, at one place, whoever else
\* allocates and frees at the same time: no block is lost and none is shared.
OneOwner ==
    /\ bitmap = {BlockAt(i, k) : i \in Disk, k \in BlockPlaces} \ {0}
    /\ \A i \in Disk, k \in BlockPlaces : BlockAt(i, k) # 0 =>
          \A j \in Disk, n \in BlockPlaces : BlockAt(j, n) = BlockAt(i, k) => j = i /\ n = k

\* A file has no holes: reading never allocates.  An open file's offset is in it.
NoHoles ==
    \A i \in Disk :
        (\A p \in Writers : ~(Truncs(p) /\ io[p].ip = i)) =>
            \A k \in 0 .. MAXFILE - 1 : k * BSIZE < size[i] => Mapped(i, k) # 0
OffsetsIn == \A f \in Opens : \A i \in fip[f] : off[f] <= size[i]

\* A chunk, however it lies on the blocks, logs no more blocks than begin_op() has
\* reserved for it (file.c:117-123), and two fewer, as module Log assumes; the
\* inode's block is the one that is not in logged.
OpFits == \A p \in Writers : Cardinality(logged[p]) + 1 + 2 <= MAXOPBLOCKS

\* What a process in a call relies on while others run.  Between two chunks: the file
\* is still open, and nothing is logged.
OneInode == \A f \in Opens : \A i, j \in fip[f] : i = j

OutOfTransaction(p) == io[p].do \in {"none", "chunk"} =>
    /\ logged[p] = {} /\ io[p].map = 0
    /\ io[p].do = "chunk" => io[p].file \in Opens /\ fip[io[p].file] # {}

\* In a chunk: the inode is p's, the offset is where the chunk began, the file has its
\* blocks up to where p is, and p has logged blocks of the chunk only.
WriterHolds(p) == io[p].do = "write" =>
    /\ io[p].file \in Opens /\ io[p].ip \in fip[io[p].file] /\ ilock[io[p].ip] = p
    /\ off[io[p].file] <= io[p].at /\ io[p].at <= io[p].end
    /\ off[io[p].file] < io[p].end
    /\ io[p].end <= off[io[p].file] + Chunk /\ io[p].end <= MAXFILE * BSIZE
    /\ io[p].map # 0 => io[p].at < io[p].end /\ io[p].map = Mapped(io[p].ip, Bn(p))
    /\ \A k \in 0 .. MAXFILE - 1 : k * BSIZE < io[p].at => Mapped(io[p].ip, k) # 0

FirstBn(p) == off[io[p].file] \div BSIZE
LastBn(p)  == (io[p].end - 1) \div BSIZE
LogsItsBlocks(p) == io[p].do = "write" =>
    \A b \in logged[p] : \/ b \in {TheBitmap, addrs[io[p].ip][NDIRECT]}
                         \/ \E k \in FirstBn(p) .. LastBn(p) : b = Mapped(io[p].ip, k)

\* In itrunc(): the inode is p's, and the blocks passed are gone.
TruncHolds(p) == Truncs(p) =>
    /\ io[p].ip \in Disk /\ ilock[io[p].ip] = p
    /\ \A f \in Opens : io[p].ip \notin fip[f]
    /\ io[p].next <= MAXFILE /\ logged[p] \subseteq {TheBitmap}
    /\ \A k \in 0 .. NDIRECT - 1 : k < io[p].next => addrs[io[p].ip][k] = 0
    /\ io[p].next > NDIRECT => addrs[io[p].ip][NDIRECT] # 0

InCall(p) == OutOfTransaction(p) /\ WriterHolds(p) /\ LogsItsBlocks(p) /\ TruncHolds(p)

DataCore == FDTypeOK /\ OneOwner /\ NoHoles /\ OffsetsIn /\ OneInode /\ \A p \in Writers : InCall(p)
DataIInv == DataCore /\ OpFits

-----------------------------------------------------------------------------
\* A file as its next reader will find it: with the chunk being written, and
\* without what is being truncated.
WriterOf(i) == {p \in Writers : io[p].do = "write" /\ io[p].ip = i}
EndOf(i)    == IF WriterOf(i) = {} THEN size[i]
               ELSE Grown(i, io[CHOOSE p \in WriterOf(i) : TRUE].end)
Content(i) ==
    IF \E p \in Writers : Truncs(p) /\ io[p].ip = i THEN <<>>
    ELSE [k \in 1 .. EndOf(i) |->
            IF \E p \in WriterOf(i) : k > io[p].at /\ k <= io[p].end
            THEN CHOOSE p \in WriterOf(i) : TRUE
            ELSE Byte(i, k - 1)]
Position(f) ==
    LET W == {p \in Writers : io[p].do = "write" /\ io[p].file = f}
    IN  IF W = {} THEN off[f] ELSE io[CHOOSE p \in W : TRUE].end

\* read() and write() of the file system are those of FileBytes, also when several
\* processes share an offset, write the same file or run out of blocks of it.
Bytes == INSTANCE FileBytes WITH
    content <- [i \in Disk |-> Content(i)], opened <- fip,
    pos <- [f \in Opens |-> Position(f)], result <- got, Most <- MAXFILE * BSIZE
DataSpec == Bytes!BSpec
=============================================================================
