----------------------------- MODULE LogProofs -----------------------------
(***************************************************************************)
(* Crash safety of the log for every number of processes, blocks and log   *)
(* blocks: LogIInv is inductive, log_write() never panics, and the log     *)
(* implements AtomicDisk.                                                  *)
(***************************************************************************)
EXTENDS LogProps, FiniteSetTheorems, TLAPS

\* The constants as the provers need them.
LEMMA Sizes ==
    /\ MAXOPBLOCKS \in Nat /\ LOGSIZE \in Nat /\ NLOG \in Nat /\ OpBlocks \in Nat
    /\ OpBlocks + 2 <= MAXOPBLOCKS /\ MAXOPBLOCKS <= LOGSIZE /\ LOGSIZE <= NLOG
    BY LogAssumption

\* The empty transaction.
LEMMA Empty ==
    /\ <<>> \in Seq(Blocks) /\ Len(<<>>) = 0 /\ Logged(<<>>) = {} /\ OneToOne(<<>>)
    /\ \A h \in Seq(Blocks) : Len(h) \in Nat /\ (h = <<>> <=> Len(h) = 0)
    BY DEF Logged, OneToOne

\* Every step has one of these forms.
LEMMA StepCases ==
    ASSUME Next
    PROVE  \/ \E p \in Procs :
                \/ BeginOp(p) \/ Kill(p) \/ EndOp(p) \/ CommitStart(p)
                \/ WriteLog(p) \/ WriteHead(p) \/ Install(p) \/ Erase(p)
                \/ CommitDone(p)
           \/ \E p \in Procs, b \in Blocks, v \in Vals : LogWrite(p, b, v)
           \/ Crash \/ ReadHead \/ RecoverInstall \/ RecoverErase
    BY DEF Next, CommitStep, Recover

\* What log_write() adds to the transaction.
LEMMA Recording ==
    ASSUME NEW h \in Seq(Blocks), NEW b \in Blocks
    PROVE  /\ Append(h, b) \in Seq(Blocks)
           /\ Len(Append(h, b)) = Len(h) + 1
           /\ Logged(Append(h, b)) = Logged(h) \cup {b}
           /\ OneToOne(h) /\ b \notin Logged(h) => OneToOne(Append(h, b))
<1>1. /\ Append(h, b) \in Seq(Blocks) /\ Len(Append(h, b)) = Len(h) + 1
      /\ Len(h) \in Nat
      /\ Append(h, b)[Len(h) + 1] = b
      /\ \A i \in 1 .. Len(h) : Append(h, b)[i] = h[i]
    OBVIOUS
<1>2. Logged(Append(h, b)) = Logged(h) \cup {b}
    <2>1. 1 .. Len(h) + 1 = 1 .. Len(h) \cup {Len(h) + 1}
        BY <1>1
    <2> QED
        BY <1>1, <2>1 DEF Logged
<1>3. OneToOne(h) /\ b \notin Logged(h) => OneToOne(Append(h, b))
    BY <1>1 DEF OneToOne, Logged
<1> QED
    BY <1>1, <1>2, <1>3

\* While a call is in progress nobody commits.
LEMMA Quiet ==
    ASSUME TypeOK, CommitInv, NEW p \in Procs, pc[p] = "inop"
    PROVE  /\ outstanding \in Nat /\ outstanding # 0
           /\ ~committing /\ boot = "up"
           /\ \A q \in Procs : ~Committing(q)
<1>1. IsFiniteSet(InOp) /\ InOp # {}
    BY LogAssumption, FS_Subset DEF InOp
<1>2. outstanding # 0
    BY <1>1, FS_EmptySet DEF CommitInv
<1> QED
    BY <1>2 DEF CommitInv, TypeOK

\* Whoever commits does so alone.
LEMMA Alone ==
    ASSUME TypeOK, CommitInv, NEW p \in Procs, Committing(p)
    PROVE  /\ committing /\ boot = "up" /\ outstanding = 0
           /\ InOp = {}
           /\ \A q \in Procs : q # p => ~Committing(q)
<1>1. committing /\ outstanding = 0 /\ \A q \in Procs : q # p => ~Committing(q)
    BY DEF CommitInv
<1>2. boot = "up"
    BY DEF CommitInv, Committing
<1>3. InOp = {}
    BY <1>1, Quiet DEF InOp
<1> QED
    BY <1>1, <1>2, <1>3

\* During recovery nobody is in the log code.
LEMMA Down ==
    ASSUME CommitInv, boot # "up"
    PROVE  /\ \A p \in Procs : pc[p] = "idle" /\ ~Committing(p)
           /\ InOp = {} /\ ~committing
    BY DEF CommitInv, Committing, InOp

-----------------------------------------------------------------------------
\* Every variable keeps its type.
THEOREM TypePreserved ==
    ASSUME LogIInv, Next
    PROVE  TypeOK'
<1> USE Sizes DEF TypeOK, Points, disk
<1>0. TypeOK /\ CommitInv /\ PhaseInv
    BY DEF LogIInv
<1>1. ASSUME NEW p \in Procs, BeginOp(p) \/ Kill(p)
      PROVE  TypeOK'
    <2>1. wrote' \in [Procs -> SUBSET Blocks]
        BY <1>0, <1>1 DEF BeginOp, Kill
    <2>2. pc' \in [Procs -> Points]
        BY <1>0, <1>1 DEF BeginOp, Kill, Goto
    <2>3. outstanding' \in Nat
        BY <1>0, <1>1 DEF BeginOp, Kill
    <2>4. UNCHANGED <<home, logblk, head, mem, lh, committing, boot, tail>>
        BY <1>1 DEF BeginOp, Kill
    <2> QED
        BY <1>0, <2>1, <2>2, <2>3, <2>4
<1>2. ASSUME NEW p \in Procs, EndOp(p)
      PROVE  TypeOK'
    <2>1. outstanding - 1 \in Nat
        BY <1>0, <1>2, Quiet DEF EndOp
    <2> QED
        BY <1>0, <1>2, <2>1 DEF EndOp, Goto, Woken
<1>3. ASSUME NEW p \in Procs, NEW b \in Blocks, NEW v \in Vals, LogWrite(p, b, v)
      PROVE  TypeOK'
    <2>1. lh' \in Seq(Blocks) /\ Len(lh') <= LOGSIZE /\ Len(lh') <= NLOG - 1
        BY <1>0, <1>3, Recording DEF LogWrite, Recorded, TooBig
    <2> QED
        BY <1>0, <1>3, <2>1 DEF LogWrite
<1>4. ASSUME NEW p \in Procs, CommitStart(p) \/ WriteHead(p) \/ Erase(p) \/ CommitDone(p)
      PROVE  TypeOK'
    <2>1. CASE CommitStart(p) \/ WriteHead(p)
        <3>1. pc' \in [Procs -> Points]
            BY <1>0, <2>1 DEF CommitStart, WriteHead, Goto, LogFirst
        <3>2. head' \in {head, lh} /\ tail' \in {tail, 1}
            BY <2>1 DEF CommitStart, WriteHead
        <3>3. UNCHANGED <<home, logblk, mem, lh, outstanding, committing, wrote, boot>>
            BY <2>1 DEF CommitStart, WriteHead
        <3> QED
            BY <1>0, <3>1, <3>2, <3>3
    <2>2. CASE Erase(p)
        <3>1. lh' \in Seq(Blocks) /\ Len(lh') = 0 /\ head' = lh'
            BY <2>2 DEF Erase
        <3>2. pc' \in [Procs -> Points]
            BY <1>0, <2>2 DEF Erase, Goto
        <3> QED
            BY <1>0, <2>2, <3>1, <3>2 DEF Erase
    <2>3. CASE CommitDone(p)
        BY <1>0, <2>3 DEF CommitDone, Woken
    <2> QED
        BY <1>4, <2>1, <2>2, <2>3
<1>5. ASSUME NEW p \in Procs, WriteLog(p)
      PROVE  TypeOK'
    <2>1. tail \in 1 .. Len(lh) /\ lh[tail] \in Blocks
        BY <1>0, <1>5 DEF WriteLog, PhaseInv, PhaseOf, RecoveryInv
    <2> QED
        BY <1>0, <1>5, <2>1 DEF WriteLog, Goto
<1>6. ASSUME NEW p \in Procs, Install(p)
      PROVE  TypeOK'
    <2>1. tail \in 1 .. Len(lh) /\ tail \in 1 .. NLOG - 1
        BY <1>0, <1>6 DEF Install, PhaseInv, PhaseOf, RecoveryInv
    <2> QED
        BY <1>0, <1>6, <2>1 DEF Install, Installed, Goto
<1>7. CASE Crash \/ ReadHead \/ RecoverErase
    <2>1. CASE Crash
        <3>1. lh' \in Seq(Blocks) /\ Len(lh') = 0
            BY <2>1 DEF Crash
        <3>2. wrote' \in [Procs -> SUBSET Blocks] /\ pc' \in [Procs -> Points]
            BY <2>1 DEF Crash
        <3>3. home' = home /\ logblk' = logblk /\ head' = head /\ mem' = home
            BY <2>1 DEF Crash
        <3>4. outstanding' = 0 /\ boot' = "readhead" /\ tail' = 1
            BY <2>1 DEF Crash
        <3>5. committing' \in BOOLEAN
            BY <2>1, Zenon DEF Crash
        <3> QED
            BY <1>0, <3>1, <3>2, <3>3, <3>4, <3>5
    <2>2. CASE ReadHead
        BY <1>0, <2>2 DEF ReadHead, InstallNext
    <2>3. CASE RecoverErase
        BY <1>0, <2>3, Empty DEF RecoverErase
    <2> QED
        BY <1>7, <2>1, <2>2, <2>3
<1>8. CASE RecoverInstall
    <2>1. tail \in 1 .. Len(lh) /\ tail \in 1 .. NLOG - 1
        BY <1>0, <1>8 DEF RecoverInstall, PhaseInv, PhaseOf, RecoveryInv
    <2> QED
        BY <1>0, <1>8, <2>1 DEF RecoverInstall, Installed
<1> QED
    BY <1>1, <1>2, <1>3, <1>4, <1>5, <1>6, <1>7, <1>8, StepCases

\* The calls in progress are counted, and one process at most commits.
THEOREM CommitPreserved ==
    ASSUME LogIInv, Next
    PROVE  CommitInv'
<1> USE DEF TypeOK
<1>0. TypeOK /\ CommitInv
    BY DEF LogIInv
<1>a. IsFiniteSet(InOp)
    BY LogAssumption, FS_Subset DEF InOp
<1>1. ASSUME NEW p \in Procs, BeginOp(p)
      PROVE  CommitInv'
    <2>1. boot = "up" /\ boot' = "up" /\ committing' = committing
        BY <1>1 DEF BeginOp
    <2>2. \A q \in Procs : Committing(q)' <=> Committing(q)
        BY <1>0, <1>1 DEF BeginOp, Goto, Committing
    <2>3. CASE Admits
        <3>1. InOp' = InOp \cup {p} /\ p \notin InOp
            BY <1>0, <1>1, <2>3 DEF BeginOp, Goto, InOp
        <3>2. outstanding' = outstanding + 1 /\ ~committing
            BY <1>1, <2>3 DEF BeginOp, Admits
        <3>3. outstanding' = Cardinality(InOp')
            BY <1>0, <1>a, <3>1, <3>2, FS_AddElement DEF CommitInv
        <3> QED
            BY <1>0, <2>1, <2>2, <3>2, <3>3 DEF CommitInv
    <2>4. CASE ~Admits
        <3>1. InOp' = InOp /\ outstanding' = outstanding
            BY <1>0, <1>1, <2>4 DEF BeginOp, Goto, InOp
        <3> QED
            BY <1>0, <2>1, <2>2, <3>1 DEF CommitInv
    <2> QED
        BY <2>3, <2>4
<1>2. ASSUME NEW p \in Procs, Kill(p)
      PROVE  CommitInv'
    <2>1. InOp' = InOp
        BY <1>0, <1>2 DEF Kill, Goto, InOp
    <2>2. \A q \in Procs : Committing(q)' <=> Committing(q)
        BY <1>0, <1>2 DEF Kill, Goto, Committing
    <2>3. UNCHANGED <<outstanding, committing, boot>> /\ boot = "up"
        BY <1>0, <1>2 DEF Kill, CommitInv
    <2> QED
        BY <1>0, <2>1, <2>2, <2>3 DEF CommitInv
<1>3. ASSUME NEW p \in Procs, EndOp(p)
      PROVE  CommitInv'
    <2>1. /\ boot = "up" /\ ~committing /\ outstanding \in Nat
          /\ \A q \in Procs : ~Committing(q)
        BY <1>0, <1>3, Quiet DEF EndOp
    <2>2. InOp' = InOp \ {p} /\ p \in InOp
        BY <1>0, <1>3 DEF EndOp, Goto, InOp, Woken
    <2>3. outstanding' = Cardinality(InOp') /\ boot' = "up"
        BY <1>0, <1>a, <1>3, <2>1, <2>2, FS_RemoveElement DEF EndOp, CommitInv
    <2>4. CASE outstanding = 1
        <3>1. committing' /\ outstanding' = 0
            BY <1>3, <2>4 DEF EndOp
        <3>2. \A q \in Procs : Committing(q)' <=> q = p
            BY <1>0, <1>3, <2>1, <2>4 DEF EndOp, Goto, Committing
        <3> QED
            BY <2>3, <3>1, <3>2 DEF CommitInv
    <2>5. CASE outstanding # 1
        <3>1. committing' = committing
            BY <1>3, <2>5 DEF EndOp
        <3>2. \A q \in Procs : ~Committing(q)'
            BY <1>0, <1>3, <2>1, <2>5 DEF EndOp, Woken, Committing
        <3> QED
            BY <2>1, <2>3, <3>1, <3>2 DEF CommitInv
    <2> QED
        BY <2>4, <2>5
<1>4. ASSUME NEW p \in Procs,
             CommitStart(p) \/ WriteLog(p) \/ WriteHead(p) \/ Install(p) \/ Erase(p)
      PROVE  CommitInv'
    <2>1. Committing(p) /\ Committing(p)'
        BY <1>0, <1>4 DEF CommitStart, WriteLog, WriteHead, Install, Erase,
                          Committing, Goto, LogFirst
    <2>2. \A q \in Procs : q # p => pc'[q] = pc[q]
        BY <1>0, <1>4 DEF CommitStart, WriteLog, WriteHead, Install, Erase, Goto
    <2>3. UNCHANGED <<outstanding, committing, boot>>
        BY <1>4 DEF CommitStart, WriteLog, WriteHead, Install, Erase
    <2>4. InOp' = InOp
        BY <2>1, <2>2 DEF InOp, Committing
    <2>5. \A q \in Procs : Committing(q)' <=> Committing(q)
        BY <2>1, <2>2 DEF Committing
    <2>6. boot = "up"
        BY <1>0, <2>1, Alone
    <2> QED
        BY <1>0, <2>3, <2>4, <2>5, <2>6 DEF CommitInv
<1>5. ASSUME NEW p \in Procs, CommitDone(p)
      PROVE  CommitInv'
    <2>1. Committing(p)
        BY <1>5 DEF CommitDone, Committing
    <2>2. /\ outstanding = 0 /\ InOp = {} /\ boot = "up"
          /\ \A q \in Procs : q # p => ~Committing(q)
        BY <1>0, <2>1, Alone
    <2>3. \A q \in Procs : ~Committing(q)'
        BY <1>0, <1>5, <2>2 DEF CommitDone, Woken, Committing
    <2>4. InOp' = {}
        BY <1>0, <1>5, <2>2 DEF CommitDone, Woken, InOp
    <2>5. ~committing' /\ outstanding' = 0 /\ boot' = "up"
        BY <1>5, <2>2 DEF CommitDone
    <2> QED
        BY <2>3, <2>4, <2>5, FS_EmptySet DEF CommitInv
<1>6. ASSUME NEW p \in Procs, NEW b \in Blocks, NEW v \in Vals, LogWrite(p, b, v)
      PROVE  CommitInv'
    BY <1>0, <1>6 DEF LogWrite, CommitInv, InOp, Committing
<1>7. CASE Crash
    <2>1. InOp' = {} /\ \A q \in Procs : pc'[q] = "idle"
        BY <1>7 DEF Crash, InOp
    <2>2. ~committing' /\ outstanding' = 0
        BY <1>7 DEF Crash
    <2> QED
        BY <2>1, <2>2, FS_EmptySet DEF CommitInv, Committing
<1>8. CASE ReadHead \/ RecoverInstall \/ RecoverErase
    <2>1. boot # "up" /\ UNCHANGED <<outstanding, committing, pc>>
        BY <1>8 DEF ReadHead, RecoverInstall, RecoverErase
    <2> QED
        BY <1>0, <2>1 DEF CommitInv, InOp, Committing
<1> QED
    BY <1>1, <1>2, <1>3, <1>4, <1>5, <1>6, <1>7, <1>8, StepCases

\* The reservations, counted as a set of pairs.
LEMMA ReservedFacts ==
    ASSUME TypeOK, NEW I \in SUBSET Procs
    PROVE  LET P == I \X (1 .. MAXOPBLOCKS) IN
           /\ IsFiniteSet(P)
           /\ Cardinality(I) \in Nat
           /\ Cardinality(P) = Cardinality(I) * MAXOPBLOCKS
           /\ \A R \in SUBSET P :
                 IsFiniteSet(R) /\ Cardinality(R) \in Nat /\ Cardinality(R) <= Cardinality(P)
<1> DEFINE P == I \X (1 .. MAXOPBLOCKS)
<1>1. IsFiniteSet(I) /\ Cardinality(I) \in Nat
    BY LogAssumption, FS_Subset, FS_CardinalityType
<1>2. IsFiniteSet(1 .. MAXOPBLOCKS) /\ Cardinality(1 .. MAXOPBLOCKS) = MAXOPBLOCKS
    BY Sizes, FS_Interval
<1>3. IsFiniteSet(P) /\ Cardinality(P) = Cardinality(I) * MAXOPBLOCKS
    BY <1>1, <1>2, FS_Product
<1>4. \A R \in SUBSET P :
         IsFiniteSet(R) /\ Cardinality(R) \in Nat /\ Cardinality(R) <= Cardinality(P)
    BY <1>3, FS_Subset, FS_CardinalityType
<1> QED
    BY <1>1, <1>3, <1>4

\* A step after which no more is in the log and no more is reserved.
LEMMA NoMoreReserved ==
    ASSUME LogIInv, Len(lh') \in Nat, Len(lh') <= Len(lh), Reserved' \subseteq Reserved
    PROVE  Len(lh') + Cardinality(Reserved') <= LOGSIZE
<1>1. TypeOK /\ RoomInv
    BY DEF LogIInv
<1>2. Reserved \in SUBSET (InOp \X (1 .. MAXOPBLOCKS)) /\ InOp \in SUBSET Procs
    BY DEF Reserved, InOp
<1>3. IsFiniteSet(Reserved) /\ Cardinality(Reserved) \in Nat
    BY <1>1, <1>2, ReservedFacts
<1>4. Cardinality(Reserved') \in Nat /\ Cardinality(Reserved') <= Cardinality(Reserved)
    BY <1>3, FS_Subset, FS_CardinalityType
<1>5. Len(lh) \in Nat
    BY <1>1 DEF TypeOK
<1> QED
    BY <1>1, <1>3, <1>4, <1>5, Sizes DEF RoomInv

\* begin_op() lets in only calls whose reservation fits, log_write() takes from
\* it and end_op() gives it back.
THEOREM RoomPreserved ==
    ASSUME LogIInv, Next
    PROVE  RoomInv'
<1> USE Sizes
<1>0. TypeOK /\ CommitInv /\ RoomInv /\ TypeOK'
    BY TypePreserved DEF LogIInv
<1>a. Len(lh) \in Nat /\ Len(head) \in Nat /\ Len(lh') \in Nat
    BY <1>0 DEF TypeOK
<1>b. CommitInv'
    BY CommitPreserved
<1>c. IsFiniteSet({}) /\ Cardinality({}) = 0
    BY FS_EmptySet
<1>1. ASSUME NEW p \in Procs, BeginOp(p)
      PROVE  RoomInv'
    <2>1. lh' = lh
        BY <1>1 DEF BeginOp
    <2>2. CASE Admits
        <3>1. Len(lh) + (outstanding + 1) * MAXOPBLOCKS <= LOGSIZE /\ outstanding' = outstanding + 1
            BY <1>1, <2>2 DEF BeginOp, Admits
        <3>2. Cardinality(InOp') = outstanding + 1
            BY <1>b, <3>1 DEF CommitInv
        <3>3. Reserved' \in SUBSET (InOp' \X (1 .. MAXOPBLOCKS)) /\ InOp' \in SUBSET Procs
            BY DEF Reserved, InOp
        <3>4. /\ Cardinality(Reserved') \in Nat
              /\ Cardinality(Reserved') <= (outstanding + 1) * MAXOPBLOCKS
            BY <1>0, <3>2, <3>3, ReservedFacts
        <3>5. (outstanding + 1) * MAXOPBLOCKS \in Nat
            BY <1>0 DEF TypeOK
        <3>6. Len(lh') + Cardinality(Reserved') <= LOGSIZE
            BY <1>a, <2>1, <3>1, <3>4, <3>5
        <3>7. wrote' = [wrote EXCEPT ![p] = {}] /\ pc' = [pc EXCEPT ![p] = "inop"]
            BY <1>1, <2>2 DEF BeginOp, Goto
        <3> QED
            BY <1>0, <1>c, <2>1, <3>6, <3>7 DEF RoomInv, TypeOK
    <2>3. CASE ~Admits
        <3>1. wrote' = wrote /\ pc' = [pc EXCEPT ![p] = "asleep"] /\ pc[p] # "inop"
            BY <1>1, <2>3 DEF BeginOp, Goto
        <3>2. Reserved' = Reserved
            BY <1>0, <3>1 DEF Reserved, InOp, TypeOK
        <3> QED
            BY <1>0, <2>1, <3>1, <3>2 DEF RoomInv, TypeOK
    <2> QED
        BY <2>2, <2>3
<1>2. ASSUME NEW p \in Procs, Kill(p)
      PROVE  RoomInv'
    <2>1. wrote' = wrote /\ lh' = lh /\ pc' = [pc EXCEPT ![p] = "begin"] /\ pc[p] # "inop"
        BY <1>2 DEF Kill, Goto
    <2>2. Reserved' = Reserved
        BY <1>0, <2>1 DEF Reserved, InOp, TypeOK
    <2> QED
        BY <1>0, <2>1, <2>2 DEF RoomInv, TypeOK
<1>3. ASSUME NEW p \in Procs, EndOp(p)
      PROVE  RoomInv'
    <2>1. /\ wrote' = [wrote EXCEPT ![p] = {}] /\ lh' = lh
          /\ \A q \in Procs : pc'[q] = "inop" <=> q # p /\ pc[q] = "inop"
        BY <1>0, <1>3 DEF EndOp, Goto, Woken, TypeOK
    <2>2. Reserved' \subseteq Reserved
        BY <1>0, <2>1 DEF Reserved, InOp, TypeOK
    <2>3. Len(lh') + Cardinality(Reserved') <= LOGSIZE
        BY <1>a, <2>1, <2>2, NoMoreReserved
    <2> QED
        BY <1>0, <1>c, <2>1, <2>3 DEF RoomInv, TypeOK
<1>4. ASSUME NEW p \in Procs, NEW b \in Blocks, NEW v \in Vals, LogWrite(p, b, v)
      PROVE  RoomInv'
    <2> DEFINE n == Cardinality(wrote[p])
    <2>1. /\ pc[p] = "inop" /\ pc' = pc /\ lh' = Recorded(b)
          /\ wrote' = [wrote EXCEPT ![p] = @ \cup {b}]
          /\ Cardinality(wrote[p] \cup {b}) <= OpBlocks
        BY <1>4 DEF LogWrite
    <2>2. wrote'[p] = wrote[p] \cup {b} /\ \A q \in Procs \ {p} : wrote'[q] = wrote[q]
        BY <1>0, <2>1 DEF TypeOK
    <2>3. IsFiniteSet(wrote[p]) /\ n \in Nat
        BY <1>0, FS_CardinalityType DEF RoomInv
    <2>4. /\ IsFiniteSet(wrote'[p])
          /\ b \in wrote[p] => Cardinality(wrote'[p]) = n
          /\ b \notin wrote[p] => Cardinality(wrote'[p]) = n + 1
        <3>1. /\ IsFiniteSet(wrote[p] \cup {b})
              /\ b \in wrote[p] => Cardinality(wrote[p] \cup {b}) = n
              /\ b \notin wrote[p] => Cardinality(wrote[p] \cup {b}) = n + 1
            BY <2>3, FS_AddElement
        <3> QED
            BY <2>2, <3>1, Zenon
    <2>5. Logged(lh') = Logged(lh) \cup {b}
        BY <1>0, <2>1, Recording DEF Recorded, TypeOK
    <2>6. \A q \in Procs :
             /\ wrote'[q] \subseteq Logged(lh')
             /\ IsFiniteSet(wrote'[q]) /\ Cardinality(wrote'[q]) <= OpBlocks
             /\ pc'[q] # "inop" => wrote'[q] = {}
        BY <1>0, <2>1, <2>2, <2>4, <2>5 DEF RoomInv
    <2>7. Reserved' \subseteq Reserved
        <3>1. \A q \in Procs : /\ Cardinality(wrote[q]) \in Nat
                               /\ Cardinality(wrote'[q]) \in Nat
                               /\ Cardinality(wrote[q]) <= Cardinality(wrote'[q])
            <4>1. \A q \in Procs : Cardinality(wrote[q]) \in Nat
                BY <1>0, FS_CardinalityType DEF RoomInv
            <4>2. Cardinality(wrote'[p]) = n \/ Cardinality(wrote'[p]) = n + 1
                BY <2>4
            <4>3. \A q \in Procs : q # p => Cardinality(wrote'[q]) = Cardinality(wrote[q])
                BY <2>2, Zenon
            <4> QED
                BY <2>3, <4>1, <4>2, <4>3
        <3>2. InOp' = InOp /\ InOp \subseteq Procs
            BY <2>1 DEF InOp
        <3> QED
            BY <3>1, <3>2 DEF Reserved
    <2>8. CASE b \in Logged(lh)
        <3>1. lh' = lh
            BY <2>1, <2>8 DEF Recorded
        <3> QED
            BY <1>a, <2>6, <2>7, <3>1, NoMoreReserved DEF RoomInv
    <2>9. CASE b \notin Logged(lh)
        <3>1. b \notin wrote[p] /\ Len(lh') = Len(lh) + 1
            BY <1>0, <2>1, <2>9, Recording DEF Recorded, RoomInv, TypeOK
        <3>2. n + 1 <= OpBlocks /\ n + 1 \in 1 .. MAXOPBLOCKS
            <4>1. Cardinality(wrote[p] \cup {b}) = n + 1
                BY <2>2, <2>4, <3>1
            <4> QED
                BY <2>1, <2>3, <4>1
        <3>3. <<p, n + 1>> \in Reserved
            BY <2>1, <2>3, <3>2 DEF Reserved, InOp
        <3>4. Reserved' \subseteq Reserved \ {<<p, n + 1>>}
            <4>1. <<p, n + 1>> \notin Reserved'
                BY <2>3, <2>4, <3>1 DEF Reserved
            <4> QED
                BY <2>7, <4>1
        <3>5. Reserved \in SUBSET (InOp \X (1 .. MAXOPBLOCKS)) /\ InOp \in SUBSET Procs
            BY DEF Reserved, InOp
        <3>6. IsFiniteSet(Reserved) /\ Cardinality(Reserved) \in Nat
            BY <1>0, <3>5, ReservedFacts
        <3>7. /\ IsFiniteSet(Reserved \ {<<p, n + 1>>})
              /\ Cardinality(Reserved \ {<<p, n + 1>>}) = Cardinality(Reserved) - 1
            BY <3>3, <3>6, FS_RemoveElement
        <3>8. /\ Cardinality(Reserved') \in Nat
              /\ Cardinality(Reserved') <= Cardinality(Reserved) - 1
            BY <3>4, <3>7, FS_Subset, FS_CardinalityType
        <3>9. Len(lh') + Cardinality(Reserved') <= LOGSIZE
            BY <1>0, <1>a, <3>1, <3>6, <3>8 DEF RoomInv
        <3> QED
            BY <2>6, <3>9 DEF RoomInv
    <2> QED
        BY <2>8, <2>9
<1>5. ASSUME NEW p \in Procs,
             CommitStart(p) \/ WriteLog(p) \/ WriteHead(p) \/ Install(p)
             \/ Erase(p) \/ CommitDone(p)
      PROVE  RoomInv'
    <2>1. Committing(p) /\ wrote' = wrote
        BY <1>5 DEF CommitStart, WriteLog, WriteHead, Install, Erase, CommitDone,
                    Committing
    <2>2. InOp = {}
        BY <1>0, <2>1, Alone
    <2>3. \A q \in Procs : pc'[q] # "inop"
        BY <1>0, <1>5, <2>2 DEF CommitStart, WriteLog, WriteHead, Install, Erase,
              CommitDone, Goto, Woken, LogFirst, InOp, TypeOK
    <2>4. \A q \in Procs : wrote'[q] = {}
        BY <1>0, <2>1, <2>2 DEF RoomInv, InOp
    <2>5. Cardinality(Reserved') = 0
        <3>1. Reserved' = {}
            BY <2>3 DEF Reserved, InOp
        <3> QED
            BY <1>c, <3>1
    <2>6. Len(lh') <= LOGSIZE
        BY <1>0 DEF TypeOK
    <2>7. \A q \in Procs : IsFiniteSet(wrote'[q]) /\ Cardinality(wrote'[q]) = 0
        BY <1>c, <2>4
    <2> QED
        BY <1>a, <2>4, <2>5, <2>6, <2>7 DEF RoomInv
<1>6. CASE Crash \/ ReadHead \/ RecoverInstall \/ RecoverErase
    <2>1. \A q \in Procs : pc'[q] = "idle" /\ wrote'[q] = {}
        <3>1. CASE Crash
            BY <3>1 DEF Crash
        <3>2. CASE ReadHead \/ RecoverInstall \/ RecoverErase
            BY <1>0, <3>2, Down DEF ReadHead, RecoverInstall, RecoverErase, RoomInv
        <3> QED
            BY <1>6, <3>1, <3>2
    <2>2. Cardinality(Reserved') = 0
        <3>1. Reserved' = {}
            BY <2>1 DEF Reserved, InOp
        <3> QED
            BY <1>c, <3>1
    <2>3. Len(lh') <= LOGSIZE
        BY <1>0 DEF TypeOK
    <2>4. \A q \in Procs : IsFiniteSet(wrote'[q]) /\ Cardinality(wrote'[q]) = 0
        BY <1>c, <2>1
    <2> QED
        BY <1>a, <2>1, <2>2, <2>3, <2>4 DEF RoomInv
<1> QED
    BY <1>1, <1>2, <1>3, <1>4, <1>5, <1>6, StepCases

-----------------------------------------------------------------------------
\* Where the cache and the home locations may differ.
THEOREM CachePreserved ==
    ASSUME LogIInv, Next
    PROVE  CacheInv'
<1> USE DEF TypeOK
<1>0. TypeOK /\ CommitInv /\ CacheInv /\ PhaseInv
    BY DEF LogIInv
<1>1. ASSUME NEW p \in Procs, BeginOp(p)
      PROVE  CacheInv'
    <2>1. UNCHANGED <<home, mem, lh, head, boot, committing>>
        BY <1>1 DEF BeginOp, disk
    <2>2. outstanding' = outstanding \/ outstanding' # 0
        BY <1>0, <1>1 DEF BeginOp
    <2> QED
        BY <1>0, <2>1, <2>2 DEF CacheInv, OneToOne, Logged
<1>2. ASSUME NEW p \in Procs, Kill(p)
      PROVE  CacheInv'
    <2>1. UNCHANGED <<home, mem, lh, head, boot, committing, outstanding>>
        BY <1>2 DEF Kill, disk
    <2> QED
        BY <1>0, <2>1 DEF CacheInv, OneToOne, Logged
<1>3. ASSUME NEW p \in Procs, EndOp(p)
      PROVE  CacheInv'
    <2>1. UNCHANGED <<home, mem, lh, head, boot>>
        BY <1>3 DEF EndOp, disk
    <2>2. outstanding \in Nat /\ outstanding # 0 /\ ~committing /\ outstanding' = outstanding - 1
        BY <1>0, <1>3, Quiet DEF EndOp
    <2>3. outstanding' = 0 => committing'
        BY <1>3, <2>2 DEF EndOp
    <2> QED
        BY <1>0, <2>1, <2>2, <2>3 DEF CacheInv, OneToOne, Logged
<1>4. ASSUME NEW p \in Procs, NEW b \in Blocks, NEW v \in Vals, LogWrite(p, b, v)
      PROVE  CacheInv'
    <2>1. /\ mem' = [mem EXCEPT ![b] = v] /\ lh' = Recorded(b)
          /\ UNCHANGED <<home, head, boot, committing, outstanding>>
        BY <1>4 DEF LogWrite, disk
    <2>2. Logged(lh') = Logged(lh) \cup {b} /\ OneToOne(lh')
        BY <1>0, <2>1, Recording DEF Recorded, CacheInv
    <2>3. boot = "up" /\ outstanding # 0
        BY <1>0, <1>4, Quiet DEF LogWrite
    <2>4. \A c \in Blocks \ Logged(lh') : mem'[c] = home'[c]
        BY <1>0, <2>1, <2>2, <2>3 DEF CacheInv
    <2>5. OneToOne(head')
        BY <1>0, <2>1 DEF CacheInv, OneToOne
    <2> QED
        BY <2>1, <2>2, <2>3, <2>4, <2>5 DEF CacheInv
<1>5. ASSUME NEW p \in Procs, CommitStart(p) \/ WriteLog(p)
      PROVE  CacheInv'
    <2>1. UNCHANGED <<home, mem, lh, head, boot, committing, outstanding>>
        BY <1>5 DEF CommitStart, WriteLog, disk
    <2> QED
        BY <1>0, <2>1 DEF CacheInv, OneToOne, Logged
<1>6. ASSUME NEW p \in Procs, WriteHead(p)
      PROVE  CacheInv'
    <2>1. UNCHANGED <<home, mem, lh, boot, committing, outstanding>> /\ head' = lh
        BY <1>6 DEF WriteHead
    <2> QED
        BY <1>0, <2>1 DEF CacheInv, OneToOne, Logged
<1>7. ASSUME NEW p \in Procs, Install(p)
      PROVE  CacheInv'
    <2>1. home' = Installed /\ UNCHANGED <<mem, lh, head, boot, committing, outstanding>>
        BY <1>7 DEF Install
    <2>2. tail \in 1 .. Len(lh)
        BY <1>0, <1>7 DEF Install, PhaseInv, PhaseOf, RecoveryInv
    <2>3. lh[tail] \in Logged(lh)
        BY <2>2 DEF Logged
    <2>4. boot = "up" /\ committing
        BY <1>0, <1>7, Alone DEF Install, Committing
    <2>5. \A c \in Blocks \ Logged(lh) : home'[c] = home[c]
        BY <1>0, <2>1, <2>3 DEF Installed
    <2> QED
        BY <1>0, <2>1, <2>4, <2>5 DEF CacheInv, OneToOne, Logged
<1>8. ASSUME NEW p \in Procs, Erase(p)
      PROVE  CacheInv'
    <2>1. /\ lh' = <<>> /\ head' = <<>>
          /\ UNCHANGED <<home, mem, boot, committing, outstanding>>
        BY <1>8 DEF Erase
    <2>2. InLog(Len(lh)) /\ AtHome(Len(lh))
        BY <1>0, <1>8 DEF Erase, PhaseInv, PhaseOf, RecoveryInv
    <2>3. boot = "up"
        BY <1>0, <1>8, Alone DEF Erase, Committing
    <2>4. \A c \in Blocks : mem[c] = home[c]
        BY <1>0, <2>2, <2>3 DEF CacheInv, Logged, InLog, AtHome
    <2> QED
        BY <2>1, <2>3, <2>4, Empty DEF CacheInv
<1>9. ASSUME NEW p \in Procs, CommitDone(p)
      PROVE  CacheInv'
    <2>1. UNCHANGED <<home, mem, lh, head, boot, outstanding>>
        BY <1>9 DEF CommitDone, disk
    <2>2. lh = <<>>
        BY <1>0, <1>9 DEF CommitDone, PhaseInv, PhaseOf, RecoveryInv
    <2> QED
        BY <1>0, <2>1, <2>2 DEF CacheInv, OneToOne, Logged
<1>10. CASE Crash
    <2>1. lh' = <<>> /\ head' = head /\ boot' = "readhead" /\ mem' = home /\ home' = home
        BY <1>10 DEF Crash, disk
    <2> QED
        BY <1>0, <2>1, Empty DEF CacheInv, OneToOne
<1>11. CASE ReadHead
    <2>1. /\ lh' = head /\ UNCHANGED <<head, mem, home>>
          /\ boot # "up" /\ boot' # "up"
        BY <1>11 DEF ReadHead, disk, InstallNext
    <2> QED
        BY <1>0, <2>1 DEF CacheInv, OneToOne
<1>12. CASE RecoverInstall
    <2>1. UNCHANGED <<lh, head>> /\ mem' = home' /\ boot' # "up"
        BY <1>12 DEF RecoverInstall
    <2> QED
        BY <1>0, <2>1 DEF CacheInv, OneToOne
<1>13. CASE RecoverErase
    <2>1. /\ lh' = <<>> /\ head' = <<>> /\ UNCHANGED <<home, mem>>
          /\ boot # "up" /\ boot' = "up"
        BY <1>13 DEF RecoverErase
    <2> QED
        BY <1>0, <2>1, Empty DEF CacheInv
<1> QED
    BY <1>1, <1>2, <1>3, <1>4, <1>5, <1>6, <1>7, <1>8, <1>9, <1>10, <1>11,
       <1>12, <1>13, StepCases

\* One more block installed: from the log to its home, by commit or recovery.
LEMMA OneInstalled ==
    ASSUME TypeOK, OneToOne(lh), AtHome(tail - 1), tail \in 1 .. Len(lh),
           home' = Installed, lh' = lh, logblk' = logblk
    PROVE  \A i \in 1 .. tail : home'[lh'[i]] = logblk'[i]
<1>1. lh[tail] \in Blocks /\ Len(lh) \in Nat /\ \A i \in 1 .. Len(lh) : lh[i] \in Blocks
    BY DEF TypeOK
<1>2. home'[lh[tail]] = logblk[tail]
    BY <1>1 DEF Installed, TypeOK
<1>3. \A i \in 1 .. tail - 1 : lh[i] # lh[tail]
    BY <1>1 DEF OneToOne
<1>4. \A i \in 1 .. tail - 1 : home'[lh[i]] = logblk[i]
    BY <1>1, <1>3 DEF Installed, TypeOK, AtHome
<1>5. \A i \in 1 .. tail : i = tail \/ i \in 1 .. tail - 1
    BY <1>1
<1> QED
    BY <1>2, <1>4, <1>5

\* Commit and recovery write to the disk in the order that makes them safe.
THEOREM PhasePreserved ==
    ASSUME LogIInv, Next
    PROVE  PhaseInv'
<1> USE DEF TypeOK
<1>0. /\ TypeOK /\ CommitInv /\ CacheInv /\ PhaseInv
      /\ Len(lh) \in Nat /\ Len(head) \in Nat
    BY DEF LogIInv
<1>1. ASSUME NEW p \in Procs, BeginOp(p) \/ Kill(p)
      PROVE  PhaseInv'
    <2>1. UNCHANGED <<home, logblk, head, mem, lh, tail, boot, committing>>
        BY <1>1 DEF BeginOp, Kill, disk
    <2>2. boot = "up"
        BY <1>0, <1>1 DEF BeginOp, Kill, CommitInv
    <2>3. pc'[p] \in {"inop", "asleep", "begin"} /\ \A q \in Procs : q # p => pc'[q] = pc[q]
        BY <1>0, <1>1 DEF BeginOp, Kill, Goto
    <2>4. PhaseOf(p)'
        BY <2>3 DEF PhaseOf
    <2>5. \A q \in Procs : q # p => PhaseOf(q)'
        BY <1>0, <2>1, <2>3 DEF PhaseInv, PhaseOf, InLog, AtHome
    <2> QED
        BY <1>0, <2>1, <2>2, <2>4, <2>5 DEF PhaseInv, RecoveryInv
<1>2. ASSUME NEW p \in Procs, EndOp(p)
      PROVE  PhaseInv'
    <2>1. boot = "up" /\ ~committing /\ \A q \in Procs : ~Committing(q)
        BY <1>0, <1>2, Quiet DEF EndOp
    <2>2. boot' = "up" /\ head' = <<>>
        BY <1>0, <1>2, <2>1 DEF EndOp, disk, PhaseInv
    <2>3. pc'[p] \in {"commit", "idle"}
        BY <1>0, <1>2 DEF EndOp, Goto, Woken
    <2>4. \A q \in Procs : q # p => pc'[q] \in {"begin", pc[q]}
        BY <1>0, <1>2 DEF EndOp, Goto, Woken
    <2>5. PhaseOf(p)'
        BY <2>2, <2>3 DEF PhaseOf
    <2>6. \A q \in Procs : q # p => PhaseOf(q)'
        BY <2>1, <2>4 DEF PhaseOf, Committing
    <2> QED
        BY <2>2, <2>5, <2>6 DEF PhaseInv, RecoveryInv
<1>3. ASSUME NEW p \in Procs, NEW b \in Blocks, NEW v \in Vals, LogWrite(p, b, v)
      PROVE  PhaseInv'
    <2>1. boot = "up" /\ ~committing /\ \A q \in Procs : ~Committing(q)
        BY <1>0, <1>3, Quiet DEF LogWrite
    <2>2. UNCHANGED <<head, pc, boot>>
        BY <1>3 DEF LogWrite, disk
    <2>3. boot' = "up" /\ head' = <<>>
        BY <1>0, <2>1, <2>2 DEF PhaseInv
    <2>4. \A q \in Procs : PhaseOf(q)'
        BY <2>1, <2>2 DEF PhaseOf, Committing
    <2> QED
        BY <2>3, <2>4 DEF PhaseInv, RecoveryInv
<1>4. ASSUME NEW p \in Procs,
             CommitStart(p) \/ WriteLog(p) \/ WriteHead(p) \/ Install(p) \/ Erase(p),
             PhaseOf(p)'
      PROVE  PhaseInv'
    <2>1. Committing(p)
        BY <1>4 DEF CommitStart, WriteLog, WriteHead, Install, Erase, Committing
    <2>2. committing /\ boot = "up" /\ \A q \in Procs : q # p => ~Committing(q)
        BY <1>0, <2>1, Alone
    <2>3. committing' /\ boot' = "up"
        BY <1>4, <2>2 DEF CommitStart, WriteLog, WriteHead, Install, Erase
    <2>4. \A q \in Procs : q # p => pc'[q] = pc[q]
        BY <1>0, <1>4 DEF CommitStart, WriteLog, WriteHead, Install, Erase, Goto
    <2>5. \A q \in Procs : q # p => PhaseOf(q)'
        BY <2>2, <2>4 DEF PhaseOf, Committing
    <2> QED
        BY <1>4, <2>3, <2>5 DEF PhaseInv, RecoveryInv
<1>5. ASSUME NEW p \in Procs, CommitStart(p)
      PROVE  PhaseOf(p)'
    <2>1. tail' = 1 /\ UNCHANGED <<head, lh, logblk, mem>> /\ head = <<>>
        BY <1>0, <1>5 DEF CommitStart, disk, PhaseInv, PhaseOf
    <2>2. pc'[p] = IF lh = <<>> THEN "done" ELSE "writelog"
        BY <1>0, <1>5 DEF CommitStart, Goto, LogFirst
    <2>3. lh # <<>> => tail' <= Len(lh')
        BY <1>0, <2>1, Empty
    <2>4. InLog(tail - 1)'
        BY <2>1 DEF InLog
    <2> QED
        BY <2>1, <2>2, <2>3, <2>4 DEF PhaseOf
<1>6. ASSUME NEW p \in Procs, WriteLog(p)
      PROVE  PhaseOf(p)'
    <2>1. /\ tail \in 1 .. Len(lh) /\ tail \in 1 .. NLOG - 1
          /\ head = <<>> /\ lh # <<>> /\ InLog(tail - 1)
        <3>1. head = <<>> /\ lh # <<>> /\ tail <= Len(lh) /\ InLog(tail - 1)
            BY <1>0, <1>6 DEF WriteLog, PhaseInv, PhaseOf
        <3> QED
            BY <1>0, <3>1, Sizes
    <2>2. /\ logblk' = [logblk EXCEPT ![tail] = mem[lh[tail]]]
          /\ UNCHANGED <<head, lh, mem>>
        BY <1>6 DEF WriteLog
    <2>3. \A i \in 1 .. tail : i = tail \/ i \in 1 .. tail - 1
        BY <2>1
    <2>4. \A i \in 1 .. tail : logblk'[i] = mem'[lh'[i]]
        BY <1>0, <2>1, <2>2, <2>3 DEF InLog
    <2>5. CASE tail = Len(lh)
        <3>1. pc'[p] = "writehead" /\ tail' = 1
            BY <1>0, <1>6, <2>5 DEF WriteLog, Goto
        <3> QED
            BY <2>1, <2>2, <2>4, <2>5, <3>1 DEF PhaseOf, InLog
    <2>6. CASE tail # Len(lh)
        <3>1. pc'[p] = "writelog" /\ tail' = tail + 1
            BY <1>0, <1>6, <2>6 DEF WriteLog, Goto
        <3>2. tail' <= Len(lh') /\ tail' - 1 = tail
            BY <1>0, <2>1, <2>2, <2>6, <3>1
        <3> QED
            BY <2>1, <2>2, <2>4, <3>1, <3>2 DEF PhaseOf, InLog
    <2> QED
        BY <2>5, <2>6
<1>7. ASSUME NEW p \in Procs, WriteHead(p)
      PROVE  PhaseOf(p)'
    <2>1. tail = 1 /\ InLog(Len(lh)) /\ lh # <<>>
        BY <1>0, <1>7 DEF WriteHead, PhaseInv, PhaseOf
    <2>2. head' = lh /\ UNCHANGED <<lh, logblk, mem, tail>> /\ pc'[p] = "install"
        BY <1>0, <1>7 DEF WriteHead, Goto
    <2>3. tail' <= Len(lh')
        BY <1>0, <2>1, <2>2, Empty
    <2> QED
        BY <2>1, <2>2, <2>3 DEF PhaseOf, InLog, AtHome
<1>8. ASSUME NEW p \in Procs, Install(p)
      PROVE  PhaseOf(p)'
    <2>1. /\ tail \in 1 .. Len(lh) /\ lh # <<>> /\ head = lh
          /\ InLog(Len(lh)) /\ AtHome(tail - 1)
        BY <1>0, <1>8 DEF Install, PhaseInv, PhaseOf
    <2>2. home' = Installed /\ UNCHANGED <<lh, logblk, mem, head>>
        BY <1>8 DEF Install
    <2>3. \A i \in 1 .. tail : home'[lh'[i]] = logblk'[i]
        BY <1>0, <2>1, <2>2, OneInstalled DEF CacheInv
    <2>4. InLog(Len(lh))'
        BY <2>1, <2>2 DEF InLog
    <2>5. CASE tail = Len(lh)
        <3>1. pc'[p] = "erase"
            BY <1>0, <1>8, <2>5 DEF Install, Goto
        <3> QED
            BY <2>1, <2>2, <2>3, <2>4, <2>5, <3>1 DEF PhaseOf, AtHome
    <2>6. CASE tail # Len(lh)
        <3>1. pc'[p] = "install" /\ tail' = tail + 1
            BY <1>0, <1>8, <2>6 DEF Install, Goto
        <3>2. tail' <= Len(lh') /\ tail' - 1 = tail
            BY <1>0, <2>1, <2>2, <2>6, <3>1
        <3> QED
            BY <2>1, <2>2, <2>3, <2>4, <3>1, <3>2 DEF PhaseOf, AtHome
    <2> QED
        BY <2>5, <2>6
<1>9. ASSUME NEW p \in Procs, Erase(p)
      PROVE  PhaseOf(p)'
    <2>1. lh' = <<>> /\ head' = <<>> /\ pc'[p] = "done"
        BY <1>0, <1>9 DEF Erase, Goto
    <2> QED
        BY <2>1 DEF PhaseOf
<1>10. ASSUME NEW p \in Procs, CommitDone(p)
       PROVE  PhaseInv'
    <2>1. Committing(p) /\ pc[p] = "done" /\ UNCHANGED <<head, boot>>
        BY <1>10 DEF CommitDone, Committing, disk
    <2>2. boot = "up" /\ \A q \in Procs : q # p => ~Committing(q)
        BY <1>0, <2>1, Alone
    <2>3. head' = <<>> /\ boot' = "up"
        <3>1. head = <<>>
            BY <1>0, <2>1 DEF PhaseInv, PhaseOf
        <3> QED
            BY <2>1, <2>2, <3>1, Zenon
    <2>4. pc'[p] = "idle" /\ \A q \in Procs : q # p => pc'[q] \in {"begin", pc[q]}
        BY <1>0, <1>10 DEF CommitDone, Woken
    <2>5. \A q \in Procs : PhaseOf(q)'
        BY <2>2, <2>4 DEF PhaseOf, Committing
    <2> QED
        BY <2>3, <2>5 DEF PhaseInv, RecoveryInv
<1>11. CASE Crash
    <2>1. boot' = "readhead" /\ lh' = <<>> /\ \A q \in Procs : pc'[q] = "idle"
        BY <1>11 DEF Crash
    <2> QED
        BY <2>1 DEF PhaseInv, PhaseOf, RecoveryInv
<1>12. CASE ReadHead \/ RecoverInstall \/ RecoverErase
    <2>1. \A q \in Procs : pc'[q] = "idle"
        BY <1>0, <1>12, Down DEF ReadHead, RecoverInstall, RecoverErase
    <2>2. \A q \in Procs : PhaseOf(q)'
        BY <2>1 DEF PhaseOf
    <2>3. CASE ReadHead
        <3>1. /\ lh' = head /\ head' = head /\ tail' = 1
              /\ boot' = IF head = <<>> THEN "erase" ELSE "install"
            BY <2>3 DEF ReadHead, InstallNext, disk
        <3>2. head = <<>> => Len(lh') = 0
            BY <3>1
        <3>3. head # <<>> => tail' <= Len(lh')
            BY <1>0, <3>1, Empty
        <3> QED
            BY <2>2, <3>1, <3>2, <3>3 DEF PhaseInv, RecoveryInv, AtHome
    <2>4. CASE RecoverInstall
        <3>1. boot = "install" /\ home' = Installed /\ UNCHANGED <<lh, logblk, head>>
            BY <2>4 DEF RecoverInstall
        <3>2. tail \in 1 .. Len(lh) /\ lh = head /\ AtHome(tail - 1)
            BY <1>0, <3>1 DEF PhaseInv, RecoveryInv
        <3>3. \A i \in 1 .. tail : home'[lh'[i]] = logblk'[i]
            BY <1>0, <3>1, <3>2, OneInstalled DEF CacheInv
        <3>4. CASE tail = Len(lh)
            <4>1. boot' = "erase"
                BY <2>4, <3>4 DEF RecoverInstall
            <4> QED
                BY <2>2, <3>1, <3>2, <3>3, <3>4, <4>1 DEF PhaseInv, RecoveryInv, AtHome
        <3>5. CASE tail # Len(lh)
            <4>1. boot' = "install" /\ tail' = tail + 1
                BY <2>4, <3>5 DEF RecoverInstall
            <4>2. tail' <= Len(lh') /\ tail' - 1 = tail
                BY <1>0, <3>1, <3>2, <3>5, <4>1
            <4> QED
                BY <2>2, <3>1, <3>2, <3>3, <4>1, <4>2 DEF PhaseInv, RecoveryInv, AtHome
        <3> QED
            BY <3>4, <3>5
    <2>5. CASE RecoverErase
        <3>1. boot' = "up" /\ head' = <<>>
            BY <2>5 DEF RecoverErase
        <3> QED
            BY <2>2, <3>1 DEF PhaseInv, RecoveryInv
    <2> QED
        BY <1>12, <2>3, <2>4, <2>5
<1> QED
    BY <1>1, <1>2, <1>3, <1>4, <1>5, <1>6, <1>7, <1>8, <1>9, <1>10, <1>11,
       <1>12, StepCases

-----------------------------------------------------------------------------
(***************************************************************************)
(* The invariant, and what follows from it.                                *)
(***************************************************************************)

\* Whoever sleeps in begin_op() has a reason: whatever makes room, or ends a commit,
\* wakes everybody.
THEOREM WaitersPreserved ==
    ASSUME LogIInv, Next
    PROVE  WaiterHasReason'
<1> USE Sizes DEF TypeOK
<1>0. TypeOK /\ CommitInv /\ WaiterHasReason
    BY DEF LogIInv
<1>1. ASSUME NEW p \in Procs, BeginOp(p)
      PROVE  WaiterHasReason'
    <2>1. UNCHANGED <<lh, committing>>
        BY <1>1 DEF BeginOp
    <2>2. CASE Admits
        <3>1. outstanding' = outstanding + 1 /\ \A q \in Procs : q # p => pc'[q] = pc[q]
            BY <1>0, <1>1, <2>2 DEF BeginOp, Goto
        <3>2. pc'[p] = "inop"
            BY <1>0, <1>1, <2>2 DEF BeginOp, Goto
        <3>3. \A q \in Procs : pc'[q] # "asleep"
            BY <1>0, <2>2, <3>1, <3>2 DEF WaiterHasReason
        <3> QED
            BY <3>3 DEF WaiterHasReason
    <2>3. CASE ~Admits
        <3>1. outstanding' = outstanding
            BY <1>1, <2>3 DEF BeginOp
        <3> QED
            BY <2>1, <2>3, <3>1 DEF WaiterHasReason, Admits
    <2> QED
        BY <2>2, <2>3
<1>2. ASSUME NEW p \in Procs, EndOp(p)
      PROVE  WaiterHasReason'
    <2>1. CASE outstanding = 1
        <3>1. committing'
            BY <1>2, <2>1 DEF EndOp
        <3> QED
            BY <3>1 DEF WaiterHasReason, Admits
    <2>2. CASE outstanding # 1
        <3>1. \A q \in Procs : pc'[q] # "asleep"
            BY <1>0, <1>2, <2>2 DEF EndOp, Woken
        <3> QED
            BY <3>1 DEF WaiterHasReason
    <2> QED
        BY <2>1, <2>2
<1>3. ASSUME NEW p \in Procs, NEW b \in Blocks, NEW v \in Vals, LogWrite(p, b, v)
      PROVE  WaiterHasReason'
    <2>1. Len(lh) \in Nat /\ Len(lh') \in Nat /\ Len(lh') >= Len(lh)
        BY <1>0, <1>3, Recording DEF LogWrite, Recorded
    <2>2. UNCHANGED <<pc, outstanding, committing>>
        BY <1>3 DEF LogWrite
    <2>3. (outstanding + 1) * MAXOPBLOCKS \in Nat
        BY <1>0
    <2> DEFINE more == (outstanding + 1) * MAXOPBLOCKS
    <2>4. Admits' => Admits
        <3>1. (outstanding' + 1) * MAXOPBLOCKS = more
            BY <2>2
        <3> HIDE DEF more
        <3>2. Len(lh') + more <= LOGSIZE => Len(lh) + more <= LOGSIZE
            BY <2>1, <2>3 DEF more
        <3> QED
            BY <2>2, <3>1, <3>2 DEF Admits, more
    <2> QED
        BY <1>0, <2>2, <2>4 DEF WaiterHasReason
<1>4. ASSUME NEW p \in Procs, Kill(p)
      PROVE  WaiterHasReason'
    <2>1. UNCHANGED <<lh, outstanding, committing>>
        BY <1>4 DEF Kill
    <2>2. \A q \in Procs : pc'[q] = "asleep" => pc[q] = "asleep"
        BY <1>0, <1>4 DEF Kill, Goto
    <2> QED
        BY <1>0, <2>1, <2>2 DEF WaiterHasReason, Admits
<1>5. ASSUME NEW p \in Procs,
             CommitStart(p) \/ WriteLog(p) \/ WriteHead(p) \/ Install(p) \/ Erase(p)
      PROVE  WaiterHasReason'
    <2>1. Committing(p)
        BY <1>5 DEF CommitStart, WriteLog, WriteHead, Install, Erase, Committing
    <2>2. committing /\ committing' = committing
        BY <1>0, <1>5, <2>1, Alone DEF CommitStart, WriteLog, WriteHead, Install, Erase
    <2> QED
        BY <2>2 DEF WaiterHasReason, Admits
<1>6. ASSUME NEW p \in Procs, CommitDone(p)
      PROVE  WaiterHasReason'
    <2>1. \A q \in Procs : pc'[q] # "asleep"
        BY <1>0, <1>6 DEF CommitDone, Woken
    <2> QED
        BY <2>1 DEF WaiterHasReason
<1>7. CASE Crash
    BY <1>7 DEF Crash, WaiterHasReason
<1>8. CASE ReadHead \/ RecoverInstall \/ RecoverErase
    <2>1. boot # "up" /\ UNCHANGED pc
        BY <1>8 DEF ReadHead, RecoverInstall, RecoverErase
    <2>2. \A q \in Procs : pc'[q] = "idle"
        BY <1>0, <2>1, Down
    <2> QED
        BY <2>2 DEF WaiterHasReason
<1> QED
    BY <1>1, <1>2, <1>3, <1>4, <1>5, <1>6, <1>7, <1>8, StepCases

\* It holds of a disk that mkfs has made.
LEMMA InitEstablishes == Init => LogIInv
<1> SUFFICES ASSUME Init PROVE LogIInv
    OBVIOUS
<1>1. /\ lh = <<>> /\ head = <<>> /\ outstanding = 0 /\ ~committing
      /\ boot = "up" /\ tail = 1 /\ mem = home
      /\ \A p \in Procs : pc[p] = "idle" /\ wrote[p] = {}
    BY DEF Init
<1>2. InOp = {} /\ Reserved = {}
    BY <1>1 DEF InOp, Reserved
<1>3. TypeOK
    <2>1. home \in [Blocks -> Vals] /\ mem \in [Blocks -> Vals] /\ logblk \in [1 .. NLOG - 1 -> Vals]
        BY LogAssumption DEF Init
    <2>2. pc \in [Procs -> Points] /\ wrote \in [Procs -> SUBSET Blocks]
        BY DEF Init, Points
    <2>3. committing \in BOOLEAN
        BY Zenon DEF Init
    <2>4. 0 <= LOGSIZE /\ 0 <= NLOG - 1
        BY Sizes
    <2>5. lh \in Seq(Blocks) /\ Len(lh) = 0 /\ head \in Seq(Blocks) /\ Len(head) = 0
        BY <1>1, Empty
    <2> QED
        BY <1>1, <2>1, <2>2, <2>3, <2>4, <2>5 DEF TypeOK
<1>4. CommitInv
    BY <1>1, <1>2, FS_EmptySet DEF CommitInv, Committing
<1>5. RoomInv
    <2>1. IsFiniteSet({}) /\ Cardinality({}) = 0
        BY FS_EmptySet
    <2>2. \A p \in Procs : IsFiniteSet(wrote[p]) /\ Cardinality(wrote[p]) = 0
        BY <1>1, <2>1, Zenon
    <2>3. Cardinality(Reserved) = 0 /\ Len(lh) = 0
        BY <1>1, <1>2, <2>1
    <2> QED
        BY <1>1, <2>2, <2>3, Sizes DEF RoomInv
<1>6. CacheInv
    BY <1>1, Empty DEF CacheInv
<1>7. PhaseInv
    BY <1>1 DEF PhaseInv, PhaseOf, RecoveryInv
<1>8. WaiterHasReason
    BY <1>1 DEF WaiterHasReason
<1> QED
    BY <1>3, <1>4, <1>5, <1>6, <1>7, <1>8 DEF LogIInv

\* The invariant holds in every reachable state, for any number of processes
\* and blocks, whatever the sizes of the log and the reservations.
THEOREM LogInvariant == Spec => []LogIInv
<1>1. LogIInv /\ Next => LogIInv'
    BY TypePreserved, CommitPreserved, RoomPreserved, CachePreserved, PhasePreserved,
       WaitersPreserved
       DEF LogIInv
<1>2. LogIInv /\ UNCHANGED vars => LogIInv'
    BY DEF LogIInv, TypeOK, CommitInv, InOp, Committing, RoomInv, Reserved, Logged,
           CacheInv, OneToOne, PhaseInv, PhaseOf, RecoveryInv, InLog, AtHome,
           WaiterHasReason, Admits, vars, disk
<1> QED
    BY InitEstablishes, <1>1, <1>2, PTL DEF Spec

\* log_write() never finds the log full, nor end_op() a commit going on, as long
\* as a call leaves two blocks of its reservation.
THEOREM NoPanicHolds == Spec => []NoPanic
<1>1. LogIInv => NoPanic
    <2> SUFFICES ASSUME LogIInv, NEW p \in InOp
                 PROVE  ~TooBig /\ ~committing
        BY DEF NoPanic
    <2>1. TypeOK /\ CommitInv /\ RoomInv /\ p \in Procs /\ pc[p] = "inop"
        BY DEF LogIInv, InOp
    <2>2. Cardinality(wrote[p]) \in Nat /\ Cardinality(wrote[p]) <= OpBlocks
        BY <2>1, FS_CardinalityType DEF RoomInv
    <2> DEFINE a == <<p, MAXOPBLOCKS>>
               b == <<p, MAXOPBLOCKS - 1>>
    <2>3. a \in Reserved /\ b \in Reserved /\ a # b
        BY <2>1, <2>2, Sizes DEF Reserved
    <2>4. Reserved \in SUBSET (InOp \X (1 .. MAXOPBLOCKS)) /\ InOp \in SUBSET Procs
        BY DEF Reserved, InOp
    <2>5. IsFiniteSet(Reserved) /\ Cardinality(Reserved) \in Nat
        BY <2>1, <2>4, ReservedFacts
    <2>6. /\ IsFiniteSet(Reserved \ {a})
          /\ Cardinality(Reserved \ {a}) = Cardinality(Reserved) - 1
        BY <2>3, <2>5, FS_RemoveElement
    <2>7. /\ IsFiniteSet((Reserved \ {a}) \ {b})
          /\ Cardinality((Reserved \ {a}) \ {b}) = Cardinality(Reserved) - 2
        <3>1. b \in Reserved \ {a}
            BY <2>3
        <3>2. /\ IsFiniteSet((Reserved \ {a}) \ {b})
              /\ Cardinality((Reserved \ {a}) \ {b}) = Cardinality(Reserved \ {a}) - 1
            BY <2>6, <3>1, FS_RemoveElement
        <3>3. Cardinality(Reserved) - 1 - 1 = Cardinality(Reserved) - 2
            BY <2>5
        <3> QED
            BY <2>6, <3>2, <3>3, Zenon
    <2>8. Cardinality(Reserved) >= 2
        BY <2>5, <2>7, FS_CardinalityType
    <2>9. Len(lh) + 2 <= LOGSIZE
        BY <2>1, <2>5, <2>8, Sizes DEF RoomInv, TypeOK
    <2> QED
        BY <2>1, <2>9, Quiet, Sizes DEF TooBig, TypeOK
<1> QED
    BY LogInvariant, <1>1, PTL

\* With no call and no commit in progress everything is home and the log empty.
THEOREM IdleMeansDurableHolds == Spec => []IdleMeansDurable
<1>1. LogIInv => IdleMeansDurable
    <2> SUFFICES ASSUME LogIInv, boot = "up", outstanding = 0, ~committing
                 PROVE  head = <<>> /\ lh = <<>> /\ home = mem
        BY DEF IdleMeansDurable
    <2>1. TypeOK /\ CacheInv /\ PhaseInv
        BY DEF LogIInv
    <2>2. head = <<>>
        BY <2>1 DEF PhaseInv
    <2>3. lh = <<>>
        BY <2>1 DEF CacheInv
    <2>4. \A b \in Blocks : mem[b] = home[b]
        BY <2>1, <2>3, Empty DEF CacheInv
    <2> QED
        BY <2>1, <2>2, <2>3, <2>4 DEF TypeOK
<1> QED
    BY LogInvariant, <1>1, PTL

\* No wakeup on &log is missed.
THEOREM WaiterHasReasonHolds == Spec => []WaiterHasReason
    BY LogInvariant, PTL DEF LogIInv

-----------------------------------------------------------------------------
(***************************************************************************)
(* The log implements AtomicDisk.                                          *)
(***************************************************************************)

\* What recovery would make of a disk.
LEMMA Replay ==
    ASSUME NEW h \in Seq(Blocks), NEW l, NEW hm \in [Blocks -> Vals], OneToOne(h)
    PROVE  /\ DOMAIN Replayed(h, l, hm) = Blocks
           /\ \A i \in 1 .. Len(h) : Replayed(h, l, hm)[h[i]] = l[i]
           /\ \A b \in Blocks \ Logged(h) : Replayed(h, l, hm)[b] = hm[b]
<1>1. \A i \in 1 .. Len(h) : h[i] \in Blocks /\ h[i] \in Logged(h)
    BY DEF Logged
<1>2. ASSUME NEW i \in 1 .. Len(h)
      PROVE  (CHOOSE j \in 1 .. Len(h) : h[j] = h[i]) = i
    BY <1>2 DEF OneToOne
<1> QED
    BY <1>1, <1>2 DEF Replayed

\* An empty log leaves the disk as it is.
LEMMA ReplayNothing ==
    ASSUME NEW l, NEW hm \in [Blocks -> Vals]
    PROVE  Replayed(<<>>, l, hm) = hm
<1>1. \A b \in Blocks : b \notin Logged(<<>>)
    BY Empty
<1> QED
    BY <1>1 DEF Replayed

\* A log that is all at home can be erased.
LEMMA ReplayInstalled ==
    ASSUME NEW h \in Seq(Blocks), NEW l, NEW hm \in [Blocks -> Vals], OneToOne(h),
           \A i \in 1 .. Len(h) : hm[h[i]] = l[i]
    PROVE  Replayed(h, l, hm) = hm
<1>1. \A b \in Blocks : Replayed(h, l, hm)[b] = hm[b]
    BY Replay DEF Logged
<1>2. Replayed(h, l, hm) = [b \in Blocks |-> Replayed(h, l, hm)[b]]
    BY DEF Replayed
<1>3. hm = [b \in Blocks |-> hm[b]]
    OBVIOUS
<1> QED
    BY <1>1, <1>2, <1>3

\* Installing a block again changes nothing for recovery.
LEMMA ReplayAgain ==
    ASSUME NEW h \in Seq(Blocks), NEW l, NEW hm \in [Blocks -> Vals], OneToOne(h),
           NEW i \in 1 .. Len(h), l[i] \in Vals
    PROVE  Replayed(h, l, [hm EXCEPT ![h[i]] = l[i]]) = Replayed(h, l, hm)
<1> DEFINE hn == [hm EXCEPT ![h[i]] = l[i]]
<1>1. hn \in [Blocks -> Vals] /\ h[i] \in Logged(h)
    BY DEF Logged
<1>2. \A b \in Blocks \ Logged(h) : hn[b] = hm[b]
    BY <1>1
<1> QED
    BY <1>2 DEF Replayed

\* Each step of the log is a step of AtomicDisk, or none.
THEOREM DiskStep ==
    ASSUME LogIInv, LogIInv', [Next]_vars
    PROVE  [Disk!ANext]_Disk!avars
<1> DEFINE cur == IF boot = "up" THEN mem ELSE Recovered
<1> USE DEF TypeOK
<1>0. /\ TypeOK /\ CommitInv /\ CacheInv /\ PhaseInv
      /\ Len(lh) \in Nat /\ Len(head) \in Nat
      /\ home' \in [Blocks -> Vals] /\ logblk' \in [1 .. NLOG - 1 -> Vals]
      /\ mem' \in [Blocks -> Vals]
    BY DEF LogIInv
<1>a. OneToOne(lh) /\ OneToOne(head)
    BY <1>0 DEF CacheInv
<1>s. ASSUME cur' = cur, Recovered' = Recovered, InOp' = InOp
      PROVE  UNCHANGED Disk!avars
    BY <1>s DEF Disk!avars
<1>1. ASSUME NEW p \in Procs, BeginOp(p)
      PROVE  Disk!ANext \/ UNCHANGED Disk!avars
    <2>1. UNCHANGED <<home, logblk, head, mem, boot>>
        BY <1>1 DEF BeginOp, disk
    <2>2. cur' = cur /\ Recovered' = Recovered
        BY <2>1 DEF Recovered
    <2>3. CASE Admits
        <3>1. InOp' = InOp \cup {p} /\ p \notin InOp
            BY <1>0, <1>1, <2>3 DEF BeginOp, Goto, InOp
        <3> QED
            BY <2>2, <3>1 DEF Disk!ANext, Disk!ABegin
    <2>4. CASE ~Admits
        <3>1. InOp' = InOp
            BY <1>0, <1>1, <2>4 DEF BeginOp, Goto, InOp
        <3> QED
            BY <1>s, <2>2, <3>1
    <2> QED
        BY <2>3, <2>4
<1>2. ASSUME NEW p \in Procs, EndOp(p)
      PROVE  Disk!ANext
    <2>1. UNCHANGED <<home, logblk, head, mem, boot>>
        BY <1>2 DEF EndOp, disk
    <2>2. cur' = cur /\ Recovered' = Recovered
        BY <2>1 DEF Recovered
    <2>3. InOp' = InOp \ {p} /\ p \in InOp
        BY <1>0, <1>2 DEF EndOp, Goto, InOp, Woken
    <2> QED
        BY <2>2, <2>3 DEF Disk!ANext, Disk!AEnd
<1>3. ASSUME NEW p \in Procs, NEW b \in Blocks, NEW v \in Vals, LogWrite(p, b, v)
      PROVE  Disk!ANext
    <2>1. boot = "up"
        BY <1>0, <1>3, Quiet DEF LogWrite
    <2>2. mem' = [mem EXCEPT ![b] = v] /\ UNCHANGED <<home, logblk, head, pc, boot>>
        BY <1>3 DEF LogWrite, disk
    <2>3. cur' = [cur EXCEPT ![b] = v] /\ Recovered' = Recovered /\ InOp' = InOp
        BY <2>1, <2>2 DEF Recovered, InOp
    <2>4. p \in InOp
        BY <1>3 DEF LogWrite, InOp
    <2> QED
        BY <2>3, <2>4 DEF Disk!ANext, Disk!AWrite
<1>4. ASSUME NEW p \in Procs, Kill(p) \/ CommitStart(p) \/ CommitDone(p)
      PROVE  UNCHANGED Disk!avars
    <2>1. UNCHANGED <<home, logblk, head, mem, boot>>
        BY <1>4 DEF Kill, CommitStart, CommitDone, disk
    <2>2. cur' = cur /\ Recovered' = Recovered
        BY <2>1 DEF Recovered
    <2>3. InOp' = InOp
        BY <1>0, <1>4 DEF Kill, CommitStart, CommitDone, Goto, Woken, LogFirst, InOp
    <2> QED
        BY <1>s, <2>2, <2>3
<1>5. ASSUME NEW p \in Procs, WriteLog(p)
      PROVE  UNCHANGED Disk!avars
    <2>1. head = <<>> /\ UNCHANGED <<home, head, mem, boot>>
        BY <1>0, <1>5 DEF WriteLog, PhaseInv, PhaseOf
    <2>2. Recovered' = home /\ Recovered = home
        <3>1. Recovered = Replayed(<<>>, logblk, home) /\ Recovered' = Replayed(<<>>, logblk', home)
            BY <2>1, Zenon DEF Recovered
        <3> QED
            BY <1>0, <3>1, ReplayNothing
    <2>3. InOp' = InOp
        BY <1>0, <1>5 DEF WriteLog, Goto, InOp
    <2>4. cur' = cur
        BY <2>1, <2>2
    <2> QED
        BY <1>s, <2>2, <2>3, <2>4
<1>6. ASSUME NEW p \in Procs, WriteHead(p)
      PROVE  Disk!ANext
    <2>1. boot = "up" /\ InOp = {}
        BY <1>0, <1>6, Alone DEF WriteHead, Committing
    <2>2. InLog(Len(lh)) /\ lh # <<>>
        BY <1>0, <1>6 DEF WriteHead, PhaseInv, PhaseOf
    <2>3. head' = lh /\ UNCHANGED <<home, logblk, mem, boot>>
        BY <1>6 DEF WriteHead
    <2>4. Recovered' = Replayed(lh, logblk, home)
        BY <2>3, Zenon DEF Recovered
    <2> DEFINE R == Replayed(lh, logblk, home)
    <2>5. \A b \in Blocks : R[b] = mem[b]
        <3>1. /\ \A i \in 1 .. Len(lh) : R[lh[i]] = logblk[i]
              /\ \A b \in Blocks \ Logged(lh) : R[b] = home[b]
            <4>1. lh \in Seq(Blocks) /\ home \in [Blocks -> Vals] /\ OneToOne(lh)
                BY <1>0, <1>a
            <4> QED
                BY <4>1, Replay
        <3> HIDE DEF R
        <3>2. \A i \in 1 .. Len(lh) : R[lh[i]] = mem[lh[i]]
            BY <2>2, <3>1 DEF InLog
        <3>3. \A b \in Blocks \ Logged(lh) : R[b] = mem[b]
            BY <1>0, <2>1, <3>1 DEF CacheInv
        <3> QED
            BY <3>2, <3>3 DEF Logged
    <2>6. Recovered' = mem
        <3>1. R = [b \in Blocks |-> R[b]]
            BY DEF Replayed
        <3>2. mem = [b \in Blocks |-> mem[b]]
            BY <1>0
        <3> HIDE DEF R
        <3>3. R = mem
            BY <2>5, <3>1, <3>2
        <3> QED
            BY <2>4, <3>3 DEF R
    <2>7. InOp' = InOp
        BY <1>0, <1>6 DEF WriteHead, Goto, InOp
    <2> QED
        BY <2>1, <2>3, <2>6, <2>7 DEF Disk!ANext, Disk!ACommit
<1>7. ASSUME NEW p \in Procs, Install(p)
      PROVE  UNCHANGED Disk!avars
    <2>1. /\ head = lh /\ tail \in 1 .. Len(lh) /\ tail \in 1 .. NLOG - 1
          /\ home' = Installed /\ UNCHANGED <<logblk, head, mem, boot>>
        BY <1>0, <1>7, Sizes DEF Install, PhaseInv, PhaseOf
    <2>2. boot = "up"
        BY <1>0, <1>7, Alone DEF Install, Committing
    <2>3. logblk[tail] \in Vals
        BY <1>0, <2>1
    <2>4. Replayed(lh, logblk, Installed) = Replayed(lh, logblk, home)
        <3>1. lh \in Seq(Blocks) /\ home \in [Blocks -> Vals] /\ OneToOne(lh)
            BY <1>0, <1>a
        <3> QED
            BY <2>1, <2>3, <3>1, ReplayAgain, Zenon DEF Installed
    <2>5. Recovered' = Recovered
        BY <2>1, <2>4, Zenon DEF Recovered
    <2>6. InOp' = InOp
        BY <1>0, <1>7 DEF Install, Goto, InOp
    <2> QED
        BY <1>s, <2>1, <2>2, <2>5, <2>6
<1>8. ASSUME NEW p \in Procs, Erase(p)
      PROVE  UNCHANGED Disk!avars
    <2>1. head = lh /\ InLog(Len(lh)) /\ AtHome(Len(lh))
        BY <1>0, <1>8 DEF Erase, PhaseInv, PhaseOf
    <2>2. head' = <<>> /\ UNCHANGED <<home, logblk, mem, boot>>
        BY <1>8 DEF Erase
    <2>3. boot = "up"
        BY <1>0, <1>8, Alone DEF Erase, Committing
    <2>4. Replayed(lh, logblk, home) = home
        BY <1>0, <1>a, <2>1, ReplayInstalled DEF AtHome
    <2>5. Replayed(<<>>, logblk, home) = home
        BY <1>0, ReplayNothing
    <2>6. Recovered' = Recovered
        BY <2>1, <2>2, <2>4, <2>5, Zenon DEF Recovered
    <2>7. InOp' = InOp
        BY <1>0, <1>8 DEF Erase, Goto, InOp
    <2> QED
        BY <1>s, <2>2, <2>3, <2>6, <2>7
<1>9. CASE Crash
    <2>1. boot' = "readhead" /\ UNCHANGED <<home, logblk, head>>
        BY <1>9 DEF Crash, disk
    <2>2. InOp' = {}
        BY <1>9 DEF Crash, InOp
    <2>3. Recovered' = Recovered
        BY <2>1 DEF Recovered
    <2> QED
        BY <2>1, <2>2, <2>3 DEF Disk!ANext, Disk!ACrash
<1>10. CASE ReadHead
    <2>1. boot # "up" /\ boot' # "up" /\ UNCHANGED <<home, logblk, head, pc>>
        BY <1>10 DEF ReadHead, InstallNext, disk
    <2>2. Recovered' = Recovered /\ InOp' = InOp
        BY <2>1 DEF Recovered, InOp
    <2> QED
        BY <1>s, <2>1, <2>2
<1>11. CASE RecoverInstall
    <2>1. /\ boot = "install" /\ boot' # "up" /\ home' = Installed
          /\ UNCHANGED <<logblk, head, pc>>
        BY <1>11 DEF RecoverInstall
    <2>2. head = lh /\ tail \in 1 .. Len(lh) /\ tail \in 1 .. NLOG - 1
        BY <1>0, <2>1, Sizes DEF PhaseInv, RecoveryInv
    <2>3. logblk[tail] \in Vals
        BY <1>0, <2>2
    <2>4. Replayed(lh, logblk, Installed) = Replayed(lh, logblk, home)
        <3>1. lh \in Seq(Blocks) /\ home \in [Blocks -> Vals] /\ OneToOne(lh)
            BY <1>0, <1>a
        <3> QED
            BY <2>2, <2>3, <3>1, ReplayAgain, Zenon DEF Installed
    <2>5. Recovered' = Recovered
        BY <2>1, <2>2, <2>4, Zenon DEF Recovered
    <2>6. InOp' = InOp
        BY <2>1 DEF InOp
    <2> QED
        BY <1>s, <2>1, <2>5, <2>6
<1>12. CASE RecoverErase
    <2>1. /\ boot = "erase" /\ boot' = "up" /\ head' = <<>>
          /\ UNCHANGED <<home, logblk, mem, pc>>
        BY <1>12 DEF RecoverErase
    <2>2. head = lh /\ AtHome(Len(lh)) /\ mem = home
        BY <1>0, <2>1 DEF PhaseInv, RecoveryInv, CacheInv
    <2>3. Replayed(lh, logblk, home) = home
        BY <1>0, <1>a, <2>2, ReplayInstalled DEF AtHome
    <2>4. Replayed(<<>>, logblk, home) = home
        BY <1>0, ReplayNothing
    <2>5. Recovered' = home /\ Recovered = home
        BY <2>1, <2>2, <2>3, <2>4, Zenon DEF Recovered
    <2>6. InOp' = InOp
        BY <2>1 DEF InOp
    <2> QED
        BY <1>s, <2>1, <2>2, <2>5, <2>6
<1>13. CASE UNCHANGED vars
    BY <1>s, <1>13 DEF vars, disk, Recovered, InOp
<1> QED
    BY <1>1, <1>2, <1>3, <1>4, <1>5, <1>6, <1>7, <1>8, <1>9, <1>10, <1>11,
       <1>12, <1>13, StepCases

\* Crash safety: commit, crash and recovery are one atomic change of the disk,
\* and only between operations.
THEOREM CrashSafe == Spec => DiskSpec
<1>1. Init => Disk!AInit
    <2> SUFFICES ASSUME Init PROVE Disk!AInit
        OBVIOUS
    <2>1. head = <<>> /\ boot = "up" /\ mem = home /\ home \in [Blocks -> Vals]
        BY LogAssumption DEF Init
    <2>2. Recovered = home
        <3>1. Recovered = Replayed(<<>>, logblk, home)
            BY <2>1, Zenon DEF Recovered
        <3> QED
            BY <2>1, <3>1, ReplayNothing
    <2>3. InOp = {}
        BY DEF Init, InOp
    <2> QED
        BY <2>1, <2>2, <2>3 DEF Disk!AInit
<1>2. LogIInv /\ LogIInv' /\ [Next]_vars => [Disk!ANext]_Disk!avars
    BY DiskStep
<1> QED
    BY LogInvariant, <1>1, <1>2, PTL DEF Spec, DiskSpec, Disk!ASpec
=============================================================================
