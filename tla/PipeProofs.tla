----------------------------- MODULE PipeProofs -----------------------------
(***************************************************************************)
(* A pipe for every number of readers and writers, every ring size and     *)
(* counter width: PipeIInv is inductive, no wakeup is lost, the page is    *)
(* freed once, and the ring implements ByteStream.                         *)
(***************************************************************************)
EXTENDS PipeProps, SequenceTheorems, TLAPS

\* The constants as the provers need them.
LEMMA Numbers ==
    /\ PIPESIZE \in Nat /\ PIPESIZE > 0
    /\ W \in Nat /\ W > PIPESIZE
    BY PipeAssumption

\* Reduction modulo W of what is at most one turn outside 0 .. W - 1.
LEMMA Reduced ==
    ASSUME NEW x \in Int
    PROVE  /\ x \in 0 .. W - 1 => x % W = x
           /\ x < 0 /\ x >= 0 - W => x % W = x + W
           /\ x >= W /\ x < W + W => x % W = x - W
    BY Numbers

\* What lies between two counters.
LEMMA Between ==
    ASSUME NEW x \in 0 .. W - 1, NEW y \in 0 .. W - 1
    PROVE  /\ (y - x) % W = IF y >= x THEN y - x ELSE y - x + W
           /\ (y - x) % W \in 0 .. W - 1
           /\ x = y <=> (y - x) % W = 0
           /\ y = (x + PIPESIZE) % W <=> (y - x) % W = PIPESIZE
<1>1. /\ x \in Int /\ y \in Int /\ y - x \in Int /\ x + PIPESIZE \in Int
      /\ y - x >= 0 - W /\ y - x < W /\ x + PIPESIZE < W + W /\ x + PIPESIZE >= 0
    BY Numbers
<1>2. (y - x) % W = IF y >= x THEN y - x ELSE y - x + W
    BY <1>1, Reduced, Numbers
<1>3. (x + PIPESIZE) % W = IF x + PIPESIZE < W THEN x + PIPESIZE ELSE x + PIPESIZE - W
    BY <1>1, Reduced, Numbers
<1> QED
    BY <1>2, <1>3, Numbers

\* A counter that is advanced.
LEMMA Advance ==
    ASSUME NEW x \in 0 .. W - 1, NEW k \in 0 .. W - 1
    PROVE  (x + k) % W = IF x + k < W THEN x + k ELSE x + k - W
<1>1. x + k \in Int /\ x + k >= 0 /\ x + k < W + W
    BY Numbers
<1> QED
    BY <1>1, Reduced, Numbers

LEMMA AdvanceWrite ==
    ASSUME NEW x \in 0 .. W - 1, NEW y \in 0 .. W - 1, NEW k \in 0 .. W - 1,
           ((y - x) % W) + k < W
    PROVE  /\ (y + k) % W \in 0 .. W - 1
           /\ (((y + k) % W) - x) % W = ((y - x) % W) + k
<1>1. (y + k) % W = IF y + k < W THEN y + k ELSE y + k - W
    BY Advance
<1>2. (y + k) % W \in 0 .. W - 1
    BY <1>1, Numbers
<1>3. (y - x) % W = IF y >= x THEN y - x ELSE y - x + W
    BY Between
<1> DEFINE z == (y + k) % W
<1>4. (z - x) % W = IF z >= x THEN z - x ELSE z - x + W
    BY <1>2, Between
<1> QED
    BY <1>1, <1>2, <1>3, <1>4, Numbers

LEMMA AdvanceRead ==
    ASSUME NEW x \in 0 .. W - 1, NEW y \in 0 .. W - 1, NEW k \in 0 .. W - 1,
           k <= (y - x) % W
    PROVE  /\ (x + k) % W \in 0 .. W - 1
           /\ (y - ((x + k) % W)) % W = ((y - x) % W) - k
<1>1. (x + k) % W = IF x + k < W THEN x + k ELSE x + k - W
    BY Advance
<1>2. (x + k) % W \in 0 .. W - 1
    BY <1>1, Numbers
<1>3. (y - x) % W = IF y >= x THEN y - x ELSE y - x + W
    BY Between
<1> DEFINE z == (x + k) % W
<1>4. (y - z) % W = IF y >= z THEN y - z ELSE y - z + W
    BY <1>2, Between
<1> QED
    BY <1>1, <1>2, <1>3, <1>4, Numbers

-----------------------------------------------------------------------------
\* What the ring holds, as a number.
LEMMA RingFacts ==
    ASSUME TypeOK
    PROVE  /\ Count \in Nat /\ Count <= PIPESIZE
           /\ Empty <=> Count = 0
           /\ Full <=> Count = PIPESIZE
<1>1. nread \in 0 .. W - 1 /\ nwrite \in 0 .. W - 1 /\ Count <= PIPESIZE
    BY DEF TypeOK
<1>2. /\ (nwrite - nread) % W \in 0 .. W - 1
      /\ nread = nwrite <=> (nwrite - nread) % W = 0
      /\ nwrite = (nread + PIPESIZE) % W <=> (nwrite - nread) % W = PIPESIZE
    BY <1>1, Between, Zenon
<1>3. Count \in 0 .. W - 1 /\ (Empty <=> Count = 0) /\ (Full <=> Count = PIPESIZE)
    BY <1>2, Zenon DEF Count, Empty, Full
<1> QED
    BY <1>1, <1>3, Numbers

\* What pipewrite() stores.
LEMMA Filling ==
    ASSUME TypeOK, NEW p \in Procs, Fill(p)
    PROVE  /\ Room(p) \in Nat /\ Room(p) <= Len(todo[p]) /\ Len(todo[p]) \in Nat
           /\ Room(p) <= PIPESIZE - Count
           /\ Room(p) < Len(todo[p]) => Room(p) = PIPESIZE - Count
           /\ nwrite' \in 0 .. W - 1 /\ nread' = nread
           /\ Count' = Count + Room(p)
           /\ DOMAIN data' = 0 .. PIPESIZE - 1
           /\ UNCHANGED <<readopen, writeopen, freed>>
<1>1. todo[p] \in Seq(Bytes) /\ Len(todo[p]) \in Nat
    BY DEF TypeOK
<1>2. /\ Room(p) \in Nat /\ Room(p) <= Len(todo[p]) /\ Room(p) <= PIPESIZE - Count
      /\ Room(p) < Len(todo[p]) => Room(p) = PIPESIZE - Count
    BY <1>1, RingFacts, Numbers DEF Room, Shorter
<1>3. Count + Room(p) < W /\ Room(p) \in 0 .. W - 1
    BY <1>2, RingFacts, Numbers
<1>4. nread \in 0 .. W - 1 /\ nwrite \in 0 .. W - 1
    BY DEF TypeOK
<1>5. nwrite' = (nwrite + Room(p)) % W /\ nread' = nread
    BY DEF Fill
<1>6. nwrite' \in 0 .. W - 1 /\ Count' = Count + Room(p)
    BY <1>3, <1>4, <1>5, AdvanceWrite DEF Count
<1> QED
    BY <1>1, <1>2, <1>5, <1>6 DEF Fill, Stored

\* What piperead() takes.
LEMMA Taking ==
    ASSUME TypeOK, NEW p \in Procs, ReadSome(p)
    PROVE  /\ nread' \in 0 .. W - 1 /\ nwrite' = nwrite
           /\ Count' \in Nat /\ Count' <= Count
           /\ ~Empty \/ Count' = Count
<1> DEFINE m == Shorter(want[p], Count)
<1>1. want[p] \in Nat
    <2>1. want[p] \in Counts \/ want[p] = 0
        BY DEF TypeOK
    <2>2. \A n \in Counts : n \in Nat
        BY PipeAssumption
    <2> QED
        BY <2>1, <2>2
<1>2. m \in Nat /\ m <= Count /\ m \in 0 .. W - 1
    BY <1>1, RingFacts, Numbers DEF Shorter
<1>3. nread \in 0 .. W - 1 /\ nwrite \in 0 .. W - 1
    BY DEF TypeOK
<1>4. nread' = (nread + m) % W /\ nwrite' = nwrite
    BY DEF ReadSome
<1> HIDE DEF m
<1>5. nread' \in 0 .. W - 1 /\ Count' = Count - m
    <2>1. m <= (nwrite - nread) % W
        BY <1>2 DEF Count
    <2>2. /\ (nread + m) % W \in 0 .. W - 1
          /\ (nwrite - ((nread + m) % W)) % W = ((nwrite - nread) % W) - m
        BY <1>2, <1>3, <2>1, AdvanceRead, Zenon
    <2>3. Count' = (nwrite' - nread') % W
        BY DEF Count
    <2>4. Count' = (nwrite - ((nread + m) % W)) % W
        BY <1>4, <2>3
    <2>5. Count' = Count - m
        BY <2>2, <2>4 DEF Count
    <2> QED
        BY <1>4, <2>2, <2>5
<1> QED
    BY <1>2, <1>4, <1>5, RingFacts, Numbers

-----------------------------------------------------------------------------
\* What a wakeup does: it moves sleepers of one kind and nobody else.
LEMMA Waking ==
    ASSUME TypeOK, NEW o \in {"read", "write"}
    PROVE  /\ Woken(o) \in [Procs -> Points]
           /\ \A q \in Procs :
                 \/ Woken(o)[q] = pc[q] /\ (pc[q] # "asleep" \/ op[q] # o)
                 \/ Woken(o)[q] = o /\ pc[q] = "asleep" /\ op[q] = o
<1>1. pc \in [Procs -> Points] /\ o \in Points
    BY DEF TypeOK, Points
<1> QED
    BY <1>1 DEF Woken

\* pc after the wakeup and the caller's own move.
After(p, w, o) ==
    /\ pc' \in [Procs -> Points]
    /\ pc'[p] = w
    /\ \A q \in Procs \ {p} :
          \/ pc'[q] = pc[q] /\ (pc[q] # "asleep" \/ op[q] # o)
          \/ pc'[q] = o /\ pc[q] = "asleep" /\ op[q] = o

LEMMA Moved ==
    ASSUME TypeOK, NEW o \in {"read", "write"}, NEW p \in Procs, NEW w \in Points,
           pc[p] # "asleep", pc' = [Woken(o) EXCEPT ![p] = w]
    PROVE  After(p, w, o)
<1>1. Woken(o) \in [Procs -> Points]
    BY Waking
<1> QED
    BY <1>1, Waking DEF After

\* TypeOK in two halves: struct pipe, and the processes.
RingType ==
    /\ DOMAIN data = 0 .. PIPESIZE - 1
    /\ nread \in 0 .. W - 1 /\ nwrite \in 0 .. W - 1
    /\ Count <= PIPESIZE
    /\ readopen \in BOOLEAN /\ writeopen \in BOOLEAN /\ freed \in BOOLEAN
CallType ==
    /\ lk \in Procs \cup {NoProc} /\ ptlk \in Procs \cup {NoProc}
    /\ pc \in [Procs -> Points]
    /\ op \in [Procs -> {"none", "read", "write"}]
    /\ todo \in [Procs -> Seq(Bytes)]
    /\ want \in [Procs -> Counts \cup {0}]
    /\ killed \in [Procs -> BOOLEAN]
    /\ rd \subseteq Procs /\ wr \subseteq Procs

LEMMA TypeHalves == TypeOK <=> RingType /\ CallType
    BY DEF TypeOK, RingType, CallType

LEMMA TypeHalvesPrime == TypeOK' <=> RingType' /\ CallType'
    BY DEF TypeOK, RingType, CallType

\* The steps that leave struct pipe alone.
LEMMA RingKept ==
    ASSUME TypeOK, UNCHANGED pipeVars
    PROVE  /\ RingType'
           /\ Empty' = Empty /\ Full' = Full /\ ReadWaits' = ReadWaits
           /\ readopen' = readopen /\ writeopen' = writeopen /\ freed' = freed
<1>1. /\ data' = data /\ nread' = nread /\ nwrite' = nwrite
      /\ readopen' = readopen /\ writeopen' = writeopen /\ freed' = freed
    BY DEF pipeVars
<1>2. Count' = Count
    BY <1>1 DEF Count
<1>3. Empty' = Empty /\ Full' = Full
    BY <1>1 DEF Empty, Full
<1>4. ReadWaits' = ReadWaits
    BY <1>1, <1>3 DEF ReadWaits
<1>5. RingType
    BY TypeHalves
<1> QED
    BY <1>1, <1>2, <1>3, <1>4, <1>5 DEF RingType

\* pipewrite() keeps the ring's types.
LEMMA RingFilled ==
    ASSUME TypeOK, NEW p \in Procs, Fill(p)
    PROVE  RingType'
<1>1. RingType
    BY TypeHalves
<1>2. /\ nwrite' \in 0 .. W - 1 /\ nread' = nread
      /\ Count' = Count + Room(p)
      /\ DOMAIN data' = 0 .. PIPESIZE - 1
      /\ readopen' = readopen /\ writeopen' = writeopen /\ freed' = freed
    BY Filling
<1>3. Count' <= PIPESIZE
    BY <1>2, Filling, RingFacts, Numbers
<1> QED
    BY <1>1, <1>2, <1>3 DEF RingType

\* piperead() does too.
LEMMA RingTaken ==
    ASSUME TypeOK, NEW p \in Procs, ReadSome(p)
    PROVE  RingType'
<1>1. RingType
    BY TypeHalves
<1>2. /\ data' = data
      /\ readopen' = readopen /\ writeopen' = writeopen /\ freed' = freed
    BY DEF ReadSome
<1>3. Count' <= PIPESIZE
    BY Taking, RingFacts, Numbers
<1> QED
    BY <1>1, <1>2, <1>3, Taking DEF RingType

\* Where pipewrite() and piperead() leave the processes.
WriteMove(p) ==
    \/ pc' = [pc EXCEPT ![p] = "user"] /\ op' = [op EXCEPT ![p] = "none"]
    \/ After(p, "user", "read") /\ op' = [op EXCEPT ![p] = "none"]
    \/ After(p, "sleep", "read") /\ op' = op
ReadMove(p) ==
    \/ pc' = [pc EXCEPT ![p] = "user"] /\ op' = [op EXCEPT ![p] = "none"]
    \/ After(p, "user", "write") /\ op' = [op EXCEPT ![p] = "none"]
    \/ pc' = [pc EXCEPT ![p] = "sleep"] /\ op' = op

LEMMA WriteMoves ==
    ASSUME TypeOK, NEW p \in Procs, Write(p)
    PROVE  WriteMove(p)
<1>1. pc[p] = "write" /\ pc[p] # "asleep" /\ "read" \in {"read", "write"}
    BY DEF Write
<1>2. CASE WriteAll(p)
    <2>1. pc' = [Woken("read") EXCEPT ![p] = "user"] /\ "user" \in Points
        BY <1>2 DEF WriteAll, Points
    <2>2. After(p, "user", "read")
        BY <1>1, <2>1, Moved, Zenon
    <2> QED
        BY <1>2, <2>2 DEF WriteAll, Return, WriteMove
<1>3. CASE WriteFail(p)
    BY <1>3 DEF WriteFail, Return, Goto, WriteMove
<1>4. CASE WriteWait(p)
    <2>1. pc' = [Woken("read") EXCEPT ![p] = "sleep"] /\ "sleep" \in Points
        BY <1>4 DEF WriteWait, Points
    <2>2. After(p, "sleep", "read")
        BY <1>1, <2>1, Moved, Zenon
    <2> QED
        BY <1>4, <2>2 DEF WriteWait, WriteMove
<1> QED
    BY <1>2, <1>3, <1>4 DEF Write

LEMMA ReadMoves ==
    ASSUME TypeOK, NEW p \in Procs, Read(p)
    PROVE  ReadMove(p)
<1>1. pc[p] = "read" /\ pc[p] # "asleep" /\ "write" \in {"read", "write"}
    BY DEF Read
<1>2. CASE ReadFail(p)
    BY <1>2 DEF ReadFail, Return, Goto, ReadMove
<1>3. CASE ReadWait(p)
    BY <1>3 DEF ReadWait, Goto, ReadMove
<1>4. CASE ReadSome(p)
    <2>1. pc' = [Woken("write") EXCEPT ![p] = "user"] /\ "user" \in Points
        BY <1>4 DEF ReadSome, Points
    <2>2. After(p, "user", "write")
        BY <1>1, <2>1, Moved, Zenon
    <2> QED
        BY <1>4, <2>2 DEF ReadSome, Return, ReadMove
<1> QED
    BY <1>2, <1>3, <1>4 DEF Read

\* The steps one by one.
LEMMA StepCases ==
    ASSUME Next
    PROVE  \E p \in Procs :
              \/ \E b \in Bufs : StartWrite(p, b)
              \/ \E n \in Counts : StartRead(p, n)
              \/ Write(p) \/ Read(p) \/ SleepSwap(p) \/ SleepCommit(p) \/ Kill(p)
              \/ CloseRead(p) \/ CloseWrite(p)
              \/ PipeCloseRead(p) \/ PipeCloseWrite(p) \/ KFree(p)
    BY DEF Next, Kernel, User

THEOREM TypePreserved ==
    ASSUME TypeOK, EndsInv, [Next]_vars
    PROVE  TypeOK'
<1>0. /\ RingType /\ CallType /\ NoProc \notin Procs
      /\ {"user", "read", "write", "sleep", "sleep2", "asleep",
          "closeread", "closewrite", "free"} \subseteq Points
    BY TypeHalves, PipeAssumption DEF Points
<1>s. SUFFICES RingType' /\ CallType'
    BY TypeHalvesPrime
<1>1. ASSUME NEW p \in Procs, NEW b \in Bufs, StartWrite(p, b)
      PROVE  RingType' /\ CallType'
    <2>1. RingType'
        BY <1>1, RingKept DEF StartWrite
    <2>2. b \in Seq(Bytes)
        BY PipeAssumption
    <2> QED
        BY <1>0, <1>1, <2>1, <2>2 DEF StartWrite, CallType, Goto
<1>2. ASSUME NEW p \in Procs, NEW n \in Counts, StartRead(p, n)
      PROVE  RingType' /\ CallType'
    <2>1. RingType'
        BY <1>2, RingKept DEF StartRead
    <2> QED
        BY <1>0, <1>2, <2>1 DEF StartRead, CallType, Goto
<1>3. ASSUME NEW p \in Procs, Write(p)
      PROVE  RingType' /\ CallType'
    <2>1. RingType'
        BY <1>3, RingFilled DEF Write
    <2>2. Room(p) \in Nat /\ todo[p] \in Seq(Bytes) /\ pc[p] # "asleep"
        BY <1>0, <1>3, Filling DEF Write, CallType
    <2>3. <<>> \in Seq(Bytes) /\ SubSeq(todo[p], Room(p) + 1, Len(todo[p])) \in Seq(Bytes)
        BY <2>2
    <2>4. /\ ptlk' = ptlk /\ want' = want /\ killed' = killed /\ rd' = rd /\ wr' = wr
        BY <1>3 DEF Write
    <2>5. pc' \in [Procs -> Points]
        <3>1. WriteMove(p)
            BY <1>3, WriteMoves, Zenon
        <3>2. pc \in [Procs -> Points] /\ "user" \in Points /\ "sleep" \in Points
            BY <1>0 DEF CallType
        <3> QED
            BY <3>1, <3>2 DEF WriteMove, After
    <2>6. lk' \in Procs \cup {NoProc}
        BY <1>0, <1>3 DEF Write, WriteAll, WriteFail, WriteWait, CallType
    <2>7. op' \in [Procs -> {"none", "read", "write"}]
        BY <1>0, <1>3 DEF Write, WriteAll, WriteFail, WriteWait, Return, CallType
    <2>8. todo' \in [Procs -> Seq(Bytes)]
        <3>1. \E s \in Seq(Bytes) : todo' = [todo EXCEPT ![p] = s]
            BY <1>3, <2>3 DEF Write, WriteAll, WriteFail, WriteWait
        <3> QED
            BY <1>0, <3>1 DEF CallType
    <2> QED
        BY <1>0, <2>1, <2>4, <2>5, <2>6, <2>7, <2>8 DEF CallType
<1>4. ASSUME NEW p \in Procs, Read(p)
      PROVE  RingType' /\ CallType'
    <2>1. RingType'
        BY <1>4, RingKept, RingTaken DEF Read, ReadFail, ReadWait
    <2>2. pc[p] # "asleep"
        BY <1>4 DEF Read
    <2>3. /\ ptlk' = ptlk /\ todo' = todo /\ killed' = killed /\ rd' = rd /\ wr' = wr
        BY <1>4 DEF Read
    <2>4. pc' \in [Procs -> Points]
        <3>1. ReadMove(p)
            BY <1>4, ReadMoves, Zenon
        <3>2. pc \in [Procs -> Points] /\ "user" \in Points /\ "sleep" \in Points
            BY <1>0 DEF CallType
        <3> QED
            BY <3>1, <3>2 DEF ReadMove, After
    <2>5. /\ lk' \in Procs \cup {NoProc}
          /\ op' \in [Procs -> {"none", "read", "write"}]
          /\ want' \in [Procs -> Counts \cup {0}]
        BY <1>0, <1>4 DEF Read, ReadFail, ReadWait, ReadSome, Return, CallType
    <2> QED
        BY <1>0, <2>1, <2>3, <2>4, <2>5 DEF CallType
<1>5. ASSUME NEW p \in Procs, SleepSwap(p)
      PROVE  RingType' /\ CallType'
    <2>1. RingType'
        BY <1>5, RingKept DEF SleepSwap
    <2> QED
        BY <1>0, <1>5, <2>1 DEF SleepSwap, Covered, CallType, Goto
<1>6. ASSUME NEW p \in Procs, SleepCommit(p)
      PROVE  RingType' /\ CallType'
    <2>1. RingType'
        BY <1>6, RingKept DEF SleepCommit
    <2> QED
        BY <1>0, <1>6, <2>1 DEF SleepCommit, CallType, Goto
<1>7. ASSUME NEW p \in Procs, Kill(p)
      PROVE  RingType' /\ CallType'
    <2>1. RingType'
        BY <1>7, RingKept DEF Kill
    <2>2. pc[p] = "asleep" => op[p] \in Points
        BY <1>0 DEF EndsInv, Waits, CallType
    <2>3. pc' \in [Procs -> Points]
        BY <1>0, <1>7, <2>2 DEF Kill, CallType
    <2> QED
        BY <1>0, <1>7, <2>1, <2>3 DEF Kill, CallType
<1>8. ASSUME NEW p \in Procs, CloseRead(p) \/ CloseWrite(p)
      PROVE  RingType' /\ CallType'
    <2>1. RingType'
        BY <1>8, RingKept DEF CloseRead, CloseWrite
    <2>2. pc' \in [Procs -> Points]
        <3>1. \E w \in Points : pc' = [pc EXCEPT ![p] = w]
            BY <1>0, <1>8 DEF CloseRead, CloseWrite, Goto
        <3> QED
            BY <1>0, <3>1 DEF CallType
    <2>3. /\ rd' \subseteq Procs /\ wr' \subseteq Procs
          /\ UNCHANGED <<lk, ptlk, op, todo, want, killed>>
        BY <1>0, <1>8 DEF CloseRead, CloseWrite, CallType
    <2> QED
        BY <1>0, <2>1, <2>2, <2>3 DEF CallType
<1>9. ASSUME NEW p \in Procs, PipeCloseRead(p) \/ PipeCloseWrite(p)
      PROVE  RingType' /\ CallType'
    <2>1. /\ data' = data /\ nread' = nread /\ nwrite' = nwrite /\ freed' = freed
          /\ readopen' \in BOOLEAN /\ writeopen' \in BOOLEAN
        BY <1>0, <1>9 DEF PipeCloseRead, PipeCloseWrite, RingType
    <2>2. RingType'
        BY <1>0, <2>1 DEF RingType, Count
    <2>3. AfterClose(writeopen) \in Points /\ AfterClose(readopen) \in Points
        BY <1>0 DEF AfterClose
    <2>4. pc' \in [Procs -> Points]
        BY <1>9, <2>3, Moved DEF After, PipeCloseRead, PipeCloseWrite
    <2> QED
        BY <1>0, <1>9, <2>2, <2>4 DEF PipeCloseRead, PipeCloseWrite, CallType
<1>10. ASSUME NEW p \in Procs, KFree(p)
       PROVE  RingType' /\ CallType'
    <2>1. /\ data' = data /\ nread' = nread /\ nwrite' = nwrite /\ freed' = TRUE
          /\ readopen' = readopen /\ writeopen' = writeopen
        BY <1>10 DEF KFree
    <2>2. RingType'
        BY <1>0, <2>1 DEF RingType, Count
    <2> QED
        BY <1>0, <1>10, <2>2 DEF KFree, CallType, Goto
<1>11. CASE UNCHANGED vars
    <2>1. RingType'
        BY <1>11, RingKept DEF vars
    <2> QED
        BY <1>0, <1>11, <2>1 DEF vars, CallType
<1> QED
    BY <1>1, <1>2, <1>3, <1>4, <1>5, <1>6, <1>7, <1>8, <1>9, <1>10, <1>11, StepCases

-----------------------------------------------------------------------------
\* EndsInv in two halves: the flags and who clears them, and the calls.
Closers == {"closeread", "closewrite", "free"}
FlagsInv ==
    /\ readopen  <=> rd # {} \/ Closing("closeread") # {}
    /\ writeopen <=> wr # {} \/ Closing("closewrite") # {}
    /\ \A w \in Closers : \A p, r \in Closing(w) : p = r
    /\ Closing("closeread") # {} => rd = {}
    /\ Closing("closewrite") # {} => wr = {}
    /\ freed \/ Closing("free") # {} => ~readopen /\ ~writeopen
    /\ freed => Closing("free") = {}
CallInv(p) ==
    /\ pc[p] \in {"read", "write"} => op[p] = pc[p]
    /\ pc[p] \in Waits <=> op[p] # "none"
    /\ op[p] = "read" => p \in rd
    /\ op[p] = "write" => p \in wr

LEMMA EndsHalves == EndsInv <=> FlagsInv /\ \A p \in Procs : CallInv(p)
    BY Zenon DEF EndsInv, FlagsInv, CallInv, Closers

LEMMA EndsHalvesPrime == EndsInv' <=> FlagsInv' /\ \A p \in Procs : CallInv(p)'
    BY Zenon DEF EndsInv, FlagsInv, CallInv, Closers

\* The steps in which nobody comes to or leaves the last part of a close().
LEMMA FlagsKept ==
    ASSUME FlagsInv, UNCHANGED <<readopen, writeopen, freed, rd, wr>>,
           \A q \in Procs : \A w \in Closers : pc'[q] = w <=> pc[q] = w
    PROVE  FlagsInv'
<1>1. \A w \in Closers : Closing(w)' = Closing(w)
    BY DEF Closing
<1>2. /\ Closing("closeread")' = Closing("closeread")
      /\ Closing("closewrite")' = Closing("closewrite")
      /\ Closing("free")' = Closing("free")
    BY <1>1 DEF Closers
<1>3. \A w \in Closers : \A p, r \in Closing(w)' : p = r
    BY DEF FlagsInv, Closing
<1> QED
    BY <1>2, <1>3, Zenon DEF FlagsInv

THEOREM EndsPreserved ==
    ASSUME TypeOK, EndsInv, [Next]_vars
    PROVE  EndsInv'
<1>0. /\ FlagsInv /\ \A q \in Procs : CallInv(q)
      /\ pc \in [Procs -> Points]
      /\ op \in [Procs -> {"none", "read", "write"}]
      /\ rd \subseteq Procs /\ wr \subseteq Procs
    BY EndsHalves DEF TypeOK
<1>s. SUFFICES FlagsInv' /\ \A q \in Procs : CallInv(q)'
    BY EndsHalvesPrime
<1>1. ASSUME NEW p \in Procs, NEW b \in Bufs, StartWrite(p, b)
      PROVE  FlagsInv' /\ \A q \in Procs : CallInv(q)'
    <2>1. /\ UNCHANGED <<readopen, writeopen, freed, rd, wr>>
          /\ pc[p] = "user" /\ p \in wr
          /\ pc' = [pc EXCEPT ![p] = "write"] /\ op' = [op EXCEPT ![p] = "write"]
        BY <1>1 DEF StartWrite, pipeVars, Goto
    <2>2. FlagsInv'
        BY <1>0, <2>1, FlagsKept DEF Closers
    <2> QED
        BY <1>0, <2>1, <2>2 DEF CallInv, Waits
<1>2. ASSUME NEW p \in Procs, NEW n \in Counts, StartRead(p, n)
      PROVE  FlagsInv' /\ \A q \in Procs : CallInv(q)'
    <2>1. /\ UNCHANGED <<readopen, writeopen, freed, rd, wr>>
          /\ pc[p] = "user" /\ p \in rd
          /\ pc' = [pc EXCEPT ![p] = "read"] /\ op' = [op EXCEPT ![p] = "read"]
        BY <1>2 DEF StartRead, pipeVars, Goto
    <2>2. FlagsInv'
        BY <1>0, <2>1, FlagsKept DEF Closers
    <2> QED
        BY <1>0, <2>1, <2>2 DEF CallInv, Waits
<1>3. ASSUME NEW p \in Procs, Write(p)
      PROVE  FlagsInv' /\ \A q \in Procs : CallInv(q)'
    <2>1. /\ UNCHANGED <<readopen, writeopen, freed, rd, wr>>
          /\ pc[p] = "write"
        BY <1>3 DEF Write, Fill
    <2>2. WriteMove(p)
        BY <1>3, WriteMoves, Zenon
    <2>3. FlagsInv'
        BY <1>0, <2>1, <2>2, FlagsKept DEF Closers, After, WriteMove, ReadMove
    <2> QED
        BY <1>0, <2>1, <2>2, <2>3 DEF CallInv, Waits, After, WriteMove, ReadMove
<1>4. ASSUME NEW p \in Procs, Read(p)
      PROVE  FlagsInv' /\ \A q \in Procs : CallInv(q)'
    <2>1. /\ UNCHANGED <<readopen, writeopen, freed, rd, wr>>
          /\ pc[p] = "read"
        BY <1>4 DEF Read, ReadFail, ReadWait, ReadSome, pipeVars
    <2>2. ReadMove(p)
        BY <1>4, ReadMoves, Zenon
    <2>3. FlagsInv'
        BY <1>0, <2>1, <2>2, FlagsKept DEF Closers, After, WriteMove, ReadMove
    <2> QED
        BY <1>0, <2>1, <2>2, <2>3 DEF CallInv, Waits, After, WriteMove, ReadMove
<1>5. ASSUME NEW p \in Procs, SleepSwap(p) \/ SleepCommit(p)
      PROVE  FlagsInv' /\ \A q \in Procs : CallInv(q)'
    <2>1. /\ UNCHANGED <<readopen, writeopen, freed, rd, wr, op>>
          /\ \/ pc[p] = "sleep" /\ pc' = [pc EXCEPT ![p] = "sleep2"]
             \/ pc[p] = "sleep2" /\ pc' = [pc EXCEPT ![p] = "asleep"]
        BY <1>5 DEF SleepSwap, SleepCommit, pipeVars, Goto
    <2>2. FlagsInv'
        BY <1>0, <2>1, FlagsKept DEF Closers
    <2> QED
        BY <1>0, <2>1, <2>2 DEF CallInv, Waits
<1>6. ASSUME NEW p \in Procs, Kill(p)
      PROVE  FlagsInv' /\ \A q \in Procs : CallInv(q)'
    <2>1. /\ UNCHANGED <<readopen, writeopen, freed, rd, wr, op>>
          /\ pc' = [pc EXCEPT ![p] = IF @ = "asleep" THEN op[p] ELSE @]
        BY <1>6 DEF Kill, pipeVars
    <2>2. pc[p] = "asleep" => op[p] \in {"read", "write"}
        BY <1>0 DEF CallInv, Waits
    <2>3. FlagsInv'
        BY <1>0, <2>1, <2>2, FlagsKept DEF Closers
    <2> QED
        BY <1>0, <2>1, <2>2, <2>3 DEF CallInv, Waits
<1>7. ASSUME NEW p \in Procs, CloseRead(p)
      PROVE  FlagsInv' /\ \A q \in Procs : CallInv(q)'
    <2>1. /\ UNCHANGED <<readopen, writeopen, freed, wr, op>>
          /\ pc[p] = "user" /\ p \in rd /\ rd' = rd \ {p}
          /\ pc' = [pc EXCEPT ![p] = IF rd = {p} THEN "closeread" ELSE "user"]
        BY <1>7 DEF CloseRead, pipeVars, Goto
    <2>2. /\ Closing("closewrite")' = Closing("closewrite")
          /\ Closing("free")' = Closing("free")
          /\ Closing("closeread") = {}
          /\ Closing("closeread")' = IF rd = {p} THEN {p} ELSE {}
        BY <1>0, <2>1 DEF Closing, FlagsInv
    <2>3. FlagsInv'
        BY <1>0, <2>1, <2>2 DEF FlagsInv, Closers
    <2> QED
        BY <1>0, <2>1, <2>3 DEF CallInv, Waits
<1>8. ASSUME NEW p \in Procs, CloseWrite(p)
      PROVE  FlagsInv' /\ \A q \in Procs : CallInv(q)'
    <2>1. /\ UNCHANGED <<readopen, writeopen, freed, rd, op>>
          /\ pc[p] = "user" /\ p \in wr /\ wr' = wr \ {p}
          /\ pc' = [pc EXCEPT ![p] = IF wr = {p} THEN "closewrite" ELSE "user"]
        BY <1>8 DEF CloseWrite, pipeVars, Goto
    <2>2. /\ Closing("closeread")' = Closing("closeread")
          /\ Closing("free")' = Closing("free")
          /\ Closing("closewrite") = {}
          /\ Closing("closewrite")' = IF wr = {p} THEN {p} ELSE {}
        BY <1>0, <2>1 DEF Closing, FlagsInv
    <2>3. FlagsInv'
        BY <1>0, <2>1, <2>2 DEF FlagsInv, Closers
    <2> QED
        BY <1>0, <2>1, <2>3 DEF CallInv, Waits
<1>9. ASSUME NEW p \in Procs, PipeCloseRead(p)
      PROVE  FlagsInv' /\ \A q \in Procs : CallInv(q)'
    <2>1. /\ UNCHANGED <<writeopen, freed, rd, wr, op>> /\ readopen' = FALSE
          /\ pc[p] = "closeread"
          /\ pc' = [Woken("write") EXCEPT ![p] = AfterClose(writeopen)]
          /\ AfterClose(writeopen) \in Points
        BY <1>9 DEF PipeCloseRead, AfterClose, Points
    <2>2. After(p, AfterClose(writeopen), "write")
        BY <2>1, Moved, Zenon
    <2>3. readopen /\ rd = {} /\ Closing("free") = {} /\ ~freed /\ Closing("closeread") = {p}
        BY <1>0, <2>1 DEF Closing, FlagsInv, Closers
    <2>4. /\ Closing("closewrite")' = Closing("closewrite")
          /\ Closing("closeread")' = {}
          /\ Closing("free")' = IF writeopen THEN {} ELSE {p}
        BY <1>0, <2>1, <2>2, <2>3 DEF Closing, After, AfterClose
    <2>5. FlagsInv'
        BY <1>0, <2>1, <2>3, <2>4 DEF FlagsInv, Closers
    <2> QED
        BY <1>0, <2>1, <2>2, <2>5 DEF CallInv, Waits, After, AfterClose
<1>10. ASSUME NEW p \in Procs, PipeCloseWrite(p)
       PROVE  FlagsInv' /\ \A q \in Procs : CallInv(q)'
    <2>1. /\ UNCHANGED <<readopen, freed, rd, wr, op>> /\ writeopen' = FALSE
          /\ pc[p] = "closewrite"
          /\ pc' = [Woken("read") EXCEPT ![p] = AfterClose(readopen)]
          /\ AfterClose(readopen) \in Points
        BY <1>10 DEF PipeCloseWrite, AfterClose, Points
    <2>2. After(p, AfterClose(readopen), "read")
        BY <2>1, Moved, Zenon
    <2>3. writeopen /\ wr = {} /\ Closing("free") = {} /\ ~freed /\ Closing("closewrite") = {p}
        BY <1>0, <2>1 DEF Closing, FlagsInv, Closers
    <2>4. /\ Closing("closeread")' = Closing("closeread")
          /\ Closing("closewrite")' = {}
          /\ Closing("free")' = IF readopen THEN {} ELSE {p}
        BY <1>0, <2>1, <2>2, <2>3 DEF Closing, After, AfterClose
    <2>5. FlagsInv'
        BY <1>0, <2>1, <2>3, <2>4 DEF FlagsInv, Closers
    <2> QED
        BY <1>0, <2>1, <2>2, <2>5 DEF CallInv, Waits, After, AfterClose
<1>11. ASSUME NEW p \in Procs, KFree(p)
       PROVE  FlagsInv' /\ \A q \in Procs : CallInv(q)'
    <2>1. /\ UNCHANGED <<readopen, writeopen, rd, wr, op>> /\ freed' = TRUE
          /\ pc[p] = "free" /\ pc' = [pc EXCEPT ![p] = "user"]
        BY <1>11 DEF KFree, Goto
    <2>2. ~readopen /\ ~writeopen /\ Closing("free") = {p}
        BY <1>0, <2>1 DEF Closing, FlagsInv, Closers
    <2>3. /\ Closing("closeread")' = Closing("closeread")
          /\ Closing("closewrite")' = Closing("closewrite")
          /\ Closing("free")' = {}
        BY <1>0, <2>1, <2>2 DEF Closing
    <2>4. FlagsInv'
        BY <1>0, <2>1, <2>2, <2>3 DEF FlagsInv, Closers
    <2> QED
        BY <1>0, <2>1, <2>4 DEF CallInv, Waits
<1>12. CASE UNCHANGED vars
    <2>1. UNCHANGED <<readopen, writeopen, freed, rd, wr, pc, op>>
        BY <1>12 DEF vars, pipeVars
    <2> QED
        BY <1>0, <2>1, FlagsKept DEF CallInv
<1> QED
    BY <1>1, <1>2, <1>3, <1>4, <1>5, <1>6, <1>7, <1>8, <1>9, <1>10, <1>11, <1>12,
       StepCases

-----------------------------------------------------------------------------
\* A reason to sleep stays one as long as the ring and the flags do, whoever is
\* killed meanwhile.
SleepOf(p) ==
    /\ pc[p] = "sleep" <=> lk = p
    /\ pc[p] = "sleep2" <=> ptlk = p
    /\ pc[p] \in {"sleep", "sleep2", "asleep"} => MustWait(p)
KillsOnly == \A q \in Procs : killed[q] => killed'[q]

LEMMA ReasonKept ==
    ASSUME NEW q \in Procs, MustWait(q), op'[q] = op[q], KillsOnly,
           UNCHANGED <<nread, nwrite, readopen, writeopen>>
    PROVE  MustWait(q)'
<1>1. Empty' = Empty /\ Full' = Full
    BY DEF Empty, Full
<1>2. (\E w \in Procs : killed[w]) => (\E w \in Procs : killed'[w])
    BY DEF KillsOnly
<1> QED
    BY <1>1, <1>2 DEF MustWait

\* With both locks free nobody is on its way into sleep().
LEMMA NobodyDozes ==
    ASSUME SleepInv, Free, NEW q \in Procs
    PROVE  pc[q] \notin {"sleep", "sleep2"}
    BY PipeAssumption DEF SleepInv, Free

THEOREM SleepPreserved ==
    ASSUME TypeOK, EndsInv, SleepInv, [Next]_vars
    PROVE  SleepInv'
<1>0. /\ FlagsInv /\ (\A q \in Procs : CallInv(q) /\ SleepOf(q))
      /\ pc \in [Procs -> Points] /\ NoProc \notin Procs
      /\ op \in [Procs -> {"none", "read", "write"}]
      /\ killed \in [Procs -> BOOLEAN]
    BY EndsHalves, PipeAssumption DEF TypeOK, SleepInv, SleepOf
<1>s. SUFFICES \A q \in Procs : SleepOf(q)'
    BY DEF SleepInv, SleepOf
<1>1. ASSUME NEW p \in Procs,
             \/ \E b \in Bufs : StartWrite(p, b)
             \/ \E n \in Counts : StartRead(p, n)
      PROVE  \A q \in Procs : SleepOf(q)'
    <2>1. /\ UNCHANGED <<nread, nwrite, readopen, writeopen, killed, lk, ptlk>>
          /\ pc[p] = "user"
          /\ \E w \in {"read", "write"} :
                pc' = [pc EXCEPT ![p] = w] /\ op' = [op EXCEPT ![p] = w]
        BY <1>1 DEF StartWrite, StartRead, pipeVars, Goto
    <2>2. \A q \in Procs : MustWait(q) /\ op'[q] = op[q] => MustWait(q)'
        BY <2>1, ReasonKept DEF KillsOnly
    <2> QED
        BY <1>0, <2>1, <2>2 DEF SleepOf
<1>2. ASSUME NEW p \in Procs, Write(p)
      PROVE  \A q \in Procs : SleepOf(q)'
    <2>1. /\ UNCHANGED <<nread, readopen, writeopen, killed, ptlk>>
          /\ Fill(p) /\ Free /\ lk = NoProc /\ ptlk = NoProc
          /\ pc[p] = "write" /\ op[p] = "write"
        BY <1>0, <1>2 DEF Write, Fill, Free, CallInv
    <2>2. \A q \in Procs : pc[q] \notin {"sleep", "sleep2"}
        BY <2>1, NobodyDozes
    <2>3. Full => Full'
        <3>1. Full => Count = PIPESIZE /\ Room(p) = 0
            BY <2>1, Filling, RingFacts, Numbers
        <3>2. Full => Count' = PIPESIZE
            BY <2>1, <3>1, Filling, Numbers
        <3>3. TypeOK'
            BY <1>2, TypePreserved DEF Next, Kernel
        <3>4. Full' <=> Count' = PIPESIZE
            BY <3>3, Between DEF TypeOK, Full, Count
        <3> QED
            BY <3>2, <3>4
    <2>4. ASSUME NEW q \in Procs, pc[q] = "asleep", pc'[q] = "asleep", op'[q] = op[q],
                 op[q] = "write" \/ killed[p] \/ ~readopen
          PROVE  MustWait(q)'
        <3>1. MustWait(q)
            BY <1>0, <2>4 DEF SleepOf
        <3>2. op[q] # "write" => op[q] = "read" /\ q \in rd /\ readopen /\ killed[p]
            BY <1>0, <2>4 DEF CallInv, FlagsInv, Waits
        <3>3. op[q] # "write" => \E w \in Procs : killed'[w]
            BY <2>1, <3>2
        <3> QED
            BY <2>1, <2>3, <2>4, <3>1, <3>2, <3>3 DEF MustWait
    <2>5. CASE WriteAll(p)
        <3>1. /\ pc' = [Woken("read") EXCEPT ![p] = "user"] /\ "user" \in Points
              /\ op' = [op EXCEPT ![p] = "none"] /\ lk' = lk
            BY <2>5 DEF WriteAll, Points, Return
        <3>2. After(p, "user", "read")
            BY <2>1, <3>1, Moved, Zenon
        <3> QED
            BY <1>0, <2>1, <2>2, <2>4, <3>1, <3>2 DEF After, SleepOf, CallInv, Waits
    <2>6. CASE WriteFail(p)
        <3>1. /\ pc' = [pc EXCEPT ![p] = "user"] /\ op' = [op EXCEPT ![p] = "none"]
              /\ lk' = lk /\ (~readopen \/ killed[p])
            BY <2>6 DEF WriteFail, Goto, Return
        <3> QED
            BY <1>0, <2>1, <2>2, <2>4, <3>1 DEF SleepOf
    <2>7. CASE WriteWait(p)
        <3>1. /\ pc' = [Woken("read") EXCEPT ![p] = "sleep"] /\ "sleep" \in Points
              /\ op' = op /\ lk' = p /\ readopen /\ Room(p) < Len(todo[p])
            BY <2>7 DEF WriteWait, Points
        <3>2. After(p, "sleep", "read")
            BY <2>1, <3>1, Moved, Zenon
        <3>3. Full'
            <4>1. Count' = PIPESIZE
                BY <2>1, <3>1, Filling, RingFacts, Numbers
            <4>2. TypeOK'
                BY <1>2, TypePreserved DEF Next, Kernel
            <4> QED
                BY <4>1, <4>2, Between DEF TypeOK, Full, Count
        <3>4. MustWait(p)'
            BY <2>1, <3>1, <3>3 DEF MustWait
        <3> QED
            BY <1>0, <2>1, <2>2, <2>4, <3>1, <3>2, <3>4 DEF After, SleepOf, CallInv, Waits
    <2> QED
        BY <1>2, <2>5, <2>6, <2>7 DEF Write
<1>3. ASSUME NEW p \in Procs, Read(p)
      PROVE  \A q \in Procs : SleepOf(q)'
    <2>1. /\ UNCHANGED <<nwrite, readopen, writeopen, killed, ptlk>>
          /\ Free /\ lk = NoProc /\ ptlk = NoProc
          /\ pc[p] = "read" /\ op[p] = "read"
        BY <1>0, <1>3 DEF Read, ReadFail, ReadWait, ReadSome, pipeVars, Free, CallInv
    <2>2. \A q \in Procs : pc[q] \notin {"sleep", "sleep2"}
        BY <2>1, NobodyDozes
    <2>3. CASE ReadFail(p)
        <3>1. /\ pc' = [pc EXCEPT ![p] = "user"] /\ op' = [op EXCEPT ![p] = "none"]
              /\ lk' = lk /\ nread' = nread
            BY <2>3 DEF ReadFail, Goto, Return, pipeVars
        <3>2. \A q \in Procs : MustWait(q) /\ op'[q] = op[q] => MustWait(q)'
            BY <2>1, <3>1, ReasonKept DEF KillsOnly
        <3> QED
            BY <1>0, <2>1, <2>2, <3>1, <3>2 DEF SleepOf
    <2>4. CASE ReadWait(p)
        <3>1. /\ pc' = [pc EXCEPT ![p] = "sleep"] /\ op' = op
              /\ lk' = p /\ nread' = nread /\ Empty /\ writeopen
            BY <2>4 DEF ReadWait, ReadWaits, Goto, pipeVars
        <3>2. \A q \in Procs : MustWait(q) /\ op'[q] = op[q] => MustWait(q)'
            BY <2>1, <3>1, ReasonKept DEF KillsOnly
        <3>3. MustWait(p)
            BY <2>1, <3>1 DEF MustWait
        <3> QED
            BY <1>0, <2>1, <2>2, <3>1, <3>2, <3>3 DEF SleepOf
    <2>5. CASE ReadSome(p)
        <3>1. /\ pc' = [Woken("write") EXCEPT ![p] = "user"] /\ "user" \in Points
              /\ op' = [op EXCEPT ![p] = "none"]
              /\ lk' = lk /\ ~(Empty /\ writeopen)
            BY <2>5 DEF ReadSome, ReadWaits, Points, Return
        <3>2. After(p, "user", "write")
            BY <2>1, <3>1, Moved, Zenon
        <3>3. ASSUME NEW q \in Procs, pc[q] = "asleep", op'[q] = op[q], op[q] # "write"
              PROVE  MustWait(q)'
            <4>1. op[q] = "read" /\ MustWait(q)
                BY <1>0, <3>3 DEF SleepOf, CallInv, Waits
            <4>2. writeopen /\ \E w \in Procs : killed[w]
                BY <3>1, <4>1 DEF MustWait
            <4> QED
                BY <2>1, <3>3, <4>2 DEF MustWait
        <3> QED
            BY <1>0, <2>1, <2>2, <3>1, <3>2, <3>3 DEF After, SleepOf
    <2> QED
        BY <1>3, <2>3, <2>4, <2>5 DEF Read
<1>4. ASSUME NEW p \in Procs, SleepSwap(p) \/ SleepCommit(p)
      PROVE  \A q \in Procs : SleepOf(q)'
    <2>1. /\ UNCHANGED <<nread, nwrite, readopen, writeopen, killed, op>>
          /\ \/ /\ pc[p] = "sleep" /\ lk = p /\ ptlk = NoProc
                /\ ptlk' = p /\ lk' = NoProc
                /\ pc' = [pc EXCEPT ![p] = "sleep2"]
             \/ /\ pc[p] = "sleep2" /\ ptlk' = NoProc /\ lk' = lk
                /\ pc' = [pc EXCEPT ![p] = "asleep"]
        BY <1>4 DEF SleepSwap, SleepCommit, Covered, pipeVars, Goto
    <2>2. \A q \in Procs : MustWait(q) => MustWait(q)'
        BY <2>1, ReasonKept DEF KillsOnly
    <2> QED
        BY <1>0, <2>1, <2>2 DEF SleepOf
<1>5. ASSUME NEW p \in Procs, Kill(p)
      PROVE  \A q \in Procs : SleepOf(q)'
    <2>1. /\ UNCHANGED <<nread, nwrite, readopen, writeopen, op, lk, ptlk>>
          /\ killed' = [killed EXCEPT ![p] = TRUE]
          /\ pc' = [pc EXCEPT ![p] = IF @ = "asleep" THEN op[p] ELSE @]
        BY <1>5 DEF Kill, pipeVars
    <2>2. KillsOnly
        BY <1>0, <2>1 DEF KillsOnly
    <2>3. \A q \in Procs : MustWait(q) => MustWait(q)'
        BY <2>1, <2>2, ReasonKept
    <2>4. pc[p] = "asleep" => op[p] \in {"read", "write"}
        BY <1>0 DEF CallInv, Waits
    <2> QED
        BY <1>0, <2>1, <2>3, <2>4 DEF SleepOf
<1>6. ASSUME NEW p \in Procs, CloseRead(p) \/ CloseWrite(p) \/ KFree(p)
      PROVE  \A q \in Procs : SleepOf(q)'
    <2>1. /\ UNCHANGED <<nread, nwrite, readopen, writeopen, killed, op, lk, ptlk>>
          /\ pc[p] \in {"user", "free"}
          /\ \E w \in {"user", "closeread", "closewrite"} : pc' = [pc EXCEPT ![p] = w]
        BY <1>6 DEF CloseRead, CloseWrite, KFree, pipeVars, Goto
    <2>2. \A q \in Procs : MustWait(q) => MustWait(q)'
        BY <2>1, ReasonKept DEF KillsOnly
    <2> QED
        BY <1>0, <2>1, <2>2 DEF SleepOf
<1>7. ASSUME NEW p \in Procs, PipeCloseRead(p)
      PROVE  \A q \in Procs : SleepOf(q)'
    <2>1. /\ UNCHANGED <<nread, nwrite, writeopen, killed, op, lk, ptlk>>
          /\ Free /\ pc[p] = "closeread"
          /\ pc' = [Woken("write") EXCEPT ![p] = AfterClose(writeopen)]
          /\ AfterClose(writeopen) \in {"user", "free"}
          /\ AfterClose(writeopen) \in Points
        BY <1>7 DEF PipeCloseRead, AfterClose, Points
    <2>2. After(p, AfterClose(writeopen), "write")
        BY <2>1, Moved, Zenon
    <2>3. \A q \in Procs : pc[q] \notin {"sleep", "sleep2"}
        BY <2>1, NobodyDozes
    <2>4. ASSUME NEW q \in Procs, pc[q] = "asleep", op[q] # "write"
          PROVE  MustWait(q)'
        <3>1. MustWait(q) /\ Empty' = Empty
            BY <1>0, <2>1, <2>4 DEF SleepOf, Empty
        <3> QED
            BY <2>1, <2>4, <3>1 DEF MustWait
    <2> QED
        BY <1>0, <2>1, <2>2, <2>3, <2>4 DEF After, SleepOf
<1>8. ASSUME NEW p \in Procs, PipeCloseWrite(p)
      PROVE  \A q \in Procs : SleepOf(q)'
    <2>1. /\ UNCHANGED <<nread, nwrite, readopen, killed, op, lk, ptlk>>
          /\ Free /\ pc[p] = "closewrite"
          /\ pc' = [Woken("read") EXCEPT ![p] = AfterClose(readopen)]
          /\ AfterClose(readopen) \in {"user", "free"}
          /\ AfterClose(readopen) \in Points
        BY <1>8 DEF PipeCloseWrite, AfterClose, Points
    <2>2. After(p, AfterClose(readopen), "read")
        BY <2>1, Moved, Zenon
    <2>3. \A q \in Procs : pc[q] \notin {"sleep", "sleep2"}
        BY <2>1, NobodyDozes
    <2>4. ASSUME NEW q \in Procs, pc[q] = "asleep", op[q] # "read"
          PROVE  MustWait(q)'
        <3>1. MustWait(q) /\ Full' = Full
            BY <1>0, <2>1, <2>4 DEF SleepOf, Full
        <3> QED
            BY <2>1, <2>4, <3>1 DEF MustWait
    <2> QED
        BY <1>0, <2>1, <2>2, <2>3, <2>4 DEF After, SleepOf
<1>9. CASE UNCHANGED vars
    <2>1. UNCHANGED <<nread, nwrite, readopen, writeopen, killed, op, pc, lk, ptlk>>
        BY <1>9 DEF vars, pipeVars
    <2>2. \A q \in Procs : MustWait(q) => MustWait(q)'
        BY <2>1, ReasonKept DEF KillsOnly
    <2> QED
        BY <1>0, <2>1, <2>2 DEF SleepOf
<1> QED
    BY <1>1, <1>2, <1>3, <1>4, <1>5, <1>6, <1>7, <1>8, <1>9, StepCases

-----------------------------------------------------------------------------
THEOREM InitEstablishes == Init => PipeIInv
<1> SUFFICES ASSUME Init PROVE PipeIInv
    OBVIOUS
<1>1. RingType
    <2>1. nread \in 0 .. W - 1 /\ nwrite \in 0 .. W - 1 /\ nread = nwrite
        BY Numbers DEF Init
    <2>2. Count = 0
        BY <2>1, Between DEF Count
    <2> QED
        BY <2>1, <2>2, Numbers DEF Init, RingType
<1>2. CallType
    BY PipeAssumption DEF Init, CallType, Points
<1>3. EndsInv
    BY PipeAssumption DEF Init, EndsInv, Closing, Waits
<1>4. SleepInv
    BY PipeAssumption DEF Init, SleepInv
<1> QED
    BY <1>1, <1>2, <1>3, <1>4, TypeHalves DEF PipeIInv

\* The ring stays within its bounds, the flags say who may still come, and who
\* sleeps has to.
THEOREM PipeInvariant == Spec => []PipeIInv
<1>1. PipeIInv /\ [Next]_vars => PipeIInv'
    BY TypePreserved, EndsPreserved, SleepPreserved DEF PipeIInv
<1> QED
    BY InitEstablishes, <1>1, PTL DEF Spec

\* sleep() and wakeup() on a pipe never miss each other.
THEOREM NoLostWakeupHolds == Spec => []NoLostWakeup
<1>1. PipeIInv => NoLostWakeup
    BY DEF PipeIInv, SleepInv, MustWait, NoLostWakeup
<1> QED
    BY PipeInvariant, <1>1, PTL

\* The page of a pipe is freed once, and by its last user.
THEOREM FreedOnceHolds == Spec => []FreedOnce
<1>1. PipeIInv => FreedOnce
    <2> SUFFICES ASSUME PipeIInv PROVE FreedOnce
        OBVIOUS
    <2>1. FlagsInv /\ (\A p \in Procs : CallInv(p)) /\ pc \in [Procs -> Points]
        BY EndsHalves DEF PipeIInv, TypeOK
    <2>2. /\ \A p, r \in Procs : pc[p] = "free" /\ pc[r] = "free" => p = r
          /\ freed => \A p \in Procs : pc[p] # "free"
        BY <2>1 DEF FlagsInv, Closing, Closers
    <2>3. ASSUME freed \/ (\E p \in Procs : pc[p] = "free"), NEW q \in Procs
          PROVE  rd = {} /\ wr = {} /\ ~InPipe(q)
        <3>1. ~readopen /\ ~writeopen
            BY <2>1, <2>3 DEF FlagsInv, Closing
        <3>2. /\ rd = {} /\ wr = {}
              /\ pc[q] # "closeread" /\ pc[q] # "closewrite"
            BY <2>1, <3>1 DEF FlagsInv, Closing
        <3>3. op[q] \in {"none", "read", "write"}
            BY DEF PipeIInv, TypeOK
        <3>4. pc[q] \notin Waits
            BY <2>1, <3>2, <3>3 DEF CallInv
        <3> QED
            BY <3>2, <3>4 DEF InPipe, Waits, Points
    <2>4. freed \/ (\E p \in Procs : pc[p] = "free") => rd = {} /\ wr = {}
        BY <2>1 DEF FlagsInv, Closing
    <2> QED
        BY <2>2, <2>3, <2>4 DEF FreedOnce
<1> QED
    BY PipeInvariant, <1>1, PTL

-----------------------------------------------------------------------------
(***************************************************************************)
(* The ring of a pipe is a first-in first-out stream: Spec => StreamSpec.  *)
(*                                                                         *)
(* First: remainders.                                                      *)
(***************************************************************************)
LEMMA Quotient ==
    ASSUME NEW a \in Int, NEW n \in Int, n > 0
    PROVE  /\ a \div n \in Int
           /\ a % n \in 0 .. n - 1
           /\ a = n * (a \div n) + (a % n)
    OBVIOUS

LEMMA Remainder ==
    ASSUME NEW a \in Int, NEW n \in Int, n > 0, NEW q \in Int, NEW r \in Int,
           0 <= r, r < n, a = n * q + r
    PROVE  a % n = r
    OBVIOUS

\* Whole turns make no difference.
LEMMA Turns ==
    ASSUME NEW a \in Int, NEW n \in Int, n > 0, NEW k \in Int
    PROVE  (a + n * k) % n = a % n
<1> DEFINE d == a \div n
           r == a % n
           x == a + n * k
<1>1. d \in Int /\ r \in Int /\ 0 <= r /\ r < n /\ a = n * d + r
    BY Quotient
<1>2. x \in Int /\ d + k \in Int /\ x = n * (d + k) + r
    <2>1. n * (d + k) = n * d + n * k
        BY <1>1
    <2> QED
        BY <1>1, <2>1
<1> HIDE DEF d, r, x
<1>3. x % n = r
    BY <1>1, <1>2, Remainder
<1> QED
    BY <1>3 DEF r, x

\* The counters' width is a number of turns of the ring (512 divides 2^32).
LEMMA Width == \E m \in Int : W = PIPESIZE * m
<1>1. W \in Int /\ PIPESIZE \in Int /\ PIPESIZE > 0 /\ W % PIPESIZE = 0
    BY PipeAssumption, Numbers
<1>2. W \div PIPESIZE \in Int /\ W = PIPESIZE * (W \div PIPESIZE) + (W % PIPESIZE)
    BY <1>1, Quotient
<1>3. W = PIPESIZE * (W \div PIPESIZE)
    BY <1>1, <1>2
<1> QED
    BY <1>2, <1>3

\* So a counter that is reduced gives the same place in the ring.
LEMMA Reducing ==
    ASSUME NEW x \in Int
    PROVE  \E k \in Int : x % W = x + PIPESIZE * k
<1>1. PICK m \in Int : W = PIPESIZE * m
    BY Width
<1> DEFINE d == x \div W
<1>2. d \in Int /\ x = W * d + (x % W) /\ x % W \in Int
    BY Quotient, Numbers
<1> HIDE DEF d
<1>3. PIPESIZE * (m * (0 - d)) = 0 - W * d
    <2>1. W * d = PIPESIZE * (m * d)
        BY <1>1, <1>2, Numbers
    <2>2. m * (0 - d) = 0 - m * d /\ m * d \in Int
        BY <1>2
    <2>3. PIPESIZE * (0 - m * d) = 0 - PIPESIZE * (m * d)
        BY <2>2, Numbers
    <2> QED
        BY <2>1, <2>2, <2>3
<1>4. m * (0 - d) \in Int
    BY <1>2
<1>5. W * d \in Int
    BY <1>2, Numbers
<1>6. x % W = x + PIPESIZE * (m * (0 - d))
    BY <1>2, <1>3, <1>5
<1> QED
    BY <1>4, <1>6

LEMMA SamePlace ==
    ASSUME NEW x \in Int, NEW d \in Int
    PROVE  /\ ((x % W) + d) % PIPESIZE = (x + d) % PIPESIZE
           /\ (d - (x % W)) % PIPESIZE = (d - x) % PIPESIZE
<1>0. PIPESIZE \in Int /\ PIPESIZE > 0
    BY Numbers
<1>1. PICK k \in Int : x % W = x + PIPESIZE * k
    BY Reducing
<1>2. (x % W) + d = (x + d) + PIPESIZE * k /\ x + d \in Int
    BY <1>0, <1>1
<1>3. d - (x % W) = (d - x) + PIPESIZE * (0 - k) /\ d - x \in Int /\ 0 - k \in Int
    <2>1. PIPESIZE * (0 - k) = 0 - PIPESIZE * k
        BY <1>0
    <2> QED
        BY <1>0, <1>1, <2>1
<1>4. ((x + d) + PIPESIZE * k) % PIPESIZE = (x + d) % PIPESIZE
    BY <1>0, <1>2, Turns
<1>5. ((d - x) + PIPESIZE * (0 - k)) % PIPESIZE = (d - x) % PIPESIZE
    BY <1>0, <1>3, Turns
<1> QED
    BY <1>2, <1>3, <1>4, <1>5

\* The index of a byte counts from the index of another, whether reduced or not.
LEMMA Index ==
    ASSUME NEW x \in Int, NEW y \in Int
    PROVE  ((x % PIPESIZE) - y) % PIPESIZE = (x - y) % PIPESIZE
<1>0. PIPESIZE \in Int /\ PIPESIZE > 0
    BY Numbers
<1> DEFINE d == x \div PIPESIZE
<1>1. d \in Int /\ x % PIPESIZE \in Int /\ x = PIPESIZE * d + (x % PIPESIZE)
    BY <1>0, Quotient
<1> HIDE DEF d
<1>2. (x % PIPESIZE) - y = (x - y) + PIPESIZE * (0 - d) /\ x - y \in Int /\ 0 - d \in Int
    <2>1. PIPESIZE * (0 - d) = 0 - PIPESIZE * d /\ PIPESIZE * d \in Int
        BY <1>0, <1>1
    <2> QED
        BY <1>1, <2>1
<1>3. ((x - y) + PIPESIZE * (0 - d)) % PIPESIZE = (x - y) % PIPESIZE
    BY <1>0, <1>2, Turns
<1> QED
    BY <1>2, <1>3

-----------------------------------------------------------------------------
(***************************************************************************)
(* The ring.                                                               *)
(***************************************************************************)
Place(i) == (nread + i - 1) % PIPESIZE

LEMMA Places ==
    ASSUME TypeOK, NEW i \in Int
    PROVE  /\ Place(i) \in 0 .. PIPESIZE - 1
           /\ (Place(i) - nwrite) % PIPESIZE = (i - 1 - Count) % PIPESIZE
<1>0. PIPESIZE \in Int /\ PIPESIZE > 0 /\ W \in Int /\ W > 0
    BY Numbers
<1>1. nread \in Int /\ nwrite \in Int
    BY <1>0 DEF TypeOK
<1>2. nread + i - 1 \in Int /\ nwrite - nread \in Int /\ i - 1 \in Int
    BY <1>1
<1>3. Place(i) \in 0 .. PIPESIZE - 1
    BY <1>0, <1>2, Quotient DEF Place
<1>4. (Place(i) - nwrite) % PIPESIZE = ((nread + i - 1) - nwrite) % PIPESIZE
    BY <1>1, <1>2, Index DEF Place
<1>5. (i - 1 - ((nwrite - nread) % W)) % PIPESIZE = (i - 1 - (nwrite - nread)) % PIPESIZE
    BY <1>2, SamePlace
<1>6. (nread + i - 1) - nwrite = i - 1 - (nwrite - nread)
    BY <1>1
<1> QED
    BY <1>3, <1>4, <1>5, <1>6 DEF Count

\* Counted from nwrite, the bytes of the ring are behind the room there is, and the
\* new ones come first.
LEMMA Distances ==
    ASSUME TypeOK, NEW i \in Int, 1 <= i, i <= PIPESIZE
    PROVE  (Place(i) - nwrite) % PIPESIZE =
              IF i <= Count THEN i - 1 - Count + PIPESIZE ELSE i - 1 - Count
<1>0. PIPESIZE \in Int /\ PIPESIZE > 0 /\ Count \in Nat /\ Count <= PIPESIZE
    BY Numbers, RingFacts
<1> DEFINE a == i - 1 - Count
<1>1. a \in Int
    BY <1>0
<1>2. CASE i <= Count
    <2>1. a + PIPESIZE \in Int /\ 0 <= a + PIPESIZE /\ a + PIPESIZE < PIPESIZE
        BY <1>0, <1>2
    <2>2. a = PIPESIZE * (0 - 1) + (a + PIPESIZE) /\ 0 - 1 \in Int
        BY <1>0, <1>1
    <2> HIDE DEF a
    <2>3. a % PIPESIZE = a + PIPESIZE
        BY <1>0, <1>1, <2>1, <2>2, Remainder
    <2> QED
        BY <1>2, <2>3, Places DEF a
<1>3. CASE ~(i <= Count)
    <2>1. 0 <= a /\ a < PIPESIZE
        BY <1>0, <1>3
    <2>2. a = PIPESIZE * 0 + a
        BY <1>0, <1>1
    <2> HIDE DEF a
    <2>3. a % PIPESIZE = a
        BY <1>0, <1>1, <2>1, <2>2, Remainder
    <2> QED
        BY <1>3, <2>3, Places DEF a
<1> QED
    BY <1>2, <1>3

\* The stream that the ring stands for.
InRing == [i \in 1 .. Count |-> Byte(i)]

\* It is a sequence of whatever the places of the ring may hold.
Holding(S) == \A j \in 0 .. PIPESIZE - 1 : data[j] \in S

RingIsSeq ==
    \A S : Holding(S) =>
        /\ InRing \in Seq(S) /\ Len(InRing) = Count
        /\ \A i \in 1 .. Count : InRing[i] = data[Place(i)]

LEMMA RingSeq == TypeOK => RingIsSeq
<1> SUFFICES ASSUME TypeOK, NEW S, Holding(S)
             PROVE  /\ InRing \in Seq(S) /\ Len(InRing) = Count
                    /\ \A i \in 1 .. Count : InRing[i] = data[Place(i)]
    BY DEF RingIsSeq
<1>1. Count \in Nat
    BY RingFacts
<1>2. \A i \in 1 .. Count : Byte(i) = data[Place(i)] /\ Byte(i) \in S
    <2> SUFFICES ASSUME NEW i \in 1 .. Count
                 PROVE  Byte(i) = data[Place(i)] /\ Byte(i) \in S
        OBVIOUS
    <2>1. Place(i) \in 0 .. PIPESIZE - 1
        BY <1>1, Places
    <2>2. Byte(i) = data[Place(i)]
        BY DEF Byte, Place
    <2> QED
        BY <2>1, <2>2 DEF Holding
<1>3. InRing \in Seq(S) /\ Len(InRing) = Count
    BY <1>1, <1>2 DEF InRing
<1> QED
    BY <1>2, <1>3 DEF InRing

LEMMA RingSeqNext == TypeOK' => RingIsSeq'
    BY RingSeq, PTL

\* What pipewrite() stores, in terms of places.
LEMMA Stores ==
    ASSUME TypeOK, NEW p \in Procs, Fill(p), NEW i \in 1 .. Count + Room(p)
    PROVE  data'[Place(i)] = IF i <= Count THEN data[Place(i)] ELSE todo[p][i - Count]
<1>1. /\ Count \in Nat /\ Room(p) \in Nat /\ PIPESIZE \in Nat
      /\ Count + Room(p) <= PIPESIZE
    BY RingFacts, Filling, Numbers
<1>2. i \in Int /\ 1 <= i /\ i <= PIPESIZE
    BY <1>1
<1> DEFINE d == (Place(i) - nwrite) % PIPESIZE
<1>3. data' = Stored(todo[p], Room(p)) /\ Place(i) \in 0 .. PIPESIZE - 1
    BY <1>2, Places DEF Fill
<1>4. data'[Place(i)] = IF d < Room(p) THEN todo[p][d + 1] ELSE data[Place(i)]
    BY <1>3 DEF Stored
<1>5. d = IF i <= Count THEN i - 1 - Count + PIPESIZE ELSE i - 1 - Count
    BY <1>2, Distances
<1> HIDE DEF d
<1>6. CASE i <= Count
    <2>1. ~(d < Room(p))
        BY <1>1, <1>2, <1>5, <1>6
    <2> QED
        BY <1>4, <1>6, <2>1
<1>7. CASE ~(i <= Count)
    <2>1. d < Room(p) /\ d + 1 = i - Count
        BY <1>1, <1>2, <1>5, <1>7
    <2> QED
        BY <1>4, <1>7, <2>1
<1> QED
    BY <1>6, <1>7

\* pipewrite() appends to the stream.
LEMMA Appends ==
    ASSUME TypeOK, TypeOK', NEW p \in Procs, Fill(p)
    PROVE  InRing' = InRing \o SubSeq(todo[p], 1, Room(p))
<1> DEFINE k == Room(p)
           new == SubSeq(todo[p], 1, k)
<1>1. /\ Count \in Nat /\ k \in Nat /\ k <= Len(todo[p])
      /\ Count' = Count + k /\ nread' = nread
    BY RingFacts, Filling
<1>2. PICK S : /\ \A j \in 0 .. PIPESIZE - 1 : data[j] \in S /\ data'[j] \in S
               /\ Bytes \subseteq S
    <2> DEFINE All == {data[j] : j \in 0 .. PIPESIZE - 1}
                      \cup {data'[j] : j \in 0 .. PIPESIZE - 1} \cup Bytes
    <2> WITNESS All
    <2> QED
        OBVIOUS
<1> HIDE DEF k, new
<1>3. /\ InRing \in Seq(S) /\ Len(InRing) = Count
      /\ \A i \in 1 .. Count : InRing[i] = data[Place(i)]
    BY <1>2, RingSeq DEF RingIsSeq, Holding
<1>4. /\ InRing' \in Seq(S) /\ Len(InRing') = Count'
      /\ \A i \in 1 .. Count' : InRing'[i] = data'[Place(i)']
    BY <1>2, RingSeqNext DEF RingIsSeq, Holding
<1>5. /\ new \in Seq(S) /\ Len(new) = k
      /\ \A i \in 1 .. k : new[i] = todo[p][i]
    <2>1. todo[p] \in Seq(Bytes)
        BY DEF TypeOK
    <2>2. \A i \in 1 .. k : todo[p][i] \in S
        <3> SUFFICES ASSUME NEW i \in 1 .. k PROVE todo[p][i] \in S
            OBVIOUS
        <3>1. i \in 1 .. Len(todo[p])
            BY <1>1, <2>1, LenProperties
        <3>2. todo[p][i] \in Bytes
            BY <2>1, <3>1, ElementOfSeq
        <3> QED
            BY <1>2, <3>2
    <2>3. 1 \in Int /\ k \in Int
        BY <1>1
    <2>4. /\ new \in Seq(S) /\ Len(new) = IF 1 <= k THEN k - 1 + 1 ELSE 0
          /\ \A i \in 1 .. k - 1 + 1 : new[i] = todo[p][1 + i - 1]
        BY <2>2, <2>3, SubSeqProperties DEF new
    <2> QED
        BY <1>1, <2>4
<1>6. /\ InRing \o new \in Seq(S)
      /\ Len(InRing \o new) = Count + k
      /\ \A i \in 1 .. Count + k :
            (InRing \o new)[i] = IF i <= Count THEN InRing[i] ELSE new[i - Count]
    BY <1>3, <1>5, ConcatProperties
<1>7. \A i \in 1 .. Count + k : InRing'[i] = (InRing \o new)[i]
    <2> SUFFICES ASSUME NEW i \in 1 .. Count + k
                 PROVE  InRing'[i] = (InRing \o new)[i]
        OBVIOUS
    <2>1. Place(i)' = Place(i)
        BY <1>1 DEF Place
    <2>2. InRing'[i] = IF i <= Count THEN data[Place(i)] ELSE todo[p][i - Count]
        BY <1>1, <1>4, <2>1, Stores DEF k
    <2>3. (InRing \o new)[i] = IF i <= Count THEN InRing[i] ELSE new[i - Count]
        BY <1>6
    <2>4. CASE i <= Count
        BY <1>1, <1>3, <2>2, <2>3, <2>4
    <2>5. CASE ~(i <= Count)
        <3>1. i - Count \in 1 .. k
            BY <1>1, <2>5
        <3> QED
            BY <1>5, <2>2, <2>3, <2>5, <3>1
    <2> QED
        BY <2>4, <2>5
<1> QED
    BY <1>1, <1>4, <1>6, <1>7, SeqEqual DEF new, k

\* piperead() takes from its front.
Most(p) == Shorter(want[p], Count)

LEMMA Takes ==
    ASSUME TypeOK, TypeOK', NEW p \in Procs, ReadSome(p)
    PROVE  /\ [i \in 1 .. Most(p) |-> Byte(i)] = SubSeq(InRing, 1, Most(p))
           /\ InRing' = SubSeq(InRing, Most(p) + 1, Len(InRing))
           /\ Len(InRing) = Count
<1> DEFINE m == Most(p)
<1>1. want[p] \in Nat
    <2>1. want[p] \in Counts \/ want[p] = 0
        BY DEF TypeOK
    <2>2. \A n \in Counts : n \in Nat
        BY PipeAssumption
    <2> QED
        BY <2>1, <2>2
<1>2. m \in Nat /\ m <= Count /\ Count \in Nat /\ Count <= PIPESIZE
    BY <1>1, RingFacts DEF Shorter, Most
<1>3. nread' = (nread + m) % W /\ nwrite' = nwrite /\ data' = data
    BY DEF ReadSome, Most
<1>4. nread \in 0 .. W - 1 /\ nwrite \in 0 .. W - 1
    BY DEF TypeOK
<1> HIDE DEF m
<1>5. Count' = Count - m
    <2>1. m \in 0 .. W - 1 /\ m <= (nwrite - nread) % W
        BY <1>2, Numbers DEF Count
    <2>2. (nwrite - ((nread + m) % W)) % W = ((nwrite - nread) % W) - m
        BY <1>4, <2>1, AdvanceRead, Zenon
    <2> QED
        BY <1>3, <2>2 DEF Count
<1>6. \A i \in Int : Place(i)' = Place(m + i)
    <2> SUFFICES ASSUME NEW i \in Int PROVE Place(i)' = Place(m + i)
        OBVIOUS
    <2>1. nread + m \in Int /\ i - 1 \in Int
        BY <1>2, <1>4, Numbers
    <2>2. (((nread + m) % W) + (i - 1)) % PIPESIZE = ((nread + m) + (i - 1)) % PIPESIZE
        BY <2>1, SamePlace
    <2>3. ((nread + m) % W) \in Int
        BY <2>1, Numbers, Quotient
    <2>4. /\ ((nread + m) % W) + i - 1 = ((nread + m) % W) + (i - 1)
          /\ nread + (m + i) - 1 = (nread + m) + (i - 1)
        BY <1>2, <1>4, <2>3
    <2>5. Place(i)' = (((nread + m) % W) + i - 1) % PIPESIZE
        BY <1>3 DEF Place
    <2> QED
        BY <2>2, <2>4, <2>5 DEF Place
<1>7. PICK S : \A j \in 0 .. PIPESIZE - 1 : data[j] \in S /\ data'[j] \in S
    <2> WITNESS {data[j] : j \in 0 .. PIPESIZE - 1}
    <2> QED
        BY <1>3
<1>8. /\ InRing \in Seq(S) /\ Len(InRing) = Count
      /\ \A i \in 1 .. Count : InRing[i] = data[Place(i)]
    BY <1>7, RingSeq DEF RingIsSeq, Holding
<1>9. /\ InRing' \in Seq(S) /\ Len(InRing') = Count'
      /\ \A i \in 1 .. Count' : InRing'[i] = data'[Place(i)']
    BY <1>7, RingSeqNext DEF RingIsSeq, Holding
<1>10. [i \in 1 .. m |-> Byte(i)] = SubSeq(InRing, 1, m)
    <2> DEFINE got == [i \in 1 .. m |-> Byte(i)]
    <2>1. \A i \in 1 .. m : InRing[i] \in S /\ InRing[i] = Byte(i)
        BY <1>2, <1>8, ElementOfSeq DEF Byte, Place
    <2>2. got \in Seq(S) /\ Len(got) = m /\ \A i \in 1 .. m : got[i] = Byte(i)
        BY <1>2, <2>1
    <2>3. 1 \in Int /\ m \in Int
        BY <1>2
    <2>4. /\ SubSeq(InRing, 1, m) \in Seq(S)
          /\ Len(SubSeq(InRing, 1, m)) = IF 1 <= m THEN m - 1 + 1 ELSE 0
          /\ \A i \in 1 .. m - 1 + 1 : SubSeq(InRing, 1, m)[i] = InRing[1 + i - 1]
        BY <2>1, <2>3, SubSeqProperties
    <2>5. Len(SubSeq(InRing, 1, m)) = m /\ \A i \in 1 .. m : SubSeq(InRing, 1, m)[i] = Byte(i)
        BY <1>2, <2>1, <2>4
    <2> HIDE DEF got
    <2>6. got = SubSeq(InRing, 1, m)
        BY <2>2, <2>4, <2>5, SeqEqual
    <2> QED
        BY <2>6 DEF got
<1>11. InRing' = SubSeq(InRing, m + 1, Len(InRing))
    <2> DEFINE rest == SubSeq(InRing, m + 1, Len(InRing))
    <2>1. \A i \in m + 1 .. Count : InRing[i] \in S
        BY <1>2, <1>8, ElementOfSeq
    <2>2. m + 1 \in Int /\ Len(InRing) \in Int
        BY <1>2, <1>8
    <2>3. /\ rest \in Seq(S)
          /\ Len(rest) = IF m + 1 <= Count THEN Count - (m + 1) + 1 ELSE 0
          /\ \A i \in 1 .. Count - (m + 1) + 1 : rest[i] = InRing[(m + 1) + i - 1]
        BY <1>8, <2>1, <2>2, SubSeqProperties
    <2> HIDE DEF rest
    <2>4. Len(rest) = Count - m /\ \A i \in 1 .. Count - m : rest[i] = data[Place(m + i)]
        <3>1. Count - (m + 1) + 1 = Count - m
            BY <1>2
        <3>2. \A i \in 1 .. Count - m : (m + 1) + i - 1 = m + i /\ m + i \in 1 .. Count
            BY <1>2
        <3> QED
            BY <1>2, <1>8, <2>3, <3>1, <3>2
    <2>5. \A i \in 1 .. Count - m : InRing'[i] = rest[i]
        BY <1>3, <1>5, <1>6, <1>9, <2>4
    <2>6. InRing' = rest
        BY <1>5, <1>9, <2>3, <2>4, <2>5, SeqEqual
    <2> QED
        BY <2>6 DEF rest
<1> QED
    BY <1>8, <1>10, <1>11 DEF m

\* The other steps leave it alone.
LEMMA RingStays ==
    ASSUME UNCHANGED <<data, nread, nwrite>>
    PROVE  InRing' = InRing
    BY DEF InRing, Byte, Count

-----------------------------------------------------------------------------
(***************************************************************************)
(* What a call in progress has left to do.                                 *)
(***************************************************************************)
BusyOf(p) ==
    /\ op[p] = "write" <=> todo[p] # <<>>
    /\ op[p] = "read" <=> want[p] # 0
BusyInv == \A p \in Procs : BusyOf(p)

LEMMA BusyKept ==
    ASSUME BusyInv, UNCHANGED <<op, todo, want>>
    PROVE  BusyInv'
    BY DEF BusyInv, BusyOf

\* One process changes its call, the others stay.
LEMMA BusyMoves ==
    ASSUME BusyInv, NEW p \in Procs,
           \A q \in Procs \ {p} : op'[q] = op[q] /\ todo'[q] = todo[q] /\ want'[q] = want[q],
           BusyOf(p)'
    PROVE  BusyInv'
    BY DEF BusyInv, BusyOf

\* A write() that goes to sleep has bytes left.
LEMMA SomeLeft ==
    ASSUME NEW s \in Seq(Bytes), NEW k \in Nat, k < Len(s)
    PROVE  SubSeq(s, k + 1, Len(s)) # <<>>
<1>1. Len(s) \in Nat /\ \A i \in k + 1 .. Len(s) : s[i] \in Bytes
    BY LenProperties, ElementOfSeq
<1>2. k + 1 \in Int /\ Len(s) \in Int
    BY <1>1
<1>3. Len(SubSeq(s, k + 1, Len(s))) = IF k + 1 <= Len(s) THEN Len(s) - (k + 1) + 1 ELSE 0
    BY <1>1, <1>2, SubSeqProperties
<1>4. Len(SubSeq(s, k + 1, Len(s))) # 0
    BY <1>1, <1>3
<1> QED
    BY <1>4, EmptySeq

LEMMA BusyPreserved ==
    ASSUME PipeIInv, BusyInv, [Next]_vars
    PROVE  BusyInv'
<1>0. /\ TypeOK
      /\ op \in [Procs -> {"none", "read", "write"}] /\ todo \in [Procs -> Seq(Bytes)]
      /\ want \in [Procs -> Counts \cup {0}]
      /\ \A q \in Procs : pc[q] = "user" => op[q] = "none"
      /\ \A q \in Procs : pc[q] \in {"read", "write"} => op[q] = pc[q]
    BY DEF PipeIInv, TypeOK, EndsInv, Waits
<1>1. ASSUME NEW p \in Procs, NEW b \in Bufs, StartWrite(p, b)
      PROVE  BusyInv'
    <2>1. b # <<>> /\ op[p] = "none"
        BY <1>0, <1>1, PipeAssumption DEF StartWrite
    <2>2. BusyOf(p)'
        BY <1>0, <1>1, <2>1 DEF StartWrite, BusyInv, BusyOf
    <2> QED
        BY <1>0, <1>1, <2>2, BusyMoves DEF StartWrite
<1>2. ASSUME NEW p \in Procs, NEW n \in Counts, StartRead(p, n)
      PROVE  BusyInv'
    <2>1. n # 0 /\ op[p] = "none"
        BY <1>0, <1>2, PipeAssumption DEF StartRead
    <2>2. BusyOf(p)'
        BY <1>0, <1>2, <2>1 DEF StartRead, BusyInv, BusyOf
    <2> QED
        BY <1>0, <1>2, <2>2, BusyMoves DEF StartRead
<1>3. ASSUME NEW p \in Procs, Write(p)
      PROVE  BusyInv'
    <2>1. want' = want /\ op[p] = "write" /\ BusyOf(p) /\ Fill(p)
        BY <1>0, <1>3 DEF Write, BusyInv
    <2>2. CASE WriteAll(p) \/ WriteFail(p)
        <3>1. op' = [op EXCEPT ![p] = "none"] /\ todo' = [todo EXCEPT ![p] = <<>>]
            BY <2>2 DEF WriteAll, WriteFail, Return
        <3> QED
            BY <1>0, <2>1, <3>1, BusyMoves DEF BusyOf
    <2>3. CASE WriteWait(p)
        <3>1. /\ op' = op /\ Room(p) \in Nat /\ Room(p) < Len(todo[p])
              /\ todo' = [todo EXCEPT ![p] = SubSeq(@, Room(p) + 1, Len(@))]
            BY <1>0, <2>1, <2>3, Filling DEF WriteWait
        <3>2. todo'[p] # <<>>
            BY <1>0, <3>1, SomeLeft
        <3> QED
            BY <1>0, <2>1, <3>1, <3>2, BusyMoves DEF BusyOf
    <2> QED
        BY <1>3, <2>2, <2>3 DEF Write
<1>4. ASSUME NEW p \in Procs, Read(p)
      PROVE  BusyInv'
    <2>1. todo' = todo /\ op[p] = "read" /\ BusyOf(p)
        BY <1>0, <1>4 DEF Read, BusyInv
    <2>2. CASE ReadFail(p) \/ ReadSome(p)
        <3>1. op' = [op EXCEPT ![p] = "none"] /\ want' = [want EXCEPT ![p] = 0]
            BY <2>2 DEF ReadFail, ReadSome, Return
        <3> QED
            BY <1>0, <2>1, <3>1, BusyMoves DEF BusyOf
    <2>3. CASE ReadWait(p)
        BY <2>1, <2>3, BusyKept DEF ReadWait
    <2> QED
        BY <1>4, <2>2, <2>3 DEF Read
<1>5. ASSUME NEW p \in Procs,
             \/ SleepSwap(p) \/ SleepCommit(p) \/ Kill(p) \/ CloseRead(p) \/ CloseWrite(p)
             \/ PipeCloseRead(p) \/ PipeCloseWrite(p) \/ KFree(p)
      PROVE  BusyInv'
    BY <1>5, BusyKept
       DEF SleepSwap, SleepCommit, Kill, CloseRead, CloseWrite, PipeCloseRead,
           PipeCloseWrite, KFree
<1>6. CASE UNCHANGED vars
    BY <1>6, BusyKept DEF vars
<1> QED
    BY <1>1, <1>2, <1>3, <1>4, <1>5, <1>6, StepCases

-----------------------------------------------------------------------------
(***************************************************************************)
(* The refinement.                                                         *)
(***************************************************************************)
\* The pipe starts as an empty stream.
THEOREM StreamInit == Init => Stream!SInit
<1> SUFFICES ASSUME Init PROVE Stream!SInit
    OBVIOUS
<1>1. Count = 0
    <2>1. nread \in 0 .. W - 1 /\ nwrite \in 0 .. W - 1 /\ nread = nwrite
        BY Numbers DEF Init
    <2> QED
        BY <2>1, Between DEF Count
<1>2. [i \in 1 .. Count |-> Byte(i)] = <<>>
    BY <1>1
<1> QED
    BY <1>2 DEF Init, Stream!SInit

\* What pipewrite() and piperead() do is one step of the stream.
LEMMA WriteStep ==
    ASSUME PipeIInv, PipeIInv', BusyInv, NEW p \in Procs, Write(p)
    PROVE  Stream!SNext
<1>0. TypeOK /\ TypeOK' /\ Fill(p) /\ want' = want /\ p \in wr /\ todo \in [Procs -> Seq(Bytes)]
    BY DEF PipeIInv, EndsInv, Write, TypeOK
<1> DEFINE k == Room(p)
<1>1. /\ k \in Nat /\ k <= Len(todo[p]) /\ k <= PIPESIZE - Count /\ Count \in Nat
      /\ k < Len(todo[p]) => Count + k = PIPESIZE
      /\ Len(todo[p]) \in Nat /\ PIPESIZE \in Nat
      /\ readopen' = readopen /\ writeopen' = writeopen
    BY <1>0, Filling, RingFacts, Numbers
<1>2. k \in 0 .. PIPESIZE
    BY <1>1
<1>3. writeopen
    BY <1>0 DEF PipeIInv, EndsInv
<1>4. InRing' = InRing \o SubSeq(todo[p], 1, k) /\ Len(InRing) = Count
    <2>1. PICK S : \A j \in 0 .. PIPESIZE - 1 : data[j] \in S
        <3> WITNESS {data[j] : j \in 0 .. PIPESIZE - 1}
        <3> QED
            OBVIOUS
    <2> QED
        BY <1>0, <2>1, Appends, RingSeq DEF RingIsSeq, Holding
<1> HIDE DEF k
<1>5. CASE WriteAll(p) \/ WriteWait(p)
    <2>1. todo' = [todo EXCEPT ![p] = SubSeq(@, k + 1, Len(@))]
        <3>1. CASE WriteAll(p)
            <4>1. k = Len(todo[p]) /\ todo' = [todo EXCEPT ![p] = <<>>]
                BY <3>1 DEF WriteAll, k
            <4>2. SubSeq(todo[p], k + 1, Len(todo[p])) = <<>>
                BY <1>1, <4>1, SubSeqEmpty
            <4> QED
                BY <4>1, <4>2
        <3>2. CASE WriteWait(p)
            BY <3>2 DEF WriteWait, k
        <3> QED
            BY <1>5, <3>1, <3>2
    <2>2. ret' = IF k = Len(todo[p]) THEN [ret EXCEPT ![p] = Done] ELSE ret
        BY <1>1, <1>5 DEF WriteAll, WriteWait, k
    <2>3. Stream!SPut(p, k)
        BY <1>0, <1>1, <1>3, <1>4, <2>1, <2>2 DEF Stream!SPut, InRing, Done, Stream!Done
    <2> QED
        BY <1>2, <2>3 DEF Stream!SNext
<1>6. CASE WriteFail(p)
    <2>1. /\ k < Len(todo[p])
          /\ todo' = [todo EXCEPT ![p] = <<>>] /\ ret' = [ret EXCEPT ![p] = Error]
        BY <1>6 DEF WriteFail, k
    <2>2. Stream!SCut(p, k)
        BY <1>0, <1>1, <1>4, <2>1 DEF Stream!SCut, InRing, Error, Stream!Error
    <2> QED
        BY <1>2, <2>2 DEF Stream!SNext
<1> QED
    BY <1>5, <1>6 DEF Write

LEMMA ReadStep ==
    ASSUME PipeIInv, PipeIInv', BusyInv, NEW p \in Procs, Read(p)
    PROVE  Stream!SNext \/ UNCHANGED Stream!svars
<1>0. TypeOK /\ TypeOK' /\ todo' = todo /\ want[p] \in Nat /\ want[p] > 0
    <2>1. TypeOK /\ TypeOK' /\ todo' = todo /\ op[p] = "read"
        BY DEF PipeIInv, EndsInv, Read
    <2>2. want[p] \in Counts \cup {0} /\ want[p] # 0
        BY <2>1 DEF TypeOK, BusyInv, BusyOf
    <2>3. \A n \in Counts : n \in Nat /\ n > 0
        BY PipeAssumption
    <2>4. want[p] \in Counts
        BY <2>2
    <2> QED
        BY <2>1, <2>3, <2>4
<1>1. CASE ReadSome(p)
    <2>1. /\ [i \in 1 .. Most(p) |-> Byte(i)] = SubSeq(InRing, 1, Most(p))
          /\ InRing' = SubSeq(InRing, Most(p) + 1, Len(InRing))
          /\ Len(InRing) = Count
        BY <1>0, <1>1, Takes
    <2>2. /\ ret' = [ret EXCEPT ![p] = SubSeq(InRing, 1, Most(p))]
          /\ want' = [want EXCEPT ![p] = 0]
          /\ readopen' = readopen /\ writeopen' = writeopen
        BY <1>1, <2>1 DEF ReadSome, Most
    <2>3. Most(p) = 0 => ~writeopen
        <3>1. Most(p) = 0 => Empty
            BY <1>0, RingFacts DEF Most, Shorter
        <3> QED
            BY <1>1, <3>1 DEF ReadSome, ReadWaits
    <2>4. Most(p) = IF want[p] < Len(InRing) THEN want[p] ELSE Len(InRing)
        BY <2>1 DEF Most, Shorter
    <2>5. want[p] > 0
        BY <1>0
    <2>6. /\ InRing' = SubSeq(InRing, Most(p) + 1, Len(InRing))
          /\ Most(p) = 0 => ~writeopen
        BY <2>1, <2>3
    <2>7. Stream!SGet(p)
        <3> DEFINE m == Most(p)
        <3>1. /\ m = IF want[p] < Len(InRing) THEN want[p] ELSE Len(InRing)
              /\ InRing' = SubSeq(InRing, m + 1, Len(InRing))
              /\ m = 0 => ~writeopen
              /\ ret' = [ret EXCEPT ![p] = SubSeq(InRing, 1, m)]
            BY <2>2, <2>4, <2>6
        <3> HIDE DEF m
        <3> QED
            BY <1>0, <2>2, <2>5, <3>1 DEF Stream!SGet, InRing
    <2> QED
        BY <2>7 DEF Stream!SNext
<1>2. CASE ReadFail(p)
    <2>1. /\ InRing' = InRing /\ readopen' = readopen /\ writeopen' = writeopen /\ writeopen
          /\ ret' = [ret EXCEPT ![p] = Error] /\ want' = [want EXCEPT ![p] = 0]
        BY <1>2, RingStays DEF ReadFail, ReadWaits, pipeVars
    <2>2. InRing = <<>>
        <3>1. Count = 0
            BY <1>0, <1>2, RingFacts DEF ReadFail, ReadWaits
        <3> QED
            BY <3>1 DEF InRing
    <2>3. Stream!SGiveUp(p)
        BY <1>0, <2>1, <2>2 DEF Stream!SGiveUp, InRing, Error, Stream!Error
    <2> QED
        BY <2>3 DEF Stream!SNext
<1>3. CASE ReadWait(p)
    <2>1. /\ InRing' = InRing /\ readopen' = readopen /\ writeopen' = writeopen
          /\ ret' = ret /\ want' = want
        BY <1>3, RingStays DEF ReadWait, pipeVars
    <2> QED
        BY <1>0, <2>1 DEF Stream!svars, InRing
<1> QED
    BY <1>1, <1>2, <1>3 DEF Read

\* Every step of the pipe is a step of the stream, or leaves it as it is.
THEOREM StreamStep ==
    ASSUME PipeIInv, PipeIInv', BusyInv, [Next]_vars
    PROVE  [Stream!SNext]_Stream!svars
<1>1. ASSUME NEW p \in Procs, NEW b \in Bufs, StartWrite(p, b)
      PROVE  Stream!SNext
    <2>1. /\ InRing' = InRing
          /\ UNCHANGED <<want, readopen, writeopen>>
          /\ todo' = [todo EXCEPT ![p] = b] /\ ret' = [ret EXCEPT ![p] = <<>>]
        BY <1>1, RingStays DEF StartWrite, pipeVars
    <2>2. Stream!SWrite(p, b)
        BY <2>1 DEF Stream!SWrite, InRing
    <2> QED
        BY <2>2 DEF Stream!SNext
<1>2. ASSUME NEW p \in Procs, NEW n \in Counts, StartRead(p, n)
      PROVE  Stream!SNext
    <2>1. /\ InRing' = InRing
          /\ UNCHANGED <<todo, readopen, writeopen>>
          /\ want' = [want EXCEPT ![p] = n] /\ ret' = [ret EXCEPT ![p] = <<>>]
        BY <1>2, RingStays DEF StartRead, pipeVars
    <2>2. Stream!SRead(p, n)
        BY <2>1 DEF Stream!SRead, InRing
    <2> QED
        BY <2>2 DEF Stream!SNext
<1>3. ASSUME NEW p \in Procs, Write(p)
      PROVE  Stream!SNext
    BY <1>3, WriteStep
<1>4. ASSUME NEW p \in Procs, Read(p)
      PROVE  Stream!SNext \/ UNCHANGED Stream!svars
    BY <1>4, ReadStep
<1>5. ASSUME NEW p \in Procs,
             \/ SleepSwap(p) \/ SleepCommit(p) \/ Kill(p) \/ CloseRead(p) \/ CloseWrite(p)
             \/ KFree(p)
      PROVE  UNCHANGED Stream!svars
    <2>1. UNCHANGED <<data, nread, nwrite, readopen, writeopen, todo, want, ret>>
        BY <1>5 DEF SleepSwap, SleepCommit, Kill, CloseRead, CloseWrite, KFree, pipeVars
    <2>2. InRing' = InRing
        BY <2>1, RingStays
    <2> QED
        BY <2>1, <2>2 DEF Stream!svars, InRing
<1>6. ASSUME NEW p \in Procs, PipeCloseRead(p)
      PROVE  Stream!SNext
    <2>1. /\ UNCHANGED <<data, nread, nwrite, writeopen, todo, want, ret>>
          /\ readopen' = FALSE
        BY <1>6 DEF PipeCloseRead
    <2>2. InRing' = InRing
        BY <2>1, RingStays
    <2>3. Stream!SCloseRead
        BY <2>1, <2>2 DEF Stream!SCloseRead, InRing
    <2> QED
        BY <2>3 DEF Stream!SNext
<1>7. ASSUME NEW p \in Procs, PipeCloseWrite(p)
      PROVE  Stream!SNext
    <2>1. /\ UNCHANGED <<data, nread, nwrite, readopen, todo, want, ret>>
          /\ writeopen' = FALSE /\ pc[p] = "closewrite"
        BY <1>7 DEF PipeCloseWrite
    <2>2. InRing' = InRing
        BY <2>1, RingStays
    <2>3. \A q \in Procs : todo[q] = <<>>
        <3>1. Closing("closewrite") # {}
            BY <2>1 DEF Closing
        <3>2. wr = {}
            BY <3>1 DEF PipeIInv, EndsInv
        <3>3. \A q \in Procs : op[q] # "write"
            BY <3>2 DEF PipeIInv, EndsInv
        <3> QED
            BY <3>3 DEF BusyInv, BusyOf
    <2>4. Stream!SCloseWrite
        BY <2>1, <2>2, <2>3 DEF Stream!SCloseWrite, InRing
    <2> QED
        BY <2>4 DEF Stream!SNext
<1>8. CASE UNCHANGED vars
    <2>1. UNCHANGED <<data, nread, nwrite, readopen, writeopen, todo, want, ret>>
        BY <1>8 DEF vars, pipeVars
    <2>2. InRing' = InRing
        BY <2>1, RingStays
    <2> QED
        BY <2>1, <2>2 DEF Stream!svars, InRing
<1> QED
    BY <1>1, <1>2, <1>3, <1>4, <1>5, <1>6, <1>7, <1>8, StepCases

\* Readers get the bytes of the writers in order, each once, and the end of the file
\* when all of them are gone, whoever is killed and whatever the counters do.
THEOREM PipeImplementsStream == Spec => StreamSpec
<1>1. Init => PipeIInv /\ BusyInv
    BY InitEstablishes DEF Init, BusyInv, BusyOf
<1>2. PipeIInv /\ BusyInv /\ [Next]_vars => PipeIInv' /\ BusyInv'
    BY TypePreserved, EndsPreserved, SleepPreserved, BusyPreserved DEF PipeIInv
<1>3. PipeIInv /\ PipeIInv' /\ BusyInv /\ [Next]_vars => [Stream!SNext]_Stream!svars
    BY StreamStep
<1> QED
    BY <1>1, <1>2, <1>3, StreamInit, PTL DEF Spec, StreamSpec, Stream!SSpec
=============================================================================
