----------------------------- MODULE ByteStream -----------------------------
(***************************************************************************)
(* What a pipe promises its users: a bounded first-in first-out stream of  *)
(* bytes between any number of writers and readers.  Nothing is lost,      *)
(* duplicated, reordered or made up; a read returns bytes when there are   *)
(* some, and end of file only when the stream is empty and every write     *)
(* end is closed.                                                          *)
(***************************************************************************)
EXTENDS Integers, Sequences

CONSTANTS Procs, Size, Bufs, Counts

VARIABLES
    q,      \* the bytes in flight
    todo,   \* process -> what is left of the buffer its write() was given
    want,   \* process -> how many bytes its read() asks for, 0 if none
    ret,    \* process -> what its last call returned
    ropen, wopen

svars == <<q, todo, want, ret, ropen, wopen>>

Error == <<"error">>
Done  == <<"done">>

SInit ==
    /\ q = <<>>
    /\ todo  = [p \in Procs |-> <<>>]
    /\ want  = [p \in Procs |-> 0]
    /\ ret   = [p \in Procs |-> <<>>]
    /\ ropen = TRUE /\ wopen = TRUE

\* A write() starts.
SWrite(p, b) ==
    /\ todo' = [todo EXCEPT ![p] = b]
    /\ ret'  = [ret EXCEPT ![p] = <<>>]
    /\ UNCHANGED <<q, want, ropen, wopen>>

\* A read() starts.
SRead(p, n) ==
    /\ want' = [want EXCEPT ![p] = n]
    /\ ret'  = [ret EXCEPT ![p] = <<>>]
    /\ UNCHANGED <<q, todo, ropen, wopen>>

\* The next k bytes of a writer enter the stream; with the last one its write()
\* is done.
SPut(p, k) ==
    /\ k <= Len(todo[p]) /\ Len(q) + k <= Size
    /\ wopen
    /\ q'    = q \o SubSeq(todo[p], 1, k)
    /\ todo' = [todo EXCEPT ![p] = SubSeq(@, k + 1, Len(@))]
    /\ ret'  = IF k = Len(todo[p]) THEN [ret EXCEPT ![p] = Done] ELSE ret
    /\ UNCHANGED <<want, ropen, wopen>>

\* A write() is cut short: k more bytes went in, the rest never will.
SCut(p, k) ==
    /\ k < Len(todo[p]) /\ Len(q) + k = Size
    /\ q'    = q \o SubSeq(todo[p], 1, k)
    /\ todo' = [todo EXCEPT ![p] = <<>>]
    /\ ret'  = [ret EXCEPT ![p] = Error]
    /\ UNCHANGED <<want, ropen, wopen>>

\* A read() takes all it may of what there is, or finds the end of the stream.
SGet(p) ==
    /\ want[p] > 0
    /\ LET m == IF want[p] < Len(q) THEN want[p] ELSE Len(q) IN
          /\ m = 0 => ~wopen
          /\ ret' = [ret EXCEPT ![p] = SubSeq(q, 1, m)]
          /\ q'   = SubSeq(q, m + 1, Len(q))
    /\ want' = [want EXCEPT ![p] = 0]
    /\ UNCHANGED <<todo, ropen, wopen>>

\* A killed reader gives up, but never when there is something to read.
SGiveUp(p) ==
    /\ want[p] > 0
    /\ q = <<>> /\ wopen
    /\ want' = [want EXCEPT ![p] = 0]
    /\ ret'  = [ret EXCEPT ![p] = Error]
    /\ UNCHANGED <<q, todo, ropen, wopen>>

\* The last holder of an end closes it: for good.
SCloseRead  == ropen' = FALSE /\ UNCHANGED <<q, todo, want, ret, wopen>>
SCloseWrite ==
    /\ \A p \in Procs : todo[p] = <<>>
    /\ wopen' = FALSE
    /\ UNCHANGED <<q, todo, want, ret, ropen>>

SNext ==
    \/ \E p \in Procs :
          \/ \E b \in Bufs : SWrite(p, b)
          \/ \E n \in Counts : SRead(p, n)
          \/ \E k \in 0 .. Size : SPut(p, k) \/ SCut(p, k)
          \/ SGet(p) \/ SGiveUp(p)
    \/ SCloseRead \/ SCloseWrite

SSpec == SInit /\ [][SNext]_svars
=============================================================================
