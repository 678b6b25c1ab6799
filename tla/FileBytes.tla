----------------------------- MODULE FileBytes ------------------------------
(***************************************************************************)
(* What read() and write() promise of a file: it is a sequence of bytes, an*)
(* open file is a position in it, and a chunk of a write() appears at the  *)
(* position, all at once, and moves it; nothing else changes the bytes.    *)
(***************************************************************************)
EXTENDS Integers, Sequences

CONSTANTS Writers, Opens, Disk, Most      \* Most: bytes in a file, at most

VARIABLES content, opened, pos, result

bvars == <<content, opened, pos, result>>

BInit ==
    /\ content = [i \in Disk |-> <<>>]
    /\ opened  = [f \in Opens |-> {}]
    /\ pos     = [f \in Opens |-> 0]
    /\ result  = [p \in Writers |-> <<>>]

BOpen(f, i) ==
    /\ opened[f] = {}
    /\ opened' = [opened EXCEPT ![f] = {i}]
    /\ pos'    = [pos EXCEPT ![f] = 0]
    /\ UNCHANGED <<content, result>>

BClose(f) ==
    /\ opened' = [opened EXCEPT ![f] = {}]
    /\ pos'    = [pos EXCEPT ![f] = 0]
    /\ UNCHANGED <<content, result>>

\* p's bytes over s, from position a on.
Patch(s, a, n, p) ==
    [k \in 1 .. (IF a + n > Len(s) THEN a + n ELSE Len(s)) |->
        IF k > a /\ k <= a + n THEN p ELSE s[k]]

BWrite(p, f, n) ==
    \E i \in opened[f] :
        /\ pos'     = [pos EXCEPT ![f] = @ + n]
        /\ content' = [content EXCEPT ![i] = Patch(@, pos[f], n, p)]
        /\ UNCHANGED <<opened, result>>

BRead(p, f, n) ==
    \E i \in opened[f] :
        /\ pos'    = [pos EXCEPT ![f] = @ + n]
        /\ pos[f] + n <= Len(content[i])
        /\ result' = [result EXCEPT ![p] = SubSeq(content[i], pos[f] + 1, pos[f] + n)]
        /\ UNCHANGED <<content, opened>>

BReturn(p) ==
    /\ result' = [result EXCEPT ![p] = <<>>]
    /\ UNCHANGED <<content, opened, pos>>

BDiscard(i) ==
    /\ \A f \in Opens : i \notin opened[f]
    /\ content' = [content EXCEPT ![i] = <<>>]
    /\ UNCHANGED <<opened, pos, result>>

BNext ==
    \/ \E f \in Opens : BClose(f) \/ \E i \in Disk : BOpen(f, i)
    \/ \E p \in Writers, f \in Opens, n \in 0 .. Most : BWrite(p, f, n) \/ BRead(p, f, n)
    \/ \E p \in Writers : BReturn(p)
    \/ \E i \in Disk : BDiscard(i)

BSpec == BInit /\ [][BNext]_bvars
=============================================================================
