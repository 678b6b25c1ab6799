------------------------------ MODULE Terminal ------------------------------
(***************************************************************************)
(* What the console promises its readers: a line is edited until it is     *)
(* entered, what is entered is read in order, each key once, and a read()  *)
(* does not go past the end of a line or of the input.                     *)
(***************************************************************************)
EXTENDS Naturals, Sequences, SequencesExt

CONSTANTS Readers, Plain, Room      \* Plain: ordinary keys; Room: keys kept, at most

VARIABLES line, entered, taken      \* taken: what the read() of a process has so far

tvars == <<line, entered, taken>>

TInit ==
    /\ line = <<>> /\ entered = <<>>
    /\ taken = [p \in Readers |-> <<>>]

Ends == {"newline", "eof"}

TKey(c) ==
    /\ Len(entered) + Len(line) < Room
    /\ LET l == Append(line, c) IN
          IF c \in Ends \/ Len(entered) + Len(l) = Room
          THEN entered' = entered \o l /\ line' = <<>>
          ELSE line' = l /\ UNCHANGED entered
    /\ UNCHANGED taken

TErase   == line # <<>> /\ line' = Front(line) /\ UNCHANGED <<entered, taken>>
TEraseLine == line' = <<>> /\ UNCHANGED <<entered, taken>>

TTake(p) ==
    /\ entered # <<>> /\ Head(entered) # "eof"
    /\ taken[p] = <<>> \/ Last(taken[p]) # "newline"
    /\ taken' = [taken EXCEPT ![p] = Append(@, Head(entered))]
    /\ entered' = Tail(entered)
    /\ UNCHANGED line

\* The end of the input is taken by a read() that returns nothing.
TEof(p) ==
    /\ entered # <<>> /\ Head(entered) = "eof" /\ taken[p] = <<>>
    /\ entered' = Tail(entered)
    /\ UNCHANGED <<line, taken>>

TReturn(p) == taken' = [taken EXCEPT ![p] = <<>>] /\ UNCHANGED <<line, entered>>

TNext ==
    \/ \E c \in Plain \cup Ends : TKey(c)
    \/ TErase \/ TEraseLine
    \/ \E p \in Readers : TTake(p) \/ TEof(p) \/ TReturn(p)

TSpec == TInit /\ [][TNext]_tvars
=============================================================================
