--------------------------------- MODULE Grep -------------------------------
(***************************************************************************)
(* grep (grep.c): the loop that finds the lines in what read() returns,    *)
(* piece by piece, and the matcher of Kernighan and Pike.                  *)
(*                                                                         *)
(* A pattern and a text are sequences of letters; the letters ^ . * $ have *)
(* their meaning in patterns.  read() returns any part of what is left, as *)
(* pipes and the console do.                                               *)
(***************************************************************************)
EXTENDS Naturals, Sequences, SequencesExt

CONSTANTS
    BUF,                  \* size of buf; one place is for the zero
    Letters,              \* of texts
    Patterns, Inputs      \* the files are sequences of letters and NL

NL == "nl"

ASSUME GrepAssumption ==
    /\ BUF \in Nat \ {0, 1}
    /\ Letters \subseteq STRING \ {NL}
    /\ Patterns \subseteq Seq(STRING) /\ Inputs \subseteq Seq(Letters \cup {NL})

-----------------------------------------------------------------------------
\* matchhere() and matchstar(): here[i] are the places of the text from which the
\* pattern from place i on matches.
AnyLetter(c, t) == TRUE                     \* mutant: * takes every letter
Takes(c, t)     == c = "." \/ c = t

Starred(re, i) == i < Len(re) /\ re[i + 1] = "*"

Here(re, text) ==
    LET here[i \in 1 .. Len(re) + 1] ==
            IF i > Len(re) THEN 1 .. Len(text) + 1
            ELSE IF Starred(re, i)
            THEN {j \in 1 .. Len(text) + 1 : \E k \in j .. Len(text) + 1 :
                    (\A l \in j .. k - 1 : Takes(re[i], text[l])) /\ k \in here[i + 2]}
            ELSE IF re[i] = "$" /\ i = Len(re) THEN {Len(text) + 1}
            ELSE {j \in 1 .. Len(text) :
                    (re[i] = "." \/ re[i] = text[j]) /\ j + 1 \in here[i + 1]}
    IN  here

Starts(re) == re # <<>> /\ Head(re) = "^"
Match(re, text) ==
    IF Starts(re) THEN 1 \in Here(re, text)[2]
    ELSE \E j \in 1 .. Len(text) + 1 : j \in Here(re, text)[1]

-----------------------------------------------------------------------------
VARIABLES
    pattern, file,        \* what grep was called with
    done,                 \* letters of the file that were read
    kept,                 \* buf up to m: what is kept for the next read()
    out,                  \* lines written
    cut,                  \* some part of a line was thrown away (a history)
    ended

gvars == <<pattern, file, done, kept, out, cut, ended>>

GInit ==
    /\ pattern \in Patterns /\ file \in Inputs
    /\ done = 0 /\ kept = <<>> /\ out = <<>>
    /\ cut = FALSE /\ ended = FALSE

\* The complete lines of s, and what is behind the last of them.
Ends(s)  == {k \in DOMAIN s : s[k] = NL}
Line(s, k) == LET before == {l \in Ends(s) : l < k}
                  from   == IF before = {} THEN 1
                            ELSE 1 + CHOOSE l \in before : \A n \in before : n <= l
              IN  SubSeq(s, from, k - 1)
Rest(s)      == Line(Append(s, NL), Len(s) + 1)
Picked(s, K) == FlattenSeq([k \in DOMAIN s |-> IF k \in K THEN <<Line(s, k)>> ELSE <<>>])
Matching(re, s) == Picked(s, {k \in Ends(s) : Match(re, Line(s, k))})

\* One turn of the loop; what has no newline in it at all is thrown away.
KeptNever(b) == <<>>                        \* mutant: the last, incomplete line is not kept
Kept(b) == IF Ends(b) = {} THEN <<>> ELSE Rest(b)

Turn ==
    /\ ~ended /\ done < Len(file) /\ Len(kept) < BUF - 1
    /\ \E n \in 1 .. Len(file) - done :
          /\ Len(kept) + n <= BUF - 1
          /\ LET b == kept \o SubSeq(file, done + 1, done + n) IN
                /\ out'  = out \o Matching(pattern, b)
                /\ kept' = Kept(b)
                /\ cut'  = (cut \/ Ends(b) = {})
          /\ done' = done + n
    /\ UNCHANGED <<pattern, file, ended>>

\* read() returns 0: at the end, or when there is no room left in buf.
End ==
    /\ ~ended /\ (done = Len(file) \/ Len(kept) = BUF - 1)
    /\ ended' = TRUE
    /\ UNCHANGED <<pattern, file, done, kept, out, cut>>

GNext == Turn \/ End
GSpec == GInit /\ [][GNext]_gvars

-----------------------------------------------------------------------------
\* What a pattern means, said as the set of the texts it describes: means[i] are those
\* of n letters at most that its part from place i on does, without the ^ and the $ at
\* its ends.
Anchored(re) == re # <<>> /\ re[Len(re)] = "$"
Core(re)     == IF Anchored(re) THEN SubSeq(re, 1, Len(re) - 1) ELSE re
Stands(c)     == IF c = "." THEN Letters ELSE {c}
Repeats(c, n) == UNION {[1 .. k -> Stands(c)] : k \in 0 .. n}
Led(re, i, n, U) ==
    {t \in IF Starred(re, i) THEN {s \o u : s \in Repeats(re[i], n), u \in U}
           ELSE {<<c>> \o u : c \in Stands(re[i]), u \in U} : Len(t) <= n}
Means(re, n) ==
    LET means[i \in 1 .. Len(re) + 1] ==
            IF i > Len(re) THEN {<<>>}
            ELSE Led(re, i, n, IF Starred(re, i) THEN means[i + 2] ELSE means[i + 1])
    IN  means
Described(re, text) ==
    \E i, j \in 0 .. Len(text) :
        /\ i <= j
        /\ SubSeq(text, i + 1, j) \in Means(Core(re), Len(text))[IF Starts(re) THEN 2 ELSE 1]
        /\ Starts(re) => i = 0
        /\ Anchored(re) => j = Len(text)

\* grep writes the lines that its pattern describes, in order, however read() cuts the
\* file into pieces, as long as each piece has the end of a line in it.
GrepRight ==
    ended /\ ~cut => out = Picked(file, {k \in Ends(file) : Described(pattern, Line(file, k))})
=============================================================================
