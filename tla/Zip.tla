--------------------------------- MODULE Zip --------------------------------
(***************************************************************************)
(* wzip and wunzip: each run of a letter becomes a digit and the letter,   *)
(* and back.  The lines of the file are put together on the way.  A run    *)
(* that has no digit, an empty line and an odd length are panics: steps    *)
(* that are missing.                                                       *)
(***************************************************************************)
EXTENDS Naturals, Sequences, SequencesExt

CONSTANTS
    RADIX,                \* 10: counts are single digits
    Symbols, Documents    \* documents are sequences of lines

Blank == " "

ASSUME ZipAssumption ==
    /\ RADIX \in Nat \ {0, 1} /\ Blank \in Symbols
    /\ Documents \subseteq Seq(Seq(Symbols))

VARIABLES document, zipped, unzipped, step

zvars == <<document, zipped, unzipped, step>>

ZInit ==
    /\ document \in Documents
    /\ zipped = <<>> /\ unzipped = <<>> /\ step = "zip"

-----------------------------------------------------------------------------
\* The loop over the letters: the pairs pushed, and the run it is in.  A space counts
\* as one more of the letter before it.
AlwaysNew(c, curr) == TRUE                  \* mutant: no runs
NewRun(c, curr)    == c # curr /\ c # Blank

Begun(c) == [out |-> <<>>, curr |-> c, num |-> 1]
Push(z)  == Append(z.out, <<z.num, z.curr>>)
Onward(z, c) ==
    IF NewRun(c, z.curr) THEN [out |-> Push(z), curr |-> c, num |-> 1]
    ELSE [out |-> z.out, curr |-> z.curr, num |-> z.num + 1]
Runs(l) ==
    LET z[k \in 1 .. Len(l)] == IF k = 1 THEN Begun(l[1]) ELSE Onward(z[k - 1], l[k])
    IN  Push(z[Len(l)])

HasDigit(pair) == pair[1] < RADIX

Compress ==
    /\ step = "zip"
    /\ \A k \in DOMAIN document :
          document[k] # <<>> /\ \A n \in DOMAIN Runs(document[k]) : HasDigit(Runs(document[k])[n])
    /\ zipped' = FlattenSeq([k \in DOMAIN document |-> Runs(document[k])])
    /\ step' = "unzip"
    /\ UNCHANGED <<document, unzipped>>

\* wunzip: what wzip has written is one line.
Repeat(pair) == [k \in 1 .. pair[1] |-> pair[2]]

Expand ==
    /\ step = "unzip"
    /\ unzipped' = FlattenSeq([k \in DOMAIN zipped |-> Repeat(zipped[k])])
    /\ step' = "done"
    /\ UNCHANGED <<document, zipped>>

ZNext == Compress \/ Expand
ZSpec == ZInit /\ [][ZNext]_zvars

-----------------------------------------------------------------------------
\* What comes back is what went in, without the ends of the lines, and with every
\* space in the middle of a line turned into the letter before it.
Unspaced(l) ==
    LET u[k \in DOMAIN l] == IF k > 1 /\ l[k] = Blank THEN u[k - 1] ELSE l[k]
    IN  u
RoundTrip ==
    step = "done" => unzipped = FlattenSeq([k \in DOMAIN document |-> Unspaced(document[k])])

\* No two runs of a line that follow one another are of the same letter.
Shortest ==
    Len(document) = 1 =>
        \A k \in 1 .. Len(zipped) - 1 : zipped[k][2] # zipped[k + 1][2]

ZipRight == RoundTrip /\ Shortest
=============================================================================
