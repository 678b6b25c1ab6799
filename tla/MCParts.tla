------------------------------ MODULE MCParts -------------------------------
(***************************************************************************)
(* The parts of the system that run on their own, side by side: the first  *)
(* state chooses one, and the others stand still.                          *)
(***************************************************************************)
EXTENDS Locks, Clock, FileDataProps, FileTableProps, MemoryProps, Umalloc, Wish, Grep,
    Zip, TLC

CONSTANTS u1, u2, g1, g2, g3, c1, c2, none

Two == {u1, u2}
PartSymmetry == Permutations(Two) \cup Permutations({g1, g2}) \cup Permutations({c1, c2})

AllSeqs(S, n) == UNION {[1 .. k -> S] : k \in 0 .. n}

TypedLines == {<<<<"a">>, <<"c">>, <<"d">>>>, <<<<"exit">>, <<"d">>>>}

SomePatterns ==
    AllSeqs({"a", ".", "*"}, 2)
    \cup {<<"a", "*", "b", "$">>, <<"^", ".", "*", "b">>, <<"b", "a", "*", "a">>, 
          <<"^", "$">>, <<"a", "$">>, <<"^", "b">>, <<"*", "*", "a">>, <<"^", "*", "a">>,
          <<"$", "a">>}
SomeFiles == AllSeqs({"a", "b", "nl"}, 4) \ {<<>>}

SomeNaps == {0, 1, -2}

SomeAmounts == {3, -4}

SomeDocuments ==
    AllSeqs(AllSeqs({"a", "b", " "}, 2), 2) \cup AllSeqs(AllSeqs({"a", "b", " "}, 5), 1)

VARIABLE which

locksVars == <<owner, ncli, intena, intr, on, held, spin, nest, mode, saved, ready>>

\* A part that stands still has no state, or, where a refinement is checked, its first.
PartsInit ==
    /\ which \in {"locks", "files", "data", "memory", "clock",
                 "malloc", "wish", "grep", "zip"}
    /\ LInit
    /\ IF which = "files" THEN FTInit ELSE NoneOpen /\ live = {}
    /\ FDInit
    /\ MInit
    /\ KInit
    /\ UInit
    /\ WInit
    /\ IF which = "grep" THEN GInit
       ELSE pattern = <<>> /\ file = <<>> /\ done = 0 /\ kept = <<>> /\ out = <<>> /\
            cut = FALSE /\ ended = FALSE
    /\ IF which = "zip" THEN ZInit
       ELSE document = <<>> /\ zipped = <<>> /\ unzipped = <<>> /\ step = "zip"

PartsNext ==
    /\ UNCHANGED which
    /\ IF which = "locks" THEN LNext ELSE UNCHANGED locksVars
    /\ IF which = "files" THEN FTNext ELSE UNCHANGED ftvars
    /\ IF which = "data" THEN FDNext ELSE UNCHANGED fdvars
    /\ IF which = "memory" THEN MNext ELSE UNCHANGED mvars
    /\ IF which = "clock" THEN KNext ELSE UNCHANGED kvars
    /\ IF which = "malloc" THEN UNext ELSE UNCHANGED uvars
    /\ IF which = "wish" THEN WNext ELSE UNCHANGED wvars
    /\ IF which = "grep" THEN GNext ELSE UNCHANGED gvars
    /\ IF which = "zip" THEN ZNext ELSE UNCHANGED zvars

partsVars == <<which, locksVars, ftvars, fdvars, mvars,
    kvars, uvars, wvars, gvars, zvars>>
PartsSpec == PartsInit /\ [][PartsNext]_partsVars
=============================================================================
