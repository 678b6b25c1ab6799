------------------------------- MODULE MCWish -------------------------------
(***************************************************************************)
(* Bounds for TLC: a line of one command, and one that ends in '&'.        *)
(***************************************************************************)
EXTENDS Wish

TypedLines == {<<<<"a", "b">>>>, <<<<"c">>, <<>>>>}
=============================================================================
