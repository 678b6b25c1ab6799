------------------------------- MODULE MCLog -------------------------------
(***************************************************************************)
(* Bounds for TLC: the log.                                                *)
(***************************************************************************)
EXTENDS LogProps, TLC

\* Processes and blocks are interchangeable (no liveness is checked with it).
LogSymmetry == Permutations(Procs) \cup Permutations(Blocks)
=============================================================================
