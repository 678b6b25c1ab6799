------------------------------- MODULE MCProc -------------------------------
(***************************************************************************)
(* Bounds for TLC: the process table.                                      *)
(***************************************************************************)
EXTENDS ProcProps, TLC

\* Identical processors (used for invariants and action properties only).
CpuSymmetry == Permutations(CPUs)
=============================================================================
