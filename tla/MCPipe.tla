------------------------------- MODULE MCPipe -------------------------------
(***************************************************************************)
(* Bounds for TLC: a ring of two bytes, counters modulo four, and writes   *)
(* that fit, that fill the ring and that have to sleep half way.           *)
(***************************************************************************)
EXTENDS PipeProps

CONSTANTS a, b, c
MCBufs  == {<<a, b, c>>, <<b>>}
=============================================================================
