----------------------------- MODULE MCNamespace -----------------------------
(***************************************************************************)
(* Bounds for TLC: inodes and names.                                       *)
(***************************************************************************)
EXTENDS NamespaceProps, TLC

CONSTANTS a, b

Rel(s) == [abs |-> FALSE, elems |-> s]
Abs(s) == [abs |-> TRUE, elems |-> s]
Req(c, q)     == [call |-> c, path |-> q, new |-> NoPath]
LinkReq(q, r) == [call |-> "link", path |-> q, new |-> r]

\* Calls that concern directories, and calls that concern links.
SomeSessions ==
    {{Req("mknod", Abs(<<a>>)), Req("mkdir", Rel(<<a>>)), Req("chdir", Abs(<<a>>)),
      Req("chdir", Rel(<<"..">>)), Req("unlink", Abs(<<a>>))},
     {Req("creat", Abs(<<a>>)), Req("unlink", Abs(<<a>>)),
      LinkReq(Abs(<<a>>), Rel(<<b>>)), Req("open", Abs(<<b>>)), Req("close", NoPath)}}

NameSymmetry == Permutations(Procs) \cup Permutations(Inodes \ {Root})
=============================================================================
