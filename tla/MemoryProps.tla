---------------------------- MODULE MemoryProps -----------------------------
(***************************************************************************)
(* What the memory of the machine and of the processes promises.           *)
(***************************************************************************)
EXTENDS Memory

SpaceType == [dir : Frame \cup {0}, tabs : [Table -> Frame \cup {0}],
              pages : [Page -> Frame \cup {0}]]

\* The calls, by what each can be doing.
Doing == {<<"none", "none">>} \cup {<<"dealloc", "sbrk">>}
         \cup {"alloc", "undo"} \X {"sbrk", "exec", "stack"}
         \cup {"setup"} \X {"fork", "exec"} \cup {"copy", "unfork"} \X {"fork"}
         \cup {"load", "args"} \X {"exec"} \cup {"free"} \X {"fork", "exec", "stack", "reap"}

Steps == {"none", "alloc", "undo", "dealloc", "setup", "copy", "unfork", "load", "args", "free"}
Calls == {"none", "sbrk", "fork", "exec", "stack", "reap"}

MopType == [do : Steps, by : Calls, child : MProcs \cup {NoProc}, lo : 0 .. KERNBASE - 1,
            hi : 0 .. KERNBASE - 1, at : 0 .. KERNBASE, mem : Frame \cup {0}]

MTypeOK ==
    /\ free \subseteq Frame
    /\ kstack \in [MProcs -> Frame \cup {0}]
    /\ cur \in [MProcs -> SpaceType] /\ new \in [MProcs -> SpaceType]
    /\ sz \in [MProcs -> 0 .. KERNBASE - 1]
    /\ zombie \subseteq MProcs /\ gone \subseteq MProcs
    /\ mop \in [MProcs -> MopType]
    /\ \A p \in MProcs : <<mop[p].do, mop[p].by>> \in Doing

\* Everything that can hold a frame.
Part   == {<<"dir", 0>>} \cup {"tab"} \X Table \cup {"page"} \X Page
Places == (MProcs \X {"kstack", "mem"} \X {<<"frame", 0>>}) \cup (MProcs \X {"cur", "new"} \X Part)

PartOf(s, k) ==
    CASE k[1] = "dir"  -> s.dir
      [] k[1] = "tab"  -> s.tabs[k[2]]
      [] k[1] = "page" -> s.pages[k[2]]
HeldAt(x) ==
    CASE x[2] = "kstack" -> kstack[x[1]]
      [] x[2] = "mem"    -> mop[x[1]].mem
      [] x[2] = "cur"    -> PartOf(cur[x[1]], x[3])
      [] x[2] = "new"    -> PartOf(new[x[1]], x[3])
Holding == {x \in Places : HeldAt(x) # 0}

\* Every frame is on the free list or has one place that will free it, whatever
\* runs out in the middle of fork(), exec() and sbrk(): none is lost, none is given
\* to two, none is freed while it is mapped.
FramesOwned ==
    /\ {HeldAt(x) : x \in Holding} = Frame \ free
    /\ Cardinality(Holding) = Cardinality(Frame \ free)

\* Where a call is, it has built, or freed, what the next one counts on: no space
\* of its own outside of fork(), exec() and wait(), no page behind a table that is
\* missing, a child with a kernel stack and no memory, a frame only until it is mapped.
Growing(p)  == mop[p].by = "sbrk"
Building(p) ==
    \/ mop[p].do \in {"copy", "load", "args"}
    \/ mop[p].do \in {"alloc", "undo"} /\ ~Growing(p)
Backed(s)   == \A n \in Page : s.tabs[PDX(n)] = 0 => s.pages[n] = 0

SpacesRight ==
    \A p \in MProcs :
       /\ Backed(cur[p]) /\ Backed(new[p])
       /\ cur[p].dir = 0 => cur[p] = NoSpace
       /\ p \in zombie => cur[p].dir # 0 /\ mop[p].do = "none"
       /\ mop[p].do # "none" => cur[p].dir # 0
       /\ mop[p].do \in {"none", "unfork"} \/ Growing(p) => new[p] = NoSpace
       /\ mop[p].do = "setup" => new[p] = [NoSpace EXCEPT !.dir = new[p].dir]
       /\ Building(p) => new[p].dir # 0

CallsRight ==
    \A p \in MProcs :
       /\ mop[p].do = "none" => mop[p] = NoOp
       /\ mop[p].mem # 0 => mop[p].do \in {"alloc", "copy", "undo"}
       /\ mop[p].by = "fork" =>
             /\ mop[p].child # NoProc
             /\ kstack[mop[p].child] # 0 /\ cur[mop[p].child].dir = 0
             /\ \A q \in MProcs : mop[q].child = mop[p].child => q = p
       /\ mop[p].by # "fork" => mop[p].child = NoProc

\* The loops over the pages of a space go from page to page, and have mapped, or
\* freed, those behind them.
Under(a)    == {n \in Page : n * PGSIZE < a}
Has(s)      == {n \in Page : s.pages[n] # 0}
Aligned(a)  == a % PGSIZE = 0

LoopsRight ==
    \A p \in MProcs :
       LET m == mop[p] IN
       /\ m.do \in {"alloc", "undo", "dealloc"} => m.lo < m.hi /\ m.lo <= m.at /\ Aligned(m.at)
       /\ m.do = "alloc" => m.at < m.hi + PGSIZE /\ (m.mem # 0 => m.at < m.hi)
       /\ m.do = "copy"  => m.at < sz[p] + PGSIZE /\ Aligned(m.at) /\ (m.mem # 0 => m.at < sz[p])
       /\ m.do = "setup" => m.at = 0 /\ m.lo = 0
       /\ m.by = "sbrk"  => sz[p] = IF m.do = "dealloc" THEN m.hi ELSE m.lo

\* Of a space that grows or is copied, the pages below "at"; of one that shrinks,
\* those below its new size and those that are not freed yet.
PagesRight ==
    \A p \in MProcs :
       LET m == mop[p] IN
       /\ (m.do = "alloc" /\ ~Growing(p)) \/ m.do = "copy" => Has(new[p]) = Under(m.at)
       /\ m.do \in {"load", "args"} => Has(new[p]) = Under(m.lo)
       /\ m.do = "alloc" /\ Growing(p) =>
             Has(cur[p]) \subseteq Under(m.at) /\ (p \notin gone => Has(cur[p]) = Under(m.at))
       /\ m.do \in {"dealloc", "undo"} /\ Growing(p) =>
             /\ Has(cur[p]) \subseteq Under(m.lo) \cup (Under(m.hi) \ Under(m.at))
             /\ p \notin gone => Under(m.lo) \subseteq Has(cur[p])

\* A process that is not in sbrk() has the pages below its size and no other, unless
\* growproc() has shrunk it to nothing: then it has lost those it had, and its size
\* says otherwise (proc.c:169).
SizesRight ==
    \A p \in MProcs :
       cur[p].dir # 0 /\ ~Growing(p) =>
          Has(cur[p]) \subseteq Under(sz[p]) /\ (p \notin gone => Has(cur[p]) = Under(sz[p]))

FramesIInv ==
    MTypeOK /\ FramesOwned /\ SpacesRight /\ CallsRight /\ LoopsRight /\ PagesRight /\ SizesRight
=============================================================================
