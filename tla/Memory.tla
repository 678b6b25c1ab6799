------------------------------- MODULE Memory -------------------------------
(***************************************************************************)
(* Physical frames and address spaces: kalloc, kfree; allocuvm, deallocuvm,*)
(* copyuvm, freevm (vm.c); growproc() and what fork(), exec() and wait() do*)
(* with memory.                                                            *)
(*                                                                         *)
(* A step ends at a kalloc() or a kfree(): these are where processes meet, *)
(* and where memory runs out.  The free list is a set of which kalloc()    *)
(* takes the least frame.  The tables of the kernel half are one table.  A *)
(* call that fails without changing anything is no step, and a panic() is a*)
(* step that is missing.                                                   *)
(***************************************************************************)
EXTENDS Integers, FiniteSets, FiniteSetsExt

CONSTANTS
    MProcs, FirstProc, NoProc,
    NFRAMES, PGSIZE,
    NPTENTRIES,           \* pages a page table maps
    KERNBASE, ADDRESSES,  \* user addresses are below KERNBASE, all below ADDRESSES
    Segments, Amounts     \* ends of program segments, arguments of sbrk()

Frame  == 1 .. NFRAMES
Page   == 0 .. (KERNBASE \div PGSIZE) - 1
KTable == KERNBASE \div (PGSIZE * NPTENTRIES)
Table  == 0 .. KTable

ASSUME MemoryAssumption ==
    /\ IsFiniteSet(MProcs) /\ FirstProc \in MProcs /\ NoProc \notin MProcs
    /\ {NFRAMES, PGSIZE, NPTENTRIES, KERNBASE, ADDRESSES} \subseteq Nat \ {0}
    /\ KERNBASE % (PGSIZE * NPTENTRIES) = 0 /\ 2 * KERNBASE <= ADDRESSES
    /\ NFRAMES >= 5 /\ KERNBASE > PGSIZE
    /\ Segments \subseteq 1 .. ADDRESSES - 1
    /\ Amounts \subseteq Int /\ \A n \in Amounts : -(ADDRESSES \div 2) < n /\ n < ADDRESSES \div 2

VARIABLES
    free,                 \* kmem.freelist
    kstack, cur, sz,      \* of struct proc: kernel stack, pgdir, size
    zombie,               \* processes that have exited
    new,                  \* the space a process is building, or freeing
    gone,                 \* processes that growproc() has shrunk to nothing (a history)
    mop                   \* where it is in the call it makes

mvars == <<free, kstack, cur, sz, zombie, new, gone, mop>>

NoSpace == [dir |-> 0, tabs |-> [t \in Table |-> 0], pages |-> [n \in Page |-> 0]]

\* by: the call; child: of fork(); lo, hi: the sizes the space goes from and to;
\* at: where the loop over the pages is; mem: the frame not mapped yet.
NoOp == [do |-> "none", by |-> "none", child |-> NoProc, lo |-> 0, hi |-> 0, at |-> 0, mem |-> 0]

MInit ==
    /\ free   = Frame \ (1 .. 5)
    /\ kstack = [p \in MProcs |-> IF p = FirstProc THEN 1 ELSE 0]
    /\ cur    = [p \in MProcs |-> IF p # FirstProc THEN NoSpace
                   ELSE [dir |-> 2, tabs |-> [NoSpace.tabs EXCEPT ![KTable] = 3, ![0] = 4],
                         pages |-> [NoSpace.pages EXCEPT ![0] = 5]]]
    /\ sz     = [p \in MProcs |-> IF p = FirstProc THEN PGSIZE ELSE 0]
    /\ zombie = {}
    /\ new    = [p \in MProcs |-> NoSpace]
    /\ gone   = {}
    /\ mop    = [p \in MProcs |-> NoOp]

-----------------------------------------------------------------------------
RoundUp(a) == ((a + PGSIZE - 1) \div PGSIZE) * PGSIZE
RoundDown(a) == (a \div PGSIZE) * PGSIZE    \* mutant: of the first page to free
FirstAbove(a) == RoundUp(a)

PN(a)  == a \div PGSIZE
PDX(n) == n \div NPTENTRIES

Kalloc(f) == free # {} /\ f = Min(free) /\ free' = free \ {f}
Kfree(f)  == free' = free \cup ({f} \ {0})

\* The space a call works on: sbrk() changes the caller's own.
Space(p) == IF mop[p].by = "sbrk" THEN cur[p] ELSE new[p]
SetSpace(p, s) ==
    IF mop[p].by = "sbrk" THEN cur' = [cur EXCEPT ![p] = s] /\ UNCHANGED new
                          ELSE new' = [new EXCEPT ![p] = s] /\ UNCHANGED cur

Idle(p) == mop[p].do = "none" /\ cur[p].dir # 0 /\ p \notin zombie
In(p, what) == mop[p].do = what

MGoto(p, what)   == mop' = [mop EXCEPT ![p].do = what]
Finish(p)       == mop' = [mop EXCEPT ![p] = NoOp]
Loop(p, what, by, lo, hi, at) ==
    mop' = [mop EXCEPT ![p].do = what, ![p].by = by, ![p].lo = lo, ![p].hi = hi, ![p].at = at]

Allocuvm(p, by, lo, hi)   == Loop(p, "alloc", by, lo, hi, RoundUp(lo))
Deallocuvm(p, by, hi, lo) == Loop(p, "dealloc", by, lo, hi, FirstAbove(lo))

-----------------------------------------------------------------------------
\* allocuvm(): a frame for the next page ...
AllocPage(p) ==
    /\ In(p, "alloc") /\ mop[p].mem = 0 /\ mop[p].at < mop[p].hi
    /\ \E f \in free : Kalloc(f) /\ mop' = [mop EXCEPT ![p].mem = f]
    /\ UNCHANGED <<kstack, cur, sz, zombie, new, gone>>

Undo(p) == mop' = [mop EXCEPT ![p].do = "undo", ![p].at = FirstAbove(mop[p].lo)]

AllocFail(p) ==
    /\ In(p, "alloc") /\ mop[p].mem = 0 /\ mop[p].at < mop[p].hi
    /\ free = {}
    /\ Undo(p)
    /\ UNCHANGED <<free, kstack, cur, sz, zombie, new, gone>>

\* ... and mappages(), that of copyuvm() too, with a page table when there is none.
Mapping(p) == mop[p].do \in {"alloc", "copy"} /\ mop[p].mem # 0
NextPage(p) == mop' = [mop EXCEPT ![p].at = @ + PGSIZE, ![p].mem = 0]

MapPage(p) ==
    LET n == PN(mop[p].at)
        s == [Space(p) EXCEPT !.pages[n] = mop[p].mem]
    IN
    /\ Mapping(p)
    /\ \/ Space(p).tabs[PDX(n)] # 0 /\ SetSpace(p, s) /\ UNCHANGED free
       \/ /\ Space(p).tabs[PDX(n)] = 0
          /\ \E f \in free : Kalloc(f) /\ SetSpace(p, [s EXCEPT !.tabs[PDX(n)] = f])
    /\ NextPage(p)
    /\ UNCHANGED <<kstack, sz, zombie, gone>>

MapFail(p) ==
    /\ Mapping(p)
    /\ Space(p).tabs[PDX(PN(mop[p].at))] = 0 /\ free = {}
    /\ IF In(p, "alloc")
       THEN Undo(p) /\ UNCHANGED free
       ELSE Kfree(mop[p].mem) /\ mop' = [mop EXCEPT ![p].do = "free", ![p].mem = 0]
    /\ UNCHANGED <<kstack, cur, sz, zombie, new, gone>>

AllocDone(p) ==
    /\ In(p, "alloc") /\ mop[p].mem = 0 /\ mop[p].at >= mop[p].hi
    /\ CASE mop[p].by = "sbrk"  -> sz' = [sz EXCEPT ![p] = mop[p].hi] /\ Finish(p)
         [] mop[p].by = "exec"  -> Loop(p, "load", "exec", mop[p].hi, 0, 0) /\ UNCHANGED sz
         [] mop[p].by = "stack" -> Loop(p, "args", "exec", mop[p].hi, 0, 0) /\ UNCHANGED sz
    /\ UNCHANGED <<free, kstack, cur, zombie, new, gone>>

\* deallocuvm(), for sbrk() and for an allocuvm() that has failed.
DeallocPage(p) ==
    LET n == PN(mop[p].at) IN
    /\ mop[p].do \in {"dealloc", "undo"} /\ mop[p].at < mop[p].hi
    /\ IF Space(p).tabs[PDX(n)] = 0
       THEN /\ mop' = [mop EXCEPT ![p].at = (PDX(n) + 1) * NPTENTRIES * PGSIZE]
            /\ UNCHANGED <<free, cur, new>>
       ELSE /\ Kfree(Space(p).pages[n])
            /\ SetSpace(p, [Space(p) EXCEPT !.pages[n] = 0])
            /\ mop' = [mop EXCEPT ![p].at = @ + PGSIZE]
    /\ UNCHANGED <<kstack, sz, zombie, gone>>

UndoDone(p) ==
    /\ In(p, "undo") /\ mop[p].at >= mop[p].hi
    /\ Kfree(mop[p].mem)
    /\ IF mop[p].by = "sbrk" THEN Finish(p)
       ELSE mop' = [mop EXCEPT ![p].do = "free", ![p].mem = 0]
    /\ UNCHANGED <<kstack, cur, sz, zombie, new, gone>>

-----------------------------------------------------------------------------
\* growproc(): sz + n is unsigned; a size of 0 stands for a failure, also when it
\* is the size that deallocuvm() was asked for.
Sbrk(p, n) ==
    LET to == (sz[p] + n) % ADDRESSES IN
    /\ Idle(p)
    /\ \/ n > 0 /\ to < KERNBASE /\ Allocuvm(p, "sbrk", sz[p], to)
       \/ n < 0 /\ to < sz[p] /\ Deallocuvm(p, "sbrk", sz[p], to)
    /\ UNCHANGED <<free, kstack, cur, sz, zombie, new, gone>>

DeallocDone(p) ==
    /\ In(p, "dealloc") /\ mop[p].at >= mop[p].hi
    /\ IF mop[p].lo = 0 THEN gone' = gone \cup {p} /\ UNCHANGED sz
                        ELSE sz' = [sz EXCEPT ![p] = mop[p].lo] /\ UNCHANGED gone
    /\ Finish(p)
    /\ UNCHANGED <<free, kstack, cur, zombie, new>>

\* fork(): the kernel stack of the child, then copyuvm().
ForkSpace(p, q) ==
    /\ Idle(p) /\ kstack[q] = 0 /\ cur[q].dir = 0
    /\ \E f \in free : Kalloc(f) /\ kstack' = [kstack EXCEPT ![q] = f]
    /\ mop' = [mop EXCEPT ![p].do = "setup", ![p].by = "fork", ![p].child = q]
    /\ UNCHANGED <<cur, sz, zombie, new, gone>>

\* exec(), once the file is open.
Exec(p) ==
    /\ Idle(p)
    /\ mop' = [mop EXCEPT ![p].do = "setup", ![p].by = "exec"]
    /\ UNCHANGED <<free, kstack, cur, sz, zombie, new, gone>>

\* setupkvm(), for both; fork() gives the stack back when it fails.
Abandon(p) == IF mop[p].by = "fork" THEN MGoto(p, "unfork") ELSE Finish(p)

SetupDir(p) ==
    /\ In(p, "setup") /\ new[p].dir = 0
    /\ \/ \E f \in free : Kalloc(f) /\ new' = [new EXCEPT ![p].dir = f] /\ UNCHANGED mop
       \/ free = {} /\ Abandon(p) /\ UNCHANGED <<free, new>>
    /\ UNCHANGED <<kstack, cur, sz, zombie, gone>>

SetupKernel(p) ==
    /\ In(p, "setup") /\ new[p].dir # 0
    /\ \/ /\ \E f \in free : Kalloc(f) /\ new' = [new EXCEPT ![p].tabs[KTable] = f]
          /\ IF mop[p].by = "fork" THEN MGoto(p, "copy") ELSE MGoto(p, "load")
       \/ free = {} /\ MGoto(p, "free") /\ UNCHANGED <<free, new>>
    /\ UNCHANGED <<kstack, cur, sz, zombie, gone>>

\* copyuvm(): it panics at a page that is missing in the parent.
Present(p, a) == cur[p].pages[PN(a)] # 0

CopyPage(p) ==
    /\ In(p, "copy") /\ mop[p].mem = 0 /\ mop[p].at < sz[p]
    /\ Present(p, mop[p].at)
    /\ \/ \E f \in free : Kalloc(f) /\ mop' = [mop EXCEPT ![p].mem = f]
       \/ free = {} /\ MGoto(p, "free") /\ UNCHANGED free
    /\ UNCHANGED <<kstack, cur, sz, zombie, new, gone>>

CopyDone(p) ==
    LET q == mop[p].child IN
    /\ In(p, "copy") /\ mop[p].mem = 0 /\ mop[p].at >= sz[p]
    /\ cur' = [cur EXCEPT ![q] = new[p]]
    /\ new' = [new EXCEPT ![p] = NoSpace]
    /\ sz'  = [sz EXCEPT ![q] = sz[p]]
    /\ Finish(p)
    /\ UNCHANGED <<free, kstack, zombie, gone>>

Unfork(p) ==
    /\ In(p, "unfork")
    /\ Kfree(kstack[mop[p].child])
    /\ kstack' = [kstack EXCEPT ![mop[p].child] = 0]
    /\ Finish(p)
    /\ UNCHANGED <<cur, sz, zombie, new, gone>>

\* exec(): the segments, each from where the one before ends; a segment that ends
\* before that changes nothing.  A file that is not as it should be is given up.
Load(p) ==
    /\ In(p, "load")
    /\ \/ \E e \in Segments : mop[p].lo < e /\ e < KERNBASE /\ Allocuvm(p, "exec", mop[p].lo, e)
       \/ MGoto(p, "free")
    /\ UNCHANGED <<free, kstack, cur, sz, zombie, new, gone>>

\* The two pages of the stack, and the arguments.
Stack(p) ==
    LET top == RoundUp(mop[p].lo) IN
    /\ In(p, "load")
    /\ IF top + 2 * PGSIZE < KERNBASE
       THEN Allocuvm(p, "stack", top, top + 2 * PGSIZE)
       ELSE MGoto(p, "free")
    /\ UNCHANGED <<free, kstack, cur, sz, zombie, new, gone>>

Commit(p) ==
    /\ In(p, "args")
    /\ cur' = [cur EXCEPT ![p] = new[p]]
    /\ new' = [new EXCEPT ![p] = cur[p]]
    /\ sz'  = [sz EXCEPT ![p] = mop[p].lo]
    /\ gone' = gone \ {p}
    /\ MGoto(p, "free")
    /\ UNCHANGED <<free, kstack, zombie>>

ArgsFail(p) ==
    /\ In(p, "args")
    /\ MGoto(p, "free")
    /\ UNCHANGED <<free, kstack, cur, sz, zombie, new, gone>>

\* freevm(): the pages, the tables, the directory.
FreePage(p) ==
    /\ In(p, "free")
    /\ \E n \in Page :
          /\ new[p].pages[n] # 0 /\ \A m \in Page : m < n => new[p].pages[m] = 0
          /\ Kfree(new[p].pages[n]) /\ new' = [new EXCEPT ![p].pages[n] = 0]
    /\ UNCHANGED <<kstack, cur, sz, zombie, mop, gone>>

FreeTable(p) ==
    /\ In(p, "free") /\ new[p].pages = NoSpace.pages
    /\ \E t \in Table :
          /\ new[p].tabs[t] # 0 /\ \A u \in Table : u < t => new[p].tabs[u] = 0
          /\ Kfree(new[p].tabs[t]) /\ new' = [new EXCEPT ![p].tabs[t] = 0]
    /\ UNCHANGED <<kstack, cur, sz, zombie, mop, gone>>

FreeDir(p) ==
    /\ In(p, "free") /\ new[p] = [NoSpace EXCEPT !.dir = new[p].dir]
    /\ Kfree(new[p].dir) /\ new' = [new EXCEPT ![p] = NoSpace]
    /\ Abandon(p)
    /\ UNCHANGED <<kstack, cur, sz, zombie, gone>>

\* exit(), and the wait() that finds the zombie.
ExitSpace(p) ==
    /\ Idle(p) /\ p # FirstProc
    /\ zombie' = zombie \cup {p}
    /\ UNCHANGED <<free, kstack, cur, sz, new, mop, gone>>

Reap(p, q) ==
    /\ Idle(p) /\ q \in zombie
    /\ Kfree(kstack[q]) /\ kstack' = [kstack EXCEPT ![q] = 0]
    /\ cur'    = [cur EXCEPT ![q] = NoSpace]
    /\ new'    = [new EXCEPT ![p] = cur[q]]
    /\ zombie' = zombie \ {q}
    /\ gone'   = gone \ {q}
    /\ mop'    = [mop EXCEPT ![p].do = "free", ![p].by = "reap"]
    /\ UNCHANGED sz

-----------------------------------------------------------------------------
Alloc(p)   == AllocPage(p) \/ AllocFail(p) \/ MapPage(p) \/ MapFail(p) \/ AllocDone(p)
Dealloc(p) == DeallocPage(p) \/ DeallocDone(p) \/ UndoDone(p)
Freevm(p)  == FreePage(p) \/ FreeTable(p) \/ FreeDir(p)

MNext ==
    \E p \in MProcs :
        \/ \E n \in Amounts : Sbrk(p, n)
        \/ \E q \in MProcs : ForkSpace(p, q) \/ Reap(p, q)
        \/ Exec(p) \/ ExitSpace(p)
        \/ Alloc(p) \/ Dealloc(p) \/ Freevm(p)
        \/ SetupDir(p) \/ SetupKernel(p) \/ CopyPage(p) \/ CopyDone(p) \/ Unfork(p)
        \/ Load(p) \/ Stack(p) \/ Commit(p) \/ ArgsFail(p)

MSpec == MInit /\ [][MNext]_mvars
=============================================================================
