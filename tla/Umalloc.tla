------------------------------- MODULE Umalloc ------------------------------
(***************************************************************************)
(* malloc() and free() of the user library (umalloc.c): a circular list of *)
(* free blocks in address order, searched from where the last search ended.*)
(*                                                                         *)
(* Addresses and sizes are in Headers; the base is at 0 and the heap grows *)
(* upwards from 1.  A call is a step: the allocator has one caller.        *)
(***************************************************************************)
EXTENDS Integers, Sequences, FiniteSets, FiniteSetsExt

CONSTANTS
    HEAP,                 \* units that sbrk() has to give
    LEAST,                \* units morecore() asks for at least
    Requests              \* units asked of malloc(), the header included

ASSUME UmallocAssumption ==
    /\ HEAP \in Nat /\ LEAST \in Nat \ {0}
    /\ Requests \subseteq Nat \ {0, 1}

Address == 0 .. HEAP
NotFree == HEAP + 1       \* ptr of a header that is not on the list

VARIABLES
    ptr, usize,           \* the headers of free and used blocks
    freep,                \* NotFree before the first call
    used,                 \* blocks the program has
    brk                   \* end of the heap

uvars == <<ptr, usize, freep, used, brk>>

UInit ==
    /\ ptr   = [a \in Address |-> NotFree]
    /\ usize = [a \in Address |-> 0]
    /\ freep = NotFree /\ used = {} /\ brk = 1

-----------------------------------------------------------------------------
\* The free list as an operation sees it: the two fields and freep.
Heap == [ptr |-> ptr, size |-> usize, at |-> freep]
Nodes(h) == {a \in Address : h.ptr[a] # NotFree}

\* walk[k]: where a search is after k steps from freep.
Walk(h) ==
    LET walk[k \in 0 .. HEAP + 1] == IF k = 0 THEN h.at ELSE h.ptr[walk[k - 1]] IN walk
FirstStep(S) == Min(S)

\* free(): the node b is inserted after, which is the last one for a block below or
\* above all others; then the block is joined with its neighbours.
Between(h, p, b) ==
    \/ p < b /\ b < h.ptr[p]
    \/ p >= h.ptr[p] /\ (b > p \/ b < h.ptr[p])

Before(h, b)      == LET w == Walk(h) IN w[FirstStep({k \in DOMAIN w : Between(h, w[k], b)})]
NeverJoins(a, b) == FALSE                   \* mutant: a block is not joined
Touches(a, b)    == a = b

\* A header inside a block is no longer read.
Without(h, a) == [h EXCEPT !.ptr[a] = NotFree, !.size[a] = 0]

Insert(h, b) ==
    LET p == Before(h, b)
        n == h.ptr[p]
        up == IF Touches(b + h.size[b], n)
              THEN Without([h EXCEPT !.size[b] = @ + h.size[n], !.ptr[b] = h.ptr[n]], n)
              ELSE [h EXCEPT !.ptr[b] = n]
    IN  IF Touches(p + h.size[p], b)
        THEN Without([up EXCEPT !.size[p] = @ + up.size[b], !.ptr[p] = up.ptr[b], !.at = p], b)
        ELSE [up EXCEPT !.ptr[p] = b, !.at = p]

\* malloc(): the first block from freep on that is large enough, whole or its upper
\* part; freep is then the one before it.
Fits(h, n) ==
    LET w == Walk(h) IN {k \in 1 .. Cardinality(Nodes(h)) : h.size[w[k]] >= n}

Given(h, n) ==                              \* where the block is
    LET w == Walk(h)
        a == w[FirstStep(Fits(h, n))]
    IN  a + h.size[a] - n

Taken(h, n) ==                              \* what remains
    LET w == Walk(h)
        k == FirstStep(Fits(h, n))
        a == w[k]
    IN  IF h.size[a] = n
        THEN [h EXCEPT !.ptr[w[k - 1]] = h.ptr[a], !.ptr[a] = NotFree, !.at = w[k - 1]]
        ELSE [h EXCEPT !.size[a] = @ - n, !.size[a + h.size[a] - n] = n, !.at = w[k - 1]]

\* The first call makes the list; morecore() adds a block when none is large enough.
Based(h) == IF h.at # NotFree THEN h ELSE [h EXCEPT !.ptr[0] = 0, !.size[0] = 0, !.at = 0]
LargerOf(m, n) == IF m > n THEN m ELSE n
More(n)  == LargerOf(n, LEAST)
Morecore(h, n) == Insert([h EXCEPT !.size[brk] = More(n)], brk)

Becomes(h) == ptr' = h.ptr /\ usize' = h.size /\ freep' = h.at

Malloc(n) ==
    LET h == Based(Heap) IN
    \/ /\ Fits(h, n) # {}
       /\ Becomes(Taken(h, n))
       /\ used' = used \cup {Given(h, n)}
       /\ UNCHANGED brk
    \/ /\ Fits(h, n) = {} /\ brk + More(n) <= HEAP
       /\ Becomes(Taken(Morecore(h, n), n))
       /\ used' = used \cup {Given(Morecore(h, n), n)}
       /\ brk' = brk + More(n)
    \/ /\ Fits(h, n) = {} /\ brk + More(n) > HEAP
       /\ Becomes(h)
       /\ UNCHANGED <<used, brk>>

Free(b) ==
    /\ b \in used
    /\ Becomes(Insert(Heap, b))
    /\ used' = used \ {b}
    /\ UNCHANGED brk

UNext == (\E n \in Requests : Malloc(n)) \/ (\E b \in Address : Free(b))

USpec == UInit /\ [][UNext]_uvars

-----------------------------------------------------------------------------
Held(a) == a .. a + usize[a] - 1
FreeNodes == Nodes(Heap) \ {0}

\* The list has one lap, through every free block in the order of the addresses.
OneLap ==
    freep # NotFree =>
        /\ freep \in Nodes(Heap) /\ 0 \in Nodes(Heap)
        /\ \A a \in Nodes(Heap) :
              ptr[a] = LET above == {b \in Nodes(Heap) : b > a} IN
                       IF above = {} THEN 0 ELSE Min(above)

\* The blocks on the list and those of the program are the heap, each unit once.
Tiles ==
    /\ UNION {Held(a) : a \in FreeNodes \cup used} = 1 .. brk - 1
    /\ \A a, b \in FreeNodes \cup used : a # b => Held(a) \cap Held(b) = {}
    /\ FreeNodes \cap used = {}

\* What free() can join is joined.
Joined == \A a, b \in FreeNodes : a + usize[a] # b

UmallocIInv == OneLap /\ Tiles /\ Joined
=============================================================================
