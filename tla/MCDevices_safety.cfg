\* Disk: two processes, one pinned block, and one block more than there are buffers.
\* Console: a ring of two keys, indices modulo 4.
SPECIFICATION DevicesSpec
CONSTANTS
    u1 = u1
    u2 = u2
    none = none
    Procs     = {u1, u2}
    NoProc    = none
    Bufs      = {a, b, c}
    NoBuf     = none
    Blocks    = {n1, n2, n3, n4}
    NoBlock   = none
    Nests    <- NoNesting
    Vals      = {0, 1}
    Zero      = 0
    MaxHeld   = 1
    MaxPinned = 1
    Readers   = {u1, u2}
    NoReader  = none
    Plain     = {"x"}
    INPUTBUF  = 2
    UINT      = 4
    Wants     = {1, 2}
SYMMETRY DeviceSymmetry
INVARIANTS
    CacheIInv
    BufferLeft
    ConsoleIInv
PROPERTIES
    StoreSpec
    TermSpec
