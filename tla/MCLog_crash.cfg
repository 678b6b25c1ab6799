\* Three processes, a log with room for the reservations of two, calls that
\* write up to two blocks, and crashes anywhere.
SPECIFICATION Spec
CONSTANTS
    Procs       = {p1, p2, p3}
    Blocks      = {b1, b2, b3, b4}
    Vals        = {0, 1}
    Zero        = 0
    MAXOPBLOCKS = 4
    LOGSIZE     = 8
    NLOG        = 8
    OpBlocks    = 2
SYMMETRY LogSymmetry
INVARIANTS
    LogIInv
    IdleMeansDurable
PROPERTY
    DiskSpec
