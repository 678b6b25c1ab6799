\* A ring of two bytes; a log that calls can fill; two buffers.
SPECIFICATION WaitingSpec
CONSTANTS
    p1 = p1
    p2 = p2
    p3 = p3
    n1 = n1
    n2 = n2
    n3 = n3
    n4 = n4
    n5 = n5
    none = none
    Procs = {p1, p2, p3}
    Blocks = {n1, n2, n3, n4, n5}
    Vals = {0}
    Zero = 0
    MAXOPBLOCKS = 3
    LOGSIZE = 6
    NLOG = 6
    OpBlocks = 1
INVARIANT
    NoPanic
PROPERTIES
    ReadReturns
    WriteReleased
    NoWedge
    CallsReturn
CHECK_DEADLOCK FALSE
