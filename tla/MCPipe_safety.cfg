\* Two readers, two writers (one process holds both ends), kills.
SPECIFICATION Spec
CONSTANTS
    Procs    = {p1, p2, p3}
    NoProc   = NoProc
    PIPESIZE = 2
    W        = 4
    Readers  = {p1, p2}
    Writers  = {p2, p3}
    Bufs    <- MCBufs
    Counts   = {1, 2}
    Killable = {p1, p3}
    a = a
    b = b
    c = c
INVARIANTS
    PipeIInv
    NoLostWakeup
    FreedOnce
PROPERTIES
    StreamSpec
CHECK_DEADLOCK FALSE
