\* A reader and a writer, and a kill of the reader.
SPECIFICATION FairSpec
CONSTANTS
    Procs    = {p1, p2}
    NoProc   = NoProc
    PIPESIZE = 2
    W        = 4
    Readers  = {p1}
    Writers  = {p2}
    Bufs    <- MCBufs
    Counts   = {1, 2}
    Killable = {p1}
    a = a
    b = b
    c = c
PROPERTY
    KilledLeaves
CHECK_DEADLOCK FALSE
