\* Locks, files, memory and user programs, each on its own.
SPECIFICATION PartsSpec
CONSTANTS
    u1 = u1
    u2 = u2
    g1 = g1
    g2 = g2
    g3 = g3
    c1 = c1
    c2 = c2
    none = none
    Cpus = {c1, c2}
    NoCpu = none
    Threads = {u1, u2}
    SpinLocks = {"ptable", "disk"}
    PTable = "ptable"
    NoLock = none
    MaxNest = 1
    Users = {u1, u2}
    Files = {g1, g2, g3}
    NoFile = none
    Fds = {0, 1}
    Pages = {"page"}
    Inodes = {"node"}
    Sleepers = {u1, u2}
    NoSleeper = none
    WORD = 4
    Naps <- SomeNaps
    Late = 1
    MProcs = {"init", "p"}
    FirstProc = "init"
    NoProc = "none"
    NFRAMES = 10
    PGSIZE = 2
    NPTENTRIES = 2
    KERNBASE = 8
    ADDRESSES = 32
    Segments = {1, 3}
    Amounts <- SomeAmounts
    Writers = {u1, u2}
    NoWriter = none
    Opens = {g1, g2}
    Disk = {c1, c2}
    NBLOCKS = 4
    BSIZE = 2
    NDIRECT = 1
    NINDIRECT = 2
    MAXOPBLOCKS = 8
    Lengths = {5}
    HEAP = 14
    LEAST = 4
    Requests = {2, 3, 5}
    Tasks = {1, 2, 3, 4, 5, 6}
    BUFLEN = 5
    Typed <- TypedLines
    BUF = 4
    Letters = {"a", "b"}
    Patterns <- SomePatterns
    Inputs <- SomeFiles
    RADIX = 5
    Symbols = {"a", "b", " "}
    Documents <- SomeDocuments
SYMMETRY PartSymmetry
INVARIANTS
    LocksIInv
    DataIInv
    FilesIInv
    FramesIInv
    ClockIInv
    UmallocIInv
    WishIInv
    GrepRight
    ZipRight
PROPERTY
    DataSpec
CHECK_DEADLOCK FALSE
