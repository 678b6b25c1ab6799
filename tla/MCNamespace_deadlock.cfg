SPECIFICATION Spec
CONSTANTS
    Procs = {p1, p2}
    NoProc = NoProc
    Inodes = {root, i2, i3}
    Root = root
    NoInode = NoInode
    a = a
    b = b
    Names = {a, b}
    Sessions <- SomeSessions
INVARIANT
    NoLockCycle
CHECK_DEADLOCK FALSE
