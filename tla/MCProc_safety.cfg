\* The process table: two processors, init and two more slots, one sleep
\* channel, kill() of nobody (0) and of the two other pids.
SPECIFICATION Spec
CONSTANTS
    NPROC    = 3
    CPUs     = {c1, c2}
    NoCpu    = NoCpu
    Chans    = {ch1}
    KillPids = {0, 2, 3}
    MaxPid   = 4
SYMMETRY CpuSymmetry
INVARIANTS
    ProcIInv
    OnCpu
    StackSafe
    KillFindsTheLiveOne
    ParentAlive
    NoMissedZombie
PROPERTY
    ZombieStays
