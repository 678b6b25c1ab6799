\* One processor, no sleep channels but the processes themselves.
SPECIFICATION FairSpec
CONSTANTS
    NPROC    = 3
    CPUs     = {c1}
    NoCpu    = NoCpu
    Chans    = {}
    KillPids = {2, 3}
    MaxPid   = 3
PROPERTIES
    EveryoneRuns
    KilledDies
    InitReaps
