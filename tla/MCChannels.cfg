SPECIFICATION FairSpec
CONSTANTS
    Kinds <- WorkerLoader
    MaxProcesses = 3
    MaxSpawns = 4
    MaxReloads = 1
    MaxDeaths = 1
    MaxFails = 1
    MaxLost = 1
INVARIANTS
    PeersAgree
    RightChild
PROPERTIES
    MarkedLeave
CHECK_DEADLOCK FALSE
