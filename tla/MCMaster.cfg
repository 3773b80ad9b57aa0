SPECIFICATION Spec
CONSTANTS
    Pids = {p1, p2, p3, p4}
    NoPid = nopid
    MaxProcesses = 3
    Kinds <- WorkerLoader
    Admin = {"QUIT", "TERM", "HUP", "USR1", "USR2", "WINCH"}
    MaxSignals = 2
    MaxForkFails = 1
    MaxDeaths = 1
SYMMETRY Symmetry
INVARIANTS
    
    
    ReloadRetiresOld
    NoOrphans
PROPERTIES
    
    KillIsLast
CHECK_DEADLOCK FALSE
