SPECIFICATION Spec
CONSTANTS
    Pids = {p1, p2, p3}
    NoPid = nopid
    MaxProcesses = 3
    Kinds <- OneWorker
    Admin = {"HUP", "USR2"}
    MaxSignals = 2
    MaxForkFails = 1
    MaxDeaths = 0
INVARIANTS
    OneWorkerSet
CHECK_DEADLOCK FALSE
