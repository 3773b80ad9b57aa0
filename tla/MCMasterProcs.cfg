SPECIFICATION Spec
CONSTANTS
    Pids = {p1, p2, p3}
    NoPid = nopid
    MaxProcesses = 3
    Kinds <- AProcess
    Admin = {"HUP"}
    MaxSignals = 1
    MaxForkFails = 0
    MaxDeaths = 1
PROPERTIES
    RespawnOffStaysDown
CHECK_DEADLOCK FALSE
