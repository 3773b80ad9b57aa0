SPECIFICATION Spec
CONSTANTS
    Pids = {p1, p2, p3}
    NoPid = nopid
    MaxProcesses = 3
    Kinds <- OneWorker
    Admin = {"QUIT", "HUP", "USR2", "WINCH"}
    MaxSignals = 4
    MaxForkFails = 0
    MaxDeaths = 0
INVARIANTS
    ShutdownLeavesNoChild
CHECK_DEADLOCK FALSE
