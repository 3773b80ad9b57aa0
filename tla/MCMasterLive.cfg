SPECIFICATION FairSpec
CONSTANTS
    Pids = {p1, p2, p3, p4}
    NoPid = nopid
    MaxProcesses = 3
    Kinds <- OneWorker
    Admin = {"QUIT", "TERM", "HUP", "USR2", "WINCH"}
    MaxSignals = 2
    MaxForkFails = 1
    MaxDeaths = 1
PROPERTIES
    TerminateEnds
    QuitEnds
    Respawned
    UpgradeUndone
CHECK_DEADLOCK FALSE
