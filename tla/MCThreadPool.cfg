SPECIFICATION FairSpec
CONSTANTS
    Threads = {h1, h2}
    Tasks = {t1, t2, t3}
    ExitTask = exit
    MaxQueue = 1
    MaxFaults = 2
INVARIANTS
    WaitingAccounting
    QueueBound
    NoLostWakeup
    TaskOnce
    DestroyedUnused
PROPERTIES
    TasksComplete
    DestroyEnds
CHECK_DEADLOCK FALSE
