SPECIFICATION FairSpec
CONSTANTS
    Workers = {w1, w2, w3}
    Master = master
    NoOwner = none
    MaxFaults = 3
INVARIANTS MutualExclusion OwnerIsHolder WakeupAccounting NoLostWakeup
PROPERTIES ImplementsMutex DeadOwnerRecovered SomeoneGetsIn
