SPECIFICATION FairSpec
CONSTANTS
  w1 = w1
  w2 = w2
  w3 = w3
  l1 = l1
  l2 = l2
  Procs <- MCProcs
  First <- MCFirst
  Listening <- MCListening
  Connections = 1
  Reserve = 1
  MaxPending = 1
  MaxFaults = 1
  MaxZoneCalls = 2
INVARIANTS RwExclusion HandlersUnlocked ByTurn
PROPERTY Accepting
CHECK_DEADLOCK FALSE
