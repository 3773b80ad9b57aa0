SPECIFICATION FairSpec
CONSTANTS
  w1 = w1
  w2 = w2
  Workers <- MCWorkers
  Interval = 1
  Shift = 2
  Rise = 1
  Fall = 2
  MaxLag = 1
  MaxFlips = 1
  MaxCrashes = 1
  MaxReallocs = 1
INVARIANT OwnerWorks
PROPERTIES Hysteresis 
