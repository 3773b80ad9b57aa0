SPECIFICATION FairSpec
CONSTANTS
  N = 3
  Names <- MCNames
  Vals <- MCVals
  MaxSent = 2
  MaxCrashes = 1
  MaxFaults = 1
INVARIANTS ReadersFit SurvivorsInSync
PROPERTY MessagesFreed
