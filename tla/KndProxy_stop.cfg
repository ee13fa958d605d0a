SPECIFICATION FairSpec
CONSTANTS
  k1 = k1
  k2 = k2
  Conns <- MCConns
  MaxStarts = 2
  MaxReads = 2
INVARIANTS TypeOK StoppedIsQuiet RecordsWellFormed
PROPERTIES StopReturns
CHECK_DEADLOCK FALSE
