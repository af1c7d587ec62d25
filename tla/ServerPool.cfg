SPECIFICATION FairSpec
CONSTANTS
  h1 = h1
  h2 = h2
  MAXTHREADS = 2
  Handles = {h1, h2}
  FirstCounter <- MCFirstCounter
  MaxConnections = 3
  MaxThreads = 4
INVARIANTS TypeOK BusyIsWatched OldestIsSlowest OneHolder ServedAlone
PROPERTY EveryConnectionEnds
CONSTRAINT Bound
CHECK_DEADLOCK FALSE
