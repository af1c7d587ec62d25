SPECIFICATION FairSpec
CONSTANTS
  t1 = t1
  t2 = t2
  t3 = t3
  p1 = p1
  p2 = p2
  x1 = x1
  x2 = x2
  x3 = x3
  Threads <- MCThreads
  Pointers <- MCPointers
  Mutexes = {x1, x2, x3}
  Rank <- MCRank
  FirstUsers <- MCFirstUsers
  Nobody = Nobody
  Unallocated = Unallocated
  NoMutex = NoMutex
  NoPointer = NoPointer
  NoGlobal = NoGlobal
INVARIANTS TypeOK NoDanglingMutex CountsExact
PROPERTIES ImplementsPointerLock Handoff
