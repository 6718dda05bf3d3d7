SPECIFICATION FairSpec
CONSTANTS
  p1 = p1
  p2 = p2
  NoFile = NoFile
  Empty = Empty
  Proc = {p1, p2}
  Faults = {}
INVARIANTS
  HolderKeepsLock
PROPERTIES
  ImplementsMutex
  CallEnds
  DeadOwnerRecovered
CHECK_DEADLOCK FALSE
