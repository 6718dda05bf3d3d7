SPECIFICATION Spec
CONSTANTS
  p1 = p1
  p2 = p2
  NoFile = NoFile
  Empty = Empty
  Proc = {p1, p2}
  Faults = {"write", "rename", "rm", "release-read", "examine-read", "pid"}
SYMMETRY Symmetry
INVARIANTS
  GuardExclusive
PROPERTIES
  ReleaseSparesSuccessor
  AbandonedGuardFailsClosed
CHECK_DEADLOCK FALSE
