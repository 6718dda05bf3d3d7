SPECIFICATION Spec
CONSTANTS
  p1 = p1
  p2 = p2
  NoFile = NoFile
  Empty = Empty
  Proc = {p1, p2}
  Faults = {"examine-read"}
SYMMETRY Symmetry
PROPERTIES
  LiveOwnerLeftAlone
CHECK_DEADLOCK FALSE
