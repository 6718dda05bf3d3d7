SPECIFICATION Spec
CONSTANTS
  c1 = c1
  k1 = k1
  Call = {c1}
  Key = {k1}
  Args = {"a1"}
  Version = {1}
  Parts = 1
  MaxPolls = 0
  MaxAsks = 0
  Garbling = TRUE
  None = None
  Late = Late
PROPERTIES
  NoWriteDenied
CHECK_DEADLOCK FALSE
