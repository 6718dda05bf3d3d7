SPECIFICATION Spec
CONSTANTS
  c1 = c1
  c2 = c2
  k1 = k1
  k2 = k2
  Call = {c1, c2}
  Key = {k1, k2}
  Args = {"a1"}
  Version = {1}
  Parts = 1
  MaxPolls = 0
  MaxAsks = 0
  Garbling = FALSE
  None = None
  Late = Late
INVARIANTS
  AskedOnce
CHECK_DEADLOCK FALSE
