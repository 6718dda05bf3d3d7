SPECIFICATION SessionSpec
CONSTANTS
  p1 = p1
  p2 = p2
  c1 = c1
  c2 = c2
  c3 = c3
  k1 = k1
  g1 = g1
  g2 = g2
  Proc = {p1, p2}
  Caller = {c1, c2, c3}
  Home <- TwoServers
  Cli = {k1}
  Grant = {g1, g2}
  MaxGen = 1
  None = None
  Faults = {"lost", "save", "crash"}
SYMMETRY Alike
INVARIANTS
  HandedOutWasStored
  NoReplay
  StoredIsNewest
  OnlyRefusedTokensForced
PROPERTIES
  ImplementsStoredLogin
  OnlyDeadLoginRemoved
CHECK_DEADLOCK FALSE
