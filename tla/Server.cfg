SPECIFICATION ServerSpec
CONSTANTS
  Eligibility <- SomeAccounts
  Limits <- SomeLimits
  Requests <- SomeRequests
  Revocable = {"reports:write"}
  k1 = k1
  k2 = k2
  Conn = {k1, k2}
  Settings <- SomeSettings
  s1 = s1
  r1 = r1
  r2 = r2
  c1 = c1
  None = None
  Late = Late
INVARIANTS
  NothingAskedTwice
PROPERTIES
  EligibleServed
  ShutdownEnds
  RequestsEnd
  CallsAnswered
CHECK_DEADLOCK FALSE
