SPECIFICATION Spec
CONSTANTS
  s1 = s1
  s2 = s2
  r1 = r1
  r2 = r2
  Subject = {s1, s2}
  Brings <- Users
  ExpiresAt <- Expiries
  Request = {r1, r2}
  CacheSize = 1
  EvictionScan = 32
  Lifetime = 2
  Margin = 1
  Leeway = 1
  MaxTokens = 2
  MaxTime = 2
  Patient = FALSE
  None = None
CONSTRAINT OneFollows
INVARIANTS
  CacheKeepsMargin
  RefusalRemembered
  NobodyForgotten
PROPERTIES
  NoRefusedTokenReused
  DeadSessionGets401
CHECK_DEADLOCK FALSE
