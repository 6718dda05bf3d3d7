SPECIFICATION StdioSpec
CONSTANTS
  p1 = p1
  p2 = p2
  i1 = i1
  i2 = i2
  a1 = a1
  a2 = a2
  n1 = n1
  c1 = c1
  c2 = c2
  k1 = k1
  g1 = g1
  Process = {p1, p2}
  Issuer = {i1, i2}
  Login = {a1, a2}
  Port = {n1}
  Preference <- Mixed
  IssSent = TRUE
  Garbled = Garbled
  None = None
INVARIANTS
  LoginsOfTheirIssuer
  NoEntryLost
PROPERTIES
  CommandsEnd
  CallersAnswered
CHECK_DEADLOCK FALSE
