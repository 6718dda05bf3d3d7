SPECIFICATION ToolsSpec
CONSTANTS
  ClientDeadline = 5
  AnswerMargin = 1
  MaxWriteReserve = 1
  MinWriteAttempt = 1
  MinResend = 1
  MinPollBudget = 1
  r1 = r1
  r2 = r2
  Id = {r1, r2}
  Timeout = 2
  PollBudget = 2
  PollInterval = 1
  Delays <- OneDelay
  Parts = 2
  MaxTokenWait = 1
  Grace = 1
  MemorySize = 1
  EvictionScan = 32
  MaxTime = 6
  j1 = j1
  j2 = j2
  Job = {j1, j2}
  p1 = p1
  p2 = p2
  Report = {p1, p2}
  NoReport = NoReport
  Grants <- SomeGrants
  RolesTtl = 2
  Notices <- TwoNotices
  ClockEnd = 2
  PageSizes = {1, 2}
  MaxOffset = 2
  HISTORY_LIMIT = 2
  MaxLength = 3
  MaxChanges = 2
  MaxApprovals = 2
  MaxAgain = 2
  FullSchemas <- SomeSchemas
  Documents <- SomeDocuments
  Root = "Q"
  PublishedValues <- Published
  Principal <- Principals
  Price <- Prices
  Full <- Fulls
  MaxKeys = 2
  LastTick = 3
SYMMETRY Symmetry
CONSTRAINT Bounds
INVARIANTS
  HeardInTime
  OwnDeadline
  RightSide
  StaffRefused
  MarkedAreTold
  ListShown
  MadeOnce
  PrunedRight
  CallsBounded
CHECK_DEADLOCK FALSE
