SPECIFICATION Spec
CONSTANTS
  m1 = m1
  Messages = {m1}
  Key <- MCKey
  Size <- MCSize
  MaxBatchSize = 3
  MaxBatchCount = 2
  Strategy = "mixed"
  Loops = {l1}
  Clients = {c1, c2}
  Queries = {"q1", "q2"}
  MaxConnections = 1
  HasDeadline = FALSE
  MaxPrepares = 2
  HealthCallers = {"monitoring", "c2"}
  Scopes = {"cluster", "tablet"}
  Subscribers = {"s1"}
  Filters <- MCFilters
  ChannelSize = 1
  MaxHistory = 2
  MaxHealthCalls = 2
  Backends = {"b1", "b2"}
  Refreshers = {"f1"}
  CriticalLimit = 30
  Unhealthy = 60
  Reports <- MCReports
  MaxReports = 2
  MaxStarts = 2
INVARIANTS
  SessionsAreCounted
  HealthIsJudged
  StopsInReverse
PROPERTIES
  StopsReturn
  AcceptedLeaves
  HealthyCallsReturn
CHECK_DEADLOCK FALSE
