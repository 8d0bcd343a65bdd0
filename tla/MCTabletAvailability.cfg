SPECIFICATION Spec
CONSTANTS
  Backends = {"b1", "b2"}
  Refreshers = {}
  CriticalLimit = 30
  Unhealthy = 60
  Reports <- MCReports
  MaxReports = 3
  MaxStarts = 1
  Threads = {h1, h2}
  Tablets = {"t1", "t2"}
  Hosts <- MCHosts
  Primary <- MCPrimary
  NoBackend = "-1"
  Targets = {"UNAVAILABLE"}
  MaxFaults = 1
  MaxCalls = 1
INVARIANTS
  CacheFollowsRepository
  StatusFollowsTablets
  TabletsFollowTold
PROPERTIES
  OutageIsLocal
SYMMETRY Swapped
CHECK_DEADLOCK FALSE
