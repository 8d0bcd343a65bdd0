SPECIFICATION Spec
CONSTANTS
  Executors = {e1}
  BatchSize = 2
  MaxRetries = 1
  Writes = {w1, w2}
  WriteIDs = {"i1"}
  Transactions = {"t1"}
  Enders = {e1}
  MaxBatches = 2
  DBCallers = {"c1", "c2"}
  FECallers = {"f1"}
  FECount = 2
  MaxTries = 2
  MaxPools = 3
  RegistryCallers = {c1, c2}
  NodeCount = 2
  Schemas = {"s1", "s2"}
  MaxVersions = 2
  RetryCount = 1
  MaxCalls = 2
  Getters = {g1, g2}
  i1 = i1
  i2 = i2
  i3 = i3
  i4 = i4
  k1 = k1
  k2 = k2
  Ids = {i1, i2, i3, i4}
  Keys = {k1, k2}
  KeyOf <- TwoKeys
  SizeOf <- Sizes
  PriorityOf <- Priorities
  MaxBufferedWrites = 2
  MaxBufferSizeBytes = 4
  EvictionPolicy = "LOWEST_PRIORITY"
  MaxStamp = 5
  Messages = {"m1", "m2"}
  Key <- TableOf
  Size <- BytesOf
  MaxBatchSize = 3
  MaxBatchCount = 2
  Strategy = "mixed"
  Loops = {"l1"}
  Configs <- MCConfigs
  MessageSizes = {1, 2}
  LoadLevels = {100, 50}
  AdaptInterval = 2
  MaxInt = 1000
  MaxTime = 5
  MaxMessages = 3
  Targets = {"t1", "t2"}
  StrategyUsers = {"u1", "u2"}
  MaxStrategies = 3
  Chunk = 3
  Numbers = 4
  MaxSize = 4
  MaxStatements = 1
  MaxParameters = 2
  QueryCallers = {"c1", "c2"}
  Text <- MCText
  Texts = {"q"}
  Cancellers = {"k1"}
  Lenient = {"c1"}
  MaxExecutions = 2
  Partitions = {"p1", "p2"}
  Buckets = {"b1", "b2"}
  Queries = {"q1"}
  Where <- MCWhere
  MaxDataLoss = 49
  PreferPruned = FALSE
  Partitioned = TRUE
  PruningStrategies = {"MIN_COMPLEXITY", "BALANCED"}
  RouteCallers = {"c1", "c2"}
  Configurations <- MCConfigurations
  AnalyticalQueryMinWeight = 1
  MaxRoutes = 2
  TabletsOf <- MCTabletsOf
  PartitionsOf <- MCPartitionsOf
  Replicas = 2
  CacheTTL = 2
  CheckTimeout = 1
  Checkers = {"h1"}
  TabletHealthThreshold = 80
  ReplicaHealthThreshold = 80
  ResolverCallers = {"r1", "r2"}
  Decoders = {"r1"}
  Definitions = {"d1", "d2"}
  ResolverTTL = 1
  EnableSchemaEvolution = TRUE
  StrictMode = TRUE
  MaxClock = 2
  MaxResolves = 2
  ResolverUsers = {"u1", "u2", "u3"}
  MaxRemovals = 2
  ObjectLists <- Appends
  EncodedSize <- ObjectSizes
  Unencodable = {"bad"}
  Codecs = {"null", "deflate"}
  BlockSize = 2
  MaxBlockSize = 2
  MaxTaken = 3
  MaxEnds = 1
  MaxPasses = 2
  RecordSchemas = {"old", "new", "other"}
  FieldsOf <- RecordFields
  Refuses <- Misfits
  BufferRecords = 2
  RecordLists <- Records
  MaxHanded = 3
  StreamLength = 2
  BatchRecords = 2
  MaxSets = 3
  MaxReads = 2
INVARIANTS
  CountWithinLimit
  BytesWithinLimit
  ExecutorsAnswerTruly
  WritesKeepPromises
  ClientServesOnce
  RegistryIsFollowed
  BatchesKeepMessages
  BatchLimitsAreKept
  ProtocolInStep
  QueriesAreTold
  AvroComesThrough
  DecisionsAreSound
  VerdictsAreSound
CHECK_DEADLOCK FALSE
