\* Two writes of two tablets, an unlimited buffer; two callers, one retry, one crash, under fairness.
SPECIFICATION FairSpec
CONSTANTS
  i1 = i1
  i2 = i2
  k1 = k1
  k2 = k2
  Ids = {i1, i2}
  Keys = {k1, k2}
  KeyOf <- TwoKeys
  SizeOf <- OneByte
  PriorityOf <- NoPriority
  MaxBufferedWrites = 0
  MaxBufferSizeBytes = 0
  EvictionPolicy = "OLDEST"
  MaxStamp = 2
  Callers = {loop, c1}
  Loop = loop
  MaxRetryAttempts = 1
  MaxRetries = 1
  MaxCrashes = 1
INVARIANTS
  RemovedAfterExecution
PROPERTY
  AcceptedWriteLeaves
CHECK_DEADLOCK FALSE
