\* The comment of BufferedWriteStatusRetrying: a write marked RETRYING is being retried.
SPECIFICATION Spec
CONSTANTS
  i1 = i1
  i2 = i2
  k1 = k1
  k2 = k2
  Ids = {i1, i2}
  Keys = {k1, k2}
  KeyOf <- TwoKeys
  SizeOf <- OneByte
  PriorityOf <- NoPriority
  MaxBufferedWrites = 0
  MaxBufferSizeBytes = 0
  EvictionPolicy = "OLDEST"
  MaxStamp = 2
  Callers = {loop, c1}
  Loop = loop
  MaxRetryAttempts = 1
  MaxRetries = 1
  MaxCrashes = 0
INVARIANTS
  RetryingIsLive
CHECK_DEADLOCK FALSE
