\* One write that may be submitted twice; the run loop and a second caller, three retries.
SPECIFICATION Spec
CONSTANTS
  i1 = i1
  i2 = i2
  k1 = k1
  k2 = k2
  Ids = {i1}
  Keys = {k1, k2}
  KeyOf <- TwoKeys
  SizeOf <- OneByte
  PriorityOf <- NoPriority
  MaxBufferedWrites = 0
  MaxBufferSizeBytes = 0
  EvictionPolicy = "OLDEST"
  MaxStamp = 2
  Callers = {loop, c1}
  Loop = loop
  MaxRetryAttempts = 1
  MaxRetries = 3
  MaxCrashes = 0
INVARIANTS
  AttemptsBounded
CHECK_DEADLOCK FALSE
