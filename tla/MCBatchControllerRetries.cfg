\* The field comment of BatchRetryCount: how often a failed batch is retried.
SPECIFICATION Spec
CONSTANTS
  Batches = {b1}
  Workers = {w1}
  Callers = {c1}
  None = None
  Configs <- OnlyOneRetry
  MaxQueueSize = 1
  MaxConcurrentBatches = 1
  MaxEpochs = 1
  MaxStarts = 1
  MaxFailures = 2
INVARIANT
  RetriesBounded
CHECK_DEADLOCK FALSE
