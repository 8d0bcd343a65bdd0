\* One batch, two callers, under fairness: Stop returns, accepted batches settle.
SPECIFICATION FairSpec
CONSTANTS
  Batches = {b1}
  Workers = {w1, w2}
  Callers = {c1, c2}
  None = None
  Configs <- SmallConfigs
  MaxQueueSize = 1
  MaxConcurrentBatches = 1
  MaxEpochs = 2
  MaxStarts = 2
  MaxFailures = 1
PROPERTIES
  StopCompletes
  AcceptedSettles
  SetConfigCompletesUnlessEmbraced
CHECK_DEADLOCK FALSE
