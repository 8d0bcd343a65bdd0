\* Two batches, a queue of one, two callers; the pool is resized, stopped and started again.
SPECIFICATION Spec
CONSTANTS
  Batches = {b1, b2}
  Workers = {w1, w2}
  Callers = {c1, c2}
  None = None
  Configs <- SmallConfigs
  MaxQueueSize = 1
  MaxConcurrentBatches = 1
  MaxEpochs = 2
  MaxStarts = 2
  MaxFailures = 1
INVARIANTS
  ProcessingWithinLimit
  OneOwner
  NothingForgotten
  BacklogCoversQueue
SYMMETRY Symmetry
CHECK_DEADLOCK FALSE
