\* Two workers, two application goroutines, one message the broker may push twice.
SPECIFICATION Spec
CONSTANTS
  Messages = {m1}
  Workers = {w1, w2}
  Callers = {c1, c2}
  None = None
  Options <- EveryOption
  MaxDeliveries = 2
  PendingFloor = 0
INVARIANTS
  AckedOnlyAfterHandled
  WorkersHoldLiveConsumer
  PendingMetricCoversMap
CHECK_DEADLOCK FALSE
SYMMETRY Symmetry
