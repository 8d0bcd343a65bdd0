\* Close under fairness: one worker, two application goroutines, one message, default options.
SPECIFICATION FairSpec
CONSTANTS
  Messages = {m1}
  Workers = {w1}
  Callers = {c1, c2}
  None = None
  Options <- DefaultOption
  MaxDeliveries = 1
  PendingFloor = 1
CHECK_DEADLOCK FALSE
PROPERTY
  CloseCompletesUnlessEmbraced
