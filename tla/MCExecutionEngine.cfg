\* Two queries, queue and semaphore of one, two threads that start and stop.
SPECIFICATION FairSpec
CONSTANTS
  Tasks = {q1, q2}
  Workers = {r1, r2}
  Callers = {c1, c2}
  None = None
  KindOf <- Kind
  WorkerCount <- Count
  QueueSize <- One
  MaxConcurrent <- One
  MaxStarts = 2
INVARIANTS
  ExecutingWithinLimit
  AnswerTellsOutcome
PROPERTIES
  EveryTaskIsAnswered
CHECK_DEADLOCK FALSE
