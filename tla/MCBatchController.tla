------------------------- MODULE MCBatchController -------------------------
(* Model checking BatchController: the configurations.                     *)
EXTENDS BatchController, TLC

OneRetry == [pool |-> 1, retries |-> 1, deadLetters |-> TRUE]
TwoWorkers == [pool |-> 2, retries |-> 0, deadLetters |-> TRUE]

\* Batches, workers and callers are alike; the safety run uses that.
Symmetry == Permutations(Batches) \cup Permutations(Workers) \cup Permutations(Callers)

OnlyOneRetry == {OneRetry}
SmallConfigs == {OneRetry, TwoWorkers}
=============================================================================
