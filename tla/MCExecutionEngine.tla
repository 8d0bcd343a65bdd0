------------------------- MODULE MCExecutionEngine -------------------------
(* Model checking ExecutionEngine: two queries, and two slots for query    *)
(* workers of which every Start fills one, so that the workers of two      *)
(* Starts may share the queue and the semaphore.  Writes are left to the   *)
(* proofs: they take the same path through a queue and workers of their    *)
(* own.                                                                    *)
EXTENDS ExecutionEngine, TLC

Kind  == [x \in Tasks \cup Workers |-> "query"]
One   == [k \in Kinds |-> 1]
Count == [k \in Kinds |-> IF k = "query" THEN 1 ELSE 0]
=============================================================================
