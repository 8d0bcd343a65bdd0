---------------------------- MODULE MCWriteRetry ----------------------------
(* Model checking WriteRetry: the attributes of the writes.               *)
EXTENDS WriteRetry, TLC

CONSTANTS i1, i2, k1, k2

TwoKeys == [i \in Ids |-> IF i = i1 THEN k1 ELSE k2]
OneByte == [i \in Ids |-> 1]
NoPriority == [i \in Ids |-> 0]
=============================================================================
