-------------------------- MODULE MCPulsarConsumer --------------------------
(* Model checking PulsarConsumer: the workers are alike, and so are the     *)
(* application goroutines.  Only the safety run uses the symmetry.          *)
EXTENDS PulsarConsumer, TLC

Symmetry == Permutations(Workers) \cup Permutations(Callers)
EveryOption == [autoAck : BOOLEAN, autoAckOnClose : BOOLEAN]
DefaultOption == {[autoAck |-> TRUE, autoAckOnClose |-> FALSE]}
=============================================================================
