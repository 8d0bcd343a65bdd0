----------------------------- MODULE TabletOutage -----------------------------
(***************************************************************************)
(* What the tablet manager promises of outages: a tablet changes to the    *)
(* state of a backend that decides on it, in which that backend has been   *)
(* heard to be, and otherwise only by the hand of somebody else.  One      *)
(* backend's outage is never another backend's tablets'.                   *)
(***************************************************************************)
EXTENDS FiniteSets

CONSTANTS Tablets, Backends, Decides(_, _)

VARIABLES
  state,  \* per tablet
  heard,  \* the pairs of a backend and a state it was heard to be in
  others  \* the tablets somebody else may change

Follows(s) == IF s = "alive" THEN "NORMAL" ELSE "UNAVAILABLE"

Init == state = [t \in Tablets |-> "NORMAL"] /\ heard = {} /\ others = {}

Hear ==
  /\ heard' \in {heard \cup h : h \in SUBSET (Backends \X {"alive", "dead"})}
  /\ UNCHANGED <<state, others>>

Follow(t) ==
  /\ \E b \in Backends, s \in {"alive", "dead"} :
        <<b, s>> \in heard /\ Decides(b, t) /\ state' = [state EXCEPT ![t] = Follows(s)]
  /\ UNCHANGED <<heard, others>>

Give == others \subseteq others' /\ UNCHANGED <<state, heard>>

\* By somebody else.
Change(t) ==
  /\ t \in others
  /\ \A x \in Tablets \ {t} : state'[x] = state[x]
  /\ UNCHANGED <<heard, others>>

Next == Hear \/ Give \/ \E t \in Tablets : Follow(t) \/ Change(t)

Spec == Init /\ [][Next]_<<state, heard, others>>
=============================================================================
