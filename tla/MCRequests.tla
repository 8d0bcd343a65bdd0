------------------------------ MODULE MCRequests ------------------------------
(***************************************************************************)
(* The components of Requests and of Formats and the batch aggregator, one *)
(* at a time: "part" chooses it, and "format" among those of Formats.      *)
(***************************************************************************)
EXTENDS Requests, Formats, BatchAggregator, TLC

CONSTANTS
  i1, i2, i3, i4, k1, k2

vars == <<requestsVars, formatsVars, aggregatorVars>>

-----------------------------------------------------------------------------
(* Strategies of every type, as the nodes of a configuration.              *)
Leaf(type, max, min) == [type |-> type, max |-> max, min |-> min]
Hybrid(all, parts)   == [type |-> "hybrid", all |-> all, parts |-> parts]
Adaptive(thresholds, factors, below) ==
  [type |-> "adaptive", thresholds |-> thresholds, factors |-> factors, below |-> below]

\* The last ones nest: the shape of the default adaptive strategy, any over all, all over
\* any and an adaptive one, and a part that cannot be created.
MCConfigs ==
  { <<Leaf("time", 3, 2)>>, <<Leaf("size", 3, 2)>>, <<Leaf("count", 2, 3)>>, <<Leaf("count", 0, 2)>>,
    <<Leaf("time", 4, 2), Leaf("size", 4, 0), Hybrid(FALSE, {1, 2})>>,
    <<Leaf("time", 4, 2), Leaf("count", 2, 1), Hybrid(TRUE, {1, 2})>>,
    <<Leaf("size", 4, 2), Adaptive(2, 2, 1)>>, <<Leaf("size", 4, 2), Adaptive(3, 4, 1)>>,
    <<Leaf("time", 4, 2), Leaf("size", 4, 3), Leaf("count", 3, 2), Hybrid(FALSE, {1, 2, 3}), Adaptive(3, 3, 4)>>,
    <<Leaf("time", 3, 2), Leaf("count", 2, 2), Hybrid(TRUE, {1, 2}), Leaf("size", 4, 2), Hybrid(FALSE, {3, 4})>>,
    <<Leaf("size", 3, 2), Adaptive(2, 2, 1), Leaf("time", 2, 1), Hybrid(FALSE, {1, 3}), Hybrid(TRUE, {2, 4})>>,
    <<Leaf("size", 3, 2), Adaptive(3, 4, 1), Leaf("time", 2, 1), Hybrid(FALSE, {2, 3})>> }

\* Two tables; the second message fills a batch by its size.
TableOf == "m1" :> "k1" @@ "m2" :> "k2"
BytesOf == "m1" :> 1 @@ "m2" :> 3

\* Three writes of one byte and one of four.
TwoKeys    == [i \in Ids |-> IF i \in {i1, i4} THEN k1 ELSE k2]
Sizes      == [i \in Ids |-> IF i = i4 THEN 4 ELSE 1]
Priorities == [i \in Ids |-> IF i = i1 THEN 100 ELSE 0]

\* Two callers with one text.
MCText == [c \in QueryCallers |-> "q"]

\* A query on both columns, joined by OR.
Among(column, values) == [col |-> column, values |-> values, simple |-> TRUE]
MCWhere == [q \in Queries |->
  [op |-> "or", conditions |-> {Among("dt", Partitions), Among("id", {"b1"})}]]

\* The targets before and after the hosts in the configuration change.
Target(id, weight, isReadOnly, isPreferred) ==
  [id |-> id, weight |-> weight, isReadOnly |-> isReadOnly, isPreferred |-> isPreferred]
MCConfigurations ==
  { <<Target("a", 1, FALSE, FALSE), Target("b", 2, FALSE, TRUE), Target("c", 3, TRUE, TRUE)>>,
    <<Target("b", 2, FALSE, TRUE), Target("a", 1, TRUE, FALSE)>> }

\* A record that fits one schema only.  "old" has a field in common with
\* "new", which adds "b" with a default, and none with "other".
FieldLike(type, boxed, default) == [type |-> type, boxed |-> boxed, default |-> default]
RecordFields ==
  "old" :> [a |-> FieldLike("int", TRUE, FALSE)] @@
  "new" :> [a |-> FieldLike("long", TRUE, FALSE), b |-> FieldLike("string", FALSE, TRUE)] @@
  "other" :> [b |-> FieldLike("string", FALSE, TRUE)]
Misfits == "old" :> {2} @@ "new" :> {} @@ "other" :> {1, 2}
Records == {<<1>>, <<2>>, <<1, 2>>}

\* An object of one byte, one of none and one that does not fit.
ObjectSizes == "one" :> 1 @@ "null" :> 0 @@ "bad" :> 1
Appends == {<<"one">>, <<"null">>, <<"null", "bad">>}

MCTabletsOf    == "p1" :> {"t1"} @@ "p2" :> {}
MCPartitionsOf == "a" :> {"p1", "p2"}

-----------------------------------------------------------------------------
Init ==
  /\ \/ part \in RequestParts \cup {"aggregator"} /\ format = "none"
     \/ part = "none" /\ format \in FormatParts
  /\ RequestsInit /\ FormatsInit
  /\ AggregatorInit /\ (part # "aggregator" => multi)

Next ==
  /\ RequestsNext /\ FormatsNext
  /\ IF part = "aggregator" THEN AggregatorNext ELSE UNCHANGED aggregatorVars

Spec == Init /\ [][Next]_vars
=============================================================================
