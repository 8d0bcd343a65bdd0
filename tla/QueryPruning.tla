---------------------------- MODULE QueryPruning ----------------------------
(***************************************************************************)
(* How a query on a table with unavailable partitions or buckets is        *)
(* planned: the parser extracts the conditions on partition and bucket     *)
(* columns (domain/query/parser.go), the pruner adds conditions that leave *)
(* out what is unavailable (pruner.go) and the planner decides whether and *)
(* how to run the result (planner.go).  Each of the three keeps a cache    *)
(* whose entries expire when they have not been used for the TTL.          *)
(*                                                                         *)
(* One table, partitioned by the column "dt" and bucketed by the column    *)
(* "id"; a row is given by the first and by MOD(CRC32(id), 16), the number *)
(* the pruner takes for the row's bucket whatever the number of buckets    *)
(* is: where it is not 16, "the bucket of a row" means that number.  A     *)
(* query is its WHERE clause: conditions joined by "and", "or" or negated. *)
(***************************************************************************)
EXTENDS Integers, FiniteSets

CONSTANTS
    Partitions,         \* partition values, one partition each
    Buckets,            \* bucket IDs, and the values of MOD(CRC32(id), 16) of the rows
    Queries,            \* the queries of the clients
    Where,              \* [Queries -> [op, conditions]]
    MaxDataLoss,        \* MaxDataLossPercentage
    PreferPruned,       \* PreferPrunedQueries
    Partitioned,        \* EnablePartitionedStrategy
    PruningStrategies   \* those the process is asked to use by default

VARIABLES
    strategy,           \* DefaultPruningStrategy
    parserCache,        \* sql -> the columns with a condition
    pruningCache,       \* sql and strategy -> PruningInfo
    planCache,          \* sql -> QueryPlan
    planning            \* the PlanQuery in progress

queryVars == <<strategy, parserCache, pruningCache, planCache, planning>>

Rows == [dt : Partitions, id : Buckets]

\* A condition is [col, values, simple]: a column is in some values; simple when the
\* values are literals and not a function call, whose conditions are not extracted.
Holds(c, row) == row[c.col] \in c.values

Selected(q) ==
    LET w == Where[q] IN
    {row \in Rows : CASE w.op = "and" -> \A c \in w.conditions : Holds(c, row)
                      [] w.op = "or"  -> \E c \in w.conditions : Holds(c, row)
                      [] w.op = "not" -> \A c \in w.conditions : ~Holds(c, row)}

\* The columns with a condition, whichever operator joins them.
extractConditionsFromExpr(q, columns) ==
    {c.col : c \in {x \in Where[q].conditions : x.simple /\ x.col \in columns}}

\* A failed look-up of the partition columns skips the bucket columns of the table too.
ColumnsFound == {{}, {"dt"}, {"dt", "id"}}

Percentage(part, whole) == (Cardinality(part) * 100) \div Cardinality(whole)

Bigger(a, b) == IF a > b THEN a ELSE b

EstimatedDataLoss(dt, id) == Bigger(Percentage(dt, Partitions), Percentage(id, Buckets))

\* The mutant of a wrong operator: "=" for a single unavailable value.
KeptEqual(row, col, unavailable) ==
    IF Cardinality(unavailable[col]) = 1 THEN row[col] \in unavailable[col]
    ELSE row[col] \notin unavailable[col]

\* One exclusion per column with a condition and something unavailable: != or NOT IN.
Kept(row, col, unavailable) == row[col] \notin unavailable[col]

\* The rows that pass the exclusions: MAX_DATA joins them by OR, MIN_COMPLEXITY by AND,
\* BALANCED joins those on partitions by AND and those on buckets by OR.
buildPrunedWhereClause(unavailable, cols, how) ==
    LET excluded == {c \in cols : unavailable[c] # {}} IN
    {row \in Rows :
        \/ excluded = {}
        \/ how = "MIN_COMPLEXITY" /\ \A c \in excluded : Kept(row, c, unavailable)
        \/ how # "MIN_COMPLEXITY" /\ \E c \in excluded : Kept(row, c, unavailable)}

NotPruned(q) ==
    [pruned |-> FALSE, rows |-> Selected(q), loss |-> 0, dt |-> {}, id |-> {}]

\* pruneQueryInternal when the health checker reports dt and id unavailable.
pruneQueryInternal(q, cols, dt, id, how) ==
    LET unavailable == [dt |-> dt, id |-> id]
        modified == \E c \in cols : unavailable[c] # {}
    IN  [pruned |-> modified,
         rows |-> Selected(q) \cap buildPrunedWhereClause(unavailable, cols, how),
         loss |-> EstimatedDataLoss(dt, id), dt |-> dt, id |-> id]

\* What the health checker tells the pruner is unavailable; its answers change at any
\* time and a look-up that fails leaves the partition or the bucket in.
Learned == [dt : SUBSET Partitions, id : SUBSET Buckets]

Idle == [pc |-> "idle", query |-> "", cols |-> {}, table |-> "full"]

Original(q) ==
    [query |-> q, strategy |-> "ORIGINAL", executable |-> TRUE, info |-> NotPruned(q)]

Rejected(q) ==
    [Original(q) EXCEPT !.strategy = "REJECTED", !.executable = FALSE]

\* The mutant that never rejects a pruned query.
PrunedPlanLenient(q, info) ==
    IF ~info.pruned THEN Original(q)
    ELSE [query |-> q, strategy |-> "PRUNED", executable |-> TRUE, info |-> info]

\* The effect of pruning on the plan, with the check of the acceptable data loss.
PrunedPlan(q, info) ==
    IF ~info.pruned THEN Original(q)
    ELSE IF info.loss > MaxDataLoss /\ ~PreferPruned
    THEN [query |-> q, strategy |-> "REJECTED", executable |-> FALSE, info |-> info]
    ELSE [query |-> q, strategy |-> "PRUNED", executable |-> TRUE, info |-> info]

shouldUsePartitionedStrategy(cols, table) ==
    Partitioned /\ "dt" \in cols /\ table = "partial"

-----------------------------------------------------------------------------
\* A used entry lives on (LastAccessed), so a cache only forgets an entry that has been
\* left unused for the TTL (Expire).  CacheMaxSize \div 10 entries leave a full cache:
\* none, for caches as small as these.
Cached(cache, key, value) ==
    [k \in DOMAIN cache \cup {key} |-> IF k = key THEN value ELSE cache[k]]

Without(cache, key) == [k \in DOMAIN cache \ {key} |-> cache[k]]

\* A plan in the cache is the answer.
GetQueryPlan(q) ==
    /\ planning.pc = "idle" /\ q \notin DOMAIN planCache
    /\ planning' = [Idle EXCEPT !.pc = "parse", !.query = q]
    /\ UNCHANGED <<strategy, parserCache, pruningCache, planCache>>

ParseQuery ==
    /\ planning.pc = "parse"
    /\ LET q == planning.query IN
       \E columns \in ColumnsFound :
          LET cols == IF q \in DOMAIN parserCache THEN parserCache[q]
                      ELSE extractConditionsFromExpr(q, columns) IN
          /\ parserCache' = Cached(parserCache, q, cols)
          /\ planning' = [planning EXCEPT !.pc = "check", !.cols = cols]
    /\ UNCHANGED <<strategy, pruningCache, planCache>>

\* The worst availability of the tables; one that cannot be read counts as none.
getTablesAvailability ==
    /\ planning.pc = "check"
    /\ \E table \in {"none", "partial", "full"} :
        planning' = [planning EXCEPT !.table = table,
                                     !.pc = IF table = "partial" /\ planning.cols # {}
                                            THEN "prune" ELSE "plan"]
    /\ UNCHANGED <<strategy, parserCache, pruningCache, planCache>>

\* The partitioned strategy replaces the one chosen before, a rejection included.
Answer(plan) ==
    /\ planCache' = Cached(planCache, plan.query,
          IF shouldUsePartitionedStrategy(planning.cols, planning.table)
          THEN [plan EXCEPT !.strategy = "PARTITIONED"] ELSE plan)
    /\ planning' = Idle

PlanUnpruned ==
    /\ planning.pc = "plan"
    /\ Answer(IF planning.table = "none" THEN Rejected(planning.query)
              ELSE Original(planning.query))
    /\ UNCHANGED <<strategy, parserCache, pruningCache>>

PruneQuery ==
    /\ planning.pc = "prune"
    /\ LET q == planning.query
           key == <<q, strategy>>
       IN \E seen \in Learned :
          LET info == IF key \in DOMAIN pruningCache THEN pruningCache[key]
                      ELSE pruneQueryInternal(q, planning.cols, seen.dt, seen.id, strategy) IN
          /\ pruningCache' = Cached(pruningCache, key, info)
          /\ Answer(PrunedPlan(q, info))
    /\ UNCHANGED <<strategy, parserCache>>

InvalidateCache(q) ==
    /\ planCache' = Without(planCache, q)
    /\ UNCHANGED <<strategy, parserCache, pruningCache, planning>>

SetPruningStrategy(s) ==
    /\ strategy' = s
    /\ UNCHANGED <<parserCache, pruningCache, planCache, planning>>

Expire ==
    /\ \/ /\ \E q \in DOMAIN parserCache : parserCache' = Without(parserCache, q)
          /\ UNCHANGED pruningCache
       \/ /\ \E key \in DOMAIN pruningCache : pruningCache' = Without(pruningCache, key)
          /\ UNCHANGED parserCache
    /\ UNCHANGED <<strategy, planCache, planning>>

QueryInit ==
    /\ strategy = "BALANCED"
    /\ parserCache = <<>> /\ pruningCache = <<>> /\ planCache = <<>>
    /\ planning = Idle

QueryNext ==
    \/ \E q \in Queries : GetQueryPlan(q) \/ InvalidateCache(q)
    \/ ParseQuery \/ getTablesAvailability \/ PlanUnpruned \/ PruneQuery
    \/ \E s \in PruningStrategies : SetPruningStrategy(s)
    \/ Expire
-----------------------------------------------------------------------------
\* Pruning loses nothing silently: every row of the original query that the planned SQL
\* leaves out lies in a partition or a bucket which the PruningInfo of the plan lists,
\* and the planned SQL selects no row the query does not (buildPrunedWhereClause and
\* the three caches on the way).
LossIsReported ==
    \A q \in DOMAIN planCache :
        LET info == planCache[q].info IN
        /\ info.rows \subseteq Selected(q)
        /\ \A row \in Selected(q) \ info.rows : row.dt \in info.dt \/ row.id \in info.id

\* A pruned plan that loses more than the acceptable data loss is not executable,
\* whichever cache its PruningInfo comes from and whatever strategy replaces its own.
ExcessiveLossIsRejected ==
    \A q \in DOMAIN planCache :
        LET plan == planCache[q] IN
        plan.info.loss > MaxDataLoss /\ ~PreferPruned => ~plan.executable
=============================================================================
