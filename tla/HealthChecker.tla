---------------------------- MODULE HealthChecker ----------------------------
(***************************************************************************)
(* The health checker (domain/health/checker.go): from the replicas of     *)
(* every tablet to the accessibility of partitions and of tables, and from *)
(* there to whether a query or a write may run.  Every level caches its    *)
(* result for CacheTTL and is computed from the results of the level below,*)
(* one at a time: what was taken first ages while the rest is checked, and *)
(* the result is stamped at the end.                                       *)
(*                                                                         *)
(* A checker is a call of one level; a call of the level below, whose      *)
(* result it takes from the cache, is a checker of its own.  Every tablet  *)
(* has Replicas replicas.  Percentages are whole.  Beside each result      *)
(* stands how long ago the tablet manager was asked for the oldest tablet  *)
(* data behind it (oldest): the code does not keep it.                     *)
(***************************************************************************)
EXTENDS Integers, FiniteSets

CONSTANTS
    TabletsOf,                  \* [partition -> set of tablets]
    PartitionsOf,               \* [table -> set of partitions]
    Replicas,
    CacheTTL, CheckTimeout,
    Checkers,                   \* calls under way at once
    TabletHealthThreshold, ReplicaHealthThreshold

VARIABLES
    tabletHealthCache, partitionHealthCache, tableHealthCache,
    checking                    \* per checker: what it checks, what is left of it and what it found

caches == <<tabletHealthCache, partitionHealthCache, tableHealthCache>>
checkerVars == <<caches, checking>>

Tables == DOMAIN PartitionsOf
TablePartitions == UNION {PartitionsOf[table] : table \in Tables}
Tablets == UNION {TabletsOf[p] : p \in TablePartitions}

Percent(part, whole) == IF whole = 0 THEN 0 ELSE (part * 100) \div whole

analyzeTabletHealth(isNormal, healthy) ==
    LET enough == Percent(healthy, Replicas) >= ReplicaHealthThreshold IN
    IF enough /\ isNormal THEN "HEALTHY"
    ELSE IF ~enough /\ healthy = 0 THEN "UNHEALTHY" ELSE "DEGRADED"

Access(status, level, read, write) ==
    [status |-> status, level |-> level, read |-> read, write |-> write]

\* The percentages of healthy tablets and replicas set the level.
PartitionByPercentage(tablets, replicas) ==
    IF tablets < 50 \/ replicas < 50 THEN Access("UNHEALTHY", "NONE", FALSE, FALSE)
    ELSE IF tablets < TabletHealthThreshold \/ replicas < ReplicaHealthThreshold
    THEN Access("DEGRADED", "READ_ONLY", TRUE, FALSE)
    ELSE Access("HEALTHY", "FULL", TRUE, TRUE)

\* A state that is not normal degrades what the percentages allow.
Abnormal(a) ==
    [a EXCEPT !.status = IF @ = "UNHEALTHY" THEN @ ELSE "DEGRADED",
              !.level = IF @ = "FULL" THEN "PARTIAL" ELSE @]

analyzePartitionHealth(isNormal, tablets, replicas) ==
    LET a == PartitionByPercentage(tablets, replicas) IN IF isNormal THEN a ELSE Abnormal(a)

\* The partitions of a table by access level; a partition whose check failed is in none.
With(parts, level) == {p \in DOMAIN parts : parts[p].level = level}

AnyNone(table, parts, a) ==
    IF With(parts, "NONE") = PartitionsOf[table] THEN Access("UNHEALTHY", "NONE", FALSE, FALSE)
    ELSE IF With(parts, "NONE") # {} THEN [a EXCEPT !.status = "DEGRADED", !.level = "PARTIAL"]
    ELSE a

AnyReadOnly(parts, a) ==
    IF With(parts, "READ_ONLY") = {} THEN a
    ELSE [a EXCEPT !.status = IF @ = "UNHEALTHY" THEN @ ELSE "DEGRADED",
                   !.level = IF @ = "NONE" THEN @ ELSE "READ_ONLY",
                   !.write = IF a.level = "NONE" THEN @ ELSE FALSE]

AnyPartial(parts, a) == IF With(parts, "PARTIAL") = {} THEN a ELSE Abnormal(a)

\* Less than half of the partitions healthy: even a read-only table becomes PARTIAL.
FewHealthy(table, parts, a) ==
    LET healthy == Percent(Cardinality({p \in DOMAIN parts : parts[p].status = "HEALTHY"}),
                           Cardinality(PartitionsOf[table]))
    IN  IF healthy < 50
        THEN [a EXCEPT !.status = "UNHEALTHY", !.level = IF @ = "NONE" THEN @ ELSE "PARTIAL"]
        ELSE IF healthy < TabletHealthThreshold THEN Abnormal(a) ELSE a

analyzeTableHealth(table, isNormal, parts) ==
    LET a == FewHealthy(table, parts, AnyPartial(parts,
                 AnyReadOnly(parts, AnyNone(table, parts, Access("HEALTHY", "FULL", TRUE, TRUE)))))
    IN  IF isNormal THEN a ELSE Abnormal(a)

\* The mutant that decides by the access level and forgets whether writes are supported.
analyzeWriteByLevel(tables) ==
    DOMAIN tables # {} /\ \A t \in DOMAIN tables : tables[t].access.level \notin {"NONE", "READ_ONLY"}

\* The tables of the operation whose check succeeded; without any nothing is executable.
analyzeWriteExecutability(tables) ==
    /\ DOMAIN tables # {}
    /\ \A t \in DOMAIN tables : tables[t].access.write /\ tables[t].access.level \notin {"NONE", "READ_ONLY"}

analyzeQueryExecutability(tables) ==
    DOMAIN tables # {} /\ \A t \in DOMAIN tables : tables[t].access.level # "NONE"
-----------------------------------------------------------------------------
Cached(cache, key) == key \in DOMAIN cache /\ cache[key].age < CacheTTL

Put(cache, key, value, oldest) ==
    [k \in DOMAIN cache \cup {key} |->
        IF k = key THEN [value |-> value, age |-> 0, oldest |-> oldest] ELSE cache[k]]

\* The mutant of a cache that renews the entries it answers from.
Renewed(cache, key) == [cache EXCEPT ![key].age = 0]

Hit(cache, key) == cache

Idle == [level |-> "none", key |-> "none", todo |-> {}, found |-> <<>>, oldest |-> 0, elapsed |-> 0]

Check(level, key, todo, found) ==
    [level |-> level, key |-> key, todo |-> todo, found |-> found, oldest |-> 0, elapsed |-> 0]

Begin(c, check) == checking[c] = Idle /\ checking' = [checking EXCEPT ![c] = check]

Stamp(c, cache, value) == Put(cache, checking[c].key, value, checking[c].oldest)

Done(c) == checking' = [checking EXCEPT ![c] = Idle]

At(c, level) == checking[c].level = level

\* A loop takes the lower results in the order of a list.
Next(c) == CHOOSE k \in checking[c].todo : TRUE

Skip(c) == checking' = [checking EXCEPT ![c].todo = @ \ {Next(c)}]

Take(c, entry) ==
    checking' = [checking EXCEPT ![c].todo = @ \ {Next(c)},
                     ![c].found = [k \in DOMAIN @ \cup {Next(c)} |-> IF k = Next(c) THEN entry.value ELSE @[k]],
                     ![c].oldest = IF @ < entry.oldest THEN entry.oldest ELSE @]

\* The tablet manager reports any number of healthy replicas at the time it is asked.
CheckTabletHealth(c, t) ==
    /\ IF Cached(tabletHealthCache, t)
       THEN tabletHealthCache' = Hit(tabletHealthCache, t) /\ UNCHANGED checking
       ELSE /\ \E healthy \in 0..Replicas, isNormal \in BOOLEAN :
                Begin(c, Check("tablet", t, {}, [k \in {t} |-> analyzeTabletHealth(isNormal, healthy)]))
            /\ UNCHANGED tabletHealthCache
    /\ UNCHANGED <<partitionHealthCache, tableHealthCache>>

CacheTablet(c) ==
    /\ At(c, "tablet") /\ Done(c)
    /\ tabletHealthCache' = Stamp(c, tabletHealthCache, checking[c].found[checking[c].key])
    /\ UNCHANGED <<partitionHealthCache, tableHealthCache>>

CheckPartitionHealth(c, p) ==
    /\ IF Cached(partitionHealthCache, p)
       THEN partitionHealthCache' = Hit(partitionHealthCache, p) /\ UNCHANGED checking
       ELSE Begin(c, Check("partition", p, TabletsOf[p], <<>>)) /\ UNCHANGED partitionHealthCache
    /\ UNCHANGED <<tabletHealthCache, tableHealthCache>>

\* A tablet whose check fails, or whose replicas cannot be read, is left out.
TakeTablet(c) ==
    /\ At(c, "partition") /\ checking[c].todo # {}
    /\ \/ /\ Cached(tabletHealthCache, Next(c)) /\ Take(c, tabletHealthCache[Next(c)])
          /\ tabletHealthCache' = Hit(tabletHealthCache, Next(c))
       \/ Skip(c) /\ UNCHANGED tabletHealthCache
    /\ UNCHANGED <<partitionHealthCache, tableHealthCache>>

\* The accessibility of p from the status of the tablets that were found; their replicas
\* are counted anew.
PartitionAccess(p, found, replicas, isNormal) ==
    LET healthy == {t \in DOMAIN found : found[t] = "HEALTHY"} IN
    analyzePartitionHealth(isNormal,
        Percent(Cardinality(healthy), Cardinality(TabletsOf[p])),
        Percent(replicas, Cardinality(DOMAIN found) * Replicas))

CachePartition(c) ==
    /\ At(c, "partition") /\ checking[c].todo = {} /\ Done(c)
    /\ \E isNormal \in BOOLEAN, replicas \in 0..(Cardinality(DOMAIN checking[c].found) * Replicas) :
          partitionHealthCache' = Stamp(c, partitionHealthCache,
              PartitionAccess(checking[c].key, checking[c].found, replicas, isNormal))
    /\ UNCHANGED <<tabletHealthCache, tableHealthCache>>

CheckTableHealth(c, table) ==
    /\ IF Cached(tableHealthCache, table)
       THEN tableHealthCache' = Hit(tableHealthCache, table) /\ UNCHANGED checking
       ELSE Begin(c, Check("table", table, PartitionsOf[table], <<>>)) /\ UNCHANGED tableHealthCache
    /\ UNCHANGED <<tabletHealthCache, partitionHealthCache>>

TakePartition(c) ==
    /\ At(c, "table") /\ checking[c].todo # {}
    /\ \/ /\ Cached(partitionHealthCache, Next(c)) /\ Take(c, partitionHealthCache[Next(c)])
          /\ partitionHealthCache' = Hit(partitionHealthCache, Next(c))
       \/ Skip(c) /\ UNCHANGED partitionHealthCache
    /\ UNCHANGED <<tabletHealthCache, tableHealthCache>>

CacheTable(c) ==
    /\ At(c, "table") /\ checking[c].todo = {} /\ Done(c)
    /\ \E isNormal \in BOOLEAN :
          tableHealthCache' = Stamp(c, tableHealthCache,
              [parts |-> checking[c].found,
               access |-> analyzeTableHealth(checking[c].key, isNormal, checking[c].found)])
    /\ UNCHANGED <<tabletHealthCache, partitionHealthCache>>

\* CheckQueryExecutability and CheckWriteExecutability go through their tables alike.
CheckExecutability(c, tables) == Begin(c, Check("operation", "none", tables, <<>>)) /\ UNCHANGED caches

TakeTable(c) ==
    /\ At(c, "operation") /\ checking[c].todo # {}
    /\ \/ /\ Cached(tableHealthCache, Next(c)) /\ Take(c, tableHealthCache[Next(c)])
          /\ tableHealthCache' = Hit(tableHealthCache, Next(c))
       \/ Skip(c) /\ UNCHANGED tableHealthCache
    /\ UNCHANGED <<tabletHealthCache, partitionHealthCache>>

Answered(c) == At(c, "operation") /\ checking[c].todo = {}

Answer(c) == Answered(c) /\ Done(c) /\ UNCHANGED caches

ClearCache ==
    /\ tabletHealthCache' = <<>> /\ partitionHealthCache' = <<>> /\ tableHealthCache' = <<>>
    /\ UNCHANGED checking

\* Time passes, for what is cached and for what the checkers hold; what is past the TTL
\* counts as absent until it is replaced or cleaned up.  No check waits longer than its
\* context lives: the tablet manager answers or fails when it ends.
Older(cache) ==
    [k \in {x \in DOMAIN cache : cache[x].age + 1 < CacheTTL} |->
        [cache[k] EXCEPT !.age = @ + 1, !.oldest = @ + 1]]

Elapse ==
    /\ \A c \in Checkers : checking[c].elapsed < CheckTimeout
    /\ tabletHealthCache' = Older(tabletHealthCache)
    /\ partitionHealthCache' = Older(partitionHealthCache)
    /\ tableHealthCache' = Older(tableHealthCache)
    /\ checking' = [c \in Checkers |->
           IF checking[c] = Idle THEN Idle
           ELSE [checking[c] EXCEPT !.oldest = @ + 1, !.elapsed = @ + 1]]

CheckerInit ==
    /\ tabletHealthCache = <<>> /\ partitionHealthCache = <<>> /\ tableHealthCache = <<>>
    /\ checking = [c \in Checkers |-> Idle]

CheckerNext ==
    \/ \E c \in Checkers :
          \/ \E t \in Tablets : CheckTabletHealth(c, t)
          \/ \E p \in TablePartitions : CheckPartitionHealth(c, p)
          \/ \E table \in Tables : CheckTableHealth(c, table)
          \/ \E tables \in SUBSET Tables : CheckExecutability(c, tables)
          \/ CacheTablet(c) \/ TakeTablet(c) \/ CachePartition(c)
          \/ TakePartition(c) \/ CacheTable(c) \/ TakeTable(c) \/ Answer(c)
    \/ ClearCache \/ Elapse
-----------------------------------------------------------------------------
\* What one level adds to the age of the data: the time of its check, and of its cache.
Lifetime == CacheTTL - 1 + CheckTimeout

\* A table's verdict rests on tablet data no older than three such levels make it, and an
\* answer about an operation adds the time of its own check: no cache renews what it
\* answers from, and what a check holds ages with it.
StalenessBounded ==
    /\ \A key \in DOMAIN tableHealthCache : tableHealthCache[key].oldest <= 3 * Lifetime
    /\ \A c \in Checkers : Answered(c) => checking[c].oldest <= 3 * Lifetime + CheckTimeout

\* A write that may run meets no partition known to be read-only, and a query that may
\* run, in each of its tables, some partition that is not known to be inaccessible, through
\* the chain of overriding conditions of analyzeTableHealth and the cache -- as far as the
\* tables and partitions could be checked: those whose check failed are passed over.
ExecutableIsAccessible ==
    \A c \in Checkers : Answered(c) =>
        LET tables == checking[c].found IN
        /\ analyzeWriteExecutability(tables) =>
              \A t \in DOMAIN tables : With(tables[t].parts, "READ_ONLY") = {}
        /\ analyzeQueryExecutability(tables) =>
              \A t \in DOMAIN tables : With(tables[t].parts, "NONE") # PartitionsOf[t]
=============================================================================
