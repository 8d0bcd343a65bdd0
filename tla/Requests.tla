------------------------------- MODULE Requests -------------------------------
(***************************************************************************)
(* The components a query or a write passes through, side by side: "part"  *)
(* chooses the one that runs, the others stand still and show 0 in their   *)
(* variables (the write buffer stays in its initial state).  Nothing is    *)
(* shared between them, so that the states are the sum of theirs and not   *)
(* the product.                                                            *)
(***************************************************************************)
EXTENDS Executors, WriteBuffer, RequestRouter

CONSTANTS
  Writes, WriteIDs, Transactions, Enders, MaxBatches,
  DBCallers, FECallers, FECount, MaxTries, MaxPools,
  Configs, MessageSizes, LoadLevels, AdaptInterval, MaxInt, MaxTime, MaxMessages,
  Targets, StrategyUsers, MaxStrategies,
  QueryCallers, Text, Texts, Cancellers, Lenient, MaxExecutions,
  Partitions, Buckets, Queries, Where, MaxDataLoss, PreferPruned, Partitioned, PruningStrategies,
  TabletsOf, PartitionsOf, Replicas, CacheTTL, CheckTimeout, Checkers,
  TabletHealthThreshold, ReplicaHealthThreshold

VARIABLES
  part,
  write, writeApplied, status, ender, told, buffered, scheduled, sleeping, flushing, unflushed,
  currentFEIndex, db, open, pools, clientCalls, loaded,
  theStrategy, batch, now, scale, lastAdaptTime,
  Strategies, created, wanting, holding,
  queryExecution, runningQueries, queryCache, delivered, cancelling, executions,
  strategy, parserCache, pruningCache, planCache, planning,
  tabletHealthCache, partitionHealthCache, tableHealthCache, checking

writeVars == <<write, writeApplied, status, ender, told, buffered, scheduled, sleeping, flushing, unflushed>>
clientVars == <<currentFEIndex, db, open, pools, clientCalls, loaded>>
evaluatorVars == <<theStrategy, batch, now, scale, lastAdaptTime>>
strategyVars == <<Strategies, created, wanting, holding>>
queryVars == <<queryExecution, runningQueries, queryCache, delivered, cancelling, executions>>
pruningVars == <<strategy, parserCache, pruningCache, planCache, planning>>
checkerVars == <<tabletHealthCache, partitionHealthCache, tableHealthCache, checking>>

W == INSTANCE WriteService WITH applied <- writeApplied
C == INSTANCE StarRocksClient WITH calls <- clientCalls
B == INSTANCE BatchStrategy
Q == INSTANCE QueryService WITH execution <- queryExecution
N == INSTANCE QueryPruning
H == INSTANCE HealthChecker

\* What the parts assume of their constants.
ASSUME WriteServiceAssumption ==
  /\ WriteIDs # {} /\ MaxBatches \in Nat \ {0}
  /\ W!NoTx \notin Transactions
ASSUME HealthCheckerAssumption == CacheTTL \in Nat \ {0} /\ CheckTimeout \in Nat
ASSUME ManagerAssumption == "none" \notin Targets
ASSUME QueryServiceAssumption == Text \in [QueryCallers -> Texts]
ASSUME PruningAssumption == MaxDataLoss \in Nat

\* The nodes of configurations, and a configuration: each node but the last is asked by a
\* later one, and asks only earlier ones.
SimpleConfigs == [type : B!Simple, max : Int, min : Int]
HybridConfigs == [type : {"hybrid"}, all : BOOLEAN, parts : SUBSET Nat]
AdaptiveConfigs == [type : {"adaptive"}, thresholds : Nat, factors : Nat, below : Nat]

WellFormed(c) ==
  /\ c \in Seq(SimpleConfigs \cup HybridConfigs \cup AdaptiveConfigs) /\ c # <<>>
  /\ \A i \in DOMAIN c : B!Asked(c[i]) \subseteq 1..(i - 1)
  /\ \A i \in DOMAIN c : i # Len(c) => \E j \in DOMAIN c : i \in B!Asked(c[j])

ASSUME EvaluatorAssumption == MaxInt \in Nat /\ \A c \in Configs : WellFormed(c)

requestsVars == <<part, executorVars, bufferVars, routerVars, writeVars, clientVars, evaluatorVars,
                  strategyVars, queryVars, pruningVars, checkerVars>>

RequestParts == {"executors", "buffer", "writes", "client", "evaluator", "strategies", "queries",
                 "pruning", "router", "health"}

RequestsInit ==
  /\ IF part = "executors" THEN ExecutorInit
     ELSE /\ kind = 0 /\ failFast = 0 /\ active = 0 /\ execution = 0 /\ statusOf = 0 /\ context = 0
          /\ canceller = 0 /\ results = 0 /\ answer = 0 /\ applied = 0 /\ unanswered = 0
  /\ BufferInit
  /\ IF part = "writes" THEN W!WriteInit
     ELSE /\ write = 0 /\ writeApplied = 0 /\ status = 0 /\ ender = 0 /\ told = 0 /\ buffered = 0
          /\ scheduled = 0 /\ sleeping = 0 /\ flushing = 0 /\ unflushed = 0
  /\ IF part = "client" THEN C!ClientInit
     ELSE /\ currentFEIndex = 0 /\ db = 0 /\ open = 0 /\ pools = 0 /\ clientCalls = 0 /\ loaded = 0
  /\ IF part = "evaluator" THEN B!EvaluatorInit
     ELSE theStrategy = 0 /\ batch = 0 /\ now = 0 /\ scale = 0 /\ lastAdaptTime = 0
  /\ IF part = "strategies" THEN B!ManagerInit
     ELSE Strategies = 0 /\ created = 0 /\ wanting = 0 /\ holding = 0
  /\ IF part = "queries" THEN Q!QueryServiceInit
     ELSE /\ queryExecution = 0 /\ runningQueries = 0 /\ queryCache = 0 /\ delivered = 0
          /\ cancelling = 0 /\ executions = 0
  /\ IF part = "pruning" THEN N!QueryInit
     ELSE strategy = 0 /\ parserCache = 0 /\ pruningCache = 0 /\ planCache = 0 /\ planning = 0
  /\ IF part = "router" THEN RouterInit
     ELSE /\ configured = 0 /\ targets = 0 /\ refreshing = 0 /\ decisionCache = 0
          /\ targetUsageCounts = 0 /\ routing = 0 /\ routed = 0
  /\ IF part = "health" THEN H!CheckerInit
     ELSE tabletHealthCache = 0 /\ partitionHealthCache = 0 /\ tableHealthCache = 0 /\ checking = 0

RequestsNext ==
  /\ UNCHANGED part
  /\ IF part = "executors" THEN ExecutorNext ELSE UNCHANGED executorVars
  /\ IF part = "buffer" THEN BufferNext ELSE UNCHANGED bufferVars
  /\ IF part = "writes" THEN W!WriteNext ELSE UNCHANGED writeVars
  /\ IF part = "client" THEN C!ClientNext ELSE UNCHANGED clientVars
  /\ IF part = "evaluator" THEN B!EvaluatorNext ELSE UNCHANGED evaluatorVars
  /\ IF part = "strategies" THEN B!ManagerNext ELSE UNCHANGED strategyVars
  /\ IF part = "queries" THEN Q!QueryServiceNext ELSE UNCHANGED queryVars
  /\ IF part = "pruning" THEN N!QueryNext ELSE UNCHANGED pruningVars
  /\ IF part = "router" THEN RouterNext ELSE UNCHANGED routerVars
  /\ IF part = "health" THEN H!CheckerNext ELSE UNCHANGED checkerVars

RequestsSpec == RequestsInit /\ [][RequestsNext]_requestsVars

-----------------------------------------------------------------------------
(* Executors: what an answer says is what was done.                        *)
ExecutorsAnswerTruly == part = "executors" => ExecutorTypeOK /\ AnswerMatchesEffect

(* Write service: a write whose transaction is validated does not reach    *)
(* the database once some caller knows the transaction to be over (what    *)
(* goes through the buffer or ExecuteBatchWrite is not validated), a       *)
(* success was applied as a whole, and a write that waits in the buffer    *)
(* and has a timeout has a goroutine to flush it.                          *)
WritesKeepPromises ==
  /\ BufferTypeOK
  /\ part = "writes" => W!WriteTypeOK /\ W!RefusedOnceEnded /\ W!SuccessIsApplied /\ W!BufferedIsWatched

(* StarRocks client: the pool in use is open but for an instant, and a     *)
(* stream load is committed once, with all its data.                       *)
ClientServesOnce == part = "client" => C!PoolInUseIsOpen /\ C!LoadIsExactlyOnce

(* Batch strategies: the limits that strategies announce are kept, except  *)
(* for the kinds that do not keep theirs, and the users of a target share  *)
(* one strategy.                                                           *)
BatchLimitsAreKept ==
  /\ part = "evaluator" => B!KeepsItsLimits
  /\ part = "strategies" => B!StrategyIsShared

(* Query service: the list of running queries is exact, and a result that  *)
(* may be partial says so, cached or not.  Pruning: what a plan leaves out *)
(* is reported, and a plan that leaves out too much is not run.            *)
QueriesAreTold ==
  /\ part = "queries" => Q!RunningListIsExact /\ Q!PartialIsMarked
  /\ part = "pruning" => N!LossIsReported /\ N!ExcessiveLossIsRejected

(* Routing: what is decided, cached or not, may serve the request.         *)
DecisionsAreSound == part = "router" => DecisionsMayServe

(* Health checker: a verdict is no older than its three caches and the     *)
(* checks that filled them make it, and what may run can reach what it     *)
(* needs, as far as that could be checked.                                 *)
VerdictsAreSound == part = "health" => H!StalenessBounded /\ H!ExecutableIsAccessible
=============================================================================
