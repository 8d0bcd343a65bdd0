# StarAvail: models and proofs

StarAvail is a proxy in front of a StarRocks cluster whose tablets have a single
replica. It keeps queries and writes going while some of the backends are down, and it
carries data from Pulsar into StarRocks in batches. This directory holds TLA+ models of
it, the TLC configurations that check them, and TLAPS proofs.

- [Inventory](#inventory)
- [What is modelled](#what-is-modelled)
- [The runs](#the-runs)
- [Bounds](#bounds)
- [Fairness](#fairness)
- [What is proved](#what-is-proved)
- [Where the code and its documents disagree](#where-the-code-and-its-documents-disagree)
- [Hazards](#hazards)
- [Not modelled](#not-modelled)
- [Plan](#plan)

All paths are under `src/internal/` unless they start with `cmd`.

## Inventory

`cmd/staravail/main.go` builds the components, starts them in goroutines and stops them
in the reverse order on a signal.

| component | state it keeps | operations | hard to get right | correct means | module |
|---|---|---|---|---|---|
| Pulsar consumer `pulsar/consumer.go` | state, paused flag, stop channel, pending map and counter, health record | Subscribe, Receive, ReceiveAsync, Ack, Nack, Pause, Resume, Close | workers against Close, two mutexes, redelivery | no acknowledgement before a handler accepted, Close drains and returns | PulsarConsumer |
| Batch aggregator, BatchManager `batch/aggregator.go` | current batch, timer, closed flag, map of partitions | AddMessage, GetBatch, Flush, Close | timer goroutines, Close with a batch half full | every message in exactly one batch, none forgotten | BatchAggregator |
| Batch strategies `batch/strategy.go` | thresholds, measured load, one strategy per target | ShouldCreateBatch, adaptation, creation on demand | boundaries, two users of one target | batches within the limits, one strategy per target | BatchStrategy, PerformanceMonitor |
| Batch controller `batch/controller.go` | status, context, queue, semaphore, backlog, dead letters | Start, Stop, SetConfig, SubmitBatch, workers, retries | resize and restart, retry goroutines, full queues | one owner per batch, bounded concurrency, Stop returns | BatchController |
| Write buffer `domain/write/buffer.go` | writes per tablet, their bytes, the snapshot on disk | BufferWrite, Flush, Remove, UpdateStatus, Clean, Persist, Restore | eviction at two limits, crash | limits respected, counter honest | WriteBuffer |
| Write retry `domain/write/retry.go` | retry entries, running flag, one goroutine per retry | RetryAll / ForTable / ForPartition, ScheduleRetry, CancelRetry, Start, Stop | stale copies of the buffer, cancel, crash | removed only when executed, attempts bounded | WriteRetry |
| Write service `application/services/write_service.go` | transactions, scheduled flushes | ExecuteWrite, ExecuteBatchWrite, BufferWrite, flushes, Begin, Commit, Rollback | commit against timeout and clean-up, two steps around a sync.Map | what is validated is refused once its transaction ended, buffered writes are watched | WriteService |
| Query service, parser, planner, pruner `application/services/query_service.go`, `domain/query/*.go` | running queries, result, parser, pruning and plan caches | ExecuteQuery, CancelQuery, Plan, Prune | partial results, caches that expire apart | a partial result says so, the loss is not understated | QueryService, QueryPruning |
| Execution engine `core/engine/engine.go` | task queues, semaphores, two answer channels per task | ExecuteQuery, ExecuteWrite, Start, Stop | two answer channels, Stop closing queues | one answer per task, and the right one | ExecutionEngine |
| Executors `core/engine/executor.go` | status, context, results | Execute, Cancel, retries, batches | cancel against success, rollback | the answer matches what was done | Executors |
| Proxy `core/proxy/proxy.go`, process `cmd/staravail/main.go` | status, goroutines, shutdown channel | Start, Stop, Wait; start and stop of everything | Stop during Start, signals | Wait returns, components stop in reverse | ProxyLifecycle |
| Router `core/proxy/router.go` | targets, decision cache, usage counts | Route, RefreshTargets | stale decisions | requests go to targets that may serve them | RequestRouter |
| Health monitor `domain/health/monitor.go` | backend and tablet health, subscribers | Start, Stop, ForceRefresh, checks, notifications | checks against Stop, unordered notifications | the published health is the last one observed | HealthMonitor |
| Tablet manager `domain/tablet/*.go` | tablet cache, status caches, repository | UpdateTabletStatus, Get*, Refresh*, HandleBackendStateChange | cache fills against invalidation, failing saves | caches agree with the repository, one backend's outage is its own | TabletManager, TabletAvailability, TabletOutage |
| Health checker `domain/health/checker.go` | cached verdicts at three levels | Check*, Analyze*Executability | lifetimes that add up | no verdict too old, what may run can reach its data | HealthChecker |
| Health service `application/services/health_service.go` | levels, issues, history, subscribers | health calls, ReportHealthIssue, Subscribe | a mutex taken twice, full channels | the level covers the findings, calls return | HealthService |
| StarRocks client `infrastructure/starrocks/*.go` | current FE, connection pool | ExecuteQuery, Ping, stream load, rotation | pool replaced under callers, lost answers | a load is committed once, nobody uses a closed pool | StarRocksClient |
| Schema registry, resolver `adapters/schema/*.go` | caches of schemas and versions, clients by name | Register, Get, Delete, fail-over, decode | answers overtaken by changes, two maps per cache | caches agree with the registry, data read as written | SchemaRegistry, SchemaResolver |
| MySQL server, protocol `interfaces/mysql/**` | connections, prepared statements, sequence numbers | accept, handle, Stop; read, write | limit and shutdown, byte counts | within the limit, Stop drains, both ends in step | MySQLServer, MySQLProtocol |
| Avro adapters `adapters/avro/*.go` | blocks of a file, records in a buffer, schemas of a reader, pool of maps | write, flush, close, read, set a schema, convert | media that fail, a crash within a block, two schemas set in either order, maps used again | what is read was written, once, in its schema; what is not, an error tells | OCFContainer, AvroBinary |
| Message conversion, HTTP, configuration, common | none that is shared, but for the rate limiter and the reload hooks | encode, decode, serve | byte formats | round trips | none, see [Not modelled](#not-modelled) |

Interactions: Pulsar consumer to aggregator to controller to StarRocks (ingestion);
MySQL and HTTP to services to engine and executors to client (queries and writes); health
monitor to tablet manager, to the pruner and to the retry manager (partial availability);
failed writes to the write buffer, and from there to the retry manager.

## What is modelled

A step of every model ends where the code takes or releases a mutex, reads or writes an
atomic or a sync.Map, waits on a channel, or calls another component. A section under one
mutex is one step unless the code waits inside it. What the code does not keep but a
property needs is a history variable, and its comment says so.

### Ingestion

**PulsarConsumer** is one `DefaultPulsarConsumer`. Threads are the application goroutines
(`call`), the workers of ReceiveAsync (`work`) and the health ticker (`ticker`).
`setStateInternal` holds StateMutex while it waits for HealthCheckMutex, so the owner of
StateMutex is a variable (`stateLock`). `ReceiveTake` raises the counter and
`ReceiveStore` fills the map, as the code does in two steps; `SettleCheck`, `SettleSend`
and `SettleDrop` are the steps of Ack and Nack. The broker is external: `BrokerPush`
delivers a message again for as long as it is not acknowledged.

**BatchAggregator** holds `DefaultBatchAggregator` (the batch under construction, the
goroutine of its timer, the expiry task), the two aggregators that keep one of them per
table and partition, and `BatchManager` with its loops. A producer asks for its aggregator
and adds in two steps; a timer that fired waits for the mutex while the batch changes
(`fired`, `rang`). A message is in a batch, in the hand of a loop, processed, or lost in
one of the named ways (`Ways`).

**BatchStrategy** has two parts without common state: an evaluator that is asked for every
message, over loads, times and sizes; and the manager that creates a strategy on first use.
The factory nests strategies by recursion; in the model a strategy is a sequence of nodes,
each behind those it asks, so that no recursive operator is needed. The runs try simple
ones, hybrid ones of either kind, adaptive ones over a simple and over a hybrid one (the
shape of the default configuration) and hybrid ones over these. **PerformanceMonitor** is
the goroutine that measures the load.

**BatchController** is `DefaultBatchController` with its workers, retry goroutines,
background loops and dead letters, and threads that start, stop and resize it. SetConfig
holds `c.mu` while it waits for the workers; its owner is the variable `mu`. `epoch` and
`live` stand for `c.ctx`: SetConfig makes a new one, Stop and SetConfig cancel it.
SubmitBatch counts its batch after the channel operation (`uncounted`, `CountBacklog`).
`outcome`, `accepted` and `attempts` are history.

### Writes

**WriteBuffer** is `WriteBufferImpl`: every method runs under one mutex and is one step.
`buffer` is the map from write to status, retry count and age; `bytes` is the counter
next to it, which counts a resubmitted ID twice. Eviction is the code's (`Victims`), once
for the count and once for the bytes; ties are broken either way. `disk` is the snapshot.

**WriteRetry** extends it with `RetryManagerImpl`: a pass takes a copy of the buffer
(`RetryPass`) and judges by that copy; ScheduleRetry enters the retry, and then marks the
write and starts the goroutine; `executeRetry` waits, looks for the write among the newest
one (the code asks for a page of one), executes and settles. `Crash` replaces everything in
memory by the snapshot.

**WriteService** is the application's service over interfaces: the strategies of
ExecuteWrite, ExecuteBatchWrite and BufferWrite, which look at neither the transaction nor
the system's health, attempts on a batch with retries and delays (`AttemptSucceeds`,
`AttemptFails`), the transactions table, whose records are read, acted on and stored in
three steps, the time-outs and clean-ups, and the flushes that are scheduled through a
sync.Map in two steps (for writes with a buffer timeout; the others wait for the periodic
flush). What a flush sends counts as applied (`Sends`), also when the flush fails. An
answer of StarRocks may be lost after the write was applied.

### Queries

**QueryService** goes through ExecuteQuery as the code does: cache, registration,
validation, health, plan, execution, storing the result; cancellation loads the entry,
calls the client and stores the entry again.

**QueryPruning** computes the conditions on partitions and buckets of a WHERE clause
(`extractConditionsFromExpr`), the clause that leaves out what is unavailable, the
estimated loss and the plan, for every availability, with the three caches that expire
apart. The pruner takes `MOD(CRC32(key), 16)` for a bucket whatever the number of buckets
of the table is; in the model "the bucket" means that number.

**RequestRouter** selects a target by the strategies, hints and consistency of the code;
decisions are cached under a key that holds neither hints nor consistency.

**ExecutionEngine** has two queues, a pool of workers and a semaphore for each, and for
every task a result and an error channel. A worker sends on one channel (`Send`) and
closes the other (`CloseOther`); the caller's select may choose any channel that is ready
(`Receive`). Stop is three steps, and a Start may come between them. **Executors** are
what runs below: the query, write and batch executors with their contexts, statuses,
retries and rollbacks, and a caller that cancels in three steps.

**StarRocksClient**: the field `db` is read and replaced without a lock, so a pool is
opened, tested, closed and stored in steps; a stream load may be committed and its answer
lost, and is then repeated.

**MySQLServer** is the accept loop, one handler per connection with its prepared
statements, and Stop. **MySQLProtocol** is one connection seen byte by byte: packets cut in
chunks and numbered, the handshake, each command's handler as the sequence of messages it
writes, the grammar of the answers by which a client reads them, and the layout of
parameters and binary rows. A binary row is laid out by the types that WriteBinaryRow is
handed, which are those of the parameters (`EncodedAs`), and a value of another type is
rendered as that type (`Rendered`). Chunk size and number range are scaled down.

**SchemaRegistry** composes the high-availability client over a Confluent client per
node, each with its caches, over a store that changes only by requests; requests fail
before or after they take effect. **SchemaResolver** keeps schema and expiry in two maps;
each load, store and deletion is a step, the clean-up goroutine deletes between them, and
a decode chooses its schema by what it finds.

**OCFContainer** is a container file: a writer that collects objects into blocks, a file
of tokens (a block is count, size, data and sync marker, each written by one call), and a
reader. bufio and the medium are external: a write fails at any token and then for ever,
and `Leave` ends the application with a part of what bufio holds. **AvroBinary** is the
writer and the reader of single records: a buffer that is encoded from its first record on
at each flush, two schemas set in any order, the resolution of one into the other with its
pool of maps, and batches.

### Partial availability

**HealthMonitor** polls the frontend in two loops and on ForceRefresh, keeps the last
answer, judges it, and passes every change on from a goroutine of its own; StopMonitoring
waits under the mutex. **TabletManager** keeps tablets over a repository that may fail,
and statuses of a partition, its table and its database built from each other; the
repository of partitions may fail as well (`PartitionsFail`), which ends the status of a
table, makes a database unavailable, and leaves a refresh with nothing to refresh but the
caches to clear.
**TabletAvailability** composes the two: each change the monitor sees becomes a call of
HandleBackendStateChange that may run in any order.

**TabletOutage** is the abstract specification of the composition: a tablet only takes
the state of a backend that decides on it and that was heard to be in that state, or is
changed by somebody else. `OutageIsLocal` in TabletAvailability is its `Spec`,
instantiated with `state <- repo` and `others <- touched`; the run checks that every step
of the composition is a step of it.

**HealthChecker** computes verdicts on tablets, partitions and tables and the executability
of queries and writes. A check begins, takes the results of the level below one at a time,
or passes over those that fail, and stamps its own result at the end (`CheckTableHealth`,
`TakePartition`, `CacheTable`); a call of the level below is a checker of its own. What a
check holds ages while it runs, for as long as `CheckTimeout`: the calls of the tablet
manager are taken to return when their context ends. Each result carries the age of the
oldest data behind it as history, counted from the call of the tablet manager, whose own
caches are not counted. `CacheEnabled` is taken to be set. **HealthService** is the health
calls of six scopes with their issues, history and subscribers; `ReportHealthIssue` takes
its mutex twice, and the call stays there.

**ProxyLifecycle** is the proxy's Start, Stop and Wait with the goroutines they launch,
and main with its four components, the half second it waits for early failures, and its
stop in reverse. A stop that fails is logged and passed over; its component may run on
(`Outcomes`). Nothing is assumed of a stop that does not return: `StopNext` then never comes.

## The runs

Between them the passing runs fire every action of every module.

| run | what it asks | distinct states |
|---|---|---|
| MCPulsarConsumer | AckedOnlyAfterHandled, WorkersHoldLiveConsumer, PendingMetricCoversMap | 1.09 M |
| MCPulsarConsumerClose | CloseCompletesUnlessEmbraced | 41 k |
| MCWriteRetry | AttemptsBounded, with two callers and stale copies | 899 k |
| MCWriteRetryCrash | RemovedAfterExecution, AcceptedWriteLeaves, with a crash | 150 k |
| MCWriteRetryStuck | RetryingIsLive is violated | |
| MCBatchController | ProcessingWithinLimit, OneOwner, NothingForgotten, BacklogCoversQueue | 766 k |
| MCBatchControllerLive | StopCompletes, AcceptedSettles, SetConfigCompletesUnlessEmbraced | 148 k |
| MCBatchControllerRetries | RetriesBounded is violated | |
| MCExecutionEngine | ExecutingWithinLimit, AnswerTellsOutcome, EveryTaskIsAnswered | 107 k |
| MCTabletAvailability | CacheFollowsRepository, StatusFollowsTablets, TabletsFollowTold, and the refinement OutageIsLocal | 914 k |
| MCRequests | the components a request passes through, see below | 963 k |
| MCLifecycles | the components that start and stop, under fairness, see below | 41 k |

`MCRequests` and `MCLifecycles` put components side by side that share nothing. A
variable `part`, chosen in `Init`, says which of them runs; the others stand still, so that
the states are the sum of the components' and not their product. Each property is one
component's (or two related components') and is asked of its part only. `MCRequests` takes
its components from two modules, **Requests** (what a query or a write passes through) and
**Formats** (what agrees with another program on a form of the data, by a variable `format`
of its own), and adds BatchAggregator; the theorems are about these modules, and the MC
module only gives values.

| property of MCRequests | part | says |
|---|---|---|
| CountWithinLimit, BytesWithinLimit | buffer | both limits hold, and the byte counter never understates |
| ExecutorsAnswerTruly | executors | an answer says what was done: success means applied once and committed, a cancelled or failed batch leaves nothing behind or says so |
| WritesKeepPromises | writes | a write that is validated after its transaction's end was told is neither sent nor buffered; a success was applied; a write buffered with a timeout has a flush ahead |
| ClientServesOnce | client | the pool in use is open but for the instant of its replacement; a load is committed once with all its data |
| RegistryIsFollowed | registry, registries, resolver, resolvers | a schema cached under an ID is that ID's; the latest is the service's but for the named races; a resolver serves nothing past its lifetime and decodes as written; users share one client |
| BatchesKeepMessages | aggregator | an accepted message is in one place; a full batch takes no more; no batch is without a timer but in the named case |
| BatchLimitsAreKept | evaluator, strategies | announced limits are kept, but by a hybrid strategy that requires all and after an adaptation; all simple maxima together always end a batch; users of a target share its strategy |
| ProtocolInStep | protocol | client and server agree on numbers, grammar, status; parameters are read where they were written, but for the times before them, and binary rows too as long as they are encoded by the announced types; types follow names, but for two |
| QueriesAreTold | queries, pruning | the list of running queries is exact; partial results say so; what a plan leaves out is counted, and too much is rejected |
| AvroComesThrough | container, encoder, decoder | a conversion hands over what was written, in order and once; what a Flush covers is read or an error told, but in the named cases; a record is decoded in its writer's schema, and returned or told of |
| DecisionsAreSound | router | every decision, cached or not, may serve the request |
| VerdictsAreSound | health | a verdict is no older than three lifetimes and the times of the checks between them; what may run can reach what it needs, as far as that could be checked |

| property of MCLifecycles | part | says |
|---|---|---|
| SessionsAreCounted | server | the counter covers the handlers; a handle denotes the statement it was given for |
| HealthIsJudged | monitor, health | the published health is that of the last report; a level is at least as bad as each finding |
| StopsInReverse | main | components stop in the reverse order of their start; one whose stop failed or came too early may run on |
| StopsReturn | server, monitor, proxy, load | every Stop returns, but in the cases named where `Stopping` is defined |
| AcceptedLeaves | aggregator | an accepted message is processed or lost in a named way |
| HealthyCallsReturn | health | a health call without findings returns |

Where the code does not keep a promise, the property names the exact case in which it
does not (a variable such as `excused`, `missed`, `overlap`, or a suffix `Unless...`), and
the case is listed [below](#where-the-code-and-its-documents-disagree).

## Bounds

- Consumer: two workers and two callers are the smallest number in which two workers
  hold the same message, and Close races another method. One message pushed twice covers
  redelivery while the first copy is in hand. `PendingFloor` ends the explicit
  acknowledgements of an application, which could lower the counter for ever.
- Retry: `MaxRetryAttempts` of one and two callers are the least for which the count
  passes the limit; two writes are needed for one that is not the newest. Crash and
  liveness use one retry per process.
- Controller: a queue and a semaphore of one make both full; two workers compete; two
  contexts and two starts give a resize, a stop and a start again. `MaxFailures` is
  StarRocks failing a batch finitely often, which liveness needs.
- Engine: two tasks of one kind, since the kinds share only the engine's life; a queue and
  a semaphore of one; two slots for workers and a pool of one let the workers of two Starts
  meet; two threads that start and stop reach every order of their steps.
- Tablets: two backends, one of them primary of a tablet that both hold, the other deciding
  by majority; three reports, so that a state comes back and notifications overtake each
  other; one failing call of the repository, one status or update call beside the two
  notifications in flight.
- Buffer: four writes, one of which fills the buffer alone, limits of two writes and four
  bytes: either limit, both, and an oversized write occur. `MaxStamp` bounds submissions.
- Requests: two callers in each part with concurrency, one failure or retry more than the
  code allows, and one cache key or ID more than one caller uses. Writes: two writes, one
  transaction, two batches. Client: two FEs, so that the rotation wraps. Registry: two
  nodes, two schemas, two versions, two calls with one retry each: enough for a call to be
  overtaken by another on either node. Resolver: two callers, a lifetime of one tick and
  a clock of two, so that an entry expires and is renewed between the two loads; one
  look-up may precede. Aggregator: two tables, a message that fills a batch and one that
  does not, one loop. Protocol: chunks of three bytes and four numbers; the sizes run from
  zero past one chunk, and the numbers wrap around. Pruning: two partitions and two
  buckets with every availability, and an OR over both columns. Router: two configurations
  in different orders. Checker: one table of a partition with a tablet and one without,
  two replicas, a lifetime of two and checks of one unit, one check at a time beside the
  clock: the bound on the age is reached. Strategies: three levels of nesting.
- Avro: blocks of two objects, one of them of no bytes and one that does not fit the
  schema, so that a block is cut off, refused, or kept for the next call; one end marker;
  the reader may start a second pass. Three schemas set three times: the codec of a third
  can stay behind. Two records read in batches of two, in two passes, so that a map comes back.
- Lifecycles: one message that does not fill a batch; two clients and a limit of one; two
  backends; two calls of the health service, one of them the monitoring goroutine's.

`CHECK_DEADLOCK FALSE` is there because every bounded model comes to rest: the consumer
is closed, the bound on submissions is used up, the controller is stopped. That something
comes to rest too early is what the liveness properties look for. Symmetry is used in
safety runs and in MCTabletAvailability, whose only action property treats the threads
alike; never with a liveness property.

## Fairness

Goroutines are scheduled, timers fire, external calls return. Where goroutines compete for
a mutex again and again, or a select passes a ready case over again and again, the models
assume strong fairness: Go's mutex hands over to a waiter that has starved for a
millisecond, and select chooses among ready cases at random. Nothing is assumed of
applications, clients, the broker, or a crash: nobody has to start, stop, or submit
anything, and a client may stay silent for ever (which is why StopsReturn names the
connection that nobody closes).

## What is proved

Every safety property that the runs check is a theorem of its specification; liveness is
[model-checked](#only-model-checked). A theorem holds for every value of the constants
under the named assumptions of the modules: sets that are counted are finite, limits and
lifetimes are numbers (and `CacheTTL`, `NodeCount` and the batches of a write are not
zero), a special value is none of the identities (`NoBackend`, `NoTx`, "none"), a list that
is handed to an Avro writer is a sequence (`ObjectAssumption`, `RecordAssumption`), a MySQL
packet has room for two bytes and there are two sequence numbers at least
(`ProtocolAssumption`), and what a configuration gives has its form (`EvaluatorAssumption`:
a configuration is finite, and each node in it is asked by a later one but the last). TLC
evaluates each of them in the runs.

The components of `Requests` and `Formats` are proved about as they are checked, side by
side: the invariant of a part is an implication from `part` (or `format`), and what the
part does not touch is a frame lemma. `RequestsProofs` also holds what is proved of
`PulsarConsumer`, whose messages the writes come from: `Spec` and `TypeOK` are that module's
there. Of `Formats`, the schema and Avro parts are proved in `FormatsProofs`, the MySQL
protocol in `ProtocolProofs`.

| theorem | says | the invariant, and why it is needed |
|---|---|---|
| RequestsProofs!TypeCorrect | `[]TypeOK` | inductive with the hands of the workers |
| RequestsProofs!AckSafety | `[]AckedOnlyAfterHandled` | a worker at "ack" or "acking" holds a handled message, a caller settles handled messages only, and auto-acknowledgement happens past CloseStop |
| RequestsProofs!WorkersSafe | `[]WorkersHoldLiveConsumer` | `ConsumerOrNoWork`, see below |
| RequestsProofs!HealthMirrors | `[]HealthMirrorsState` | who owns StateMutex stands at a locked point of a method, and only its owner changes the state |
| RequestsProofs!MetricSafety | `[]PendingMetricCoversMap` | `CountInv`: workers that have counted and those that have left an entry behind are disjoint sets, and their sizes add up to the counter at most |
| RequestsProofs!CountSafe | `BufferSpec => []CountWithinLimit` | eviction leaves room for one, as `Victims` of a non-empty set is not empty; the snapshot obeys the limit as well |
| RequestsProofs!BytesSafe | `BufferSpec => []BytesWithinLimit` | at least the sum of the sizes, and the limit but for a single write. `BytesInv`: the counter covers the bytes of buffer and snapshot; the sum is shown to be the size of the set of all bytes, and evicting the victims frees what the counter says |
| RequestsProofs!ExecutorSafety | `[]ExecutorsAnswerTruly` | `ExecutorsInv`: at every point of every executor, what was applied is what the answer to come owes, less what was applied and not answered |
| RequestsProofs!WriteSafety | `[]WritesKeepPromises` | `WriteServiceInv`: what each call owes its caller (`CallsOK`), that whoever knows of a transaction's end was told after it was stored (`TransactionsOK`), that a write buffered with a timeout has a goroutine on its way (`FlushesOK`) |
| RequestsProofs!ClientSafety | `[]ClientServesOnce` | `PoolInv`, `LoadInv`: a closed pool is in use only while the goroutine that closed it has not stored its own; a label is committed by the first of its attempts |
| RequestsProofs!StrategySafety | `[]BatchLimitsAreKept` | what a node answers exists for strategies of any length, and goes up the nesting from node to node by the smallest at which it would not; `EvaluatorInv`: the strategy is a created one; `ManagerInv`: users hold what the map has, or what a replacement took from it |
| RequestsProofs!QuerySafety | `[]QueriesAreTold` | `QueryServiceInv`: who is listed runs, and each cached result carries its mark; `PruningInv`: each cached plan reports what it leaves out, also when the three caches expire apart |
| RequestsProofs!RouterSafety | `[]DecisionsAreSound` | `RouterInv`: the targets are those of some configuration, and what is cached or about to be cached may serve (`Serves`); that the scans of the router lose no target is the work, see below |
| RequestsProofs!VerdictSafety | `[]VerdictsAreSound` | `CheckerInv`: each level adds the time of its check and of its cache, also to what a check holds; each condition of the analysis only takes away |
| BatchControllerProofs!ConcurrencyBounded | `[]ProcessingWithinLimit` | the semaphore's length equals the number of workers past it |
| BatchControllerProofs!BacklogHonest | `[]BacklogCoversQueue` | the queue is covered by `backlog + uncounted` less the workers that have taken and not yet subtracted |
| BatchControllerProofs!OwnerSafety, NothingLost | `[]OneOwner`, `[]NothingForgotten` | `OwnerInv`: the queue has no batch twice, and queue, hands, submissions, delays and terminal states exclude each other; the second needs in addition that a batch whose context lives is in one of them |
| ExecutionEngineProofs!TypeCorrect | `[]TypeOK` | with the semaphores, which a release must not take below zero |
| ExecutionEngineProofs!ConcurrencyBounded | `[]ExecutingWithinLimit` | each semaphore equals the number of workers with the service |
| ExecutionEngineProofs!AnswersTrue | `[]AnswerTellsOutcome` | a task is in one place: unsubmitted, in one queue once, in one hand, or settled; what is in the first two has no outcome, and the channels carry what the outcome says |
| WriteRetryProofs!RemovalSafe | `[]RemovedAfterExecution` | a goroutine past ExecuteOk has its write in `executed`, and no entry is marked SUCCEEDED otherwise |
| WriteRetryProofs!AttemptsWithinLimit | `[]AttemptsBounded` | the count of a write is at most `MaxRetryAttempts - 1` plus the callers that are not about to mark it: who is has seen a count below the limit, and each call counts once |
| TabletAvailabilityProofs!OutageIsImplemented | `Spec => OutageIsLocal` | the refinement: the initial states map to initial states, and every step to a step of `TabletOutage` or a stutter, under `HeardInv`: every update in flight carries a state that its backend was heard to be in, or a reason in `touched` |
| TabletAvailabilityProofs!StatusSafety | `[]StatusFollowsTablets` | inductive with the shapes of the threads |
| TabletAvailabilityProofs!CacheSafety | `[]CacheFollowsRepository` | `CacheInv`: one update at a time is between its look-up and its last write, and what each fill has read is accounted for |
| TabletAvailabilityProofs!ToldSafety | `[]TabletsFollowTold` | `ToldInv`: the tablets of a backend that the running note has still to go through are exactly those that may differ from what was told; two notes at once, missed and touched tablets and backends that do not decide are excepted |
| LifecyclesProofs!StopOrderSafety | `[]StopsInReverse` | `MainInv`: the loop has been to a component only if it has been to all behind it, whether or not their stops succeeded |
| LifecyclesProofs!SessionSafety | `[]SessionsAreCounted` | `CounterInv`: the counter is the number of connections between their two updates of it; `StatementInv`: an ID above those of a session's statements is free |
| LifecyclesProofs!HealthSafety | `[]HealthIsJudged` | `HealthInv`: what a check holds between its two sections; the level of a scope covers each of its findings by the order of the levels |
| LifecyclesProofs!BatchSafety | `AggregatorSpec => []BatchesKeepMessages` | `LocalInv`, `PlacesInv`: a message is in one kind of place, in one of that kind and there once; who will look at an open batch is followed through the timer and the goroutine it started |
| FormatsProofs!RegistrySafety | `FormatsSpec => []RegistryIsFollowed` | `RegistryInv` and `ResolverInv`, see below |
| FormatsProofs!AvroSafety | `FormatsSpec => []AvroComesThrough` | `EncoderInv`, `DecoderInv` and `ContainerInv`, see below |
| ProtocolProofs!ProtocolSafety | `FormatsSpec => []ProtocolInStep` | `ProtocolInv`: what is on its way to the client is what remains of the answer, see below |

`WorkersHoldLiveConsumer` is not inductive: what keeps ReceiveAsync's late workers off a
consumer that Close has set to nil is that StopChannel is closed by then. The
strengthening says that whoever is past the loop head while the consumer is nil has
found no message, that the consumer becomes nil only after the stop, and that Close
cannot pass `CloseDrain` while a worker runs.

`CachesFollowRegistry` needs two halves. `HoldsInv`: a cache, and an answer on its way into
one, has under an ID the schema of that ID; IDs are never given twice (`Grows`), so this
stays. `CurrentInv`: as long as nothing excuses it, the caches of the node that served last
are current when no change is on its way to them, the shared one when none is between
request and sharing, and an answer that was given since the last write of the store is
current. A deletion or registration makes every earlier answer worthless, which is why the
clause about answers compares `since` with `writes`.

`ServedIsFresh` and `DecodedAsWritten` need to know which call stands between the two maps
of the resolver's cache (`CachesInv`), and at each point of a call what it has in hand and
may still write (`Sound`).

`DecisionsAreSound` is about four scans over the list of targets: the filter, the one that a
strict write makes, the least used of the writable, and the best so far with the fallbacks
behind it. Each is a fold of the community modules. The proof shows that the recursive
function in the fold exists over the sets of places of the list, reads off what it holds
after each place (`Follows`), and carries an invariant of the scan from place to place:
what has been passed is the best or a fallback (`Names`). Both are by the smallest place
at which they would fail. `RouterAssumption` says only that a configuration is a sequence.

`AvroComesThrough` has three halves, and none is inductive. The encoder's (`EncoderInv`):
until the application repeats a failed append, the buffer is the end of what was handed and
what is encoded comes before it in the same order, but for a record that a failed flush has
passed on in part (`Collects`). The decoder's: the maps that are out and those that are in
the pool are different ones (`InPlaces`). The container's (`ContainerInv`) speaks of the
file alone, as the reader does: there is an `off` such that the first i tokens hold the
first `off[i]` objects that were taken (`Holding`), and wherever a header, a block or an
end may begin, one does, of which the last tokens may be missing (`Shape`). Two lemmas
carry it: a cut at any token, which is what a crash and a write that fails leave behind,
keeps the shape (`CutKeepsShape`), and so does a write of the next unit behind a file that
ends with a whole one (`UnitBehind`). That the file is whole when the writer thinks so is
`InHand`, up to where the last success vouches is `Vouches`, and where the reader stands is
`ReadTo`. TLC has checked the invariant, with `off` computed from the file, before it was
proved.

`ProtocolInStep` speaks of what client and server have exchanged; its invariant
(`Conversation`) of what is still under way, as long as no message was aligned. The packets
on their way to the server are full but for the last, and numbered from the server's
sequence on (`Incoming`); while the server owes an answer nothing is on its way back, and
the client's number is the server's plus the packets that are to come (`AwaitedOK`). Then
the packets on their way to the client carry what remains of the answer behind the messages
read and the bytes of the one being read (`BeingRead`, `Carries`): each packet is assigned
a message and the bytes before it (`Spread`). What `WriteAll` puts on the wire carries the
whole answer, for a list of messages of any length and sizes, by passing from message to
message (`OneMore`); reading a packet leaves the rest (`OneIsRead`). That the client stops
in time is a fact of the grammar: each handler's answer is complete, no proper part of it
is (`Answers`, proved for every number of columns and rows), and it ends in the session's
status unless it is a result set (`Tells`). The half about values is about sums: with the
times before it counted, the sum of the sizes read is that of the sizes sent, for every
list of parameters (`ParametersInPlace`); for a row this holds up to the first value whose
parameter type is not its column's (`RowsInPlace`). `ProtocolAssumption` leaves out what
would make a packet of one byte full and every number the same.

Three kinds of argument come back. Counters are shown equal to, or bounded by, the
cardinality of a set of actors, whose changes the theorems on finite sets follow. A sum
over a set (`Bytes`, `BatchBytes`) is the fold of the community modules; the proof shows
that the recursive function in it is the one that counts a set of pairs, by the smallest
set on which the two would differ (well-founded induction in the form of `WFMin`, which
takes a set and no operator). A greatest or least element (`LatestVersion`, `Min`) exists
by the same argument.

### Only model-checked

Liveness and what needs ENABLED: CloseCompletesUnlessEmbraced, AcceptedWriteLeaves,
StopCompletes, AcceptedSettles, SetConfigCompletesUnlessEmbraced, EveryTaskIsAnswered,
StopsReturn, AcceptedLeaves, HealthyCallsReturn.

## Where the code and its documents disagree

`PROJECT.json` lists each finding with its lines and the comment it contradicts. Two are
runs of their own, in which TLC finds the violation:

1. **RETRYING for ever** (`MCWriteRetryStuck`). A retry that gives up after its backoff
   does not give the write its status back, and later passes skip it.
2. **The retry count** (`MCBatchControllerRetries`). A retry is submitted as a new batch
   with a count of zero: `BatchRetryCount` bounds nothing.

Most others are cases that the properties of passing runs name and leave out; without the
exception TLC finds them violated. A few were only met while reading, and name no run. The
gravest:

- **Mutexes.** The consumer takes StateMutex and HealthCheckMutex in both orders; the
  controller's SetConfig and the monitor's StopMonitoring wait for goroutines under the
  mutex these need; `ReportHealthIssue` takes issuesMutex twice. In each case somebody
  waits for ever.
- **Tablets.** When Save fails, the cache keeps a state that was never stored and the
  same update, repeated, returns early. A table none of whose partitions could be read is
  announced available.
- **Aggregator.** `IsBatchReady` takes the ready batches and drops them; Close drops the
  batch under construction; a timer that fires on an empty batch is not armed again.
- **Strategies.** The default adaptive strategy cannot be created, and an adaptive
  strategy changes the limits it announces and not those it decides by. A hybrid strategy
  that requires all announces limits at which it creates nothing.
- **StarRocks client.** A write through ExecuteQuery is executed twice; a repeated stream
  load of the FE client sends what the first attempt has left of the body.
- **Write service.** Commit does not look at the status of the transaction; nor do
  ExecuteBatchWrite, BufferWrite and the buffer strategy, whose writes are sent in a
  transaction that has ended; a buffered write is preprocessed twice.
- **Write buffer.** A snapshot's keys are split at the dots: what lies under a name with a
  dot is dropped, or restored under another key.
- **Query service.** The result cache does not tell callers who refuse partial results
  from those who accept them; a late cancellation leaves an entry for ever.
- **Router.** Which targets a strict write may use depends on their order.
- **MySQL.** A statement's ID is the number of open ones and may come to denote another;
  a packet of length zero is not counted; a result ends with status 0 whatever the
  session's is; BIGINT and DATETIME are announced as LONG and DATE; the columns of a prepared
  statement's rows are encoded by the types of its parameters.
- **Schemas.** Unframed data that begins with a zero byte loses five bytes; data with an
  older schema's ID is decoded in its own schema or in the latest depending on which call
  has filled the cache.
- **Avro.** Reading a block before the header waits for ever on the reader's own mutex;
  a block of no bytes is written and refused; blocks written after Close lie behind the
  end; a flush that failed part of the way encodes its first records again; a map goes back
  to the pool before its caller has seen it; records that share a field of a plain type are
  never compatible; a failing batch drops the records it has read.
- **Health.** `status_change` is not announced, as the level is stored before it is
  compared; a dead backend ends as degraded, overwritten by its old heartbeat. A table none of
  whose partitions could be checked is writable.
- **Proxy and main.** A Stop during Start leaves a stopped proxy that says running; a
  component that fails after half a second stops nobody.

A comment of the engine (`core/engine/engine.go:804`) says that a nil result "shouldn't
happen if the channels are used correctly". `Receive` shows that it does: a worker that
failed has sent the error and closed the result channel, and a caller that finds both ready
may choose the closed one. `AnswerTellsOutcome` says what is left: the caller is never told
the opposite of what happened.

## Hazards

`PROJECT.json` lists what a test would hardly reach, with the properties that watch each
of them. Smaller ones that the list leaves out, and no property watches:

- a second pair of opposite mutex orders in the consumer (`pulsar/consumer.go:1571`), whose
  error statistics are not modelled;
- an Ack by the application that passes the readiness check before Close sets
  `c.Consumer` to nil (`pulsar/consumer.go:1001`), and a Nack that Close refuses while it
  waits (1146);
- a second Stop of the retry manager, which closes `stopCh` again
  (`domain/write/retry.go:733`);
- two persists of the buffer that write one temporary file
  (`domain/write/buffer.go:627`);
- caches that are written under a read lock (`domain/query/pruner.go:937`,
  `domain/query/planner.go:398`, `domain/query/parser.go:1160`): Go ends the process when
  two goroutines write a map at once; the models take each hit for one step.

## Not modelled

- **Pulsar message conversion**: conversions between byte formats, per call and without
  shared state. What it computes is a matter of types and bytes, not of orders of steps.
- **HTTP router, handlers, middleware**: they decode requests and encode answers around
  the services that are modelled. The rate limiter is their only state.
- **Configuration**: structures, reading and validating; the loader's reload hooks are the
  only control.
- **Common**: declarations of interfaces and types, logging, metrics, errors.

Left out of modelled components: texts (SQL, error messages), statistics and metrics,
backoff times, the flow control of the controller (nothing reads its ratio), the hour after
which a batch's context expires, the second `Stop` of the retry manager, the error
statistics of the consumer and its multi-topic manager, subscriptions and alerts of the
monitor, compatibility rules and the JSON and Protobuf resolvers of the schema adapters,
the converter's caches of schemas and codecs, its CSV and struct conversions and its
detection of a format, verdicts of the checker on backends and the cluster and its mode
without caches, names with a dot in the keys of a buffer's snapshot, metadata requests of
the StarRocks clients. Several source files do not compile as they stand; where a line is
an evident slip (an `ok` of type error in `adapters/schema/resolver.go:343`) the model
follows what is meant.

## Plan

What is left, in the order of weight:

1. The composition of BatchAggregator with BatchController, so that "processed" of the one
   is "submitted" of the other.
