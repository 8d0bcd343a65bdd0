--------------------------- MODULE BatchController ---------------------------
(***************************************************************************)
(* internal/batch/controller.go: DefaultBatchController, its worker pool,  *)
(* its retries and its dead letter queue.                                  *)
(*                                                                         *)
(* Threads: the applications' SubmitBatch calls, the workers, one goroutine*)
(* per retry, the background loops, the reader of the dead letters, and the*)
(* callers of StartProcessing, StopProcessing and SetConfig.  c.mu is held *)
(* across a wait by SetConfig only; every other section under it is one    *)
(* step, taken while nobody holds it.                                      *)
(*                                                                         *)
(* Left out: flow control, whose throttle ratio nothing reads, and the one *)
(* hour after which the context of a batch expires by itself.              *)
(***************************************************************************)
EXTENDS Integers, FiniteSets, Sequences

CONSTANTS
  Batches,               \* the batches applications submit
  Workers,               \* bound: slots for worker goroutines
  Callers,               \* threads that call Start, Stop and SetConfig
  None,                  \* no batch, no lock owner
  Configs,               \* the configurations SetConfig may be given
  MaxQueueSize,          \* capacity of BatchQueue and of DeadLetterQueue
  MaxConcurrentBatches,  \* capacity of the semaphore
  MaxEpochs,             \* bound: contexts made
  MaxStarts,             \* bound: calls of StartProcessing
  MaxFailures            \* bound: ProcessBatch fails a batch at most so often

ASSUME ControllerAssumption ==
  /\ IsFiniteSet(Batches) /\ IsFiniteSet(Workers) /\ IsFiniteSet(Callers)
  /\ None \notin Batches \cup Callers
  /\ Configs \subseteq [pool : Nat, retries : Nat, deadLetters : BOOLEAN]
  /\ MaxQueueSize \in Nat /\ MaxConcurrentBatches \in Nat
  /\ MaxEpochs \in Nat \ {0} /\ MaxStarts \in Nat /\ MaxFailures \in Nat

VARIABLES
  status,    \* c.CurrentStatus
  mu,        \* the caller of SetConfig that holds c.mu while it waits, or None
  epoch,     \* which c.ctx this is: SetConfig makes a new one
  live,      \* c.ctx has not been cancelled
  config,    \* c.Config
  queue,     \* c.BatchQueue
  worker,    \* per worker: program point, batch in hand and its retry count
  sem,       \* len(c.semaphore)
  submit,    \* per batch: an application's or a retry's SubmitBatch, between
             \* its status check and its channel operation
  delay,     \* per batch: the context a retry goroutine waits on, or 0
  uncounted, \* SubmitBatch calls that have enqueued, not yet counted
  backlog,   \* CurrentBacklogSize, in batches
  loops,     \* the background loops of c.wg
  caller,    \* per caller: the call in progress
  dead,      \* c.DeadLetterQueue
  starts,    \* calls of StartProcessing that started
  accepted,  \* batches SubmitBatch has enqueued
  outcome,   \* per batch: what became of it
  attempts   \* per batch: times ProcessBatch was called

lifeVars  == <<status, mu, epoch, live, config, loops, caller, starts>>
flowVars  == <<queue, worker, sem, submit, delay, dead>>
countVars == <<uncounted, backlog>>
pastVars  == <<accepted, outcome, attempts>>
vars == <<lifeVars, flowVars, countVars, pastVars>>

Status  == {"idle", "running", "stopping", "stopped"}
Points  == {"off", "idle", "got", "begin", "process", "ok", "err"}
Off     == [at |-> "off",  batch |-> None, retries |-> 0]
Ready   == [at |-> "idle", batch |-> None, retries |-> 0]
NoCall  == [at |-> "none", ctx |-> 0, retry |-> FALSE]
Quiet   == [at |-> "none"]

\* A context made in epoch e has been cancelled.
Cancelled(e) == e # epoch \/ ~live

-----------------------------------------------------------------------------
(* StartProcessing, StopProcessing and SetConfig.                          *)

PoolOff == \A w \in Workers : worker[w] = Off

\* startWorkerPool: n more workers.
StartWorkers(n) ==
  \E S \in SUBSET {w \in Workers : worker[w] = Off} :
    /\ Cardinality(S) = n
    /\ worker' = [w \in Workers |-> IF w \in S THEN Ready ELSE worker[w]]

\* The workers, the flow control loop and the reporter start; c.ctx stays what
\* it is, cancelled or not.
StartProcessing(c) ==
  /\ caller[c] = Quiet /\ mu = None /\ starts < MaxStarts
  /\ status # "running"
  /\ status' = "running"
  /\ starts' = starts + 1 /\ loops' = loops + 2
  /\ StartWorkers(config.pool)
  /\ UNCHANGED <<mu, epoch, live, config, caller, queue, sem, submit, delay, dead, countVars,
                 pastVars>>

GoTo(c, at) == caller' = [caller EXCEPT ![c].at = at]

StopBegin(c) ==
  /\ caller[c] = Quiet /\ mu = None
  /\ status \notin {"stopped", "stopping"}
  /\ status' = "stopping"
  /\ GoTo(c, "cancel")
  /\ UNCHANGED <<mu, epoch, live, config, loops, starts, flowVars, countVars, pastVars>>

StopCancel(c) ==
  /\ caller[c].at = "cancel" /\ GoTo(c, "workers")
  /\ live' = FALSE
  /\ UNCHANGED <<status, mu, epoch, config, loops, starts, flowVars, countVars, pastVars>>

\* workerWg.Wait, then wg.Wait.
StopWait(c) ==
  /\ \/ caller[c].at = "workers" /\ PoolOff /\ GoTo(c, "loops")
     \/ caller[c].at = "loops" /\ loops = 0 /\ GoTo(c, "finish")
  /\ UNCHANGED <<status, mu, epoch, live, config, loops, starts, flowVars, countVars, pastVars>>

StopFinish(c) ==
  /\ caller[c].at = "finish" /\ mu = None
  /\ status' = "stopped"
  /\ GoTo(c, "none")
  /\ UNCHANGED <<mu, epoch, live, config, loops, starts, flowVars, countVars, pastVars>>

\* A pool of another size, while running: the old workers are told to stop.
SetConfigResize(c, new) ==
  /\ caller[c] = Quiet /\ mu = None /\ epoch < MaxEpochs
  /\ new.pool # config.pool /\ status = "running"
  /\ config' = new
  /\ live' = FALSE
  /\ mu' = c
  /\ GoTo(c, "resize")
  /\ UNCHANGED <<status, epoch, loops, starts, flowVars, countVars, pastVars>>

\* They have stopped: a new context, a new pool.  A background loop that was in
\* the middle of a tick goes on with the new context, the others end.
SetConfigResume(c) ==
  /\ caller[c].at = "resize" /\ PoolOff
  /\ epoch' = epoch + 1 /\ live' = TRUE
  /\ StartWorkers(config.pool)
  /\ loops' \in 0..loops
  /\ mu' = None
  /\ GoTo(c, "none")
  /\ UNCHANGED <<status, config, starts, queue, sem, submit, delay, dead, countVars, pastVars>>

SetConfigOther(c, new) ==
  /\ caller[c] = Quiet /\ mu = None
  /\ new # config
  /\ new.pool = config.pool \/ status # "running"
  /\ config' = new
  /\ UNCHANGED <<status, mu, epoch, live, loops, caller, starts, flowVars, countVars, pastVars>>

LoopsLeft == loops - 1

LoopEnds ==
  /\ loops > 0 /\ ~live
  /\ loops' = LoopsLeft
  /\ UNCHANGED <<status, mu, epoch, live, config, caller, starts, flowVars, countVars, pastVars>>

-----------------------------------------------------------------------------
(* SubmitBatch.                                                            *)

\* The retry count SubmitBatch gives every batch.
SubmittedRetries == 0

\* What becomes of a batch in sendToDeadLetterQueue.
SendToDeadLetterQueue(b) ==
  \/ /\ config.deadLetters /\ Len(dead) < MaxQueueSize
     /\ dead' = Append(dead, b) /\ UNCHANGED outcome
  \/ /\ ~config.deadLetters \/ Len(dead) = MaxQueueSize
     /\ outcome' = [outcome EXCEPT ![b] = "discarded"] /\ UNCHANGED dead

\* An application submits b: the status is running, and the context of b is
\* derived from the present one.
SubmitCheck(b) ==
  /\ b \notin accepted /\ submit[b] = NoCall
  /\ mu = None /\ status = "running"
  /\ submit' = [submit EXCEPT ![b] = [at |-> "select", ctx |-> epoch, retry |-> FALSE]]
  /\ UNCHANGED <<lifeVars, queue, worker, sem, delay, dead, countVars, pastVars>>

SubmitEnqueue(b) ==
  /\ submit[b].at = "select" /\ Len(queue) < MaxQueueSize
  /\ queue' = Append(queue, [batch |-> b, ctx |-> submit[b].ctx, retries |-> SubmittedRetries])
  /\ submit' = [submit EXCEPT ![b] = NoCall]
  /\ accepted' = accepted \cup {b}
  /\ uncounted' = uncounted + 1
  /\ UNCHANGED <<lifeVars, worker, sem, delay, dead, backlog, outcome, attempts>>

\* Mutant: the refused retry is dropped with the error.
AfterRefusalDrops(b) == UNCHANGED <<dead, outcome>>

\* The queue stays full for five seconds, or the controller is stopping.  A
\* retry that is refused goes to the dead letters.
AfterRefusal(b) ==
  IF submit[b].retry THEN SendToDeadLetterQueue(b) ELSE UNCHANGED <<dead, outcome>>

SubmitRefused(b) ==
  /\ submit[b].at = "select"
  /\ Len(queue) = MaxQueueSize \/ Cancelled(submit[b].ctx)
  /\ AfterRefusal(b)
  /\ submit' = [submit EXCEPT ![b] = NoCall]
  /\ UNCHANGED <<lifeVars, queue, worker, sem, delay, countVars, accepted, attempts>>

\* The end of a SubmitBatch that has enqueued.
CountBacklog ==
  /\ uncounted > 0 /\ mu = None
  /\ uncounted' = uncounted - 1
  /\ backlog' = backlog + 1
  /\ UNCHANGED <<lifeVars, flowVars, pastVars>>

-----------------------------------------------------------------------------
(* workerLoop and processBatch.                                            *)

Put(w, at) == worker' = [worker EXCEPT ![w].at = at]

\* A batch whose context is done is skipped, and forgotten.
WorkerTake(w) ==
  /\ worker[w].at = "idle" /\ queue # <<>>
  /\ queue' = Tail(queue)
  /\ LET e == Head(queue) IN
       worker' = IF Cancelled(e.ctx) THEN worker
                 ELSE [worker EXCEPT ![w] = [at |-> "got", batch |-> e.batch, retries |-> e.retries]]
  /\ UNCHANGED <<lifeVars, sem, submit, delay, dead, countVars, pastVars>>

\* Mutant: one batch more than the semaphore has room for.
RoomForOneMore == sem <= MaxConcurrentBatches

Room == sem < MaxConcurrentBatches

WorkerAcquire(w) ==
  /\ worker[w].at = "got" /\ Room
  /\ sem' = sem + 1
  /\ Put(w, "begin")
  /\ UNCHANGED <<lifeVars, queue, submit, delay, dead, countVars, pastVars>>

\* Mutant: the worker waits for batches only.
ExitPointsNone == {}

\* Where the worker looks at ctx.Done: a batch in hand is forgotten.
ExitPoints == {"idle", "got"}

WorkerExit(w) ==
  /\ worker[w].at \in ExitPoints /\ ~live
  /\ worker' = [worker EXCEPT ![w] = Off]
  /\ UNCHANGED <<lifeVars, queue, sem, submit, delay, dead, countVars, pastVars>>

\* Mutant: the backlog is lowered by one batch too many.
DequeuedTwice == backlog - 2

Dequeued == backlog - 1

ProcessBegin(w) ==
  /\ worker[w].at = "begin" /\ mu = None
  /\ backlog' = Dequeued
  /\ attempts' = [attempts EXCEPT ![worker[w].batch] = @ + 1]
  /\ Put(w, "process")
  /\ UNCHANGED <<lifeVars, queue, sem, submit, delay, dead, uncounted, accepted, outcome>>

\* Processor.ProcessBatch, external, succeeds or fails.
ProcessReturns(w) ==
  /\ worker[w].at = "process"
  /\ \/ Put(w, "ok")
     \/ attempts[worker[w].batch] <= MaxFailures /\ Put(w, "err")
  /\ UNCHANGED <<lifeVars, queue, sem, submit, delay, dead, countVars, pastVars>>

\* Mutant: a failed batch is retried and also counted as a dead letter.
AfterFailureBoth(b, n) ==
  /\ delay' = [delay EXCEPT ![b] = epoch]
  /\ SendToDeadLetterQueue(b)

\* Mutant: neither retried nor a dead letter.
AfterFailureNothing(b, n) == UNCHANGED <<delay, dead, outcome>>

\* A failed batch is retried or, its retries used up, a dead letter.
AfterFailure(b, n) ==
  \/ /\ n < config.retries
     /\ delay' = [delay EXCEPT ![b] = epoch]
     /\ UNCHANGED <<dead, outcome>>
  \/ /\ n >= config.retries
     /\ SendToDeadLetterQueue(b) /\ UNCHANGED delay

\* The receive from the semaphore.
Released == sem - 1

\* The rest of processBatch after ProcessBatch; the semaphore is released.
ProcessEnd(w) ==
  /\ mu = None
  /\ LET b == worker[w].batch IN
       \/ /\ worker[w].at = "ok"
          /\ outcome' = [outcome EXCEPT ![b] = "done"]
          /\ UNCHANGED <<delay, dead>>
       \/ /\ worker[w].at = "err"
          /\ AfterFailure(b, worker[w].retries)
  /\ worker' = [worker EXCEPT ![w] = Ready]
  /\ sem' = Released
  /\ UNCHANGED <<lifeVars, queue, submit, countVars, accepted, attempts>>

-----------------------------------------------------------------------------
(* The retry goroutines and the dead letter manager.                       *)

\* The delay has passed: SubmitBatch, or the dead letters if it says no.
RetryFires(b) ==
  /\ delay[b] # 0 /\ mu = None
  /\ delay' = [delay EXCEPT ![b] = 0]
  /\ \/ /\ status = "running"
        /\ submit' = [submit EXCEPT ![b] = [at |-> "select", ctx |-> epoch, retry |-> TRUE]]
        /\ UNCHANGED <<dead, outcome>>
     \/ /\ status # "running"
        /\ SendToDeadLetterQueue(b) /\ UNCHANGED submit
  /\ UNCHANGED <<lifeVars, queue, worker, sem, countVars, accepted, attempts>>

\* ctx.Done instead: the batch is forgotten.
RetryAbandons(b) ==
  /\ delay[b] # 0 /\ Cancelled(delay[b])
  /\ delay' = [delay EXCEPT ![b] = 0]
  /\ UNCHANGED <<lifeVars, queue, worker, sem, submit, dead, countVars, pastVars>>

HandleDeadLetter ==
  /\ dead # <<>>
  /\ outcome' = [outcome EXCEPT ![Head(dead)] = "handled"]
  /\ dead' = Tail(dead)
  /\ UNCHANGED <<lifeVars, queue, worker, sem, submit, delay, countVars, accepted, attempts>>

-----------------------------------------------------------------------------

Init ==
  /\ status = "idle" /\ mu = None
  /\ epoch = 1 /\ live = TRUE
  /\ config \in Configs
  /\ queue = <<>> /\ dead = <<>>
  /\ worker = [w \in Workers |-> Off] /\ sem = 0
  /\ submit = [b \in Batches |-> NoCall]
  /\ delay = [b \in Batches |-> 0]
  /\ uncounted = 0 /\ backlog = 0
  /\ loops = 0 /\ starts = 0
  /\ caller = [c \in Callers |-> Quiet]
  /\ accepted = {}
  /\ outcome = [b \in Batches |-> "none"]
  /\ attempts = [b \in Batches |-> 0]

CallerReturns(c) ==
  StopCancel(c) \/ StopWait(c) \/ StopFinish(c) \/ SetConfigResume(c)

CallerNext(c) ==
  \/ StartProcessing(c) \/ StopBegin(c) \/ CallerReturns(c)
  \/ \E new \in Configs : SetConfigResize(c, new) \/ SetConfigOther(c, new)

BatchNext(b) ==
  SubmitEnqueue(b) \/ SubmitRefused(b) \/ RetryFires(b) \/ RetryAbandons(b)

WorkerNext(w) ==
  \/ WorkerTake(w) \/ WorkerAcquire(w) \/ WorkerExit(w)
  \/ ProcessBegin(w) \/ ProcessReturns(w) \/ ProcessEnd(w)

Next ==
  \/ \E c \in Callers : CallerNext(c)
  \/ \E b \in Batches : SubmitCheck(b) \/ BatchNext(b)
  \/ \E w \in Workers : WorkerNext(w)
  \/ CountBacklog \/ LoopEnds \/ HandleDeadLetter

Spec == Init /\ [][Next]_vars

\* Goroutines run, timers fire, ProcessBatch returns; nothing makes anyone
\* call the controller or read the dead letters.
Fairness ==
  /\ \A c \in Callers : WF_vars(CallerReturns(c))
  /\ \A b \in Batches : WF_vars(BatchNext(b))
  /\ \A w \in Workers : WF_vars(WorkerNext(w))
  /\ WF_vars(CountBacklog) /\ WF_vars(LoopEnds)

FairSpec == Spec /\ Fairness

-----------------------------------------------------------------------------
(* Properties.                                                             *)

InHand(w) == worker[w].at \notin {"off", "idle"}

TypeOK ==
  /\ status \in Status /\ mu \in Callers \cup {None}
  /\ epoch \in 1..MaxEpochs /\ live \in BOOLEAN /\ config \in Configs
  /\ queue \in Seq([batch : Batches, ctx : 1..MaxEpochs, retries : Nat])
  /\ dead \in Seq(Batches)
  /\ worker \in [Workers -> [at : Points, batch : Batches \cup {None}, retries : Nat]]
  /\ \A w \in Workers : InHand(w) => worker[w].batch \in Batches
  /\ sem \in Nat /\ uncounted \in Nat /\ backlog \in Int /\ loops \in Nat /\ starts \in Nat
  /\ submit \in [Batches -> [at : {"none", "select"}, ctx : 0..MaxEpochs, retry : BOOLEAN]]
  /\ delay \in [Batches -> 0..MaxEpochs]
  /\ caller \in [Callers -> [at : {"none", "cancel", "workers", "loops", "finish", "resize"}]]
  /\ accepted \subseteq Batches
  /\ outcome \in [Batches -> {"none", "done", "handled", "discarded"}]
  /\ attempts \in [Batches -> Nat]

\* However the pool is resized, restarted and stopped, no more batches are in
\* processing than the semaphore allows.
ProcessingWithinLimit ==
  Cardinality({w \in Workers : worker[w].at \in {"begin", "process", "ok", "err"}})
    <= MaxConcurrentBatches

\* The places a batch may be in.
Copies(b) ==
  Cardinality({k \in DOMAIN queue : queue[k].batch = b})
    + Cardinality({w \in Workers : InHand(w) /\ worker[w].batch = b})
    + Cardinality({k \in DOMAIN dead : dead[k] = b})
    + (IF submit[b] = NoCall THEN 0 ELSE 1)
    + (IF delay[b] = 0 THEN 0 ELSE 1)

\* One goroutine or one queue has the batch, and none when all is over with it:
\* it is never loaded twice at once, nor again after a success.
OneOwner == \A b \in Batches : Copies(b) + (IF outcome[b] = "none" THEN 0 ELSE 1) <= 1

\* As long as no context has been cancelled every accepted batch is on its way,
\* loaded, handled as a dead letter, or discarded with a log line.
NothingForgotten ==
  epoch = 1 /\ live =>
    \A b \in accepted : Copies(b) = 1 \/ outcome[b] # "none"

\* The backlog never understates what waits in the queue by more than the
\* submissions that are about to count themselves.
BacklogCoversQueue == backlog + uncounted >= Len(queue)

InStop(c) == caller[c].at \in {"cancel", "workers", "loops", "finish"}

\* StopProcessing returns, unless the controller is started again meanwhile:
\* then a SetConfig may replace the context that was cancelled.
StopCompletes == \A c \in Callers : InStop(c) ~> (~InStop(c) \/ status = "running")

InResize(c) == caller[c].at = "resize"

\* SetConfig waits for a worker that waits for the mutex SetConfig holds.
Embraced ==
  mu # None /\ \E w \in Workers : worker[w].at \in {"begin", "process", "ok", "err"}

\* "SetConfig updates the controller configuration": nothing else keeps the
\* call from returning.
SetConfigCompletesUnlessEmbraced ==
  \A c \in Callers : [](InResize(c) => <>(~InResize(c) \/ []Embraced))

\* A batch a running controller has accepted is settled, when StarRocks fails
\* it finitely often.
AcceptedSettles ==
  \A b \in Batches :
    b \in accepted ~>
      \/ outcome[b] # "none" \/ \E k \in DOMAIN dead : dead[k] = b
      \/ ~live \/ epoch > 1

\* "BatchRetryCount is the number of times to retry a failed batch".
RetriesBounded ==
  \A b \in Batches : \A n \in {c.retries : c \in Configs} :
    (\A c \in Configs : c.retries <= n) => attempts[b] <= 1 + n
=============================================================================
