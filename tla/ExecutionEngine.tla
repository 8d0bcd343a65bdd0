-------------------------- MODULE ExecutionEngine --------------------------
(***************************************************************************)
(* internal/core/engine/engine.go: StarRocksEngine, its two queues, their  *)
(* worker pools, and the pair of channels on which a task is answered.     *)
(*                                                                         *)
(* Threads: the goroutine of each ExecuteQuery or ExecuteWrite, the query  *)
(* and write workers, and the callers of Start and Stop.  e.mu is held for *)
(* single assignments only, so its sections are steps.                     *)
(*                                                                         *)
(* Abstracted: which nodes a plan names and which of them are healthy when *)
(* it is executed decide whether planning and execution fail, which the    *)
(* model leaves open, like the answer of the query and write services.     *)
(* Left out: the metrics updater and the statistics.                       *)
(***************************************************************************)
EXTENDS Integers, FiniteSets, Sequences

CONSTANTS
  Tasks,          \* the calls of ExecuteQuery and ExecuteWrite
  Workers,        \* bound: slots for worker goroutines
  Callers,        \* threads that call Start and Stop
  None,           \* no task
  KindOf,         \* per task and worker: "query" or "write"
  WorkerCount,    \* config.QueryWorkerCount, config.WriteWorkerCount
  QueueSize,      \* config.QueryQueueSize, config.WriteQueueSize
  MaxConcurrent,  \* config.MaxConcurrentQueries, config.MaxConcurrentWrites
  MaxStarts       \* bound: calls of Start that start

Kinds == {"query", "write"}

ASSUME EngineAssumption ==
  /\ IsFiniteSet(Tasks) /\ IsFiniteSet(Workers)
  /\ None \notin Tasks
  /\ KindOf \in [Tasks \cup Workers -> Kinds]
  /\ WorkerCount \in [Kinds -> Nat]
  /\ QueueSize \in [Kinds -> Nat] /\ MaxConcurrent \in [Kinds -> Nat]
  /\ MaxStarts \in Nat

VARIABLES
  started,   \* e.started
  stopped,   \* e.stopCh is closed
  closed,    \* e.queryQueue and e.writeQueue are closed
  starts,    \* calls of Start that started
  caller,    \* per caller: where its Stop stands
  queue,     \* per kind: e.queryQueue, e.writeQueue
  sem,       \* per kind: the weight acquired from the semaphore
  worker,    \* per worker: program point and task in hand
  call,      \* per task: where its ExecuteQuery or ExecuteWrite stands
  ctxDone,   \* tasks whose context has expired or was cancelled
  channel,   \* per task: resultCh and errCh, each of capacity one
  answer,    \* per task: what the call returned
  outcome    \* per task: how the service answered

lifeVars == <<started, stopped, closed, starts, caller>>
poolVars == <<queue, sem, worker>>
callVars == <<call, ctxDone, answer>>
vars == <<lifeVars, poolVars, callVars, channel, outcome>>

Off      == [at |-> "off", task |-> None]
Free     == [at |-> "idle", task |-> None]
Empty    == [full |-> FALSE, closed |-> FALSE]
Outcomes == {"none", "ok", "err"}

\* What a call returns: the result; the error; the error "received nil
\* result"; nil and nil; the error of its context; a refusal without a task
\* having been queued; or it panics at the closed queue.
Answers == {"none", "result", "error", "nil result", "nothing", "ctx", "refused", "panic"}

-----------------------------------------------------------------------------
(* Start and Stop.                                                         *)

\* startWorkerPools starts new workers of both kinds, whether or not those of
\* an earlier Start have ended.
StartWorkerPools ==
  \E new \in SUBSET {w \in Workers : worker[w] = Off} :
    /\ \A k \in Kinds : Cardinality({w \in new : KindOf[w] = k}) = WorkerCount[k]
    /\ worker' = [w \in Workers |-> IF w \in new THEN Free ELSE worker[w]]

Start(c) ==
  /\ caller[c] = "none" /\ ~started /\ starts < MaxStarts
  /\ started' = TRUE /\ starts' = starts + 1
  /\ StartWorkerPools
  /\ UNCHANGED <<stopped, closed, caller, queue, sem, callVars, channel, outcome>>

StopBegin(c) ==
  /\ caller[c] = "none" /\ started
  /\ started' = FALSE
  /\ caller' = [caller EXCEPT ![c] = "signal"]
  /\ UNCHANGED <<stopped, closed, starts, poolVars, callVars, channel, outcome>>

\* close(e.stopCh): a second time, after another Start, it panics.
StopSignal(c) ==
  /\ caller[c] = "signal"
  /\ stopped' = TRUE
  /\ caller' = [caller EXCEPT ![c] = IF stopped THEN "panic" ELSE "wait"]
  /\ UNCHANGED <<started, closed, starts, poolVars, callVars, channel, outcome>>

\* workerWg.Wait or thirty seconds, then both queues are closed.
StopClose(c) ==
  /\ caller[c] = "wait"
  /\ closed' = TRUE
  /\ caller' = [caller EXCEPT ![c] = "none"]
  /\ UNCHANGED <<started, stopped, starts, poolVars, callVars, channel, outcome>>

-----------------------------------------------------------------------------
(* ExecuteQuery and ExecuteWrite.                                          *)

Return(t, a) ==
  /\ call' = [call EXCEPT ![t] = "returned"]
  /\ answer' = [answer EXCEPT ![t] = a]

\* The engine is started, the request valid, and there is a plan for it.
Plan(t) ==
  /\ call[t] = "new" /\ started
  /\ call' = [call EXCEPT ![t] = "submit"]
  /\ UNCHANGED <<lifeVars, poolVars, ctxDone, answer, channel, outcome>>

\* It is not started, or no node can take the request.
PlanFails(t) ==
  /\ call[t] = "new"
  /\ Return(t, "refused")
  /\ UNCHANGED <<lifeVars, poolVars, ctxDone, channel, outcome>>

HasRoom(k) == Len(queue[k]) < QueueSize[k]

Submit(t) ==
  /\ call[t] = "submit" /\ ~closed /\ HasRoom(KindOf[t])
  /\ queue' = [queue EXCEPT ![KindOf[t]] = Append(@, t)]
  /\ call' = [call EXCEPT ![t] = "wait"]
  /\ UNCHANGED <<lifeVars, sem, worker, ctxDone, answer, channel, outcome>>

\* The queue is full, the context is done, or the queue was closed meanwhile;
\* the default of the select is for a queue that is full only.
SubmitFails(t) ==
  /\ call[t] = "submit"
  /\ \/ ~closed /\ ~HasRoom(KindOf[t]) /\ t \notin ctxDone /\ Return(t, "refused")
     \/ t \in ctxDone /\ Return(t, "ctx")
     \/ closed /\ Return(t, "panic")
  /\ UNCHANGED <<lifeVars, poolVars, ctxDone, channel, outcome>>

\* The select over both channels and the context: whatever is ready may be
\* chosen, and a closed channel that is empty is ready with nil.
Receive(t) ==
  /\ call[t] = "wait"
  /\ \/ /\ channel[t].result.full \/ channel[t].result.closed
        /\ Return(t, IF channel[t].result.full THEN "result" ELSE "nil result")
     \/ /\ channel[t].err.full \/ channel[t].err.closed
        /\ Return(t, IF channel[t].err.full THEN "error" ELSE "nothing")
     \/ t \in ctxDone /\ Return(t, "ctx")
  /\ UNCHANGED <<lifeVars, poolVars, ctxDone, channel, outcome>>

\* The client goes away, or its deadline passes.
ContextDone(t) ==
  /\ call[t] \notin {"new", "returned"} /\ t \notin ctxDone
  /\ ctxDone' = ctxDone \cup {t}
  /\ UNCHANGED <<lifeVars, poolVars, call, answer, channel, outcome>>

-----------------------------------------------------------------------------
(* queryWorker and writeWorker, executeQueryTask and executeWriteTask.     *)

\* select: a closed stopCh, or a queue that is closed and empty.
WorkerExit(w) ==
  /\ worker[w] = Free
  /\ stopped \/ (closed /\ queue[KindOf[w]] = <<>>)
  /\ worker' = [worker EXCEPT ![w] = Off]
  /\ UNCHANGED <<lifeVars, queue, sem, callVars, channel, outcome>>

\* select: a task, although stopCh may be closed as well.
WorkerTake(w) ==
  /\ worker[w] = Free /\ queue[KindOf[w]] # <<>>
  /\ queue' = [queue EXCEPT ![KindOf[w]] = Tail(@)]
  /\ worker' = [worker EXCEPT ![w] = [at |-> "acquire", task |-> Head(queue[KindOf[w]])]]
  /\ UNCHANGED <<lifeVars, sem, callVars, channel, outcome>>

\* Mutant: the semaphore lets one in too many.
AcquirableAndOne(k) == sem[k] <= MaxConcurrent[k]

Acquirable(k) == sem[k] < MaxConcurrent[k]

Acquire(w) ==
  /\ worker[w].at = "acquire" /\ Acquirable(KindOf[w])
  /\ sem' = [sem EXCEPT ![KindOf[w]] = @ + 1]
  /\ worker' = [worker EXCEPT ![w].at = "execute"]
  /\ UNCHANGED <<lifeVars, queue, callVars, channel, outcome>>

\* The timeout of the request passes while it waits, or the context is done.
AcquireFails(w) ==
  /\ worker[w].at = "acquire"
  /\ ~Acquirable(KindOf[w]) \/ worker[w].task \in ctxDone
  /\ outcome' = [outcome EXCEPT ![worker[w].task] = "err"]
  /\ worker' = [worker EXCEPT ![w].at = "answer"]
  /\ UNCHANGED <<lifeVars, queue, sem, callVars, channel>>

\* Mutant: the worker goes back to its queue and leaves the task unanswered.
AfterExecutionLeaves(w) == Free

AfterExecution(w) == [worker[w] EXCEPT !.at = "answer"]

\* The service, external, succeeds or fails; the semaphore is released.
Execute(w) ==
  /\ worker[w].at = "execute"
  /\ \E o \in {"ok", "err"} : outcome' = [outcome EXCEPT ![worker[w].task] = o]
  /\ sem' = [sem EXCEPT ![KindOf[w]] = @ - 1]
  /\ worker' = [worker EXCEPT ![w] = AfterExecution(w)]
  /\ UNCHANGED <<lifeVars, queue, callVars, channel>>

\* Mutant: the condition the wrong way round.
AnswersOnSwapped(t) == IF outcome[t] = "err" THEN "result" ELSE "err"

\* The channel that carries the answer.
AnswersOn(t) == IF outcome[t] = "err" THEN "err" ELSE "result"

Other(ch) == IF ch = "err" THEN "result" ELSE "err"

Send(w) ==
  /\ worker[w].at = "answer"
  /\ LET t == worker[w].task IN
       /\ ~channel[t][AnswersOn(t)].full
       /\ channel' = [channel EXCEPT ![t][AnswersOn(t)].full = TRUE]
  /\ worker' = [worker EXCEPT ![w].at = "close"]
  /\ UNCHANGED <<lifeVars, queue, sem, callVars, outcome>>

\* The other channel is closed, so that nobody waits for it.
CloseOther(w) ==
  /\ worker[w].at = "close"
  /\ LET t == worker[w].task IN
       channel' = [channel EXCEPT ![t][Other(AnswersOn(t))].closed = TRUE]
  /\ worker' = [worker EXCEPT ![w] = Free]
  /\ UNCHANGED <<lifeVars, queue, sem, callVars, outcome>>

-----------------------------------------------------------------------------

Init ==
  /\ started = FALSE /\ stopped = FALSE /\ closed = FALSE /\ starts = 0
  /\ caller = [c \in Callers |-> "none"]
  /\ queue = [k \in Kinds |-> <<>>] /\ sem = [k \in Kinds |-> 0]
  /\ worker = [w \in Workers |-> Off]
  /\ call = [t \in Tasks |-> "new"] /\ ctxDone = {}
  /\ channel = [t \in Tasks |-> [result |-> Empty, err |-> Empty]]
  /\ answer = [t \in Tasks |-> "none"]
  /\ outcome = [t \in Tasks |-> "none"]

CallNext(t) == Plan(t) \/ PlanFails(t) \/ Submit(t) \/ SubmitFails(t) \/ Receive(t)

WorkerNext(w) ==
  \/ WorkerExit(w) \/ WorkerTake(w) \/ Acquire(w) \/ AcquireFails(w)
  \/ Execute(w) \/ Send(w) \/ CloseOther(w)

Next ==
  \/ \E c \in Callers : Start(c) \/ StopBegin(c) \/ StopSignal(c) \/ StopClose(c)
  \/ \E t \in Tasks : CallNext(t) \/ ContextDone(t)
  \/ \E w \in Workers : WorkerNext(w)

Spec == Init /\ [][Next]_vars

\* Goroutines run, the services return and timeouts expire; nobody has to
\* call, to cancel or to stop.
Fairness ==
  /\ \A t \in Tasks : WF_vars(call[t] # "new" /\ CallNext(t))
  /\ \A w \in Workers : WF_vars(WorkerNext(w))

FairSpec == Spec /\ Fairness

-----------------------------------------------------------------------------
(* Properties.                                                             *)

InHand(w) == worker[w].at \notin {"off", "idle"}

Slot == [full : BOOLEAN, closed : BOOLEAN]

TypeOK ==
  /\ started \in BOOLEAN /\ stopped \in BOOLEAN /\ closed \in BOOLEAN
  /\ starts \in 0..MaxStarts
  /\ caller \in [Callers -> {"none", "signal", "wait", "panic"}]
  /\ queue \in [Kinds -> Seq(Tasks)] /\ sem \in [Kinds -> Nat]
  /\ \A k \in Kinds : Len(queue[k]) <= QueueSize[k]
  /\ worker \in [Workers -> [at : {"off", "idle", "acquire", "execute", "answer", "close"},
                             task : Tasks \cup {None}]]
  /\ \A w \in Workers : InHand(w) <=> worker[w].task # None
  /\ call \in [Tasks -> {"new", "submit", "wait", "returned"}] /\ ctxDone \subseteq Tasks
  /\ channel \in [Tasks -> [result : Slot, err : Slot]]
  /\ answer \in [Tasks -> Answers] /\ outcome \in [Tasks -> Outcomes]

\* No more queries or writes are with the services than the semaphore of their
\* kind allows, whatever times out or is cancelled while it waits for it.
ExecutingWithinLimit ==
  \A k \in Kinds :
    Cardinality({w \in Workers : KindOf[w] = k /\ worker[w].at = "execute"}) <= MaxConcurrent[k]

\* A caller that is told of a failure has not had its write executed, one that
\* is given a result has: also when both channels are ready at once, and when
\* the engine stops meanwhile.  A done context tells nothing.
AnswerTellsOutcome ==
  \A t \in Tasks :
    /\ answer[t] \in {"result", "nothing"} => outcome[t] = "ok"
    /\ answer[t] \in {"error", "nil result"} => outcome[t] = "err"
    /\ answer[t] \in {"refused", "panic"} => outcome[t] = "none"

\* A task a worker has taken is answered, even if the engine is stopped.
TakenIsAnswered ==
  \A t \in Tasks : (\E w \in Workers : worker[w].task = t) ~> answer[t] # "none"

\* A task that was queued is answered, unless the engine is stopped.
QueuedIsAnswered == \A t \in Tasks : call[t] = "wait" ~> (call[t] = "returned" \/ stopped)

\* No task is forgotten, but one that Stop finds in a queue.
EveryTaskIsAnswered == TakenIsAnswered /\ QueuedIsAnswered
=============================================================================
