----------------------------- MODULE WriteRetry -----------------------------
(***************************************************************************)
(* internal/domain/write/retry.go on top of the buffer: RetryManagerImpl.  *)
(*                                                                         *)
(* Threads: the callers (the run loop with its health events and ticks, the*)
(* RetryOnStartup goroutine, application calls) that go through a snapshot *)
(* of the buffer and schedule retries, and one executeRetry goroutine per  *)
(* retry.  A crash loses everything but the snapshot on disk; the next     *)
(* process restores it before anything else runs.                          *)
(***************************************************************************)
EXTENDS WriteBuffer, Sequences

CONSTANTS
  Callers,           \* threads that schedule retries
  Loop,              \* the one of them that is the run loop
  MaxRetryAttempts,  \* config
  MaxRetries,        \* bound: retries scheduled by one process
  MaxCrashes         \* bound: crashes

ASSUME RetryAssumption ==
  /\ IsFiniteSet(Callers)
  /\ MaxRetryAttempts \in Nat \ {0}
  /\ MaxRetries \in Nat /\ MaxCrashes \in Nat

VARIABLES
  retryInfo,  \* r.retryInfo, in the order of insertion
  runner,     \* per retry: where its executeRetry goroutine is
  call,       \* per caller: the pass in progress
  manager,    \* the running flag, the stop channel and the run loop
  executed,   \* writes whose ExecuteWrite has returned nil
  crashes

retryVars == <<retryInfo, runner, call, manager, executed, crashes>>
vars == <<bufferVars, retryVars>>

RetryStatus == {"PENDING", "IN_PROGRESS", "SUCCEEDED", "FAILED", "CANCELLED"}

RunnerPoints == {"none", "spawned", "backoff", "execute", "ok", "err", "remove", "repend", "done"}

Idle == [at |-> "idle", todo |-> {}, retry |-> 0]

-----------------------------------------------------------------------------
(* Start and Stop.  stopCh is closed once and never made again.  A run loop*)
(* that finds it closed may still serve events first, as select chooses    *)
(* among what is ready; so may the loop of a second Start.  A second Stop  *)
(* panics, which the model leaves out.                                     *)

Start ==
  /\ manager = "new"
  /\ manager' = "running"
  /\ UNCHANGED <<bufferVars, retryInfo, runner, call, executed, crashes>>

Stop ==
  /\ manager = "running"
  /\ manager' = "stopped"
  /\ UNCHANGED <<bufferVars, retryInfo, runner, call, executed, crashes>>

-----------------------------------------------------------------------------
(* RetryAll, RetryForTable, RetryForPartition, and ScheduleRetry.          *)

\* A copy of the buffer is taken; statuses and counts are judged by this copy
\* when the pass comes to each write.  The model does not fix the order.
Eligible(K) ==
  {i \in Buffered : /\ KeyOf[i] \in K
                    /\ buffer[i].status # "RETRYING"
                    /\ buffer[i].retries < MaxRetryAttempts}

\* A pass over the writes of K: by the run loop once started, by the
\* RetryOnStartup goroutine, or by an application's call.
RetryPass(c, K) ==
  /\ call[c] = Idle
  /\ c = Loop => manager # "new"
  /\ Eligible(K) # {}
  /\ call' = [call EXCEPT ![c] = [at |-> "pass", todo |-> Eligible(K), retry |-> 0]]
  /\ UNCHANGED <<bufferVars, retryInfo, runner, manager, executed, crashes>>

\* Mutant: the retry count is not looked at.
CanRetryAlways(i) == TRUE

CanRetry(i) == buffer[i].retries < MaxRetryAttempts

\* ScheduleRetry asks the buffer for a single write and gets the newest.
Schedulable(i) ==
  /\ i \in Newest
  /\ CanRetry(i)

\* What is left of the pass of c when it is through with i.
PassOn(c, i) ==
  IF call[c].todo \subseteq {i} THEN Idle
  ELSE [at |-> "pass", todo |-> call[c].todo \ {i}, retry |-> 0]

\* The tablet is unhealthy, or ScheduleRetry returns an error.
PassSkip(c, i) ==
  /\ call[c].at = "pass" /\ i \in call[c].todo
  /\ call' = [call EXCEPT ![c] = PassOn(c, i)]
  /\ UNCHANGED <<bufferVars, retryInfo, runner, manager, executed, crashes>>

\* ScheduleRetry up to the insertion into retryInfo, of a write of the pass or
\* of one the application names.
Schedule(c, i) ==
  /\ Len(retryInfo) < MaxRetries
  /\ \/ call[c].at = "pass" /\ i \in call[c].todo
     \/ call[c] = Idle /\ c # Loop
  /\ Schedulable(i)
  /\ retryInfo' = Append(retryInfo, [write |-> i, status |-> "PENDING"])
  /\ runner' = Append(runner, "none")
  /\ call' = [call EXCEPT ![c] = [at |-> "update", todo |-> @.todo, retry |-> Len(retryInfo) + 1]]
  /\ UNCHANGED <<bufferVars, manager, executed, crashes>>

\* ScheduleRetry's second half: the status in the buffer, then the goroutine.
\* When the write has left the buffer the entry stays, and nobody runs it.
ScheduleUpdate(c) ==
  /\ call[c].at = "update"
  /\ LET r == call[c].retry
         i == retryInfo[r].write
     IN /\ UpdateBufferedWriteStatus(i, "RETRYING")
        /\ runner' = IF i \in Buffered THEN [runner EXCEPT ![r] = "spawned"] ELSE runner
        /\ call' = [call EXCEPT ![c] = PassOn(c, i)]
  /\ UNCHANGED <<retryInfo, manager, executed, crashes>>

-----------------------------------------------------------------------------
(* CancelRetry, executeRetry and updateRetryStatus.                        *)

CancelRetry(r) ==
  /\ runner[r] # "none"
  /\ retryInfo[r].status \in {"PENDING", "IN_PROGRESS"}
  /\ retryInfo' = [retryInfo EXCEPT ![r].status = "CANCELLED"]
  /\ UNCHANGED <<bufferVars, runner, call, manager, executed, crashes>>

Run(r, from, to) == runner[r] = from /\ runner' = [runner EXCEPT ![r] = to]
Record(r, status) == retryInfo' = [retryInfo EXCEPT ![r].status = status]

RetryStart(r) ==
  /\ Run(r, "spawned", "backoff")
  /\ Record(r, "IN_PROGRESS")
  /\ UNCHANGED <<bufferVars, call, manager, executed, crashes>>

\* After the backoff: the newest write is this one, and its tablet healthy.
RetryWake(r) ==
  /\ retryInfo[r].write \in Newest
  /\ Run(r, "backoff", "execute")
  /\ UNCHANGED <<bufferVars, retryInfo, call, manager, executed, crashes>>

\* It is not, or the tablet is unhealthy: the retry has failed, and the write
\* stays RETRYING.
RetryGiveUp(r) ==
  /\ Run(r, "backoff", "done")
  /\ Record(r, "FAILED")
  /\ UNCHANGED <<bufferVars, call, manager, executed, crashes>>

\* ExecuteWrite, external, works or does not.
ExecuteOk(r) ==
  /\ Run(r, "execute", "ok")
  /\ executed' = executed \cup {retryInfo[r].write}
  /\ UNCHANGED <<bufferVars, retryInfo, call, manager, crashes>>

ExecuteFails(r) ==
  /\ Run(r, "execute", "err")
  /\ UNCHANGED <<bufferVars, retryInfo, call, manager, executed, crashes>>

\* Mutant: a failed attempt goes the way of a successful one.
AfterErrorRemoves == "remove"

\* updateRetryStatus(FAILED) is followed by UpdateBufferedWriteStatus(PENDING).
AfterError == "repend"

RetryRecord(r) ==
  /\ \/ Run(r, "ok", "remove") /\ Record(r, "SUCCEEDED")
     \/ Run(r, "err", AfterError) /\ Record(r, "FAILED")
  /\ UNCHANGED <<bufferVars, call, manager, executed, crashes>>

\* Mutant: the write of a successful retry is made PENDING again.
RemoveDoneRepends(r) == UpdateBufferedWriteStatus(retryInfo[r].write, "PENDING")

RemoveDone(r) == RemoveBufferedWrite(retryInfo[r].write)

RetrySettle(r) ==
  /\ \/ Run(r, "remove", "done") /\ RemoveDone(r)
     \/ Run(r, "repend", "done") /\ UpdateBufferedWriteStatus(retryInfo[r].write, "PENDING")
  /\ UNCHANGED <<retryInfo, call, manager, executed, crashes>>

-----------------------------------------------------------------------------

\* The process dies; the next one, its buffer empty, restores the snapshot
\* before it starts.
Crash ==
  /\ crashes < MaxCrashes
  /\ crashes' = crashes + 1
  /\ LoadSnapshot
  /\ retryInfo' = <<>> /\ runner' = <<>>
  /\ call' = [c \in Callers |-> Idle]
  /\ manager' = "new"
  /\ UNCHANGED executed

Init ==
  /\ BufferInit
  /\ retryInfo = <<>> /\ runner = <<>>
  /\ call = [c \in Callers |-> Idle]
  /\ manager = "new"
  /\ executed = {} /\ crashes = 0

CallerNext(c) ==
  \/ \E K \in {Keys} \cup {{k} : k \in Keys} : RetryPass(c, K)
  \/ \E i \in Ids : PassSkip(c, i) \/ Schedule(c, i)
  \/ ScheduleUpdate(c)

RunnerNext(r) ==
  \/ RetryStart(r) \/ RetryWake(r) \/ RetryGiveUp(r)
  \/ ExecuteOk(r) \/ ExecuteFails(r) \/ RetryRecord(r) \/ RetrySettle(r)

Next ==
  \/ BufferNext /\ UNCHANGED retryVars
  \/ Start \/ Stop
  \/ \E c \in Callers : CallerNext(c)
  \/ \E r \in DOMAIN runner : CancelRetry(r) \/ RunnerNext(r)
  \/ Crash

Spec == Init /\ [][Next]_vars

\* The goroutines run, timers fire and ExecuteWrite returns.
Fairness ==
  \A r \in 1..MaxRetries : WF_vars(r \in DOMAIN runner /\ RunnerNext(r))

FairSpec == Spec /\ Fairness

-----------------------------------------------------------------------------
(* Properties.                                                             *)

\* A write's retry count passes MaxRetryAttempts only by the callers that
\* looked at it at the same time: each may count one attempt too many.
AttemptsBounded ==
  \A i \in Buffered : buffer[i].retries <= MaxRetryAttempts - 1 + Cardinality(Callers)

\* A retry takes a write out of the buffer only after StarRocks has accepted it.
RemovedAfterExecution ==
  \A r \in DOMAIN runner :
    runner[r] = "remove" \/ retryInfo[r].status = "SUCCEEDED" => retryInfo[r].write \in executed

\* A write StarRocks has accepted leaves the buffer, unless the process dies.
AcceptedWriteLeaves ==
  \A r \in 1..MaxRetries : \A i \in Ids :
    (r \in DOMAIN runner /\ runner[r] = "ok" /\ retryInfo[r].write = i)
      ~> (r \notin DOMAIN runner \/ i \notin Buffered)

\* "BufferedWriteStatusRetrying indicates the write is being retried": some
\* goroutine has it, or a caller is about to start one.
RetryingIsLive ==
  \A i \in Buffered :
    buffer[i].status = "RETRYING" =>
      \E r \in DOMAIN runner : retryInfo[r].write = i /\ runner[r] # "done"
=============================================================================
