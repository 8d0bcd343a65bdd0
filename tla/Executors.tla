------------------------------ MODULE Executors ------------------------------
(***************************************************************************)
(* internal/core/engine/executor.go: QueryExecutor, WriteExecutor and      *)
(* BatchExecutor as run by ExecutorManager, each with its context, its     *)
(* status and its retries, and a caller that cancels.                      *)
(*                                                                         *)
(* Threads: one goroutine per executor, one canceller per executor, the    *)
(* clock.  An attempt is one step with what it does to the data: only its  *)
(* context is shared meanwhile, and that shows in how the attempt ends.    *)
(* The status is set in a step of its own (statusMu).                      *)
(*                                                                         *)
(* Abstracted: whether an error may be retried is an open choice.  A batch *)
(* without a transaction consists of writes.  Left out: the choice of the  *)
(* node, the backoff, metrics, Execute with a nil context.                 *)
(***************************************************************************)
EXTENDS Integers, FiniteSets

CONSTANTS
  Executors,   \* executors submitted, each once
  BatchSize,   \* statements of a BatchExecutor
  MaxRetries   \* RetryPolicy.MaxRetries

ASSUME ExecutorAssumption ==
  /\ IsFiniteSet(Executors) /\ BatchSize \in Nat \ {0} /\ MaxRetries \in Nat

Kinds == {"query", "write", "transaction", "batch", "batchTransaction"}
Final == {"COMPLETED", "FAILED", "CANCELLED"}

VARIABLES
  kind,      \* type of the executor, with useTransactions
  failFast,  \* BatchExecutor.failFast
  active,    \* ExecutorManager.activeExecutors
  execution, \* the goroutine that executes: program point, retries, statement,
             \* statements written in the open transaction
  statusOf,  \* baseExecutor.status
  context,   \* of Execute: "none" before it, "live", "cancelled", "expired"
  canceller, \* CancelExecutor: "none", "found", "call", "set", "done", "refused"
  results,   \* BatchExecutor.results
  answer,    \* Execute's error: "none" until it returns, "nil", "error"
  applied,   \* history: how often a statement took effect
  unanswered \* history: how often one took effect and was answered by an error

callVars     == <<kind, failFast, active>>
dataVars     == <<results, applied, unanswered>>
executorVars == <<callVars, execution, statusOf, context, canceller, dataVars, answer>>

IsBatch(e) == kind[e] \in {"batch", "batchTransaction"}
Indices(e) == 1..(IF IsBatch(e) THEN BatchSize ELSE 1)
IsAt(e, p) == execution[e].at = p
Move(e, p) == execution' = [execution EXCEPT ![e].at = p]
SetStatus(e, s) == statusOf' = [statusOf EXCEPT ![e] = s]

-----------------------------------------------------------------------------
(* ExecutorManager.  SubmitAsync registers before its goroutine runs.      *)

registerExecutor(e) ==
  /\ IsAt(e, "new") /\ Move(e, "registered") /\ active' = active \cup {e}
  /\ UNCHANGED <<kind, failFast, statusOf, context, canceller, dataVars, answer>>

unregisterExecutor(e) ==
  /\ IsAt(e, "returned") /\ Move(e, "over") /\ active' = active \ {e}
  /\ UNCHANGED <<kind, failFast, statusOf, context, canceller, dataVars, answer>>

CancelExecutor(e) ==
  /\ canceller[e] = "none" /\ e \in active
  /\ canceller' = [canceller EXCEPT ![e] = "found"]
  /\ UNCHANGED <<callVars, execution, statusOf, context, dataVars, answer>>

\* Cancel reads the status, cancels and sets the status, under no one lock.
CancelReads(e) ==
  /\ canceller[e] = "found"
  /\ canceller' = [canceller EXCEPT ![e] = IF statusOf[e] \in Final THEN "refused" ELSE "call"]
  /\ UNCHANGED <<callVars, execution, statusOf, context, dataVars, answer>>

\* Before Execute this cancels a context that Execute then replaces.
CancelCalls(e) ==
  /\ canceller[e] = "call"
  /\ canceller' = [canceller EXCEPT ![e] = "set"]
  /\ context' = [context EXCEPT ![e] = IF @ = "live" THEN "cancelled" ELSE @]
  /\ UNCHANGED <<callVars, execution, statusOf, dataVars, answer>>

CancelSets(e) ==
  /\ canceller[e] = "set" /\ SetStatus(e, "CANCELLED")
  /\ canceller' = [canceller EXCEPT ![e] = "done"]
  /\ UNCHANGED <<callVars, execution, context, dataVars, answer>>

-----------------------------------------------------------------------------
(* Execute.                                                                *)

Expire(e) ==
  /\ context[e] = "live"
  /\ context' = [context EXCEPT ![e] = "expired"]
  /\ UNCHANGED <<callVars, execution, statusOf, canceller, dataVars, answer>>

Execute(e) ==
  /\ IsAt(e, "registered") /\ SetStatus(e, "RUNNING")
  /\ context' = [context EXCEPT ![e] = "live"]
  /\ \E next \in {"check", "failed"} : Move(e, next)
  /\ UNCHANGED <<callVars, canceller, dataVars, answer>>

\* checkCache and handleCacheHit.
CacheHit(e) ==
  /\ IsAt(e, "check") /\ kind[e] = "query" /\ execution[e].retries = 0
  /\ Move(e, "done")
  /\ UNCHANGED <<callVars, statusOf, context, canceller, dataVars, answer>>

\* The context is looked at before every attempt; a batch fails where a single
\* statement ends as cancelled.
Check(e) ==
  /\ IsAt(e, "check")
  /\ Move(e, CASE context[e] = "live" -> "attempt"
             [] context[e] = "cancelled" /\ ~IsBatch(e) -> "cancelled"
             [] OTHER -> "failed")
  /\ UNCHANGED <<callVars, statusOf, context, canceller, dataVars, answer>>

\* A statement takes effect at once, but in a batch's transaction.
Effects(e) == IF kind[e] = "query" THEN 0 ELSE 1
Applied(e, times) == applied' = [applied EXCEPT ![e][execution[e].statement] = @ + times]

\* storeResult, and on to the next statement.
Stored(e, result) ==
  LET x == execution[e]
  IN /\ results' = [results EXCEPT ![e][x.statement] = result]
     /\ execution' = [execution EXCEPT ![e] =
          [x EXCEPT !.retries = 0, !.statement = @ + 1,
                    !.at = IF x.statement < BatchSize THEN "check"
                           ELSE IF kind[e] = "batch" THEN "done" ELSE "commit",
                    !.written = IF kind[e] = "batchTransaction" /\ result = "COMPLETED"
                                THEN @ \cup {x.statement} ELSE @]]

Succeed(e) ==
  /\ IsAt(e, "attempt")
  /\ IF ~IsBatch(e)
     THEN Move(e, "done") /\ UNCHANGED results
     ELSE Stored(e, "COMPLETED")
  /\ IF kind[e] = "batchTransaction" THEN UNCHANGED applied ELSE Applied(e, Effects(e))
  /\ UNCHANGED <<callVars, statusOf, context, canceller, unanswered, answer>>

\* The error of an attempt that may have taken effect: the answer is lost, or
\* that of the commit.
Errs(e, times) ==
  /\ IsAt(e, "attempt") /\ times \in 0..Effects(e)
  /\ kind[e] = "batchTransaction" => times = 0
  /\ Applied(e, times)
  /\ unanswered' = [unanswered EXCEPT ![e][execution[e].statement] = @ + times]

CanRetry(e) == execution[e].retries < MaxRetries

\* shouldRetry and sleep, which a cancelled context cuts short.
Retry(e) == \E times \in 0..1 :
  /\ Errs(e, times) /\ kind[e] # "batchTransaction" /\ CanRetry(e)
  /\ execution' = [execution EXCEPT ![e].at = "retry", ![e].retries = @ + 1]
  /\ UNCHANGED <<callVars, statusOf, context, canceller, results, answer>>

\* The statement of a batch has an executor, whose context ends with the batch's.
RetryChecks(e) ==
  /\ IsAt(e, "retry")
  /\ IF context[e] # "live" /\ kind[e] = "batch" /\ ~failFast[e]
     THEN Stored(e, IF context[e] = "cancelled" THEN "CANCELLED" ELSE "FAILED")
     ELSE /\ Move(e, CASE context[e] = "live" -> "attempt"
                     [] context[e] = "cancelled" /\ kind[e] # "batch" -> "cancelled"
                     [] OTHER -> "failed")
          /\ UNCHANGED results
  /\ UNCHANGED <<callVars, statusOf, context, canceller, applied, unanswered, answer>>

\* What the transaction holds takes effect as a whole.
Plus(f, S) == [i \in DOMAIN f |-> f[i] + (IF i \in S THEN 1 ELSE 0)]
Committed(e, f) == [f EXCEPT ![e] = Plus(@, execution[e].written)]

Commit(e) ==
  /\ IsAt(e, "commit") /\ Move(e, "done")
  /\ applied' = Committed(e, applied)
  /\ UNCHANGED <<callVars, statusOf, context, canceller, results, unanswered, answer>>

\* The commit's error, with or without effect; the deferred rollback follows.
CommitFails(e) == \E lost \in BOOLEAN :
  /\ IsAt(e, "commit") /\ Move(e, "failed")
  /\ applied' = IF lost THEN Committed(e, applied) ELSE applied
  /\ unanswered' = IF lost THEN Committed(e, unanswered) ELSE unanswered
  /\ UNCHANGED <<callVars, statusOf, context, canceller, results, answer>>

\* Mutant: a statement of the open transaction fails, and what was written
\* before it is committed instead of rolled back.
GiveUpCommits(e) ==
  /\ IsAt(e, "attempt")
  /\ IF IsBatch(e) /\ ~failFast[e]
     THEN Stored(e, "FAILED") /\ UNCHANGED applied
     ELSE Move(e, "failed") /\ UNCHANGED results /\ applied' = Committed(e, applied)
  /\ UNCHANGED <<callVars, statusOf, context, canceller, unanswered, answer>>

GiveUp(e) == \E times \in 0..1 :
  /\ Errs(e, times)
  /\ IF IsBatch(e) /\ ~failFast[e]
     THEN Stored(e, "FAILED")
     ELSE Move(e, "failed") /\ UNCHANGED results
  /\ UNCHANGED <<callVars, statusOf, context, canceller, answer>>

\* Completed, handleError, or the end of a cancelled statement.
Settle(e) ==
  /\ execution[e].at \in {"done", "failed", "cancelled"}
  /\ SetStatus(e, CASE IsAt(e, "done") -> "COMPLETED" [] IsAt(e, "failed") -> "FAILED" [] OTHER -> "CANCELLED")
  /\ answer' = [answer EXCEPT ![e] = IF IsAt(e, "done") THEN "nil" ELSE "error"]
  /\ Move(e, "returned")
  /\ UNCHANGED <<callVars, context, canceller, dataVars>>

-----------------------------------------------------------------------------
ExecutorInit ==
  /\ kind \in [Executors -> Kinds] /\ failFast \in [Executors -> BOOLEAN]
  /\ active = {}
  /\ execution = [e \in Executors |-> [at |-> "new", retries |-> 0, statement |-> 1, written |-> {}]]
  /\ statusOf = [e \in Executors |-> "PENDING"] /\ context = [e \in Executors |-> "none"]
  /\ canceller = [e \in Executors |-> "none"] /\ answer = [e \in Executors |-> "none"]
  /\ results = [e \in Executors |-> [i \in Indices(e) |-> "none"]]
  /\ applied = [e \in Executors |-> [i \in Indices(e) |-> 0]] /\ unanswered = applied

Cancelling(e) == CancelExecutor(e) \/ CancelReads(e) \/ CancelCalls(e) \/ CancelSets(e)
Executing(e)  ==
  \/ registerExecutor(e) \/ Execute(e) \/ CacheHit(e) \/ Check(e) \/ Succeed(e) \/ Retry(e)
  \/ RetryChecks(e) \/ GiveUp(e) \/ Commit(e) \/ CommitFails(e) \/ Settle(e) \/ unregisterExecutor(e)

ExecutorNext == \E e \in Executors : Executing(e) \/ Cancelling(e) \/ Expire(e)

-----------------------------------------------------------------------------
ExecutorTypeOK ==
  /\ kind \in [Executors -> Kinds] /\ failFast \in [Executors -> BOOLEAN] /\ active \subseteq Executors
  /\ \A e \in Executors :
       /\ execution[e] \in [at : {"new", "registered", "check", "attempt", "retry", "commit",
                                  "done", "failed", "cancelled", "returned", "over"},
                            retries : 0..MaxRetries, statement : 1..(BatchSize + 1), written : SUBSET Indices(e)]
       /\ results[e] \in [Indices(e) -> Final \cup {"none"}]
       /\ applied[e] \in [Indices(e) -> Nat] /\ unanswered[e] \in [Indices(e) -> Nat]
  /\ statusOf \in [Executors -> Final \cup {"PENDING", "RUNNING"}]
  /\ context \in [Executors -> {"none", "live", "cancelled", "expired"}]
  /\ canceller \in [Executors -> {"none", "found", "call", "set", "done", "refused"}]
  /\ answer \in [Executors -> {"none", "nil", "error"}]

\* Once Execute has returned, what it says is what was done, whatever retries,
\* cancellations and failures came in between, except for the effects whose
\* answer was an error: a single write took effect once if there was no error
\* and not at all if there was; a transaction of several statements had the
\* effect of those reported as completed, or of none; and of a batch without a
\* transaction exactly the statements reported as completed took effect.
AnswerMatchesEffect ==
  \A e \in Executors, i \in 1..BatchSize : answer[e] # "none" /\ i \in Indices(e) =>
    applied[e][i] - unanswered[e][i] =
      CASE kind[e] = "query"                    -> 0
        [] kind[e] \in {"write", "transaction"} -> IF answer[e] = "nil" THEN 1 ELSE 0
        [] kind[e] = "batch"                    -> IF results[e][i] = "COMPLETED" THEN 1 ELSE 0
        [] OTHER -> IF answer[e] = "nil" /\ results[e][i] = "COMPLETED" THEN 1 ELSE 0
=============================================================================
