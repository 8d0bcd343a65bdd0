---------------------------- MODULE QueryService ----------------------------
(***************************************************************************)
(* The query service (application/services/query_service.go): ExecuteQuery *)
(* looks into the result cache, registers the query, validates it, asks    *)
(* for the health of the system and a plan, executes and caches; the other *)
(* operations cancel a query and tell what is running.                     *)
(*                                                                         *)
(* Every caller runs one text with options of its own.  The key of the     *)
(* result cache holds the text and not whether partial results are         *)
(* allowed.  The client is not told the query ID: a cancellation reaches   *)
(* no query of this service, it only succeeds or fails.                    *)
(***************************************************************************)
EXTENDS Naturals

CONSTANTS
    QueryCallers,
    Text,               \* [caller -> text]
    Texts,              \* the texts, all of them SELECTs
    Cancellers,
    Lenient,            \* the callers that allow partial results
    MaxExecutions       \* bound of the model: calls per caller

VARIABLES
    execution,          \* per caller: where its call is
    runningQueries,     \* query ID (the caller) -> status, or "none"
    queryCache,         \* text -> result, or NoResult
    delivered,          \* per caller: the last answer
    cancelling,         \* per canceller: the query it found running, or "none"
    executions

NoResult == [kind |-> "none", partial |-> FALSE, healthy |-> TRUE]
Failed == [kind |-> "error", partial |-> FALSE, healthy |-> TRUE]

\* What ValidateQuery finds out, in this order: parsing, EXPLAIN, the estimated cost.
Findings == [parse : {"empty", "syntax", "unsupported", "blocked", "ok"},
             analysis : {"ok", "rejected", "failed"},
             cost : {"unknown", "low", "high", "excessive"}]

\* An EXPLAIN that failed for another reason leaves the cost unchecked.
ValidateQuery(f) ==
    /\ f.parse = "ok"
    /\ \/ f.analysis = "failed"
       \/ f.analysis = "ok" /\ f.cost # "excessive"

PlanTypes == {"error", "original", "rewrite", "rejected", "unknown"}
------------------------------------------------------------------------------
Idle == [at |-> "idle", healthy |-> TRUE]

Goes(c, at) == execution' = [execution EXCEPT ![c].at = at]

\* A hit answers before the query is registered.
AnswerFromCache(c) ==
    /\ execution[c].at = "idle" /\ executions[c] < MaxExecutions
    /\ queryCache[Text[c]] # NoResult
    /\ executions' = [executions EXCEPT ![c] = @ + 1]
    /\ delivered' = [delivered EXCEPT ![c] = queryCache[Text[c]]]
    /\ UNCHANGED <<execution, runningQueries, queryCache, cancelling>>

\* EnableCache may be off.
Register(c) ==
    /\ execution[c].at = "idle" /\ executions[c] < MaxExecutions
    /\ executions' = [executions EXCEPT ![c] = @ + 1]
    /\ runningQueries' = [runningQueries EXCEPT ![c] = "running"]
    /\ Goes(c, "validate")
    /\ UNCHANGED <<queryCache, delivered, cancelling>>

\* The mutant that forgets the deferred Delete when the call fails.
FinishKeeps(c, result) ==
    /\ delivered' = [delivered EXCEPT ![c] = result]
    /\ runningQueries' = IF result = Failed THEN runningQueries ELSE [runningQueries EXCEPT ![c] = "none"]
    /\ execution' = [execution EXCEPT ![c] = Idle]

\* Every return runs the deferred Delete.
Finish(c, result) ==
    /\ delivered' = [delivered EXCEPT ![c] = result]
    /\ runningQueries' = [runningQueries EXCEPT ![c] = "none"]
    /\ execution' = [execution EXCEPT ![c] = Idle]

Validate(c) ==
    /\ execution[c].at = "validate"
    /\ \E f \in Findings :
          IF ValidateQuery(f) THEN Goes(c, "health") /\ UNCHANGED <<runningQueries, delivered>>
          ELSE Finish(c, Failed)
    /\ UNCHANGED <<queryCache, cancelling, executions>>

CheckSystemHealth(c) ==
    /\ execution[c].at = "health"
    /\ \E healthy \in BOOLEAN :
          IF healthy \/ c \in Lenient
          THEN /\ execution' = [execution EXCEPT ![c] = [at |-> "plan", healthy |-> healthy]]
               /\ UNCHANGED <<runningQueries, delivered>>
          ELSE Finish(c, Failed)
    /\ UNCHANGED <<queryCache, cancelling, executions>>

Plan(c) ==
    /\ execution[c].at = "plan"
    /\ \E type \in PlanTypes :
          IF type \in {"original", "rewrite"} THEN Goes(c, "execute") /\ UNCHANGED <<runningQueries, delivered>>
          ELSE Finish(c, Failed)
    /\ UNCHANGED <<queryCache, cancelling, executions>>

\* The mutant that marks every result as complete.
ResultUnmarked(healthy) == [kind |-> "rows", partial |-> FALSE, healthy |-> healthy]

Result(healthy) == [kind |-> "rows", partial |-> ~healthy, healthy |-> healthy]

\* The client answers within the timeout or fails; the mark is set before the result is cached.
executeOriginalQuery(c) ==
    /\ execution[c].at = "execute"
    /\ \/ Finish(c, Failed) /\ UNCHANGED queryCache
       \/ \E cached \in BOOLEAN :
             LET result == Result(execution[c].healthy) IN
             /\ Finish(c, result)
             /\ queryCache' = IF cached THEN [queryCache EXCEPT ![Text[c]] = result] ELSE queryCache
    /\ UNCHANGED <<cancelling, executions>>

\* The result outlives its CacheTTL.
ExpireResult(t) ==
    /\ queryCache[t] # NoResult
    /\ queryCache' = [queryCache EXCEPT ![t] = NoResult]
    /\ UNCHANGED <<execution, runningQueries, delivered, cancelling, executions>>
------------------------------------------------------------------------------
FindRunning(k, c) ==
    /\ cancelling[k] = "none" /\ runningQueries[c] # "none"
    /\ cancelling' = [cancelling EXCEPT ![k] = c]
    /\ UNCHANGED <<execution, runningQueries, queryCache, delivered, executions>>

\* The mutant that stores the entry as it was loaded.
CancelledStatusKept == "running"

CancelledStatus == "cancelled"

\* The entry is stored again even if the query has ended meanwhile: it then stays for ever.
CancelQuery(k) ==
    /\ cancelling[k] # "none"
    /\ \E accepted \in BOOLEAN :
          runningQueries' = IF accepted THEN [runningQueries EXCEPT ![cancelling[k]] = CancelledStatus]
                            ELSE runningQueries
    /\ cancelling' = [cancelling EXCEPT ![k] = "none"]
    /\ UNCHANGED <<execution, queryCache, delivered, executions>>

GetRunningQueries == {c \in QueryCallers : runningQueries[c] = "running"}
------------------------------------------------------------------------------
QueryServiceInit ==
    /\ execution = [c \in QueryCallers |-> Idle]
    /\ runningQueries = [c \in QueryCallers |-> "none"]
    /\ queryCache = [t \in Texts |-> NoResult]
    /\ delivered = [c \in QueryCallers |-> NoResult]
    /\ cancelling = [k \in Cancellers |-> "none"]
    /\ executions = [c \in QueryCallers |-> 0]

QueryServiceNext ==
    \/ \E c \in QueryCallers :
          \/ AnswerFromCache(c) \/ Register(c) \/ Validate(c) \/ CheckSystemHealth(c)
          \/ Plan(c) \/ executeOriginalQuery(c)
    \/ \E t \in Texts : ExpireResult(t)
    \/ \E k \in Cancellers : CancelQuery(k) \/ \E c \in QueryCallers : FindRunning(k, c)
------------------------------------------------------------------------------
(* GetRunningQueries lists exactly the queries that are being executed and *)
(* were not cancelled: no early return leaves an entry behind, and a       *)
(* cancellation that comes after the end of its query does not make it     *)
(* look running again.                                                     *)
RunningListIsExact ==
    GetRunningQueries = {c \in QueryCallers : execution[c].at # "idle" /\ runningQueries[c] # "cancelled"}

(* A result that was computed while the system was unhealthy says that it  *)
(* is partial, whether it was just executed or comes from the cache.       *)
PartialIsMarked == \A c \in QueryCallers : ~delivered[c].healthy => delivered[c].partial
==============================================================================
