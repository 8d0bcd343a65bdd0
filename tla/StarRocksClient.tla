--------------------------- MODULE StarRocksClient ---------------------------
(***************************************************************************)
(* The clients of StarRocks (infrastructure/starrocks): client.go runs     *)
(* statements over one connection pool, which every caller replaces when   *)
(* its frontend fails, and stream loads over HTTP; fe_client.go sends      *)
(* stream loads and look-ups to the frontend's HTTP interface.  Both       *)
(* rotate over the frontends and retry with a backoff.                     *)
(*                                                                         *)
(* The field db of the client is read and replaced without a lock.         *)
(***************************************************************************)
EXTENDS Integers, FiniteSets

CONSTANTS
    DBCallers,      \* goroutines using client.go
    FECallers,      \* goroutines using fe_client.go
    FECount,        \* number of frontend addresses
    MaxTries,       \* attempts that fit into the backoff's MaxElapsedTime, or MaxRetries + 1
    MaxPools        \* bound: connection pools opened

VARIABLES
    currentFEIndex, \* of client.go
    db,             \* the pool in use, 0 when there is none
    open,           \* pools that are open, 1..pools have been opened
    pools,
    calls,          \* the call each goroutine is in
    loaded          \* the loads StarRocks committed: [call, label, complete]

clientVars == <<currentFEIndex, db, open, pools, calls, loaded>>

Callers == DBCallers \cup FECallers
DBOperations == {"query", "write", "load", "ping", "close"}

Fresh == [op |-> "none", pc |-> "idle", tries |-> 0, pool |-> 0, rotated |-> FALSE]

At(c, pc) == calls[c].pc = pc
Goto(c, pc) == calls' = [calls EXCEPT ![c].pc = pc]
Finished(c, how) == [calls EXCEPT ![c] = [Fresh EXCEPT !.op = calls[c].op, !.pc = how]]
Finish(c, how) == calls' = Finished(c, how)

rotateToNextFE == currentFEIndex' = (currentFEIndex + 1) % FECount

\* A failed attempt is repeated after a delay until the backoff gives up.
Retried(c) ==
    IF calls[c].tries < MaxTries THEN [calls EXCEPT ![c].pc = "ready"] ELSE Finished(c, "failed")

Start(c) ==
    /\ At(c, "idle")
    /\ \E op \in (IF c \in DBCallers THEN DBOperations ELSE {"feLoad"}) :
        calls' = [calls EXCEPT ![c] = [Fresh EXCEPT !.op = op, !.pc = "ready"]]
    /\ UNCHANGED <<currentFEIndex, db, open, pools, loaded>>

\* ExecuteQuery and Ping look at the pool first.  A Ping without a pool tries one frontend.
Look(c) ==
    /\ At(c, "ready") /\ calls[c].op \in {"query", "write", "ping"}
    /\ calls' = [calls EXCEPT ![c].pc = IF db = 0 THEN "open" ELSE "use", ![c].tries = @ + 1,
                             ![c].rotated = calls[c].op = "ping" /\ db = 0]
    /\ UNCHANGED <<currentFEIndex, db, open, pools, loaded>>

\* QueryContext already executes a write; ExecContext executes it once more.
Use(c) ==
    /\ At(c, "use") /\ calls[c].op # "ping" /\ db \in open
    /\ IF calls[c].op = "write" THEN Goto(c, "exec") ELSE Finish(c, "done")
    /\ UNCHANGED <<currentFEIndex, db, open, pools, loaded>>

Exec(c) ==
    /\ At(c, "exec") /\ db \in open
    /\ Finish(c, "done")
    /\ UNCHANGED <<currentFEIndex, db, open, pools, loaded>>

PingSucceeds(c) ==
    /\ At(c, "use") /\ calls[c].op = "ping" /\ db \in open
    /\ Finish(c, "done")
    /\ UNCHANGED <<currentFEIndex, db, open, pools, loaded>>

\* The client was closed between the look and the use: a nil pool is dereferenced.
UseOfNil(c) ==
    /\ calls[c].pc \in {"use", "exec"} /\ db = 0
    /\ Finish(c, "panicked")
    /\ UNCHANGED <<currentFEIndex, db, open, pools, loaded>>

\* The statement fails, with the pool closed by another caller or in StarRocks; whether it
\* was executed before or not.  isConnectionError leads to
\* the next frontend and a new pool, other errors to the next attempt.
UseFails(c) ==
    /\ calls[c].pc \in {"use", "exec"} /\ db # 0 /\ calls[c].op # "ping"
    /\ \/ /\ db \in open /\ At(c, "use") /\ rotateToNextFE
          /\ calls' = [calls EXCEPT ![c].pc = "open", ![c].rotated = TRUE]
       \/ calls' = Retried(c) /\ UNCHANGED currentFEIndex
    /\ UNCHANGED <<db, open, pools, loaded>>

PingFails(c) ==
    /\ At(c, "use") /\ calls[c].op = "ping" /\ db # 0
    /\ Goto(c, "open")
    /\ UNCHANGED <<currentFEIndex, db, open, pools, loaded>>

(* initDBConnection: open and test a new pool, close the old one, store the new one. *)
OpenPool(c) ==
    /\ At(c, "open") /\ pools < MaxPools
    /\ pools' = pools + 1 /\ open' = open \cup {pools'}
    /\ calls' = [calls EXCEPT ![c].pc = "swap", ![c].pool = pools']
    /\ UNCHANGED <<currentFEIndex, db, loaded>>

\* ExecuteQuery rotates when its first connection fails and tries again later, Ping
\* rotates after the failed reconnection and opens a pool to the next frontend at once.
OpenFails(c) ==
    /\ At(c, "open")
    /\ IF calls[c].rotated
       THEN calls' = (IF calls[c].op = "ping" THEN Finished(c, "failed")
                      ELSE Retried(c)) /\ UNCHANGED currentFEIndex
       ELSE /\ rotateToNextFE
            /\ calls' = IF calls[c].op = "ping" THEN [calls EXCEPT ![c].rotated = TRUE]
                        ELSE Retried(c)
    /\ UNCHANGED <<db, open, pools, loaded>>

CloseOld(c) ==
    /\ At(c, "swap")
    /\ open' = open \ {db}
    /\ Goto(c, "store")
    /\ UNCHANGED <<currentFEIndex, db, pools, loaded>>

\* A query whose connection broke comes back with an error and is tried again.
StorePool(c) ==
    /\ At(c, "store")
    /\ db' = calls[c].pool
    /\ calls' = IF calls[c].op = "ping" THEN Finished(c, "done")
                ELSE IF calls[c].rotated
                THEN [Retried(c) EXCEPT ![c].rotated = FALSE, ![c].pool = 0]
                ELSE [calls EXCEPT ![c].pc = "use", ![c].pool = 0]
    /\ UNCHANGED <<currentFEIndex, open, pools, loaded>>

\* Close closes the pool it finds, then forgets the one in use, perhaps another by now;
\* a later statement opens a new one.
Close(c) ==
    /\ At(c, "ready") /\ calls[c].op = "close"
    /\ IF db = 0 THEN Finish(c, "done") ELSE Goto(c, "forget")
    /\ open' = open \ {db}
    /\ UNCHANGED <<currentFEIndex, db, pools, loaded>>

\* The mutant that keeps the closed pool.
Keep(c) == db

Forget(c) == 0

CloseEnds(c) ==
    /\ At(c, "forget")
    /\ db' = Forget(c)
    /\ Finish(c, "done")
    /\ UNCHANGED <<currentFEIndex, open, pools, loaded>>

\* The mutant of a label per attempt.
LabelPerAttempt(c) == <<c, calls[c].tries>>

(* Stream loads.  StarRocks commits one load per label, and the label of a load is made
   before its first attempt. *)
Label(c) == c

\* The mutant of one reader for all attempts.
CompleteOnce(c) == IF calls[c].tries = 0 THEN {TRUE} ELSE BOOLEAN

\* Whether the request carries all the data.  client.go makes a reader per attempt;
\* fe_client.go hands over one reader, which an attempt that reached a frontend consumed.
Complete(c) == IF c \in DBCallers \/ calls[c].tries = 0 THEN {TRUE} ELSE BOOLEAN

Committed(c) ==
    {loaded \cup {[call |-> c, label |-> Label(c), complete |-> all]} : all \in Complete(c)}

IsLoad(c) == calls[c].op \in {"load", "feLoad"}

LabelIsFree(c) == \A l \in loaded : l.label # Label(c)

LoadSucceeds(c) ==
    /\ At(c, "ready") /\ IsLoad(c) /\ LabelIsFree(c)
    /\ loaded' \in Committed(c)
    /\ Finish(c, "done")
    /\ UNCHANGED <<currentFEIndex, db, open, pools>>

\* The answer is lost, the load fails before it is committed, or its label exists.
\* client.go retries whatever the error is and rotates for a connection error.
LoadFails(c) ==
    /\ At(c, "ready") /\ calls[c].op = "load"
    /\ loaded' \in {loaded} \cup (IF LabelIsFree(c) THEN Committed(c) ELSE {})
    /\ rotateToNextFE \/ UNCHANGED currentFEIndex
    /\ LET tried == [calls EXCEPT ![c].tries = @ + 1] IN
       calls' = IF tried[c].tries < MaxTries THEN tried ELSE Finished(c, "failed")
    /\ UNCHANGED <<db, open, pools>>

\* fe_client.go retries connection errors and 5xx answers, for good or for another
\* attempt; the other errors are permanent.
FELoadFails(c) ==
    /\ At(c, "ready") /\ calls[c].op = "feLoad"
    /\ loaded' \in {loaded} \cup (IF LabelIsFree(c) THEN Committed(c) ELSE {})
    /\ LET tried == [calls EXCEPT ![c].tries = @ + 1] IN
       \/ tried[c].tries < MaxTries /\ calls' = tried
       \/ Finish(c, "failed")
    /\ UNCHANGED <<currentFEIndex, db, open, pools>>

\* A load that StarRocks refuses is answered with status 200 and a Status in the body,
\* which fe_client.go hands back without an error.
FELoadRefused(c) ==
    /\ At(c, "ready") /\ calls[c].op = "feLoad"
    /\ Finish(c, "done")
    /\ UNCHANGED <<currentFEIndex, db, open, pools, loaded>>

ClientInit ==
    /\ currentFEIndex = 0
    /\ db = 1 /\ open = {1} /\ pools = 1
    /\ calls = [c \in Callers |-> Fresh]
    /\ loaded = {}

ClientNext ==
    \E c \in Callers :
        \/ Start(c) \/ Look(c) \/ Use(c) \/ Exec(c) \/ PingSucceeds(c) \/ UseOfNil(c)
        \/ UseFails(c) \/ PingFails(c)
        \/ OpenPool(c) \/ OpenFails(c) \/ CloseOld(c) \/ StorePool(c)
        \/ Close(c) \/ CloseEnds(c)
        \/ LoadSucceeds(c) \/ LoadFails(c) \/ FELoadFails(c) \/ FELoadRefused(c)
-----------------------------------------------------------------------------
\* The pool in use is open, except while a goroutine stands between closing the old pool
\* and storing its own, or forgetting it: no reconnection and no Close leaves the others
\* a closed pool (initDBConnection and Close read and write db without the mutex).
PoolInUseIsOpen ==
    db \notin open => db = 0 \/ \E c \in DBCallers : calls[c].pc \in {"store", "forget"}

\* A stream load of client.go is committed at most once, however often it is sent, and
\* the caller is told of a success only when all its data was loaded.
LoadIsExactlyOnce ==
    \A c \in DBCallers :
        /\ Cardinality({l \in loaded : l.call = c}) <= 1
        /\ calls[c].op = "load" /\ At(c, "done") => \E l \in loaded : l.call = c /\ l.complete
=============================================================================
