---------------------------- MODULE WriteService ----------------------------
(***************************************************************************)
(* The application's write service (application/services/write_service.go):*)
(* calls of ExecuteWrite in the sync, async and batch modes with their     *)
(* retries, of ExecuteBatchWrite and BufferWrite, the transactions they    *)
(* name, and the flushes of buffered writes.                               *)
(*                                                                         *)
(* StarRocks, the health checker and the write buffer are interfaces here: *)
(* a client call may be applied and its answer lost, a preprocessor, a     *)
(* validator or the buffer may refuse.  A sync write, and a write in the   *)
(* buffer, is a write of one batch.  The transactions table is a sync.Map  *)
(* of shared records: reading a status, calling the client and storing the *)
(* new status are three steps.                                             *)
(***************************************************************************)
EXTENDS Naturals, FiniteSets

CONSTANTS
    Writes,        \* the calls of ExecuteWrite, ExecuteBatchWrite and BufferWrite
    WriteIDs,      \* the write IDs the callers choose from
    Transactions,  \* the transactions begun, at most
    Enders,        \* the calls of CommitTransaction and RollbackTransaction
    MaxBatches,    \* the batches a batch write is cut into, at most
    MaxRetries     \* the retries RetryCount and ShouldRetry allow, at most

NoTx == "no transaction"

VARIABLES
    write,         \* [Writes -> a call, at a program point]
    applied,       \* [Writes -> the batches StarRocks has applied]
    status,        \* s.transactions: [Transactions -> "absent" or the status]
    ender,         \* [Enders -> a call that ends a transaction]
    told,          \* the transactions of which some caller has been told the end
    buffered,      \* the writes in s.WriteBuffer
    scheduled,     \* s.scheduledFlushes
    sleeping,      \* [WriteIDs -> Nat]: flush goroutines before they remove the mark
    flushing,      \* [WriteIDs -> Nat]: flush goroutines after it
    unflushed      \* the writes a failed FlushByID has left in the buffer

writeVars == <<write, applied, status, ender, told, buffered, scheduled, sleeping, flushing, unflushed>>

Batches == 1..MaxBatches
Condition == {"healthy", "degraded", "unhealthy", "unknown"}

NoAnswer == [success |-> FALSE, err |-> FALSE, inBuffer |-> FALSE]
\* late: the end of its transaction was told before this call, which goes to validateTransaction;
\* timed: the write has a buffer timeout.
FreshWrite == [at |-> "idle", id |-> CHOOSE i \in WriteIDs : TRUE, tx |-> NoTx, late |-> FALSE,
               timed |-> FALSE, batches |-> 1, partial |-> FALSE,
               batch |-> 1, attempt |-> 0, ok |-> {}, errors |-> {}, answer |-> NoAnswer]
FreshEnder == [at |-> "idle", tx |-> NoTx, outcome |-> "none"]

WriteInit ==
    /\ write = [w \in Writes |-> FreshWrite]
    /\ applied = [w \in Writes |-> {}]
    /\ status = [t \in Transactions |-> "absent"]
    /\ ender = [e \in Enders |-> FreshEnder]
    /\ told = {} /\ buffered = {} /\ scheduled = {} /\ unflushed = {}
    /\ sleeping = [i \in WriteIDs |-> 0] /\ flushing = [i \in WriteIDs |-> 0]

flushVars == <<buffered, scheduled, sleeping, flushing, unflushed>>

\* The answer to a call; what only its steps need is forgotten.
Answer(call, success, err) ==
    [call EXCEPT !.at = "answered", !.tx = NoTx, !.batch = 1, !.attempt = 0,
                 !.answer = [success |-> success, err |-> err, inBuffer |-> FALSE]]

Refused(w) == Answer(write[w], FALSE, TRUE)

(***************************************************************************)
(* What becomes of a write while the system is unhealthy, by the condition *)
(* of the service and of the data.                                         *)
(***************************************************************************)
determineWriteStrategy(service, data) ==
    CASE data = "healthy" /\ service = "degraded" -> "proceed"
      [] service = "unhealthy" -> "reject"
      [] service # "unhealthy" /\ data = "unhealthy" -> "reject"
      [] OTHER -> "buffer"

\* The strategies there are: a system that is healthy needs none.
WriteStrategies == {"healthy"} \cup {determineWriteStrategy(s, d) : s \in Condition, d \in Condition}

(***************************************************************************)
(* ExecuteWrite, up to the validation of its transaction.  The buffer      *)
(* strategy takes a write away before its transaction is looked at, and    *)
(* neither BufferWrite nor ExecuteBatchWrite, called directly, looks at it *)
(* or at the system's health: their calls name any transaction.            *)
(***************************************************************************)
Begun(id, tx, strategy) ==
    LET call == [FreshWrite EXCEPT !.id = id] IN
    CASE strategy = "reject" -> Answer(call, FALSE, TRUE)
      [] strategy = "buffer" -> [call EXCEPT !.at = "buffer"]
      [] OTHER -> [call EXCEPT !.at = "validate", !.tx = tx, !.late = tx \in told]

ExecuteWrite(w) ==
    /\ write[w].at = "idle"
    /\ \E id \in WriteIDs, tx \in Transactions \cup {NoTx}, strategy \in WriteStrategies :
          write' = [write EXCEPT ![w] = Begun(id, tx, strategy)]
    /\ UNCHANGED <<applied, status, ender, told>> /\ UNCHANGED flushVars

CallBufferWrite(w) ==
    /\ write[w].at = "idle"
    /\ \E id \in WriteIDs : write' = [write EXCEPT ![w] = Begun(id, NoTx, "buffer")]
    /\ UNCHANGED <<applied, status, ender, told>> /\ UNCHANGED flushVars

\* The data is cut into n batches; without data there is none, and nothing to fail.
CutIntoBatches(call, n, partial) ==
    IF n = 0 THEN Answer([call EXCEPT !.batches = 0, !.partial = partial], TRUE, FALSE)
    ELSE [call EXCEPT !.at = "attempt", !.tx = NoTx, !.batches = n, !.partial = partial]

ExecuteBatchWrite(w) ==
    /\ write[w].at = "idle"
    /\ \E n \in 0..MaxBatches, partial \in BOOLEAN :
          write' = [write EXCEPT ![w] = CutIntoBatches(FreshWrite, n, partial)]
    /\ UNCHANGED <<applied, status, ender, told>> /\ UNCHANGED flushVars

\* Preprocessing, validating or converting the data may fail.  An async write
\* is buffered, a sync write has one batch and tolerates no failure.
BeginWork(w) ==
    \/ write' = [write EXCEPT ![w] = Refused(w)]
    \/ write' = [write EXCEPT ![w].at = "buffer", ![w].tx = NoTx]
    \/ \E n \in 0..MaxBatches, partial \in BOOLEAN :
          write' = [write EXCEPT ![w] = CutIntoBatches(@, n, partial)]

Active == {t \in Transactions : status[t] = "active"}

\* validateTransaction: the status is read; it is marked timed out in a later step.
ValidateTransaction(w) ==
    /\ write[w].at = "validate"
    /\ LET tx == write[w].tx IN
       \/ /\ tx \in Active \cup {NoTx}
          /\ BeginWork(w)
       \/ /\ tx \in Transactions \ Active
          /\ write' = [write EXCEPT ![w] = Refused(w)]
       \/ /\ tx \in Active
          /\ write' = [write EXCEPT ![w].at = "expired"]
    /\ UNCHANGED <<applied, status, ender, told>> /\ UNCHANGED flushVars

TimeOutTransaction(w) ==
    /\ write[w].at = "expired"
    /\ status' = [status EXCEPT ![write[w].tx] = "timed out"]
    /\ write' = [write EXCEPT ![w] = Refused(w)]
    /\ UNCHANGED <<applied, ender, told>> /\ UNCHANGED flushVars

(***************************************************************************)
(* executeSyncWrite and executeBatchWriteInternal: the attempts on a batch,*)
(* then the next batch, the answer, or the next attempt after a delay.     *)
(***************************************************************************)
\* A partial write that calls itself successful though every batch failed.
BatchDoneTolerant(w, ok, errors) ==
    LET c == [write[w] EXCEPT !.ok = ok, !.errors = errors]
    IN  IF errors # {} /\ ~c.partial THEN Answer(c, FALSE, TRUE)
        ELSE IF c.batch = c.batches THEN Answer(c, TRUE, FALSE)
        ELSE [c EXCEPT !.at = "attempt", !.batch = @ + 1, !.attempt = 0]

BatchDone(w, ok, errors) ==
    LET c == [write[w] EXCEPT !.ok = ok, !.errors = errors]
    IN  IF errors # {} /\ ~c.partial THEN Answer(c, FALSE, TRUE)
        ELSE IF c.batch # c.batches THEN [c EXCEPT !.at = "attempt", !.batch = @ + 1, !.attempt = 0]
        ELSE IF errors # {} /\ ok = {} THEN Answer(c, FALSE, FALSE)
        ELSE Answer(c, TRUE, FALSE)

Applies(w, b) == applied' = [applied EXCEPT ![w] = @ \cup {b}]

AttemptSucceeds(w) ==
    /\ write[w].at = "attempt"
    /\ Applies(w, write[w].batch)
    /\ write' = [write EXCEPT ![w] =
                   BatchDone(w, write[w].ok \cup {write[w].batch}, write[w].errors)]
    /\ UNCHANGED <<status, ender, told>> /\ UNCHANGED flushVars

\* The client reports an error: StarRocks may have applied the batch all the
\* same.  A retryable error leads to a delay while attempts are left.
AttemptFails(w) ==
    /\ write[w].at = "attempt"
    /\ \/ Applies(w, write[w].batch)
       \/ UNCHANGED applied
    /\ \/ /\ write[w].attempt < MaxRetries
          /\ write' = [write EXCEPT ![w].at = "delay", ![w].attempt = @ + 1]
       \/ write' = [write EXCEPT ![w] =
                      BatchDone(w, write[w].ok, write[w].errors \cup {write[w].batch})]
    /\ UNCHANGED <<status, ender, told>> /\ UNCHANGED flushVars

DelayEnds(w) ==
    /\ write[w].at = "delay"
    /\ \/ write' = [write EXCEPT ![w].at = "attempt"]
       \/ write' = [write EXCEPT ![w] = Answer(write[w], write[w].ok # {}, TRUE)]
    /\ UNCHANGED <<applied, status, ender, told>> /\ UNCHANGED flushVars

(***************************************************************************)
(* BufferWrite, and scheduleBufferFlush for a write with a buffer timeout: *)
(* the mark is looked up and stored in two steps.  A write without one is  *)
(* left to the periodic flush.                                             *)
(***************************************************************************)
InBuffer(w) == [write[w] EXCEPT !.at = "answered", !.answer.success = TRUE, !.answer.inBuffer = TRUE]

BufferWrite(w) ==
    /\ write[w].at = "buffer"
    /\ \/ /\ buffered' = buffered \cup {w}
          /\ \/ write' = [write EXCEPT ![w].at = "lookup", ![w].timed = TRUE]
             \/ write' = [write EXCEPT ![w] = InBuffer(w)]
       \/ /\ write' = [write EXCEPT ![w] = Refused(w)]
          /\ UNCHANGED buffered
    /\ UNCHANGED <<applied, status, ender, told, scheduled, sleeping, flushing, unflushed>>

LookUpSchedule(w) ==
    /\ write[w].at = "lookup"
    /\ write' = [write EXCEPT ![w] = IF write[w].id \in scheduled THEN InBuffer(w)
                                     ELSE [@ EXCEPT !.at = "schedule"]]
    /\ UNCHANGED <<applied, status, ender, told>> /\ UNCHANGED flushVars

ScheduleBufferFlush(w) ==
    /\ write[w].at = "schedule"
    /\ scheduled' = scheduled \cup {write[w].id}
    /\ sleeping' = [sleeping EXCEPT ![write[w].id] = @ + 1]
    /\ write' = [write EXCEPT ![w] = InBuffer(w)]
    /\ UNCHANGED <<applied, status, ender, told, buffered, flushing, unflushed>>

\* The mark removed only once the write is flushed: no room for a second schedule.
FlushWakesMarked(i) ==
    /\ sleeping[i] > 0
    /\ sleeping' = [sleeping EXCEPT ![i] = @ - 1]
    /\ flushing' = [flushing EXCEPT ![i] = @ + 1]
    /\ UNCHANGED <<write, applied, status, ender, told, buffered, unflushed, scheduled>>

\* The goroutine of a schedule: it removes the mark, then flushes the write.
FlushWakes(i) ==
    /\ sleeping[i] > 0
    /\ sleeping' = [sleeping EXCEPT ![i] = @ - 1]
    /\ flushing' = [flushing EXCEPT ![i] = @ + 1]
    /\ scheduled' = scheduled \ {i}
    /\ UNCHANGED <<write, applied, status, ender, told, buffered, unflushed>>

WithID(i) == {w \in buffered : write[w].id = i}

\* The buffer sends these writes to StarRocks.
Sends(writes) == applied' = [w \in Writes |-> IF w \in writes THEN {1} ELSE applied[w]]

\* A flush that fails may have sent some of its writes.
FlushByID(i) ==
    /\ flushing[i] > 0
    /\ flushing' = [flushing EXCEPT ![i] = @ - 1]
    /\ \/ /\ Sends(WithID(i))
          /\ buffered' = buffered \ WithID(i)
          /\ unflushed' = unflushed \ WithID(i)
       \/ /\ \E sent \in SUBSET WithID(i) : Sends(sent)
          /\ unflushed' = unflushed \cup WithID(i)
          /\ UNCHANGED buffered
    /\ UNCHANGED <<write, status, ender, told, scheduled, sleeping>>

\* The periodic flush of everything: of what it sends, a flush that fails may keep some.
FlushBufferedWrites ==
    /\ buffered # {}
    /\ \E sent \in SUBSET buffered :
          /\ Sends(sent)
          /\ \E gone \in SUBSET sent : buffered' = buffered \ gone /\ unflushed' = unflushed \ gone
    /\ UNCHANGED <<write, status, ender, told, scheduled, sleeping, flushing>>

(***************************************************************************)
(* Transactions.  Neither CommitTransaction nor RollbackTransaction looks  *)
(* at the status: it only has to be in the table.                          *)
(***************************************************************************)
BeginTransaction(t) ==
    /\ status[t] = "absent" /\ t \notin told
    /\ status' = [status EXCEPT ![t] = "active"]
    /\ UNCHANGED <<write, applied, ender, told>> /\ UNCHANGED flushVars

EndTransaction(e) ==
    /\ ender[e].at = "idle"
    /\ \E t \in Transactions :
          /\ status[t] # "absent"
          /\ ender' = [ender EXCEPT ![e] = [at |-> "client", tx |-> t, outcome |-> "none"]]
    /\ UNCHANGED <<write, applied, status, told>> /\ UNCHANGED flushVars

ClientAnswersEnd(e) ==
    /\ ender[e].at = "client"
    /\ \E o \in {"committed", "rolled back", "failed"} :
          ender' = [ender EXCEPT ![e].at = "store", ![e].outcome = o]
    /\ UNCHANGED <<write, applied, status, told>> /\ UNCHANGED flushVars

\* A failed end that leaves the status alone.
StoreEndSucceeded(e) ==
    /\ ender[e].at = "store"
    /\ status' = IF ender[e].outcome = "failed" THEN status
                 ELSE [status EXCEPT ![ender[e].tx] = ender[e].outcome]
    /\ told' = told \cup {ender[e].tx}
    /\ ender' = [ender EXCEPT ![e].at = IF ender[e].outcome = "failed" THEN "ended" ELSE "cleanup"]
    /\ UNCHANGED <<write, applied>> /\ UNCHANGED flushVars

StoreEnd(e) ==
    /\ ender[e].at = "store"
    /\ status' = [status EXCEPT ![ender[e].tx] = ender[e].outcome]
    /\ told' = told \cup {ender[e].tx}
    /\ ender' = [ender EXCEPT ![e].at = IF ender[e].outcome = "failed" THEN "ended" ELSE "cleanup"]
    /\ UNCHANGED <<write, applied>> /\ UNCHANGED flushVars

\* An hour after a successful end its goroutine forgets the transaction.
CleanUp(e) ==
    /\ ender[e].at = "cleanup"
    /\ status' = [status EXCEPT ![ender[e].tx] = "absent"]
    /\ ender' = [ender EXCEPT ![e].at = "ended"]
    /\ UNCHANGED <<write, applied, told>> /\ UNCHANGED flushVars

WriteStep(w) ==
    \/ ExecuteWrite(w) \/ CallBufferWrite(w) \/ ExecuteBatchWrite(w)
    \/ ValidateTransaction(w) \/ TimeOutTransaction(w)
    \/ AttemptSucceeds(w) \/ AttemptFails(w) \/ DelayEnds(w)
    \/ BufferWrite(w) \/ LookUpSchedule(w) \/ ScheduleBufferFlush(w)

FlushStep == FlushBufferedWrites \/ (\E i \in WriteIDs : FlushWakes(i) \/ FlushByID(i))

TransactionStep ==
    \/ \E t \in Transactions : BeginTransaction(t)
    \/ \E e \in Enders : EndTransaction(e) \/ ClientAnswersEnd(e) \/ StoreEnd(e) \/ CleanUp(e)

WriteNext == (\E w \in Writes : WriteStep(w)) \/ FlushStep \/ TransactionStep

-----------------------------------------------------------------------------
(* Every variable stays in its set.                                        *)
WriteTypeOK ==
    /\ \A w \in Writes : /\ write[w].ok \cup write[w].errors \subseteq 1..write[w].batches
                         /\ write[w].ok \cap write[w].errors = {}
                         /\ applied[w] \subseteq 1..write[w].batches
    /\ scheduled \subseteq WriteIDs /\ unflushed \subseteq buffered
    /\ told \subseteq Transactions

(* A write that begins after some caller was told the end of its           *)
(* transaction, successful or not, is neither sent to StarRocks nor        *)
(* buffered, however ends, time-outs and clean-ups of that transaction     *)
(* interleave.  Not so a call that does not get to validateTransaction: of *)
(* ExecuteBatchWrite, of BufferWrite, or under the buffer strategy.        *)
RefusedOnceEnded ==
    \A w \in Writes : write[w].late => applied[w] = {} /\ w \notin buffered

(* A write that is reported successful and unbuffered, without an error,   *)
(* was applied in every batch, but for the batches whose errors a partial  *)
(* write lists, which are never all of them; the rows it reports are rows  *)
(* that were applied.                                                      *)
SuccessIsApplied ==
    \A w \in Writes :
        /\ write[w].ok \subseteq applied[w]
        /\ (write[w].answer.success /\ ~write[w].answer.inBuffer /\ ~write[w].answer.err) =>
              /\ write[w].ok \cup write[w].errors = 1..write[w].batches
              /\ write[w].errors = {} \/ (write[w].partial /\ write[w].ok # {})

(* A write that was accepted into the buffer with a buffer timeout stays   *)
(* there only while a flush of its ID is still to come, unless the flush   *)
(* failed: the mark is stored and looked up without a lock, and still no   *)
(* such write is left unwatched.                                           *)
BufferedIsWatched ==
    \A w \in buffered \ unflushed : write[w].timed =>
        \/ write[w].at \in {"lookup", "schedule"}
        \/ sleeping[write[w].id] + flushing[write[w].id] > 0
=============================================================================
