--------------------------- MODULE BatchAggregator ---------------------------
(***************************************************************************)
(* internal/batch/aggregator.go: DefaultBatchAggregator (one batch being   *)
(* built, a timer, an expiry task), TablePartitionAggregator and           *)
(* MultiBatchAggregator (one DefaultBatchAggregator per table and          *)
(* partition), and BatchManager, whose loops take ready batches to the     *)
(* processor.                                                              *)
(*                                                                         *)
(* "multi" says which aggregator the manager has.  Threads: a producer per *)
(* message (AddMessage), the timer goroutines, the expiry tasks, the       *)
(* processing loops, the callers of Start, Stop and Close.  A section      *)
(* under a mutex is one step; the aggregators are visited one by one.      *)
(*                                                                         *)
(* Abstracted: a batch is its sequence of messages; ExpireAfterMS is above *)
(* MaxBatchTimeMS, so that a batch expires only once its timer is over.    *)
(* Left out: batch identifiers, statistics, an error of TableResolver.     *)
(***************************************************************************)
EXTENDS Integers, FiniteSets, SequencesExt

CONSTANTS
  Messages,       \* each added once, by a producer of its own
  Key,            \* TableResolver: table and partition of each message
  Size,           \* bytes of each message
  MaxBatchSize, MaxBatchCount, Strategy,
  Loops           \* bound: processing loops, one per Start

TableKeys  == {Key[m] : m \in Messages}
Alone == CHOOSE k \in TableKeys : TRUE      \* the only aggregator if ~multi

ASSUME AggregatorAssumption ==
  /\ IsFiniteSet(Messages) /\ Messages # {} /\ Size \in [Messages -> Nat]
  /\ Loops \cap {"stop"} = {}
  /\ MaxBatchSize \in Nat \ {0} /\ MaxBatchCount \in Nat \ {0}
  /\ Strategy \in {"time", "size", "count", "mixed"}

VARIABLES
  multi,       \* the aggregator is a MultiBatchAggregator
  producer,    \* per message: its AddMessage
  agg,         \* per key: its DefaultBatchAggregator
  multiClosed, \* MultiBatchAggregator.closed
  tableClosed, \* TablePartitionAggregator.closed
  running, cancelled,  \* of BatchManager; cancelled goes with m.closed
  closing,     \* BatchManager.Close: "no", "wait", "aggregator", "table", "done"
  thread,      \* loops and Stop: program point, keys to visit, batches in hand
  processed,   \* history: messages given to the processor
  lost         \* history: messages dropped, per way of losing them

aggVars     == <<agg, multiClosed, tableClosed>>
managerVars == <<running, cancelled, closing>>
historyVars == <<processed, lost>>
aggregatorVars == <<multi, producer, aggVars, managerVars, thread, historyVars>>

Threads == Loops \cup {"stop"}
Ways    == {"overwritten", "expired", "drained", "second", "shutdown"}
MessagesOf(batches) == UNION {ToSet(b) : b \in batches}
Lose(way, ms) == lost' = [lost EXCEPT ![way] = @ \cup ms]

-----------------------------------------------------------------------------
(* DefaultBatchAggregator.  "fired" counts goroutines whose timer fired    *)
(* and that wait for the mutex; a stopped timer's goroutine does nothing.  *)
(* "rang" is history: one of them found the batch empty.                   *)

NoAggregator == [made |-> FALSE, closed |-> FALSE, msgs |-> <<>>, ready |-> FALSE,
                 armed |-> FALSE, fired |-> 0, rang |-> FALSE]
Made         == [NoAggregator EXCEPT !.made = TRUE, !.armed = TRUE]

BatchBytes(ms) == SumFunctionOnSet(Size, ToSet(ms))

\* Mutant: one message too many.
IsFullLate(ms) == Len(ms) > MaxBatchCount

IsFull(ms) ==
  \/ Strategy \in {"size", "mixed"} /\ BatchBytes(ms) >= MaxBatchSize
  \/ Strategy \in {"count", "mixed"} /\ Len(ms) >= MaxBatchCount

\* Mutant: a batch that its timer made ready is not seen.
TakesFull(a, forced) == ~a.closed /\ a.msgs # <<>> /\ ((a.ready /\ IsFull(a.msgs)) \/ forced)

\* A batch is taken for processing when it is ready, or by force.
Takes(a, forced) == ~a.closed /\ a.msgs # <<>> /\ (a.ready \/ forced)

\* Mutant: the timer is left as it is.
NewBatchUntimed(a) == [a EXCEPT !.msgs = <<>>, !.ready = FALSE, !.rang = FALSE]

\* createNewBatch with resetBatchTimer.
NewBatch(a) == [a EXCEPT !.msgs = <<>>, !.ready = FALSE, !.rang = FALSE, !.armed = TRUE]

Put(k, a) == agg' = [agg EXCEPT ![k] = a]

TimerFires(k) ==
  /\ agg[k].armed /\ ~agg[k].closed
  /\ Put(k, [agg[k] EXCEPT !.armed = FALSE, !.fired = @ + 1])
  /\ UNCHANGED <<multi, producer, multiClosed, tableClosed, managerVars, thread, historyVars>>

\* The goroutine has the mutex: the batch may be another than its own.
Flush(k) ==
  /\ agg[k].fired > 0
  /\ Put(k, [agg[k] EXCEPT !.fired = @ - 1, !.ready = @ \/ agg[k].msgs # <<>>,
                          !.rang = @ \/ agg[k].msgs = <<>>])
  /\ UNCHANGED <<multi, producer, multiClosed, tableClosed, managerVars, thread, historyVars>>

checkExpiredBatch(k) ==
  LET a == agg[k]
  IN /\ ~a.closed /\ ~a.ready /\ a.msgs # <<>> /\ ~a.armed /\ a.fired = 0
     /\ Lose("expired", ToSet(a.msgs)) /\ Put(k, NewBatch(a))
     /\ UNCHANGED <<multi, producer, multiClosed, tableClosed, managerVars, thread, processed>>

\* Close marks the last batch ready and leaves it where nobody asks for it.
Closed(a) == [NoAggregator EXCEPT !.made = a.made, !.closed = a.made]

-----------------------------------------------------------------------------
(* AddMessage of a MultiBatchAggregator looks the aggregator up, makes one *)
(* if there is none, and adds the message to it.                           *)

Collecting == {t \in Threads : thread[t].at \in {"drain", "get", "force"}}
At(m, p)   == producer' = [producer EXCEPT ![m] = p]
Slot(m)    == IF multi THEN Key[m] ELSE Alone

\* The closed flags of both are read one after the other; a producer between
\* them behaves as one that is past both.
AddMessage(m) ==
  /\ multi /\ producer[m] = "new"
  /\ At(m, CASE multiClosed \/ tableClosed -> "refused"
             [] ~(multiClosed \/ tableClosed) /\ agg[Slot(m)].made -> "add"
             [] OTHER -> "make")
  /\ UNCHANGED <<multi, aggVars, managerVars, thread, historyVars>>

\* The write lock waits for the threads that collect under the read lock;
\* "closed" is not read again.
MakeAggregator(m) ==
  /\ producer[m] = "make" /\ Collecting = {}
  /\ At(m, "add")
  /\ Put(Slot(m), IF agg[Slot(m)].made THEN agg[Slot(m)] ELSE Made)
  /\ UNCHANGED <<multi, multiClosed, tableClosed, managerVars, thread, historyVars>>

\* A batch that is ready and not yet taken makes way for a new one.
Add(m) ==
  LET a     == agg[Slot(m)]
      open  == IF a.ready THEN NewBatch(a) ELSE a
      added == Append(open.msgs, m)
  IN /\ producer[m] = IF multi THEN "add" ELSE "new"
     /\ IF a.closed
        THEN At(m, "refused") /\ UNCHANGED <<agg, historyVars>>
        ELSE /\ At(m, "accepted")
             /\ Put(Slot(m), [open EXCEPT !.msgs = added, !.ready = IsFull(added)])
             /\ IF a.ready THEN Lose("overwritten", ToSet(a.msgs)) ELSE UNCHANGED lost
             /\ UNCHANGED processed
     /\ UNCHANGED <<multi, multiClosed, tableClosed, managerVars, thread>>

-----------------------------------------------------------------------------
(* BatchManager.processReadyBatches and forceBatch.  A thread goes ready,  *)
(* drain (multi only), get, process and back to ready until there is no    *)
(* batch; Stop goes on with force.                                         *)

Off       == [at |-> "off", todo |-> {}, hand |-> {}]
Go(t, s)  == thread' = [thread EXCEPT ![t] = s]
Visit(p)  == [at |-> p, todo |-> IF multi THEN {k \in TableKeys : agg[k].made} ELSE {Alone}, hand |-> {}]
Wait      == [Off EXCEPT !.at = "wait"]

\* processReadyBatches ends: the loop waits for its ticker, Stop forces.
Ended(t) == IF t = "stop" THEN [Off EXCEPT !.at = "last"] ELSE Wait

Tick(t) ==
  /\ t \in Loops /\ thread[t].at = "wait" /\ running
  /\ Go(t, [Off EXCEPT !.at = "ready"])
  /\ UNCHANGED <<multi, producer, aggVars, managerVars, historyVars>>

Leave(t) ==
  /\ t \in Loops /\ thread[t].at = "wait" /\ cancelled
  /\ Go(t, [Off EXCEPT !.at = "left"])
  /\ UNCHANGED <<multi, producer, aggVars, managerVars, historyVars>>

\* A DefaultBatchAggregator only looks; a MultiBatchAggregator collects the
\* ready batches in order to count them.
IsBatchReady(t) ==
  /\ thread[t].at = "ready"
  /\ Go(t, CASE multi /\ ~multiClosed /\ ~tableClosed -> Visit("drain")
             [] ~multi /\ Takes(agg[Alone], FALSE)    -> Visit("get")
             [] OTHER                                 -> Ended(t))
  /\ UNCHANGED <<multi, producer, aggVars, managerVars, historyVars>>

\* GetReadyBatches and ForceBatches under the read lock, or GetBatch and
\* ForceBatch of the only aggregator.
Collect(t) == \E k \in thread[t].todo :
  LET taken == Takes(agg[k], thread[t].at = "force")
  IN /\ IF taken THEN Put(k, NewBatch(agg[k])) ELSE UNCHANGED agg
     /\ Go(t, [thread[t] EXCEPT !.todo = @ \ {k}, !.hand = IF taken THEN @ \cup {agg[k].msgs} ELSE @])
     /\ UNCHANGED <<multi, producer, multiClosed, tableClosed, managerVars, historyVars>>

\* The number of batches is all that IsBatchReady returns.
Drained(t) ==
  LET s == thread[t]
  IN /\ s.at = "drain" /\ s.todo = {}
     /\ Lose("drained", MessagesOf(s.hand))
     /\ Go(t, IF s.hand = {} \/ multiClosed \/ tableClosed THEN Ended(t) ELSE Visit("get"))
     /\ UNCHANGED <<multi, producer, aggVars, managerVars, processed>>

\* batches[0] of a map in no order; the others are forgotten.
Collected(t) ==
  LET s == thread[t]
  IN /\ s.at \in {"get", "force"} /\ s.todo = {}
     /\ IF s.hand = {}
        THEN Go(t, IF s.at = "get" THEN Ended(t) ELSE Off) /\ UNCHANGED lost
        ELSE \E b \in s.hand :
               /\ Go(t, [s EXCEPT !.at = IF s.at = "get" THEN "process" ELSE "final", !.hand = {b}])
               /\ Lose("second", MessagesOf(s.hand \ {b}))
     /\ UNCHANGED <<multi, producer, aggVars, managerVars, processed>>

\* ProcessBatch returns or fails: the batch is marked, no more.
Process(t) ==
  /\ thread[t].at \in {"process", "final"}
  /\ processed' = processed \cup MessagesOf(thread[t].hand)
  /\ Go(t, IF thread[t].at = "process" THEN [Off EXCEPT !.at = "ready"] ELSE Off)
  /\ UNCHANGED <<multi, producer, aggVars, managerVars, lost>>

forceBatch(t) ==
  /\ thread[t].at = "last"
  /\ Go(t, IF multi /\ (multiClosed \/ tableClosed) THEN Off ELSE Visit("force"))
  /\ UNCHANGED <<multi, producer, aggVars, managerVars, historyVars>>

-----------------------------------------------------------------------------
(* BatchManager.Start, Stop and Close.                                     *)

Start == \E t \in Loops :
  /\ ~running /\ ~cancelled /\ thread[t].at = "off"
  /\ running' = TRUE /\ Go(t, Wait)
  /\ UNCHANGED <<multi, producer, aggVars, cancelled, closing, historyVars>>

Stop ==
  /\ running /\ thread["stop"].at = "off"
  /\ running' = FALSE /\ Go("stop", [Off EXCEPT !.at = "ready"])
  /\ UNCHANGED <<multi, producer, aggVars, cancelled, closing, historyVars>>

Close ==
  /\ closing = "no"
  /\ closing' = "wait" /\ cancelled' = TRUE /\ running' = FALSE
  /\ UNCHANGED <<multi, producer, aggVars, thread, historyVars>>

LoopsOver == \A t \in Loops : thread[t].at \in {"off", "left"}

CloseWaited ==
  /\ closing = "wait" /\ LoopsOver
  /\ closing' = "aggregator"
  /\ UNCHANGED <<multi, producer, aggVars, running, cancelled, thread, historyVars>>

\* Close of a MultiBatchAggregator: its mutex is held while one drains.
MultiClose ==
  /\ multi /\ closing = "aggregator" /\ \A t \in Threads : thread[t].at # "drain"
  /\ closing' = "table" /\ multiClosed' = TRUE
  /\ UNCHANGED <<multi, producer, agg, tableClosed, running, cancelled, thread, historyVars>>

AggregatorClose ==
  /\ \/ ~multi /\ closing = "aggregator"
     \/ multi /\ closing = "table" /\ Collecting = {}
  /\ closing' = "done" /\ tableClosed' = multi
  /\ agg' = [k \in TableKeys |-> Closed(agg[k])]
  /\ Lose("shutdown", MessagesOf({agg[k].msgs : k \in TableKeys}))
  /\ UNCHANGED <<multi, producer, multiClosed, running, cancelled, thread, processed>>

-----------------------------------------------------------------------------
AggregatorInit ==
  /\ multi \in BOOLEAN
  /\ producer = [m \in Messages |-> "new"]
  /\ agg = [k \in TableKeys |-> IF ~multi /\ k = Alone THEN Made ELSE NoAggregator]
  /\ multiClosed = FALSE /\ tableClosed = FALSE
  /\ running = FALSE /\ cancelled = FALSE /\ closing = "no"
  /\ thread = [t \in Threads |-> Off]
  /\ processed = {} /\ lost = [w \in Ways |-> {}]

Producing(m) == AddMessage(m) \/ MakeAggregator(m) \/ Add(m)
Timing(k)    == TimerFires(k) \/ Flush(k) \/ checkExpiredBatch(k)
Working(t)   ==
  \/ Tick(t) \/ Leave(t) \/ IsBatchReady(t) \/ Collect(t) \/ Drained(t)
  \/ Collected(t) \/ Process(t) \/ forceBatch(t)
Ending       == CloseWaited \/ MultiClose \/ AggregatorClose

AggregatorNext ==
  \/ \E m \in Messages : Producing(m)
  \/ \E k \in TableKeys : Timing(k)
  \/ \E t \in Threads : Working(t)
  \/ Start \/ Stop \/ Close \/ Ending

\* Timers fire, goroutines that want a mutex or a ready channel get it, and
\* select serves a cancelled context in the end.
AggregatorFairness ==
  /\ \A k \in TableKeys : WF_aggregatorVars(Timing(k))
  /\ \A t \in Threads : WF_aggregatorVars(Working(t))
  /\ \A t \in Loops : SF_aggregatorVars(Leave(t))
  /\ WF_aggregatorVars(Ending)

AggregatorSpec == AggregatorInit /\ [][AggregatorNext]_aggregatorVars

-----------------------------------------------------------------------------
Accepted == {m \in Messages : producer[m] = "accepted"}
Batched  == MessagesOf({agg[k].msgs : k \in TableKeys})
Hands    == UNION {thread[t].hand : t \in Threads}
Lost     == UNION {lost[w] : w \in Ways}

\* Every variable has its range.
AggregatorTypeOK ==
  /\ multi \in BOOLEAN /\ multiClosed \in BOOLEAN /\ tableClosed \in BOOLEAN
  /\ running \in BOOLEAN /\ cancelled \in BOOLEAN
  /\ closing \in {"no", "wait", "aggregator", "table", "done"}
  /\ producer \in [Messages -> {"new", "make", "add", "accepted", "refused"}]
  /\ agg \in [TableKeys -> [made : BOOLEAN, closed : BOOLEAN, msgs : Seq(Messages),
                       ready : BOOLEAN, armed : BOOLEAN, fired : Nat, rang : BOOLEAN]]
  /\ thread \in [Threads ->
       [at : {"off", "wait", "left", "ready", "drain", "get", "process", "last", "force", "final"},
        todo : SUBSET TableKeys, hand : SUBSET Seq(Messages)]]
  /\ processed \subseteq Messages /\ lost \in [Ways -> SUBSET Messages]

Positions(m, batch) == {i \in DOMAIN batch : batch[i] = m}

\* Every occurrence of a message: in a batch that is being built or that a
\* thread has taken, at the processor's, among the lost.
PlacesOf(m) ==
  ({"batch"} \X UNION {{k} \X Positions(m, agg[k].msgs) : k \in TableKeys})
  \cup ({"hand"} \X UNION {UNION {{<<t, b>>} \X Positions(m, b) : b \in thread[t].hand} : t \in Threads})
  \cup ({"processed"} \X ({m} \cap processed))
  \cup ({"lost"} \X {w \in Ways : m \in lost[w]})

\* An accepted message is in exactly one place: the batch of its own table, the
\* hands of one thread, the processor's, or lost in one of the named ways.
\* Loops of a stopped and restarted manager, Stop and Close all take batches
\* at once, and none is processed twice.
InOnePlace ==
  /\ \A m \in Messages : IF m \in Accepted THEN \E p \in PlacesOf(m) : PlacesOf(m) = {p} ELSE PlacesOf(m) = {}
  /\ \A k \in TableKeys : \A m \in ToSet(agg[k].msgs) : Slot(m) = k

\* A batch given to the processor stopped growing when it reached the limit,
\* although AddMessage, the timer and ForceBatch meet it in any order.
SealedWhenFull == \A b \in Hands :
  /\ Strategy \in {"size", "mixed"} => BatchBytes(Front(b)) < MaxBatchSize
  /\ Strategy \in {"count", "mixed"} => Len(b) <= MaxBatchCount

\* A message is flushed by a timer at the latest: it does not stay in an open
\* batch whose timer is over, where only the expiry task would find it.  The
\* exception is a batch whose timer fired when it was empty: it is not set
\* again.
WatchedUntilReady == \A k \in TableKeys :
  LET a == agg[k]
  IN a.msgs = <<>> \/ a.ready \/ a.armed \/ a.fired > 0 \/ a.rang

\* An accepted message is in one place, a full batch takes no more, and no batch
\* outlives its timer unseen.
BatchesKeepMessages == AggregatorTypeOK /\ InOnePlace /\ SealedWhenFull /\ WatchedUntilReady

Waiting == Accepted \ (processed \cup Lost)

\* While the manager runs, every accepted message reaches the processor, or is
\* lost in one of the named ways.
AcceptedLeaves ==
  (Waiting # {}) ~> (Waiting = {} \/ ~running)
=============================================================================
