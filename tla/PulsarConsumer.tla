--------------------------- MODULE PulsarConsumer ---------------------------
(***************************************************************************)
(* internal/pulsar/consumer.go: the life cycle of one DefaultPulsarConsumer*)
(* and of the worker pool that ReceiveAsync starts on it.                  *)
(*                                                                         *)
(* Threads: the API callers (Subscribe, ReceiveAsync, Pause, Resume, Ack,  *)
(* AckID, Nack and the factory's CloseConsumer), the workers, and the      *)
(* health ticker goroutine.  Steps are cut where the code takes a mutex,   *)
(* reads an atomic, waits, or touches a second shared variable.  The Pulsar*)
(* client and broker are external: they push messages into ReceiveChannel  *)
(* and push an unacknowledged message again.                               *)
(***************************************************************************)
EXTENDS Integers, FiniteSets

CONSTANTS
  Messages,       \* messages published on the subscribed topics
  Workers,        \* the MaxParallelHandlers goroutines of ReceiveAsync
  Callers,        \* application goroutines that call the consumer's methods
  None,           \* no message, no lock owner
  Options,        \* the EnableAutoAck / EnableAutoAckOnClose settings considered
  MaxDeliveries,  \* bound: how often the broker pushes one message
  PendingFloor    \* bound: explicit acknowledgements stop at this counter value

ASSUME ConsumerAssumption ==
  /\ IsFiniteSet(Messages) /\ IsFiniteSet(Workers) /\ IsFiniteSet(Callers)
  /\ None \notin Messages \cup Callers
  /\ Options \subseteq [autoAck : BOOLEAN, autoAckOnClose : BOOLEAN]
  /\ MaxDeliveries \in Nat
  /\ PendingFloor \in Int

VARIABLES
  opts,        \* ConsumerOptions / MessageHandlerOptions that steer control
  state,       \* c.State
  stateLock,   \* the caller holding c.StateMutex for writing, or None
  paused,      \* c.IsPaused
  stopped,     \* c.StopChannel has been closed
  subscribed,  \* c.Consumer is not nil
  registered,  \* the consumer is in the factory's Consumers map
  health,      \* c.HealthCheck: the mirrored state and IsHealthy
  ticker,      \* the health goroutine: "off", "idle", or "locked" (holds the mutex)
  call,        \* per caller: the method in progress and where it stands
  work,        \* per worker: program point and message in hand
  pending,     \* c.PendingMessages
  pendingCount,\* c.ConsumerMetrics.PendingMessages
  queued,      \* per message: copies waiting in c.ReceiveChannel
  sent,        \* per message: how often the broker has pushed it
  handled,     \* messages whose handler has returned nil at least once
  acked,       \* messages acknowledged to the broker
  panicked     \* a goroutine dereferenced the nil c.Consumer

lifeVars  == <<state, stateLock, health, ticker>>
flagVars  == <<opts, paused, stopped, subscribed, registered>>
msgVars   == <<pending, pendingCount, queued, sent, handled, acked>>
vars == <<lifeVars, flagVars, call, work, msgVars, panicked>>

ConsumerState ==
  {"initializing", "connecting", "ready", "paused", "closing", "closed", "error"}

Idle == [op |-> "none", at |-> "idle", msg |-> None]

WorkerPoints ==
  {"idle", "top", "receive", "select", "store", "handle",
   "ack", "nack", "acking", "nacking", "drop", "done"}

-----------------------------------------------------------------------------
(* isInReadyState takes the read lock, so it waits for a writer.           *)

isInReadyState == state \in {"ready", "paused"}
MayReadState   == stateLock = None

\* setStateInternal, first half: lock StateMutex on behalf of caller c.
LockState(c) == stateLock = None /\ stateLock' = c

HealthOf(s) ==
  CASE s \in {"ready", "paused"} -> TRUE
    [] s \in {"error", "closed"} -> FALSE
    [] OTHER                     -> health.healthy

\* setStateInternal, second half: with StateMutex held, lock HealthCheckMutex
\* (only when the state changes), copy the state, release both.
setStateInternal(c, s) ==
  /\ stateLock = c
  /\ state' = s
  /\ stateLock' = None
  /\ IF s = state
     THEN UNCHANGED health
     ELSE /\ ticker # "locked"
          /\ health' = [state |-> s, healthy |-> HealthOf(s)]
  /\ UNCHANGED ticker

Goto(c, at)  == call' = [call EXCEPT ![c].at = at]
Return(c)    == call' = [call EXCEPT ![c] = Idle]
At(c, op, at) == call[c].op = op /\ call[c].at = at
Begin(c, op, at, m) ==
  /\ call[c] = Idle
  /\ call' = [call EXCEPT ![c] = [op |-> op, at |-> at, msg |-> m]]

-----------------------------------------------------------------------------
(* Subscribe.  The application subscribes until it succeeds, and not after *)
(* it has handed the consumer to CloseConsumer.                            *)

SubscribeBegin(c) ==
  /\ ~subscribed /\ registered
  /\ \A d \in Callers : call[d].op # "subscribe"
  /\ Begin(c, "subscribe", "connecting", None)
  /\ LockState(c)
  /\ UNCHANGED <<state, health, ticker, flagVars, work, msgVars, panicked>>

SubscribeConnect(c) ==
  /\ At(c, "subscribe", "connecting")
  /\ setStateInternal(c, "connecting")
  /\ Goto(c, "client")
  /\ UNCHANGED <<flagVars, work, msgVars, panicked>>

\* NewClient, the topic check or Client.Subscribe failed.
SubscribeFail(c) ==
  /\ At(c, "subscribe", "client")
  /\ ticker # "locked"
  /\ LockState(c)
  /\ Goto(c, "failed")
  /\ UNCHANGED <<state, health, ticker, flagVars, work, msgVars, panicked>>

SubscribeFailed(c) ==
  /\ At(c, "subscribe", "failed")
  /\ setStateInternal(c, "error")
  /\ Return(c)
  /\ UNCHANGED <<flagVars, work, msgVars, panicked>>

\* Store the consumer, reset the metrics, start the health goroutine.
SubscribeOk(c) ==
  /\ At(c, "subscribe", "client")
  /\ subscribed' = TRUE
  /\ pendingCount' = 0
  /\ ticker' = IF ticker = "off" THEN "idle" ELSE ticker
  /\ LockState(c)
  /\ Goto(c, "subscribed")
  /\ UNCHANGED <<state, health, opts, paused, stopped, registered, work,
                 pending, queued, sent, handled, acked, panicked>>

SubscribeReady(c) ==
  /\ At(c, "subscribe", "subscribed")
  /\ setStateInternal(c, "ready")
  /\ Return(c)
  /\ UNCHANGED <<flagVars, work, msgVars, panicked>>

-----------------------------------------------------------------------------
(* Pause and Resume flip the atomic flag first and the state afterwards.   *)

PauseBegin(c) ==
  /\ ~paused
  /\ Begin(c, "pause", "flag", None)
  /\ paused' = TRUE
  /\ UNCHANGED <<lifeVars, opts, stopped, subscribed, registered, work, msgVars, panicked>>

ResumeBegin(c) ==
  /\ paused
  /\ Begin(c, "resume", "flag", None)
  /\ paused' = FALSE
  /\ UNCHANGED <<lifeVars, opts, stopped, subscribed, registered, work, msgVars, panicked>>

FlagLock(c) ==
  /\ call[c].op \in {"pause", "resume"} /\ call[c].at = "flag"
  /\ LockState(c)
  /\ Goto(c, "locked")
  /\ UNCHANGED <<state, health, ticker, flagVars, work, msgVars, panicked>>

FlagState(c) ==
  /\ call[c].op \in {"pause", "resume"} /\ call[c].at = "locked"
  /\ setStateInternal(c, IF call[c].op = "pause" THEN "paused" ELSE "ready")
  /\ Return(c)
  /\ UNCHANGED <<flagVars, work, msgVars, panicked>>

-----------------------------------------------------------------------------
(* ReceiveAsync: the readiness check, then WorkerWg.Add and the goroutines.*)

ReceiveAsyncBegin(c) ==
  /\ MayReadState /\ isInReadyState
  /\ \A w \in Workers : work[w].at = "idle"
  /\ \A d \in Callers : call[d].op # "receiveAsync"
  /\ Begin(c, "receiveAsync", "spawn", None)
  /\ UNCHANGED <<lifeVars, flagVars, work, msgVars, panicked>>

ReceiveAsyncSpawn(c) ==
  /\ At(c, "receiveAsync", "spawn")
  /\ work' = [w \in Workers |-> [at |-> "top", msg |-> None]]
  /\ Return(c)
  /\ UNCHANGED <<lifeVars, flagVars, msgVars, panicked>>

-----------------------------------------------------------------------------
(* asyncWorker and the Receive it calls.                                   *)

Step(w, from, to) == work[w].at = from /\ work' = [work EXCEPT ![w].at = to]
ToTop(w) == work' = [work EXCEPT ![w] = [at |-> "top", msg |-> None]]

\* The loop head: a closed StopChannel ends the worker.
WorkerExit(w) ==
  /\ stopped
  /\ Step(w, "top", "done")
  /\ UNCHANGED <<lifeVars, flagVars, call, msgVars, panicked>>

\* Mutant: the loop head does not look at StopChannel.
WorkerLoopUnstopped(w) == ~paused /\ Step(w, "top", "receive")

\* Otherwise a paused consumer makes the worker sleep; else it calls Receive.
WorkerLoop(w) == ~stopped /\ ~paused /\ Step(w, "top", "receive")

WorkerTop(w) ==
  /\ WorkerLoop(w)
  /\ UNCHANGED <<lifeVars, flagVars, call, msgVars, panicked>>

ReceiveCheck(w) ==
  /\ work[w].at = "receive"
  /\ MayReadState
  /\ IF isInReadyState /\ ~paused THEN Step(w, "receive", "select") ELSE ToTop(w)
  /\ UNCHANGED <<lifeVars, flagVars, call, msgVars, panicked>>

\* <-c.ReceiveChannel has a copy of m to give.
Available(m) == queued[m] > 0

\* select: a message is ready.  The counter is raised before the map is filled.
ReceiveTake(w, m) ==
  /\ work[w].at = "select"
  /\ Available(m)
  /\ queued' = [queued EXCEPT ![m] = @ - 1]
  /\ pendingCount' = pendingCount + 1
  /\ work' = [work EXCEPT ![w] = [at |-> "store", msg |-> m]]
  /\ UNCHANGED <<lifeVars, flagVars, call, pending, sent, handled, acked, panicked>>

\* select: the one-second context expires or StopChannel is closed.
ReceiveNothing(w) ==
  /\ work[w].at = "select"
  /\ ToTop(w)
  /\ UNCHANGED <<lifeVars, flagVars, call, msgVars, panicked>>

ReceiveStore(w) ==
  /\ Step(w, "store", "handle")
  /\ pending' = pending \cup {work[w].msg}
  /\ UNCHANGED <<lifeVars, flagVars, call, pendingCount, queued, sent, handled, acked, panicked>>

\* The handler returned nil: acknowledge only under EnableAutoAck.
AfterSuccess(w) == IF opts.autoAck THEN "ack" ELSE "top"

HandleOk(w) ==
  /\ work[w].at = "handle"
  /\ handled' = handled \cup {work[w].msg}
  /\ IF AfterSuccess(w) = "top" THEN ToTop(w)
     ELSE work' = [work EXCEPT ![w].at = AfterSuccess(w)]
  /\ UNCHANGED <<lifeVars, flagVars, call, pending, pendingCount, queued, sent, acked, panicked>>

\* Mutant: a failed message is acknowledged.
AfterFailureAcks == "ack"

\* The handler returned an error: the message is negatively acknowledged.
AfterFailure == "nack"

HandleFail(w) ==
  /\ Step(w, "handle", AfterFailure)
  /\ UNCHANGED <<lifeVars, flagVars, call, msgVars, panicked>>

\* Ack and Nack check the state; when it is not ready they return an error
\* that the worker only logs, and the message stays pending.
SettleCheck(w) ==
  /\ work[w].at \in {"ack", "nack"}
  /\ MayReadState
  /\ IF isInReadyState
     THEN work' = [work EXCEPT ![w].at = IF @ = "ack" THEN "acking" ELSE "nacking"]
     ELSE ToTop(w)
  /\ UNCHANGED <<lifeVars, flagVars, call, msgVars, panicked>>

\* c.Consumer.Ack or c.Consumer.Nack, then the metrics.
SettleSend(w) ==
  /\ work[w].at \in {"acking", "nacking"}
  /\ panicked' = ~subscribed
  /\ acked' = IF subscribed /\ work[w].at = "acking" THEN acked \cup {work[w].msg} ELSE acked
  /\ pendingCount' = pendingCount - 1
  /\ work' = [work EXCEPT ![w].at = "drop"]
  /\ UNCHANGED <<lifeVars, flagVars, call, pending, queued, sent, handled>>

\* Mutant: the settled message stays in the map.
SettleDropNothing(w) == pending

\* c.PendingMessages.Delete of the settled message.
SettleDropped(w) == pending \ {work[w].msg}

SettleDrop(w) ==
  /\ work[w].at = "drop"
  /\ pending' = SettleDropped(w)
  /\ ToTop(w)
  /\ UNCHANGED <<lifeVars, flagVars, call, pendingCount, queued, sent, handled, acked, panicked>>

-----------------------------------------------------------------------------
(* Ack, AckID and Nack called by the application on a handled message.     *)

SettleCallBegin(c, op, m) ==
  /\ ~opts.autoAck
  /\ m \in handled
  /\ pendingCount > PendingFloor
  /\ MayReadState /\ isInReadyState
  /\ op = "ackID" => m \in pending
  /\ Begin(c, op, "send", m)
  /\ UNCHANGED <<lifeVars, flagVars, work, msgVars, panicked>>

SettleCallSend(c) ==
  /\ call[c].op \in {"ack", "ackID", "nack"} /\ call[c].at = "send"
  /\ panicked' = ~subscribed
  /\ acked' = IF subscribed /\ call[c].op # "nack" THEN acked \cup {call[c].msg} ELSE acked
  /\ pendingCount' = pendingCount - 1
  /\ Goto(c, "drop")
  /\ UNCHANGED <<lifeVars, flagVars, work, pending, queued, sent, handled>>

SettleCallDrop(c) ==
  /\ call[c].op \in {"ack", "ackID", "nack"} /\ call[c].at = "drop"
  /\ pending' = pending \ {call[c].msg}
  /\ Return(c)
  /\ UNCHANGED <<lifeVars, flagVars, work, pendingCount, queued, sent, handled, acked, panicked>>

-----------------------------------------------------------------------------
(* CloseConsumer of the factory and Close of the consumer.                 *)

\* CloseConsumer removes the consumer from the map under the factory's mutex,
\* so that one caller alone goes on to Close.
Unregister == registered /\ registered' = FALSE

CloseBegin(c) ==
  /\ Unregister
  /\ Begin(c, "close", "start", None)
  /\ UNCHANGED <<lifeVars, opts, paused, stopped, subscribed, work, msgVars, panicked>>

CloseLock(c) ==
  /\ \/ At(c, "close", "start") /\ Goto(c, "closing")
     \/ At(c, "close", "cleared") /\ Goto(c, "closed")
  /\ LockState(c)
  /\ UNCHANGED <<state, health, ticker, flagVars, work, msgVars, panicked>>

CloseMark(c) ==
  /\ At(c, "close", "closing")
  /\ setStateInternal(c, "closing")
  /\ Goto(c, "stop")
  /\ UNCHANGED <<flagVars, work, msgVars, panicked>>

\* close(c.StopChannel).
CloseStop(c) ==
  /\ At(c, "close", "stop")
  /\ stopped' = TRUE
  /\ Goto(c, "wait")
  /\ UNCHANGED <<lifeVars, opts, paused, subscribed, registered, work, msgVars, panicked>>

\* Mutant: Close does not wait for the workers.
NoDrain == TRUE

\* c.WorkerWg.Wait().
Drained == \A w \in Workers : work[w].at \in {"idle", "done"}

\* EnableAutoAckOnClose: acknowledge whatever is still pending.
AckPendingOnClose ==
  IF subscribed /\ opts.autoAckOnClose THEN acked \cup pending ELSE acked

\* Wait for the workers, auto-acknowledge, close and forget the consumer.
CloseDrain(c) ==
  /\ At(c, "close", "wait")
  /\ Drained
  /\ acked' = AckPendingOnClose
  /\ subscribed' = FALSE
  /\ Goto(c, "forget")
  /\ UNCHANGED <<lifeVars, opts, paused, stopped, registered, work,
                 pending, pendingCount, queued, sent, handled, panicked>>

\* c.PendingMessages = sync.Map{}.
CloseForget(c) ==
  /\ At(c, "close", "forget")
  /\ pending' = {}
  /\ Goto(c, "cleared")
  /\ UNCHANGED <<lifeVars, flagVars, work, pendingCount, queued, sent, handled, acked, panicked>>

CloseDone(c) ==
  /\ At(c, "close", "closed")
  /\ setStateInternal(c, "closed")
  /\ Return(c)
  /\ UNCHANGED <<flagVars, work, msgVars, panicked>>

-----------------------------------------------------------------------------
(* startHealthCheck's goroutine.                                           *)

\* checkHealth locks HealthCheckMutex first ...
HealthLock ==
  /\ ticker = "idle"
  /\ ticker' = "locked"
  /\ UNCHANGED <<state, stateLock, health, flagVars, call, work, msgVars, panicked>>

\* ... and then reads the state under StateMutex.  A ready consumer is judged
\* by the clock, a closed one by IsRunning; the model leaves both open.
HealthCheck ==
  /\ ticker = "locked"
  /\ MayReadState
  /\ \E ok \in BOOLEAN :
       /\ ~ok => state \in {"ready", "error", "closing", "closed"}
       /\ ok => state \notin {"error", "closing"}
       /\ health' = [state |-> state, healthy |-> ok]
  /\ ticker' = "idle"
  /\ UNCHANGED <<state, stateLock, flagVars, call, work, msgVars, panicked>>

HealthStop ==
  /\ ticker = "idle" /\ stopped
  /\ ticker' = "off"
  /\ UNCHANGED <<state, stateLock, health, flagVars, call, work, msgVars, panicked>>

-----------------------------------------------------------------------------
(* The Pulsar client, external: it fills ReceiveChannel, and fills it again*)
(* with what was not acknowledged (AckTimeout, NackRedeliveryDelay).       *)

BrokerPush(m) ==
  /\ subscribed
  /\ m \notin acked
  /\ sent[m] < MaxDeliveries
  /\ sent' = [sent EXCEPT ![m] = @ + 1]
  /\ queued' = [queued EXCEPT ![m] = @ + 1]
  /\ UNCHANGED <<lifeVars, flagVars, call, work, pending, pendingCount, handled, acked, panicked>>

-----------------------------------------------------------------------------

Init ==
  /\ opts \in Options
  /\ state = "initializing" /\ stateLock = None
  /\ paused = FALSE /\ stopped = FALSE /\ subscribed = FALSE /\ registered = TRUE
  /\ health = [state |-> "initializing", healthy |-> TRUE]
  /\ ticker = "off"
  /\ call = [c \in Callers |-> Idle]
  /\ work = [w \in Workers |-> [at |-> "idle", msg |-> None]]
  /\ pending = {} /\ pendingCount = 0
  /\ queued = [m \in Messages |-> 0] /\ sent = [m \in Messages |-> 0]
  /\ handled = {} /\ acked = {} /\ panicked = FALSE

CallerNext(c) ==
  \/ SubscribeBegin(c) \/ SubscribeConnect(c) \/ SubscribeFail(c) \/ SubscribeFailed(c)
  \/ SubscribeOk(c) \/ SubscribeReady(c)
  \/ PauseBegin(c) \/ ResumeBegin(c) \/ FlagLock(c) \/ FlagState(c)
  \/ ReceiveAsyncBegin(c) \/ ReceiveAsyncSpawn(c)
  \/ \E m \in Messages, op \in {"ack", "ackID", "nack"} : SettleCallBegin(c, op, m)
  \/ SettleCallSend(c) \/ SettleCallDrop(c)
  \/ CloseBegin(c) \/ CloseLock(c) \/ CloseMark(c) \/ CloseStop(c)
  \/ CloseDrain(c) \/ CloseForget(c) \/ CloseDone(c)

WorkerNext(w) ==
  \/ WorkerExit(w) \/ WorkerTop(w) \/ ReceiveCheck(w)
  \/ \E m \in Messages : ReceiveTake(w, m)
  \/ ReceiveNothing(w) \/ ReceiveStore(w)
  \/ HandleOk(w) \/ HandleFail(w)
  \/ SettleCheck(w) \/ SettleSend(w) \/ SettleDrop(w)

TickerNext == HealthLock \/ HealthCheck \/ HealthStop

Next ==
  /\ ~panicked
  /\ \/ \E c \in Callers : CallerNext(c)
     \/ \E w \in Workers : WorkerNext(w)
     \/ TickerNext
     \/ \E m \in Messages : BrokerPush(m)

Spec == Init /\ [][Next]_vars

\* What a goroutine does once it has begun a method.
CallerProgress(c) ==
  /\ ~panicked
  /\ call[c] # Idle
  /\ CallerNext(c)

(***************************************************************************)
(* Go's mutexes hand over to a waiter that has waited long enough, so a    *)
(* goroutine that can take a lock again and again takes it at last: strong *)
(* fairness for what may wait on a lock.  The handler is assumed to return;*)
(* nothing makes the application call or the broker push.                  *)
(***************************************************************************)
Fairness ==
  /\ \A c \in Callers : SF_vars(CallerProgress(c))
  /\ \A w \in Workers : SF_vars(~panicked /\ WorkerNext(w))
  /\ SF_vars(~panicked /\ HealthCheck)

FairSpec == Spec /\ Fairness

-----------------------------------------------------------------------------
(* Properties.                                                             *)

CallRecord ==
  [op  : {"none", "subscribe", "pause", "resume", "receiveAsync", "ack", "ackID", "nack",
          "close"},
   at  : {"idle", "connecting", "client", "failed", "subscribed", "flag", "locked", "spawn",
          "send", "drop", "start", "closing", "stop", "wait", "forget", "cleared", "closed"},
   msg : Messages \cup {None}]

WorkRecord == [at : WorkerPoints, msg : Messages \cup {None}]

\* Every variable ranges over the values the code can give it.
TypeOK ==
  /\ opts \in Options
  /\ state \in ConsumerState /\ stateLock \in Callers \cup {None}
  /\ health \in [state : ConsumerState, healthy : BOOLEAN]
  /\ ticker \in {"off", "idle", "locked"}
  /\ paused \in BOOLEAN /\ stopped \in BOOLEAN /\ subscribed \in BOOLEAN
  /\ registered \in BOOLEAN /\ panicked \in BOOLEAN
  /\ call \in [Callers -> CallRecord]
  /\ work \in [Workers -> WorkRecord]
  /\ pending \subseteq Messages /\ pendingCount \in Int
  /\ queued \in [Messages -> 0..MaxDeliveries] /\ sent \in [Messages -> 0..MaxDeliveries]
  /\ handled \subseteq Messages /\ acked \subseteq Messages

\* At-least-once delivery: the broker is told to forget a message only after
\* some handler has accepted it, or by EnableAutoAckOnClose once the consumer
\* is stopping.  Workers, redeliveries and Close all acknowledge.
AckedOnlyAfterHandled ==
  \A m \in acked : m \in handled \/ (opts.autoAckOnClose /\ stopped)

\* A worker between taking a message and settling it: Close must still wait.
Engaged(w) ==
  work[w].at \in {"store", "handle", "ack", "nack", "acking", "nacking", "drop"}

\* Close sets c.Consumer to nil only when no worker can reach it any more,
\* whichever of ReceiveAsync, Pause, Resume and Close run at the same time.
WorkersHoldLiveConsumer == \A w \in Workers : Engaged(w) => subscribed

\* The pending counter never falls below the map it counts, short of the
\* workers that have lowered the one and not yet deleted from the other.
PendingMetricCoversMap ==
  opts.autoAck =>
    Cardinality(pending) <=
      pendingCount + Cardinality({w \in Workers : work[w].at = "drop"})

\* While no one holds StateMutex the health record shows the state the
\* consumer is in, although the ticker and setStateInternal both write it.
HealthMirrorsState == stateLock = None => health.state = state

InClose(c) == call[c].op = "close"

\* setStateInternal holds StateMutex and wants HealthCheckMutex, checkHealth
\* holds HealthCheckMutex and wants StateMutex: neither moves again.
Embraced == stateLock # None /\ ticker = "locked"

\* Close returns, unless a goroutine panics or the two mutexes are taken in
\* opposite orders at the same time.
CloseCompletesUnlessEmbraced ==
  \A c \in Callers :
    [](InClose(c) => <>(~InClose(c) \/ panicked \/ []Embraced))
=============================================================================
