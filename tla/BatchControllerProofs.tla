----------------------- MODULE BatchControllerProofs -----------------------
(***************************************************************************)
(* Proofs about the batch controller, for pools of any size that are       *)
(* resized, stopped and started in any order: the semaphore holds, the     *)
(* backlog is honest, and a batch is in one place from its submission to   *)
(* its end.                                                                *)
(***************************************************************************)
EXTENDS BatchController, FiniteSetTheorems, FunctionTheorems, SequenceTheorems, TLAPS

Busy == {w \in Workers : worker[w].at \in {"begin", "process", "ok", "err"}}

WorkerType == worker \in [Workers -> [at : Points, batch : Batches \cup {None}, retries : Nat]]

QueueType == queue \in Seq([batch : Batches, ctx : Nat, retries : Nat])

\* The semaphore holds one slot for each busy worker, and no more than it can.
SemaphoreExact ==
  /\ WorkerType
  /\ QueueType
  /\ submit \in [Batches -> [at : {"none", "select"}, ctx : Nat, retry : BOOLEAN]]
  /\ epoch \in Nat
  /\ sem = Cardinality(Busy)
  /\ sem <= MaxConcurrentBatches

LEMMA BusyFinite ==
  ASSUME NEW S \in SUBSET Workers
  PROVE  IsFiniteSet(S) /\ Cardinality(S) \in Nat
  BY ControllerAssumption, FS_Subset, FS_CardinalityType

LEMMA Records ==
  /\ Off \in [at : Points, batch : Batches \cup {None}, retries : Nat]
  /\ Ready \in [at : Points, batch : Batches \cup {None}, retries : Nat]
  BY DEF Off, Ready, Points

\* A pool that starts or workers that go on without the semaphore change
\* neither side.
LEMMA StartKeeps ==
  ASSUME SemaphoreExact, NEW n, StartWorkers(n)
  PROVE  WorkerType' /\ Busy' = Busy
<1>1. PICK S \in SUBSET {w \in Workers : worker[w] = Off} :
        worker' = [w \in Workers |-> IF w \in S THEN Ready ELSE worker[w]]
  BY DEF StartWorkers
<1>2. WorkerType' BY <1>1, Records DEF SemaphoreExact, WorkerType
<1>3. Busy' = Busy BY <1>1 DEF Busy, Off, Ready
<1>4. QED BY <1>2, <1>3

LEMMA CallerKeeps ==
  ASSUME SemaphoreExact, NEW c \in Callers, CallerNext(c)
  PROVE  SemaphoreExact'
<1>1. UNCHANGED <<sem, queue>> /\ epoch' \in Nat /\ UNCHANGED submit
  BY DEF CallerNext, CallerReturns, StartProcessing, StopBegin, StopCancel, StopWait, StopFinish,
     SetConfigResize, SetConfigResume, SetConfigOther, flowVars, SemaphoreExact
<1>2. CASE UNCHANGED worker
  BY <1>1, <1>2 DEF SemaphoreExact, WorkerType, QueueType, Busy
<1>3. CASE \E n : StartWorkers(n)
  BY <1>1, <1>3, StartKeeps DEF SemaphoreExact, QueueType
<1>4. UNCHANGED worker \/ \E n : StartWorkers(n)
  BY DEF CallerNext, CallerReturns, StartProcessing, StopBegin, StopCancel, StopWait, StopFinish,
     SetConfigResize, SetConfigResume, SetConfigOther, flowVars
<1>5. QED BY <1>2, <1>3, <1>4

LEMMA BatchKeeps ==
  ASSUME SemaphoreExact, NEW b \in Batches, SubmitCheck(b) \/ BatchNext(b)
  PROVE  SemaphoreExact'
<1>1. UNCHANGED <<sem, worker, epoch>>
  BY DEF SubmitCheck, BatchNext, SubmitEnqueue, SubmitRefused, RetryFires, RetryAbandons, lifeVars
<1>2. QueueType'
  <2>1. CASE SubmitEnqueue(b)
    BY <2>1 DEF SubmitEnqueue, SemaphoreExact, QueueType, SubmittedRetries
  <2>2. CASE UNCHANGED queue
    BY <2>2 DEF SemaphoreExact, QueueType
  <2>3. QED
    BY <2>1, <2>2 DEF SubmitCheck, BatchNext, SubmitRefused, RetryFires, RetryAbandons
<1>3. submit' \in [Batches -> [at : {"none", "select"}, ctx : Nat, retry : BOOLEAN]]
  <2>1. /\ NoCall \in [at : {"none", "select"}, ctx : Nat, retry : BOOLEAN]
        /\ [at |-> "select", ctx |-> epoch, retry |-> FALSE]
             \in [at : {"none", "select"}, ctx : Nat, retry : BOOLEAN]
        /\ [at |-> "select", ctx |-> epoch, retry |-> TRUE]
             \in [at : {"none", "select"}, ctx : Nat, retry : BOOLEAN]
    BY DEF NoCall, SemaphoreExact
  <2>2. CASE SubmitCheck(b) BY <2>1, <2>2 DEF SubmitCheck, SemaphoreExact
  <2>3. CASE SubmitEnqueue(b) BY <2>1, <2>3 DEF SubmitEnqueue, SemaphoreExact
  <2>4. CASE SubmitRefused(b) BY <2>1, <2>4 DEF SubmitRefused, SemaphoreExact
  <2>5. CASE RetryFires(b) BY <2>1, <2>5 DEF RetryFires, SemaphoreExact
  <2>6. CASE RetryAbandons(b) BY <2>6 DEF RetryAbandons, SemaphoreExact
  <2>7. QED BY <2>2, <2>3, <2>4, <2>5, <2>6 DEF BatchNext
<1>4. QED BY <1>1, <1>2, <1>3 DEF SemaphoreExact, WorkerType, Busy

LEMMA WorkerKeeps ==
  ASSUME SemaphoreExact, NEW w \in Workers, WorkerNext(w)
  PROVE  SemaphoreExact'
<1> USE DEF SemaphoreExact, WorkerType
<1>1. UNCHANGED <<submit, epoch>>
  BY DEF WorkerNext, WorkerTake, WorkerAcquire, WorkerExit, ProcessBegin, ProcessReturns, ProcessEnd,
     lifeVars
<1>2. QueueType'
  <2>1. CASE WorkerTake(w)
    BY <2>1, HeadTailProperties DEF WorkerTake, QueueType
  <2>2. CASE UNCHANGED queue
    BY <2>2 DEF QueueType
  <2>3. QED
    BY <2>1, <2>2
    DEF WorkerNext, WorkerAcquire, WorkerExit, ProcessBegin, ProcessReturns, ProcessEnd
<1>3. WorkerType'
  <2>1. CASE WorkerTake(w)
    <3>1. Head(queue) \in [batch : Batches, ctx : Nat, retries : Nat]
      BY <2>1, HeadTailProperties DEF WorkerTake, QueueType
    <3>2. QED BY <2>1, <3>1 DEF WorkerTake, Points
  <2>2. CASE WorkerAcquire(w) BY <2>2 DEF WorkerAcquire, Put, Points
  <2>3. CASE WorkerExit(w) BY <2>3, Records DEF WorkerExit
  <2>4. CASE ProcessBegin(w) BY <2>4 DEF ProcessBegin, Put, Points
  <2>5. CASE ProcessReturns(w) BY <2>5 DEF ProcessReturns, Put, Points
  <2>6. CASE ProcessEnd(w) BY <2>6, Records DEF ProcessEnd
  <2>7. QED BY <2>1, <2>2, <2>3, <2>4, <2>5, <2>6 DEF WorkerNext
<1>4. IsFiniteSet(Busy) /\ Cardinality(Busy) \in Nat BY BusyFinite DEF Busy
<1>5. ASSUME Busy' = Busy, UNCHANGED sem
      PROVE  sem' = Cardinality(Busy)' /\ sem' <= MaxConcurrentBatches
  BY <1>5
<1>6. sem' = Cardinality(Busy)' /\ sem' <= MaxConcurrentBatches
  <2>1. CASE WorkerTake(w)
    <3>1. Busy' = Busy BY <2>1 DEF WorkerTake, Busy
    <3>2. QED BY <2>1, <3>1, <1>5 DEF WorkerTake
  <2>2. CASE WorkerAcquire(w)
    <3>1. w \notin Busy /\ Busy' = Busy \cup {w}
      BY <2>2 DEF WorkerAcquire, Put, Busy
    <3>2. Cardinality(Busy \cup {w}) = Cardinality(Busy) + 1
      BY <1>4, <3>1, FS_AddElement
    <3>3. sem' = sem + 1 /\ sem < MaxConcurrentBatches
      BY <2>2 DEF WorkerAcquire, Room
    <3>4. QED BY <1>4, <3>1, <3>2, <3>3, ControllerAssumption
  <2>3. CASE WorkerExit(w)
    <3>1. Busy' = Busy BY <2>3 DEF WorkerExit, ExitPoints, Busy, Off
    <3>2. QED BY <2>3, <3>1, <1>5 DEF WorkerExit
  <2>4. CASE ProcessBegin(w)
    <3>1. Busy' = Busy BY <2>4 DEF ProcessBegin, Put, Busy
    <3>2. QED BY <2>4, <3>1, <1>5 DEF ProcessBegin
  <2>5. CASE ProcessReturns(w)
    <3>1. Busy' = Busy BY <2>5 DEF ProcessReturns, Put, Busy
    <3>2. QED BY <2>5, <3>1, <1>5 DEF ProcessReturns
  <2>6. CASE ProcessEnd(w)
    <3>1. w \in Busy BY <2>6 DEF ProcessEnd, Busy
    <3>2. Busy' = Busy \ {w} BY <2>6 DEF ProcessEnd, Busy, Ready
    <3>3. Cardinality(Busy \ {w}) = Cardinality(Busy) - 1
      BY <1>4, <3>1, FS_RemoveElement
    <3>4. sem' = sem - 1 BY <2>6 DEF ProcessEnd, Released
    <3>5. QED BY <1>4, <3>2, <3>3, <3>4, ControllerAssumption
  <2>7. QED BY <2>1, <2>2, <2>3, <2>4, <2>5, <2>6 DEF WorkerNext
<1>7. QED BY <1>1, <1>2, <1>3, <1>6

LEMMA SemaphoreInit == Init => SemaphoreExact
<1>1. SUFFICES ASSUME Init PROVE SemaphoreExact OBVIOUS
<1>2. Busy = {} BY <1>1 DEF Init, Busy, Off
<1>3. Cardinality({}) = 0 BY FS_EmptySet
<1>4. WorkerType BY <1>1, Records DEF Init, WorkerType
<1>5. QueueType BY <1>1 DEF Init, QueueType
<1>6. QED BY <1>1, <1>2, <1>3, <1>4, <1>5, ControllerAssumption DEF Init, SemaphoreExact, NoCall

LEMMA SemaphoreStep == SemaphoreExact /\ [Next]_vars => SemaphoreExact'
<1>1. SUFFICES ASSUME SemaphoreExact, [Next]_vars PROVE SemaphoreExact' OBVIOUS
<1>2. CASE CountBacklog \/ LoopEnds \/ HandleDeadLetter \/ UNCHANGED vars
  <2>1. UNCHANGED <<worker, sem, queue, submit, epoch>>
    BY <1>2 DEF CountBacklog, LoopEnds, HandleDeadLetter, vars, lifeVars, flowVars
  <2>2. QED BY <1>1, <2>1 DEF SemaphoreExact, WorkerType, QueueType, Busy
<1>3. QED BY <1>1, <1>2, CallerKeeps, BatchKeeps, WorkerKeeps DEF Next

\* However often the pool is resized, stopped or started, and even when old
\* workers are still at work, the batches in processing are within the limit.
THEOREM ConcurrencyBounded == Spec => []ProcessingWithinLimit
<1>1. SemaphoreExact => ProcessingWithinLimit
  BY DEF SemaphoreExact, ProcessingWithinLimit, Busy
<1>2. QED BY <1>1, SemaphoreInit, SemaphoreStep, PTL DEF Spec

-----------------------------------------------------------------------------
(* The backlog.                                                            *)

\* The workers whose batch has left the queue and is still in the backlog.
Fetched == {w \in Workers : worker[w].at \in {"got", "begin"}}

\* What the backlog and the submissions still to be counted cover.
BacklogExact ==
  /\ backlog \in Int /\ uncounted \in Int
  /\ backlog + uncounted >= Len(queue) + Cardinality(Fetched)

LEMMA FetchedShrinks ==
  ASSUME NEW S \in SUBSET Workers, NEW T \in SUBSET S
  PROVE  Cardinality(T) \in Nat /\ Cardinality(S) \in Nat /\ Cardinality(T) <= Cardinality(S)
  BY ControllerAssumption, FS_Subset, FS_CardinalityType

LEMMA BacklogWorker ==
  ASSUME SemaphoreExact, BacklogExact, NEW w \in Workers, WorkerNext(w)
  PROVE  BacklogExact'
<1> USE DEF BacklogExact, SemaphoreExact, WorkerType
<1>1. IsFiniteSet(Fetched) /\ Cardinality(Fetched) \in Nat /\ Len(queue) \in Nat
  BY BusyFinite DEF Fetched, QueueType
<1>2. CASE WorkerTake(w)
  <2>1. Len(queue') = Len(queue) - 1
    BY <1>2, HeadTailProperties DEF WorkerTake, QueueType
  <2>2. w \notin Fetched BY <1>2 DEF WorkerTake, Fetched
  <2>3. Fetched' = Fetched \/ Fetched' = Fetched \cup {w}
    BY <1>2 DEF WorkerTake, Fetched
  <2>4. Cardinality(Fetched \cup {w}) = Cardinality(Fetched) + 1
    BY <1>1, <2>2, FS_AddElement
  <2>5. Cardinality(Fetched') <= Cardinality(Fetched) + 1 /\ Cardinality(Fetched') \in Nat
    <3>1. CASE Fetched' = Fetched BY <1>1, <3>1
    <3>2. CASE Fetched' = Fetched \cup {w} BY <1>1, <2>4, <3>2
    <3>3. QED BY <2>3, <3>1, <3>2
  <2>6. QED BY <1>1, <1>2, <2>1, <2>5 DEF WorkerTake, countVars
<1>3. CASE ProcessBegin(w)
  <2>1. w \in Fetched /\ Fetched' = Fetched \ {w}
    BY <1>3 DEF ProcessBegin, Put, Fetched
  <2>2. Cardinality(Fetched \ {w}) = Cardinality(Fetched) - 1
    BY <1>1, <2>1, FS_RemoveElement
  <2>3. backlog' = backlog - 1 /\ UNCHANGED <<uncounted, queue>>
    BY <1>3 DEF ProcessBegin, Dequeued
  <2>4. QED BY <1>1, <2>1, <2>2, <2>3
<1>4. CASE WorkerAcquire(w) \/ WorkerExit(w) \/ ProcessReturns(w) \/ ProcessEnd(w)
  <2>1. Fetched' \subseteq Fetched
    <3>1. CASE WorkerAcquire(w) BY <3>1 DEF WorkerAcquire, Put, Fetched
    <3>2. CASE WorkerExit(w) BY <3>2 DEF WorkerExit, Fetched, Off
    <3>3. CASE ProcessReturns(w) BY <3>3 DEF ProcessReturns, Put, Fetched
    <3>4. CASE ProcessEnd(w) BY <3>4 DEF ProcessEnd, Fetched, Ready
    <3>5. QED BY <1>4, <3>1, <3>2, <3>3, <3>4
  <2>2. Fetched \in SUBSET Workers BY DEF Fetched
  <2>3. Cardinality(Fetched') <= Cardinality(Fetched) /\ Cardinality(Fetched') \in Nat
    BY <2>1, <2>2, FetchedShrinks
  <2>4. UNCHANGED <<backlog, uncounted, queue>>
    BY <1>4 DEF WorkerAcquire, WorkerExit, ProcessReturns, ProcessEnd, countVars
  <2>5. QED BY <1>1, <2>3, <2>4
<1>5. QED BY <1>2, <1>3, <1>4 DEF WorkerNext

LEMMA BacklogStep ==
  ASSUME SemaphoreExact, BacklogExact, [Next]_vars
  PROVE  BacklogExact'
<1> USE DEF BacklogExact, SemaphoreExact
<1>1. Cardinality(Fetched) \in Nat /\ Len(queue) \in Nat
  BY BusyFinite DEF Fetched, QueueType
<1>2. ASSUME UNCHANGED <<queue, countVars>>, Fetched' = Fetched PROVE BacklogExact'
  BY <1>2 DEF countVars
<1>3. ASSUME NEW c \in Callers, CallerNext(c) PROVE BacklogExact'
  <2>1. UNCHANGED <<queue, countVars>>
    BY <1>3 DEF CallerNext, CallerReturns, StartProcessing, StopBegin, StopCancel, StopWait, StopFinish,
       SetConfigResize, SetConfigResume, SetConfigOther, flowVars
  <2>2. UNCHANGED worker \/ \E n : StartWorkers(n)
    BY <1>3 DEF CallerNext, CallerReturns, StartProcessing, StopBegin, StopCancel, StopWait, StopFinish,
       SetConfigResize, SetConfigResume, SetConfigOther, flowVars
  <2>3. CASE UNCHANGED worker BY <1>2, <2>1, <2>3 DEF Fetched
  <2>4. ASSUME NEW n, StartWorkers(n) PROVE Fetched' = Fetched
    BY <2>4 DEF StartWorkers, Fetched, Off, Ready
  <2>5. QED BY <1>2, <2>1, <2>2, <2>3, <2>4
<1>4. ASSUME NEW b \in Batches, SubmitEnqueue(b) PROVE BacklogExact'
  <2>1. Len(queue') = Len(queue) + 1
    BY <1>4 DEF SubmitEnqueue, QueueType
  <2>2. Fetched' = Fetched BY <1>4 DEF SubmitEnqueue, Fetched
  <2>3. backlog' = backlog /\ uncounted' = uncounted + 1 BY <1>4 DEF SubmitEnqueue
  <2>4. QED BY <1>1, <2>1, <2>2, <2>3
<1>5. ASSUME NEW b \in Batches, SubmitCheck(b) \/ SubmitRefused(b) \/ RetryFires(b) \/ RetryAbandons(b)
      PROVE  BacklogExact'
  BY <1>2, <1>5 DEF SubmitCheck, SubmitRefused, RetryFires, RetryAbandons, Fetched
<1>6. CASE CountBacklog
  <2>1. UNCHANGED <<queue, worker>> /\ backlog' = backlog + 1 /\ uncounted' = uncounted - 1
    BY <1>6 DEF CountBacklog, flowVars
  <2>2. Fetched' = Fetched BY <2>1 DEF Fetched
  <2>3. QED BY <1>1, <2>1, <2>2
<1>7. CASE LoopEnds \/ HandleDeadLetter \/ UNCHANGED vars
  BY <1>2, <1>7 DEF LoopEnds, HandleDeadLetter, vars, flowVars, Fetched
<1>8. QED
  BY <1>3, <1>4, <1>5, <1>6, <1>7, BacklogWorker DEF Next, BatchNext

\* The backlog statistic never hides waiting batches, other than those of the
\* submissions that are about to count themselves.
THEOREM BacklogHonest == Spec => []BacklogCoversQueue
<1>1. Init => BacklogExact
  <2>1. SUFFICES ASSUME Init PROVE BacklogExact OBVIOUS
  <2>2. Fetched = {} /\ Len(queue) = 0 BY <2>1 DEF Init, Fetched, Off
  <2>3. Cardinality({}) = 0 BY FS_EmptySet
  <2>4. QED BY <2>1, <2>2, <2>3 DEF Init, BacklogExact
<1>2. SemaphoreExact /\ BacklogExact /\ [Next]_vars => BacklogExact'
  BY BacklogStep
<1>3. SemaphoreExact /\ BacklogExact => BacklogCoversQueue
  BY BusyFinite DEF SemaphoreExact, BacklogExact, BacklogCoversQueue, Fetched, QueueType
<1>4. QED BY <1>1, <1>2, <1>3, SemaphoreInit, SemaphoreStep, PTL DEF Spec

-----------------------------------------------------------------------------
(* Where a batch is.                                                       *)

Queued(b)  == {k \in DOMAIN queue : queue[k].batch = b}
Held(b)    == {w \in Workers : InHand(w) /\ worker[w].batch = b}
DeadOf(b)  == {k \in DOMAIN dead : dead[k] = b}
Asked(b)   == IF submit[b] = NoCall THEN 0 ELSE 1
Delayed(b) == IF delay[b] = 0 THEN 0 ELSE 1
Over(b)    == IF outcome[b] = "none" THEN 0 ELSE 1

\* No context of a later epoch is about, and a retry is of an accepted batch.
ContextsKnown ==
  /\ epoch \in Nat \ {0} /\ live \in BOOLEAN
  /\ \A k \in DOMAIN queue : queue[k].ctx \in 1..epoch
  /\ \A b \in Batches : delay[b] \in 0..epoch
  /\ \A b \in Batches :
       \/ submit[b] = NoCall
       \/ /\ submit[b].at = "select" /\ submit[b].ctx \in 1..epoch
          /\ submit[b].retry <=> b \in accepted

\* A batch is in one place or over with; before it is accepted it is only with
\* the SubmitBatch that brings it, and an accepted one is lost only with a
\* context that was cancelled.
Owned(b) ==
  /\ Copies(b) + Over(b) <= 1
  /\ b \notin accepted => Copies(b) = Asked(b) /\ Over(b) = 0
  /\ b \in accepted /\ epoch = 1 /\ live => Copies(b) + Over(b) = 1

OwnerType ==
  /\ dead \in Seq(Batches)
  /\ delay \in [Batches -> Nat]
  /\ accepted \subseteq Batches
  /\ outcome \in [Batches -> {"none", "done", "handled", "discarded"}]
  /\ \A w \in Workers : InHand(w) => worker[w].batch \in Batches

OwnerInv ==
  /\ OwnerType
  /\ ContextsKnown
  /\ \A b \in Batches : Owned(b)

\* The places of a sequence that hold a value of V, when one is put behind or
\* taken from before.
Places(s, V) == {k \in DOMAIN s : s[k] \in V}

LEMMA PlacesFinite ==
  ASSUME NEW X, NEW s \in Seq(X), NEW V
  PROVE  IsFiniteSet(Places(s, V)) /\ Cardinality(Places(s, V)) \in Nat
<1>1. Places(s, V) \in SUBSET (1..Len(s)) /\ Len(s) \in Nat BY LenProperties DEF Places
<1>2. IsFiniteSet(1..Len(s)) BY <1>1, FS_Interval
<1>3. QED BY <1>1, <1>2, FS_Subset, FS_CardinalityType

LEMMA PlacesPut ==
  ASSUME NEW X, NEW s \in Seq(X), NEW e \in X, NEW V
  PROVE  Cardinality(Places(Append(s, e), V)) = Cardinality(Places(s, V)) + (IF e \in V THEN 1 ELSE 0)
<1> DEFINE t == Append(s, e)
           n == Len(s) + 1
<1>1. Len(s) \in Nat /\ DOMAIN s = 1..Len(s) BY LenProperties
<1>2. DOMAIN t = 1..n /\ t[n] = e /\ \A k \in 1..Len(s) : t[k] = s[k]
  BY <1>1
<1>3. n \notin Places(s, V) BY <1>1 DEF Places
<1>4. CASE e \in V
  <2>1. Places(t, V) = Places(s, V) \cup {n} BY <1>1, <1>2, <1>4 DEF Places
  <2>2. QED BY <1>3, <1>4, <2>1, PlacesFinite, FS_AddElement
<1>5. CASE e \notin V
  <2>1. Places(t, V) = Places(s, V) BY <1>1, <1>2, <1>5 DEF Places
  <2>2. QED BY <1>5, <2>1, PlacesFinite
<1>6. QED BY <1>4, <1>5

LEMMA PlacesTaken ==
  ASSUME NEW X, NEW s \in Seq(X), s # <<>>, NEW V
  PROVE  Cardinality(Places(Tail(s), V)) = Cardinality(Places(s, V)) - (IF Head(s) \in V THEN 1 ELSE 0)
<1> DEFINE t == Tail(s)
           P == Places(s, V) \ {1}
           T == Places(t, V)
           f == [k \in T |-> k + 1]
<1>1. /\ Len(s) \in Nat \ {0} /\ DOMAIN s = 1..Len(s) /\ DOMAIN t = 1..(Len(s) - 1)
      /\ \A k \in 1..(Len(s) - 1) : t[k] = s[k + 1]
      /\ Head(s) = s[1]
  BY EmptySeq, LenProperties, HeadTailProperties
<1>2. f \in Bijection(T, P)
  <2>1. f \in [T -> P] BY <1>1 DEF Places
  <2>2. \A j, k \in T : f[j] = f[k] => j = k BY <1>1 DEF Places
  <2>3. ASSUME NEW p \in P PROVE \E k \in T : f[k] = p
    <3>1. p - 1 \in T /\ f[p - 1] = p BY <1>1 DEF Places
    <3>2. QED BY <3>1
  <2>4. QED BY <2>1, <2>2, <2>3, Fun_IsBij
<1>3. ExistsBijection(T, P) BY <1>2 DEF ExistsBijection
<1>4. t \in Seq(X) BY HeadTailProperties
<1>5. IsFiniteSet(T) /\ IsFiniteSet(Places(s, V)) /\ Cardinality(Places(s, V)) \in Nat
  BY <1>4, PlacesFinite
<1>6. Cardinality(P) = Cardinality(T) BY <1>3, <1>5, FS_Bijection
<1>7. 1 \in Places(s, V) <=> Head(s) \in V BY <1>1 DEF Places
<1>8. Cardinality(P) = IF 1 \in Places(s, V) THEN Cardinality(Places(s, V)) - 1 ELSE Cardinality(Places(s, V))
  BY <1>5, FS_RemoveElement
<1>9. QED BY <1>5, <1>6, <1>7, <1>8

InQueue(b)   == Cardinality(Queued(b))
InHands(b)   == Cardinality(Held(b))
AmongDead(b) == Cardinality(DeadOf(b))

LEMMA CopiesSum ==
  ASSUME NEW b \in Batches
  PROVE  /\ Copies(b) = InQueue(b) + InHands(b) + AmongDead(b) + Asked(b) + Delayed(b)
         /\ Copies(b)' = InQueue(b)' + InHands(b)' + AmongDead(b)' + Asked(b)' + Delayed(b)'
  BY DEF Copies, InQueue, InHands, AmongDead, Queued, Held, DeadOf, Asked, Delayed

Entry == [batch : Batches, ctx : Nat, retries : Nat]
Of(b) == {e \in Entry : e.batch = b}

LEMMA Counted ==
  ASSUME QueueType, OwnerType, NEW b \in Batches
  PROVE  /\ InQueue(b) = Cardinality(Places(queue, Of(b))) /\ InQueue(b) \in Nat
         /\ AmongDead(b) = Cardinality(Places(dead, {b})) /\ AmongDead(b) \in Nat
         /\ InHands(b) \in Nat
<1>1. Queued(b) = Places(queue, Of(b))
  <2>1. \A k \in DOMAIN queue : queue[k] \in Entry BY LenProperties DEF QueueType, Entry
  <2>2. QED BY <2>1 DEF Queued, Places, Of
<1>2. DeadOf(b) = Places(dead, {b}) BY DEF DeadOf, Places
<1>3. Held(b) \in SUBSET Workers BY DEF Held
<1>4. queue \in Seq(Entry) /\ dead \in Seq(Batches) BY DEF QueueType, Entry, OwnerType
<1>5. QED BY <1>1, <1>2, <1>3, <1>4, PlacesFinite, BusyFinite DEF InQueue, AmongDead, InHands

LEMMA QueuePut ==
  ASSUME QueueType, OwnerType, NEW e \in Entry, queue' = Append(queue, e), NEW b \in Batches
  PROVE  InQueue(b)' = InQueue(b) + (IF e.batch = b THEN 1 ELSE 0)
<1>1. queue' \in Seq(Entry) /\ queue \in Seq(Entry) BY DEF QueueType, Entry
<1>2. \A k \in DOMAIN queue' : queue'[k] \in Entry BY <1>1, LenProperties
<1>3. Queued(b)' = Places(queue', Of(b)) BY <1>2 DEF Queued, Places, Of
<1>4. e \in Of(b) <=> e.batch = b BY DEF Of
<1>5. InQueue(b) = Cardinality(Places(queue, Of(b))) BY Counted
<1>6. InQueue(b)' = Cardinality(Places(Append(queue, e), Of(b))) BY <1>3 DEF InQueue
<1>7. QED BY <1>1, <1>4, <1>5, <1>6, PlacesPut

LEMMA QueueTaken ==
  ASSUME QueueType, OwnerType, queue # <<>>, queue' = Tail(queue), NEW b \in Batches
  PROVE  /\ InQueue(b)' = InQueue(b) - (IF Head(queue).batch = b THEN 1 ELSE 0)
         /\ InQueue(b)' \in Nat
<1>1. queue' \in Seq(Entry) /\ queue \in Seq(Entry) /\ Head(queue) \in Entry
  BY HeadTailProperties DEF QueueType, Entry
<1>2. \A k \in DOMAIN queue' : queue'[k] \in Entry BY <1>1, LenProperties
<1>3. Queued(b)' = Places(queue', Of(b)) BY <1>2 DEF Queued, Places, Of
<1>4. Head(queue) \in Of(b) <=> Head(queue).batch = b BY <1>1 DEF Of
<1>5. InQueue(b) = Cardinality(Places(queue, Of(b))) BY Counted
<1>6. InQueue(b)' = Cardinality(Places(Tail(queue), Of(b))) BY <1>3 DEF InQueue
<1>7. InQueue(b)' \in Nat BY <1>1, <1>6, PlacesFinite
<1>8. QED BY <1>1, <1>4, <1>5, <1>6, <1>7, PlacesTaken

LEMMA DeadPut ==
  ASSUME QueueType, OwnerType, NEW c \in Batches, dead' = Append(dead, c), NEW b \in Batches
  PROVE  AmongDead(b)' = AmongDead(b) + (IF c = b THEN 1 ELSE 0)
<1>1. AmongDead(b) = Cardinality(Places(dead, {b})) BY Counted
<1>2. AmongDead(b)' = Cardinality(Places(Append(dead, c), {b})) BY DEF AmongDead, DeadOf, Places
<1>3. QED BY <1>1, <1>2, PlacesPut DEF OwnerType

LEMMA DeadTaken ==
  ASSUME QueueType, OwnerType, dead # <<>>, dead' = Tail(dead), NEW b \in Batches
  PROVE  /\ AmongDead(b)' = AmongDead(b) - (IF Head(dead) = b THEN 1 ELSE 0)
         /\ AmongDead(b)' \in Nat
<1>1. AmongDead(b) = Cardinality(Places(dead, {b})) BY Counted
<1>2. AmongDead(b)' = Cardinality(Places(Tail(dead), {b})) BY DEF AmongDead, DeadOf, Places
<1>3. dead \in Seq(Batches) /\ Tail(dead) \in Seq(Batches) BY HeadTailProperties DEF OwnerType
<1>4. AmongDead(b)' \in Nat BY <1>2, <1>3, PlacesFinite
<1>5. QED BY <1>1, <1>2, <1>3, <1>4, PlacesTaken

\* A worker takes a batch in hand, and lets go of it.
LEMMA HandTakes ==
  ASSUME SemaphoreExact, OwnerType, NEW w \in Workers, ~InHand(w), NEW r, r.at \notin {"off", "idle"},
         worker' = [worker EXCEPT ![w] = r], NEW b \in Batches
  PROVE  InHands(b)' = InHands(b) + (IF r.batch = b THEN 1 ELSE 0)
<1>1. Held(b) \in SUBSET Workers /\ w \notin Held(b) BY DEF Held
<1>2. Held(b)' = IF r.batch = b THEN Held(b) \cup {w} ELSE Held(b)
  BY DEF Held, InHand, SemaphoreExact, WorkerType
<1>3. IsFiniteSet(Held(b)) /\ Cardinality(Held(b)) \in Nat BY <1>1, BusyFinite
<1>4. Cardinality(Held(b) \cup {w}) = Cardinality(Held(b)) + 1 BY <1>1, <1>3, FS_AddElement
<1>5. QED BY <1>2, <1>3, <1>4 DEF InHands

LEMMA HandLetsGo ==
  ASSUME NEW w \in Workers, InHand(w), ~InHand(w)',
         \A v \in Workers \ {w} : worker'[v] = worker[v], NEW b \in Batches
  PROVE  /\ InHands(b)' = InHands(b) - (IF worker[w].batch = b THEN 1 ELSE 0)
         /\ InHands(b)' \in Nat
<1>1. Held(b) \in SUBSET Workers /\ (w \in Held(b) <=> worker[w].batch = b) BY DEF Held
<1>2. Held(b)' = Held(b) \ {w} BY DEF Held, InHand
<1>3. IsFiniteSet(Held(b)) /\ Cardinality(Held(b)) \in Nat BY <1>1, BusyFinite
<1>4. /\ Cardinality(Held(b) \ {w}) = IF w \in Held(b) THEN Cardinality(Held(b)) - 1 ELSE Cardinality(Held(b))
      /\ Cardinality(Held(b) \ {w}) \in Nat
  BY <1>1, <1>3, FS_RemoveElement, FS_CardinalityType
<1>5. QED BY <1>1, <1>2, <1>3, <1>4 DEF InHands

\* A worker goes on with what it has in hand, or with nothing.
LEMMA HandKeeps ==
  ASSUME SemaphoreExact, NEW w \in Workers, NEW r, worker' = [worker EXCEPT ![w] = r],
         r.at \in {"off", "idle"} <=> ~InHand(w), InHand(w) => r.batch = worker[w].batch, NEW b \in Batches
  PROVE  InHands(b)' = InHands(b)
<1>1. Held(b)' = Held(b) BY DEF Held, InHand, SemaphoreExact, WorkerType
<1>2. QED BY <1>1 DEF InHands

\* What stays where it is counts as before.
LEMMA CountStays ==
  ASSUME NEW b
  PROVE  /\ UNCHANGED queue => InQueue(b)' = InQueue(b)
         /\ UNCHANGED worker => InHands(b)' = InHands(b)
         /\ UNCHANGED dead => AmongDead(b)' = AmongDead(b)
         /\ UNCHANGED submit => Asked(b)' = Asked(b)
         /\ UNCHANGED delay => Delayed(b)' = Delayed(b)
         /\ UNCHANGED outcome => Over(b)' = Over(b)
  BY DEF InQueue, Queued, InHands, Held, InHand, AmongDead, DeadOf, Asked, Delayed, Over

\* A batch that goes to the dead letters is there, or discarded.
LEMMA DeadLetterSent ==
  ASSUME QueueType, OwnerType, NEW c \in Batches, SendToDeadLetterQueue(c), Over(c) = 0, NEW b \in Batches
  PROVE  /\ AmongDead(b)' \in Nat /\ Over(b)' \in {0, 1}
         /\ AmongDead(b)' + Over(b)' = AmongDead(b) + Over(b) + (IF c = b THEN 1 ELSE 0)
         /\ b # c => Over(b)' = Over(b)
         /\ dead' \in Seq(Batches) /\ outcome' \in [Batches -> {"none", "done", "handled", "discarded"}]
<1>1. AmongDead(b) \in Nat /\ Over(b) \in {0, 1} BY Counted DEF Over
<1>2. CASE dead' = Append(dead, c) /\ UNCHANGED outcome
  <2>1. AmongDead(b)' = AmongDead(b) + (IF c = b THEN 1 ELSE 0) BY <1>2, DeadPut
  <2>2. Over(b)' = Over(b) BY <1>2, CountStays
  <2>3. dead' \in Seq(Batches) BY <1>2 DEF OwnerType
  <2>4. QED BY <1>1, <1>2, <2>1, <2>2, <2>3 DEF OwnerType
<1>3. CASE outcome' = [outcome EXCEPT ![c] = "discarded"] /\ UNCHANGED dead
  <2>1. AmongDead(b)' = AmongDead(b) BY <1>3, CountStays
  <2>2. Over(b)' = IF c = b THEN 1 ELSE Over(b) BY <1>3 DEF Over, OwnerType
  <2>3. QED BY <1>1, <1>3, <2>1, <2>2 DEF OwnerType
<1>4. QED BY <1>2, <1>3 DEF SendToDeadLetterQueue

\* A step that does not bring back the first context.
FirstContext == epoch = 1 /\ live
NoneRevived  == FirstContext' => FirstContext

LEMMA OwnedSame ==
  ASSUME NEW b \in Batches, Owned(b), NoneRevived, b \in accepted' <=> b \in accepted,
         InQueue(b)' = InQueue(b), InHands(b)' = InHands(b), AmongDead(b)' = AmongDead(b),
         Asked(b)' = Asked(b), Delayed(b)' = Delayed(b), Over(b)' = Over(b)
  PROVE  Owned(b)'
  BY CopiesSum DEF Owned, NoneRevived, FirstContext

\* An accepted batch moves, or is lost with a context other than the first.
LEMMA OwnedMoves ==
  ASSUME NEW b \in Batches, Owned(b), QueueType, OwnerType, NoneRevived, b \in accepted, b \in accepted',
         InQueue(b)' \in Nat, InHands(b)' \in Nat, AmongDead(b)' \in Nat,
         InQueue(b)' + InHands(b)' + AmongDead(b)' + Asked(b)' + Delayed(b)' + Over(b)'
           = InQueue(b) + InHands(b) + AmongDead(b) + Asked(b) + Delayed(b) + Over(b)
  PROVE  Owned(b)'
<1>1. InQueue(b) \in Nat /\ InHands(b) \in Nat /\ AmongDead(b) \in Nat BY Counted
<1>2. /\ Asked(b) \in {0, 1} /\ Delayed(b) \in {0, 1} /\ Over(b) \in {0, 1}
      /\ Asked(b)' \in {0, 1} /\ Delayed(b)' \in {0, 1} /\ Over(b)' \in {0, 1}
  BY DEF Asked, Delayed, Over
<1>3. QED BY <1>1, <1>2, CopiesSum DEF Owned, NoneRevived, FirstContext

LEMMA OwnedLost ==
  ASSUME NEW b \in Batches, Owned(b), QueueType, OwnerType, NoneRevived, ~FirstContext,
         b \in accepted, b \in accepted',
         InQueue(b)' \in Nat, InHands(b)' \in Nat, AmongDead(b)' \in Nat,
         InQueue(b)' + InHands(b)' + AmongDead(b)' + Asked(b)' + Delayed(b)' + Over(b)'
           = InQueue(b) + InHands(b) + AmongDead(b) + Asked(b) + Delayed(b) + Over(b) - 1
  PROVE  Owned(b)'
<1>1. InQueue(b) \in Nat /\ InHands(b) \in Nat /\ AmongDead(b) \in Nat BY Counted
<1>2. /\ Asked(b) \in {0, 1} /\ Delayed(b) \in {0, 1} /\ Over(b) \in {0, 1}
      /\ Asked(b)' \in {0, 1} /\ Delayed(b)' \in {0, 1} /\ Over(b)' \in {0, 1}
  BY DEF Asked, Delayed, Over
<1>3. ~FirstContext' BY Zenon DEF NoneRevived
<1>4. Copies(b)' + Over(b)' <= 1 BY <1>1, <1>2, CopiesSum DEF Owned
<1>5. QED BY <1>3, <1>4, Zenon DEF Owned, FirstContext

\* Who is in a place other than a first SubmitBatch is accepted, and nowhere
\* else.
LEMMA OwnedPlace ==
  ASSUME NEW b \in Batches, Owned(b), QueueType, OwnerType
  PROVE  /\ InQueue(b) \in Nat /\ InHands(b) \in Nat /\ AmongDead(b) \in Nat
         /\ Asked(b) \in {0, 1} /\ Delayed(b) \in {0, 1} /\ Over(b) \in {0, 1}
         /\ InQueue(b) # 0 \/ InHands(b) # 0 \/ AmongDead(b) # 0 \/ Delayed(b) # 0 => b \in accepted
         /\ InQueue(b) + InHands(b) + AmongDead(b) + Asked(b) + Delayed(b) + Over(b) <= 1
<1>1. InQueue(b) \in Nat /\ InHands(b) \in Nat /\ AmongDead(b) \in Nat BY Counted
<1>2. Asked(b) \in {0, 1} /\ Delayed(b) \in {0, 1} /\ Over(b) \in {0, 1}
  BY DEF Asked, Delayed, Over
<1>3. QED BY <1>1, <1>2, CopiesSum DEF Owned

LEMMA CallerOwner ==
  ASSUME SemaphoreExact, OwnerInv, NEW c \in Callers, CallerNext(c)
  PROVE  OwnerInv'
<1>1. UNCHANGED <<queue, submit, delay, dead, accepted, outcome>>
  BY DEF CallerNext, CallerReturns, StartProcessing, StopBegin, StopCancel, StopWait, StopFinish,
     SetConfigResize, SetConfigResume, SetConfigOther, flowVars, pastVars
<1>2. epoch \in Nat \ {0} /\ live \in BOOLEAN BY DEF OwnerInv, ContextsKnown
<1>3. epoch' \in Nat \ {0} /\ epoch <= epoch' /\ live' \in BOOLEAN /\ NoneRevived
  <2>1. \/ UNCHANGED <<epoch, live>>
        \/ epoch' = epoch /\ live' = FALSE
        \/ epoch' = epoch + 1 /\ live' = TRUE
    BY DEF CallerNext, CallerReturns, StartProcessing, StopBegin, StopCancel, StopWait, StopFinish,
       SetConfigResize, SetConfigResume, SetConfigOther
  <2>2. epoch + 1 \in Nat \ {0} /\ epoch + 1 # 1 /\ epoch <= epoch + 1 BY <1>2
  <2>3. CASE UNCHANGED <<epoch, live>>
    <3>1. epoch' \in Nat \ {0} /\ epoch <= epoch' /\ live' \in BOOLEAN BY <1>2, <2>3
    <3>2. NoneRevived BY <2>3, Zenon DEF NoneRevived, FirstContext
    <3>3. QED BY <3>1, <3>2
  <2>4. CASE epoch' = epoch /\ live' = FALSE
    <3>1. epoch' \in Nat \ {0} /\ epoch <= epoch' BY <1>2, <2>4
    <3>2. NoneRevived BY <2>4, Zenon DEF NoneRevived, FirstContext
    <3>3. live' \in BOOLEAN BY <2>4, Zenon
    <3>4. QED BY <3>1, <3>2, <3>3
  <2>5. CASE epoch' = epoch + 1 /\ live' = TRUE BY <2>2, <2>5 DEF NoneRevived, FirstContext
  <2>6. QED BY <2>1, <2>3, <2>4, <2>5
<1>4. UNCHANGED worker \/ \E n : StartWorkers(n)
  BY DEF CallerNext, CallerReturns, StartProcessing, StopBegin, StopCancel, StopWait, StopFinish,
     SetConfigResize, SetConfigResume, SetConfigOther, flowVars
<1>5. \A w \in Workers : InHand(w)' => InHand(w) /\ worker'[w] = worker[w]
  BY <1>4 DEF StartWorkers, InHand, Ready
<1>6. \A b : Held(b)' = Held(b)
  <2>1. \A w \in Workers : InHand(w) => worker'[w] = worker[w]
    BY <1>4 DEF StartWorkers, InHand, Off
  <2>2. \A w \in Workers : InHand(w)' <=> InHand(w) BY <1>5, <2>1 DEF InHand
  <2>3. QED BY <1>5, <2>2 DEF Held
<1>7. OwnerType' BY <1>1, <1>5 DEF OwnerInv, OwnerType
<1>8. ContextsKnown' BY <1>1, <1>2, <1>3 DEF OwnerInv, ContextsKnown
<1>9. \A b \in Batches : Owned(b)'
  BY <1>1, <1>3, <1>6, OwnedSame, CountStays DEF OwnerInv, InHands
<1>10. QED BY <1>7, <1>8, <1>9 DEF OwnerInv

\* Steps of a batch outside a worker's hands leave contexts and hands alone.
LEMMA SubmitOwner ==
  ASSUME SemaphoreExact, OwnerInv, NEW b \in Batches, SubmitCheck(b) \/ SubmitEnqueue(b) \/ SubmitRefused(b)
  PROVE  OwnerInv'
<1> USE DEF SemaphoreExact
<1>1. UNCHANGED <<worker, epoch, live, delay, attempts>> /\ NoneRevived
  BY DEF SubmitCheck, SubmitEnqueue, SubmitRefused, lifeVars, pastVars, NoneRevived, FirstContext
<1>2. OwnerType /\ ContextsKnown /\ \A x \in Batches : Owned(x) BY DEF OwnerInv
<1>3. \A x : InHands(x)' = InHands(x) /\ Delayed(x)' = Delayed(x) BY <1>1, CountStays
<1>4. CASE SubmitCheck(b)
  <2>1. /\ submit' = [submit EXCEPT ![b] = [at |-> "select", ctx |-> epoch, retry |-> FALSE]]
        /\ submit[b] = NoCall /\ b \notin accepted /\ UNCHANGED <<queue, dead, accepted, outcome>>
    BY <1>4 DEF SubmitCheck, pastVars
  <2>2. \A x \in Batches : Asked(x)' = IF x = b THEN 1 ELSE Asked(x) BY <2>1 DEF Asked, NoCall
  <2>3. \A x : InQueue(x)' = InQueue(x) /\ AmongDead(x)' = AmongDead(x) /\ Over(x)' = Over(x)
    BY <2>1, CountStays
  <2>4. ASSUME NEW x \in Batches PROVE Owned(x)'
    <3>1. CASE x = b
      <4>1. Owned(b) BY <1>2
      <4>2. Asked(b) = 0 BY <2>1 DEF Asked
      <4>3. InQueue(b) \in Nat /\ InHands(b) \in Nat /\ AmongDead(b) \in Nat /\ Delayed(b) \in {0, 1}
        BY <1>2, OwnedPlace
      <4>4. QED BY <1>3, <2>1, <2>2, <2>3, <3>1, <4>1, <4>2, <4>3, CopiesSum DEF Owned
    <3>2. CASE x # b BY <1>1, <1>2, <1>3, <2>1, <2>2, <2>3, <3>2, OwnedSame
    <3>3. QED BY <3>1, <3>2
  <2>5. OwnerType' BY <1>1, <1>2, <2>1 DEF OwnerType, InHand
  <2>6. ContextsKnown' BY <1>1, <1>2, <2>1 DEF ContextsKnown
  <2>7. QED BY <2>4, <2>5, <2>6 DEF OwnerInv
<1>5. CASE SubmitEnqueue(b)
  <2> DEFINE e == [batch |-> b, ctx |-> submit[b].ctx, retries |-> SubmittedRetries]
  <2>1. /\ queue' = Append(queue, e) /\ submit' = [submit EXCEPT ![b] = NoCall] /\ submit[b].at = "select"
        /\ accepted' = accepted \cup {b} /\ UNCHANGED <<dead, outcome>>
    BY <1>5 DEF SubmitEnqueue
  <2>2. submit[b] # NoCall /\ submit[b].ctx \in 1..epoch BY <1>2, <2>1 DEF ContextsKnown, NoCall
  <2>3. e \in Entry /\ e.batch = b /\ e.ctx \in 1..epoch BY <2>2 DEF Entry, SubmittedRetries
  <2>4. \A x \in Batches : InQueue(x)' = InQueue(x) + (IF b = x THEN 1 ELSE 0)
    BY <1>2, <2>1, <2>3, QueuePut
  <2>5. \A x \in Batches : Asked(x)' = IF x = b THEN 0 ELSE Asked(x) BY <2>1 DEF Asked
  <2>6. Asked(b) = 1 BY <2>2 DEF Asked
  <2>7. \A x : AmongDead(x)' = AmongDead(x) /\ Over(x)' = Over(x) BY <2>1, CountStays
  <2>8. ASSUME NEW x \in Batches PROVE Owned(x)'
    <3>1. CASE x = b
      <4>1. Owned(b) BY <1>2
      <4>2. /\ InQueue(b) \in Nat /\ InHands(b) \in Nat /\ AmongDead(b) \in Nat /\ Delayed(b) \in {0, 1}
            /\ Over(b) \in {0, 1}
            /\ InQueue(b) + InHands(b) + AmongDead(b) + Asked(b) + Delayed(b) + Over(b) <= 1
        BY <1>2, OwnedPlace
      <4>3. Copies(b)' = 1 /\ Over(b)' = 0
        BY <1>3, <2>4, <2>5, <2>6, <2>7, <4>2, CopiesSum
      <4>4. b \in accepted' BY <2>1
      <4>5. QED BY <3>1, <4>3, <4>4 DEF Owned
    <3>2. CASE x # b
      <4>1. InQueue(x)' = InQueue(x) BY <1>2, <2>4, <3>2, OwnedPlace
      <4>2. QED BY <1>1, <1>2, <1>3, <2>1, <2>5, <2>7, <3>2, <4>1, OwnedSame
    <3>3. QED BY <3>1, <3>2
  <2>9. OwnerType' BY <1>1, <1>2, <2>1 DEF OwnerType, InHand
  <2>10. ContextsKnown'
    <3>1. queue \in Seq(Entry) BY DEF QueueType, Entry
    <3>2. \A k \in DOMAIN queue' : queue'[k] = e \/ (k \in DOMAIN queue /\ queue'[k] = queue[k])
      BY <2>1, <2>3, <3>1
    <3>3. \A k \in DOMAIN queue' : queue'[k].ctx \in 1..epoch BY <1>2, <2>3, <3>2 DEF ContextsKnown
    <3>4. QED BY <1>1, <1>2, <2>1, <3>3 DEF ContextsKnown
  <2>11. QED BY <2>8, <2>9, <2>10 DEF OwnerInv
<1>6. CASE SubmitRefused(b)
  <2>1. /\ submit' = [submit EXCEPT ![b] = NoCall] /\ submit[b].at = "select" /\ UNCHANGED <<queue, accepted>>
        /\ AfterRefusal(b)
    BY <1>6 DEF SubmitRefused
  <2>2. submit[b] # NoCall /\ (submit[b].retry <=> b \in accepted)
    BY <1>2, <2>1 DEF ContextsKnown, NoCall
  <2>3. \A x \in Batches : Asked(x)' = IF x = b THEN 0 ELSE Asked(x) BY <2>1 DEF Asked
  <2>4. Asked(b) = 1 BY <2>2 DEF Asked
  <2>5. \A x : InQueue(x)' = InQueue(x) BY <2>1, CountStays
  <2>6. ContextsKnown' BY <1>1, <1>2, <2>1 DEF ContextsKnown
  <2>7. /\ InQueue(b) \in Nat /\ InHands(b) \in Nat /\ AmongDead(b) \in Nat /\ Delayed(b) \in {0, 1}
        /\ Over(b) \in {0, 1} /\ Owned(b)
        /\ InQueue(b) + InHands(b) + AmongDead(b) + Asked(b) + Delayed(b) + Over(b) <= 1
    BY <1>2, OwnedPlace
  <2>8. Over(b) = 0 BY <2>4, <2>7
  <2>9. CASE b \in accepted
    <3>1. SendToDeadLetterQueue(b) BY <2>1, <2>2, <2>9 DEF AfterRefusal
    <3>2. \A x \in Batches :
            /\ AmongDead(x)' \in Nat /\ Over(x)' \in {0, 1}
            /\ AmongDead(x)' + Over(x)' = AmongDead(x) + Over(x) + (IF b = x THEN 1 ELSE 0)
            /\ x # b => Over(x)' = Over(x)
            /\ dead' \in Seq(Batches) /\ outcome' \in [Batches -> {"none", "done", "handled", "discarded"}]
      BY <1>2, <2>8, <3>1, DeadLetterSent
    <3>3. ASSUME NEW x \in Batches PROVE Owned(x)'
      <4>1. CASE x = b
        <5>1. InQueue(b)' + InHands(b)' + AmongDead(b)' + Asked(b)' + Delayed(b)' + Over(b)'
                = InQueue(b) + InHands(b) + AmongDead(b) + Asked(b) + Delayed(b) + Over(b)
          BY <1>3, <2>3, <2>4, <2>5, <2>7, <3>2
        <5>2. QED BY <1>1, <1>2, <1>3, <2>1, <2>5, <2>7, <2>9, <3>2, <4>1, <5>1, OwnedMoves
      <4>2. CASE x # b
        <5>1. AmongDead(x) \in Nat /\ Over(x) \in {0, 1} BY <1>2, OwnedPlace
        <5>2. AmongDead(x)' = AmongDead(x) /\ Over(x)' = Over(x)
          BY <3>2, <4>2, <5>1
        <5>3. QED BY <1>1, <1>2, <1>3, <2>1, <2>3, <2>5, <4>2, <5>2, OwnedSame
      <4>3. QED BY <4>1, <4>2
    <3>4. OwnerType' BY <1>1, <1>2, <2>1, <3>2 DEF OwnerType, InHand
    <3>5. QED BY <2>6, <3>3, <3>4 DEF OwnerInv
  <2>10. CASE b \notin accepted
    <3>1. UNCHANGED <<dead, outcome>> BY <2>1, <2>2, <2>10 DEF AfterRefusal
    <3>2. \A x : AmongDead(x)' = AmongDead(x) /\ Over(x)' = Over(x) BY <3>1, CountStays
    <3>3. ASSUME NEW x \in Batches PROVE Owned(x)'
      <4>1. CASE x = b
        BY <1>3, <2>1, <2>3, <2>4, <2>5, <2>7, <2>8, <2>10, <3>2, <4>1, CopiesSum DEF Owned
      <4>2. CASE x # b BY <1>1, <1>2, <1>3, <2>1, <2>3, <2>5, <3>2, <4>2, OwnedSame
      <4>3. QED BY <4>1, <4>2
    <3>4. OwnerType' BY <1>1, <1>2, <2>1, <3>1 DEF OwnerType, InHand
    <3>5. QED BY <2>6, <3>3, <3>4 DEF OwnerInv
  <2>11. QED BY <2>9, <2>10
<1>7. QED BY <1>4, <1>5, <1>6

\* What is of the first context is not of a cancelled one.
LEMMA CancelledLater ==
  ASSUME NEW c \in 1..epoch, Cancelled(c)
  PROVE  ~FirstContext
<1>1. epoch = 1 => c = epoch OBVIOUS
<1>2. QED BY <1>1, Zenon DEF Cancelled, FirstContext

LEMMA RetryOwner ==
  ASSUME SemaphoreExact, OwnerInv, NEW b \in Batches, RetryFires(b) \/ RetryAbandons(b)
  PROVE  OwnerInv'
<1> USE DEF SemaphoreExact
<1>1. /\ UNCHANGED <<queue, worker, epoch, live, accepted>> /\ NoneRevived
      /\ delay[b] # 0 /\ delay' = [delay EXCEPT ![b] = 0]
  BY DEF RetryFires, RetryAbandons, lifeVars, pastVars, NoneRevived, FirstContext
<1>2. OwnerType /\ ContextsKnown /\ \A x \in Batches : Owned(x) BY DEF OwnerInv
<1>3. \A x : InHands(x)' = InHands(x) /\ InQueue(x)' = InQueue(x) BY <1>1, CountStays
<1>4. Delayed(b) = 1 /\ \A x \in Batches : Delayed(x)' = IF x = b THEN 0 ELSE Delayed(x)
  BY <1>1, <1>2 DEF Delayed, OwnerType
<1>5. \A x \in Batches :
        /\ InQueue(x) \in Nat /\ InHands(x) \in Nat /\ AmongDead(x) \in Nat
        /\ Asked(x) \in {0, 1} /\ Delayed(x) \in {0, 1} /\ Over(x) \in {0, 1}
        /\ InQueue(x) + InHands(x) + AmongDead(x) + Asked(x) + Delayed(x) + Over(x) <= 1
  BY <1>2, OwnedPlace
<1>6. b \in accepted BY <1>2, <1>4, OwnedPlace
<1>7. Asked(b) = 0 /\ Over(b) = 0 BY <1>4, <1>5
<1>8. delay' \in [Batches -> Nat] /\ \A x \in Batches : delay'[x] \in 0..epoch
  BY <1>1, <1>2 DEF OwnerType, ContextsKnown
<1>9. CASE RetryAbandons(b)
  <2>1. UNCHANGED <<submit, dead, outcome>> /\ Cancelled(delay[b]) BY <1>9 DEF RetryAbandons, pastVars
  <2>2. ~FirstContext
    <3>1. delay[b] \in 0..epoch /\ delay[b] # 0 BY <1>1, <1>2 DEF ContextsKnown
    <3>2. delay[b] \in 1..epoch BY <3>1
    <3>3. QED BY <2>1, <3>2, CancelledLater
  <2>3. \A x : AmongDead(x)' = AmongDead(x) /\ Asked(x)' = Asked(x) /\ Over(x)' = Over(x) BY <2>1, CountStays
  <2>4. ASSUME NEW x \in Batches PROVE Owned(x)'
    <3>1. CASE x = b
      <4>1. InQueue(b)' + InHands(b)' + AmongDead(b)' + Asked(b)' + Delayed(b)' + Over(b)'
              = InQueue(b) + InHands(b) + AmongDead(b) + Asked(b) + Delayed(b) + Over(b) - 1
        BY <1>3, <1>4, <1>5, <2>3
      <4>2. InQueue(b)' \in Nat /\ InHands(b)' \in Nat /\ AmongDead(b)' \in Nat BY <1>3, <1>5, <2>3
      <4>3. QED BY <1>1, <1>2, <1>6, <2>2, <3>1, <4>1, <4>2, OwnedLost
    <3>2. CASE x # b BY <1>1, <1>2, <1>3, <1>4, <2>3, <3>2, OwnedSame
    <3>3. QED BY <3>1, <3>2
  <2>5. OwnerType' BY <1>1, <1>2, <1>8, <2>1 DEF OwnerType, InHand
  <2>6. ContextsKnown' BY <1>1, <1>2, <1>8, <2>1 DEF ContextsKnown
  <2>7. QED BY <2>4, <2>5, <2>6 DEF OwnerInv
<1>10. CASE RetryFires(b) /\ UNCHANGED <<dead, outcome>>
       /\ submit' = [submit EXCEPT ![b] = [at |-> "select", ctx |-> epoch, retry |-> TRUE]]
  <2>1. \A x : AmongDead(x)' = AmongDead(x) /\ Over(x)' = Over(x) BY <1>10, CountStays
  <2>2. \A x \in Batches : Asked(x)' = IF x = b THEN 1 ELSE Asked(x) BY <1>10 DEF Asked, NoCall
  <2>3. ASSUME NEW x \in Batches PROVE Owned(x)'
    <3>1. CASE x = b
      <4>1. InQueue(b)' + InHands(b)' + AmongDead(b)' + Asked(b)' + Delayed(b)' + Over(b)'
              = InQueue(b) + InHands(b) + AmongDead(b) + Asked(b) + Delayed(b) + Over(b)
        BY <1>3, <1>4, <1>5, <1>7, <2>1, <2>2
      <4>2. InQueue(b)' \in Nat /\ InHands(b)' \in Nat /\ AmongDead(b)' \in Nat BY <1>3, <1>5, <2>1
      <4>3. QED BY <1>1, <1>2, <1>6, <3>1, <4>1, <4>2, OwnedMoves
    <3>2. CASE x # b BY <1>1, <1>2, <1>3, <1>4, <2>1, <2>2, <3>2, OwnedSame
    <3>3. QED BY <3>1, <3>2
  <2>4. OwnerType' BY <1>1, <1>2, <1>8, <1>10 DEF OwnerType, InHand
  <2>5. ContextsKnown' BY <1>1, <1>2, <1>6, <1>8, <1>10 DEF ContextsKnown
  <2>6. QED BY <2>3, <2>4, <2>5 DEF OwnerInv
<1>11. CASE RetryFires(b) /\ SendToDeadLetterQueue(b) /\ UNCHANGED submit
  <2>1. \A x \in Batches :
          /\ AmongDead(x)' \in Nat /\ Over(x)' \in {0, 1}
          /\ AmongDead(x)' + Over(x)' = AmongDead(x) + Over(x) + (IF b = x THEN 1 ELSE 0)
          /\ x # b => Over(x)' = Over(x)
          /\ dead' \in Seq(Batches) /\ outcome' \in [Batches -> {"none", "done", "handled", "discarded"}]
    BY <1>2, <1>7, <1>11, DeadLetterSent
  <2>2. \A x : Asked(x)' = Asked(x) BY <1>11, CountStays
  <2>3. ASSUME NEW x \in Batches PROVE Owned(x)'
    <3>1. CASE x = b
      <4>1. InQueue(b)' + InHands(b)' + AmongDead(b)' + Asked(b)' + Delayed(b)' + Over(b)'
              = InQueue(b) + InHands(b) + AmongDead(b) + Asked(b) + Delayed(b) + Over(b)
        <5>1. /\ AmongDead(b)' \in Nat /\ Over(b)' \in {0, 1}
              /\ AmongDead(b)' + Over(b)' = AmongDead(b) + Over(b) + 1
          BY <2>1
        <5>2. /\ InQueue(b)' = InQueue(b) /\ InHands(b)' = InHands(b) /\ Asked(b)' = Asked(b)
              /\ Delayed(b)' = 0 /\ Delayed(b) = 1
          BY <1>3, <1>4, <2>2
        <5>3. /\ InQueue(b) \in Nat /\ InHands(b) \in Nat /\ AmongDead(b) \in Nat
              /\ Asked(b) \in {0, 1} /\ Over(b) \in {0, 1}
          BY <1>5
        <5>4. QED BY <5>1, <5>2, <5>3
      <4>2. InQueue(b)' \in Nat /\ InHands(b)' \in Nat /\ AmongDead(b)' \in Nat BY <1>3, <1>5, <2>1
      <4>3. QED BY <1>1, <1>2, <1>6, <3>1, <4>1, <4>2, OwnedMoves
    <3>2. CASE x # b
      <4>1. AmongDead(x) \in Nat /\ Over(x) \in {0, 1} BY <1>5
      <4>2. /\ AmongDead(x)' \in Nat /\ Over(x)' = Over(x)
            /\ AmongDead(x)' + Over(x)' = AmongDead(x) + Over(x) + 0
        BY <2>1, <3>2
      <4>3. AmongDead(x)' = AmongDead(x) /\ Over(x)' = Over(x) BY <4>1, <4>2
      <4>4. QED BY <1>1, <1>2, <1>3, <1>4, <2>2, <3>2, <4>3, OwnedSame
    <3>3. QED BY <3>1, <3>2
  <2>4. OwnerType' BY <1>1, <1>2, <1>8, <2>1 DEF OwnerType, InHand
  <2>5. ContextsKnown' BY <1>1, <1>2, <1>8, <1>11 DEF ContextsKnown
  <2>6. QED BY <2>3, <2>4, <2>5 DEF OwnerInv
<1>12. QED BY <1>9, <1>10, <1>11 DEF RetryFires

\* A worker takes the head of the queue, or drops it with its context.
LEMMA TakeOwner ==
  ASSUME SemaphoreExact, OwnerInv, NEW w \in Workers, WorkerTake(w)
  PROVE  OwnerInv'
<1> USE DEF SemaphoreExact
<1> DEFINE e == Head(queue)
           b == e.batch
           r == [at |-> "got", batch |-> b, retries |-> e.retries]
<1>1. /\ UNCHANGED <<epoch, live, submit, delay, dead, accepted, outcome>> /\ NoneRevived
      /\ worker[w].at = "idle" /\ queue # <<>> /\ queue' = Tail(queue)
      /\ worker' = IF Cancelled(e.ctx) THEN worker ELSE [worker EXCEPT ![w] = r]
  BY DEF WorkerTake, lifeVars, pastVars, NoneRevived, FirstContext
<1>2. OwnerType /\ ContextsKnown /\ \A x \in Batches : Owned(x) BY DEF OwnerInv
<1>3. e \in Entry /\ b \in Batches /\ queue \in Seq(Entry)
  <2>1. queue \in Seq(Entry) /\ queue # <<>> BY <1>1 DEF QueueType, Entry
  <2>2. e \in Entry BY <2>1, HeadTailProperties
  <2>3. QED BY <2>1, <2>2 DEF Entry
<1>4. \A x \in Batches : InQueue(x)' = InQueue(x) - (IF b = x THEN 1 ELSE 0) /\ InQueue(x)' \in Nat
  BY <1>1, <1>2, QueueTaken
<1>5. \A x : /\ AmongDead(x)' = AmongDead(x) /\ Asked(x)' = Asked(x)
             /\ Delayed(x)' = Delayed(x) /\ Over(x)' = Over(x)
  BY <1>1, CountStays
<1>6. \A x \in Batches :
        /\ InQueue(x) \in Nat /\ InHands(x) \in Nat /\ AmongDead(x) \in Nat
        /\ Asked(x) \in {0, 1} /\ Delayed(x) \in {0, 1} /\ Over(x) \in {0, 1}
  BY <1>2, OwnedPlace
<1>7. b \in accepted
  <2>1. InQueue(b) # 0 BY <1>3, <1>4, <1>6
  <2>2. QED BY <1>2, <1>3, <2>1, OwnedPlace
<1>8. ContextsKnown'
  <2>1. \A k \in DOMAIN Tail(queue) : k + 1 \in DOMAIN queue /\ Tail(queue)[k] = queue[k + 1]
    BY <1>1, <1>3, HeadTailProperties, LenProperties
  <2>2. QED BY <1>1, <1>2, <2>1 DEF ContextsKnown
<1>9. CASE Cancelled(e.ctx)
  <2>1. UNCHANGED worker BY <1>1, <1>9
  <2>2. \A x : InHands(x)' = InHands(x) BY <2>1, CountStays
  <2>3. ~FirstContext
    <3>1. e = queue[1] /\ 1 \in DOMAIN queue BY <1>1, <1>3, EmptySeq, LenProperties
    <3>2. e.ctx \in 1..epoch BY <1>2, <3>1 DEF ContextsKnown
    <3>3. QED BY <1>9, <3>2, CancelledLater
  <2>4. ASSUME NEW x \in Batches PROVE Owned(x)'
    <3>1. CASE x = b
      <4>1. InQueue(x)' + InHands(x)' + AmongDead(x)' + Asked(x)' + Delayed(x)' + Over(x)'
              = InQueue(x) + InHands(x) + AmongDead(x) + Asked(x) + Delayed(x) + Over(x) - 1
        BY <1>4, <1>5, <1>6, <2>2, <3>1
      <4>2. InQueue(x)' \in Nat /\ InHands(x)' \in Nat /\ AmongDead(x)' \in Nat BY <1>4, <1>5, <1>6, <2>2
      <4>3. QED BY <1>1, <1>2, <1>7, <2>3, <3>1, <4>1, <4>2, OwnedLost
    <3>2. CASE x # b
      <4>1. InQueue(x)' = InQueue(x) BY <1>4, <1>6, <3>2
      <4>2. QED BY <1>1, <1>2, <1>5, <2>2, <4>1, OwnedSame
    <3>3. QED BY <3>1, <3>2
  <2>5. OwnerType' BY <1>1, <1>2, <2>1 DEF OwnerType, InHand
  <2>6. QED BY <1>8, <2>4, <2>5 DEF OwnerInv
<1>10. CASE ~Cancelled(e.ctx)
  <2>1. worker' = [worker EXCEPT ![w] = r] /\ r.at = "got" /\ r.batch = b /\ ~InHand(w)
    BY <1>1, <1>10 DEF InHand
  <2>2. \A x \in Batches : InHands(x)' = InHands(x) + (IF b = x THEN 1 ELSE 0)
    BY <1>2, <2>1, HandTakes
  <2>3. ASSUME NEW x \in Batches PROVE Owned(x)'
    <3>1. CASE x = b
      <4>1. InQueue(x)' + InHands(x)' + AmongDead(x)' + Asked(x)' + Delayed(x)' + Over(x)'
              = InQueue(x) + InHands(x) + AmongDead(x) + Asked(x) + Delayed(x) + Over(x)
        BY <1>4, <1>5, <1>6, <2>2, <3>1
      <4>2. InQueue(x)' \in Nat /\ InHands(x)' \in Nat /\ AmongDead(x)' \in Nat BY <1>4, <1>5, <1>6, <2>2
      <4>3. QED BY <1>1, <1>2, <1>7, <3>1, <4>1, <4>2, OwnedMoves
    <3>2. CASE x # b
      <4>1. InQueue(x)' = InQueue(x) /\ InHands(x)' = InHands(x) BY <1>4, <1>6, <2>2, <3>2
      <4>2. QED BY <1>1, <1>2, <1>5, <4>1, OwnedSame
    <3>3. QED BY <3>1, <3>2
  <2>4. OwnerType'
    <3>1. \A v \in Workers : InHand(v)' => worker'[v].batch \in Batches
      BY <1>2, <1>3, <2>1 DEF OwnerType, InHand, WorkerType
    <3>2. QED BY <1>1, <1>2, <3>1 DEF OwnerType
  <2>5. QED BY <1>8, <2>3, <2>4 DEF OwnerInv
<1>11. QED BY <1>9, <1>10

\* A worker goes on, or exits with what it has, while its context is cancelled.
LEMMA GoOnOwner ==
  ASSUME SemaphoreExact, OwnerInv, NEW w \in Workers,
         WorkerAcquire(w) \/ WorkerExit(w) \/ ProcessBegin(w) \/ ProcessReturns(w)
  PROVE  OwnerInv'
<1> USE DEF SemaphoreExact
<1>1. UNCHANGED <<epoch, live, queue, submit, delay, dead, accepted, outcome>> /\ NoneRevived
  BY DEF WorkerAcquire, WorkerExit, ProcessBegin, ProcessReturns, lifeVars, pastVars, NoneRevived, FirstContext
<1>2. OwnerType /\ ContextsKnown /\ \A x \in Batches : Owned(x) BY DEF OwnerInv
<1>3. \A x : /\ InQueue(x)' = InQueue(x) /\ AmongDead(x)' = AmongDead(x) /\ Asked(x)' = Asked(x)
             /\ Delayed(x)' = Delayed(x) /\ Over(x)' = Over(x)
  BY <1>1, CountStays
<1>4. ContextsKnown' BY <1>1, <1>2 DEF ContextsKnown
<1>5. \E r : /\ worker' = [worker EXCEPT ![w] = r]
             /\ \/ /\ r.at \in {"off", "idle"} <=> ~InHand(w)
                   /\ InHand(w) => r.batch = worker[w].batch
                \/ InHand(w) /\ r.at \in {"off", "idle"} /\ ~live
  <2>1. CASE WorkerExit(w)
    <3>1. /\ worker' = [worker EXCEPT ![w] = Off] /\ ~live
          /\ worker[w].at = "idle" \/ worker[w].at = "got"
      BY <2>1 DEF WorkerExit, ExitPoints
    <3>2. Off.at = "off" BY DEF Off
    <3>3. \/ Off.at \in {"off", "idle"} /\ ~InHand(w)
          \/ InHand(w) /\ Off.at \in {"off", "idle"} /\ ~live
      BY <3>1, <3>2 DEF InHand
    <3>4. QED BY <3>1, <3>3, Zenon
  <2>2. CASE \E at \in {"begin", "process", "ok", "err"} : InHand(w) /\ Put(w, at)
    <3>1. PICK at \in {"begin", "process", "ok", "err"} : InHand(w) /\ Put(w, at) BY <2>2
    <3> DEFINE r == [worker[w] EXCEPT !.at = at]
    <3>2. worker' = [worker EXCEPT ![w] = r] BY <3>1 DEF Put
    <3>3. r.at = at /\ r.batch = worker[w].batch BY DEF WorkerType
    <3>4. QED BY <3>1, <3>2, <3>3
  <2>3. QED BY <2>1, <2>2 DEF WorkerAcquire, ProcessBegin, ProcessReturns, InHand
<1>6. PICK r : /\ worker' = [worker EXCEPT ![w] = r]
               /\ \/ /\ r.at \in {"off", "idle"} <=> ~InHand(w)
                     /\ InHand(w) => r.batch = worker[w].batch
                  \/ InHand(w) /\ r.at \in {"off", "idle"} /\ ~live
  BY <1>5
<1>7. OwnerType'
  <2>1. \A v \in Workers : InHand(v)' => worker'[v].batch \in Batches
    BY <1>2, <1>6 DEF OwnerType, InHand, WorkerType
  <2>2. QED BY <1>1, <1>2, <2>1 DEF OwnerType
<1>8. CASE /\ r.at \in {"off", "idle"} <=> ~InHand(w)
           /\ InHand(w) => r.batch = worker[w].batch
  <2>1. \A x \in Batches : InHands(x)' = InHands(x) BY <1>6, <1>8, HandKeeps
  <2>2. \A x \in Batches : Owned(x)' BY <1>1, <1>2, <1>3, <2>1, OwnedSame
  <2>3. QED BY <1>4, <1>7, <2>2 DEF OwnerInv
<1>9. CASE InHand(w) /\ r.at \in {"off", "idle"} /\ ~live
  <2>1. \A x \in Batches :
          InHands(x)' = InHands(x) - (IF worker[w].batch = x THEN 1 ELSE 0) /\ InHands(x)' \in Nat
    <3>1. worker' = [worker EXCEPT ![w] = r] /\ InHand(w) /\ r.at \in {"off", "idle"}
      BY <1>6, <1>9, Zenon
    <3>2. ~InHand(w)' /\ \A v \in Workers \ {w} : worker'[v] = worker[v]
      BY <3>1 DEF InHand, WorkerType
    <3>3. QED BY <3>1, <3>2, HandLetsGo
  <2>2. ~FirstContext BY <1>9, Zenon DEF FirstContext
  <2>3. ASSUME NEW x \in Batches PROVE Owned(x)'
    <3>1. /\ InQueue(x) \in Nat /\ InHands(x) \in Nat /\ AmongDead(x) \in Nat
          /\ Asked(x) \in {0, 1} /\ Delayed(x) \in {0, 1} /\ Over(x) \in {0, 1}
      BY <1>2, OwnedPlace
    <3>2. CASE worker[w].batch = x
      <4>1. InHands(x)' = InHands(x) - 1 /\ InHands(x)' \in Nat BY <2>1, <3>2
      <4>2. InHands(x) # 0 BY <3>1, <4>1
      <4>3. x \in accepted /\ x \in accepted' BY <1>1, <1>2, <4>2, OwnedPlace
      <4>4. InQueue(x)' + InHands(x)' + AmongDead(x)' + Asked(x)' + Delayed(x)' + Over(x)'
              = InQueue(x) + InHands(x) + AmongDead(x) + Asked(x) + Delayed(x) + Over(x) - 1
        BY <1>3, <3>1, <4>1
      <4>5. InQueue(x)' \in Nat /\ InHands(x)' \in Nat /\ AmongDead(x)' \in Nat BY <1>3, <3>1, <4>1
      <4>6. QED BY <1>1, <1>2, <2>2, <4>3, <4>4, <4>5, OwnedLost
    <3>3. CASE worker[w].batch # x
      <4>1. InHands(x)' = InHands(x) BY <2>1, <3>1, <3>3
      <4>2. QED BY <1>1, <1>2, <1>3, <4>1, OwnedSame
    <3>4. QED BY <3>2, <3>3
  <2>4. QED BY <1>4, <1>7, <2>3 DEF OwnerInv
<1>10. QED BY <1>6, <1>8, <1>9

\* processBatch ends: what it had in hand is over with, waits for its retry, or
\* is among the dead letters.
LEMMA EndOwner ==
  ASSUME SemaphoreExact, OwnerInv, NEW w \in Workers, ProcessEnd(w)
  PROVE  OwnerInv'
<1> USE DEF SemaphoreExact
<1>1. PICK b : b = worker[w].batch OBVIOUS
<1>2. /\ UNCHANGED <<epoch, live, queue, submit, accepted>> /\ NoneRevived
      /\ worker' = [worker EXCEPT ![w] = Ready] /\ InHand(w)
  BY DEF ProcessEnd, lifeVars, NoneRevived, FirstContext, InHand
<1>3. OwnerType /\ ContextsKnown /\ \A x \in Batches : Owned(x) BY DEF OwnerInv
<1>4. b \in Batches BY <1>1, <1>2, <1>3 DEF OwnerType
<1>5. \A x : InQueue(x)' = InQueue(x) /\ Asked(x)' = Asked(x) BY <1>2, CountStays
<1>6. \A x \in Batches :
        InHands(x)' = InHands(x) - (IF b = x THEN 1 ELSE 0) /\ InHands(x)' \in Nat
  <2>1. ~InHand(w)' /\ \A v \in Workers \ {w} : worker'[v] = worker[v]
    BY <1>2 DEF InHand, WorkerType, Ready
  <2>2. QED BY <1>1, <1>2, <2>1, HandLetsGo
<1>7. \A x \in Batches :
        /\ InQueue(x) \in Nat /\ InHands(x) \in Nat /\ AmongDead(x) \in Nat
        /\ Asked(x) \in {0, 1} /\ Delayed(x) \in {0, 1} /\ Over(x) \in {0, 1}
        /\ InQueue(x) + InHands(x) + AmongDead(x) + Asked(x) + Delayed(x) + Over(x) <= 1
  BY <1>3, OwnedPlace
<1>8. InHands(b)' = InHands(b) - 1 /\ InHands(b)' \in Nat BY <1>4, <1>6
<1>9. InHands(b) = 1 /\ Delayed(b) = 0 /\ Over(b) = 0 BY <1>4, <1>7, <1>8
<1>10. b \in accepted /\ b \in accepted' BY <1>2, <1>3, <1>4, <1>9, OwnedPlace
<1>11. \A v \in Workers : InHand(v)' => worker'[v].batch \in Batches
  BY <1>2, <1>3 DEF OwnerType, InHand, WorkerType, Ready
<1>12. \/ outcome' = [outcome EXCEPT ![b] = "done"] /\ UNCHANGED <<delay, dead>>
       \/ delay' = [delay EXCEPT ![b] = epoch] /\ UNCHANGED <<dead, outcome>>
       \/ SendToDeadLetterQueue(b) /\ UNCHANGED delay
  BY <1>1 DEF ProcessEnd, AfterFailure
<1>13. ASSUME delay' \in [Batches -> Nat] /\ \A x \in Batches : delay'[x] \in 0..epoch,
              dead' \in Seq(Batches), outcome' \in [Batches -> {"none", "done", "handled", "discarded"}],
              \A x \in Batches \ {b} :
                AmongDead(x)' = AmongDead(x) /\ Delayed(x)' = Delayed(x) /\ Over(x)' = Over(x),
              AmongDead(b)' \in Nat, Delayed(b)' \in {0, 1}, Over(b)' \in {0, 1},
              AmongDead(b)' + Delayed(b)' + Over(b)' = AmongDead(b) + 1
       PROVE  OwnerInv'
  <2>1. OwnerType' BY <1>2, <1>3, <1>11, <1>13 DEF OwnerType
  <2>2. ContextsKnown' BY <1>2, <1>3, <1>13 DEF ContextsKnown
  <2>3. Owned(b)'
    <3>1. InQueue(b)' = InQueue(b) /\ Asked(b)' = Asked(b) BY <1>5
    <3>2. InQueue(b) \in Nat /\ AmongDead(b) \in Nat /\ Asked(b) \in {0, 1} BY <1>4, <1>7
    <3>3. InQueue(b)' + InHands(b)' + AmongDead(b)' + Asked(b)' + Delayed(b)' + Over(b)'
            = InQueue(b) + InHands(b) + AmongDead(b) + Asked(b) + Delayed(b) + Over(b)
      <4>1. InHands(b)' = 0 BY <1>8, <1>9
      <4>2. /\ AmongDead(b)' \in Nat /\ Delayed(b)' \in Nat /\ Over(b)' \in Nat
            /\ AmongDead(b)' + Delayed(b)' + Over(b)' = AmongDead(b) + 1
        BY <1>13
      <4>3. Asked(b) \in Nat BY <3>2
      <4>4. QED BY <1>9, <3>1, <3>2, <4>1, <4>2, <4>3
    <3>4. QED BY <1>2, <1>3, <1>4, <1>8, <1>10, <1>13, <3>1, <3>2, <3>3, OwnedMoves
  <2>4. ASSUME NEW x \in Batches, x # b PROVE Owned(x)'
    <3>1. InHands(x)' = InHands(x) BY <1>6, <1>7, <2>4
    <3>2. QED BY <1>2, <1>3, <1>5, <1>13, <2>4, <3>1, OwnedSame
  <2>5. QED BY <2>1, <2>2, <2>3, <2>4 DEF OwnerInv
<1>14. AmongDead(b) \in Nat BY <1>4, <1>7
<1>15. CASE outcome' = [outcome EXCEPT ![b] = "done"] /\ UNCHANGED <<delay, dead>>
  <2>1. \A x \in Batches : Over(x)' = IF x = b THEN 1 ELSE Over(x) BY <1>3, <1>4, <1>15 DEF Over, OwnerType
  <2>2. \A x : AmongDead(x)' = AmongDead(x) /\ Delayed(x)' = Delayed(x) BY <1>15, CountStays
  <2>3. delay' \in [Batches -> Nat] /\ \A x \in Batches : delay'[x] \in 0..epoch
    BY <1>3, <1>15 DEF OwnerType, ContextsKnown
  <2>4. outcome' \in [Batches -> {"none", "done", "handled", "discarded"}] /\ dead' \in Seq(Batches)
    BY <1>3, <1>15 DEF OwnerType
  <2>5. QED BY <1>4, <1>9, <1>13, <1>14, <2>1, <2>2, <2>3, <2>4
<1>16. CASE delay' = [delay EXCEPT ![b] = epoch] /\ UNCHANGED <<dead, outcome>>
  <2>1. epoch \in Nat /\ epoch # 0 /\ epoch \in 0..epoch BY <1>3 DEF ContextsKnown
  <2>2. \A x \in Batches : Delayed(x)' = IF x = b THEN 1 ELSE Delayed(x)
    BY <1>3, <1>4, <1>16, <2>1 DEF Delayed, OwnerType
  <2>3. \A x : AmongDead(x)' = AmongDead(x) /\ Over(x)' = Over(x) BY <1>16, CountStays
  <2>4. delay' \in [Batches -> Nat] /\ \A x \in Batches : delay'[x] \in 0..epoch
    BY <1>3, <1>16, <2>1 DEF OwnerType, ContextsKnown
  <2>5. outcome' \in [Batches -> {"none", "done", "handled", "discarded"}] /\ dead' \in Seq(Batches)
    BY <1>3, <1>16 DEF OwnerType
  <2>6. QED BY <1>4, <1>9, <1>13, <1>14, <2>2, <2>3, <2>4, <2>5
<1>17. CASE SendToDeadLetterQueue(b) /\ UNCHANGED delay
  <2>1. \A x \in Batches :
          /\ AmongDead(x)' \in Nat /\ Over(x)' \in {0, 1}
          /\ AmongDead(x)' + Over(x)' = AmongDead(x) + Over(x) + (IF b = x THEN 1 ELSE 0)
          /\ x # b => Over(x)' = Over(x)
          /\ dead' \in Seq(Batches) /\ outcome' \in [Batches -> {"none", "done", "handled", "discarded"}]
    BY <1>3, <1>4, <1>9, <1>17, DeadLetterSent
  <2>2. \A x : Delayed(x)' = Delayed(x) BY <1>17, CountStays
  <2>3. delay' \in [Batches -> Nat] /\ \A x \in Batches : delay'[x] \in 0..epoch
    BY <1>3, <1>17 DEF OwnerType, ContextsKnown
  <2>4. ASSUME NEW x \in Batches \ {b}
        PROVE  AmongDead(x)' = AmongDead(x) /\ Delayed(x)' = Delayed(x) /\ Over(x)' = Over(x)
    <3>1. AmongDead(x) \in Nat /\ Over(x) \in {0, 1} BY <1>7
    <3>2. /\ AmongDead(x)' \in Nat /\ Over(x)' = Over(x)
          /\ AmongDead(x)' + Over(x)' = AmongDead(x) + Over(x) + 0
      BY <2>1
    <3>3. QED BY <2>2, <3>1, <3>2
  <2>5. /\ AmongDead(b)' \in Nat /\ Over(b)' \in {0, 1} /\ Delayed(b)' = 0
        /\ AmongDead(b)' + Over(b)' = AmongDead(b) + 1
    BY <1>4, <1>9, <1>14, <2>1, <2>2
  <2>6. dead' \in Seq(Batches) /\ outcome' \in [Batches -> {"none", "done", "handled", "discarded"}]
    BY <1>4, <2>1
  <2>7. AmongDead(b)' + Delayed(b)' + Over(b)' = AmongDead(b) + 1 BY <1>14, <2>5
  <2>8. QED BY <1>13, <2>3, <2>4, <2>5, <2>6, <2>7
<1>18. QED BY <1>12, <1>15, <1>16, <1>17

LEMMA DeadLetterOwner ==
  ASSUME SemaphoreExact, OwnerInv, HandleDeadLetter
  PROVE  OwnerInv'
<1> USE DEF SemaphoreExact
<1>1. PICK b : b = Head(dead) OBVIOUS
<1>2. /\ UNCHANGED <<epoch, live, queue, worker, submit, delay, accepted>> /\ NoneRevived
      /\ dead # <<>> /\ dead' = Tail(dead) /\ outcome' = [outcome EXCEPT ![b] = "handled"]
  BY <1>1 DEF HandleDeadLetter, lifeVars, NoneRevived, FirstContext
<1>3. OwnerType /\ ContextsKnown /\ \A x \in Batches : Owned(x) BY DEF OwnerInv
<1>4. b \in Batches /\ dead' \in Seq(Batches) BY <1>1, <1>2, <1>3, HeadTailProperties DEF OwnerType
<1>5. \A x : /\ InQueue(x)' = InQueue(x) /\ InHands(x)' = InHands(x) /\ Asked(x)' = Asked(x)
             /\ Delayed(x)' = Delayed(x)
  BY <1>2, CountStays
<1>6. \A x \in Batches :
        AmongDead(x)' = AmongDead(x) - (IF b = x THEN 1 ELSE 0) /\ AmongDead(x)' \in Nat
  BY <1>1, <1>2, <1>3, DeadTaken
<1>7. \A x \in Batches :
        /\ InQueue(x) \in Nat /\ InHands(x) \in Nat /\ AmongDead(x) \in Nat
        /\ Asked(x) \in {0, 1} /\ Delayed(x) \in {0, 1} /\ Over(x) \in {0, 1}
        /\ InQueue(x) + InHands(x) + AmongDead(x) + Asked(x) + Delayed(x) + Over(x) <= 1
  BY <1>3, OwnedPlace
<1>8. AmongDead(b)' = AmongDead(b) - 1 /\ AmongDead(b)' \in Nat BY <1>4, <1>6
<1>9. AmongDead(b) = 1 /\ Over(b) = 0
  <2>1. /\ InQueue(b) \in Nat /\ InHands(b) \in Nat /\ AmongDead(b) \in Nat
        /\ Asked(b) \in {0, 1} /\ Delayed(b) \in {0, 1} /\ Over(b) \in {0, 1}
        /\ InQueue(b) + InHands(b) + AmongDead(b) + Asked(b) + Delayed(b) + Over(b) <= 1
    BY <1>3, <1>4, OwnedPlace
  <2>2. /\ InQueue(b) \in Nat /\ InHands(b) \in Nat /\ AmongDead(b) \in Nat
        /\ Asked(b) \in Nat /\ Delayed(b) \in Nat /\ Over(b) \in Nat
    BY <2>1
  <2>3. QED BY <1>8, <2>1, <2>2
<1>10. b \in accepted /\ b \in accepted' BY <1>2, <1>3, <1>4, <1>9, OwnedPlace
<1>11. \A x \in Batches : Over(x)' = IF x = b THEN 1 ELSE Over(x) BY <1>2, <1>3 DEF Over, OwnerType
<1>12. OwnerType' BY <1>2, <1>3, <1>4 DEF OwnerType, InHand
<1>13. ContextsKnown' BY <1>2, <1>3 DEF ContextsKnown
<1>14. Owned(b)'
  <2>1. Over(b)' = 1 /\ AmongDead(b)' = 0 BY <1>4, <1>8, <1>9, <1>11
  <2>2. InQueue(b) \in Nat /\ InHands(b) \in Nat /\ Asked(b) \in Nat /\ Delayed(b) \in Nat
    <3>1. Asked(b) \in {0, 1} /\ Delayed(b) \in {0, 1} BY <1>4, <1>7
    <3>2. QED BY <1>4, <1>7, <3>1
  <2>3. InQueue(b)' + InHands(b)' + AmongDead(b)' + Asked(b)' + Delayed(b)' + Over(b)'
          = InQueue(b) + InHands(b) + AmongDead(b) + Asked(b) + Delayed(b) + Over(b)
    BY <1>5, <1>9, <2>1, <2>2
  <2>4. InQueue(b)' \in Nat /\ InHands(b)' \in Nat BY <1>5, <2>2
  <2>5. QED BY <1>2, <1>3, <1>4, <1>8, <1>10, <2>3, <2>4, OwnedMoves
<1>15. ASSUME NEW x \in Batches, x # b PROVE Owned(x)'
  <2>1. AmongDead(x)' = AmongDead(x) /\ Over(x)' = Over(x) BY <1>6, <1>7, <1>11, <1>15
  <2>2. QED BY <1>2, <1>3, <1>5, <2>1, OwnedSame
<1>16. QED BY <1>12, <1>13, <1>14, <1>15 DEF OwnerInv

LEMMA FrameOwner ==
  ASSUME OwnerInv, CountBacklog \/ LoopEnds \/ UNCHANGED vars
  PROVE  OwnerInv'
<1>1. UNCHANGED <<epoch, live, queue, worker, submit, delay, dead, accepted, outcome>>
  BY DEF CountBacklog, LoopEnds, vars, lifeVars, flowVars, pastVars
<1>2. NoneRevived BY <1>1 DEF NoneRevived, FirstContext
<1>3. \A x : /\ InQueue(x)' = InQueue(x) /\ InHands(x)' = InHands(x) /\ AmongDead(x)' = AmongDead(x)
             /\ Asked(x)' = Asked(x) /\ Delayed(x)' = Delayed(x) /\ Over(x)' = Over(x)
  BY <1>1, CountStays
<1>4. \A x \in Batches : Owned(x)' BY <1>1, <1>2, <1>3, OwnedSame DEF OwnerInv
<1>5. OwnerType' BY <1>1 DEF OwnerInv, OwnerType, InHand
<1>6. ContextsKnown' BY <1>1 DEF OwnerInv, ContextsKnown
<1>7. QED BY <1>4, <1>5, <1>6 DEF OwnerInv

LEMMA OwnerInit == Init => OwnerInv
<1>1. SUFFICES ASSUME Init PROVE OwnerInv OBVIOUS
<1>2. OwnerType BY <1>1 DEF Init, OwnerType, InHand, Off
<1>3. ContextsKnown BY <1>1 DEF Init, ContextsKnown
<1>4. ASSUME NEW b \in Batches PROVE Owned(b)
  <2>1. Queued(b) = {} /\ Held(b) = {} /\ DeadOf(b) = {}
    BY <1>1 DEF Init, Queued, Held, DeadOf, InHand, Off
  <2>2. Asked(b) = 0 /\ Delayed(b) = 0 /\ Over(b) = 0 BY <1>1, <1>4 DEF Init, Asked, Delayed, Over
  <2>3. InQueue(b) = 0 /\ InHands(b) = 0 /\ AmongDead(b) = 0
    BY <2>1, FS_EmptySet DEF InQueue, InHands, AmongDead
  <2>4. Copies(b) = 0 BY <2>2, <2>3, CopiesSum
  <2>5. b \notin accepted BY <1>1 DEF Init
  <2>6. QED BY <2>2, <2>4, <2>5 DEF Owned
<1>5. QED BY <1>2, <1>3, <1>4 DEF OwnerInv

LEMMA OwnerStep == SemaphoreExact /\ OwnerInv /\ [Next]_vars => OwnerInv'
<1>1. SUFFICES ASSUME SemaphoreExact, OwnerInv, [Next]_vars PROVE OwnerInv' OBVIOUS
<1>2. CASE \E c \in Callers : CallerNext(c) BY <1>1, <1>2, CallerOwner
<1>3. CASE \E b \in Batches : SubmitCheck(b) \/ BatchNext(b)
  BY <1>1, <1>3, SubmitOwner, RetryOwner DEF BatchNext
<1>4. CASE \E w \in Workers : WorkerNext(w)
  BY <1>1, <1>4, TakeOwner, GoOnOwner, EndOwner DEF WorkerNext
<1>5. CASE CountBacklog \/ LoopEnds \/ UNCHANGED vars BY <1>1, <1>5, FrameOwner
<1>6. CASE HandleDeadLetter BY <1>1, <1>6, DeadLetterOwner
<1>7. QED BY <1>1, <1>2, <1>3, <1>4, <1>5, <1>6 DEF Next

\* However SubmitBatch, the workers, the retry goroutines, the dead letters and
\* a controller that is stopped, started or resized interleave, a batch is in
\* one place at most, and nowhere once it is over with: it is never loaded by
\* two workers at once, nor again after it was loaded.
THEOREM OwnerSafety == Spec => []OneOwner
<1>1. OwnerInv => OneOwner BY DEF OwnerInv, Owned, OneOwner, Over
<1>2. QED BY <1>1, OwnerInit, OwnerStep, SemaphoreInit, SemaphoreStep, PTL DEF Spec

\* While the first context lives, a batch that SubmitBatch has accepted is in
\* the queue, with a worker, with its retry or among the dead letters, or it
\* has an outcome: no failure, refusal or full queue makes it disappear.
THEOREM NothingLost == Spec => []NothingForgotten
<1>1. SemaphoreExact /\ OwnerInv => NothingForgotten
  <2>1. SUFFICES ASSUME SemaphoreExact, OwnerInv, epoch = 1, live, NEW b \in accepted
                 PROVE  Copies(b) = 1 \/ outcome[b] # "none"
    BY DEF NothingForgotten
  <2>2. b \in Batches /\ OwnerType /\ QueueType /\ Owned(b)
    BY <2>1 DEF OwnerInv, OwnerType, SemaphoreExact
  <2>3. Copies(b) + Over(b) = 1 BY <2>1, <2>2, Zenon DEF Owned
  <2>4. CASE outcome[b] = "none"
    <3>1. Over(b) = 0 BY <2>4 DEF Over
    <3>2. Copies(b) \in Nat BY <2>2, CopiesSum, OwnedPlace
    <3>3. QED BY <2>3, <3>1, <3>2
  <2>5. QED BY <2>4
<1>2. QED BY <1>1, OwnerInit, OwnerStep, SemaphoreInit, SemaphoreStep, PTL DEF Spec
=============================================================================
