----------------------- MODULE ExecutionEngineProofs -----------------------
(***************************************************************************)
(* The engine's semaphores and answers, for any number of tasks, of        *)
(* workers of either kind, and of starts and stops.                        *)
(***************************************************************************)
EXTENDS ExecutionEngine, FiniteSetTheorems, SequenceTheorems, TLAPS

Points == {"off", "idle", "acquire", "execute", "answer", "close"}

\* The types the arguments below rest on.
EngineType ==
  /\ started \in BOOLEAN /\ stopped \in BOOLEAN /\ closed \in BOOLEAN
  /\ starts \in 0..MaxStarts
  /\ caller \in [Callers -> {"none", "signal", "wait", "panic"}]
  /\ queue \in [Kinds -> Seq(Tasks)] /\ sem \in [Kinds -> Nat]
  /\ worker \in [Workers -> [at : Points, task : Tasks \cup {None}]]
  /\ call \in [Tasks -> {"new", "submit", "wait", "returned"}] /\ ctxDone \subseteq Tasks
  /\ channel \in [Tasks -> [result : Slot, err : Slot]]
  /\ answer \in [Tasks -> Answers] /\ outcome \in [Tasks -> Outcomes]

QueueFits == \A k \in Kinds : Len(queue[k]) <= QueueSize[k]

Executing(k) == {w \in Workers : KindOf[w] = k /\ worker[w].at = "execute"}

\* The semaphore of a kind counts the workers that are with the service.
SemaphoreExact ==
  \A k \in Kinds : sem[k] = Cardinality(Executing(k)) /\ sem[k] <= MaxConcurrent[k]

HandsMatch == \A w \in Workers : InHand(w) <=> worker[w].task # None

LimitInv == EngineType /\ QueueFits /\ SemaphoreExact /\ HandsMatch

LEMMA ExecutingFinite ==
  ASSUME NEW k
  PROVE  IsFiniteSet(Executing(k)) /\ Cardinality(Executing(k)) \in Nat
  BY EngineAssumption, FS_Subset, FS_CardinalityType DEF Executing

LEMMA KindsOfMembers ==
  /\ \A t \in Tasks : KindOf[t] \in Kinds
  /\ \A w \in Workers : KindOf[w] \in Kinds
  BY EngineAssumption

LEMMA Records ==
  /\ Off \in [at : Points, task : Tasks \cup {None}]
  /\ Free \in [at : Points, task : Tasks \cup {None}]
  /\ Empty \in Slot
  /\ Off.at = "off" /\ Off.task = None /\ Free.at = "idle" /\ Free.task = None
  /\ Empty.full = FALSE /\ Empty.closed = FALSE
  BY DEF Off, Free, Empty, Points, Slot

LEMMA InitLimit == Init => LimitInv
<1> SUFFICES ASSUME Init PROVE LimitInv
  OBVIOUS
<1>1. EngineType
  <2>1. queue \in [Kinds -> Seq(Tasks)] /\ sem \in [Kinds -> Nat] BY DEF Init
  <2>2. worker \in [Workers -> [at : Points, task : Tasks \cup {None}]]
    BY Records DEF Init
  <2>3. channel \in [Tasks -> [result : Slot, err : Slot]] BY Records DEF Init
  <2>4. starts \in 0..MaxStarts BY EngineAssumption DEF Init
  <2>5. answer \in [Tasks -> Answers] /\ outcome \in [Tasks -> Outcomes]
    BY DEF Init, Answers, Outcomes
  <2>6. QED BY <2>1, <2>2, <2>3, <2>4, <2>5 DEF Init, EngineType
<1>2. QueueFits BY EngineAssumption DEF Init, QueueFits
<1>3. SemaphoreExact
  <2>1. \A k : Executing(k) = {} BY DEF Init, Executing, Off
  <2>2. \A k : Cardinality(Executing(k)) = 0 BY <2>1, FS_EmptySet
  <2>3. \A k \in Kinds : sem[k] = 0 /\ 0 <= MaxConcurrent[k] BY EngineAssumption DEF Init
  <2>4. QED BY <2>2, <2>3 DEF SemaphoreExact
<1>4. HandsMatch BY DEF Init, HandsMatch, InHand, Off
<1>5. QED BY <1>1, <1>2, <1>3, <1>4 DEF LimitInv

LEMMA StopKeeps ==
  ASSUME LimitInv, NEW c \in Callers, StopBegin(c) \/ StopSignal(c) \/ StopClose(c)
  PROVE  LimitInv'
<1>1. UNCHANGED <<queue, sem, worker, starts, call, ctxDone, answer, channel, outcome>>
  BY DEF StopBegin, StopSignal, StopClose, poolVars, callVars
<1>2. EngineType'
  BY <1>1 DEF LimitInv, EngineType, StopBegin, StopSignal, StopClose
<1>3. (QueueFits /\ SemaphoreExact /\ HandsMatch)'
  BY <1>1 DEF LimitInv, QueueFits, SemaphoreExact, Executing, HandsMatch, InHand
<1>4. QED BY <1>2, <1>3 DEF LimitInv

LEMMA StartKeeps ==
  ASSUME LimitInv, NEW c \in Callers, Start(c)
  PROVE  LimitInv'
<1>1. PICK new \in SUBSET {w \in Workers : worker[w] = Off} :
        worker' = [w \in Workers |-> IF w \in new THEN Free ELSE worker[w]]
  BY DEF Start, StartWorkerPools
<1>2. UNCHANGED <<stopped, closed, caller, queue, sem, call, ctxDone, answer, channel, outcome>>
      /\ started' = TRUE /\ starts' = starts + 1 /\ starts < MaxStarts
  BY DEF Start, callVars
<1>3. EngineType'
  <2>1. worker' \in [Workers -> [at : Points, task : Tasks \cup {None}]]
    BY <1>1, Records DEF LimitInv, EngineType
  <2>2. starts' \in 0..MaxStarts
    BY <1>2, EngineAssumption DEF LimitInv, EngineType
  <2>3. QED BY <1>2, <2>1, <2>2 DEF LimitInv, EngineType
<1>4. SemaphoreExact'
  <2>1. \A k : Executing(k)' = Executing(k) BY <1>1, Records DEF Executing
  <2>2. QED BY <1>2, <2>1 DEF LimitInv, SemaphoreExact
<1>5. QueueFits' BY <1>2 DEF LimitInv, QueueFits
<1>6. HandsMatch' BY <1>1, Records DEF LimitInv, HandsMatch, InHand
<1>7. QED BY <1>3, <1>4, <1>5, <1>6 DEF LimitInv

\* The steps of the callers touch the queue only.
LEMMA CallKeeps ==
  ASSUME LimitInv, NEW t \in Tasks, CallNext(t) \/ ContextDone(t)
  PROVE  LimitInv'
<1>1. UNCHANGED <<started, stopped, closed, starts, caller, sem, worker, channel, outcome>>
  BY DEF CallNext, Plan, PlanFails, Submit, SubmitFails, Receive, ContextDone, lifeVars, poolVars
<1>2. queue' \in [Kinds -> Seq(Tasks)] /\ QueueFits'
  <2>1. CASE Submit(t)
    <3> DEFINE k == KindOf[t]
    <3>1. k \in Kinds /\ queue[k] \in Seq(Tasks) /\ Len(queue[k]) < QueueSize[k]
      BY <2>1, KindsOfMembers DEF Submit, HasRoom, LimitInv, EngineType
    <3>2. queue' = [queue EXCEPT ![k] = Append(queue[k], t)]
      BY <2>1 DEF Submit
    <3>3. Append(queue[k], t) \in Seq(Tasks) /\ Len(Append(queue[k], t)) = Len(queue[k]) + 1
      BY <3>1, AppendProperties
    <3>4. Len(queue[k]) \in Nat /\ QueueSize[k] \in Nat
      BY <3>1, EngineAssumption, LenProperties
    <3> HIDE DEF k
    <3>5. queue' \in [Kinds -> Seq(Tasks)]
      BY <3>1, <3>2, <3>3 DEF LimitInv, EngineType
    <3>6. QueueFits'
      BY <3>1, <3>2, <3>3, <3>4 DEF LimitInv, EngineType, QueueFits
    <3>7. QED BY <3>5, <3>6
  <2>2. CASE UNCHANGED queue
    BY <2>2 DEF LimitInv, EngineType, QueueFits
  <2>3. QED
    BY <2>1, <2>2 DEF CallNext, Plan, PlanFails, SubmitFails, Receive, ContextDone, poolVars
<1>3. call' \in [Tasks -> {"new", "submit", "wait", "returned"}] /\ answer' \in [Tasks -> Answers]
  BY DEF LimitInv, EngineType, CallNext, Plan, PlanFails, Submit, SubmitFails, Receive, ContextDone,
         Return, Answers
<1>4. ctxDone' \subseteq Tasks
  BY DEF LimitInv, EngineType, CallNext, Plan, PlanFails, Submit, SubmitFails, Receive, ContextDone,
         callVars
<1>5. (SemaphoreExact /\ HandsMatch)'
  BY <1>1 DEF LimitInv, SemaphoreExact, Executing, HandsMatch, InHand
<1>6. QED BY <1>1, <1>2, <1>3, <1>4, <1>5 DEF LimitInv, EngineType

\* A worker that neither enters nor leaves the service keeps the semaphore.
LEMMA SemaphoreFrame ==
  ASSUME LimitInv, NEW w \in Workers, UNCHANGED sem, NEW r,
         worker' = [worker EXCEPT ![w] = r],
         worker[w].at # "execute", r.at # "execute"
  PROVE  SemaphoreExact'
<1>1. \A k : Executing(k)' = Executing(k) BY DEF Executing, LimitInv, EngineType
<1>2. QED BY <1>1 DEF LimitInv, SemaphoreExact

LEMMA AcquireKeeps ==
  ASSUME LimitInv, NEW w \in Workers, Acquire(w)
  PROVE  SemaphoreExact'
<1> DEFINE k == KindOf[w]
<1>1. k \in Kinds BY KindsOfMembers
<1>2. w \notin Executing(k) /\ Executing(k)' = Executing(k) \cup {w}
  BY DEF Acquire, Executing, LimitInv, EngineType
<1>3. \A l \in Kinds \ {k} : Executing(l)' = Executing(l)
  BY DEF Acquire, Executing, LimitInv, EngineType
<1>4. Cardinality(Executing(k) \cup {w}) = Cardinality(Executing(k)) + 1
  BY <1>2, ExecutingFinite, FS_AddElement
<1>5. sem' = [sem EXCEPT ![k] = sem[k] + 1] /\ sem[k] < MaxConcurrent[k]
  BY DEF Acquire, Acquirable
<1>6. sem \in [Kinds -> Nat] /\ MaxConcurrent \in [Kinds -> Nat]
  BY EngineAssumption DEF LimitInv, EngineType
<1> HIDE DEF k
<1>7. Cardinality(Executing(k)') = sem[k] + 1
  BY <1>1, <1>2, <1>4 DEF LimitInv, SemaphoreExact
<1>8. sem'[k] = sem[k] + 1 /\ sem[k] + 1 <= MaxConcurrent[k]
  BY <1>1, <1>5, <1>6
<1>9. \A l \in Kinds \ {k} : sem'[l] = sem[l] BY <1>5, <1>6
<1>10. QED BY <1>3, <1>7, <1>8, <1>9 DEF LimitInv, SemaphoreExact

LEMMA ExecuteKeeps ==
  ASSUME LimitInv, NEW w \in Workers, Execute(w)
  PROVE  SemaphoreExact' /\ sem' \in [Kinds -> Nat]
<1> DEFINE k == KindOf[w]
<1>1. k \in Kinds BY KindsOfMembers
<1>2. w \in Executing(k) /\ Executing(k)' = Executing(k) \ {w}
  BY DEF Execute, AfterExecution, Executing, LimitInv, EngineType
<1>3. \A l \in Kinds \ {k} : Executing(l)' = Executing(l)
  BY DEF Execute, AfterExecution, Executing, LimitInv, EngineType
<1>4. Cardinality(Executing(k) \ {w}) = Cardinality(Executing(k)) - 1
      /\ Cardinality(Executing(k) \ {w}) \in Nat
  BY <1>2, ExecutingFinite, FS_RemoveElement, FS_CardinalityType
<1>5. sem' = [sem EXCEPT ![k] = sem[k] - 1] BY DEF Execute
<1>6. sem \in [Kinds -> Nat] /\ MaxConcurrent \in [Kinds -> Nat]
  BY EngineAssumption DEF LimitInv, EngineType
<1> HIDE DEF k
<1>7. QED BY <1>1, <1>2, <1>3, <1>4, <1>5, <1>6 DEF LimitInv, SemaphoreExact

LEMMA HandIsTask ==
  ASSUME LimitInv, NEW w \in Workers, InHand(w)
  PROVE  worker[w].task \in Tasks
  BY EngineAssumption DEF LimitInv, HandsMatch, EngineType

\* A worker takes the head of its queue.
LEMMA TakeGives ==
  ASSUME LimitInv, NEW w \in Workers, WorkerTake(w)
  PROVE  LET q == queue[KindOf[w]] IN
           /\ q \in Seq(Tasks) /\ q # <<>>
           /\ Head(q) \in Tasks /\ Tail(q) \in Seq(Tasks) /\ Len(Tail(q)) = Len(q) - 1
           /\ Len(q) \in Nat
<1> DEFINE q == queue[KindOf[w]]
<1>1. q \in Seq(Tasks) /\ q # <<>>
  BY KindsOfMembers DEF LimitInv, EngineType, WorkerTake
<1> HIDE DEF q
<1>2. Head(q) \in Tasks /\ Tail(q) \in Seq(Tasks) /\ Len(Tail(q)) = Len(q) - 1 /\ Len(q) \in Nat
  BY <1>1, HeadTailProperties, LenProperties
<1>3. QED BY <1>1, <1>2 DEF q

LEMMA TakeKeeps ==
  ASSUME LimitInv, NEW w \in Workers, WorkerTake(w)
  PROVE  LimitInv'
<1> DEFINE k == KindOf[w]
           q == queue[k]
           r == [at |-> "acquire", task |-> Head(q)]
<1>1. k \in Kinds BY KindsOfMembers
<1>2. /\ q \in Seq(Tasks) /\ Head(q) \in Tasks /\ Tail(q) \in Seq(Tasks)
      /\ Len(Tail(q)) = Len(q) - 1 /\ Len(q) \in Nat
  BY TakeGives
<1>3. /\ queue' = [queue EXCEPT ![k] = Tail(q)] /\ worker' = [worker EXCEPT ![w] = r]
      /\ worker[w] = Free
      /\ UNCHANGED <<lifeVars, sem, callVars, channel, outcome>>
  BY DEF WorkerTake
<1>4. r \in [at : Points, task : Tasks \cup {None}] /\ r.at = "acquire" /\ r.task # None
  BY <1>2, EngineAssumption DEF Points
<1> HIDE DEF k, q, r
<1>5. EngineType'
  <2>1. queue' \in [Kinds -> Seq(Tasks)] BY <1>1, <1>2, <1>3 DEF LimitInv, EngineType
  <2>2. worker' \in [Workers -> [at : Points, task : Tasks \cup {None}]]
    BY <1>3, <1>4 DEF LimitInv, EngineType
  <2>3. QED BY <1>3, <2>1, <2>2 DEF LimitInv, EngineType, lifeVars, callVars
<1>6. QueueFits'
  <2>1. q = queue[k] /\ Len(q) <= QueueSize[k] BY <1>1 DEF q, LimitInv, QueueFits
  <2>2. QueueSize[k] \in Nat BY <1>1, EngineAssumption
  <2>3. Len(queue'[k]) <= QueueSize[k]
    BY <1>1, <1>2, <1>3, <2>1, <2>2 DEF LimitInv, EngineType
  <2>4. QED BY <1>3, <2>3 DEF LimitInv, EngineType, QueueFits
<1>7. SemaphoreExact'
  BY <1>3, <1>4, Records, SemaphoreFrame
<1>8. HandsMatch'
  BY <1>3, <1>4 DEF LimitInv, HandsMatch, InHand, EngineType
<1>9. QED BY <1>5, <1>6, <1>7, <1>8 DEF LimitInv

Pair == [result : Slot, err : Slot]

\* Filling or closing one channel of a pair leaves the other one alone.
LEMMA SlotFilled ==
  ASSUME NEW ch \in [Tasks -> Pair], NEW t \in Tasks, NEW a \in {"result", "err"}
  PROVE  LET new == [ch EXCEPT ![t][a].full = TRUE] IN
           /\ new \in [Tasks -> Pair]
           /\ \A u \in Tasks \ {t} : new[u] = ch[u]
           /\ new[t][a].full = TRUE /\ new[t][a].closed = ch[t][a].closed
           /\ \A b \in {"result", "err"} \ {a} : new[t][b] = ch[t][b]
<1> DEFINE s == [ch[t][a] EXCEPT !.full = TRUE]
           r == [ch[t] EXCEPT ![a] = s]
<1>1. ch[t] \in Pair OBVIOUS
<1>2. ch[t][a] \in Slot BY <1>1 DEF Pair
<1>3. s \in Slot /\ s.full = TRUE /\ s.closed = ch[t][a].closed BY <1>2 DEF Slot
<1> HIDE DEF s
<1>4. /\ r \in Pair /\ r[a] = s
      /\ \A b \in {"result", "err"} \ {a} : r[b] = ch[t][b]
  BY <1>1, <1>3 DEF Pair
<1> HIDE DEF r
<1>5. [ch EXCEPT ![t][a].full = TRUE] = [ch EXCEPT ![t] = r] BY DEF r, s
<1>6. QED BY <1>3, <1>4, <1>5

LEMMA SlotClosed ==
  ASSUME NEW ch \in [Tasks -> Pair], NEW t \in Tasks, NEW a \in {"result", "err"}
  PROVE  LET new == [ch EXCEPT ![t][a].closed = TRUE] IN
           /\ new \in [Tasks -> Pair]
           /\ \A u \in Tasks \ {t} : new[u] = ch[u]
           /\ new[t][a].closed = TRUE /\ new[t][a].full = ch[t][a].full
           /\ \A b \in {"result", "err"} \ {a} : new[t][b] = ch[t][b]
<1> DEFINE s == [ch[t][a] EXCEPT !.closed = TRUE]
           r == [ch[t] EXCEPT ![a] = s]
<1>1. ch[t] \in Pair OBVIOUS
<1>2. ch[t][a] \in Slot BY <1>1 DEF Pair
<1>3. s \in Slot /\ s.closed = TRUE /\ s.full = ch[t][a].full BY <1>2 DEF Slot
<1> HIDE DEF s
<1>4. /\ r \in Pair /\ r[a] = s
      /\ \A b \in {"result", "err"} \ {a} : r[b] = ch[t][b]
  BY <1>1, <1>3 DEF Pair
<1> HIDE DEF r
<1>5. [ch EXCEPT ![t][a].closed = TRUE] = [ch EXCEPT ![t] = r] BY DEF r, s
<1>6. QED BY <1>3, <1>4, <1>5

\* Every other step of a worker leaves the queues alone.
LEMMA WorkerKeeps ==
  ASSUME LimitInv, NEW w \in Workers, WorkerNext(w)
  PROVE  LimitInv'
<1>1. CASE WorkerTake(w) BY <1>1, TakeKeeps
<1>2. CASE ~WorkerTake(w)
  <2>1. UNCHANGED <<started, stopped, closed, starts, caller, queue, call, ctxDone, answer>>
    BY <1>2 DEF WorkerNext, WorkerExit, Acquire, AcquireFails, Execute, Send, CloseOther,
                lifeVars, callVars
  <2>2. CASE WorkerExit(w)
    <3>1. worker' = [worker EXCEPT ![w] = Off] /\ UNCHANGED <<sem, channel, outcome>>
      BY <2>2 DEF WorkerExit
    <3>2. SemaphoreExact' BY <2>2, <3>1, Records, SemaphoreFrame DEF WorkerExit
    <3>3. HandsMatch' BY <3>1, Records DEF LimitInv, HandsMatch, InHand, EngineType
    <3>4. EngineType' BY <2>1, <3>1, Records DEF LimitInv, EngineType
    <3>5. QED BY <2>1, <3>2, <3>3, <3>4 DEF LimitInv, QueueFits
  <2>3. CASE Acquire(w)
    <3>1. SemaphoreExact' BY <2>3, AcquireKeeps
    <3>2. HandsMatch' BY <2>3 DEF Acquire, LimitInv, HandsMatch, InHand, EngineType
    <3>3. sem' \in [Kinds -> Nat]
      BY <2>3, KindsOfMembers DEF Acquire, LimitInv, EngineType
    <3>4. worker' \in [Workers -> [at : Points, task : Tasks \cup {None}]]
      BY <2>3 DEF Acquire, LimitInv, EngineType, Points
    <3>5. EngineType' BY <2>1, <2>3, <3>3, <3>4 DEF Acquire, LimitInv, EngineType
    <3>6. QED BY <2>1, <3>1, <3>2, <3>5 DEF LimitInv, QueueFits
  <2>4. CASE AcquireFails(w)
    <3>1. worker' = [worker EXCEPT ![w] = [worker[w] EXCEPT !.at = "answer"]]
          /\ [worker[w] EXCEPT !.at = "answer"].at = "answer" /\ UNCHANGED <<sem, channel>>
          /\ [worker[w] EXCEPT !.at = "answer"] \in [at : Points, task : Tasks \cup {None}]
      BY <2>4 DEF AcquireFails, LimitInv, EngineType, Points
    <3>2. SemaphoreExact' BY <2>4, <3>1, SemaphoreFrame DEF AcquireFails
    <3>3. HandsMatch' BY <2>4, <3>1 DEF AcquireFails, LimitInv, HandsMatch, InHand, EngineType
    <3>4. outcome' \in [Tasks -> Outcomes]
      BY <2>4 DEF AcquireFails, LimitInv, EngineType, Outcomes
    <3>5. EngineType' BY <2>1, <3>1, <3>4 DEF LimitInv, EngineType
    <3>6. QED BY <2>1, <3>2, <3>3, <3>5 DEF LimitInv, QueueFits
  <2>5. CASE Execute(w)
    <3>1. SemaphoreExact' /\ sem' \in [Kinds -> Nat] BY <2>5, ExecuteKeeps
    <3>2. HandsMatch'
      BY <2>5 DEF Execute, AfterExecution, LimitInv, HandsMatch, InHand, EngineType
    <3>3. worker' \in [Workers -> [at : Points, task : Tasks \cup {None}]]
      BY <2>5 DEF Execute, AfterExecution, LimitInv, EngineType, Points
    <3>4. outcome' \in [Tasks -> Outcomes]
      BY <2>5 DEF Execute, LimitInv, EngineType, Outcomes
    <3>5. EngineType' BY <2>1, <2>5, <3>1, <3>3, <3>4 DEF Execute, LimitInv, EngineType
    <3>6. QED BY <2>1, <3>1, <3>2, <3>5 DEF LimitInv, QueueFits
  <2>6. CASE Send(w)
    <3>1. worker' = [worker EXCEPT ![w] = [worker[w] EXCEPT !.at = "close"]]
          /\ [worker[w] EXCEPT !.at = "close"].at = "close" /\ UNCHANGED <<sem, outcome>>
          /\ [worker[w] EXCEPT !.at = "close"] \in [at : Points, task : Tasks \cup {None}]
      BY <2>6 DEF Send, LimitInv, EngineType, Points
    <3>2. SemaphoreExact' BY <2>6, <3>1, SemaphoreFrame DEF Send
    <3>3. HandsMatch' BY <2>6, <3>1 DEF Send, LimitInv, HandsMatch, InHand, EngineType
    <3>4. channel' \in [Tasks -> [result : Slot, err : Slot]]
      <4>1. worker[w].task \in Tasks BY <2>6, HandIsTask DEF Send, InHand
      <4>2. PICK a \in {"result", "err"} :
              channel' = [channel EXCEPT ![worker[w].task][a].full = TRUE]
        BY <2>6 DEF Send, AnswersOn
      <4>3. channel \in [Tasks -> Pair] BY DEF LimitInv, EngineType, Pair
      <4>4. channel' \in [Tasks -> Pair] BY <4>1, <4>2, <4>3, SlotFilled
      <4>5. QED BY <4>4 DEF Pair
    <3>5. EngineType' BY <2>1, <3>1, <3>4 DEF LimitInv, EngineType
    <3>6. QED BY <2>1, <3>2, <3>3, <3>5 DEF LimitInv, QueueFits
  <2>7. CASE CloseOther(w)
    <3>1. worker' = [worker EXCEPT ![w] = Free] /\ UNCHANGED <<sem, outcome>>
      BY <2>7 DEF CloseOther
    <3>2. SemaphoreExact' BY <2>7, <3>1, Records, SemaphoreFrame DEF CloseOther
    <3>3. HandsMatch' BY <3>1, Records DEF LimitInv, HandsMatch, InHand, EngineType
    <3>4. channel' \in [Tasks -> [result : Slot, err : Slot]]
      <4>1. worker[w].task \in Tasks BY <2>7, HandIsTask DEF CloseOther, InHand
      <4>2. PICK a \in {"result", "err"} :
              channel' = [channel EXCEPT ![worker[w].task][a].closed = TRUE]
        BY <2>7 DEF CloseOther, Other, AnswersOn
      <4>3. channel \in [Tasks -> Pair] BY DEF LimitInv, EngineType, Pair
      <4>4. channel' \in [Tasks -> Pair] BY <4>1, <4>2, <4>3, SlotClosed
      <4>5. QED BY <4>4 DEF Pair
    <3>5. EngineType' BY <2>1, <3>1, <3>4, Records DEF LimitInv, EngineType
    <3>6. QED BY <2>1, <3>2, <3>3, <3>5 DEF LimitInv, QueueFits
  <2>8. QED BY <1>2, <2>2, <2>3, <2>4, <2>5, <2>6, <2>7 DEF WorkerNext
<1>3. QED BY <1>1, <1>2

LEMMA NextLimit == LimitInv /\ [Next]_vars => LimitInv'
<1> SUFFICES ASSUME LimitInv, [Next]_vars PROVE LimitInv'
  OBVIOUS
<1>1. ASSUME NEW c \in Callers, Start(c) \/ StopBegin(c) \/ StopSignal(c) \/ StopClose(c)
      PROVE  LimitInv'
  <2>1. CASE Start(c) BY <2>1, StartKeeps
  <2>2. CASE StopBegin(c) \/ StopSignal(c) \/ StopClose(c) BY <2>2, StopKeeps
  <2>3. QED BY <1>1, <2>1, <2>2
<1>2. ASSUME NEW t \in Tasks, CallNext(t) \/ ContextDone(t) PROVE LimitInv'
  BY <1>2, CallKeeps
<1>3. ASSUME NEW w \in Workers, WorkerNext(w) PROVE LimitInv'
  BY <1>3, WorkerKeeps
<1>4. CASE UNCHANGED vars
  <2>1. EngineType'
    BY <1>4 DEF vars, lifeVars, poolVars, callVars, LimitInv, EngineType
  <2>2. (QueueFits /\ SemaphoreExact /\ HandsMatch)'
    BY <1>4 DEF vars, poolVars, LimitInv, QueueFits, SemaphoreExact, Executing, HandsMatch, InHand
  <2>3. QED BY <2>1, <2>2 DEF LimitInv
<1>5. QED BY <1>1, <1>2, <1>3, <1>4 DEF Next

\* Every variable of the engine stays in its range, and no queue holds more
\* than it was made for.
THEOREM TypeCorrect == Spec => []TypeOK
<1>1. LimitInv => TypeOK
  BY DEF LimitInv, EngineType, QueueFits, HandsMatch, Points, TypeOK
<1>2. QED BY <1>1, InitLimit, NextLimit, PTL DEF Spec

\* The semaphores bound what is with the services (executeQueryTask and
\* executeWriteTask), through timeouts, cancellations, stops and restarts.
THEOREM ConcurrencyBounded == Spec => []ExecutingWithinLimit
<1>1. LimitInv => ExecutingWithinLimit
  BY DEF LimitInv, SemaphoreExact, Executing, ExecutingWithinLimit
<1>2. QED BY <1>1, InitLimit, NextLimit, PTL DEF Spec

-----------------------------------------------------------------------------
(* What a caller is told is what the service did.  A task is in one place:  *)
(* not submitted yet or refused, in a queue, in the hands of a worker, or   *)
(* settled; while it is in the first two the service has not answered.      *)

QueuedOnce ==
  \A k, l \in Kinds : \A i \in 1..Len(queue[k]), j \in 1..Len(queue[l]) :
    queue[k][i] = queue[l][j] => k = l /\ i = j

\* t has been submitted, and no worker has taken it yet.
Untouched(t) == outcome[t] = "none" /\ \A w \in Workers : worker[w].task # t

QueuedUntouched ==
  \A k \in Kinds : \A i \in 1..Len(queue[k]) :
    /\ Untouched(queue[k][i])
    /\ call[queue[k][i]] \notin {"new", "submit"}
    /\ answer[queue[k][i]] \notin {"refused", "panic"}

UnsubmittedUntouched ==
  \A t \in Tasks : call[t] \in {"new", "submit"} \/ answer[t] \in {"refused", "panic"} => Untouched(t)

HeldOnce ==
  \A v, w \in Workers : InHand(v) /\ worker[v].task = worker[w].task => v = w

HandOutcome ==
  \A w \in Workers :
    /\ worker[w].at \in {"acquire", "execute"} => outcome[worker[w].task] = "none"
    /\ worker[w].at \in {"answer", "close"} => outcome[worker[w].task] \in {"ok", "err"}

ChannelTells ==
  \A t \in Tasks :
    /\ channel[t].result.full => outcome[t] = "ok"
    /\ channel[t].err.closed => outcome[t] = "ok"
    /\ channel[t].err.full => outcome[t] = "err"
    /\ channel[t].result.closed => outcome[t] = "err"

Unanswered == \A t \in Tasks : call[t] # "returned" => answer[t] = "none"

PlaceInv == QueuedOnce /\ QueuedUntouched /\ UnsubmittedUntouched /\ HeldOnce
TellInv == HandOutcome /\ ChannelTells /\ Unanswered /\ AnswerTellsOutcome
AnswerInv == PlaceInv /\ TellInv

LEMMA QueuedOnceFrame ==
  ASSUME QueuedOnce, UNCHANGED queue
  PROVE  QueuedOnce'
  BY DEF QueuedOnce

LEMMA InitAnswer == Init => AnswerInv
<1> SUFFICES ASSUME Init PROVE AnswerInv
  OBVIOUS
<1>1. \A k \in Kinds : Len(queue[k]) = 0 BY DEF Init
<1>2. PlaceInv
  BY <1>1, Records, EngineAssumption
  DEF Init, PlaceInv, QueuedOnce, QueuedUntouched, UnsubmittedUntouched, HeldOnce, Untouched, InHand
<1>3. TellInv
  BY Records DEF Init, TellInv, HandOutcome, ChannelTells, Unanswered, AnswerTellsOutcome
<1>4. QED BY <1>2, <1>3 DEF AnswerInv

\* What is said about the queues, from what is said about their elements.
LEMMA QueueElements ==
  ASSUME LimitInv, NEW k \in Kinds
  PROVE  /\ Len(queue[k]) \in Nat
         /\ \A i \in 1..Len(queue[k]) : queue[k][i] \in Tasks
<1>1. queue[k] \in Seq(Tasks) BY DEF LimitInv, EngineType
<1>2. QED BY <1>1, LenProperties, ElementOfSeq

\* A worker keeps what it has in hand, or has nothing before and after.
SameHand(w) ==
  /\ worker'[w].task = worker[w].task
  /\ worker'[w].at = worker[w].at \/ {worker'[w].at, worker[w].at} \subseteq {"off", "idle"}

\* Steps that leave queues, hands and answers alone.
LEMMA AnswerFrame ==
  ASSUME AnswerInv, UNCHANGED <<queue, call, answer, channel, outcome>>,
         \A w \in Workers : SameHand(w)
  PROVE  AnswerInv'
<1>1. \A w \in Workers : worker'[w].task = worker[w].task /\ (InHand(w)' <=> InHand(w))
  BY DEF InHand, SameHand
<1>2. \A t : Untouched(t)' <=> Untouched(t) BY <1>1 DEF Untouched
<1>3. PlaceInv'
  BY <1>1, <1>2
  DEF AnswerInv, PlaceInv, QueuedOnce, QueuedUntouched, UnsubmittedUntouched, HeldOnce
<1>4. HandOutcome'
  BY <1>1 DEF AnswerInv, TellInv, HandOutcome, SameHand
<1>5. (ChannelTells /\ Unanswered /\ AnswerTellsOutcome)'
  BY DEF AnswerInv, TellInv, ChannelTells, Unanswered, AnswerTellsOutcome
<1>6. QED BY <1>3, <1>4, <1>5 DEF AnswerInv, TellInv

LEMMA CallerAnswers ==
  ASSUME LimitInv, AnswerInv, NEW c \in Callers,
         Start(c) \/ StopBegin(c) \/ StopSignal(c) \/ StopClose(c)
  PROVE  AnswerInv'
<1>1. CASE Start(c)
  <2>1. \E new \in SUBSET {w \in Workers : worker[w] = Off} :
          worker' = [w \in Workers |-> IF w \in new THEN Free ELSE worker[w]]
    BY <1>1 DEF Start, StartWorkerPools
  <2>2. \A w \in Workers : SameHand(w) BY <2>1, Records DEF SameHand
  <2>3. QED BY <1>1, <2>2, AnswerFrame DEF Start, callVars
<1>2. CASE StopBegin(c) \/ StopSignal(c) \/ StopClose(c)
  BY <1>2, AnswerFrame DEF StopBegin, StopSignal, StopClose, poolVars, callVars, SameHand
<1>3. QED BY <1>1, <1>2

\* A call that returns says what the channels say, or that it was refused when
\* nobody has touched its task.
LEMMA ReturnAnswers ==
  ASSUME LimitInv, AnswerInv, NEW t \in Tasks, NEW a \in Answers, Return(t, a),
         UNCHANGED <<queue, worker, channel, outcome>>,
         call[t] # "returned",
         a \in {"refused", "panic"} => call[t] \in {"new", "submit"},
         a \in {"result", "nothing"} => outcome[t] = "ok",
         a \in {"error", "nil result"} => outcome[t] = "err"
  PROVE  AnswerInv'
<1>1. /\ call' = [call EXCEPT ![t] = "returned"] /\ answer' = [answer EXCEPT ![t] = a]
      /\ call \in [Tasks -> {"new", "submit", "wait", "returned"}] /\ answer \in [Tasks -> Answers]
  BY DEF Return, LimitInv, EngineType
<1>2. \A u : Untouched(u)' <=> Untouched(u) BY DEF Untouched
<1>3. a \in {"refused", "panic"} => Untouched(t)
  BY DEF AnswerInv, PlaceInv, UnsubmittedUntouched
<1>4. QueuedUntouched'
  <2> SUFFICES ASSUME NEW k \in Kinds, NEW i \in 1..Len(queue[k])
               PROVE  /\ Untouched(queue[k][i])
                      /\ call'[queue[k][i]] \notin {"new", "submit"}
                      /\ answer'[queue[k][i]] \notin {"refused", "panic"}
    BY <1>2 DEF QueuedUntouched
  <2> DEFINE u == queue[k][i]
  <2>1. u \in Tasks BY QueueElements
  <2>2. Untouched(u) /\ call[u] \notin {"new", "submit"} /\ answer[u] \notin {"refused", "panic"}
    BY DEF AnswerInv, PlaceInv, QueuedUntouched
  <2> HIDE DEF u
  <2>3. call'[u] \notin {"new", "submit"} /\ answer'[u] \notin {"refused", "panic"}
    BY <1>1, <2>1, <2>2
  <2>4. QED BY <2>2, <2>3 DEF u
<1>5. UnsubmittedUntouched'
  BY <1>1, <1>2, <1>3 DEF AnswerInv, PlaceInv, UnsubmittedUntouched
<1>6. QueuedOnce'
  BY QueuedOnceFrame DEF AnswerInv, PlaceInv
<1>11. HeldOnce' BY DEF AnswerInv, PlaceInv, HeldOnce, InHand
<1>10. (HandOutcome /\ ChannelTells)' BY DEF AnswerInv, TellInv, HandOutcome, ChannelTells
<1>7. Unanswered' BY <1>1 DEF AnswerInv, TellInv, Unanswered
<1>8. AnswerTellsOutcome'
  BY <1>1, <1>3 DEF AnswerInv, TellInv, AnswerTellsOutcome, Untouched
<1>9. QED BY <1>4, <1>5, <1>6, <1>7, <1>8, <1>10, <1>11 DEF AnswerInv, PlaceInv, TellInv

LEMMA SubmitAnswers ==
  ASSUME LimitInv, AnswerInv, NEW t \in Tasks, Submit(t)
  PROVE  AnswerInv'
<1> DEFINE k == KindOf[t]
<1>1. k \in Kinds /\ queue \in [Kinds -> Seq(Tasks)]
  BY KindsOfMembers DEF LimitInv, EngineType
<1>2. /\ queue' = [queue EXCEPT ![k] = Append(queue[k], t)]
      /\ call' = [call EXCEPT ![t] = "wait"] /\ call[t] = "submit"
      /\ UNCHANGED <<worker, answer, channel, outcome>>
  BY DEF Submit
<1> HIDE DEF k
<1>3. /\ Len(queue'[k]) = Len(queue[k]) + 1 /\ Len(queue[k]) \in Nat
      /\ \A i \in 1..Len(queue[k]) : queue'[k][i] = queue[k][i]
      /\ queue'[k][Len(queue[k]) + 1] = t
  <2>1. queue[k] \in Seq(Tasks) BY <1>1
  <2>2. queue'[k] = Append(queue[k], t) BY <1>1, <1>2
  <2>3. QED BY <2>1, <2>2, AppendProperties, LenProperties
<1>4. \A l \in Kinds \ {k} : queue'[l] = queue[l] BY <1>1, <1>2
<1>5. \A l \in Kinds : \A i \in 1..Len(queue'[l]) :
        \/ i \in 1..Len(queue[l]) /\ queue'[l][i] = queue[l][i]
        \/ l = k /\ i = Len(queue[k]) + 1 /\ queue'[l][i] = t
  BY <1>3, <1>4
<1>6. \A u : Untouched(u)' <=> Untouched(u) BY <1>2 DEF Untouched
<1>7. Untouched(t) /\ answer[t] = "none"
  BY <1>2 DEF AnswerInv, PlaceInv, TellInv, UnsubmittedUntouched, Unanswered
<1>8. \A l \in Kinds : \A i \in 1..Len(queue[l]) : queue[l][i] # t /\ queue[l][i] \in Tasks
  BY <1>2, QueueElements DEF AnswerInv, PlaceInv, QueuedUntouched
<1>9. QueuedOnce'
  <2>1. QueuedOnce BY DEF AnswerInv, PlaceInv
  <2>2. SUFFICES ASSUME NEW l \in Kinds, NEW m \in Kinds,
                        NEW i \in 1..Len(queue'[l]), NEW j \in 1..Len(queue'[m]),
                        queue'[l][i] = queue'[m][j]
                 PROVE  l = m /\ i = j
    BY DEF QueuedOnce
  <2>3. CASE i \in 1..Len(queue[l]) /\ queue'[l][i] = queue[l][i]
    <3>1. j \in 1..Len(queue[m]) /\ queue'[m][j] = queue[m][j]
      BY <1>5, <1>8, <2>2, <2>3
    <3>2. queue[l][i] = queue[m][j] BY <2>2, <2>3, <3>1
    <3>3. QED BY <2>1, <2>3, <3>1, <3>2 DEF QueuedOnce
  <2>4. CASE l = k /\ i = Len(queue[k]) + 1 /\ queue'[l][i] = t
    <3>1. m = k /\ j = Len(queue[k]) + 1 BY <1>5, <1>8, <2>2, <2>4
    <3>2. QED BY <2>4, <3>1
  <2>5. QED BY <1>5, <2>3, <2>4
<1>10. QueuedUntouched'
  <2> SUFFICES ASSUME NEW l \in Kinds, NEW i \in 1..Len(queue'[l])
               PROVE  /\ Untouched(queue'[l][i])
                      /\ call'[queue'[l][i]] \notin {"new", "submit"}
                      /\ answer[queue'[l][i]] \notin {"refused", "panic"}
    BY <1>2, <1>6 DEF QueuedUntouched
  <2>1. CASE i \in 1..Len(queue[l]) /\ queue'[l][i] = queue[l][i]
    BY <1>2, <1>8, <2>1 DEF AnswerInv, PlaceInv, QueuedUntouched, LimitInv, EngineType
  <2>2. CASE queue'[l][i] = t
    BY <1>2, <1>7, <2>2 DEF LimitInv, EngineType
  <2>3. QED BY <1>5, <2>1, <2>2
<1>11. UnsubmittedUntouched'
  BY <1>2, <1>6 DEF AnswerInv, PlaceInv, UnsubmittedUntouched, LimitInv, EngineType
<1>12. (HeldOnce /\ TellInv)'
  BY <1>2 DEF AnswerInv, PlaceInv, TellInv, HeldOnce, HandOutcome, ChannelTells, Unanswered,
              AnswerTellsOutcome, InHand, LimitInv, EngineType
<1>13. QED BY <1>9, <1>10, <1>11, <1>12 DEF AnswerInv, PlaceInv

LEMMA CallAnswers ==
  ASSUME LimitInv, AnswerInv, NEW t \in Tasks, CallNext(t) \/ ContextDone(t)
  PROVE  AnswerInv'
<1>1. CASE Plan(t)
  <2>1. /\ call' = [call EXCEPT ![t] = "submit"] /\ call[t] = "new"
        /\ UNCHANGED <<queue, worker, answer, channel, outcome>>
    BY <1>1 DEF Plan, poolVars
  <2>2. \A u : Untouched(u)' <=> Untouched(u) BY <2>1 DEF Untouched
  <2>3. \A k \in Kinds : \A i \in 1..Len(queue[k]) : queue[k][i] # t /\ queue[k][i] \in Tasks
    BY <2>1, QueueElements DEF AnswerInv, PlaceInv, QueuedUntouched
  <2>4. QueuedUntouched'
    BY <2>1, <2>2, <2>3 DEF AnswerInv, PlaceInv, QueuedUntouched, LimitInv, EngineType
  <2>5. UnsubmittedUntouched'
    BY <2>1, <2>2 DEF AnswerInv, PlaceInv, UnsubmittedUntouched, LimitInv, EngineType
  <2>6. (QueuedOnce /\ HeldOnce)'
    BY <2>1 DEF AnswerInv, PlaceInv, QueuedOnce, HeldOnce, InHand
  <2>7. (HandOutcome /\ ChannelTells /\ AnswerTellsOutcome)'
    BY <2>1 DEF AnswerInv, TellInv, HandOutcome, ChannelTells, AnswerTellsOutcome
  <2>8. Unanswered' BY <2>1 DEF AnswerInv, TellInv, Unanswered, LimitInv, EngineType
  <2>9. QED BY <2>4, <2>5, <2>6, <2>7, <2>8 DEF AnswerInv, PlaceInv, TellInv
<1>2. CASE PlanFails(t)
  BY <1>2, ReturnAnswers DEF PlanFails, poolVars, Answers
<1>3. CASE Submit(t) BY <1>3, SubmitAnswers
<1>4. CASE SubmitFails(t)
  BY <1>4, ReturnAnswers DEF SubmitFails, poolVars, Answers
<1>5. CASE Receive(t)
  <2>1. call[t] = "wait" /\ UNCHANGED <<queue, worker, channel, outcome>>
    BY <1>5 DEF Receive, poolVars
  <2>2. ChannelTells BY DEF AnswerInv, TellInv
  <2>3. CASE \/ channel[t].result.full /\ Return(t, "result")
             \/ channel[t].err.closed /\ Return(t, "nothing")
    BY <2>1, <2>2, <2>3, ReturnAnswers DEF Answers, ChannelTells
  <2>4. CASE \/ channel[t].err.full /\ Return(t, "error")
             \/ channel[t].result.closed /\ Return(t, "nil result")
    BY <2>1, <2>2, <2>4, ReturnAnswers DEF Answers, ChannelTells
  <2>5. CASE Return(t, "ctx") BY <2>1, <2>5, ReturnAnswers DEF Answers
  <2>6. QED BY <1>5, <2>3, <2>4, <2>5 DEF Receive
<1>6. CASE ContextDone(t)
  BY <1>6, AnswerFrame DEF ContextDone, poolVars, SameHand
<1>7. QED BY <1>1, <1>2, <1>3, <1>4, <1>5, <1>6 DEF CallNext

\* The task a worker takes was in nobody's hands.
LEMMA TakeAnswers ==
  ASSUME LimitInv, AnswerInv, NEW w \in Workers, WorkerTake(w)
  PROVE  AnswerInv'
<1> DEFINE k == KindOf[w]
           t == Head(queue[k])
<1>1. k \in Kinds /\ queue \in [Kinds -> Seq(Tasks)]
  BY KindsOfMembers DEF LimitInv, EngineType
<1>2. /\ queue' = [queue EXCEPT ![k] = Tail(queue[k])] /\ queue[k] # <<>>
      /\ worker' = [worker EXCEPT ![w] = [at |-> "acquire", task |-> t]] /\ worker[w] = Free
      /\ UNCHANGED <<call, answer, channel, outcome>>
  BY DEF WorkerTake, callVars
<1>3. /\ Len(queue'[k]) = Len(queue[k]) - 1 /\ Len(queue[k]) \in Nat \ {0}
      /\ \A i \in 1..Len(queue'[k]) : queue'[k][i] = queue[k][i + 1]
      /\ t = queue[k][1] /\ t \in Tasks
  <2>1. queue[k] \in Seq(Tasks) BY <1>1
  <2>2. queue'[k] = Tail(queue[k]) BY <1>1, <1>2
  <2>3. Len(queue[k]) \in Nat \ {0} BY <1>2, <2>1, LenProperties, EmptySeq
  <2>4. t = queue[k][1] /\ t \in Tasks BY <1>2, <2>1, HeadTailProperties
  <2>5. Len(Tail(queue[k])) = Len(queue[k]) - 1
        /\ \A i \in 1..Len(Tail(queue[k])) : Tail(queue[k])[i] = queue[k][i + 1]
    BY <1>2, <2>1, HeadTailProperties
  <2>6. QED BY <2>2, <2>3, <2>4, <2>5
<1> HIDE DEF k, t
<1>4. \A l \in Kinds \ {k} : queue'[l] = queue[l] BY <1>1, <1>2
<1>5. Untouched(t) /\ call[t] \notin {"new", "submit"} /\ answer[t] \notin {"refused", "panic"}
  BY <1>1, <1>3 DEF AnswerInv, PlaceInv, QueuedUntouched
<1>6. \A v \in Workers : worker'[v] = IF v = w THEN [at |-> "acquire", task |-> t] ELSE worker[v]
  BY <1>2 DEF LimitInv, EngineType
<1>7. \A u \in Tasks \ {t} : Untouched(u) => Untouched(u)' BY <1>2, <1>6 DEF Untouched
<1>8. QueuedOnce BY DEF AnswerInv, PlaceInv
<1>9. QueuedOnce'
  <2> SUFFICES ASSUME NEW l \in Kinds, NEW m \in Kinds,
                      NEW i \in 1..Len(queue'[l]), NEW j \in 1..Len(queue'[m]),
                      queue'[l][i] = queue'[m][j]
               PROVE  l = m /\ i = j
    BY DEF QueuedOnce
  <2>1. CASE l = k /\ m = k
    <3>1. i \in 1..Len(queue'[k]) /\ j \in 1..Len(queue'[k]) BY <2>1
    <3>2. i + 1 \in 1..Len(queue[k]) /\ j + 1 \in 1..Len(queue[k]) BY <1>3, <3>1
    <3>3. queue[k][i + 1] = queue[k][j + 1] BY <1>3, <2>1, <3>1
    <3>4. i + 1 = j + 1 BY <1>1, <1>8, <3>2, <3>3 DEF QueuedOnce
    <3>5. QED BY <2>1, <3>1, <3>4
  <2>2. CASE l = k /\ m # k
    <3>1. i + 1 \in 1..Len(queue[k]) /\ j \in 1..Len(queue[m]) /\ queue[k][i + 1] = queue[m][j]
      BY <1>3, <1>4, <2>2
    <3>2. QED BY <1>1, <1>8, <2>2, <3>1 DEF QueuedOnce
  <2>3. CASE l # k /\ m = k
    <3>1. i \in 1..Len(queue[l]) /\ j + 1 \in 1..Len(queue[k]) /\ queue[l][i] = queue[k][j + 1]
      BY <1>3, <1>4, <2>3
    <3>2. QED BY <1>1, <1>8, <2>3, <3>1 DEF QueuedOnce
  <2>4. CASE l # k /\ m # k
    BY <1>4, <1>8, <2>4 DEF QueuedOnce
  <2>5. QED BY <2>1, <2>2, <2>3, <2>4
<1>10. \A l \in Kinds : \A i \in 1..Len(queue'[l]) :
         \E j \in 1..Len(queue[l]) : queue'[l][i] = queue[l][j] /\ (l = k => j # 1)
  <2>1. ASSUME NEW i \in 1..Len(queue'[k])
        PROVE  i + 1 \in 1..Len(queue[k]) /\ i + 1 # 1 /\ queue'[k][i] = queue[k][i + 1]
    BY <1>3
  <2>2. QED BY <1>4, <2>1
<1>11. \A l \in Kinds : \A i \in 1..Len(queue'[l]) :
         /\ queue'[l][i] \in Tasks \ {t}
         /\ Untouched(queue'[l][i]) /\ call[queue'[l][i]] \notin {"new", "submit"}
         /\ answer[queue'[l][i]] \notin {"refused", "panic"}
  <2> SUFFICES ASSUME NEW l \in Kinds, NEW i \in 1..Len(queue'[l])
               PROVE  /\ queue'[l][i] \in Tasks \ {t}
                      /\ Untouched(queue'[l][i]) /\ call[queue'[l][i]] \notin {"new", "submit"}
                      /\ answer[queue'[l][i]] \notin {"refused", "panic"}
    OBVIOUS
  <2>1. PICK j \in 1..Len(queue[l]) : queue'[l][i] = queue[l][j] /\ (l = k => j # 1)
    BY <1>10
  <2>2. queue[l][j] \in Tasks BY QueueElements
  <2>3. 1 \in 1..Len(queue[k]) BY <1>3
  <2>4. queue[l][j] # t BY <1>1, <1>3, <1>8, <2>1, <2>3 DEF QueuedOnce
  <2>5. QED BY <2>1, <2>2, <2>4 DEF AnswerInv, PlaceInv, QueuedUntouched
<1>12. QueuedUntouched' BY <1>2, <1>7, <1>11 DEF QueuedUntouched
<1>13. UnsubmittedUntouched'
  BY <1>2, <1>5, <1>7 DEF AnswerInv, PlaceInv, UnsubmittedUntouched
<1>14. HeldOnce'
  <2>1. \A v \in Workers : worker[v].task # t BY <1>5 DEF Untouched
  <2>2. QED BY <1>6, <2>1 DEF AnswerInv, PlaceInv, HeldOnce, InHand
<1>15. HandOutcome' BY <1>2, <1>5, <1>6 DEF AnswerInv, TellInv, HandOutcome, Untouched
<1>16. (ChannelTells /\ Unanswered /\ AnswerTellsOutcome)'
  BY <1>2 DEF AnswerInv, TellInv, ChannelTells, Unanswered, AnswerTellsOutcome
<1>17. QED BY <1>9, <1>12, <1>13, <1>14, <1>15, <1>16 DEF AnswerInv, PlaceInv, TellInv

\* A worker that goes on with the same task disturbs no place.
LEMMA SameTaskPlaces ==
  ASSUME LimitInv, AnswerInv, NEW w \in Workers, InHand(w), NEW r,
         worker' = [worker EXCEPT ![w] = r], r.task \in {worker[w].task, None},
         UNCHANGED <<queue, call, answer>>,
         \A t \in Tasks : t # worker[w].task => outcome'[t] = outcome[t],
         \/ r.at \in {"acquire", "execute", "answer", "close"} /\ r.task = worker[w].task
         \/ r.at = "idle" /\ r.task = None
  PROVE  PlaceInv'
<1>1. \A v \in Workers : worker'[v] = IF v = w THEN r ELSE worker[v]
  BY DEF LimitInv, EngineType
<1>2. \A t \in Tasks : Untouched(t) => Untouched(t)'
  BY <1>1, EngineAssumption DEF Untouched
<1>3. QueuedOnce' BY DEF AnswerInv, PlaceInv, QueuedOnce
<1>4. QueuedUntouched'
  BY <1>2, QueueElements DEF AnswerInv, PlaceInv, QueuedUntouched
<1>5. UnsubmittedUntouched' BY <1>2 DEF AnswerInv, PlaceInv, UnsubmittedUntouched
<1>6. HeldOnce'
  <2>1. worker[w].task \in Tasks BY HandIsTask
  <2>2. \A v \in Workers \ {w} : worker[v].task # worker[w].task
    BY DEF AnswerInv, PlaceInv, HeldOnce
  <2>3. \A v \in Workers : InHand(v) => worker[v].task # None BY DEF LimitInv, HandsMatch
  <2>4. QED BY <1>1, <2>1, <2>2, <2>3 DEF AnswerInv, PlaceInv, HeldOnce, InHand
<1>7. QED BY <1>3, <1>4, <1>5, <1>6 DEF PlaceInv

\* The service has answered, or the semaphore could not be had.
Settles(w, o, r) ==
  /\ worker[w].at \in {"acquire", "execute"}
  /\ r.at = "answer" /\ r.task = worker[w].task
  /\ worker' = [worker EXCEPT ![w] = r]
  /\ outcome' = [outcome EXCEPT ![worker[w].task] = o]
  /\ UNCHANGED <<queue, call, answer, channel>>

LEMMA SettleAnswers ==
  ASSUME LimitInv, AnswerInv, NEW w \in Workers, NEW o \in {"ok", "err"}, NEW r, Settles(w, o, r)
  PROVE  AnswerInv'
<1> USE DEF Settles
<1> DEFINE t == worker[w].task
<1>1. InHand(w) /\ t \in Tasks BY HandIsTask DEF InHand
<1>2. outcome[t] = "none" BY DEF AnswerInv, TellInv, HandOutcome
<1>3. outcome'[t] = o /\ \A u \in Tasks : u # t => outcome'[u] = outcome[u]
  BY <1>1 DEF LimitInv, EngineType
<1>4. PlaceInv' BY <1>1, <1>3, SameTaskPlaces
<1>5. \A v \in Workers : worker'[v] = IF v = w THEN r ELSE worker[v]
  BY DEF LimitInv, EngineType
<1>6. \A v \in Workers \ {w} : InHand(v) => worker[v].task \in Tasks \ {t}
  BY <1>1, HandIsTask DEF AnswerInv, PlaceInv, HeldOnce
<1>7. HandOutcome'
  BY <1>3, <1>5, <1>6 DEF AnswerInv, TellInv, HandOutcome, InHand
<1>8. ChannelTells' BY <1>2, <1>3 DEF AnswerInv, TellInv, ChannelTells
<1>9. Unanswered' BY DEF AnswerInv, TellInv, Unanswered
<1>10. answer[t] \notin {"refused", "panic"}
  BY <1>1 DEF AnswerInv, PlaceInv, UnsubmittedUntouched, Untouched
<1>11. AnswerTellsOutcome'
  BY <1>2, <1>3, <1>10 DEF AnswerInv, TellInv, AnswerTellsOutcome
<1>12. QED BY <1>4, <1>7, <1>8, <1>9, <1>11 DEF AnswerInv, TellInv

\* The other steps of a worker with a task; ChannelTells is for the caller.
LEMMA GoOnAnswers ==
  ASSUME LimitInv, AnswerInv, NEW w \in Workers, NEW r, InHand(w),
         \/ r.at = "execute" /\ worker[w].at = "acquire" /\ r.task = worker[w].task
         \/ r.at = "close" /\ worker[w].at = "answer" /\ r.task = worker[w].task
         \/ r.at = "idle" /\ r.task = None,
         worker' = [worker EXCEPT ![w] = r],
         UNCHANGED <<queue, call, answer, outcome>>, ChannelTells'
  PROVE  AnswerInv'
<1>1. PlaceInv' BY SameTaskPlaces
<1>2. \A v \in Workers : worker'[v] = IF v = w THEN r ELSE worker[v]
  BY DEF LimitInv, EngineType
<1>3. HandOutcome' BY <1>2 DEF AnswerInv, TellInv, HandOutcome
<1>4. (Unanswered /\ AnswerTellsOutcome)' BY DEF AnswerInv, TellInv, Unanswered, AnswerTellsOutcome
<1>5. QED BY <1>1, <1>3, <1>4 DEF AnswerInv, TellInv

\* The answer goes to the channel that tells the outcome.
LEMMA ChannelsTell ==
  ASSUME LimitInv, AnswerInv, NEW w \in Workers, Send(w) \/ CloseOther(w)
  PROVE  ChannelTells'
<1> DEFINE t == worker[w].task
<1>1. t \in Tasks BY HandIsTask DEF Send, CloseOther, InHand
<1>2. outcome[t] \in {"ok", "err"} /\ UNCHANGED outcome
  BY DEF AnswerInv, TellInv, HandOutcome, Send, CloseOther
<1>3. channel \in [Tasks -> Pair] /\ ChannelTells
  BY DEF LimitInv, EngineType, Pair, AnswerInv, TellInv
<1>4. CASE Send(w)
  <2> DEFINE a == AnswersOn(t)
  <2>1. a \in {"result", "err"} /\ channel' = [channel EXCEPT ![t][a].full = TRUE]
    BY <1>4 DEF Send, AnswersOn
  <2>2. a = "err" <=> outcome[t] = "err" BY DEF AnswersOn
  <2> HIDE DEF a, t
  <2>3. /\ \A u \in Tasks \ {t} : channel'[u] = channel[u]
        /\ channel'[t][a].closed = channel[t][a].closed
        /\ \A b \in {"result", "err"} \ {a} : channel'[t][b] = channel[t][b]
    BY <1>1, <1>3, <2>1, SlotFilled
  <2>4. QED BY <1>1, <1>2, <1>3, <2>1, <2>2, <2>3 DEF ChannelTells
<1>5. CASE CloseOther(w)
  <2> DEFINE a == Other(AnswersOn(t))
  <2>1. a \in {"result", "err"} /\ channel' = [channel EXCEPT ![t][a].closed = TRUE]
    BY <1>5 DEF CloseOther, Other, AnswersOn
  <2>2. a = "result" <=> outcome[t] = "err" BY DEF AnswersOn, Other
  <2> HIDE DEF a, t
  <2>3. /\ \A u \in Tasks \ {t} : channel'[u] = channel[u]
        /\ channel'[t][a].full = channel[t][a].full
        /\ \A b \in {"result", "err"} \ {a} : channel'[t][b] = channel[t][b]
    BY <1>1, <1>3, <2>1, SlotClosed
  <2>4. QED BY <1>1, <1>2, <1>3, <2>1, <2>2, <2>3 DEF ChannelTells
<1>6. QED BY <1>4, <1>5

LEMMA WorkerAnswers ==
  ASSUME LimitInv, AnswerInv, NEW w \in Workers, WorkerNext(w)
  PROVE  AnswerInv'
<1> DEFINE At(p) == [worker[w] EXCEPT !.at = p]
<1>1. worker[w] \in [at : Points, task : Tasks \cup {None}] BY DEF LimitInv, EngineType
<1>2. \A p : At(p).at = p /\ At(p).task = worker[w].task BY <1>1
<1>3. CASE WorkerExit(w)
  <2>1. \A v \in Workers : worker'[v] = IF v = w THEN Off ELSE worker[v]
    BY <1>3 DEF WorkerExit, LimitInv, EngineType
  <2>2. \A v \in Workers : SameHand(v) BY <1>3, <2>1, Records DEF WorkerExit, SameHand
  <2>3. QED BY <1>3, <2>2, AnswerFrame DEF WorkerExit, callVars
<1>4. CASE WorkerTake(w) BY <1>4, TakeAnswers
<1>5. CASE Acquire(w)
  <2>1. ChannelTells' BY <1>5 DEF Acquire, AnswerInv, TellInv, ChannelTells
  <2>2. worker' = [worker EXCEPT ![w] = At("execute")] /\ InHand(w) /\ worker[w].at = "acquire"
        /\ UNCHANGED <<queue, call, answer, outcome>>
    BY <1>5 DEF Acquire, InHand, callVars
  <2> HIDE DEF At
  <2>3. QED BY <1>2, <2>1, <2>2, GoOnAnswers
<1>6. CASE AcquireFails(w)
  <2> DEFINE r == [worker[w] EXCEPT !.at = "answer"]
  <2>1. worker' = [worker EXCEPT ![w] = r] /\ worker[w].at \in {"acquire", "execute"}
        /\ UNCHANGED <<queue, call, answer, channel>>
    BY <1>6 DEF AcquireFails, callVars
  <2>2. PICK o \in {"ok", "err"} : outcome' = [outcome EXCEPT ![worker[w].task] = o]
    BY <1>6 DEF AcquireFails
  <2>3. r.at = "answer" /\ r.task = worker[w].task BY <1>1
  <2> HIDE DEF r
  <2>4. Settles(w, o, r) BY <2>1, <2>2, <2>3 DEF Settles
  <2>5. QED BY <2>4, SettleAnswers
<1>7. CASE Execute(w)
  <2> DEFINE r == [worker[w] EXCEPT !.at = "answer"]
  <2>1. worker' = [worker EXCEPT ![w] = r] /\ worker[w].at \in {"acquire", "execute"}
        /\ UNCHANGED <<queue, call, answer, channel>>
    BY <1>7 DEF Execute, AfterExecution, callVars
  <2>2. PICK o \in {"ok", "err"} : outcome' = [outcome EXCEPT ![worker[w].task] = o]
    BY <1>7 DEF Execute
  <2>3. r.at = "answer" /\ r.task = worker[w].task BY <1>1
  <2> HIDE DEF r
  <2>4. Settles(w, o, r) BY <2>1, <2>2, <2>3 DEF Settles
  <2>5. QED BY <2>4, SettleAnswers
<1>8. CASE Send(w)
  <2>1. ChannelTells' BY <1>8, ChannelsTell
  <2>2. worker' = [worker EXCEPT ![w] = At("close")] /\ InHand(w) /\ worker[w].at = "answer"
        /\ UNCHANGED <<queue, call, answer, outcome>>
    BY <1>8 DEF Send, InHand, callVars
  <2> HIDE DEF At
  <2>3. QED BY <1>2, <2>1, <2>2, GoOnAnswers
<1>9. CASE CloseOther(w)
  <2>1. ChannelTells' BY <1>9, ChannelsTell
  <2>2. worker' = [worker EXCEPT ![w] = Free] /\ InHand(w)
        /\ UNCHANGED <<queue, call, answer, outcome>>
    BY <1>9 DEF CloseOther, InHand, callVars
  <2>3. QED BY <2>1, <2>2, Records, GoOnAnswers
<1>10. QED BY <1>3, <1>4, <1>5, <1>6, <1>7, <1>8, <1>9 DEF WorkerNext

\* Nobody is told of a failure that was none, or of a success that was none
\* (executeQueryTask, executeWriteTask, and the selects of ExecuteQuery and
\* ExecuteWrite), also when both channels are ready and while the engine stops.
THEOREM AnswersTrue == Spec => []AnswerTellsOutcome
<1>1. LimitInv /\ AnswerInv /\ [Next]_vars => AnswerInv'
  <2> SUFFICES ASSUME LimitInv, AnswerInv, [Next]_vars PROVE AnswerInv'
    OBVIOUS
  <2>1. ASSUME NEW c \in Callers, Start(c) \/ StopBegin(c) \/ StopSignal(c) \/ StopClose(c)
        PROVE  AnswerInv'
    BY <2>1, CallerAnswers
  <2>2. ASSUME NEW t \in Tasks, CallNext(t) \/ ContextDone(t) PROVE AnswerInv'
    BY <2>2, CallAnswers
  <2>3. ASSUME NEW w \in Workers, WorkerNext(w) PROVE AnswerInv'
    BY <2>3, WorkerAnswers
  <2>4. CASE UNCHANGED vars
    BY <2>4, AnswerFrame DEF vars, poolVars, callVars, SameHand
  <2>5. QED BY <2>1, <2>2, <2>3, <2>4 DEF Next
<1>2. AnswerInv => AnswerTellsOutcome BY DEF AnswerInv, TellInv
<1>3. QED BY <1>1, <1>2, InitLimit, NextLimit, InitAnswer, PTL DEF Spec

=============================================================================
