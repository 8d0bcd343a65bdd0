-------------------------- MODULE WriteRetryProofs --------------------------
(***************************************************************************)
(* Proofs about WriteRetry, for any number of writes, callers, retries and *)
(* crashes.  What concerns the sizes of the buffer below it is proved in   *)
(* RequestsProofs.                                                         *)
(***************************************************************************)
EXTENDS WriteRetry, FiniteSetTheorems, TLAPS

-----------------------------------------------------------------------------
(* Shapes.                                                                 *)

Stored(b) ==
  /\ DOMAIN b \subseteq Ids
  /\ b \in [DOMAIN b -> BufferedWrite]

StampType == stamp \in 0..MaxStamp

InfoRecord == [write : Ids, status : RetryStatus]
CallRecord == [at : {"idle", "pass", "update"}, todo : SUBSET Ids, retry : Nat]

\* The records the goroutines share: as many runners as retries, and a caller
\* that is about to start a retry has inserted it.
RetryShape ==
  /\ retryInfo \in Seq(InfoRecord)
  /\ runner \in Seq(RunnerPoints) /\ Len(runner) = Len(retryInfo)
  /\ call \in [Callers -> CallRecord]
  /\ \A c \in Callers : call[c].at = "update" => call[c].retry \in 1..Len(retryInfo)

Shape == Stored(buffer) /\ Stored(disk) /\ StampType /\ RetryShape

LEMMA IdleRecord == Idle \in CallRecord
  BY DEF Idle, CallRecord

LEMMA KeepStored ==
  ASSUME Stored(buffer), NEW S, buffer' = Keep(Buffered \ S)
  PROVE  Stored(buffer)'
  BY DEF Stored, Keep, Buffered

\* Every method of the buffer leaves records of the right shape.
LEMMA BufferStored ==
  ASSUME Stored(buffer), Stored(disk), StampType, BufferNext
  PROVE  Stored(buffer)' /\ Stored(disk)' /\ StampType'
<1>1. ASSUME NEW i \in Ids, BufferWrite(i) PROVE Stored(buffer)' /\ Stored(disk)' /\ StampType'
  <2>1. stamp + 1 \in 1..MaxStamp /\ StampType'
    BY <1>1, BufferAssumption DEF BufferWrite, StampType
  <2>2. PICK E : buffer' = [j \in (Buffered \ E) \cup {i} |->
                    IF j = i
                    THEN [status |-> "PENDING", retries |-> 0, createdAt |-> stamp + 1]
                    ELSE buffer[j]]
    BY <1>1 DEF BufferWrite
  <2>3. Stored(buffer)'
    BY <2>1, <2>2 DEF Stored, Buffered, BufferedWrite, BufferedWriteStatus
  <2>4. QED BY <1>1, <2>1, <2>3 DEF BufferWrite
<1>2. ASSUME NEW S, Drop(S), UNCHANGED <<stamp, disk, saved>>
      PROVE  Stored(buffer)' /\ Stored(disk)' /\ StampType'
  BY <1>2, KeepStored DEF Drop, StampType
<1>3. ASSUME PersistBuffer PROVE Stored(buffer)' /\ Stored(disk)' /\ StampType'
  BY <1>3 DEF PersistBuffer, StampType
<1>4. QED
  BY <1>1, <1>2, <1>3 DEF BufferNext, RemoveBufferedWrite, FlushBuffer, CleanExpiredWrites

LEMMA UpdateStored ==
  ASSUME Stored(buffer), Stored(disk), StampType,
         NEW i, NEW s \in BufferedWriteStatus, UpdateBufferedWriteStatus(i, s)
  PROVE  Stored(buffer)' /\ Stored(disk)' /\ StampType'
<1>1. \A j \in Buffered : RetriesAfter(buffer[j].retries, s) \in Nat
  BY DEF RetriesAfter, Stored, Buffered, BufferedWrite
<1>2. \A j \in Buffered : [buffer[j] EXCEPT !.status = s,
                              !.retries = RetriesAfter(buffer[j].retries, s)] \in BufferedWrite
  BY <1>1 DEF Stored, Buffered, BufferedWrite
<1>3. QED
  BY <1>2 DEF UpdateBufferedWriteStatus, Stored, Buffered, StampType

\* A step of a caller keeps the shapes.
LEMMA CallerShape ==
  ASSUME Shape, NEW c \in Callers, CallerNext(c)
  PROVE  Shape'
<1> USE DEF Shape, bufferVars
<1>1. ASSUME UNCHANGED bufferVars PROVE Stored(buffer)' /\ Stored(disk)' /\ StampType'
  BY <1>1 DEF Stored, StampType
<1>2. ASSUME NEW i PROVE PassOn(c, i) \in CallRecord /\ PassOn(c, i).at # "update"
  BY IdleRecord DEF PassOn, RetryShape, CallRecord, Idle
<1>3. ASSUME NEW K, RetryPass(c, K) PROVE Shape'
  <2>1. Eligible(K) \subseteq Ids BY DEF Eligible, Stored, Buffered
  <2>2. QED BY <2>1, <1>1, <1>3 DEF RetryPass, RetryShape, CallRecord
<1>4. ASSUME NEW i \in Ids, PassSkip(c, i) PROVE Shape'
  BY <1>1, <1>2, <1>4 DEF PassSkip, RetryShape
<1>5. ASSUME NEW i \in Ids, Schedule(c, i) PROVE Shape'
  <2>1. retryInfo' \in Seq(InfoRecord) /\ Len(retryInfo') = Len(retryInfo) + 1
    BY <1>5 DEF Schedule, RetryShape, InfoRecord, RetryStatus
  <2>2. runner' \in Seq(RunnerPoints) /\ Len(runner') = Len(runner) + 1
    BY <1>5 DEF Schedule, RetryShape, RunnerPoints
  <2>3. call' \in [Callers -> CallRecord]
    BY <1>5 DEF Schedule, RetryShape, CallRecord
  <2>4. \A d \in Callers : call'[d].at = "update" => call'[d].retry \in 1..Len(retryInfo')
    BY <1>5, <2>1 DEF Schedule, RetryShape, CallRecord
  <2>5. QED BY <2>1, <2>2, <2>3, <2>4, <1>1, <1>5 DEF Schedule, RetryShape
<1>6. ASSUME ScheduleUpdate(c) PROVE Shape'
  <2> DEFINE i == retryInfo[call[c].retry].write
  <2>1. Stored(buffer)' /\ Stored(disk)' /\ StampType'
    BY <1>6, UpdateStored DEF ScheduleUpdate, BufferedWriteStatus
  <2>2. runner' \in Seq(RunnerPoints) /\ Len(runner') = Len(runner)
    BY <1>6 DEF ScheduleUpdate, RetryShape, RunnerPoints
  <2>3. call' = [call EXCEPT ![c] = PassOn(c, i)] /\ UNCHANGED retryInfo
    BY <1>6 DEF ScheduleUpdate
  <2>4. QED BY <2>1, <2>2, <2>3, <1>2 DEF RetryShape
<1>7. QED BY <1>3, <1>4, <1>5, <1>6 DEF CallerNext

\* A step of an executeRetry goroutine, or a cancellation, keeps the shapes.
LEMMA RunnerShape ==
  ASSUME Shape, NEW r \in DOMAIN runner, CancelRetry(r) \/ RunnerNext(r)
  PROVE  Shape'
<1> USE DEF Shape, bufferVars
<1>1. r \in 1..Len(retryInfo) /\ r \in 1..Len(runner) BY DEF RetryShape
<1>2. ASSUME NEW s \in RetryStatus, retryInfo' = [retryInfo EXCEPT ![r].status = s]
      PROVE  retryInfo' \in Seq(InfoRecord) /\ Len(retryInfo') = Len(retryInfo)
  <2>1. retryInfo[r] \in InfoRecord BY <1>1 DEF RetryShape
  <2>2. [retryInfo[r] EXCEPT !.status = s] \in InfoRecord BY <2>1 DEF InfoRecord
  <2>3. QED BY <1>1, <1>2, <2>2 DEF RetryShape
<1>3. ASSUME NEW p \in RunnerPoints, runner' = [runner EXCEPT ![r] = p]
      PROVE  runner' \in Seq(RunnerPoints) /\ Len(runner') = Len(runner)
  BY <1>1, <1>3 DEF RetryShape
<1>4. ASSUME UNCHANGED bufferVars PROVE Stored(buffer)' /\ Stored(disk)' /\ StampType'
  BY <1>4 DEF Stored, StampType
<1>5. ASSUME UNCHANGED call, Len(retryInfo') = Len(retryInfo), Len(runner') = Len(runner),
             retryInfo' \in Seq(InfoRecord), runner' \in Seq(RunnerPoints)
      PROVE  RetryShape'
  BY <1>5 DEF RetryShape
<1>6. CASE RetrySettle(r)
  <2>1. Stored(buffer)' /\ Stored(disk)' /\ StampType'
    <3>1. CASE RemoveDone(r)
      BY <3>1, KeepStored DEF RemoveDone, RemoveBufferedWrite, Drop, StampType
    <3>2. CASE UpdateBufferedWriteStatus(retryInfo[r].write, "PENDING")
      BY <3>2, UpdateStored DEF BufferedWriteStatus
    <3>3. QED BY <1>6, <3>1, <3>2 DEF RetrySettle
  <2>2. RetryShape'
    BY <1>6, <1>3, <1>5 DEF RetrySettle, Run, RunnerPoints, RetryShape
  <2>3. QED BY <2>1, <2>2
<1>7. CASE CancelRetry(r)
  BY <1>7, <1>2, <1>4, <1>5 DEF CancelRetry, RetryStatus, RetryShape
<1>8. CASE RetryStart(r) \/ RetryWake(r) \/ RetryGiveUp(r) \/ ExecuteOk(r) \/ ExecuteFails(r)
           \/ RetryRecord(r)
  <2>1. runner' \in Seq(RunnerPoints) /\ Len(runner') = Len(runner)
    BY <1>8, <1>3
    DEF RetryStart, RetryWake, RetryGiveUp, ExecuteOk, ExecuteFails, RetryRecord, Run, AfterError,
        RunnerPoints
  <2>2. retryInfo' \in Seq(InfoRecord) /\ Len(retryInfo') = Len(retryInfo)
    BY <1>8, <1>2
    DEF RetryStart, RetryWake, RetryGiveUp, ExecuteOk, ExecuteFails, RetryRecord, Record,
        RetryStatus, RetryShape
  <2>3. UNCHANGED <<bufferVars, call>>
    BY <1>8
    DEF RetryStart, RetryWake, RetryGiveUp, ExecuteOk, ExecuteFails, RetryRecord
  <2>4. QED BY <2>1, <2>2, <2>3, <1>4, <1>5
<1>9. QED BY <1>6, <1>7, <1>8 DEF RunnerNext

LEMMA ShapeInit == Init => Shape
  BY IdleRecord, BufferAssumption
  DEF Init, BufferInit, Shape, Stored, StampType, RetryShape, Idle

LEMMA ShapeStep ==
  ASSUME Shape, [Next]_vars
  PROVE  Shape'
<1>1. CASE BufferNext /\ UNCHANGED retryVars
  BY <1>1, BufferStored DEF Shape, retryVars, RetryShape
<1>2. CASE Start \/ Stop
  BY <1>2 DEF Start, Stop, bufferVars, Shape, Stored, StampType, RetryShape
<1>3. CASE \E c \in Callers : CallerNext(c)
  BY <1>3, CallerShape
<1>4. CASE \E r \in DOMAIN runner : CancelRetry(r) \/ RunnerNext(r)
  BY <1>4, RunnerShape
<1>5. CASE Crash
  <2>1. Stored(buffer)' /\ Stored(disk)' /\ StampType'
    BY <1>5 DEF Crash, LoadSnapshot, Shape, Stored, StampType
  <2>2. RetryShape'
    BY <1>5, IdleRecord DEF Crash, RetryShape, Idle
  <2>3. QED BY <2>1, <2>2 DEF Shape
<1>6. CASE UNCHANGED vars
  BY <1>6 DEF vars, bufferVars, retryVars, Shape, Stored, StampType, RetryShape
<1>7. QED BY <1>1, <1>2, <1>3, <1>4, <1>5, <1>6 DEF Next

-----------------------------------------------------------------------------
(* Nothing leaves the buffer as retried that StarRocks has not accepted.   *)

\* A runner past a successful ExecuteWrite has its write among the executed.
ExecutedBehind ==
  \A r \in DOMAIN runner :
    runner[r] \in {"ok", "remove"} \/ retryInfo[r].status = "SUCCEEDED"
      => retryInfo[r].write \in executed

LEMMA ExecutedBehindStep ==
  ASSUME Shape, ExecutedBehind, [Next]_vars
  PROVE  ExecutedBehind'
<1> USE DEF Shape, RetryShape
<1>1. ASSUME UNCHANGED <<retryInfo, runner, executed>> PROVE ExecutedBehind'
  BY <1>1 DEF ExecutedBehind
<1>2. CASE (BufferNext /\ UNCHANGED retryVars) \/ Start \/ Stop \/ UNCHANGED vars
  BY <1>1, <1>2 DEF retryVars, vars, Start, Stop
<1>3. ASSUME NEW c \in Callers, CallerNext(c) PROVE ExecutedBehind'
  <2>1. CASE ScheduleUpdate(c)
    BY <2>1 DEF ScheduleUpdate, ExecutedBehind
  <2>2. ASSUME NEW i \in Ids, Schedule(c, i) PROVE ExecutedBehind'
    BY <2>2 DEF Schedule, ExecutedBehind
  <2>3. ASSUME NEW i \in Ids, PassSkip(c, i) PROVE ExecutedBehind'
    BY <2>3, <1>1 DEF PassSkip
  <2>4. ASSUME NEW K, RetryPass(c, K) PROVE ExecutedBehind'
    BY <2>4, <1>1 DEF RetryPass
  <2>5. QED BY <1>3, <2>1, <2>2, <2>3, <2>4 DEF CallerNext
<1>4. ASSUME NEW r \in DOMAIN runner, CancelRetry(r) \/ RunnerNext(r) PROVE ExecutedBehind'
  <2>1. r \in DOMAIN retryInfo /\ DOMAIN runner = DOMAIN retryInfo
    OBVIOUS
  <2>8. ASSUME NEW x, NEW rr \in DOMAIN runner, Record(r, x)
        PROVE  /\ DOMAIN retryInfo' = DOMAIN retryInfo
               /\ retryInfo'[rr].write = retryInfo[rr].write
               /\ retryInfo'[rr].status = IF rr = r THEN x ELSE retryInfo[rr].status
    BY <2>1, <2>8 DEF Record, InfoRecord
  <2>9. ASSUME NEW x \in RetryStatus \ {"SUCCEEDED"}, Record(r, x), UNCHANGED executed,
               \/ UNCHANGED runner
               \/ \E p \in RunnerPoints \ {"ok", "remove"} : runner' = [runner EXCEPT ![r] = p]
        PROVE  ExecutedBehind'
    <3>1. DOMAIN runner' = DOMAIN runner BY <2>9
    <3>2. SUFFICES ASSUME NEW rr \in DOMAIN runner,
                          runner'[rr] \in {"ok", "remove"} \/ retryInfo'[rr].status = "SUCCEEDED"
                   PROVE  retryInfo'[rr].write \in executed'
      BY <3>1 DEF ExecutedBehind
    <3>3. /\ retryInfo'[rr].write = retryInfo[rr].write
          /\ retryInfo'[rr].status = IF rr = r THEN x ELSE retryInfo[rr].status
      BY <2>8, <2>9
    <3>4. runner[rr] \in {"ok", "remove"} \/ retryInfo[rr].status = "SUCCEEDED"
      BY <2>9, <3>2, <3>3
    <3>5. QED BY <2>9, <3>3, <3>4 DEF ExecutedBehind
  <2>2. CASE CancelRetry(r)
    <3>1. Record(r, "CANCELLED") /\ UNCHANGED <<runner, executed>>
      BY <2>2 DEF CancelRetry, Record
    <3>2. QED BY <3>1, <2>9 DEF RetryStatus
  <2>3. CASE RetryStart(r) \/ RetryWake(r) \/ RetryGiveUp(r) \/ ExecuteFails(r)
    <3>1. CASE RetryStart(r) \/ RetryGiveUp(r)
      <4>1. CASE RetryStart(r)
        BY <4>1, <2>9 DEF RetryStart, Run, RunnerPoints, RetryStatus
      <4>2. CASE RetryGiveUp(r)
        BY <4>2, <2>9 DEF RetryGiveUp, Run, RunnerPoints, RetryStatus
      <4>3. QED BY <3>1, <4>1, <4>2
    <3>2. CASE RetryWake(r) \/ ExecuteFails(r)
      BY <2>1, <3>2 DEF RetryWake, ExecuteFails, Run, ExecutedBehind
    <3>3. QED BY <2>3, <3>1, <3>2
  <2>4. CASE ExecuteOk(r)
    BY <2>1, <2>4 DEF ExecuteOk, Run, ExecutedBehind
  <2>5. CASE RetryRecord(r)
    <3>1. CASE Run(r, "ok", "remove") /\ Record(r, "SUCCEEDED")
      BY <2>1, <2>5, <2>8, <3>1 DEF RetryRecord, Run, Record, ExecutedBehind
    <3>2. CASE Run(r, "err", AfterError) /\ Record(r, "FAILED")
      BY <2>1, <2>5, <2>8, <3>2 DEF RetryRecord, Run, Record, AfterError, ExecutedBehind
    <3>3. QED BY <2>5, <3>1, <3>2 DEF RetryRecord
  <2>6. CASE RetrySettle(r)
    BY <2>1, <2>6 DEF RetrySettle, Run, ExecutedBehind
  <2>7. QED BY <1>4, <2>2, <2>3, <2>4, <2>5, <2>6 DEF RunnerNext
<1>5. CASE Crash
  BY <1>5 DEF Crash, ExecutedBehind
<1>6. QED BY <1>2, <1>3, <1>4, <1>5 DEF Next

\* A retry takes a write out of the buffer only after StarRocks accepted it.
THEOREM RemovalSafe == Spec => []RemovedAfterExecution
<1>1. Init => Shape /\ ExecutedBehind
  BY ShapeInit DEF Init, ExecutedBehind
<1>2. Shape /\ ExecutedBehind /\ [Next]_vars => (Shape /\ ExecutedBehind)'
  BY ShapeStep, ExecutedBehindStep
<1>3. ExecutedBehind => RemovedAfterExecution
  BY DEF ExecutedBehind, RemovedAfterExecution
<1>4. QED BY <1>1, <1>2, <1>3, PTL DEF Spec

-----------------------------------------------------------------------------
(* The number of attempts.                                                 *)

\* The callers that have looked at write i and not yet counted the attempt.
Updating(i) == {c \in Callers : call[c].at = "update" /\ retryInfo[call[c].retry].write = i}

Limit == MaxRetryAttempts - 1 + Cardinality(Callers)

\* Each of them may add one to the count it has seen below the maximum.
AttemptsReserved ==
  /\ \A i \in Buffered : buffer[i].retries + Cardinality(Updating(i)) <= Limit
  /\ \A i \in DOMAIN disk : disk[i].retries <= Limit

LEMMA UpdatingFinite ==
  ASSUME NEW S \in SUBSET Callers
  PROVE  IsFiniteSet(S) /\ Cardinality(S) \in Nat /\ Cardinality(S) <= Cardinality(Callers)
         /\ Limit \in Nat
  BY RetryAssumption, FS_Subset, FS_CardinalityType DEF Limit

\* Updating shrinks or stays when the callers that update do.
LEMMA FewerUpdating ==
  ASSUME NEW S \in SUBSET Callers, NEW T \in SUBSET S
  PROVE  Cardinality(T) <= Cardinality(S)
  BY RetryAssumption, FS_Subset

\* What a step does to the buffer, when nobody starts to update.
LEMMA ReservedKept ==
  ASSUME Shape, AttemptsReserved,
         \A i : Updating(i)' \subseteq Updating(i),
         \A i \in Buffered' : \/ i \in Buffered /\ buffer'[i].retries = buffer[i].retries
                              \/ buffer'[i].retries = 0,
         \A i \in DOMAIN disk' : disk'[i].retries <= Limit
  PROVE  AttemptsReserved'
<1>1. SUFFICES ASSUME NEW i \in Buffered'
               PROVE  buffer'[i].retries + Cardinality(Updating(i)') <= Limit
  BY DEF AttemptsReserved, Limit
<1>2. /\ Cardinality(Updating(i)') \in Nat /\ Cardinality(Updating(i)) \in Nat
      /\ Cardinality(Updating(i)') <= Cardinality(Updating(i))
      /\ Cardinality(Updating(i)) <= Cardinality(Callers)
      /\ Limit \in Nat /\ Cardinality(Callers) <= Limit /\ Cardinality(Callers) \in Nat
  <2>1. Updating(i) \in SUBSET Callers /\ Updating(i)' \in SUBSET Updating(i)
    BY DEF Updating
  <2>2. Updating(i)' \in SUBSET Callers BY <2>1
  <2>3. Cardinality(Callers) \in Nat BY RetryAssumption, FS_CardinalityType
  <2>4. QED BY <2>1, <2>2, <2>3, UpdatingFinite, FewerUpdating, RetryAssumption DEF Limit
<1>3. CASE i \in Buffered /\ buffer'[i].retries = buffer[i].retries
  <2>1. buffer[i] \in BufferedWrite BY <1>3 DEF Shape, Stored, Buffered
  <2>2. buffer[i].retries \in Nat BY <2>1 DEF BufferedWrite
  <2>3. buffer[i].retries + Cardinality(Updating(i)) <= Limit BY <1>3 DEF AttemptsReserved
  <2>4. QED BY <1>2, <1>3, <2>2, <2>3
<1>4. CASE buffer'[i].retries = 0
  BY <1>2, <1>4
<1>5. (i \in Buffered /\ buffer'[i].retries = buffer[i].retries) \/ buffer'[i].retries = 0
  OBVIOUS
<1>6. QED BY <1>3, <1>4, <1>5

\* The buffer's methods.
LEMMA ReservedBuffer ==
  ASSUME Shape, AttemptsReserved, BufferNext, UNCHANGED retryVars
  PROVE  AttemptsReserved'
<1>1. \A i : Updating(i)' = Updating(i) BY DEF Updating, retryVars
<1>2. \A i \in DOMAIN disk' : disk'[i].retries <= Limit
  <2>1. CASE UNCHANGED disk BY <2>1 DEF AttemptsReserved
  <2>2. CASE PersistBuffer
    <3>1. \A i \in Buffered : buffer[i].retries <= Limit
      <4>1. \A i \in Buffered : Cardinality(Updating(i)) \in Nat /\ Limit \in Nat
        BY UpdatingFinite DEF Updating
      <4>2. QED BY <4>1 DEF AttemptsReserved, Shape, Stored, Buffered, BufferedWrite
    <3>2. QED BY <2>2, <3>1 DEF PersistBuffer, Buffered
  <2>3. QED
    BY <2>1, <2>2 DEF BufferNext, BufferWrite, RemoveBufferedWrite, FlushBuffer, CleanExpiredWrites
<1>3. \A i \in Buffered' : \/ i \in Buffered /\ buffer'[i].retries = buffer[i].retries
                           \/ buffer'[i].retries = 0
  <2>1. ASSUME NEW i \in Ids, BufferWrite(i)
        PROVE  \A j \in Buffered' : \/ j \in Buffered /\ buffer'[j].retries = buffer[j].retries
                                    \/ buffer'[j].retries = 0
    <3>1. PICK E : buffer' = [j \in (Buffered \ E) \cup {i} |->
                      IF j = i
                      THEN [status |-> "PENDING", retries |-> 0, createdAt |-> stamp + 1]
                      ELSE buffer[j]]
      BY <2>1 DEF BufferWrite
    <3>2. QED BY <3>1 DEF Buffered
  <2>2. ASSUME NEW S, Drop(S)
        PROVE  \A j \in Buffered' : j \in Buffered /\ buffer'[j].retries = buffer[j].retries
    BY <2>2 DEF Drop, Keep, Buffered
  <2>3. CASE PersistBuffer BY <2>3 DEF PersistBuffer, Buffered
  <2>4. QED
    BY <2>1, <2>2, <2>3 DEF BufferNext, RemoveBufferedWrite, FlushBuffer, CleanExpiredWrites
<1>4. QED BY <1>1, <1>2, <1>3, ReservedKept

\* The callers: one that looks reserves an attempt, one that updates spends it.
LEMMA ReservedCaller ==
  ASSUME Shape, AttemptsReserved, NEW c \in Callers, CallerNext(c)
  PROVE  AttemptsReserved'
<1> USE DEF Shape, RetryShape
<1>1. ASSUME NEW i PROVE PassOn(c, i).at # "update"
  BY DEF PassOn, Idle
<1>2. ASSUME UNCHANGED <<bufferVars, retryInfo>>, \E x : x.at # "update" /\ call' = [call EXCEPT ![c] = x]
      PROVE  AttemptsReserved'
  <2>1. \A i : Updating(i)' \subseteq Updating(i)
    BY <1>2 DEF Updating
  <2>2. QED BY <1>2, <2>1, ReservedKept DEF bufferVars, Buffered, AttemptsReserved
<1>3. ASSUME NEW K, RetryPass(c, K) PROVE AttemptsReserved'
  <2>1. [at |-> "pass", todo |-> Eligible(K), retry |-> 0].at # "update" OBVIOUS
  <2>2. QED BY <2>1, <1>2, <1>3 DEF RetryPass
<1>4. ASSUME NEW i \in Ids, PassSkip(c, i) PROVE AttemptsReserved'
  BY <1>1, <1>2, <1>4 DEF PassSkip
<1>5. ASSUME NEW i \in Ids, Schedule(c, i) PROVE AttemptsReserved'
  <2>1. UNCHANGED <<buffer, disk>> BY <1>5 DEF Schedule, bufferVars
  <2>2. i \in Buffered /\ buffer[i].retries <= MaxRetryAttempts - 1
    BY <1>5, RetryAssumption
    DEF Schedule, Schedulable, CanRetry, Newest, Stored, Buffered, BufferedWrite
  <2>3. \A j : j # i => Updating(j)' \subseteq Updating(j)
    BY <1>5 DEF Schedule, Updating, CallRecord
  <2>4. \A j : Updating(j) \subseteq Callers /\ Updating(j)' \subseteq Callers
    BY DEF Updating
  <2>5. ASSUME NEW j \in Buffered
        PROVE  buffer[j].retries + Cardinality(Updating(j)') <= Limit
    <3>1. /\ Cardinality(Updating(j)') \in Nat /\ Cardinality(Updating(j)) \in Nat
          /\ Cardinality(Updating(j)') <= Cardinality(Callers)
          /\ Cardinality(Callers) \in Nat
      BY <2>4, UpdatingFinite, RetryAssumption, FS_CardinalityType
    <3>2. CASE j = i
      BY <3>1, <3>2, <2>2, RetryAssumption DEF Limit, Stored, Buffered, BufferedWrite
    <3>3. CASE j # i
      <4>1. Cardinality(Updating(j)') <= Cardinality(Updating(j))
        BY <3>3, <2>3, <2>4, FewerUpdating
      <4>2. QED
        BY <4>1, <3>1, RetryAssumption DEF AttemptsReserved, Limit, Stored, Buffered, BufferedWrite
    <3>4. QED BY <3>2, <3>3
  <2>6. QED BY <2>1, <2>5 DEF AttemptsReserved, Buffered, Limit
<1>6. ASSUME ScheduleUpdate(c) PROVE AttemptsReserved'
  <2> PICK i : i = retryInfo[call[c].retry].write OBVIOUS
  <2>1. c \in Updating(i) BY <1>6 DEF ScheduleUpdate, Updating
  <2>2. \A j : Updating(j)' \subseteq Updating(j)
    BY <1>1, <1>6 DEF ScheduleUpdate, Updating
  <2>3. Updating(i)' \subseteq Updating(i) \ {c}
    BY <1>1, <1>6 DEF ScheduleUpdate, Updating
  <2>4. /\ Buffered' = Buffered /\ disk' = disk
        /\ \A j \in Buffered : j # i => buffer'[j] = buffer[j]
        /\ i \in Buffered => buffer'[i].retries = buffer[i].retries + 1
    BY <1>6 DEF ScheduleUpdate, UpdateBufferedWriteStatus, RetriesAfter, Buffered, Stored,
       BufferedWrite
  <2>5. ASSUME NEW j \in Buffered
        PROVE  buffer'[j].retries + Cardinality(Updating(j)') <= Limit
    <3>1. Updating(j) \in SUBSET Callers /\ Updating(j)' \in SUBSET Callers BY DEF Updating
    <3>2. /\ Cardinality(Updating(j)) \in Nat /\ Cardinality(Updating(j)') \in Nat
          /\ Cardinality(Updating(j)') <= Cardinality(Updating(j))
          /\ IsFiniteSet(Updating(j)) /\ Limit \in Nat
      BY <3>1, <2>2, UpdatingFinite, FewerUpdating
    <3>3. buffer[j].retries \in Nat /\ buffer[j].retries + Cardinality(Updating(j)) <= Limit
      BY DEF AttemptsReserved, Stored, Buffered, BufferedWrite
    <3>4. CASE j = i
      <4>1. Cardinality(Updating(j) \ {c}) = Cardinality(Updating(j)) - 1
        BY <3>4, <2>1, <3>2, FS_RemoveElement
      <4>2. Cardinality(Updating(j)') <= Cardinality(Updating(j) \ {c})
        BY <3>1, <3>4, <2>3, FewerUpdating
      <4>3. QED BY <4>1, <4>2, <3>2, <3>3, <3>4, <2>4
    <3>5. CASE j # i
      BY <3>2, <3>3, <3>5, <2>4
    <3>6. QED BY <3>4, <3>5
  <2>6. QED BY <2>4, <2>5 DEF AttemptsReserved, Limit
<1>7. QED BY <1>3, <1>4, <1>5, <1>6 DEF CallerNext

\* The goroutines and cancellations: they count nothing.
LEMMA ReservedRunner ==
  ASSUME Shape, AttemptsReserved, NEW r \in DOMAIN runner, CancelRetry(r) \/ RunnerNext(r)
  PROVE  AttemptsReserved'
<1> USE DEF Shape, RetryShape
<1>1. UNCHANGED <<call, disk>>
  <2>1. CASE RetrySettle(r)
    BY <2>1 DEF RetrySettle, RemoveDone, RemoveBufferedWrite, UpdateBufferedWriteStatus
  <2>2. CASE CancelRetry(r) BY <2>2 DEF CancelRetry, bufferVars
  <2>3. QED
    BY <2>1, <2>2 DEF RunnerNext, RetryStart, RetryWake, RetryGiveUp, ExecuteOk, ExecuteFails,
       RetryRecord, bufferVars
<1>2. UNCHANGED retryInfo \/ \E s \in RetryStatus : Record(r, s)
  BY DEF CancelRetry, RunnerNext, RetryStart, RetryWake, RetryGiveUp, ExecuteOk, ExecuteFails,
     RetryRecord, RetrySettle, Record, RetryStatus
<1>3. \A q \in 1..Len(retryInfo) : retryInfo'[q].write = retryInfo[q].write
  <2>1. \A q \in 1..Len(retryInfo) : retryInfo[q] \in InfoRecord OBVIOUS
  <2>2. CASE UNCHANGED retryInfo BY <2>2
  <2>3. ASSUME NEW s \in RetryStatus, Record(r, s), NEW q \in 1..Len(retryInfo)
        PROVE  retryInfo'[q].write = retryInfo[q].write
    <3>1. retryInfo'[q] = IF q = r THEN [retryInfo[r] EXCEPT !.status = s] ELSE retryInfo[q]
      BY <2>3 DEF Record
    <3>2. CASE q = r
      BY <2>1, <3>1, <3>2 DEF InfoRecord
    <3>3. CASE q # r
      BY <3>1, <3>3
    <3>4. QED BY <3>2, <3>3
  <2>4. QED BY <1>2, <2>2, <2>3
<1>4. \A i : Updating(i)' \subseteq Updating(i)
  BY <1>1, <1>3 DEF Updating
<1>5. \A i \in Buffered' : i \in Buffered /\ buffer'[i].retries = buffer[i].retries
  <2>1. CASE UNCHANGED buffer BY <2>1 DEF Buffered
  <2>2. CASE RemoveDone(r)
    BY <2>2 DEF RemoveDone, RemoveBufferedWrite, Drop, Keep, Buffered
  <2>3. CASE UpdateBufferedWriteStatus(retryInfo[r].write, "PENDING")
    BY <2>3 DEF UpdateBufferedWriteStatus, RetriesAfter, Buffered, Stored, BufferedWrite
  <2>4. UNCHANGED buffer \/ RemoveDone(r) \/ UpdateBufferedWriteStatus(retryInfo[r].write, "PENDING")
    BY DEF CancelRetry, RunnerNext, RetryStart, RetryWake, RetryGiveUp, ExecuteOk, ExecuteFails,
       RetryRecord, RetrySettle, bufferVars
  <2>5. QED BY <2>1, <2>2, <2>3, <2>4
<1>6. \A i \in DOMAIN disk' : disk'[i].retries <= Limit
  BY <1>1 DEF AttemptsReserved
<1>7. QED BY <1>4, <1>5, <1>6, ReservedKept

LEMMA ReservedStep ==
  ASSUME Shape, AttemptsReserved, [Next]_vars
  PROVE  AttemptsReserved'
<1>1. CASE BufferNext /\ UNCHANGED retryVars
  BY <1>1, ReservedBuffer
<1>2. ASSUME UNCHANGED <<buffer, disk, retryInfo, call>> PROVE AttemptsReserved'
  <2>1. \A i : Updating(i)' = Updating(i) BY <1>2 DEF Updating
  <2>2. \A i \in DOMAIN disk' : disk'[i].retries <= Limit BY <1>2 DEF AttemptsReserved
  <2>3. \A i \in Buffered' : i \in Buffered /\ buffer'[i].retries = buffer[i].retries
    BY <1>2 DEF Buffered
  <2>4. QED BY <2>1, <2>2, <2>3, ReservedKept
<1>3. CASE Start \/ Stop \/ UNCHANGED vars
  BY <1>2, <1>3 DEF Start, Stop, vars, bufferVars, retryVars
<1>4. CASE \E c \in Callers : CallerNext(c)
  BY <1>4, ReservedCaller
<1>5. CASE \E r \in DOMAIN runner : CancelRetry(r) \/ RunnerNext(r)
  BY <1>5, ReservedRunner
<1>6. CASE Crash
  \* Nobody updates; the snapshot's counts are within the limit by the second
  \* part of the invariant.
  <2>1. buffer' = disk /\ disk' = disk BY <1>6 DEF Crash, LoadSnapshot
  <2>2. \A i : Updating(i)' = {} BY <1>6 DEF Crash, Updating, Idle
  <2>3. \A i \in DOMAIN disk : disk[i].retries \in Nat
    BY DEF Shape, Stored, BufferedWrite
  <2>4. ASSUME NEW i \in Buffered' PROVE buffer'[i].retries + Cardinality(Updating(i)') <= Limit
    <3>1. Cardinality(Updating(i)') = 0 BY <2>2, FS_EmptySet
    <3>2. i \in DOMAIN disk BY <2>1 DEF Buffered
    <3>3. disk[i].retries <= Limit /\ disk[i].retries + 0 = disk[i].retries
      BY <2>3, <3>2 DEF AttemptsReserved
    <3>4. QED BY <2>1, <3>1, <3>3
  <2>5. QED BY <2>1, <2>4 DEF AttemptsReserved, Limit
<1>7. QED BY <1>1, <1>3, <1>4, <1>5, <1>6 DEF Next

\* However many callers go over the buffer at once, and whatever is cancelled,
\* resubmitted, restored or executed in between, the attempts of a write pass
\* MaxRetryAttempts by at most one for each caller but the first.
THEOREM AttemptsWithinLimit == Spec => []AttemptsBounded
<1>1. Init => Shape /\ AttemptsReserved
  BY ShapeInit DEF Init, BufferInit, AttemptsReserved, Buffered
<1>2. Shape /\ AttemptsReserved /\ [Next]_vars => (Shape /\ AttemptsReserved)'
  BY ShapeStep, ReservedStep
<1>3. Shape /\ AttemptsReserved => AttemptsBounded
  <2>1. \A i : Cardinality(Updating(i)) \in Nat /\ Limit \in Nat
    BY UpdatingFinite DEF Updating
  <2>2. QED
    BY <2>1 DEF AttemptsReserved, AttemptsBounded, Limit, Shape, Stored, Buffered, BufferedWrite
<1>4. QED BY <1>1, <1>2, <1>3, PTL DEF Spec
=============================================================================
