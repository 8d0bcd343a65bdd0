---------------------------- MODULE WriteBuffer ----------------------------
(***************************************************************************)
(* internal/domain/write/buffer.go: the writes kept while their tablet is  *)
(* unavailable.  Every method of WriteBufferImpl takes bufferMutex for its *)
(* whole body, so each is one action.                                      *)
(*                                                                         *)
(* An ID stands for one write of a client, with the key, size and priority *)
(* it always has; the client may hand the same write in again.  Creation   *)
(* times are the stamps of a counter.  Expiry is left open: a client       *)
(* chooses ExpiresAt freely.  So is what the external health checker says  *)
(* of a tablet each time it is asked.                                      *)
(***************************************************************************)
EXTENDS Integers, FiniteSets, FiniteSetsExt

CONSTANTS
  Ids,                \* the writes
  Keys,               \* BufferKey: database, table, partition and bucket
  KeyOf,              \* the key of a write
  SizeOf,             \* len(SQL) + len(Payload)
  PriorityOf,         \* getWritePriority or the client's own priority
  MaxBufferedWrites,  \* config: 0 for no limit
  MaxBufferSizeBytes, \* config: 0 for no limit
  EvictionPolicy,     \* config
  MaxStamp            \* bound: calls of BufferWrite

ASSUME BufferAssumption ==
  /\ IsFiniteSet(Ids)
  /\ KeyOf \in [Ids -> Keys]
  /\ SizeOf \in [Ids -> Nat] /\ PriorityOf \in [Ids -> Int]
  /\ MaxBufferedWrites \in Nat /\ MaxBufferSizeBytes \in Nat
  /\ EvictionPolicy \in {"OLDEST", "LEAST_RETRIED", "LOWEST_PRIORITY"}
  /\ MaxStamp \in Nat

VARIABLES
  buffer,   \* b.buffer, flattened: a record for each buffered ID
  bytes,    \* b.currentBufferSizeBytes
  stamp,    \* the creation times handed out
  disk,     \* what buffer_snapshot.json holds
  saved     \* the file exists

bufferVars == <<buffer, bytes, stamp, disk, saved>>

BufferedWriteStatus == {"PENDING", "RETRYING", "FAILED"}

BufferedWrite ==
  [status : BufferedWriteStatus, retries : Nat, createdAt : 1..MaxStamp]

Buffered  == DOMAIN buffer
Bytes(S)  == MapThenSumSet(LAMBDA i : SizeOf[i], S)
Keep(S)   == [i \in S |-> buffer[i]]

-----------------------------------------------------------------------------
(* evictWritesLocked                                                       *)

Older(i, j) == buffer[i].createdAt < buffer[j].createdAt

\* The order candidates are sorted in; sort.Slice leaves ties in any order.
EvictsFirst(i, j) ==
  CASE EvictionPolicy = "LEAST_RETRIED" -> buffer[i].retries < buffer[j].retries
    [] EvictionPolicy = "LOWEST_PRIORITY" ->
         PriorityOf[i] < PriorityOf[j] \/ (PriorityOf[i] = PriorityOf[j] /\ Older(i, j))
    [] OTHER -> Older(i, j)

\* The loop stops after enough writes or enough bytes.
FreedEnough(S, count, free) ==
  \/ count > 0 /\ Cardinality(S) >= count
  \/ free > 0 /\ Bytes(S) >= free

\* The sets the loop may remove from the writes in S: the first candidates in
\* the order, up to the one that makes it stop.
Victims(S, count, free) ==
  IF (count = 0 /\ free = 0) \/ S = {} THEN {{}}
  ELSE {E \in SUBSET S :
          /\ E # {}
          /\ \A i \in E, j \in S \ E : ~EvictsFirst(j, i)
          /\ E = S \/ FreedEnough(E, count, free)
          /\ \E last \in E :
               /\ \A i \in E \ {last} : ~EvictsFirst(last, i)
               /\ ~FreedEnough(E \ {last}, count, free)}

\* Mutant: the count limit is tested only after it was passed.
MustEvictLate == MaxBufferedWrites > 0 /\ Cardinality(Buffered) > MaxBufferedWrites

MustEvictOne == MaxBufferedWrites > 0 /\ Cardinality(Buffered) >= MaxBufferedWrites

ByCount(i) == IF MustEvictOne THEN Victims(Buffered, 1, SizeOf[i]) ELSE {{}}

\* Mutant: the size check leaves the incoming write out.
ExcessBefore(i, E) == bytes - Bytes(E) - MaxBufferSizeBytes

\* The bytes the second check wants freed once the writes in E are gone.
Excess(i, E) == bytes - Bytes(E) + SizeOf[i] - MaxBufferSizeBytes

ByBytes(i, E) ==
  IF MaxBufferSizeBytes > 0 /\ Excess(i, E) > 0
  THEN Victims(Buffered \ E, 0, Excess(i, E))
  ELSE {{}}

-----------------------------------------------------------------------------
(* The methods.                                                            *)

\* The counter after BufferWrite: a write that replaces one of the same ID
\* counts twice.
AddedBytes(i, E) == bytes - Bytes(E) + SizeOf[i]

BufferWrite(i) ==
  /\ stamp < MaxStamp
  /\ stamp' = stamp + 1
  /\ \E E1 \in ByCount(i) : \E E2 \in ByBytes(i, E1) :
       LET E == E1 \cup E2 IN
         /\ buffer' = [j \in (Buffered \ E) \cup {i} |->
                         IF j = i
                         THEN [status |-> "PENDING", retries |-> 0, createdAt |-> stamp + 1]
                         ELSE buffer[j]]
         /\ bytes' = AddedBytes(i, E)
  /\ UNCHANGED <<disk, saved>>

\* The writes in S leave the buffer.
Drop(S) == buffer' = Keep(Buffered \ S) /\ bytes' = bytes - Bytes(S \cap Buffered)

\* FlushBuffer of one key or of all.  K are the keys asked for that the health
\* checker calls healthy: their writes are dropped.
FlushBuffer(K) ==
  /\ Drop({i \in Buffered : KeyOf[i] \in K})
  /\ UNCHANGED <<stamp, disk, saved>>

RemoveBufferedWrite(i) == Drop({i}) /\ UNCHANGED <<stamp, disk, saved>>

\* Going to RETRYING counts an attempt.
RetriesAfter(n, status) == IF status = "RETRYING" THEN n + 1 ELSE n

UpdateBufferedWriteStatus(i, status) ==
  /\ buffer' = [j \in Buffered |->
                  IF j # i THEN buffer[j]
                  ELSE [buffer[j] EXCEPT !.status = status,
                                         !.retries = RetriesAfter(@, status)]]
  /\ UNCHANGED <<bytes, stamp, disk, saved>>

CleanExpiredWrites(S) ==
  /\ S \subseteq Buffered /\ S # {}
  /\ Drop(S)
  /\ UNCHANGED <<stamp, disk, saved>>

\* persistLoop and Close: the snapshot replaces the file in one rename.
PersistBuffer ==
  /\ disk' = buffer /\ saved' = TRUE
  /\ UNCHANGED <<buffer, bytes, stamp>>

\* The buffer becomes what the snapshot holds, entry by entry under the keys that are read
\* back from their names; the counter is summed anew.  A key with a dot in one of its names
\* is read back wrong, and its writes are dropped or go under another key: no such key is
\* among Keys.
LoadSnapshot ==
  /\ buffer' = disk
  /\ bytes' = Bytes(DOMAIN disk)
  /\ UNCHANGED <<stamp, disk, saved>>

\* Without a file the buffer stays as it is.
RestoreBuffer == saved /\ LoadSnapshot

\* GetBufferedWrites(nil, 1, 0): the newest write.
Newest == {i \in Buffered : \A j \in Buffered : ~Older(i, j)}

BufferInit ==
  /\ buffer = <<>> /\ bytes = 0 /\ stamp = 0
  /\ disk = <<>> /\ saved = FALSE

\* What clients and the sweeper do to the buffer.
BufferNext ==
  \/ \E i \in Ids : BufferWrite(i) \/ RemoveBufferedWrite(i)
  \/ \E K \in SUBSET Keys : FlushBuffer(K)
  \/ \E S \in SUBSET Ids : CleanExpiredWrites(S)
  \/ PersistBuffer

BufferSpec == BufferInit /\ [][BufferNext \/ RestoreBuffer]_bufferVars

-----------------------------------------------------------------------------
(* Properties.                                                             *)

BufferTypeOK ==
  /\ \E S \in SUBSET Ids : buffer \in [S -> BufferedWrite]
  /\ \E S \in SUBSET Ids : disk \in [S -> BufferedWrite]
  /\ bytes \in Int /\ stamp \in 0..MaxStamp /\ saved \in BOOLEAN

\* MaxBufferedWrites is never exceeded, whatever is resubmitted, evicted,
\* restored or removed in between.
CountWithinLimit == MaxBufferedWrites > 0 => Cardinality(Buffered) <= MaxBufferedWrites

\* The size counter never says less than the buffer holds, whatever replaces a
\* write of the same ID, so that the size check of BufferWrite lets in too much
\* only when one single write is larger than MaxBufferSizeBytes.
BytesWithinLimit ==
  /\ bytes >= Bytes(Buffered)
  /\ MaxBufferSizeBytes > 0 =>
       Bytes(Buffered) <= MaxBufferSizeBytes \/ Cardinality(Buffered) = 1
=============================================================================
