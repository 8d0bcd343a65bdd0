---------------------------- MODULE RequestsProofs ----------------------------
(***************************************************************************)
(* What is proved of the components that a query or a write passes         *)
(* through, and of the consumer that writes come from (PulsarConsumer, at  *)
(* the end, for any number of messages, workers, application goroutines    *)
(* and redeliveries).                                                      *)
(***************************************************************************)
EXTENDS Requests, PulsarConsumer, FiniteSetTheorems, FunctionTheorems, WellFoundedInduction, TLAPS

-----------------------------------------------------------------------------
(* Write buffer: MaxBufferedWrites and MaxBufferSizeBytes, for any set of  *)
(* writes and any eviction policy.  The sum of sizes is a fold over a set: *)
(* it is shown to be the cardinality of the set of all bytes, whose        *)
(* algebra is known.                                                       *)

Few(S) == S \subseteq Ids /\ (MaxBufferedWrites > 0 => Cardinality(S) <= MaxBufferedWrites)

\* The buffer and the snapshot are both within the limit: a restored snapshot
\* becomes the buffer.
FewStored == Few(Buffered) /\ Few(DOMAIN disk)

LEMMA FewerStillFew ==
  ASSUME NEW S, Few(S), NEW T \in SUBSET S
  PROVE  Few(T)
<1>1. IsFiniteSet(S) BY BufferAssumption, FS_Subset DEF Few
<1>2. Cardinality(T) <= Cardinality(S) /\ Cardinality(T) \in Nat /\ Cardinality(S) \in Nat
  BY <1>1, FS_Subset, FS_CardinalityType
<1>3. QED BY <1>2, BufferAssumption DEF Few

\* A buffer that has reached the limit loses at least one write.
LEMMA EvictionMakesRoom ==
  ASSUME Few(Buffered), NEW i \in Ids, MustEvictOne, NEW E \in ByCount(i)
  PROVE  E \subseteq Buffered /\ E # {}
<1>1. Buffered # {}
  <2>1. Cardinality(Buffered) # 0
    BY BufferAssumption DEF MustEvictOne
  <2>2. QED BY <2>1, FS_EmptySet
<1>2. QED BY <1>1 DEF ByCount, Victims

LEMMA WriteKeepsFew ==
  ASSUME FewStored, NEW i \in Ids, BufferWrite(i)
  PROVE  FewStored'
<1> USE DEF FewStored
<1>0. PICK E1 \in ByCount(i) : \E E2 \in ByBytes(i, E1) :
        buffer' = [j \in (Buffered \ (E1 \cup E2)) \cup {i} |->
                     IF j = i
                     THEN [status |-> "PENDING", retries |-> 0, createdAt |-> stamp + 1]
                     ELSE buffer[j]]
  BY DEF BufferWrite
<1>1. PICK E2 \in ByBytes(i, E1) :
        buffer' = [j \in (Buffered \ (E1 \cup E2)) \cup {i} |->
                     IF j = i
                     THEN [status |-> "PENDING", retries |-> 0, createdAt |-> stamp + 1]
                     ELSE buffer[j]]
  BY <1>0
<1> DEFINE Kept == Buffered \ (E1 \cup E2)
<1>3. Buffered' = Kept \cup {i} BY <1>1 DEF Buffered
<1>4. IsFiniteSet(Buffered) /\ IsFiniteSet(Kept)
  BY BufferAssumption, FS_Subset DEF Few
<1>5. Cardinality(Kept) <= Cardinality(Buffered)
      /\ Cardinality(Kept) \in Nat /\ Cardinality(Buffered) \in Nat
  BY <1>4, FS_Subset, FS_CardinalityType
<1>6. Cardinality(Kept \cup {i}) <= Cardinality(Kept) + 1
  <2>1. Cardinality(Kept \cup {i}) \in {Cardinality(Kept), Cardinality(Kept) + 1}
    <3>1. CASE i \in Kept
      <4>1. Kept \cup {i} = Kept BY <3>1
      <4>2. QED BY <4>1
    <3>2. CASE i \notin Kept BY <1>4, <3>2, FS_AddElement
    <3>3. QED BY <3>1, <3>2
  <2>2. QED BY <1>5, <2>1
<1>7. Cardinality(Kept \cup {i}) \in Nat
  BY <1>4, FS_AddElement, FS_CardinalityType
<1>8. ASSUME MaxBufferedWrites > 0 PROVE Cardinality(Kept \cup {i}) <= MaxBufferedWrites
  <2>1. CASE MustEvictOne
    <3>1. PICK e \in Buffered : e \in E1 BY <2>1, EvictionMakesRoom
    <3>2. Cardinality(Buffered \ {e}) = Cardinality(Buffered) - 1
      BY <1>4, <3>1, FS_RemoveElement
    <3>3. IsFiniteSet(Buffered \ {e}) /\ Kept \in SUBSET (Buffered \ {e})
      BY <1>4, <3>1, FS_Subset
    <3>4. Cardinality(Kept) <= Cardinality(Buffered \ {e})
      BY <3>3, FS_Subset
    <3>5. Cardinality(Buffered) <= MaxBufferedWrites
      BY <1>8 DEF Few
    <3>6. QED BY <1>5, <1>6, <1>7, <3>2, <3>4, <3>5, BufferAssumption
  <2>2. CASE ~MustEvictOne
    <3>1. Cardinality(Buffered) < MaxBufferedWrites
      BY <1>5, <1>8, <2>2, BufferAssumption DEF MustEvictOne
    <3>2. QED BY <1>5, <1>6, <1>7, <3>1, BufferAssumption
  <2>3. QED BY <2>1, <2>2
<1>9. Few(Buffered)'
  BY <1>3, <1>8 DEF Few
<1>10. QED BY <1>9 DEF BufferWrite

\* The buffer never holds more than MaxBufferedWrites writes, whatever is
\* resubmitted, evicted, expired, flushed or restored.
THEOREM CountSafe == BufferSpec => []CountWithinLimit
<1>1. BufferInit => FewStored
  <2>1. SUFFICES ASSUME BufferInit PROVE FewStored OBVIOUS
  <2>2. Buffered = {} /\ DOMAIN disk = {} BY <2>1 DEF BufferInit, Buffered
  <2>3. Cardinality({}) = 0 BY FS_EmptySet
  <2>4. QED BY <2>2, <2>3, BufferAssumption DEF FewStored, Few
<1>2. ASSUME FewStored, [BufferNext \/ RestoreBuffer]_bufferVars PROVE FewStored'
  <2>1. ASSUME NEW S, Drop(S), UNCHANGED <<stamp, disk, saved>> PROVE FewStored'
    <3>1. Buffered' = Buffered \ S BY <2>1 DEF Drop, Keep, Buffered
    <3>2. Few(Buffered') BY <1>2, <3>1, FewerStillFew DEF FewStored
    <3>3. QED BY <1>2, <2>1, <3>2 DEF FewStored, Few
  <2>2. CASE \E i \in Ids : BufferWrite(i)
    BY <1>2, <2>2, WriteKeepsFew
  <2>3. CASE \/ \E i \in Ids : RemoveBufferedWrite(i)
             \/ \E K \in SUBSET Keys : FlushBuffer(K)
             \/ \E S \in SUBSET Ids : CleanExpiredWrites(S)
    BY <2>1, <2>3 DEF RemoveBufferedWrite, FlushBuffer, CleanExpiredWrites
  <2>4. CASE PersistBuffer
    BY <1>2, <2>4 DEF PersistBuffer, FewStored, Few, Buffered
  <2>5. CASE RestoreBuffer
    BY <1>2, <2>5 DEF RestoreBuffer, LoadSnapshot, FewStored, Few, Buffered
  <2>6. CASE UNCHANGED bufferVars
    BY <1>2, <2>6 DEF bufferVars, FewStored, Few, Buffered
  <2>7. QED BY <1>2, <2>2, <2>3, <2>4, <2>5, <2>6 DEF BufferNext
<1>3. FewStored => CountWithinLimit
  BY DEF FewStored, Few, CountWithinLimit
<1>4. QED BY <1>1, <1>2, <1>3, PTL DEF BufferSpec

-----------------------------------------------------------------------------
(* The sum of the sizes of a set of writes.                                *)

\* The bytes of one write, and of the writes in S.
Pieces(i) == {i} \X (1..SizeOf[i])
Units(S)  == UNION {Pieces(i) : i \in S}

LEMMA PiecesOfOne ==
  ASSUME NEW i \in Ids
  PROVE  IsFiniteSet(Pieces(i)) /\ Cardinality(Pieces(i)) = SizeOf[i]
<1>1. SizeOf[i] \in Nat
  BY BufferAssumption
<1>2. IsFiniteSet(1..SizeOf[i]) /\ Cardinality(1..SizeOf[i]) = SizeOf[i]
  BY <1>1, FS_Interval, SMTT(30)
<1>3. IsFiniteSet({i}) /\ Cardinality({i}) = 1
  BY FS_Singleton
<1>4. /\ IsFiniteSet(Pieces(i))
      /\ Cardinality(Pieces(i)) = 1 * SizeOf[i]
  BY <1>2, <1>3, FS_Product, ZenonT(60) DEF Pieces
<1> QED BY <1>1, <1>4

LEMMA UnitsAreFinite ==
  ASSUME NEW S \in SUBSET Ids
  PROVE  IsFiniteSet(Units(S)) /\ Cardinality(Units(S)) \in Nat
<1> DEFINE pieces == [i \in S |-> Pieces(i)]
           All == {Pieces(i) : i \in S}
<1>1. IsFiniteSet(S)
  BY BufferAssumption, FS_Subset
<1>2. pieces \in Surjection(S, All)
  BY DEF Surjection
<1>3. IsFiniteSet(All)
  BY <1>1, <1>2, FS_Surjection
<1>4. \A T \in All : IsFiniteSet(T)
  BY PiecesOfOne
<1> QED BY <1>3, <1>4, FS_UNION, FS_CardinalityType DEF Units

LEMMA UnitsOfUnion ==
  ASSUME NEW S \in SUBSET Ids, NEW T \in SUBSET Ids, S \cap T = {}
  PROVE  Cardinality(Units(S \cup T)) = Cardinality(Units(S)) + Cardinality(Units(T))
<1>1. Units(S \cup T) = Units(S) \cup Units(T)
  BY DEF Units
<1>2. Units(S) \cap Units(T) = {}
  BY DEF Units, Pieces
<1>3. Cardinality(Units(S) \cap Units(T)) = 0
  BY <1>2, FS_EmptySet
<1>4. /\ IsFiniteSet(Units(S)) /\ Cardinality(Units(S)) \in Nat
      /\ IsFiniteSet(Units(T)) /\ Cardinality(Units(T)) \in Nat
  BY UnitsAreFinite
<1>5. Cardinality(Units(S) \cup Units(T)) =
        Cardinality(Units(S)) + Cardinality(Units(T)) - Cardinality(Units(S) \cap Units(T))
  BY <1>4, FS_Union
<1>6. Cardinality(Units(S \cup T)) = Cardinality(Units(S)) + Cardinality(Units(T)) - 0
  BY <1>1, <1>3, <1>5
<1> HIDE DEF Units
<1> QED BY <1>4, <1>6

LEMMA UnitsOfOne ==
  ASSUME NEW i \in Ids
  PROVE  Cardinality(Units({i})) = SizeOf[i]
<1>1. Units({i}) = Pieces(i)
  BY DEF Units
<1> QED BY <1>1, PiecesOfOne

\* The fold of MapThenSumSet counts the bytes, whatever order it takes.
LEMMA BytesAreCounted ==
  ASSUME NEW S \in SUBSET Ids
  PROVE  Bytes(S) = Cardinality(Units(S))
<1> DEFINE first(s) == CHOOSE x \in s : TRUE
           Unfold(g, s) == IF s = {} THEN 0 ELSE SizeOf[first(s)] + g[s \ {first(s)}]
           iter == CHOOSE g : g = [s \in SUBSET S |-> Unfold(g, s)]
           count == [s \in SUBSET S |-> Cardinality(Units(s))]
<1>1. Bytes(S) = iter[S]
  BY DEF Bytes, MapThenSumSet, MapThenFoldSet
<1>2. ASSUME NEW s \in SUBSET S PROVE count[s] = Unfold(count, s)
  <2>1. CASE s = {}
    <3>1. Units(s) = {}
      BY <2>1 DEF Units
    <3> QED BY <2>1, <3>1, FS_EmptySet
  <2>2. CASE s # {}
    <3>1. PICK x : x = first(s)
      OBVIOUS
    <3>2. x \in s /\ x \in Ids /\ s \ {x} \in SUBSET S
      BY <2>2, <3>1
    <3>3. s = {x} \cup (s \ {x}) /\ {x} \cap (s \ {x}) = {} /\ {x} \in SUBSET Ids /\ s \ {x} \in SUBSET Ids
      BY <3>2
    <3>4. Cardinality(Units(s)) = Cardinality(Units({x})) + Cardinality(Units(s \ {x}))
      BY <3>3, UnitsOfUnion
    <3>5. count[s] = SizeOf[x] + count[s \ {x}]
      BY <3>2, <3>4, UnitsOfOne
    <3> HIDE DEF count, first
    <3> QED BY <2>2, <3>1, <3>5
  <2> QED BY <2>1, <2>2
<1>3. count = [s \in SUBSET S |-> Unfold(count, s)]
  <2> HIDE DEF Unfold
  <2> QED BY <1>2
<1>4. iter = [s \in SUBSET S |-> Unfold(iter, s)]
  <2> HIDE DEF Unfold, count
  <2> QED BY <1>3
<1>5. \A s \in SUBSET S : iter[s] = Unfold(iter, s) /\ count[s] = Unfold(count, s)
  <2> HIDE DEF Unfold, count, iter
  <2> QED BY <1>2, <1>4
<1> DEFINE Bad == {s \in SUBSET S : iter[s] # count[s]}
<1> HIDE DEF iter, count
<1>6. Bad = {}
  <2> SUFFICES ASSUME Bad # {} PROVE FALSE
    OBVIOUS
  <2>1. IsWellFoundedOn(StrictSubsetOrdering(S), SUBSET S)
    BY BufferAssumption, FS_Subset, FS_FiniteSubsetsOfFinite, FS_StrictSubsetOrderingWellFounded
  <2>2. PICK m \in Bad : \A y \in Bad : ~(<<y, m>> \in StrictSubsetOrdering(S))
    BY <2>1, WFMin
  <2>3. CASE m = {}
    BY <1>5, <2>2, <2>3
  <2>4. CASE m # {}
    <3>1. PICK x : x = first(m)
      OBVIOUS
    <3>2. x \in m /\ m \ {x} \in SUBSET S
      BY <2>2, <2>4, <3>1
    <3>3. <<m \ {x}, m>> \in StrictSubsetOrdering(S)
      BY <2>2, <3>2 DEF StrictSubsetOrdering
    <3>4. iter[m \ {x}] = count[m \ {x}]
      BY <2>2, <3>2, <3>3
    <3> HIDE DEF first
    <3>5. iter[m] = SizeOf[x] + iter[m \ {x}] /\ count[m] = SizeOf[x] + count[m \ {x}]
      BY <1>5, <2>2, <2>4, <3>1
    <3> QED BY <2>2, <3>4, <3>5
  <2> QED BY <2>3, <2>4
<1>7. iter[S] = count[S]
  BY <1>6
<1> QED BY <1>1, <1>7 DEF count

\* What is used of sums from here on.
LEMMA BytesAddUp ==
  /\ Bytes({}) = 0
  /\ \A S \in SUBSET Ids : Bytes(S) \in Nat
  /\ \A i \in Ids : Bytes({i}) = SizeOf[i]
  /\ \A S, T \in SUBSET Ids : S \cap T = {} => Bytes(S \cup T) = Bytes(S) + Bytes(T)
<1>1. \A S \in SUBSET Ids : Bytes(S) \in Nat
  BY BytesAreCounted, UnitsAreFinite
<1>2. \A i \in Ids : Bytes({i}) = SizeOf[i]
  BY BytesAreCounted, UnitsOfOne
<1>3. ASSUME NEW S \in SUBSET Ids, NEW T \in SUBSET Ids, S \cap T = {}
      PROVE  Bytes(S \cup T) = Bytes(S) + Bytes(T)
  <2>1. Bytes(S) = Cardinality(Units(S)) /\ Bytes(T) = Cardinality(Units(T))
    BY BytesAreCounted
  <2>2. S \cup T \in SUBSET Ids
    OBVIOUS
  <2>3. Bytes(S \cup T) = Cardinality(Units(S \cup T))
    BY <2>2, BytesAreCounted
  <2> QED BY <1>3, <2>1, <2>3, UnitsOfUnion
<1>4. Bytes({}) = 0
  <2>1. Units({}) = {} /\ {} \in SUBSET Ids
    BY DEF Units
  <2> QED BY <2>1, BytesAreCounted, FS_EmptySet
<1> QED BY <1>1, <1>2, <1>3, <1>4

LEMMA BytesOfPart ==
  ASSUME NEW S \in SUBSET Ids, NEW T \in SUBSET S
  PROVE  Bytes(S \ T) = Bytes(S) - Bytes(T) /\ Bytes(T) <= Bytes(S)
<1>1. S = (S \ T) \cup T /\ (S \ T) \cap T = {} /\ S \ T \in SUBSET Ids /\ T \in SUBSET Ids
  OBVIOUS
<1>2. Bytes(S) = Bytes(S \ T) + Bytes(T)
  BY <1>1, BytesAddUp
<1>3. Bytes(S) \in Nat /\ Bytes(S \ T) \in Nat /\ Bytes(T) \in Nat
  BY <1>1, BytesAddUp
<1> QED BY <1>2, <1>3

-----------------------------------------------------------------------------
(* MaxBufferSizeBytes.                                                     *)

\* Enough room for the writes in S, or S is a single write too large for it.
Fits(S) == MaxBufferSizeBytes > 0 => Bytes(S) <= MaxBufferSizeBytes \/ Cardinality(S) = 1

\* The snapshot is within the limit too: a restored snapshot becomes the buffer,
\* with its bytes summed anew.
BytesInv ==
  /\ BufferTypeOK
  /\ bytes >= Bytes(Buffered)
  /\ Fits(Buffered) /\ Fits(DOMAIN disk)

LEMMA LessStillFits ==
  ASSUME NEW S \in SUBSET Ids, Fits(S), NEW T \in SUBSET S
  PROVE  Fits(T)
<1>1. Bytes(T) <= Bytes(S) /\ Bytes(T) \in Nat /\ Bytes(S) \in Nat
  BY BytesOfPart, BytesAddUp
<1>2. IsFiniteSet(S) /\ IsFiniteSet(T)
  BY BufferAssumption, FS_Subset
<1>3. CASE Cardinality(S) = 1
  <2>1. PICK x : S = {x}
    BY <1>2, <1>3, FS_Singleton
  <2>2. T = S \/ T = {}
    BY <2>1
  <2> QED BY <1>3, <2>2, BytesAddUp, BufferAssumption DEF Fits
<1>4. CASE Cardinality(S) # 1
  BY <1>1, <1>4, BufferAssumption DEF Fits
<1> QED BY <1>3, <1>4

\* The first check evicts writes of the buffer, the second others of them.
LEMMA VictimsArePart ==
  ASSUME NEW S, NEW count, NEW free, NEW E \in Victims(S, count, free)
  PROVE  E \in SUBSET S
BY DEF Victims

\* After both checks the counter and the write that comes in are within the
\* limit, or everything else has gone.
LEMMA EvictionFreesEnough ==
  ASSUME Buffered \in SUBSET Ids, bytes \in Int, NEW i \in Ids, NEW E1 \in SUBSET Buffered,
         NEW E2 \in ByBytes(i, E1), MaxBufferSizeBytes > 0
  PROVE  \/ bytes - Bytes(E1) - Bytes(E2) + SizeOf[i] <= MaxBufferSizeBytes
         \/ E1 \cup E2 = Buffered
<1>1. Bytes(E1) \in Nat /\ SizeOf[i] \in Nat /\ MaxBufferSizeBytes \in Nat
  BY BytesAddUp, BufferAssumption
<1>2. Excess(i, E1) \in Int /\ Excess(i, E1) = bytes - Bytes(E1) + SizeOf[i] - MaxBufferSizeBytes
  BY <1>1 DEF Excess
<1>3. CASE Excess(i, E1) > 0
  <2>1. E2 \in Victims(Buffered \ E1, 0, Excess(i, E1))
    BY <1>3 DEF ByBytes
  <2>2. CASE Buffered \ E1 = {}
    BY <2>1, <2>2 DEF Victims
  <2>3. CASE Buffered \ E1 # {}
    <3>1. E2 = Buffered \ E1 \/ FreedEnough(E2, 0, Excess(i, E1))
      BY <1>2, <1>3, <2>1, <2>3 DEF Victims
    <3>2. CASE FreedEnough(E2, 0, Excess(i, E1))
      <4>1. Bytes(E2) >= Excess(i, E1)
        BY <3>2 DEF FreedEnough
      <4>2. E2 \in SUBSET Ids
        BY <2>1, VictimsArePart
      <4>3. Bytes(E2) \in Nat
        BY <4>2, BytesAddUp
      <4> QED BY <1>1, <1>2, <4>1, <4>3
    <3> QED BY <3>1, <3>2
  <2> QED BY <2>2, <2>3
<1>4. CASE ~(Excess(i, E1) > 0)
  <2>1. E2 = {}
    BY <1>4 DEF ByBytes
  <2>2. Bytes(E2) = 0
    BY <2>1, BytesAddUp
  <2> QED BY <1>1, <1>2, <1>4, <2>2
<1> QED BY <1>3, <1>4

LEMMA WriteKeepsBytes ==
  ASSUME BytesInv, NEW i \in Ids, BufferWrite(i)
  PROVE  BytesInv'
<1> DEFINE New(E) == [j \in (Buffered \ E) \cup {i} |->
                        IF j = i
                        THEN [status |-> "PENDING", retries |-> 0, createdAt |-> stamp + 1]
                        ELSE buffer[j]]
<1>0. PICK E1 \in ByCount(i) : \E E2 \in ByBytes(i, E1) :
        buffer' = New(E1 \cup E2) /\ bytes' = AddedBytes(i, E1 \cup E2)
  BY DEF BufferWrite
<1>1. PICK E2 \in ByBytes(i, E1) :
        buffer' = New(E1 \cup E2) /\ bytes' = AddedBytes(i, E1 \cup E2)
  BY <1>0
<1> DEFINE E == E1 \cup E2
           Kept == Buffered \ E
<1>2. /\ Buffered \in SUBSET Ids /\ buffer \in [Buffered -> BufferedWrite]
      /\ bytes \in Int /\ stamp \in 0..MaxStamp
  BY DEF BytesInv, BufferTypeOK, Buffered
<1>3. E1 \in SUBSET Buffered
  BY VictimsArePart DEF ByCount
<1>4. E2 \in SUBSET (Buffered \ E1)
  BY VictimsArePart DEF ByBytes
<1>5. Buffered' = Kept \cup {i}
  BY <1>1 DEF Buffered
<1>6. buffer' \in [Kept \cup {i} -> BufferedWrite]
  <2>1. stamp + 1 \in 1..MaxStamp
    BY <1>2, BufferAssumption DEF BufferWrite
  <2>2. [status |-> "PENDING", retries |-> 0, createdAt |-> stamp + 1] \in BufferedWrite
    BY <2>1 DEF BufferedWrite, BufferedWriteStatus
  <2> HIDE DEF BufferedWrite
  <2> QED BY <1>1, <1>2, <2>2
<1>7. /\ Bytes(E) = Bytes(E1) + Bytes(E2)
      /\ Bytes(Kept) = Bytes(Buffered) - Bytes(E)
      /\ {Bytes(E1), Bytes(E2), Bytes(E), Bytes(Kept), Bytes(Buffered), SizeOf[i]} \subseteq Nat
  <2>1. E1 \cap E2 = {} /\ E1 \in SUBSET Ids /\ E2 \in SUBSET Ids /\ E \in SUBSET Buffered
        /\ E \in SUBSET Ids /\ Kept \in SUBSET Ids
    BY <1>2, <1>3, <1>4
  <2>2. Bytes(E) = Bytes(E1) + Bytes(E2)
    BY <2>1, BytesAddUp
  <2>3. Bytes(Kept) = Bytes(Buffered) - Bytes(E)
    BY <1>2, <2>1, BytesOfPart
  <2> QED BY <1>2, <2>1, <2>2, <2>3, BytesAddUp, BufferAssumption
<1>8. bytes' = bytes - Bytes(E) + SizeOf[i] /\ bytes' \in Int
  BY <1>1, <1>2, <1>7 DEF AddedBytes
<1>9. Bytes(Kept \cup {i}) <= Bytes(Kept) + SizeOf[i] /\ Bytes(Kept \cup {i}) \in Nat
  <2>1. Kept \in SUBSET Ids /\ {i} \in SUBSET Ids /\ Kept \cup {i} \in SUBSET Ids
    BY <1>2
  <2>2. CASE i \in Kept
    <3>1. Kept \cup {i} = Kept
      BY <2>2
    <3>2. Bytes(Kept \cup {i}) = Bytes(Kept)
      BY <3>1
    <3>3. Bytes(Kept) \in Nat /\ SizeOf[i] \in Nat
      BY <1>7
    <3> HIDE DEF Kept
    <3> QED BY <3>2, <3>3
  <2>3. CASE i \notin Kept
    <3>1. Kept \cap {i} = {}
      BY <2>3
    <3>2. Bytes(Kept \cup {i}) = Bytes(Kept) + Bytes({i})
      BY <2>1, <3>1, BytesAddUp
    <3>3. Bytes({i}) = SizeOf[i]
      BY BytesAddUp
    <3> QED BY <1>7, <3>2, <3>3
  <2> QED BY <2>2, <2>3
<1> HIDE DEF E, Kept
<1>10. bytes' >= Bytes(Kept \cup {i})
  <2>1. bytes >= Bytes(Buffered)
    BY DEF BytesInv
  <2> QED BY <1>2, <1>7, <1>8, <1>9, <2>1
<1>11. Fits(Kept \cup {i})
  <2> SUFFICES ASSUME MaxBufferSizeBytes > 0
               PROVE  Bytes(Kept \cup {i}) <= MaxBufferSizeBytes \/ Cardinality(Kept \cup {i}) = 1
    BY DEF Fits
  <2>1. CASE bytes - Bytes(E1) - Bytes(E2) + SizeOf[i] <= MaxBufferSizeBytes
    <3>1. bytes' <= MaxBufferSizeBytes
      BY <1>2, <1>7, <1>8, <2>1
    <3> QED BY <1>8, <1>9, <1>10, <3>1, BufferAssumption
  <2>2. CASE E1 \cup E2 = Buffered
    <3>1. Kept \cup {i} = {i}
      BY <2>2 DEF Kept, E
    <3> QED BY <3>1, FS_Singleton
  <2> QED BY <1>2, <1>3, <1>1, <2>1, <2>2, EvictionFreesEnough
<1>12. stamp' \in 0..MaxStamp /\ disk' = disk /\ saved' = saved
  BY <1>2, BufferAssumption DEF BufferWrite
<1>13. Kept \cup {i} \in SUBSET Ids
  BY <1>2 DEF Kept
<1>14. BufferTypeOK'
  BY <1>6, <1>8, <1>12, <1>13 DEF BytesInv, BufferTypeOK
<1>15. Fits(Buffered)' /\ Fits(DOMAIN disk)'
  BY <1>5, <1>11, <1>12 DEF BytesInv, Fits
<1>16. (bytes >= Bytes(Buffered))'
  BY <1>5, <1>10
<1> QED BY <1>14, <1>15, <1>16 DEF BytesInv

LEMMA DropKeepsBytes ==
  ASSUME BytesInv, NEW S, Drop(S), UNCHANGED <<stamp, disk, saved>>
  PROVE  BytesInv'
<1>1. /\ Buffered \in SUBSET Ids /\ buffer \in [Buffered -> BufferedWrite]
      /\ bytes \in Int /\ bytes >= Bytes(Buffered) /\ Fits(Buffered)
  BY DEF BytesInv, BufferTypeOK, Buffered
<1>2. /\ Buffered' = Buffered \ S /\ buffer' = [j \in Buffered \ S |-> buffer[j]]
      /\ bytes' = bytes - Bytes(S \cap Buffered)
  BY DEF Drop, Keep, Buffered
<1>3. buffer' \in [Buffered \ S -> BufferedWrite]
  <2> HIDE DEF BufferedWrite
  <2> QED BY <1>1, <1>2
<1>4. Buffered \ S = Buffered \ (S \cap Buffered) /\ S \cap Buffered \in SUBSET Buffered
      /\ S \cap Buffered \in SUBSET Ids
  BY <1>1
<1>5. Bytes(Buffered \ S) = Bytes(Buffered) - Bytes(S \cap Buffered)
  BY <1>1, <1>4, BytesOfPart
<1>6. Bytes(S \cap Buffered) \in Nat /\ Bytes(Buffered) \in Nat
  BY <1>1, <1>4, BytesAddUp
<1>7. bytes' \in Int /\ bytes' >= Bytes(Buffered \ S)
  BY <1>1, <1>2, <1>5, <1>6
<1>8. Fits(Buffered \ S)
  BY <1>1, LessStillFits
<1>9. BufferTypeOK'
  <2>1. Buffered \ S \in SUBSET Ids
    BY <1>1
  <2> QED BY <1>3, <1>7, <2>1 DEF BytesInv, BufferTypeOK
<1>10. Fits(Buffered)' /\ Fits(DOMAIN disk)'
  BY <1>2, <1>8 DEF BytesInv, Fits
<1>11. (bytes >= Bytes(Buffered))'
  BY <1>2, <1>7
<1> QED BY <1>9, <1>10, <1>11 DEF BytesInv

LEMMA SnapshotKeepsBytes ==
  ASSUME BytesInv, PersistBuffer \/ LoadSnapshot \/ UNCHANGED bufferVars
  PROVE  BytesInv'
<1>1. CASE PersistBuffer
  BY <1>1 DEF PersistBuffer, BytesInv, BufferTypeOK, Fits, Buffered
<1>2. CASE LoadSnapshot
  <2>1. /\ buffer' = disk /\ bytes' = Bytes(DOMAIN disk) /\ stamp' = stamp /\ disk' = disk /\ saved' = saved
        /\ Buffered' = DOMAIN disk
    BY <1>2 DEF LoadSnapshot, Buffered
  <2>2. DOMAIN disk \in SUBSET Ids
    BY DEF BytesInv, BufferTypeOK
  <2>3. Bytes(DOMAIN disk) \in Nat
    BY <2>2, BytesAddUp
  <2>4. BufferTypeOK'
    BY <2>1, <2>3 DEF BytesInv, BufferTypeOK
  <2>5. (bytes >= Bytes(Buffered))' /\ Fits(Buffered)' /\ Fits(DOMAIN disk)'
    BY <2>1, <2>3 DEF BytesInv, Fits
  <2> QED BY <2>4, <2>5 DEF BytesInv
<1>3. CASE UNCHANGED bufferVars
  BY <1>3 DEF bufferVars, BytesInv, BufferTypeOK, Fits, Buffered
<1> QED BY <1>1, <1>2, <1>3

LEMMA BytesInitially == BufferInit => BytesInv
<1> SUFFICES ASSUME BufferInit PROVE BytesInv
  OBVIOUS
<1>1. Buffered = {} /\ DOMAIN disk = {} /\ bytes = 0 /\ stamp = 0 /\ saved = FALSE
  BY DEF BufferInit, Buffered
<1>2. buffer \in [{} -> BufferedWrite] /\ disk \in [{} -> BufferedWrite]
  BY DEF BufferInit
<1>3. BufferTypeOK
  <2>1. {} \in SUBSET Ids /\ 0 \in 0..MaxStamp
    BY BufferAssumption
  <2> HIDE DEF BufferedWrite
  <2>2. (\E S \in SUBSET Ids : buffer \in [S -> BufferedWrite]) /\ (\E S \in SUBSET Ids : disk \in [S -> BufferedWrite])
    BY <1>2, <2>1
  <2>3. bytes \in Int /\ stamp \in 0..MaxStamp
    BY <1>1, <2>1
  <2>4. saved \in BOOLEAN
    BY DEF BufferInit
  <2> QED BY <2>2, <2>3, <2>4 DEF BufferTypeOK
<1>4. Bytes({}) = 0 /\ Fits({})
  BY BytesAddUp, BufferAssumption DEF Fits
<1> QED BY <1>1, <1>3, <1>4 DEF BytesInv

LEMMA NextKeepsBytes == BytesInv /\ BufferNext => BytesInv'
<1> SUFFICES ASSUME BytesInv, BufferNext PROVE BytesInv'
  OBVIOUS
<1>1. CASE \E i \in Ids : BufferWrite(i)
  BY <1>1, WriteKeepsBytes
<1>2. CASE \/ \E i \in Ids : RemoveBufferedWrite(i)
           \/ \E K \in SUBSET Keys : FlushBuffer(K)
           \/ \E S \in SUBSET Ids : CleanExpiredWrites(S)
  BY <1>2, DropKeepsBytes DEF RemoveBufferedWrite, FlushBuffer, CleanExpiredWrites
<1>3. CASE PersistBuffer
  BY <1>3, SnapshotKeepsBytes
<1> QED BY <1>1, <1>2, <1>3 DEF BufferNext

LEMMA BytesInvIsEnough == BytesInv => BytesWithinLimit /\ BufferTypeOK
BY DEF BytesInv, BytesWithinLimit, Fits

\* The counter never says less than the buffer holds, and the buffer never holds
\* more than MaxBufferSizeBytes unless it is a single write, whatever is
\* resubmitted, evicted, expired, flushed or restored.
THEOREM BytesSafe == BufferSpec => []BytesWithinLimit
<1>1. ASSUME BytesInv, [BufferNext \/ RestoreBuffer]_bufferVars PROVE BytesInv'
  BY <1>1, NextKeepsBytes, SnapshotKeepsBytes DEF RestoreBuffer
<1> QED BY BytesInitially, <1>1, BytesInvIsEnough, PTL DEF BufferSpec

-----------------------------------------------------------------------------
(* Executors.                                                              *)

Outcomes == Final \cup {"none"}
Running  == {"new", "registered", "check", "attempt", "retry"}
Returned == {"returned", "over"}
Program  == Running \cup Returned \cup {"commit", "done", "failed", "cancelled"}
Frame    == [at : Program, retries : 0..MaxRetries, statement : 1..(BatchSize + 1), written : SUBSET (1..BatchSize)]

\* What the executor is going to say has been done, or has said.
Succeeded(e) == IsAt(e, "done") \/ answer[e] = "nil"

(* How often a statement took effect without an error for an answer: once  *)
(* the executor has succeeded, or, in a batch without a transaction, once  *)
(* the statement is reported as completed.                                 *)
Owed(e, i) ==
  CASE kind[e] = "query" -> 0
    [] kind[e] \in {"write", "transaction"} -> IF Succeeded(e) THEN 1 ELSE 0
    [] kind[e] = "batch" -> IF results[e][i] = "COMPLETED" THEN 1 ELSE 0
    [] OTHER -> IF Succeeded(e) /\ results[e][i] = "COMPLETED" THEN 1 ELSE 0

(* The statements reported as completed come before the current one, and   *)
(* are those that the open transaction holds.                              *)
Sound(e) ==
  /\ execution[e].written \subseteq Indices(e)
  /\ results[e] \in [Indices(e) -> Outcomes]
  /\ applied[e] \in [Indices(e) -> Nat] /\ unanswered[e] \in [Indices(e) -> Nat]
  /\ answer[e] = "none" <=> execution[e].at \notin Returned
  /\ execution[e].at \in Running => execution[e].statement \in Indices(e)
  /\ IsAt(e, "commit") => kind[e] = "batchTransaction"
  /\ IsAt(e, "retry") => kind[e] # "batchTransaction"
  /\ \A i \in Indices(e) :
       /\ applied[e][i] = unanswered[e][i] + Owed(e, i)
       /\ IsBatch(e) /\ i >= execution[e].statement => results[e][i] # "COMPLETED"
       /\ kind[e] = "batchTransaction" => (i \in execution[e].written <=> results[e][i] = "COMPLETED")

OfExecutors(f) == f = [e \in Executors |-> f[e]]

ExecutorsInv ==
  /\ kind \in [Executors -> Kinds] /\ failFast \in [Executors -> BOOLEAN] /\ active \subseteq Executors
  /\ execution \in [Executors -> Frame]
  /\ OfExecutors(results) /\ OfExecutors(applied) /\ OfExecutors(unanswered)
  /\ statusOf \in [Executors -> Final \cup {"PENDING", "RUNNING"}]
  /\ context \in [Executors -> {"none", "live", "cancelled", "expired"}]
  /\ canceller \in [Executors -> {"none", "found", "call", "set", "done", "refused"}]
  /\ answer \in [Executors -> {"none", "nil", "error"}]
  /\ \A e \in Executors : Sound(e)

LEMMA ExecutorsInitially == ExecutorInit => ExecutorsInv
<1> SUFFICES ASSUME ExecutorInit PROVE ExecutorsInv
  OBVIOUS
<1>1. execution \in [Executors -> Frame]
  <2>1. [at |-> "new", retries |-> 0, statement |-> 1, written |-> {}] \in Frame
    BY ExecutorAssumption DEF Frame, Program, Running
  <2> QED BY <2>1 DEF ExecutorInit
<1>2. ASSUME NEW e \in Executors PROVE Sound(e)
  <2>1. execution[e].at = "new" /\ execution[e].statement = 1 /\ execution[e].written = {} /\ answer[e] = "none"
    BY DEF ExecutorInit
  <2>2. \A i \in Indices(e) : results[e][i] = "none" /\ applied[e][i] = 0 /\ unanswered[e][i] = 0
    BY DEF ExecutorInit
  <2>3. results[e] \in [Indices(e) -> Outcomes] /\ applied[e] \in [Indices(e) -> Nat] /\ unanswered[e] \in [Indices(e) -> Nat]
    BY DEF ExecutorInit, Outcomes
  <2>4. 1 \in Indices(e)
    BY ExecutorAssumption DEF Indices
  <2>5. ~Succeeded(e)
    BY <2>1 DEF Succeeded, IsAt
  <2>6. \A i \in Indices(e) : Owed(e, i) = 0
    BY <2>2, <2>5 DEF Owed
  <2> QED BY <2>1, <2>2, <2>3, <2>4, <2>6 DEF Sound, Returned, IsAt
<1> QED BY <1>1, <1>2 DEF ExecutorInit, ExecutorsInv, OfExecutors

\* A step of one executor leaves the others as they are.
LEMMA OthersStaySound ==
  ASSUME ExecutorsInv, NEW e \in Executors, UNCHANGED <<kind, failFast>>, Sound(e)',
         \A d \in Executors \ {e} :
           /\ execution'[d] = execution[d] /\ results'[d] = results[d] /\ applied'[d] = applied[d]
           /\ unanswered'[d] = unanswered[d] /\ answer'[d] = answer[d]
  PROVE  \A d \in Executors : Sound(d)'
<1> SUFFICES ASSUME NEW d \in Executors \ {e} PROVE Sound(d)'
  OBVIOUS
<1>1. /\ execution'[d] = execution[d] /\ results'[d] = results[d] /\ applied'[d] = applied[d]
      /\ unanswered'[d] = unanswered[d] /\ answer'[d] = answer[d] /\ kind'[d] = kind[d]
  OBVIOUS
<1>2. Sound(d)
  BY DEF ExecutorsInv
<1>3. Indices(d)' = Indices(d) /\ IsBatch(d)' = IsBatch(d)
  BY <1>1 DEF Indices, IsBatch
<1>4. \A i : Owed(d, i)' = Owed(d, i)
  BY <1>1 DEF Owed, Succeeded, IsAt
<1> QED BY <1>1, <1>2, <1>3, <1>4 DEF Sound, IsAt

\* The executor moves on, and neither succeeds by it nor has succeeded.
LEMMA MoveKeepsSound ==
  ASSUME ExecutorsInv, NEW e \in Executors, UNCHANGED <<kind, failFast>>,
         NEW p \in Program \ {"done", "commit", "retry"}, Move(e, p),
         ~IsAt(e, "done"), p \in Returned <=> execution[e].at \in Returned,
         p \in Running => execution[e].at \in Running,
         UNCHANGED <<results, applied, unanswered, answer>>
  PROVE  execution' \in [Executors -> Frame] /\ \A d \in Executors : Sound(d)'
<1>1. execution[e] \in Frame /\ Sound(e)
  BY DEF ExecutorsInv
<1>2. /\ execution'[e].at = p /\ execution'[e].statement = execution[e].statement
      /\ execution'[e].written = execution[e].written
  BY <1>1 DEF ExecutorsInv, Move, Frame
<1>3. execution' \in [Executors -> Frame]
  BY <1>1 DEF ExecutorsInv, Move, Frame
<1>4. \A d \in Executors \ {e} : execution'[d] = execution[d]
  BY DEF ExecutorsInv, Move
<1>5. Indices(e)' = Indices(e) /\ IsBatch(e)' = IsBatch(e)
  BY DEF Indices, IsBatch
<1>6. \A i : Owed(e, i)' = Owed(e, i)
  BY <1>2 DEF Owed, Succeeded, IsAt
<1>7. Sound(e)'
  BY <1>1, <1>2, <1>5, <1>6 DEF Sound, IsAt
<1> QED BY <1>3, <1>4, <1>7, OthersStaySound

\* The executor stays where it is or moves on, with an effect that no answer
\* told of: the same is added to both histories.
LEMMA ErrsKeepsSound ==
  ASSUME ExecutorsInv, NEW e \in Executors, NEW times \in 0..1, Errs(e, times)
  PROVE  /\ OfExecutors(applied') /\ OfExecutors(unanswered')
         /\ \A d \in Executors \ {e} : applied'[d] = applied[d] /\ unanswered'[d] = unanswered[d]
         /\ applied'[e] \in [Indices(e) -> Nat] /\ unanswered'[e] \in [Indices(e) -> Nat]
         /\ \A i \in Indices(e) : applied'[e][i] = unanswered'[e][i] + Owed(e, i)
<1> DEFINE s == execution[e].statement
<1>1. Sound(e) /\ OfExecutors(applied) /\ OfExecutors(unanswered)
  BY DEF ExecutorsInv
<1>2. s \in Indices(e)
  BY <1>1 DEF Sound, Errs, IsAt, Running
<1>3. /\ applied' = [applied EXCEPT ![e][s] = @ + times]
      /\ unanswered' = [unanswered EXCEPT ![e][s] = @ + times]
  BY DEF Errs, Applied
<1>4. /\ applied'[e] = [applied[e] EXCEPT ![s] = @ + times]
      /\ unanswered'[e] = [unanswered[e] EXCEPT ![s] = @ + times]
  BY <1>1, <1>3 DEF OfExecutors
<1>5. OfExecutors(applied') /\ OfExecutors(unanswered')
  BY <1>1, <1>3 DEF OfExecutors
<1>6. \A d \in Executors \ {e} : applied'[d] = applied[d] /\ unanswered'[d] = unanswered[d]
  BY <1>1, <1>3 DEF OfExecutors
<1>7. applied'[e] \in [Indices(e) -> Nat] /\ unanswered'[e] \in [Indices(e) -> Nat]
  <2>1. applied[e] \in [Indices(e) -> Nat] /\ unanswered[e] \in [Indices(e) -> Nat]
    BY <1>1 DEF Sound
  <2> HIDE DEF s
  <2>2. applied[e][s] + times \in Nat /\ unanswered[e][s] + times \in Nat
    BY <1>2, <2>1
  <2> QED BY <1>4, <2>1, <2>2
<1>8. ASSUME NEW i \in Indices(e) PROVE applied'[e][i] = unanswered'[e][i] + Owed(e, i)
  <2>1. applied[e][i] = unanswered[e][i] + Owed(e, i) /\ applied[e][i] \in Nat /\ unanswered[e][i] \in Nat
    BY <1>1 DEF Sound
  <2>2. Owed(e, i) \in Nat
    BY DEF Owed
  <2>3. CASE i = s
    BY <1>1, <1>4, <2>1, <2>2, <2>3 DEF Sound
  <2>4. CASE i # s
    BY <1>1, <1>4, <2>1, <2>4 DEF Sound
  <2> QED BY <2>3, <2>4
<1> QED BY <1>5, <1>6, <1>7, <1>8

\* storeResult: the statement is reported, and if it completed outside a
\* transaction it took effect.
LEMMA StoredKeepsSound ==
  ASSUME ExecutorsInv, NEW e \in Executors, UNCHANGED <<kind, failFast, answer>>,
         NEW result \in Final, Stored(e, result), IsBatch(e), execution[e].at \in {"attempt", "retry"},
         \A d \in Executors \ {e} : applied'[d] = applied[d] /\ unanswered'[d] = unanswered[d],
         applied'[e] \in [Indices(e) -> Nat], unanswered'[e] \in [Indices(e) -> Nat],
         \A i \in Indices(e) : applied'[e][i] = unanswered'[e][i] + Owed(e, i) +
           (IF i = execution[e].statement /\ kind[e] = "batch" /\ result = "COMPLETED" THEN 1 ELSE 0)
  PROVE  OfExecutors(results') /\ execution' \in [Executors -> Frame] /\ \A d \in Executors : Sound(d)'
<1> DEFINE x == execution[e]
           s == execution[e].statement
           next == IF s < BatchSize THEN "check" ELSE IF kind[e] = "batch" THEN "done" ELSE "commit"
           written == IF kind[e] = "batchTransaction" /\ result = "COMPLETED" THEN x.written \cup {s} ELSE x.written
<1>1. x \in Frame /\ Sound(e) /\ OfExecutors(results) /\ execution \in [Executors -> Frame]
  BY DEF ExecutorsInv
<1>2. BatchSize \in Nat \ {0} /\ Indices(e) = 1..BatchSize
  BY ExecutorAssumption DEF Indices
<1>3. s \in 1..BatchSize
  BY <1>1, <1>2 DEF Sound, Running
<1>4. x.written \subseteq 1..BatchSize
  BY <1>1, <1>2 DEF Sound
<1>5. /\ results' = [results EXCEPT ![e][s] = result]
      /\ execution'[e] = [x EXCEPT !.retries = 0, !.statement = s + 1, !.at = next, !.written = written]
      /\ \A d \in Executors \ {e} : execution'[d] = execution[d]
  BY <1>1 DEF Stored
<1>6. execution'[e].at = next /\ execution'[e].statement = s + 1 /\ execution'[e].written = written
  BY <1>1, <1>5 DEF Frame
<1>7. execution'[e] \in Frame
  <2>1. next \in Program
    BY DEF Program, Running
  <2>2. s + 1 \in 1..(BatchSize + 1) /\ 0 \in 0..MaxRetries
    BY <1>2, <1>3, ExecutorAssumption, SMTT(30)
  <2>3. written \in SUBSET (1..BatchSize)
    BY <1>3, <1>4
  <2> HIDE DEF next, written
  <2> QED BY <1>1, <1>5, <2>1, <2>2, <2>3 DEF Frame
<1>8. execution' \in [Executors -> Frame]
  <2>1. execution' = [d \in Executors |-> execution'[d]]
    BY <1>1 DEF Stored
  <2>2. \A d \in Executors : execution'[d] \in Frame
    BY <1>1, <1>5, <1>7
  <2> QED BY <2>1, <2>2
<1>9. OfExecutors(results') /\ (\A d \in Executors \ {e} : results'[d] = results[d])
      /\ results'[e] = [results[e] EXCEPT ![s] = result]
  BY <1>1, <1>5 DEF OfExecutors
<1>10. results'[e] \in [1..BatchSize -> Outcomes] /\ results'[e][s] = result
       /\ \A i \in 1..BatchSize : i # s => results'[e][i] = results[e][i]
  <2>1. results[e] \in [1..BatchSize -> Outcomes] /\ result \in Outcomes
    BY <1>1, <1>2 DEF Sound, Outcomes
  <2> HIDE DEF s
  <2> QED BY <1>3, <1>9, <2>1
<1>11. kind[e] \in {"batch", "batchTransaction"}
  BY DEF IsBatch
<1>12. answer[e] = "none" /\ ~Succeeded(e)
  BY <1>1 DEF Sound, Succeeded, IsAt, Returned
<1>13. \A i \in 1..BatchSize :
         /\ i >= s => results[e][i] # "COMPLETED"
         /\ kind[e] = "batchTransaction" => (i \in x.written <=> results[e][i] = "COMPLETED")
  BY <1>1, <1>2 DEF Sound
<1>14. ASSUME NEW i \in 1..BatchSize
       PROVE  /\ applied'[e][i] = unanswered'[e][i] + Owed(e, i)'
              /\ i >= s + 1 => results'[e][i] # "COMPLETED"
              /\ kind[e] = "batchTransaction" => (i \in written <=> results'[e][i] = "COMPLETED")
  <2>1. CASE kind[e] = "batch"
    <3>1. Owed(e, i)' = IF results'[e][i] = "COMPLETED" THEN 1 ELSE 0
      BY <2>1 DEF Owed
    <3>2. Owed(e, i) = IF results[e][i] = "COMPLETED" THEN 1 ELSE 0
      BY <2>1 DEF Owed
    <3>3. /\ applied'[e][i] \in Nat /\ unanswered'[e][i] \in Nat
          /\ applied'[e][i] = unanswered'[e][i] + Owed(e, i) + (IF i = s /\ result = "COMPLETED" THEN 1 ELSE 0)
      BY <1>2, <2>1
    <3>4. results[e][s] # "COMPLETED"
      BY <1>3, <1>13
    <3>5. i >= s + 1 => results'[e][i] # "COMPLETED"
      BY <1>3, <1>10, <1>13
    <3>6. i = s \/ results'[e][i] = results[e][i]
      BY <1>10
    <3> HIDE DEF s
    <3>7. applied'[e][i] = unanswered'[e][i] + Owed(e, i)'
      BY <1>10, <3>1, <3>2, <3>3, <3>4, <3>6
    <3> QED BY <2>1, <3>5, <3>7
  <2>2. CASE kind[e] = "batchTransaction"
    <3>1. ~Succeeded(e)'
      BY <1>6, <1>12, <2>2 DEF Succeeded, IsAt
    <3>2. Owed(e, i)' = 0 /\ Owed(e, i) = 0
      BY <1>12, <2>2, <3>1 DEF Owed
    <3>3. /\ applied'[e][i] \in Nat /\ unanswered'[e][i] \in Nat
          /\ applied'[e][i] = unanswered'[e][i] + Owed(e, i) + 0
      BY <1>2, <2>2
    <3>4. applied'[e][i] = unanswered'[e][i] + Owed(e, i)'
      BY <3>2, <3>3
    <3>5. i >= s + 1 => results'[e][i] # "COMPLETED"
      BY <1>3, <1>10, <1>13
    <3>6. CASE i = s
      BY <1>3, <1>10, <1>13, <2>2, <3>4, <3>5, <3>6
    <3>7. CASE i # s
      BY <1>10, <1>13, <2>2, <3>4, <3>5, <3>7
    <3> QED BY <3>6, <3>7
  <2> QED BY <1>11, <2>1, <2>2
<1>15. Sound(e)'
  <2>1. Indices(e)' = 1..BatchSize /\ IsBatch(e)'
    BY <1>2 DEF Indices, IsBatch
  <2>2. next \in Running => s + 1 \in 1..BatchSize
    BY <1>2, <1>3 DEF Running
  <2>3. next = "commit" => kind[e] = "batchTransaction"
    BY <1>11
  <2>4. next \notin Returned /\ next # "retry" /\ written \subseteq 1..BatchSize
    BY <1>3, <1>4 DEF Returned
  <2> HIDE DEF next, written
  <2> QED BY <1>2, <1>6, <1>10, <1>12, <1>14, <2>1, <2>2, <2>3, <2>4 DEF Sound, IsAt
<1> QED BY <1>5, <1>8, <1>9, <1>15, OthersStaySound

\* What only the canceller, the clock, the manager and the status show.
Side ==
  /\ active \subseteq Executors
  /\ statusOf \in [Executors -> Final \cup {"PENDING", "RUNNING"}]
  /\ context \in [Executors -> {"none", "live", "cancelled", "expired"}]
  /\ canceller \in [Executors -> {"none", "found", "call", "set", "done", "refused"}]

LEMMA ExecutingKeepsSide == ASSUME ExecutorsInv, NEW e \in Executors, Executing(e) PROVE Side'
<1>1. CASE registerExecutor(e) \/ unregisterExecutor(e)
  BY <1>1 DEF ExecutorsInv, Side, registerExecutor, unregisterExecutor
<1>2. CASE Execute(e) \/ Settle(e)
  BY <1>2 DEF ExecutorsInv, Side, Execute, Settle, SetStatus, callVars, Final
<1>3. CASE CacheHit(e) \/ Check(e) \/ Succeed(e) \/ Retry(e)
  BY <1>3 DEF ExecutorsInv, Side, CacheHit, Check, Succeed, Retry, callVars
<1>4. CASE RetryChecks(e) \/ GiveUp(e) \/ Commit(e) \/ CommitFails(e)
  BY <1>4 DEF ExecutorsInv, Side, RetryChecks, GiveUp, Commit, CommitFails, callVars
<1> QED BY <1>1, <1>2, <1>3, <1>4 DEF Executing

\* A canceller and the clock leave the work and the answer as they are.
LEMMA SideStepKeepsExecutors ==
  ASSUME ExecutorsInv, NEW e \in Executors, Cancelling(e) \/ Expire(e) PROVE ExecutorsInv'
<1>1. UNCHANGED <<kind, failFast, active, execution, results, applied, unanswered, answer>>
  BY DEF Cancelling, CancelExecutor, CancelReads, CancelCalls, CancelSets, Expire, callVars, dataVars
<1>2. Side'
  <2>1. CASE CancelExecutor(e) \/ CancelReads(e)
    BY <1>1, <2>1 DEF ExecutorsInv, Side, CancelExecutor, CancelReads
  <2>2. CASE CancelCalls(e) \/ CancelSets(e) \/ Expire(e)
    BY <1>1, <2>2 DEF ExecutorsInv, Side, CancelCalls, CancelSets, Expire, SetStatus, Final
  <2> QED BY <2>1, <2>2 DEF Cancelling
<1>3. \A d \in Executors : Sound(d)'
  BY <1>1 DEF ExecutorsInv, Sound, Indices, IsBatch, Owed, Succeeded, IsAt
<1> QED BY <1>1, <1>2, <1>3 DEF ExecutorsInv, Side, OfExecutors

\* The steps that only move.
LEMMA MovingKeepsExecutors ==
  ASSUME ExecutorsInv, NEW e \in Executors,
         registerExecutor(e) \/ unregisterExecutor(e) \/ Execute(e) \/ Check(e)
  PROVE  ExecutorsInv'
<1>1. UNCHANGED <<kind, failFast, results, applied, unanswered, answer>>
  BY DEF registerExecutor, unregisterExecutor, Execute, Check, callVars, dataVars
<1>2. PICK p \in Program \ {"done", "commit", "retry"} :
        /\ Move(e, p) /\ (p \in Returned <=> execution[e].at \in Returned)
        /\ p \in Running => execution[e].at \in Running
        /\ ~IsAt(e, "done")
  <2>1. CASE registerExecutor(e)
    BY <2>1 DEF registerExecutor, IsAt, Program, Running, Returned
  <2>2. CASE unregisterExecutor(e)
    BY <2>2 DEF unregisterExecutor, IsAt, Program, Running, Returned
  <2>3. CASE Execute(e)
    BY <2>3 DEF Execute, IsAt, Program, Running, Returned
  <2>4. CASE Check(e)
    <3>1. PICK p \in {"attempt", "cancelled", "failed"} : Move(e, p)
      BY <2>4 DEF Check
    <3> QED BY <2>4, <3>1 DEF Check, IsAt, Program, Running, Returned
  <2> QED BY <2>1, <2>2, <2>3, <2>4
<1>3. execution' \in [Executors -> Frame] /\ \A d \in Executors : Sound(d)'
  BY <1>1, <1>2, MoveKeepsSound
<1>4. Side'
  BY ExecutingKeepsSide DEF Executing
<1> QED BY <1>1, <1>3, <1>4 DEF ExecutorsInv, Side, OfExecutors

(* The executor succeeds or answers: what it owes is what it has done.     *)
LEMMA AnsweringKeepsSound ==
  ASSUME ExecutorsInv, NEW e \in Executors, UNCHANGED <<kind, failFast, results>>,
         NEW p \in {"done", "failed", "returned"}, Move(e, p),
         \A d \in Executors \ {e} :
           applied'[d] = applied[d] /\ unanswered'[d] = unanswered[d] /\ answer'[d] = answer[d],
         answer'[e] = "none" <=> p # "returned",
         applied'[e] \in [Indices(e) -> Nat], unanswered'[e] \in [Indices(e) -> Nat],
         \A i \in Indices(e) : applied'[e][i] = unanswered'[e][i] + Owed(e, i)'
  PROVE  execution' \in [Executors -> Frame] /\ \A d \in Executors : Sound(d)'
<1>1. execution[e] \in Frame /\ Sound(e)
  BY DEF ExecutorsInv
<1>2. /\ execution'[e].at = p /\ execution'[e].statement = execution[e].statement
      /\ execution'[e].written = execution[e].written
  BY <1>1 DEF ExecutorsInv, Move, Frame
<1>3. execution' \in [Executors -> Frame]
  BY <1>1 DEF ExecutorsInv, Move, Frame, Program, Returned
<1>4. \A d \in Executors \ {e} : execution'[d] = execution[d]
  BY DEF ExecutorsInv, Move
<1>5. Indices(e)' = Indices(e) /\ IsBatch(e)' = IsBatch(e)
  BY DEF Indices, IsBatch
<1>6. Sound(e)'
  BY <1>1, <1>2, <1>5 DEF Sound, IsAt, Returned, Running
<1> QED BY <1>3, <1>4, <1>6, OthersStaySound

LEMMA CacheHitKeepsExecutors == ASSUME ExecutorsInv, NEW e \in Executors, CacheHit(e) PROVE ExecutorsInv'
<1>1. UNCHANGED <<kind, failFast, results, applied, unanswered, answer>> /\ Move(e, "done") /\ kind[e] = "query"
  BY DEF CacheHit, callVars, dataVars
<1>2. Sound(e) /\ execution[e].at = "check"
  BY DEF ExecutorsInv, CacheHit, IsAt
<1>3. answer[e] = "none"
  BY <1>2 DEF Sound, Returned
<1>4. \A i \in Indices(e) : Owed(e, i) = 0 /\ Owed(e, i)' = 0
  BY <1>1 DEF Owed
<1>5. \A i \in Indices(e) : applied'[e][i] = unanswered'[e][i] + Owed(e, i)'
  BY <1>1, <1>2, <1>4 DEF Sound
<1>6. applied'[e] \in [Indices(e) -> Nat] /\ unanswered'[e] \in [Indices(e) -> Nat]
  BY <1>1, <1>2 DEF Sound
<1>7. execution' \in [Executors -> Frame] /\ \A d \in Executors : Sound(d)'
  BY <1>1, <1>3, <1>5, <1>6, AnsweringKeepsSound
<1>8. Side'
  BY ExecutingKeepsSide DEF Executing
<1> QED BY <1>1, <1>7, <1>8 DEF ExecutorsInv, Side, OfExecutors

LEMMA SettleKeepsExecutors == ASSUME ExecutorsInv, NEW e \in Executors, Settle(e) PROVE ExecutorsInv'
<1>1. UNCHANGED <<kind, failFast, results, applied, unanswered>> /\ Move(e, "returned")
  BY DEF Settle, callVars, dataVars
<1>2. Sound(e) /\ execution[e].at \in {"done", "failed", "cancelled"} /\ execution[e] \in Frame
  BY DEF ExecutorsInv, Settle
<1>3. answer[e] = "none"
  BY <1>2 DEF Sound, Returned
<1>4. /\ answer'[e] = (IF execution[e].at = "done" THEN "nil" ELSE "error")
      /\ \A d \in Executors \ {e} : answer'[d] = answer[d]
      /\ answer' \in [Executors -> {"none", "nil", "error"}]
  BY DEF Settle, IsAt, ExecutorsInv
<1>5. execution'[e].at = "returned"
  BY <1>1, <1>2 DEF Move, ExecutorsInv, Frame
<1>6. Succeeded(e)' <=> Succeeded(e)
  BY <1>3, <1>4, <1>5 DEF Succeeded, IsAt
<1>7. \A i \in Indices(e) : Owed(e, i)' = Owed(e, i)
  BY <1>1, <1>6 DEF Owed
<1>8. \A i \in Indices(e) : applied'[e][i] = unanswered'[e][i] + Owed(e, i)'
  BY <1>1, <1>2, <1>7 DEF Sound
<1>9. applied'[e] \in [Indices(e) -> Nat] /\ unanswered'[e] \in [Indices(e) -> Nat]
  BY <1>1, <1>2 DEF Sound
<1>10. answer'[e] # "none"
  BY <1>4
<1>11. execution' \in [Executors -> Frame] /\ \A d \in Executors : Sound(d)'
  BY <1>1, <1>4, <1>8, <1>9, <1>10, AnsweringKeepsSound
<1>12. Side'
  BY ExecutingKeepsSide DEF Executing
<1> QED BY <1>1, <1>4, <1>11, <1>12 DEF ExecutorsInv, Side, OfExecutors

\* An attempt failed: with its executor, or to be tried again.
LEMMA FailingKeepsSound ==
  ASSUME ExecutorsInv, NEW e \in Executors, NEW times \in 0..1, Errs(e, times),
         UNCHANGED <<kind, failFast, results, answer>>,
         execution' \in [Executors -> Frame], \A d \in Executors \ {e} : execution'[d] = execution[d],
         execution'[e].at = "failed" \/ (execution'[e].at = "retry" /\ kind[e] # "batchTransaction"),
         execution'[e].statement = execution[e].statement, execution'[e].written = execution[e].written,
         Side'
  PROVE  ExecutorsInv'
<1>1. Sound(e) /\ execution[e].at = "attempt"
  BY DEF ExecutorsInv, Errs, IsAt
<1>2. /\ OfExecutors(applied') /\ OfExecutors(unanswered')
      /\ \A d \in Executors \ {e} : applied'[d] = applied[d] /\ unanswered'[d] = unanswered[d]
      /\ applied'[e] \in [Indices(e) -> Nat] /\ unanswered'[e] \in [Indices(e) -> Nat]
      /\ \A i \in Indices(e) : applied'[e][i] = unanswered'[e][i] + Owed(e, i)
  BY ErrsKeepsSound
<1>3. Indices(e)' = Indices(e) /\ IsBatch(e)' = IsBatch(e)
  BY DEF Indices, IsBatch
<1>4. \A i : Owed(e, i)' = Owed(e, i)
  BY <1>1 DEF Owed, Succeeded, IsAt
<1>5. Sound(e)'
  BY <1>1, <1>2, <1>3, <1>4 DEF Sound, IsAt, Returned, Running
<1>6. \A d \in Executors : Sound(d)'
  BY <1>2, <1>5, OthersStaySound
<1> QED BY <1>2, <1>6 DEF ExecutorsInv, Side, OfExecutors

LEMMA RetryKeepsExecutors == ASSUME ExecutorsInv, NEW e \in Executors, Retry(e) PROVE ExecutorsInv'
<1>1. PICK times \in 0..1 : Errs(e, times)
  BY DEF Retry
<1>2. /\ execution' = [execution EXCEPT ![e].at = "retry", ![e].retries = @ + 1]
      /\ execution[e].retries < MaxRetries /\ kind[e] # "batchTransaction"
      /\ UNCHANGED <<kind, failFast, results, answer>>
  BY DEF Retry, CanRetry, callVars
<1>3. execution[e] \in Frame /\ execution \in [Executors -> Frame]
  BY DEF ExecutorsInv
<1>4. execution[e].retries + 1 \in 0..MaxRetries
  BY <1>2, <1>3, ExecutorAssumption DEF Frame
<1>5. execution'[e] = [execution[e] EXCEPT !.at = "retry", !.retries = execution[e].retries + 1]
      /\ \A d \in Executors \ {e} : execution'[d] = execution[d]
  BY <1>2, <1>3
<1>6. /\ execution'[e].at = "retry" /\ execution'[e].statement = execution[e].statement
      /\ execution'[e].written = execution[e].written /\ execution'[e] \in Frame
  BY <1>3, <1>4, <1>5 DEF Frame, Program, Running
<1>7. execution' \in [Executors -> Frame]
  <2>1. \A d \in Executors : execution'[d] \in Frame
    BY <1>3, <1>5, <1>6
  <2>2. execution' = [d \in Executors |-> execution'[d]]
    BY <1>2, <1>3
  <2> QED BY <2>1, <2>2
<1>8. Side'
  BY ExecutingKeepsSide DEF Executing
<1> QED BY <1>1, <1>2, <1>5, <1>6, <1>7, <1>8, FailingKeepsSound

\* Of a batch that goes on after an error, the statement is reported as failed.
LEMMA GiveUpKeepsExecutors == ASSUME ExecutorsInv, NEW e \in Executors, GiveUp(e) PROVE ExecutorsInv'
<1>1. PICK times \in 0..1 : Errs(e, times)
  BY DEF GiveUp
<1>2. Side' /\ UNCHANGED <<kind, failFast, answer>>
  BY ExecutingKeepsSide DEF Executing, GiveUp, callVars
<1>3. execution[e].at = "attempt"
  BY <1>1 DEF Errs, IsAt
<1>4. CASE IsBatch(e) /\ ~failFast[e]
  <2>1. Stored(e, "FAILED") /\ "FAILED" \in Final /\ IsBatch(e)
    BY <1>4 DEF GiveUp, Final
  <2>2. /\ OfExecutors(applied') /\ OfExecutors(unanswered')
        /\ \A d \in Executors \ {e} : applied'[d] = applied[d] /\ unanswered'[d] = unanswered[d]
        /\ applied'[e] \in [Indices(e) -> Nat] /\ unanswered'[e] \in [Indices(e) -> Nat]
        /\ \A i \in Indices(e) : applied'[e][i] = unanswered'[e][i] + Owed(e, i)
    BY <1>1, ErrsKeepsSound
  <2>3. \A i \in Indices(e) : applied'[e][i] = unanswered'[e][i] + Owed(e, i) +
          (IF i = execution[e].statement /\ kind[e] = "batch" /\ "FAILED" = "COMPLETED" THEN 1 ELSE 0)
    <3>1. \A i \in Indices(e) : Owed(e, i) \in Nat /\ unanswered'[e][i] \in Nat
      BY <2>2 DEF Owed
    <3> QED BY <2>2, <3>1
  <2>4. OfExecutors(results') /\ execution' \in [Executors -> Frame] /\ \A d \in Executors : Sound(d)'
    BY <1>2, <1>3, <2>1, <2>2, <2>3, StoredKeepsSound
  <2> QED BY <1>2, <2>2, <2>4 DEF ExecutorsInv, Side, OfExecutors
<1>5. CASE ~(IsBatch(e) /\ ~failFast[e])
  <2>1. Move(e, "failed") /\ UNCHANGED results
    BY <1>5 DEF GiveUp
  <2>2. execution[e] \in Frame /\ execution \in [Executors -> Frame]
    BY DEF ExecutorsInv
  <2>3. /\ execution'[e].at = "failed" /\ execution'[e].statement = execution[e].statement
        /\ execution'[e].written = execution[e].written
        /\ \A d \in Executors \ {e} : execution'[d] = execution[d]
        /\ execution' \in [Executors -> Frame]
    BY <2>1, <2>2 DEF Move, Frame, Program
  <2> QED BY <1>1, <1>2, <2>1, <2>3, FailingKeepsSound
<1> QED BY <1>4, <1>5

LEMMA RetryChecksKeepsExecutors == ASSUME ExecutorsInv, NEW e \in Executors, RetryChecks(e) PROVE ExecutorsInv'
<1>1. Side' /\ UNCHANGED <<kind, failFast, applied, unanswered, answer>> /\ execution[e].at = "retry"
  BY ExecutingKeepsSide DEF Executing, RetryChecks, callVars, IsAt
<1>2. Sound(e)
  BY DEF ExecutorsInv
<1>3. CASE context[e] # "live" /\ kind[e] = "batch" /\ ~failFast[e]
  <2>1. PICK result \in {"CANCELLED", "FAILED"} : Stored(e, result)
    BY <1>3 DEF RetryChecks
  <2>2. result \in Final /\ result # "COMPLETED" /\ IsBatch(e)
    BY <1>3, <2>1 DEF Final, IsBatch
  <2>3. \A i \in Indices(e) : applied'[e][i] = unanswered'[e][i] + Owed(e, i) +
          (IF i = execution[e].statement /\ kind[e] = "batch" /\ result = "COMPLETED" THEN 1 ELSE 0)
    <3>1. \A i \in Indices(e) : Owed(e, i) \in Nat /\ unanswered[e][i] \in Nat
                                /\ applied[e][i] = unanswered[e][i] + Owed(e, i)
      BY <1>2 DEF Owed, Sound
    <3> QED BY <1>1, <2>2, <3>1
  <2>4. applied'[e] \in [Indices(e) -> Nat] /\ unanswered'[e] \in [Indices(e) -> Nat]
    BY <1>1, <1>2 DEF Sound
  <2>5. OfExecutors(results') /\ execution' \in [Executors -> Frame] /\ \A d \in Executors : Sound(d)'
    BY <1>1, <2>1, <2>2, <2>3, <2>4, StoredKeepsSound
  <2> QED BY <1>1, <2>5 DEF ExecutorsInv, Side, OfExecutors
<1>4. CASE ~(context[e] # "live" /\ kind[e] = "batch" /\ ~failFast[e])
  <2>1. PICK p \in {"attempt", "cancelled", "failed"} : Move(e, p) /\ UNCHANGED results
    BY <1>4 DEF RetryChecks
  <2>2. /\ p \in Program \ {"done", "commit", "retry"} /\ (p \in Returned <=> execution[e].at \in Returned)
        /\ p \in Running => execution[e].at \in Running
        /\ ~IsAt(e, "done")
    BY <1>1, <2>1 DEF Program, Running, Returned, IsAt
  <2>3. execution' \in [Executors -> Frame] /\ \A d \in Executors : Sound(d)'
    BY <1>1, <2>1, <2>2, MoveKeepsSound
  <2> QED BY <1>1, <2>1, <2>3 DEF ExecutorsInv, Side, OfExecutors
<1> QED BY <1>3, <1>4

LEMMA SucceedKeepsExecutors == ASSUME ExecutorsInv, NEW e \in Executors, Succeed(e) PROVE ExecutorsInv'
<1> DEFINE s == execution[e].statement
<1>1. Side' /\ UNCHANGED <<kind, failFast, unanswered, answer>> /\ execution[e].at = "attempt"
  BY ExecutingKeepsSide DEF Executing, Succeed, callVars, IsAt
<1>2. Sound(e) /\ OfExecutors(applied) /\ OfExecutors(results) /\ OfExecutors(unanswered) /\ kind[e] \in Kinds
  BY DEF ExecutorsInv
<1>3. answer[e] = "none" /\ s \in Indices(e) /\ ~Succeeded(e)
  BY <1>1, <1>2 DEF Sound, Returned, Running, Succeeded, IsAt
<1>4. unanswered[e] \in [Indices(e) -> Nat] /\ applied[e] \in [Indices(e) -> Nat]
      /\ \A i \in Indices(e) : applied[e][i] = unanswered[e][i] + Owed(e, i)
  BY <1>2 DEF Sound
<1>5. CASE ~IsBatch(e)
  <2>1. Move(e, "done") /\ UNCHANGED results /\ kind[e] \in {"query", "write", "transaction"}
    BY <1>2, <1>5 DEF Succeed, IsBatch, Kinds
  <2>2. applied' = [applied EXCEPT ![e][s] = @ + Effects(e)]
    BY <2>1 DEF Succeed, Applied
  <2>3. s = 1 /\ Indices(e) = {1}
    BY <1>3, <1>5 DEF Indices
  <2>4. applied'[e] = [applied[e] EXCEPT ![s] = @ + Effects(e)] /\ OfExecutors(applied')
        /\ \A d \in Executors \ {e} : applied'[d] = applied[d]
    BY <1>2, <2>2 DEF OfExecutors
  <2>5. Effects(e) \in Nat
    BY DEF Effects
  <2>6. applied'[e] \in [Indices(e) -> Nat] /\ applied'[e][1] = applied[e][1] + Effects(e)
    BY <1>4, <2>3, <2>4, <2>5
  <2>7. execution'[e].at = "done" /\ execution'[e].statement = 1
    BY <2>1, <2>3 DEF Move, ExecutorsInv, Frame
  <2>8. Owed(e, 1) = 0 /\ Owed(e, 1)' = Effects(e)
    BY <1>1, <1>3, <2>1, <2>7 DEF Owed, Succeeded, IsAt, Effects
  <2>9. \A i \in Indices(e) : applied'[e][i] = unanswered'[e][i] + Owed(e, i)'
    <3>1. applied'[e][1] = unanswered'[e][1] + Owed(e, 1)'
      <4>1. applied[e][1] = unanswered[e][1] + Owed(e, 1) /\ unanswered[e][1] \in Nat
        BY <1>4, <2>3
      <4>2. applied'[e][1] = unanswered'[e][1] + Effects(e)
        BY <1>1, <2>5, <2>6, <2>8, <4>1
      <4> QED BY <2>8, <4>2
    <3>2. \A i \in Indices(e) : i = 1
      BY <2>3
    <3> QED BY <3>1, <3>2
  <2>10. execution' \in [Executors -> Frame] /\ \A d \in Executors : Sound(d)'
    BY <1>1, <1>3, <1>4, <2>1, <2>4, <2>6, <2>9, AnsweringKeepsSound
  <2> QED BY <1>1, <1>2, <2>1, <2>4, <2>10 DEF ExecutorsInv, Side, OfExecutors
<1>6. CASE IsBatch(e)
  <2>1. Stored(e, "COMPLETED") /\ "COMPLETED" \in Final
    BY <1>6 DEF Succeed, Final
  <2>2. \A i \in Indices(e) : Owed(e, i) \in Nat /\ unanswered[e][i] \in Nat /\ applied[e][i] \in Nat
    BY <1>4 DEF Owed
  <2>3. /\ OfExecutors(applied') /\ applied'[e] \in [Indices(e) -> Nat]
        /\ \A d \in Executors \ {e} : applied'[d] = applied[d]
        /\ \A i \in Indices(e) : applied'[e][i] = applied[e][i] + (IF i = s /\ kind[e] = "batch" THEN 1 ELSE 0)
    <3>1. CASE kind[e] = "batchTransaction"
      <4>1. applied' = applied
        BY <3>1 DEF Succeed
      <4> QED BY <1>2, <1>4, <2>2, <3>1, <4>1
    <3>2. CASE kind[e] = "batch"
      <4>1. applied' = [applied EXCEPT ![e][s] = @ + 1]
        BY <3>2 DEF Succeed, Applied, Effects
      <4>2. applied'[e] = [applied[e] EXCEPT ![s] = @ + 1] /\ OfExecutors(applied')
            /\ \A d \in Executors \ {e} : applied'[d] = applied[d]
        BY <1>2, <4>1 DEF OfExecutors
      <4> HIDE DEF s
      <4>3. applied'[e] \in [Indices(e) -> Nat]
        BY <1>3, <1>4, <4>2
      <4> QED BY <1>3, <1>4, <3>2, <4>2, <4>3
    <3> QED BY <1>6, <3>1, <3>2 DEF IsBatch
  <2>4. \A i \in Indices(e) : applied'[e][i] = unanswered'[e][i] + Owed(e, i) +
          (IF i = s /\ kind[e] = "batch" /\ "COMPLETED" = "COMPLETED" THEN 1 ELSE 0)
    BY <1>1, <1>4, <2>2, <2>3
  <2>5. OfExecutors(results') /\ execution' \in [Executors -> Frame] /\ \A d \in Executors : Sound(d)'
    BY <1>1, <1>4, <1>6, <2>1, <2>3, <2>4, StoredKeepsSound
  <2> QED BY <1>1, <1>2, <2>3, <2>5 DEF ExecutorsInv, Side, OfExecutors
<1> QED BY <1>5, <1>6

\* What a commit adds to a history.
LEMMA CommittedAdds ==
  ASSUME ExecutorsInv, NEW e \in Executors, NEW f, OfExecutors(f), f[e] \in [Indices(e) -> Nat]
  PROVE  /\ OfExecutors(Committed(e, f)) /\ Committed(e, f)[e] \in [Indices(e) -> Nat]
         /\ \A d \in Executors \ {e} : Committed(e, f)[d] = f[d]
         /\ \A i \in Indices(e) :
              Committed(e, f)[e][i] = f[e][i] + (IF i \in execution[e].written THEN 1 ELSE 0)
<1>1. Committed(e, f)[e] = Plus(f[e], execution[e].written)
  BY DEF Committed, OfExecutors
<1>2. Plus(f[e], execution[e].written) =
        [i \in Indices(e) |-> f[e][i] + (IF i \in execution[e].written THEN 1 ELSE 0)]
  BY DEF Plus
<1>3. OfExecutors(Committed(e, f)) /\ \A d \in Executors \ {e} : Committed(e, f)[d] = f[d]
  BY DEF Committed, OfExecutors
<1>4. \A i \in Indices(e) : f[e][i] + (IF i \in execution[e].written THEN 1 ELSE 0) \in Nat
  OBVIOUS
<1> QED BY <1>1, <1>2, <1>3, <1>4

\* What the open transaction holds is what is reported as completed.
LEMMA CommitKeepsExecutors ==
  ASSUME ExecutorsInv, NEW e \in Executors, Commit(e) \/ CommitFails(e) PROVE ExecutorsInv'
<1>1. Side' /\ UNCHANGED <<kind, failFast, results, answer>> /\ execution[e].at = "commit"
  BY ExecutingKeepsSide DEF Executing, Commit, CommitFails, callVars, IsAt
<1>2. Sound(e) /\ OfExecutors(applied) /\ OfExecutors(results) /\ OfExecutors(unanswered)
  BY DEF ExecutorsInv
<1>3. kind[e] = "batchTransaction" /\ answer[e] = "none" /\ ~Succeeded(e)
  BY <1>1, <1>2 DEF Sound, Returned, IsAt, Succeeded
<1>4. /\ applied[e] \in [Indices(e) -> Nat] /\ unanswered[e] \in [Indices(e) -> Nat]
      /\ \A i \in Indices(e) : /\ applied[e][i] = unanswered[e][i] + Owed(e, i)
                               /\ i \in execution[e].written <=> results[e][i] = "COMPLETED"
  BY <1>2, <1>3 DEF Sound
<1>5. \A i \in Indices(e) : Owed(e, i) = 0
  BY <1>3 DEF Owed
<1>6. /\ OfExecutors(Committed(e, applied)) /\ Committed(e, applied)[e] \in [Indices(e) -> Nat]
      /\ \A d \in Executors \ {e} : Committed(e, applied)[d] = applied[d]
      /\ \A i \in Indices(e) :
           Committed(e, applied)[e][i] = applied[e][i] + (IF i \in execution[e].written THEN 1 ELSE 0)
  BY <1>2, <1>4, CommittedAdds
<1>7. /\ OfExecutors(Committed(e, unanswered)) /\ Committed(e, unanswered)[e] \in [Indices(e) -> Nat]
      /\ \A d \in Executors \ {e} : Committed(e, unanswered)[d] = unanswered[d]
      /\ \A i \in Indices(e) :
           Committed(e, unanswered)[e][i] = unanswered[e][i] + (IF i \in execution[e].written THEN 1 ELSE 0)
  BY <1>2, <1>4, CommittedAdds
<1>8. ASSUME NEW p \in {"done", "failed"}, Move(e, p)
      PROVE  \A i \in Indices(e) :
               Owed(e, i)' = IF p = "done" /\ i \in execution[e].written THEN 1 ELSE 0
  <2>1. execution'[e].at = p
    BY <1>8 DEF Move, ExecutorsInv, Frame
  <2>2. Succeeded(e)' <=> p = "done"
    BY <1>1, <1>3, <2>1 DEF Succeeded, IsAt
  <2>3. \A i : Owed(e, i)' = IF p = "done" /\ results[e][i] = "COMPLETED" THEN 1 ELSE 0
    BY <1>1, <1>3, <2>2 DEF Owed
  <2> QED BY <1>4, <2>3
<1>9. CASE Commit(e)
  <2>1. Move(e, "done") /\ applied' = Committed(e, applied) /\ unanswered' = unanswered
    BY <1>9 DEF Commit
  <2>2. \A i \in Indices(e) : Owed(e, i)' = IF i \in execution[e].written THEN 1 ELSE 0
    BY <1>8, <2>1
  <2>3. \A i \in Indices(e) : applied'[e][i] = unanswered'[e][i] + Owed(e, i)'
    BY <1>4, <1>5, <1>6, <2>1, <2>2
  <2>4. execution' \in [Executors -> Frame] /\ \A d \in Executors : Sound(d)'
    BY <1>1, <1>3, <1>4, <1>6, <2>1, <2>3, AnsweringKeepsSound
  <2> QED BY <1>1, <1>2, <1>6, <2>1, <2>4 DEF ExecutorsInv, Side, OfExecutors
<1>10. CASE CommitFails(e)
  <2>1. Move(e, "failed")
    BY <1>10 DEF CommitFails
  <2>2. \/ applied' = applied /\ unanswered' = unanswered
        \/ applied' = Committed(e, applied) /\ unanswered' = Committed(e, unanswered)
    BY <1>10 DEF CommitFails
  <2>3. \A i \in Indices(e) : Owed(e, i)' = 0
    BY <1>8, <2>1
  <2>4. /\ applied'[e] \in [Indices(e) -> Nat] /\ unanswered'[e] \in [Indices(e) -> Nat]
        /\ OfExecutors(applied') /\ OfExecutors(unanswered')
        /\ \A d \in Executors \ {e} : applied'[d] = applied[d] /\ unanswered'[d] = unanswered[d]
    BY <1>2, <1>4, <1>6, <1>7, <2>2
  <2>5. \A i \in Indices(e) : applied'[e][i] = unanswered'[e][i]
    <3>1. \A i \in Indices(e) : applied[e][i] = unanswered[e][i]
      BY <1>4, <1>5
    <3>2. \A i \in Indices(e) : Committed(e, applied)[e][i] = Committed(e, unanswered)[e][i]
      BY <1>6, <1>7, <3>1
    <3> QED BY <2>2, <3>1, <3>2
  <2>6. \A i \in Indices(e) : applied'[e][i] = unanswered'[e][i] + Owed(e, i)'
    BY <2>3, <2>4, <2>5
  <2>7. execution' \in [Executors -> Frame] /\ \A d \in Executors : Sound(d)'
    BY <1>1, <1>3, <2>1, <2>4, <2>6, AnsweringKeepsSound
  <2> QED BY <1>1, <1>2, <2>4, <2>7 DEF ExecutorsInv, Side, OfExecutors
<1> QED BY <1>9, <1>10

LEMMA ExecutorNextKeepsExecutors == ExecutorsInv /\ ExecutorNext => ExecutorsInv'
<1> SUFFICES ASSUME ExecutorsInv, NEW e \in Executors, Executing(e) \/ Cancelling(e) \/ Expire(e)
             PROVE  ExecutorsInv'
  BY DEF ExecutorNext
<1>1. CASE Executing(e)
  BY <1>1, MovingKeepsExecutors, CacheHitKeepsExecutors, SettleKeepsExecutors, RetryKeepsExecutors,
     GiveUpKeepsExecutors, RetryChecksKeepsExecutors, SucceedKeepsExecutors, CommitKeepsExecutors DEF Executing
<1> QED BY <1>1, SideStepKeepsExecutors

LEMMA ExecutorsStay == ExecutorsInv /\ UNCHANGED executorVars => ExecutorsInv'
<1> SUFFICES ASSUME ExecutorsInv, UNCHANGED executorVars PROVE ExecutorsInv'
  OBVIOUS
<1>1. UNCHANGED <<kind, failFast, active, execution, statusOf, context, canceller, results, applied, unanswered, answer>>
  BY DEF executorVars, callVars, dataVars
<1>2. \A d \in Executors : Sound(d)'
  BY <1>1 DEF ExecutorsInv, Sound, Indices, IsBatch, Owed, Succeeded, IsAt
<1> QED BY <1>1, <1>2 DEF ExecutorsInv, OfExecutors

LEMMA ExecutorsAnswer == ExecutorsInv => ExecutorTypeOK /\ AnswerMatchesEffect
<1> SUFFICES ASSUME ExecutorsInv PROVE ExecutorTypeOK /\ AnswerMatchesEffect
  OBVIOUS
<1>1. ASSUME NEW e \in Executors
      PROVE  /\ execution[e] \in [at : {"new", "registered", "check", "attempt", "retry", "commit",
                                        "done", "failed", "cancelled", "returned", "over"},
                                  retries : 0..MaxRetries, statement : 1..(BatchSize + 1),
                                  written : SUBSET Indices(e)]
             /\ results[e] \in [Indices(e) -> Final \cup {"none"}]
             /\ applied[e] \in [Indices(e) -> Nat] /\ unanswered[e] \in [Indices(e) -> Nat]
  <2>1. Sound(e) /\ execution[e] \in Frame
    BY DEF ExecutorsInv
  <2>2. execution[e].written \in SUBSET Indices(e)
    BY <2>1 DEF Sound
  <2>3. results[e] \in [Indices(e) -> Final \cup {"none"}]
        /\ applied[e] \in [Indices(e) -> Nat] /\ unanswered[e] \in [Indices(e) -> Nat]
    BY <2>1 DEF Sound, Outcomes
  <2> QED BY <2>1, <2>2, <2>3 DEF Frame, Program, Running, Returned
<1>2. ExecutorTypeOK
  BY <1>1 DEF ExecutorTypeOK, ExecutorsInv
<1>3. ASSUME NEW e \in Executors, NEW i \in Indices(e), answer[e] # "none"
      PROVE  applied[e][i] - unanswered[e][i] =
               CASE kind[e] = "query"                    -> 0
                 [] kind[e] \in {"write", "transaction"} -> IF answer[e] = "nil" THEN 1 ELSE 0
                 [] kind[e] = "batch"                    -> IF results[e][i] = "COMPLETED" THEN 1 ELSE 0
                 [] OTHER -> IF answer[e] = "nil" /\ results[e][i] = "COMPLETED" THEN 1 ELSE 0
  <2>1. Sound(e)
    BY DEF ExecutorsInv
  <2>2. Succeeded(e) <=> answer[e] = "nil"
    BY <1>3, <2>1 DEF Sound, Succeeded, IsAt, Returned
  <2>3. applied[e][i] = unanswered[e][i] + Owed(e, i) /\ unanswered[e][i] \in Nat /\ Owed(e, i) \in Nat
    BY <2>1 DEF Sound, Owed
  <2>4. applied[e][i] - unanswered[e][i] = Owed(e, i)
    BY <2>3
  <2> QED BY <2>2, <2>4 DEF Owed
<1> QED BY <1>2, <1>3 DEF AnswerMatchesEffect

(* Once Execute has returned, what it says is what was done, whatever      *)
(* retries, cancellations and failures came in between, except for the     *)
(* effects whose answer was an error (core/engine/executor.go).            *)
THEOREM ExecutorSafety == RequestsSpec => []ExecutorsAnswerTruly
<1> DEFINE Inv == part = "executors" => ExecutorsInv
<1>1. RequestsInit => Inv
  BY ExecutorsInitially DEF RequestsInit
<1>2. Inv /\ [RequestsNext]_requestsVars => Inv'
  <2> SUFFICES ASSUME Inv, [RequestsNext]_requestsVars, part' = "executors" PROVE ExecutorsInv'
    OBVIOUS
  <2>1. part = "executors" /\ (ExecutorNext \/ UNCHANGED executorVars)
    BY DEF RequestsNext, requestsVars
  <2> QED BY <2>1, ExecutorNextKeepsExecutors, ExecutorsStay
<1>3. Inv => ExecutorsAnswerTruly
  BY ExecutorsAnswer DEF ExecutorsAnswerTruly
<1> QED BY <1>1, <1>2, <1>3, PTL DEF RequestsSpec

-----------------------------------------------------------------------------
(* The StarRocks client.                                                   *)

ClientRecord ==
  [op : C!DBOperations \cup {"none", "feLoad"},
   pc : {"idle", "ready", "open", "use", "exec", "swap", "store", "forget", "done", "failed", "panicked"},
   tries : Nat, pool : Nat, rotated : BOOLEAN]

\* A goroutine that is about to store a pool of its own, or to forget the one in use.
Replacing == {"swap", "store"}
Between   == {"swap", "store", "forget"}

\* What a call does, by its operation and by whose call it is.
Legal(c, r) ==
  /\ r \in ClientRecord
  /\ c \notin DBCallers => r.op \in {"none", "feLoad"} /\ r.pc \in {"idle", "ready", "done", "failed"}
  /\ r.pc \in {"open", "use", "exec"} \cup Replacing => r.op \in {"query", "write", "ping"}
  /\ r.pc = "forget" => r.op = "close"

(* The pool that a goroutine is about to store is open, and it is neither  *)
(* the one in use nor another goroutine's: nobody else closes it.          *)
PoolInv ==
  /\ pools \in Nat /\ open \subseteq 1..pools /\ db \in 0..pools
  /\ clientCalls \in [C!Callers -> ClientRecord]
  /\ \A c \in C!Callers : Legal(c, clientCalls[c])
  /\ \A c \in C!Callers : clientCalls[c].pc \in Replacing =>
       clientCalls[c].pool \in open /\ clientCalls[c].pool # db
  /\ \A c, d \in C!Callers : c # d /\ clientCalls[c].pc \in Replacing /\ clientCalls[d].pc \in Replacing =>
       clientCalls[c].pool # clientCalls[d].pool
  /\ C!PoolInUseIsOpen

(* The label of a load is its call: there is one load per call, and that   *)
(* of client.go has all the data.                                          *)
LoadInv ==
  /\ \A l \in loaded : l.label = l.call /\ (l.call \in DBCallers => l.complete = TRUE)
  /\ \A l, m \in loaded : l.call = m.call => l = m
  /\ \A c \in DBCallers : clientCalls[c].op = "load" /\ clientCalls[c].pc = "done" => \E l \in loaded : l.call = c

LEMMA ClientInitially == C!ClientInit => PoolInv /\ LoadInv
<1> SUFFICES ASSUME C!ClientInit PROVE PoolInv /\ LoadInv
  OBVIOUS
<1>1. C!Fresh \in ClientRecord /\ C!Fresh.pc = "idle" /\ C!Fresh.op = "none"
  BY DEF C!Fresh, ClientRecord
<1>2. \A c \in C!Callers : clientCalls[c] = C!Fresh
  BY DEF C!ClientInit
<1>3. \A c \in C!Callers : Legal(c, clientCalls[c]) /\ clientCalls[c].pc \notin Replacing
  BY <1>1, <1>2 DEF Legal, Replacing
<1>4. clientCalls \in [C!Callers -> ClientRecord]
  BY <1>1 DEF C!ClientInit
<1>5. C!PoolInUseIsOpen
  BY DEF C!ClientInit, C!PoolInUseIsOpen
<1>6. DBCallers \subseteq C!Callers
  BY DEF C!Callers
<1>7. LoadInv
  BY <1>1, <1>2, <1>6 DEF C!ClientInit, LoadInv
<1> QED BY <1>3, <1>4, <1>5, <1>7 DEF C!ClientInit, PoolInv

\* A step of one call leaves the others as they are.
OnlyCallOf(c) ==
  /\ clientCalls' \in [C!Callers -> ClientRecord]
  /\ \A d \in C!Callers \ {c} : clientCalls'[d] = clientCalls[d]

\* A call goes on, away from the pools.
LEMMA CallKeepsPool ==
  ASSUME PoolInv, NEW c \in C!Callers, OnlyCallOf(c), Legal(c, clientCalls'[c]),
         clientCalls'[c].pc \notin Between, clientCalls[c].pc \notin Between,
         UNCHANGED <<db, open, pools>>
  PROVE  PoolInv'
<1>1. /\ clientCalls' \in [C!Callers -> ClientRecord]
      /\ \A d \in C!Callers \ {c} : clientCalls'[d] = clientCalls[d]
  BY DEF OnlyCallOf
<1>2. \A d \in C!Callers : Legal(d, clientCalls'[d])
  BY <1>1 DEF PoolInv
<1>3. \A d \in C!Callers : clientCalls'[d].pc \in Between => d # c
  BY <1>1
<1>4. \A d \in C!Callers : clientCalls'[d].pc \in Replacing => d # c /\ clientCalls'[d] = clientCalls[d]
  BY <1>1 DEF Between, Replacing
<1>5. \A d \in DBCallers : d \in C!Callers
  BY DEF C!Callers
<1>6. C!PoolInUseIsOpen'
  <2>1. \A d \in DBCallers : clientCalls[d].pc \in {"store", "forget"} => clientCalls'[d].pc \in {"store", "forget"}
    BY <1>1, <1>5 DEF Between
  <2> QED BY <2>1 DEF PoolInv, C!PoolInUseIsOpen
<1> QED BY <1>1, <1>2, <1>4, <1>6 DEF PoolInv

LEMMA CallKeepsLoad ==
  ASSUME PoolInv, LoadInv, NEW c \in C!Callers, OnlyCallOf(c),
         ~(clientCalls'[c].op = "load" /\ clientCalls'[c].pc = "done"), UNCHANGED loaded
  PROVE  LoadInv'
<1>1. \A d \in C!Callers \ {c} : clientCalls'[d] = clientCalls[d]
  BY DEF OnlyCallOf
<1>2. \A d \in DBCallers : d \in C!Callers
  BY DEF C!Callers
<1> QED BY <1>1, <1>2 DEF LoadInv

\* A goroutine that was going to replace or to forget the pool, or now is.
LEMMA BetweenKeepsPool ==
  ASSUME PoolInv, NEW c \in C!Callers, OnlyCallOf(c), Legal(c, clientCalls'[c]),
         pools' \in Nat, open' \subseteq 1..pools', db' \in 0..pools',
         clientCalls'[c].pc \in Replacing => clientCalls'[c].pool \in open' /\ clientCalls'[c].pool # db',
         \A d \in C!Callers \ {c} : clientCalls[d].pc \in Replacing =>
           /\ clientCalls[d].pool \in open' /\ clientCalls[d].pool # db'
           /\ clientCalls'[c].pc \in Replacing => clientCalls[d].pool # clientCalls'[c].pool,
         \/ db' = 0
         \/ db' \in open'
         \/ clientCalls'[c].pc \in {"store", "forget"}
         \/ db' = db /\ (db \in open => db \in open') /\ clientCalls[c].pc \notin {"store", "forget"}
  PROVE  PoolInv'
<1>1. /\ clientCalls' \in [C!Callers -> ClientRecord]
      /\ \A d \in C!Callers \ {c} : clientCalls'[d] = clientCalls[d]
  BY DEF OnlyCallOf
<1>2. \A d \in C!Callers : Legal(d, clientCalls'[d])
  BY <1>1 DEF PoolInv
<1>3. \A d \in C!Callers : clientCalls'[d].pc \in Replacing =>
        clientCalls'[d].pool \in open' /\ clientCalls'[d].pool # db'
  BY <1>1
<1>4. \A d, e \in C!Callers : d # e /\ clientCalls'[d].pc \in Replacing /\ clientCalls'[e].pc \in Replacing =>
        clientCalls'[d].pool # clientCalls'[e].pool
  <2> SUFFICES ASSUME NEW d \in C!Callers, NEW e \in C!Callers, d # e,
                      clientCalls'[d].pc \in Replacing, clientCalls'[e].pc \in Replacing
               PROVE  clientCalls'[d].pool # clientCalls'[e].pool
    OBVIOUS
  <2>1. CASE d = c
    BY <1>1, <2>1
  <2>2. CASE e = c
    BY <1>1, <2>2
  <2>3. CASE d # c /\ e # c
    BY <1>1, <2>3 DEF PoolInv
  <2> QED BY <2>1, <2>2, <2>3
<1>5. \A d \in DBCallers : d \in C!Callers
  BY DEF C!Callers
<1>6. C!PoolInUseIsOpen'
  <2>1. CASE db' = 0 \/ db' \in open'
    BY <2>1 DEF C!PoolInUseIsOpen
  <2>2. CASE clientCalls'[c].pc \in {"store", "forget"}
    <3>1. c \in DBCallers
      BY <2>2 DEF Legal
    <3> QED BY <1>1, <2>2, <3>1 DEF C!PoolInUseIsOpen
  <2>3. CASE db' = db /\ (db \in open => db \in open') /\ clientCalls[c].pc \notin {"store", "forget"}
    <3>1. db \in open \/ db = 0 \/ \E d \in DBCallers : clientCalls[d].pc \in {"store", "forget"}
      BY DEF PoolInv, C!PoolInUseIsOpen
    <3>2. \A d \in DBCallers : clientCalls[d].pc \in {"store", "forget"} => clientCalls'[d].pc \in {"store", "forget"}
      BY <1>1, <1>5, <2>3
    <3> QED BY <2>3, <3>1, <3>2 DEF C!PoolInUseIsOpen
  <2> QED BY <2>1, <2>2, <2>3
<1> QED BY <1>1, <1>2, <1>3, <1>4, <1>6 DEF PoolInv

\* The call goes to one of these points, with the operation that it has.
GoesTo(c, points) ==
  OnlyCallOf(c) /\ clientCalls'[c].op = clientCalls[c].op /\ clientCalls'[c].pc \in points

LEMMA FinishedGoes ==
  ASSUME PoolInv, NEW c \in C!Callers, NEW how \in {"done", "failed", "panicked"},
         clientCalls' = C!Finished(c, how)
  PROVE  GoesTo(c, {how})
<1>1. clientCalls[c] \in ClientRecord /\ clientCalls \in [C!Callers -> ClientRecord]
  BY DEF PoolInv
<1>2. [C!Fresh EXCEPT !.op = clientCalls[c].op, !.pc = how] \in ClientRecord
  BY <1>1 DEF ClientRecord, C!Fresh
<1>3. clientCalls'[c] = [C!Fresh EXCEPT !.op = clientCalls[c].op, !.pc = how]
  BY <1>1 DEF C!Finished
<1>4. clientCalls'[c].op = clientCalls[c].op /\ clientCalls'[c].pc = how
  BY <1>3 DEF C!Fresh
<1>5. OnlyCallOf(c)
  BY <1>1, <1>2 DEF C!Finished, OnlyCallOf
<1> QED BY <1>4, <1>5 DEF GoesTo

LEMMA RetriedGoes ==
  ASSUME PoolInv, NEW c \in C!Callers, clientCalls' = C!Retried(c)
  PROVE  GoesTo(c, {"ready", "failed"})
<1>1. CASE clientCalls' = C!Finished(c, "failed")
  BY <1>1, FinishedGoes DEF GoesTo
<1>2. CASE clientCalls' = [clientCalls EXCEPT ![c].pc = "ready"]
  BY <1>2 DEF PoolInv, ClientRecord, GoesTo, OnlyCallOf
<1> QED BY <1>1, <1>2 DEF C!Retried

LEMMA GotoGoes ==
  ASSUME PoolInv, NEW c \in C!Callers, NEW p \in {"ready", "open", "use", "exec", "store", "forget"},
         C!Goto(c, p)
  PROVE  GoesTo(c, {p})
BY DEF C!Goto, PoolInv, ClientRecord, GoesTo, OnlyCallOf

\* What a caller is at, and what that says of it.
LEMMA CallerIsKnown ==
  ASSUME PoolInv, NEW c \in C!Callers
  PROVE  /\ clientCalls[c] \in ClientRecord
         /\ clientCalls[c].pc \in {"open", "use", "exec"} \cup Between => c \in DBCallers
         /\ clientCalls[c].pc \in {"open", "use", "exec"} \cup Replacing =>
              clientCalls[c].op \in {"query", "write", "ping"}
<1>1. Legal(c, clientCalls[c])
  BY DEF PoolInv
<1> QED BY <1>1 DEF Legal, Between, Replacing

\* Steps that leave the pools and the loads alone.
LEMMA GoingKeepsClient ==
  ASSUME PoolInv, LoadInv, NEW c \in C!Callers,
         GoesTo(c, {"ready", "open", "use", "exec", "done", "failed", "panicked"}),
         clientCalls[c].pc \notin Between,
         clientCalls'[c].pc \in {"open", "use", "exec"} => clientCalls[c].op \in {"query", "write", "ping"},
         clientCalls'[c].pc \in {"open", "use", "exec", "panicked"} => c \in DBCallers,
         clientCalls'[c].pc = "done" => clientCalls[c].op # "load",
         UNCHANGED <<db, open, pools, loaded>>
  PROVE  PoolInv' /\ LoadInv'
<1>1. OnlyCallOf(c) /\ clientCalls'[c] \in ClientRecord /\ clientCalls'[c].op = clientCalls[c].op
  BY DEF GoesTo, OnlyCallOf
<1>2. clientCalls'[c].pc \notin Between /\ clientCalls'[c].pc \notin Replacing
  BY DEF GoesTo, Between, Replacing
<1>3. Legal(c, clientCalls'[c])
  <2>1. Legal(c, clientCalls[c])
    BY DEF PoolInv
  <2> QED BY <1>1, <1>2, <2>1 DEF GoesTo, Legal, Between, Replacing
<1>4. ~(clientCalls'[c].op = "load" /\ clientCalls'[c].pc = "done")
  BY <1>1
<1> QED BY <1>1, <1>2, <1>3, <1>4, CallKeepsPool, CallKeepsLoad

LEMMA StartKeepsClient == ASSUME PoolInv, LoadInv, NEW c \in C!Callers, C!Start(c) PROVE PoolInv' /\ LoadInv'
<1>1. PICK op \in (IF c \in DBCallers THEN C!DBOperations ELSE {"feLoad"}) :
        clientCalls' = [clientCalls EXCEPT ![c] = [C!Fresh EXCEPT !.op = op, !.pc = "ready"]]
  BY DEF C!Start
<1>2. [C!Fresh EXCEPT !.op = op, !.pc = "ready"] \in ClientRecord
      /\ [C!Fresh EXCEPT !.op = op, !.pc = "ready"].pc = "ready"
      /\ [C!Fresh EXCEPT !.op = op, !.pc = "ready"].op = op
  BY DEF C!Fresh, ClientRecord
<1>3. clientCalls'[c] = [C!Fresh EXCEPT !.op = op, !.pc = "ready"] /\ OnlyCallOf(c)
  BY <1>1, <1>2 DEF PoolInv, OnlyCallOf
<1>4. clientCalls'[c].pc = "ready" /\ "ready" \notin Between /\ "ready" \notin Replacing
  BY <1>2, <1>3 DEF Between, Replacing
<1>5. Legal(c, clientCalls'[c])
  BY <1>2, <1>3, <1>4 DEF Legal
<1>6. clientCalls[c].pc \notin Between /\ UNCHANGED <<db, open, pools, loaded>>
  BY DEF C!Start, C!At, Between
<1> QED BY <1>3, <1>4, <1>5, <1>6, CallKeepsPool, CallKeepsLoad

LEMMA LookKeepsClient == ASSUME PoolInv, LoadInv, NEW c \in C!Callers, C!Look(c) PROVE PoolInv' /\ LoadInv'
<1>1. clientCalls[c] \in ClientRecord /\ clientCalls \in [C!Callers -> ClientRecord]
      /\ clientCalls[c].pc = "ready" /\ clientCalls[c].op \in {"query", "write", "ping"}
  BY CallerIsKnown DEF C!Look, C!At, PoolInv
<1>2. PICK p \in {"open", "use"}, b \in BOOLEAN :
        clientCalls' = [clientCalls EXCEPT ![c].pc = p, ![c].tries = @ + 1, ![c].rotated = b]
  BY DEF C!Look
<1>3. clientCalls[c].tries + 1 \in Nat
  BY <1>1 DEF ClientRecord
<1>4. GoesTo(c, {"open", "use"})
  BY <1>1, <1>2, <1>3 DEF ClientRecord, GoesTo, OnlyCallOf
<1>5. c \in DBCallers
  BY <1>1 DEF PoolInv, Legal
<1>6. GoesTo(c, {"ready", "open", "use", "exec", "done", "failed", "panicked"}) /\ clientCalls[c].pc \notin Between
      /\ clientCalls'[c].pc # "done"
  BY <1>1, <1>4 DEF GoesTo, Between
<1>7. UNCHANGED <<db, open, pools, loaded>>
  BY DEF C!Look
<1> QED BY <1>1, <1>5, <1>6, <1>7, GoingKeepsClient

LEMMA UsingKeepsClient ==
  ASSUME PoolInv, LoadInv, NEW c \in C!Callers,
         C!Use(c) \/ C!Exec(c) \/ C!PingSucceeds(c) \/ C!UseOfNil(c) \/ C!PingFails(c)
  PROVE  PoolInv' /\ LoadInv'
<1>1. clientCalls[c].pc \in {"use", "exec"} /\ UNCHANGED <<db, open, pools, loaded>>
  BY DEF C!Use, C!Exec, C!PingSucceeds, C!UseOfNil, C!PingFails, C!At
<1>2. c \in DBCallers /\ clientCalls[c].op \in {"query", "write", "ping"} /\ clientCalls[c].pc \notin Between
  BY <1>1, CallerIsKnown DEF Between
<1>3. GoesTo(c, {"open", "exec", "done", "panicked"})
  <2>1. CASE C!Use(c) \/ C!Exec(c) \/ C!PingSucceeds(c)
    <3>1. clientCalls' = C!Finished(c, "done") \/ C!Goto(c, "exec")
      BY <2>1 DEF C!Use, C!Exec, C!PingSucceeds, C!Finish
    <3> QED BY <3>1, FinishedGoes, GotoGoes DEF GoesTo
  <2>2. CASE C!UseOfNil(c)
    <3>1. clientCalls' = C!Finished(c, "panicked")
      BY <2>2 DEF C!UseOfNil, C!Finish
    <3> QED BY <3>1, FinishedGoes DEF GoesTo
  <2>3. CASE C!PingFails(c)
    BY <2>3, GotoGoes DEF C!PingFails, GoesTo
  <2> QED BY <2>1, <2>2, <2>3
<1>4. GoesTo(c, {"ready", "open", "use", "exec", "done", "failed", "panicked"})
  BY <1>3 DEF GoesTo
<1> QED BY <1>1, <1>2, <1>4, GoingKeepsClient

LEMMA FailingKeepsClient ==
  ASSUME PoolInv, LoadInv, NEW c \in C!Callers, C!UseFails(c) \/ C!OpenFails(c)
  PROVE  PoolInv' /\ LoadInv'
<1>1. clientCalls[c].pc \in {"use", "exec", "open"} /\ UNCHANGED <<db, open, pools, loaded>>
  BY DEF C!UseFails, C!OpenFails, C!At
<1>2. c \in DBCallers /\ clientCalls[c].op \in {"query", "write", "ping"} /\ clientCalls[c].pc \notin Between
  BY <1>1, CallerIsKnown DEF Between
<1>3. GoesTo(c, {"ready", "open", "failed"})
  <2>1. CASE C!UseFails(c)
    <3>1. clientCalls' = C!Retried(c) \/ clientCalls' = [clientCalls EXCEPT ![c].pc = "open", ![c].rotated = TRUE]
      BY <2>1 DEF C!UseFails
    <3>2. CASE clientCalls' = [clientCalls EXCEPT ![c].pc = "open", ![c].rotated = TRUE]
      BY <3>2 DEF PoolInv, ClientRecord, GoesTo, OnlyCallOf
    <3> QED BY <3>1, <3>2, RetriedGoes DEF GoesTo
  <2>2. CASE C!OpenFails(c)
    <3>1. \/ clientCalls' = C!Finished(c, "failed") \/ clientCalls' = C!Retried(c)
          \/ clientCalls' = [clientCalls EXCEPT ![c].rotated = TRUE]
      BY <2>2 DEF C!OpenFails
    <3>2. CASE clientCalls' = [clientCalls EXCEPT ![c].rotated = TRUE]
      <4>1. clientCalls[c].pc = "open"
        BY <2>2 DEF C!OpenFails, C!At
      <4> QED BY <3>2, <4>1 DEF PoolInv, ClientRecord, GoesTo, OnlyCallOf
    <3> QED BY <3>1, <3>2, RetriedGoes, FinishedGoes DEF GoesTo
  <2> QED BY <2>1, <2>2
<1>4. GoesTo(c, {"ready", "open", "use", "exec", "done", "failed", "panicked"}) /\ clientCalls'[c].pc # "done"
  BY <1>3 DEF GoesTo
<1> QED BY <1>1, <1>2, <1>4, GoingKeepsClient

\* The new pool is known to nobody yet.
LEMMA OpenKeepsClient == ASSUME PoolInv, LoadInv, NEW c \in C!Callers, C!OpenPool(c) PROVE PoolInv' /\ LoadInv'
<1>1. /\ clientCalls[c].pc = "open" /\ pools' = pools + 1 /\ open' = open \cup {pools + 1}
      /\ clientCalls' = [clientCalls EXCEPT ![c].pc = "swap", ![c].pool = pools + 1]
      /\ UNCHANGED <<db, loaded>>
  BY DEF C!OpenPool, C!At
<1>2. pools \in Nat /\ open \subseteq 1..pools /\ db \in 0..pools /\ pools + 1 \in Nat
  BY DEF PoolInv
<1>3. c \in DBCallers /\ clientCalls[c].op \in {"query", "write", "ping"}
  BY <1>1, CallerIsKnown
<1>4. OnlyCallOf(c) /\ clientCalls'[c].pc = "swap" /\ clientCalls'[c].pool = pools + 1
      /\ clientCalls'[c].op = clientCalls[c].op
  BY <1>1, <1>2, ZenonT(60) DEF PoolInv, ClientRecord, OnlyCallOf
<1>5. Legal(c, clientCalls'[c])
  BY <1>3, <1>4 DEF Legal, OnlyCallOf
<1>6. pools' \in Nat /\ open' \subseteq 1..pools' /\ db' \in 0..pools'
  BY <1>1, <1>2
<1>7. clientCalls'[c].pool \in open' /\ clientCalls'[c].pool # db'
  BY <1>1, <1>2, <1>4
<1>8. \A d \in C!Callers \ {c} : clientCalls[d].pc \in Replacing =>
        /\ clientCalls[d].pool \in open' /\ clientCalls[d].pool # db'
        /\ clientCalls'[c].pc \in Replacing => clientCalls[d].pool # clientCalls'[c].pool
  <2> SUFFICES ASSUME NEW d \in C!Callers, clientCalls[d].pc \in Replacing
               PROVE  clientCalls[d].pool \in open' /\ clientCalls[d].pool # db' /\ clientCalls[d].pool # pools + 1
    BY <1>4
  <2>1. clientCalls[d].pool \in open /\ clientCalls[d].pool # db
    BY DEF PoolInv
  <2> QED BY <1>1, <1>2, <2>1
<1>9. PoolInv'
  BY <1>1, <1>4, <1>5, <1>6, <1>7, <1>8, BetweenKeepsPool
<1> QED BY <1>1, <1>4, <1>9, CallKeepsLoad

\* The pool in use is closed, whichever it is by now; the goroutine's own is not that one.
LEMMA CloseOldKeepsClient ==
  ASSUME PoolInv, LoadInv, NEW c \in C!Callers, C!CloseOld(c) PROVE PoolInv' /\ LoadInv'
<1>1. clientCalls[c].pc = "swap" /\ open' = open \ {db} /\ UNCHANGED <<db, pools, loaded>>
  BY DEF C!CloseOld, C!At
<1>2. GoesTo(c, {"store"})
  BY GotoGoes DEF C!CloseOld
<1>3. clientCalls'[c].pool = clientCalls[c].pool
  BY DEF C!CloseOld, C!Goto, PoolInv, ClientRecord
<1>4. c \in DBCallers /\ clientCalls[c].op \in {"query", "write", "ping"} /\ clientCalls[c].pc \in Replacing
  BY <1>1, CallerIsKnown DEF Replacing, Between
<1>5. OnlyCallOf(c) /\ clientCalls'[c].pc = "store" /\ Legal(c, clientCalls'[c])
  BY <1>2, <1>4 DEF GoesTo, OnlyCallOf, Legal
<1>6. \A d \in C!Callers : clientCalls[d].pc \in Replacing => clientCalls[d].pool \in open' /\ clientCalls[d].pool # db'
  BY <1>1 DEF PoolInv
<1>7. \A d \in C!Callers \ {c} : clientCalls[d].pc \in Replacing =>
        /\ clientCalls[d].pool \in open' /\ clientCalls[d].pool # db'
        /\ clientCalls'[c].pc \in Replacing => clientCalls[d].pool # clientCalls'[c].pool
  BY <1>3, <1>4, <1>6 DEF PoolInv
<1>8. pools' \in Nat /\ open' \subseteq 1..pools' /\ db' \in 0..pools'
  BY <1>1 DEF PoolInv
<1>9. PoolInv'
  BY <1>3, <1>4, <1>5, <1>6, <1>7, <1>8, BetweenKeepsPool
<1> QED BY <1>1, <1>5, <1>9, CallKeepsLoad

\* The goroutine's pool has stayed open since it opened it.
LEMMA StoreKeepsClient == ASSUME PoolInv, LoadInv, NEW c \in C!Callers, C!StorePool(c) PROVE PoolInv' /\ LoadInv'
<1>1. clientCalls[c].pc = "store" /\ db' = clientCalls[c].pool /\ UNCHANGED <<open, pools, loaded>>
  BY DEF C!StorePool, C!At
<1>2. c \in DBCallers /\ clientCalls[c].op \in {"query", "write", "ping"} /\ clientCalls[c].pc \in Replacing
  BY <1>1, CallerIsKnown DEF Replacing, Between
<1>3. clientCalls[c] \in ClientRecord /\ clientCalls \in [C!Callers -> ClientRecord]
  BY DEF PoolInv
<1>4. GoesTo(c, {"ready", "use", "done", "failed"})
  <2>1. CASE clientCalls' = C!Finished(c, "done")
    BY <2>1, FinishedGoes DEF GoesTo
  <2>2. CASE clientCalls' = [C!Retried(c) EXCEPT ![c].rotated = FALSE, ![c].pool = 0]
    <3>1. CASE C!Retried(c) = [clientCalls EXCEPT ![c].pc = "ready"]
      <4> DEFINE r == [clientCalls[c] EXCEPT !.pc = "ready"]
      <4>1. r \in ClientRecord /\ r.op = clientCalls[c].op /\ r.pc = "ready"
        BY <1>3 DEF ClientRecord
      <4>2. clientCalls' = [[clientCalls EXCEPT ![c] = r] EXCEPT ![c].rotated = FALSE, ![c].pool = 0]
        BY <2>2, <3>1
      <4> HIDE DEF r
      <4> QED BY <1>3, <4>1, <4>2 DEF GoesTo, OnlyCallOf, ClientRecord
    <3>2. CASE C!Retried(c) = C!Finished(c, "failed")
      <4>1. [C!Fresh EXCEPT !.op = clientCalls[c].op, !.pc = "failed"] \in ClientRecord
            /\ [C!Fresh EXCEPT !.op = clientCalls[c].op, !.pc = "failed"].op = clientCalls[c].op
            /\ [C!Fresh EXCEPT !.op = clientCalls[c].op, !.pc = "failed"].pc = "failed"
        BY <1>3 DEF ClientRecord, C!Fresh
      <4> DEFINE r == [C!Fresh EXCEPT !.op = clientCalls[c].op, !.pc = "failed"]
      <4>2. clientCalls' = [[clientCalls EXCEPT ![c] = r] EXCEPT ![c].rotated = FALSE, ![c].pool = 0]
        BY <2>2, <3>2 DEF C!Finished
      <4> HIDE DEF r
      <4> QED BY <1>3, <4>1, <4>2 DEF GoesTo, OnlyCallOf, ClientRecord, r
    <3> QED BY <3>1, <3>2 DEF C!Retried
  <2>3. CASE clientCalls' = [clientCalls EXCEPT ![c].pc = "use", ![c].pool = 0]
    BY <1>3, <2>3 DEF GoesTo, OnlyCallOf, ClientRecord
  <2> QED BY <2>1, <2>2, <2>3 DEF C!StorePool
<1>5. OnlyCallOf(c) /\ clientCalls'[c].pc \notin Replacing /\ clientCalls'[c].op = clientCalls[c].op
  BY <1>4 DEF GoesTo, Replacing
<1>6. Legal(c, clientCalls'[c])
  BY <1>2, <1>4, <1>5 DEF Legal, GoesTo, OnlyCallOf
<1>7. db' \in open' /\ pools' \in Nat /\ open' \subseteq 1..pools' /\ db' \in 0..pools'
  <2>1. clientCalls[c].pool \in open /\ pools \in Nat /\ open \subseteq 1..pools
    BY <1>2 DEF PoolInv
  <2>2. clientCalls[c].pool \in 0..pools
    <3>1. 1..pools \subseteq 0..pools
      BY <2>1
    <3> QED BY <2>1, <3>1
  <2>3. db' = clientCalls[c].pool /\ open' = open /\ pools' = pools
    BY <1>1
  <2> QED BY <2>1, <2>2, <2>3
<1>8. \A d \in C!Callers \ {c} : clientCalls[d].pc \in Replacing =>
        /\ clientCalls[d].pool \in open' /\ clientCalls[d].pool # db'
        /\ clientCalls'[c].pc \in Replacing => clientCalls[d].pool # clientCalls'[c].pool
  BY <1>1, <1>2, <1>5 DEF PoolInv
<1>9. PoolInv'
  BY <1>5, <1>6, <1>7, <1>8, BetweenKeepsPool
<1>10. ~(clientCalls'[c].op = "load" /\ clientCalls'[c].pc = "done")
  BY <1>2, <1>5
<1> QED BY <1>1, <1>5, <1>9, <1>10, CallKeepsLoad

\* Close closes the pool it finds; it forgets the one in use later.
LEMMA CloseKeepsClient ==
  ASSUME PoolInv, LoadInv, NEW c \in C!Callers, C!Close(c) \/ C!CloseEnds(c) PROVE PoolInv' /\ LoadInv'
<1>1. clientCalls[c].pc \in {"ready", "forget"} /\ clientCalls[c].op = "close" /\ UNCHANGED <<pools, loaded>>
  BY DEF C!Close, C!CloseEnds, C!At, PoolInv, Legal
<1>2. c \in DBCallers
  BY <1>1 DEF PoolInv, Legal
<1>3. GoesTo(c, {"done", "forget"}) /\ (clientCalls'[c].pc = "forget" \/ db' = 0)
  <2>1. CASE C!CloseEnds(c)
    <3>1. clientCalls' = C!Finished(c, "done") /\ db' = 0
      BY <2>1 DEF C!CloseEnds, C!Finish, C!Forget
    <3> QED BY <3>1, FinishedGoes DEF GoesTo
  <2>2. CASE C!Close(c) /\ db = 0
    <3>1. clientCalls' = C!Finished(c, "done") /\ db' = 0
      BY <2>2 DEF C!Close, C!Finish
    <3> QED BY <3>1, FinishedGoes DEF GoesTo
  <2>3. CASE C!Close(c) /\ db # 0
    <3>1. C!Goto(c, "forget")
      BY <2>3 DEF C!Close
    <3> QED BY <3>1, GotoGoes DEF GoesTo
  <2> QED BY <2>1, <2>2, <2>3
<1>4. /\ OnlyCallOf(c) /\ clientCalls'[c].pc \notin Replacing /\ clientCalls'[c].op = "close"
      /\ Legal(c, clientCalls'[c])
  BY <1>1, <1>2, <1>3 DEF GoesTo, Replacing, Legal, OnlyCallOf
<1>5. /\ \A d \in C!Callers : clientCalls[d].pc \in Replacing => clientCalls[d].pool \in open' /\ clientCalls[d].pool # db'
      /\ pools' \in Nat /\ open' \subseteq 1..pools' /\ db' \in 0..pools'
  <2>1. CASE C!Close(c)
    <3>1. open' = open \ {db} /\ db' = db /\ pools' = pools
      BY <2>1 DEF C!Close
    <3> QED BY <3>1 DEF PoolInv
  <2>2. CASE C!CloseEnds(c)
    <3>1. open' = open /\ db' = 0 /\ pools' = pools
      BY <2>2 DEF C!CloseEnds, C!Forget
    <3>2. \A p \in open : p # 0
      BY DEF PoolInv
    <3> QED BY <3>1, <3>2 DEF PoolInv
  <2> QED BY <2>1, <2>2
<1>6. PoolInv'
  BY <1>3, <1>4, <1>5, BetweenKeepsPool
<1> QED BY <1>1, <1>4, <1>6, CallKeepsLoad

\* A load that is committed is the first of its call.
LEMMA CommittedKeepsLoad ==
  ASSUME PoolInv, LoadInv, NEW c \in C!Callers, OnlyCallOf(c), C!LabelIsFree(c), loaded' \in C!Committed(c)
  PROVE  LoadInv'
<1>1. PICK all \in C!Complete(c) : loaded' = loaded \cup {[call |-> c, label |-> c, complete |-> all]}
  BY DEF C!Committed, C!Label
<1>2. c \in DBCallers => all = TRUE
  BY DEF C!Complete
<1>3. \A l \in loaded : l.call # c
  BY DEF C!LabelIsFree, C!Label, LoadInv
<1> DEFINE new == [call |-> c, label |-> c, complete |-> all]
<1>4. new.call = c /\ new.label = c /\ (c \in DBCallers => new.complete = TRUE)
  BY <1>2
<1>5. loaded' = loaded \cup {new}
  BY <1>1
<1> HIDE DEF new
<1>6. \A l \in loaded' : l.label = l.call /\ (l.call \in DBCallers => l.complete = TRUE)
  BY <1>4, <1>5 DEF LoadInv
<1>7. \A l, m \in loaded' : l.call = m.call => l = m
  BY <1>3, <1>4, <1>5 DEF LoadInv
<1>8. \A d \in DBCallers : clientCalls'[d].op = "load" /\ clientCalls'[d].pc = "done" => \E l \in loaded' : l.call = d
  <2>1. \A d \in DBCallers : d \in C!Callers
    BY DEF C!Callers
  <2> QED BY <1>4, <1>5, <2>1 DEF LoadInv, OnlyCallOf
<1> QED BY <1>6, <1>7, <1>8 DEF LoadInv

LEMMA LoadingKeepsClient ==
  ASSUME PoolInv, LoadInv, NEW c \in C!Callers,
         C!LoadSucceeds(c) \/ C!LoadFails(c) \/ C!FELoadFails(c) \/ C!FELoadRefused(c)
  PROVE  PoolInv' /\ LoadInv'
<1>1. /\ clientCalls[c].pc = "ready" /\ clientCalls[c].op \in {"load", "feLoad"}
      /\ UNCHANGED <<db, open, pools>>
  BY DEF C!LoadSucceeds, C!LoadFails, C!FELoadFails, C!FELoadRefused, C!At, C!IsLoad
<1>2. clientCalls[c] \in ClientRecord /\ clientCalls \in [C!Callers -> ClientRecord] /\ Legal(c, clientCalls[c])
  BY DEF PoolInv
<1>3. GoesTo(c, {"ready", "done", "failed"})
  <2>1. CASE clientCalls' = C!Finished(c, "done") \/ clientCalls' = C!Finished(c, "failed")
    BY <2>1, FinishedGoes DEF GoesTo
  <2>2. CASE clientCalls' = [clientCalls EXCEPT ![c].tries = @ + 1]
    <3>1. clientCalls[c].tries + 1 \in Nat
      BY <1>2 DEF ClientRecord
    <3> QED BY <1>1, <1>2, <2>2, <3>1 DEF ClientRecord, GoesTo, OnlyCallOf
  <2> QED BY <2>1, <2>2 DEF C!LoadSucceeds, C!LoadFails, C!FELoadFails, C!FELoadRefused, C!Finish
<1>4. OnlyCallOf(c) /\ Legal(c, clientCalls'[c]) /\ clientCalls'[c].pc \notin Between /\ clientCalls[c].pc \notin Between
  BY <1>1, <1>2, <1>3 DEF GoesTo, OnlyCallOf, Legal, Between, Replacing
<1>5. PoolInv'
  BY <1>1, <1>4, CallKeepsPool
<1>6. CASE loaded' = loaded /\ ~C!LoadSucceeds(c)
  <2>1. ~(clientCalls'[c].op = "load" /\ clientCalls'[c].pc = "done")
    <3>1. CASE C!LoadFails(c)
      <4>1. clientCalls' = [clientCalls EXCEPT ![c].tries = @ + 1] \/ clientCalls' = C!Finished(c, "failed")
        BY <3>1 DEF C!LoadFails
      <4>2. CASE clientCalls' = C!Finished(c, "failed")
        BY <4>2, FinishedGoes DEF GoesTo
      <4>3. CASE clientCalls' = [clientCalls EXCEPT ![c].tries = @ + 1]
        BY <1>1, <1>2, <4>3 DEF ClientRecord
      <4> QED BY <4>1, <4>2, <4>3
    <3>2. CASE C!FELoadFails(c) \/ C!FELoadRefused(c)
      BY <1>3, <3>2 DEF C!FELoadFails, C!FELoadRefused, GoesTo
    <3> QED BY <1>6, <3>1, <3>2
  <2> QED BY <1>4, <1>5, <1>6, <2>1, CallKeepsLoad
<1>7. CASE ~(loaded' = loaded /\ ~C!LoadSucceeds(c))
  <2>1. C!LabelIsFree(c) /\ loaded' \in C!Committed(c)
    BY <1>7 DEF C!LoadSucceeds, C!LoadFails, C!FELoadFails, C!FELoadRefused
  <2> QED BY <1>4, <1>5, <2>1, CommittedKeepsLoad
<1> QED BY <1>6, <1>7

LEMMA ClientNextKeepsClient == PoolInv /\ LoadInv /\ C!ClientNext => PoolInv' /\ LoadInv'
<1> SUFFICES ASSUME PoolInv, LoadInv, C!ClientNext PROVE PoolInv' /\ LoadInv'
  OBVIOUS
<1>1. PICK c \in C!Callers :
        \/ C!Start(c) \/ C!Look(c) \/ C!Use(c) \/ C!Exec(c) \/ C!PingSucceeds(c) \/ C!UseOfNil(c)
        \/ C!UseFails(c) \/ C!PingFails(c)
        \/ C!OpenPool(c) \/ C!OpenFails(c) \/ C!CloseOld(c) \/ C!StorePool(c)
        \/ C!Close(c) \/ C!CloseEnds(c)
        \/ C!LoadSucceeds(c) \/ C!LoadFails(c) \/ C!FELoadFails(c) \/ C!FELoadRefused(c)
  BY DEF C!ClientNext
<1> QED BY <1>1, StartKeepsClient, LookKeepsClient, UsingKeepsClient, FailingKeepsClient, OpenKeepsClient,
        CloseOldKeepsClient, StoreKeepsClient, CloseKeepsClient, LoadingKeepsClient

(* The pool in use is open, except while a goroutine stands between        *)
(* closing the old pool and storing its own, or forgetting it; and a       *)
(* stream load of client.go is committed once however often it is sent,    *)
(* with all its data (infrastructure/starrocks/client.go, fe_client.go).   *)
THEOREM ClientSafety == RequestsSpec => []ClientServesOnce
<1> DEFINE Inv == part = "client" => PoolInv /\ LoadInv
<1>1. RequestsInit => Inv
  BY ClientInitially DEF RequestsInit
<1>2. Inv /\ [RequestsNext]_requestsVars => Inv'
  <2> SUFFICES ASSUME Inv, [RequestsNext]_requestsVars, part' = "client" PROVE PoolInv' /\ LoadInv'
    OBVIOUS
  <2>1. part = "client" /\ (C!ClientNext \/ UNCHANGED clientVars)
    BY DEF RequestsNext, requestsVars
  <2>2. CASE UNCHANGED clientVars
    BY <2>1, <2>2 DEF clientVars, PoolInv, LoadInv, C!PoolInUseIsOpen
  <2> QED BY <2>1, <2>2, ClientNextKeepsClient
<1>3. Inv => ClientServesOnce
  <2> SUFFICES ASSUME PoolInv, LoadInv PROVE C!PoolInUseIsOpen /\ C!LoadIsExactlyOnce
    BY DEF ClientServesOnce
  <2>1. ASSUME NEW c \in DBCallers
        PROVE  /\ Cardinality({l \in loaded : l.call = c}) <= 1
               /\ clientCalls[c].op = "load" /\ C!At(c, "done") => \E l \in loaded : l.call = c /\ l.complete
    <3>1. Cardinality({l \in loaded : l.call = c}) <= 1
      <4>1. CASE \E l \in loaded : l.call = c
        <5>1. PICK l \in loaded : l.call = c
          BY <4>1
        <5>2. \A m \in loaded : m.call = c => m = l
          BY <5>1 DEF LoadInv
        <5>3. {m \in loaded : m.call = c} = {l}
          BY <5>1, <5>2
        <5>4. Cardinality({l}) = 1
          BY FS_Singleton
        <5> QED BY <5>3, <5>4
      <4>2. CASE ~\E l \in loaded : l.call = c
        <5>1. {l \in loaded : l.call = c} = {}
          BY <4>2
        <5> QED BY <5>1, FS_EmptySet
      <4> QED BY <4>1, <4>2
    <3>2. clientCalls[c].op = "load" /\ C!At(c, "done") => \E l \in loaded : l.call = c /\ l.complete
      BY DEF LoadInv, C!At
    <3> QED BY <3>1, <3>2
  <2>2. \A S : C!Cardinality(S) = Cardinality(S)
    BY DEF C!Cardinality, Cardinality
  <2>3. C!LoadIsExactlyOnce
    BY <2>1, <2>2 DEF C!LoadIsExactlyOnce, C!At
  <2>4. C!PoolInUseIsOpen
    BY DEF PoolInv
  <2> QED BY <2>3, <2>4
<1> QED BY <1>1, <1>2, <1>3, PTL DEF RequestsSpec

-----------------------------------------------------------------------------
(* Health checker.                                                         *)

\* The entries of a cache, and how much older than themselves their data may be.
Aged(cache, n) ==
  \A k \in DOMAIN cache :
    /\ DOMAIN cache[k] = {"value", "age", "oldest"}
    /\ cache[k].age \in 0..(CacheTTL - 1) /\ cache[k].oldest \in 0..(cache[k].age + n)

LEMMA PutIsAged ==
  ASSUME NEW n \in Nat, NEW cache, Aged(cache, n), NEW key, NEW value, NEW oldest \in 0..n
  PROVE  Aged(H!Put(cache, key, value, oldest), n)
<1> DEFINE put == H!Put(cache, key, value, oldest)
<1>1. DOMAIN put = DOMAIN cache \cup {key}
  BY DEF H!Put
<1>2. put[key] = [value |-> value, age |-> 0, oldest |-> oldest]
  BY DEF H!Put
<1>3. \A k \in DOMAIN cache : k # key => put[k] = cache[k]
  BY DEF H!Put
<1> HIDE DEF put
<1>4. ASSUME NEW k \in DOMAIN put
      PROVE  /\ DOMAIN put[k] = {"value", "age", "oldest"}
             /\ put[k].age \in 0..(CacheTTL - 1) /\ put[k].oldest \in 0..(put[k].age + n)
  <2>1. CASE k = key
    BY <1>2, <2>1, HealthCheckerAssumption
  <2>2. CASE k # key
    BY <1>1, <1>3, <2>2 DEF Aged
  <2> QED BY <2>1, <2>2
<1>5. Aged(put, n)
  BY <1>4 DEF Aged
<1> QED BY <1>5 DEF put

LEMMA OlderIsAged ==
  ASSUME NEW n \in Nat, NEW cache, Aged(cache, n)
  PROVE  Aged(H!Older(cache), n)
<1> DEFINE older == H!Older(cache)
<1>1. \A k \in DOMAIN older : k \in DOMAIN cache /\ cache[k].age + 1 < CacheTTL
        /\ older[k] = [cache[k] EXCEPT !.age = @ + 1, !.oldest = @ + 1]
  BY DEF H!Older
<1> HIDE DEF older
<1>2. ASSUME NEW k \in DOMAIN older
      PROVE  /\ DOMAIN older[k] = {"value", "age", "oldest"}
             /\ older[k].age \in 0..(CacheTTL - 1) /\ older[k].oldest \in 0..(older[k].age + n)
  <2>1. /\ DOMAIN cache[k] = {"value", "age", "oldest"}
        /\ cache[k].age \in 0..(CacheTTL - 1) /\ cache[k].oldest \in 0..(cache[k].age + n)
        /\ cache[k].age + 1 < CacheTTL
    BY <1>1 DEF Aged
  <2>2. /\ DOMAIN older[k] = {"value", "age", "oldest"}
        /\ older[k].age = cache[k].age + 1 /\ older[k].oldest = cache[k].oldest + 1
    BY <1>1, <2>1
  <2> QED BY <2>1, <2>2, HealthCheckerAssumption
<1>3. Aged(older, n)
  BY <1>2 DEF Aged
<1> QED BY <1>3 DEF older

(* The access to a table: what the overriding conditions never take back.  *)
Statuses == {"HEALTHY", "DEGRADED", "UNHEALTHY"}
Levels == {"NONE", "READ_ONLY", "PARTIAL", "FULL"}
AccessRecord == [status : Statuses, level : Levels, read : BOOLEAN, write : BOOLEAN]

Keeps(a, b) ==
  /\ b \in AccessRecord /\ b.write = a.write /\ (a.level = "NONE" => b.level = "NONE")

Restricts(table, parts, a) ==
  /\ a \in AccessRecord
  /\ H!With(parts, "READ_ONLY") # {} => a.write = FALSE \/ a.level = "NONE"
  /\ H!With(parts, "NONE") = PartitionsOf[table] => a.level = "NONE"

LEMMA AbnormalKeeps == ASSUME NEW a \in AccessRecord PROVE Keeps(a, H!Abnormal(a))
  BY DEF H!Abnormal, Keeps, AccessRecord, Statuses, Levels

LEMMA AnyNoneSees ==
  ASSUME NEW table, NEW parts, NEW a \in AccessRecord
  PROVE  /\ H!AnyNone(table, parts, a) \in AccessRecord
         /\ H!With(parts, "NONE") = PartitionsOf[table] => H!AnyNone(table, parts, a).level = "NONE"
<1> DEFINE b == H!AnyNone(table, parts, a)
<1>1. CASE H!With(parts, "NONE") = PartitionsOf[table]
  <2>1. b = [status |-> "UNHEALTHY", level |-> "NONE", read |-> FALSE, write |-> FALSE]
    BY <1>1 DEF H!AnyNone, H!Access
  <2>2. b \in AccessRecord /\ b.level = "NONE"
    BY <2>1 DEF AccessRecord, Statuses, Levels
  <2> QED BY <2>2
<1>2. CASE H!With(parts, "NONE") # PartitionsOf[table]
  <2>1. b = [a EXCEPT !.status = "DEGRADED", !.level = "PARTIAL"] \/ b = a
    BY <1>2 DEF H!AnyNone
  <2>2. [a EXCEPT !.status = "DEGRADED", !.level = "PARTIAL"] \in AccessRecord
    BY DEF AccessRecord, Statuses, Levels
  <2> QED BY <1>2, <2>1, <2>2
<1> QED BY <1>1, <1>2

LEMMA AnyReadOnlyRestricts ==
  ASSUME NEW table, NEW parts, NEW a \in AccessRecord,
         H!With(parts, "NONE") = PartitionsOf[table] => a.level = "NONE"
  PROVE  Restricts(table, parts, H!AnyReadOnly(parts, a))
<1> DEFINE b == H!AnyReadOnly(parts, a)
<1>1. CASE H!With(parts, "READ_ONLY") = {}
  <2>1. b = a
    BY <1>1 DEF H!AnyReadOnly
  <2> QED BY <1>1, <2>1 DEF Restricts
<1>2. CASE H!With(parts, "READ_ONLY") # {}
  <2>1. b = [a EXCEPT !.status = IF a.status = "UNHEALTHY" THEN a.status ELSE "DEGRADED",
                      !.level = IF a.level = "NONE" THEN a.level ELSE "READ_ONLY",
                      !.write = IF a.level = "NONE" THEN a.write ELSE FALSE]
    BY <1>2 DEF H!AnyReadOnly, AccessRecord
  <2> HIDE DEF b
  <2>2. b \in AccessRecord /\ (a.level = "NONE" => b.level = "NONE") /\ (a.level # "NONE" => b.write = FALSE)
    BY <2>1 DEF AccessRecord, Statuses, Levels
  <2>3. Restricts(table, parts, b)
    BY <2>2 DEF Restricts
  <2> QED BY <2>3 DEF b
<1> QED BY <1>1, <1>2

LEMMA AnyPartialKeeps == ASSUME NEW parts, NEW a \in AccessRecord PROVE Keeps(a, H!AnyPartial(parts, a))
  BY AbnormalKeeps DEF H!AnyPartial, Keeps

LEMMA FewHealthyKeeps == ASSUME NEW table, NEW parts, NEW a \in AccessRecord PROVE Keeps(a, H!FewHealthy(table, parts, a))
<1>1. Keeps(a, H!Abnormal(a)) /\ Keeps(a, a)
  BY AbnormalKeeps DEF Keeps
<1>2. Keeps(a, [a EXCEPT !.status = "UNHEALTHY", !.level = IF a.level = "NONE" THEN a.level ELSE "PARTIAL"])
  BY DEF Keeps, AccessRecord, Statuses, Levels
<1> QED BY <1>1, <1>2 DEF H!FewHealthy

LEMMA TableAccessRestricts ==
  ASSUME NEW table, NEW isNormal \in BOOLEAN, NEW parts
  PROVE  Restricts(table, parts, H!analyzeTableHealth(table, isNormal, parts))
<1>1. PICK a : a = H!AnyNone(table, parts, H!Access("HEALTHY", "FULL", TRUE, TRUE))
  OBVIOUS
<1>2. a \in AccessRecord /\ (H!With(parts, "NONE") = PartitionsOf[table] => a.level = "NONE")
  <2>1. H!Access("HEALTHY", "FULL", TRUE, TRUE) \in AccessRecord
    BY DEF H!Access, AccessRecord, Statuses, Levels
  <2> QED BY <1>1, <2>1, AnyNoneSees
<1>3. PICK b : b = H!AnyReadOnly(parts, a)
  OBVIOUS
<1>4. Restricts(table, parts, b)
  BY <1>2, <1>3, AnyReadOnlyRestricts
<1>5. PICK c : c = H!AnyPartial(parts, b)
  OBVIOUS
<1>6. Keeps(b, c) /\ c \in AccessRecord
  BY <1>4, <1>5, AnyPartialKeeps DEF Restricts, Keeps
<1>7. PICK d : d = H!FewHealthy(table, parts, c)
  OBVIOUS
<1>8. Keeps(c, d) /\ d \in AccessRecord
  BY <1>6, <1>7, FewHealthyKeeps DEF Keeps
<1>9. PICK e : e = IF isNormal THEN d ELSE H!Abnormal(d)
  OBVIOUS
<1>10. Keeps(d, e)
  BY <1>8, <1>9, AbnormalKeeps DEF Keeps
<1>11. H!analyzeTableHealth(table, isNormal, parts) = e
  BY <1>1, <1>3, <1>5, <1>7, <1>9 DEF H!analyzeTableHealth
<1>12. Restricts(table, parts, e)
  BY <1>4, <1>6, <1>8, <1>10 DEF Restricts, Keeps
<1> QED BY <1>11, <1>12

(* Each cache and each check adds at most its time to the age of the data  *)
(* behind a result, and the entry of a table restricts what its partitions *)
(* restrict, as do the tables that a check of an operation has found.      *)
SoFar(level) ==
  IF level = "partition" THEN H!Lifetime
  ELSE IF level = "table" THEN 2 * H!Lifetime
  ELSE IF level = "operation" THEN 3 * H!Lifetime ELSE 0

CheckLevels == {"none", "tablet", "partition", "table", "operation"}

FrameOK(f) ==
  /\ DOMAIN f = {"level", "key", "todo", "found", "oldest", "elapsed"}
  /\ f.level \in CheckLevels
  /\ f.elapsed \in 0..CheckTimeout
  /\ f.oldest \in 0..(SoFar(f.level) + f.elapsed)
  /\ f.level = "operation" =>
       \A k \in DOMAIN f.found : Restricts(k, f.found[k].parts, f.found[k].access)

FramesOK == DOMAIN checking = Checkers /\ \A c \in Checkers : FrameOK(checking[c])

CachesOK ==
  /\ Aged(tabletHealthCache, CheckTimeout)
  /\ Aged(partitionHealthCache, H!Lifetime + CheckTimeout)
  /\ Aged(tableHealthCache, 2 * H!Lifetime + CheckTimeout)
  /\ \A key \in DOMAIN tableHealthCache :
       Restricts(key, tableHealthCache[key].value.parts, tableHealthCache[key].value.access)

CheckerInv == FramesOK /\ CachesOK

LEMMA Lifetimes ==
  /\ CheckTimeout \in Nat /\ H!Lifetime \in Nat /\ H!Lifetime = CacheTTL - 1 + CheckTimeout
  /\ H!Lifetime + CheckTimeout \in Nat /\ 2 * H!Lifetime + CheckTimeout \in Nat
  BY HealthCheckerAssumption DEF H!Lifetime

LEMMA SoFarIs ==
  /\ SoFar("none") = 0 /\ SoFar("tablet") = 0 /\ SoFar("partition") = H!Lifetime
  /\ SoFar("table") = 2 * H!Lifetime /\ SoFar("operation") = 3 * H!Lifetime
  /\ \A level \in CheckLevels : SoFar(level) \in Nat
  BY Lifetimes DEF SoFar, CheckLevels

LEMMA OneFrameChanges ==
  ASSUME FramesOK, NEW c \in Checkers, NEW f, FrameOK(f), checking' = [checking EXCEPT ![c] = f]
  PROVE  FramesOK'
<1>1. DOMAIN checking' = Checkers /\ \A x \in Checkers : FrameOK(checking'[x])
  BY DEF FramesOK
<1> QED BY <1>1 DEF FramesOK

LEMMA IdleIsOK == FrameOK(H!Idle)
<1>1. PICK f : f = H!Idle
  OBVIOUS
<1>2. /\ DOMAIN f = {"level", "key", "todo", "found", "oldest", "elapsed"}
      /\ f.level = "none" /\ f.oldest = 0 /\ f.elapsed = 0
  BY <1>1 DEF H!Idle
<1>3. FrameOK(f)
  BY <1>2, Lifetimes, SoFarIs DEF FrameOK, CheckLevels
<1> QED BY <1>1, <1>3

LEMMA DoneKeeps ==
  ASSUME FramesOK, NEW c \in Checkers, H!Done(c)
  PROVE  FramesOK'
<1>1. checking' = [checking EXCEPT ![c] = H!Idle]
  BY DEF H!Done
<1> QED BY <1>1, IdleIsOK, OneFrameChanges

LEMMA BeginKeeps ==
  ASSUME FramesOK, NEW c \in Checkers, NEW level \in CheckLevels, NEW key, NEW todo, NEW found,
         level = "operation" => DOMAIN found = {}, H!Begin(c, H!Check(level, key, todo, found))
  PROVE  FramesOK'
<1>1. PICK f : f = H!Check(level, key, todo, found)
  OBVIOUS
<1>2. /\ DOMAIN f = {"level", "key", "todo", "found", "oldest", "elapsed"}
      /\ f.level = level /\ f.found = found /\ f.oldest = 0 /\ f.elapsed = 0
  BY <1>1 DEF H!Check
<1>3. SoFar(level) \in Nat
  BY SoFarIs
<1>4. FrameOK(f)
  BY <1>2, <1>3, Lifetimes DEF FrameOK
<1>5. checking' = [checking EXCEPT ![c] = f]
  BY <1>1 DEF H!Begin
<1> QED BY <1>4, <1>5, OneFrameChanges

LEMMA SkipKeeps ==
  ASSUME FramesOK, NEW c \in Checkers, H!Skip(c)
  PROVE  FramesOK'
<1>1. PICK f : f = [checking[c] EXCEPT !.todo = @ \ {H!Next(c)}]
  OBVIOUS
<1>2. FrameOK(checking[c]) /\ checking' = [checking EXCEPT ![c] = f]
  BY <1>1 DEF FramesOK, H!Skip
<1>3. /\ DOMAIN f = {"level", "key", "todo", "found", "oldest", "elapsed"}
      /\ f.level = checking[c].level /\ f.found = checking[c].found
      /\ f.oldest = checking[c].oldest /\ f.elapsed = checking[c].elapsed
  BY <1>1, <1>2 DEF FrameOK
<1>4. FrameOK(f)
  BY <1>2, <1>3 DEF FrameOK
<1> QED BY <1>2, <1>4, OneFrameChanges

LEMMA TakeKeeps ==
  ASSUME FramesOK, NEW c \in Checkers, NEW entry, H!Take(c, entry),
         entry.oldest \in 0..SoFar(checking[c].level),
         checking[c].level = "operation" => Restricts(H!Next(c), entry.value.parts, entry.value.access)
  PROVE  FramesOK'
<1>1. PICK k : k = H!Next(c)
  OBVIOUS
<1>2. PICK found : found = [x \in DOMAIN checking[c].found \cup {k} |->
                              IF x = k THEN entry.value ELSE checking[c].found[x]]
  OBVIOUS
<1>3. PICK oldest : oldest = IF checking[c].oldest < entry.oldest THEN entry.oldest ELSE checking[c].oldest
  OBVIOUS
<1>4. PICK f : f = [checking[c] EXCEPT !.todo = @ \ {k}, !.found = found, !.oldest = oldest]
  OBVIOUS
<1>5. FrameOK(checking[c]) /\ c \in DOMAIN checking
  BY DEF FramesOK
<1>6. checking' = [checking EXCEPT ![c] = f]
  BY <1>1, <1>2, <1>3, <1>4, <1>5 DEF H!Take, FrameOK
<1>7. /\ DOMAIN f = {"level", "key", "todo", "found", "oldest", "elapsed"}
      /\ f.level = checking[c].level /\ f.found = found
      /\ f.oldest = oldest /\ f.elapsed = checking[c].elapsed
  BY <1>4, <1>5 DEF FrameOK
<1>8. oldest \in 0..(SoFar(checking[c].level) + checking[c].elapsed)
  <2>1. PICK n : n = SoFar(checking[c].level)
    OBVIOUS
  <2>2. n \in Nat /\ entry.oldest \in 0..n /\ checking[c].elapsed \in 0..CheckTimeout
        /\ checking[c].oldest \in 0..(n + checking[c].elapsed)
    BY <1>5, <2>1, SoFarIs DEF FrameOK
  <2>3. oldest \in 0..(n + checking[c].elapsed)
    BY <1>3, <2>2, Lifetimes
  <2> QED BY <2>1, <2>3
<1>9. ASSUME checking[c].level = "operation", NEW x \in DOMAIN found
      PROVE  Restricts(x, found[x].parts, found[x].access)
  BY <1>1, <1>2, <1>5, <1>9 DEF FrameOK
<1>10. FrameOK(f)
  BY <1>5, <1>7, <1>8, <1>9 DEF FrameOK
<1> QED BY <1>6, <1>10, OneFrameChanges

\* What a loop takes from a cache is no older than the cache makes it.
LEMMA TakenIsAged ==
  ASSUME NEW n \in Nat, NEW cache, Aged(cache, n), NEW key, H!Cached(cache, key),
         NEW most, most = CacheTTL - 1 + n
  PROVE  cache[key].oldest \in 0..most
<1>1. cache[key].age \in 0..(CacheTTL - 1) /\ cache[key].oldest \in 0..(cache[key].age + n)
  BY DEF Aged, H!Cached
<1> QED BY <1>1, HealthCheckerAssumption

LEMMA StampIsAged ==
  ASSUME FramesOK, NEW c \in Checkers, NEW n \in Nat, n = SoFar(checking[c].level) + CheckTimeout,
         NEW cache, Aged(cache, n), NEW value
  PROVE  Aged(H!Stamp(c, cache, value), n)
<1>1. PICK most : most = SoFar(checking[c].level)
  OBVIOUS
<1>2. most \in Nat /\ checking[c].elapsed \in 0..CheckTimeout /\ checking[c].oldest \in 0..(most + checking[c].elapsed)
  BY <1>1, SoFarIs DEF FramesOK, FrameOK
<1>3. checking[c].oldest \in 0..n
  BY <1>1, <1>2, Lifetimes
<1> QED BY <1>3, PutIsAged DEF H!Stamp

LEMMA TabletStepKeeps ==
  ASSUME CheckerInv, NEW c \in Checkers,
         (\E t \in H!Tablets : H!CheckTabletHealth(c, t)) \/ H!CacheTablet(c)
  PROVE  CheckerInv'
<1>1. UNCHANGED <<partitionHealthCache, tableHealthCache>>
  BY DEF H!CheckTabletHealth, H!CacheTablet
<1>2. FramesOK' /\ Aged(tabletHealthCache', CheckTimeout)
  <2>1. CASE \E t \in H!Tablets : H!CheckTabletHealth(c, t)
    <3>1. PICK t \in H!Tablets : H!CheckTabletHealth(c, t)
      BY <2>1
    <3>2. tabletHealthCache' = tabletHealthCache
      BY <3>1 DEF H!CheckTabletHealth, H!Hit
    <3>3. CASE H!Cached(tabletHealthCache, t)
      BY <3>1, <3>2, <3>3 DEF H!CheckTabletHealth, CheckerInv, CachesOK, FramesOK
    <3>4. CASE ~H!Cached(tabletHealthCache, t)
      <4>1. PICK found : H!Begin(c, H!Check("tablet", t, {}, found))
        BY <3>1, <3>4 DEF H!CheckTabletHealth
      <4>2. FramesOK'
        BY <4>1, BeginKeeps DEF CheckerInv, CheckLevels
      <4> QED BY <3>2, <4>2 DEF CheckerInv, CachesOK
    <3> QED BY <3>3, <3>4
  <2>2. CASE H!CacheTablet(c)
    <3>1. PICK value : tabletHealthCache' = H!Stamp(c, tabletHealthCache, value)
      BY <2>2 DEF H!CacheTablet
    <3>2. CheckTimeout = SoFar(checking[c].level) + CheckTimeout
      BY <2>2, SoFarIs, Lifetimes DEF H!CacheTablet, H!At
    <3>3. Aged(H!Stamp(c, tabletHealthCache, value), CheckTimeout)
      BY <3>2, StampIsAged, Lifetimes DEF CheckerInv, CachesOK
    <3>4. FramesOK'
      BY <2>2, DoneKeeps DEF CheckerInv, H!CacheTablet
    <3> QED BY <3>1, <3>3, <3>4
  <2> QED BY <2>1, <2>2
<1> QED BY <1>1, <1>2 DEF CheckerInv, CachesOK, Aged

LEMMA PartitionStepKeeps ==
  ASSUME CheckerInv, NEW c \in Checkers,
         (\E p \in H!TablePartitions : H!CheckPartitionHealth(c, p)) \/ H!TakeTablet(c) \/ H!CachePartition(c)
  PROVE  CheckerInv'
<1>1. tableHealthCache' = tableHealthCache /\ tabletHealthCache' = tabletHealthCache
  BY DEF H!CheckPartitionHealth, H!TakeTablet, H!CachePartition, H!Hit
<1>2. FramesOK' /\ Aged(partitionHealthCache', H!Lifetime + CheckTimeout)
  <2>1. CASE \E p \in H!TablePartitions : H!CheckPartitionHealth(c, p)
    <3>1. PICK p \in H!TablePartitions : H!CheckPartitionHealth(c, p)
      BY <2>1
    <3>2. partitionHealthCache' = partitionHealthCache
      BY <3>1 DEF H!CheckPartitionHealth, H!Hit
    <3>3. CASE H!Cached(partitionHealthCache, p)
      BY <3>1, <3>2, <3>3 DEF H!CheckPartitionHealth, CheckerInv, CachesOK, FramesOK
    <3>4. CASE ~H!Cached(partitionHealthCache, p)
      <4>1. H!Begin(c, H!Check("partition", p, TabletsOf[p], <<>>))
        BY <3>1, <3>4 DEF H!CheckPartitionHealth
      <4>2. FramesOK'
        BY <4>1, BeginKeeps DEF CheckerInv, CheckLevels
      <4> QED BY <3>2, <4>2 DEF CheckerInv, CachesOK
    <3> QED BY <3>3, <3>4
  <2>2. CASE H!TakeTablet(c)
    <3>1. partitionHealthCache' = partitionHealthCache /\ checking[c].level = "partition"
      BY <2>2 DEF H!TakeTablet, H!At
    <3>2. CASE H!Skip(c)
      BY <3>1, <3>2, SkipKeeps DEF CheckerInv, CachesOK
    <3>3. CASE ~H!Skip(c)
      <4>1. PICK k : k = H!Next(c)
        OBVIOUS
      <4>2. PICK entry : entry = tabletHealthCache[k]
        OBVIOUS
      <4>3. H!Cached(tabletHealthCache, k) /\ H!Take(c, entry)
        BY <2>2, <3>3, <4>1, <4>2 DEF H!TakeTablet
      <4>4. entry.oldest \in 0..H!Lifetime
        BY <4>2, <4>3, TakenIsAged, Lifetimes DEF CheckerInv, CachesOK
      <4>5. entry.oldest \in 0..SoFar(checking[c].level) /\ checking[c].level # "operation"
        BY <3>1, <4>4, SoFarIs
      <4>6. FramesOK'
        BY <4>3, <4>5, TakeKeeps DEF CheckerInv
      <4> QED BY <3>1, <4>6 DEF CheckerInv, CachesOK
    <3> QED BY <3>2, <3>3
  <2>3. CASE H!CachePartition(c)
    <3>1. PICK value : partitionHealthCache' = H!Stamp(c, partitionHealthCache, value)
      BY <2>3 DEF H!CachePartition
    <3>2. H!Lifetime + CheckTimeout = SoFar(checking[c].level) + CheckTimeout
      BY <2>3, SoFarIs DEF H!CachePartition, H!At
    <3>3. Aged(H!Stamp(c, partitionHealthCache, value), H!Lifetime + CheckTimeout)
      BY <3>2, StampIsAged, Lifetimes DEF CheckerInv, CachesOK
    <3>4. FramesOK'
      BY <2>3, DoneKeeps DEF CheckerInv, H!CachePartition
    <3> QED BY <3>1, <3>3, <3>4
  <2> QED BY <2>1, <2>2, <2>3
<1> QED BY <1>1, <1>2 DEF CheckerInv, CachesOK, Aged

LEMMA TableStepKeeps ==
  ASSUME CheckerInv, NEW c \in Checkers,
         (\E table \in H!Tables : H!CheckTableHealth(c, table)) \/ H!TakePartition(c)
  PROVE  CheckerInv'
<1>1. UNCHANGED <<tabletHealthCache, partitionHealthCache, tableHealthCache>>
  BY DEF H!CheckTableHealth, H!TakePartition, H!Hit
<1>2. FramesOK'
  <2>1. CASE \E table \in H!Tables : H!CheckTableHealth(c, table)
    <3>1. PICK table \in H!Tables : H!CheckTableHealth(c, table)
      BY <2>1
    <3>2. CASE H!Cached(tableHealthCache, table)
      BY <3>1, <3>2 DEF H!CheckTableHealth, CheckerInv, FramesOK
    <3>3. CASE ~H!Cached(tableHealthCache, table)
      <4>1. H!Begin(c, H!Check("table", table, PartitionsOf[table], <<>>))
        BY <3>1, <3>3 DEF H!CheckTableHealth
      <4> QED BY <4>1, BeginKeeps DEF CheckerInv, CheckLevels
    <3> QED BY <3>2, <3>3
  <2>2. CASE H!TakePartition(c)
    <3>1. checking[c].level = "table"
      BY <2>2 DEF H!TakePartition, H!At
    <3>2. CASE H!Skip(c)
      BY <3>2, SkipKeeps DEF CheckerInv
    <3>3. CASE ~H!Skip(c)
      <4>1. PICK k : k = H!Next(c)
        OBVIOUS
      <4>2. PICK entry : entry = partitionHealthCache[k]
        OBVIOUS
      <4>3. H!Cached(partitionHealthCache, k) /\ H!Take(c, entry)
        BY <2>2, <3>3, <4>1, <4>2 DEF H!TakePartition
      <4>4. 2 * H!Lifetime = CacheTTL - 1 + (H!Lifetime + CheckTimeout)
        BY Lifetimes, HealthCheckerAssumption
      <4>5. entry.oldest \in 0..(2 * H!Lifetime)
        BY <4>2, <4>3, <4>4, TakenIsAged, Lifetimes DEF CheckerInv, CachesOK
      <4>6. entry.oldest \in 0..SoFar(checking[c].level) /\ checking[c].level # "operation"
        BY <3>1, <4>5, SoFarIs
      <4> QED BY <4>3, <4>6, TakeKeeps DEF CheckerInv
    <3> QED BY <3>2, <3>3
  <2> QED BY <2>1, <2>2
<1> QED BY <1>1, <1>2 DEF CheckerInv, CachesOK, Aged

LEMMA CacheTableKeeps ==
  ASSUME CheckerInv, NEW c \in Checkers, H!CacheTable(c)
  PROVE  CheckerInv'
<1>1. FramesOK' /\ UNCHANGED <<tabletHealthCache, partitionHealthCache>>
  BY DoneKeeps DEF CheckerInv, H!CacheTable
<1>2. PICK table : table = checking[c].key
  OBVIOUS
<1>3. PICK parts : parts = checking[c].found
  OBVIOUS
<1>4. PICK isNormal \in BOOLEAN :
        tableHealthCache' = H!Stamp(c, tableHealthCache,
                              [parts |-> parts, access |-> H!analyzeTableHealth(table, isNormal, parts)])
  BY <1>2, <1>3 DEF H!CacheTable
<1>5. PICK value : value = [parts |-> parts, access |-> H!analyzeTableHealth(table, isNormal, parts)]
  OBVIOUS
<1>6. Restricts(table, value.parts, value.access)
  BY <1>5, TableAccessRestricts
<1>7. tableHealthCache' = H!Stamp(c, tableHealthCache, value)
  BY <1>4, <1>5
<1>8. Aged(tableHealthCache', 2 * H!Lifetime + CheckTimeout)
  <2>1. 2 * H!Lifetime + CheckTimeout = SoFar(checking[c].level) + CheckTimeout
    BY SoFarIs DEF H!CacheTable, H!At
  <2>2. Aged(H!Stamp(c, tableHealthCache, value), 2 * H!Lifetime + CheckTimeout)
    BY <2>1, StampIsAged, Lifetimes DEF CheckerInv, CachesOK
  <2> QED BY <1>7, <2>2
<1>9. ASSUME NEW key \in DOMAIN tableHealthCache'
      PROVE  Restricts(key, tableHealthCache'[key].value.parts, tableHealthCache'[key].value.access)
  <2>1. CASE key = table
    <3>1. tableHealthCache'[key].value = value
      BY <1>2, <1>7, <2>1 DEF H!Stamp, H!Put
    <3> QED BY <1>6, <2>1, <3>1
  <2>2. CASE key # table
    <3>1. key \in DOMAIN tableHealthCache /\ tableHealthCache'[key] = tableHealthCache[key]
      BY <1>2, <1>7, <2>2 DEF H!Stamp, H!Put
    <3> QED BY <3>1 DEF CheckerInv, CachesOK
  <2> QED BY <2>1, <2>2
<1> QED BY <1>1, <1>8, <1>9 DEF CheckerInv, CachesOK, Aged

LEMMA OperationStepKeeps ==
  ASSUME CheckerInv, NEW c \in Checkers,
         (\E tables \in SUBSET H!Tables : H!CheckExecutability(c, tables)) \/ H!TakeTable(c) \/ H!Answer(c)
  PROVE  CheckerInv'
<1>1. UNCHANGED <<tabletHealthCache, partitionHealthCache, tableHealthCache>>
  BY DEF H!CheckExecutability, H!TakeTable, H!Answer, H!Hit, H!caches
<1>2. FramesOK'
  <2>1. CASE \E tables \in SUBSET H!Tables : H!CheckExecutability(c, tables)
    <3>1. PICK tables \in SUBSET H!Tables : H!CheckExecutability(c, tables)
      BY <2>1
    <3>2. H!Begin(c, H!Check("operation", "none", tables, <<>>)) /\ DOMAIN <<>> = {}
      BY <3>1 DEF H!CheckExecutability
    <3> QED BY <3>2, BeginKeeps DEF CheckerInv, CheckLevels
  <2>2. CASE H!TakeTable(c)
    <3>1. checking[c].level = "operation"
      BY <2>2 DEF H!TakeTable, H!At
    <3>2. CASE H!Skip(c)
      BY <3>2, SkipKeeps DEF CheckerInv
    <3>3. CASE ~H!Skip(c)
      <4>1. PICK k : k = H!Next(c)
        OBVIOUS
      <4>2. PICK entry : entry = tableHealthCache[k]
        OBVIOUS
      <4>3. H!Cached(tableHealthCache, k) /\ H!Take(c, entry)
        BY <2>2, <3>3, <4>1, <4>2 DEF H!TakeTable
      <4>4. 3 * H!Lifetime = CacheTTL - 1 + (2 * H!Lifetime + CheckTimeout)
        BY Lifetimes, HealthCheckerAssumption
      <4>5. entry.oldest \in 0..(3 * H!Lifetime)
        BY <4>2, <4>3, <4>4, TakenIsAged, Lifetimes DEF CheckerInv, CachesOK
      <4>6. entry.oldest \in 0..SoFar(checking[c].level)
        BY <3>1, <4>5, SoFarIs
      <4>7. Restricts(k, entry.value.parts, entry.value.access)
        BY <4>2, <4>3 DEF H!Cached, CheckerInv, CachesOK
      <4> QED BY <4>1, <4>3, <4>6, <4>7, TakeKeeps DEF CheckerInv
    <3> QED BY <3>2, <3>3
  <2>3. CASE H!Answer(c)
    BY <2>3, DoneKeeps DEF CheckerInv, H!Answer
  <2> QED BY <2>1, <2>2, <2>3
<1> QED BY <1>1, <1>2 DEF CheckerInv, CachesOK, Aged

LEMMA ElapseKeeps ==
  ASSUME CheckerInv, H!Elapse
  PROVE  CheckerInv'
<1>1. /\ Aged(tabletHealthCache', CheckTimeout) /\ Aged(partitionHealthCache', H!Lifetime + CheckTimeout)
      /\ Aged(tableHealthCache', 2 * H!Lifetime + CheckTimeout)
  <2>1. Aged(H!Older(tabletHealthCache), CheckTimeout)
    BY Lifetimes, OlderIsAged DEF CheckerInv, CachesOK
  <2>2. Aged(H!Older(partitionHealthCache), H!Lifetime + CheckTimeout)
    BY Lifetimes, OlderIsAged DEF CheckerInv, CachesOK
  <2>3. Aged(H!Older(tableHealthCache), 2 * H!Lifetime + CheckTimeout)
    BY Lifetimes, OlderIsAged DEF CheckerInv, CachesOK
  <2> QED BY <2>1, <2>2, <2>3 DEF H!Elapse
<1>2. \A key \in DOMAIN tableHealthCache' :
        key \in DOMAIN tableHealthCache /\ tableHealthCache'[key].value = tableHealthCache[key].value
  BY DEF H!Elapse, H!Older, CheckerInv, CachesOK, Aged
<1>3. \A key \in DOMAIN tableHealthCache' :
        Restricts(key, tableHealthCache'[key].value.parts, tableHealthCache'[key].value.access)
  BY <1>2 DEF CheckerInv, CachesOK
<1>4. ASSUME NEW c \in Checkers PROVE FrameOK(checking'[c])
  <2>1. PICK f : f = checking[c]
    OBVIOUS
  <2>2. FrameOK(f) /\ f.elapsed < CheckTimeout
    BY <2>1 DEF H!Elapse, CheckerInv, FramesOK
  <2>3. CASE f = H!Idle
    BY <2>1, <2>3, IdleIsOK DEF H!Elapse
  <2>4. CASE f # H!Idle
    <3>1. PICK g : g = [f EXCEPT !.oldest = @ + 1, !.elapsed = @ + 1]
      OBVIOUS
    <3>2. checking'[c] = g
      BY <2>1, <2>4, <3>1 DEF H!Elapse
    <3>3. /\ DOMAIN g = {"level", "key", "todo", "found", "oldest", "elapsed"}
          /\ g.level = f.level /\ g.found = f.found
          /\ g.oldest = f.oldest + 1 /\ g.elapsed = f.elapsed + 1
      BY <2>2, <3>1 DEF FrameOK
    <3>4. PICK n : n = SoFar(f.level)
      OBVIOUS
    <3>5. n \in Nat /\ f.elapsed \in 0..CheckTimeout /\ f.oldest \in 0..(n + f.elapsed)
      BY <2>2, <3>4, SoFarIs DEF FrameOK
    <3>6. g.elapsed \in 0..CheckTimeout /\ g.oldest \in 0..(n + g.elapsed)
      BY <2>2, <3>3, <3>5, Lifetimes
    <3>7. FrameOK(g)
      BY <2>2, <3>3, <3>4, <3>6 DEF FrameOK
    <3> QED BY <3>2, <3>7
  <2> QED BY <2>3, <2>4
<1>5. FramesOK'
  <2>1. DOMAIN checking' = Checkers
    BY DEF H!Elapse
  <2> QED BY <1>4, <2>1 DEF FramesOK
<1> QED BY <1>1, <1>3, <1>5 DEF CheckerInv, CachesOK, Aged

LEMMA EmptyCaches ==
  tabletHealthCache = <<>> /\ partitionHealthCache = <<>> /\ tableHealthCache = <<>> => CachesOK
  BY DEF CachesOK, Aged

(* A table's verdict rests on data no older than its three caches and the  *)
(* checks that filled them make it, an answer on data that its own check   *)
(* ages further; and what may run is not known to be out of reach, in the  *)
(* tables and partitions that could be checked: each level adds the time   *)
(* of its check and of its cache, and no later condition of the analysis   *)
(* gives back what an earlier one took (domain/health/checker.go).         *)
THEOREM VerdictSafety == RequestsSpec => []VerdictsAreSound
<1> DEFINE Inv == part = "health" => CheckerInv
<1>1. RequestsInit => Inv
  <2> SUFFICES ASSUME RequestsInit, part = "health" PROVE CheckerInv
    OBVIOUS
  <2>1. H!CheckerInit
    BY DEF RequestsInit
  <2>2. FramesOK
    BY <2>1, IdleIsOK DEF H!CheckerInit, FramesOK
  <2> QED BY <2>1, <2>2, EmptyCaches DEF H!CheckerInit, CheckerInv
<1>2. Inv /\ [RequestsNext]_requestsVars => Inv'
  <2> SUFFICES ASSUME Inv, [RequestsNext]_requestsVars, part' = "health" PROVE CheckerInv'
    OBVIOUS
  <2>1. part = "health" /\ CheckerInv /\ (H!CheckerNext \/ UNCHANGED checkerVars)
    BY DEF RequestsNext, requestsVars
  <2>2. CASE UNCHANGED checkerVars
    BY <2>1, <2>2 DEF checkerVars, CheckerInv, CachesOK, FramesOK, Aged
  <2>3. CASE H!ClearCache
    <3>1. CachesOK'
      BY <2>3 DEF H!ClearCache, CachesOK, Aged
    <3>2. FramesOK'
      BY <2>1, <2>3 DEF H!ClearCache, CheckerInv, FramesOK
    <3> QED BY <3>1, <3>2 DEF CheckerInv
  <2>4. CASE H!Elapse
    BY <2>1, <2>4, ElapseKeeps
  <2>5. ASSUME NEW c \in Checkers,
          \/ \E t \in H!Tablets : H!CheckTabletHealth(c, t)
          \/ \E p \in H!TablePartitions : H!CheckPartitionHealth(c, p)
          \/ \E table \in H!Tables : H!CheckTableHealth(c, table)
          \/ \E tables \in SUBSET H!Tables : H!CheckExecutability(c, tables)
          \/ H!CacheTablet(c) \/ H!TakeTablet(c) \/ H!CachePartition(c)
          \/ H!TakePartition(c) \/ H!CacheTable(c) \/ H!TakeTable(c) \/ H!Answer(c)
        PROVE CheckerInv'
    BY <2>1, <2>5, TabletStepKeeps, PartitionStepKeeps, TableStepKeeps, CacheTableKeeps, OperationStepKeeps
  <2> QED BY <2>1, <2>2, <2>3, <2>4, <2>5 DEF H!CheckerNext
<1>3. Inv => VerdictsAreSound
  <2> SUFFICES ASSUME CheckerInv PROVE H!StalenessBounded /\ H!ExecutableIsAccessible
    BY DEF VerdictsAreSound
  <2>1. ASSUME NEW key \in DOMAIN tableHealthCache
        PROVE  tableHealthCache[key].oldest <= 3 * H!Lifetime
    <3>1. tableHealthCache[key].age \in 0..(CacheTTL - 1)
          /\ tableHealthCache[key].oldest \in 0..(tableHealthCache[key].age + (2 * H!Lifetime + CheckTimeout))
      BY DEF CheckerInv, CachesOK, Aged
    <3> QED BY <3>1, HealthCheckerAssumption, Lifetimes
  <2>2. ASSUME NEW c \in Checkers, H!Answered(c)
        PROVE  /\ checking[c].oldest <= 3 * H!Lifetime + CheckTimeout
               /\ \A k \in DOMAIN checking[c].found :
                    Restricts(k, checking[c].found[k].parts, checking[c].found[k].access)
    <3>1. FrameOK(checking[c]) /\ checking[c].level = "operation"
      BY <2>2 DEF CheckerInv, FramesOK, H!Answered, H!At
    <3>2. checking[c].elapsed \in 0..CheckTimeout
          /\ checking[c].oldest \in 0..(3 * H!Lifetime + checking[c].elapsed)
      BY <3>1, SoFarIs DEF FrameOK
    <3>3. checking[c].oldest <= 3 * H!Lifetime + CheckTimeout
      BY <3>2, Lifetimes
    <3> QED BY <3>1, <3>3 DEF FrameOK
  <2>3. H!StalenessBounded
    BY <2>1, <2>2 DEF H!StalenessBounded
  <2>4. ASSUME NEW c \in Checkers, H!Answered(c), NEW k \in DOMAIN checking[c].found
        PROVE  /\ H!analyzeWriteExecutability(checking[c].found) =>
                    H!With(checking[c].found[k].parts, "READ_ONLY") = {}
               /\ H!analyzeQueryExecutability(checking[c].found) =>
                    H!With(checking[c].found[k].parts, "NONE") # PartitionsOf[k]
    <3>1. Restricts(k, checking[c].found[k].parts, checking[c].found[k].access)
      BY <2>2, <2>4
    <3> QED BY <3>1 DEF Restricts, H!analyzeWriteExecutability, H!analyzeQueryExecutability
  <2>5. H!ExecutableIsAccessible
    BY <2>4 DEF H!ExecutableIsAccessible
  <2> QED BY <2>3, <2>5
<1> QED BY <1>1, <1>2, <1>3, PTL DEF RequestsSpec

-----------------------------------------------------------------------------
(* Query service.                                                          *)

Stages == {"idle", "validate", "health", "plan", "execute"}
Answers == {r \in [kind : {"none", "error", "rows"}, partial : BOOLEAN, healthy : BOOLEAN] :
              r.healthy = FALSE => r.partial = TRUE}

\* The entry of a query that is being executed is in the list, that of no other is running.
Listed(c) ==
  IF queryExecution[c].at = "idle" THEN runningQueries[c] # "running" ELSE runningQueries[c] # "none"

QueryServiceInv ==
  /\ queryExecution \in [QueryCallers -> [at : Stages, healthy : BOOLEAN]]
  /\ runningQueries \in [QueryCallers -> {"none", "running", "cancelled"}]
  /\ cancelling \in [Cancellers -> QueryCallers \cup {"none"}]
  /\ queryCache \in [Texts -> Answers] /\ delivered \in [QueryCallers -> Answers]
  /\ \A c \in QueryCallers : Listed(c)

LEMMA AnswersOfService ==
  /\ Q!NoResult \in Answers /\ Q!Failed \in Answers
  /\ \A healthy \in BOOLEAN : Q!Result(healthy) \in Answers
<1>1. Q!NoResult \in Answers
  BY DEF Q!NoResult, Answers
<1>2. Q!Failed = [kind |-> "error", partial |-> FALSE, healthy |-> TRUE]
  BY DEF Q!Failed, Q!NoResult
<1>3. ASSUME NEW healthy \in BOOLEAN PROVE Q!Result(healthy) \in Answers
  <2>1. CASE healthy = TRUE
    <3>1. (~healthy) = FALSE
      BY <2>1
    <3>2. Q!Result(healthy) = [kind |-> "rows", partial |-> FALSE, healthy |-> TRUE]
      BY <2>1, <3>1, Zenon DEF Q!Result
    <3> QED BY <3>2 DEF Answers
  <2>2. CASE healthy = FALSE
    <3>1. (~healthy) = TRUE
      BY <2>2
    <3>2. Q!Result(healthy) = [kind |-> "rows", partial |-> TRUE, healthy |-> FALSE]
      BY <2>2, <3>1, Zenon DEF Q!Result
    <3> QED BY <3>2 DEF Answers
  <2> QED BY <2>1, <2>2
<1> QED BY <1>1, <1>2, <1>3 DEF Answers

LEMMA ServiceInitially == Q!QueryServiceInit => QueryServiceInv
  BY AnswersOfService DEF Q!QueryServiceInit, QueryServiceInv, Listed, Q!Idle, Stages

\* A call that goes on stays registered.
LEMMA GoingKeepsService ==
  ASSUME QueryServiceInv, NEW c \in QueryCallers, NEW at \in Stages \ {"idle"}, NEW healthy \in BOOLEAN,
         queryExecution' = [queryExecution EXCEPT ![c] = [at |-> at, healthy |-> healthy]],
         queryExecution[c].at # "idle", UNCHANGED <<runningQueries, queryCache, delivered, cancelling>>
  PROVE  QueryServiceInv'
<1>1. queryExecution' \in [QueryCallers -> [at : Stages, healthy : BOOLEAN]]
  <2>1. [at |-> at, healthy |-> healthy] \in [at : Stages, healthy : BOOLEAN]
    OBVIOUS
  <2> QED BY <2>1 DEF QueryServiceInv
<1>2. \A d \in QueryCallers : Listed(d)'
  BY DEF QueryServiceInv, Listed
<1> QED BY <1>1, <1>2 DEF QueryServiceInv

LEMMA FinishKeepsService ==
  ASSUME QueryServiceInv, NEW c \in QueryCallers, NEW result \in Answers, Q!Finish(c, result),
         queryCache' \in [Texts -> Answers], UNCHANGED cancelling
  PROVE  QueryServiceInv'
<1>1. [at |-> "idle", healthy |-> TRUE] \in [at : Stages, healthy : BOOLEAN]
  BY DEF Stages
<1>2. queryExecution' \in [QueryCallers -> [at : Stages, healthy : BOOLEAN]]
  BY <1>1 DEF QueryServiceInv, Q!Finish, Q!Idle
<1>3. \A d \in QueryCallers : Listed(d)'
  BY DEF QueryServiceInv, Listed, Q!Finish, Q!Idle
<1> QED BY <1>2, <1>3 DEF QueryServiceInv, Q!Finish

LEMMA CallKeepsService ==
  ASSUME QueryServiceInv, NEW c \in QueryCallers,
         Q!AnswerFromCache(c) \/ Q!Register(c) \/ Q!Validate(c) \/ Q!CheckSystemHealth(c)
         \/ Q!Plan(c) \/ Q!executeOriginalQuery(c)
  PROVE  QueryServiceInv'
<1>1. CASE Q!AnswerFromCache(c)
  <2>1. Text[c] \in Texts
    BY QueryServiceAssumption
  <2> QED BY <1>1, <2>1 DEF Q!AnswerFromCache, QueryServiceInv, Listed
<1>2. CASE Q!Register(c)
  <2>1. [queryExecution[c] EXCEPT !.at = "validate"] \in [at : Stages, healthy : BOOLEAN]
    BY DEF QueryServiceInv, Stages
  <2>2. queryExecution' = [queryExecution EXCEPT ![c] = [queryExecution[c] EXCEPT !.at = "validate"]]
    BY <1>2 DEF Q!Register, Q!Goes, QueryServiceInv
  <2>3. queryExecution' \in [QueryCallers -> [at : Stages, healthy : BOOLEAN]]
    BY <2>1, <2>2 DEF QueryServiceInv
  <2>4. \A d \in QueryCallers : Listed(d)'
    BY <1>2, <2>2 DEF Q!Register, QueryServiceInv, Listed
  <2> QED BY <1>2, <2>3, <2>4 DEF Q!Register, QueryServiceInv
<1>3. ASSUME NEW at \in Stages \ {"idle"}, Q!Goes(c, at), queryExecution[c].at # "idle",
             UNCHANGED <<runningQueries, queryCache, delivered, cancelling>>
      PROVE  QueryServiceInv'
  <2>1. queryExecution[c].healthy \in BOOLEAN
        /\ [queryExecution[c] EXCEPT !.at = at] = [at |-> at, healthy |-> queryExecution[c].healthy]
    BY DEF QueryServiceInv
  <2>2. queryExecution' = [queryExecution EXCEPT ![c] = [at |-> at, healthy |-> queryExecution[c].healthy]]
    BY <1>3, <2>1 DEF Q!Goes
  <2> QED BY <1>3, <2>1, <2>2, GoingKeepsService
<1>4. CASE Q!Validate(c)
  <2>1. queryExecution[c].at # "idle" /\ UNCHANGED <<queryCache, cancelling>>
        /\ ((Q!Goes(c, "health") /\ UNCHANGED <<runningQueries, delivered>>) \/ Q!Finish(c, Q!Failed))
    BY <1>4 DEF Q!Validate
  <2>2. CASE Q!Finish(c, Q!Failed)
    BY <2>1, <2>2, AnswersOfService, FinishKeepsService DEF QueryServiceInv
  <2> QED BY <1>3, <2>1, <2>2 DEF Stages
<1>5. CASE Q!CheckSystemHealth(c)
  <2>1. queryExecution[c].at # "idle" /\ UNCHANGED <<queryCache, cancelling>>
    BY <1>5 DEF Q!CheckSystemHealth
  <2>2. CASE Q!Finish(c, Q!Failed)
    BY <2>1, <2>2, AnswersOfService, FinishKeepsService DEF QueryServiceInv
  <2>3. CASE ~Q!Finish(c, Q!Failed)
    <3>1. PICK healthy \in BOOLEAN : queryExecution' = [queryExecution EXCEPT ![c] = [at |-> "plan", healthy |-> healthy]]
          /\ UNCHANGED <<runningQueries, delivered>>
      BY <1>5, <2>3 DEF Q!CheckSystemHealth
    <3> QED BY <2>1, <3>1, GoingKeepsService DEF Stages
  <2> QED BY <2>2, <2>3
<1>6. CASE Q!Plan(c)
  <2>1. queryExecution[c].at # "idle" /\ UNCHANGED <<queryCache, cancelling>>
        /\ ((Q!Goes(c, "execute") /\ UNCHANGED <<runningQueries, delivered>>) \/ Q!Finish(c, Q!Failed))
    BY <1>6 DEF Q!Plan
  <2>2. CASE Q!Finish(c, Q!Failed)
    BY <2>1, <2>2, AnswersOfService, FinishKeepsService DEF QueryServiceInv
  <2> QED BY <1>3, <2>1, <2>2 DEF Stages
<1>7. CASE Q!executeOriginalQuery(c)
  <2>1. UNCHANGED cancelling /\ queryExecution[c].healthy \in BOOLEAN
    BY <1>7 DEF Q!executeOriginalQuery, QueryServiceInv
  <2>2. CASE Q!Finish(c, Q!Failed) /\ UNCHANGED queryCache
    BY <2>1, <2>2, AnswersOfService, FinishKeepsService DEF QueryServiceInv
  <2>3. CASE ~(Q!Finish(c, Q!Failed) /\ UNCHANGED queryCache)
    <3>1. PICK result : result = Q!Result(queryExecution[c].healthy)
      OBVIOUS
    <3>2. result \in Answers
      BY <2>1, <3>1, AnswersOfService
    <3>3. Q!Finish(c, result)
          /\ (queryCache' = queryCache \/ queryCache' = [queryCache EXCEPT ![Text[c]] = result])
      BY <1>7, <2>3, <3>1 DEF Q!executeOriginalQuery
    <3>4. queryCache' \in [Texts -> Answers]
      BY <3>2, <3>3 DEF QueryServiceInv
    <3> QED BY <2>1, <3>2, <3>3, <3>4, FinishKeepsService
  <2> QED BY <2>2, <2>3
<1> QED BY <1>1, <1>2, <1>4, <1>5, <1>6, <1>7

LEMMA ServiceNextKeepsService == QueryServiceInv /\ Q!QueryServiceNext => QueryServiceInv'
<1> SUFFICES ASSUME QueryServiceInv, Q!QueryServiceNext PROVE QueryServiceInv'
  OBVIOUS
<1>1. CASE \E t \in Texts : Q!ExpireResult(t)
  BY <1>1, AnswersOfService DEF Q!ExpireResult, QueryServiceInv, Listed
<1>2. CASE \E k \in Cancellers : \E c \in QueryCallers : Q!FindRunning(k, c)
  BY <1>2 DEF Q!FindRunning, QueryServiceInv, Listed
<1>3. CASE \E k \in Cancellers : Q!CancelQuery(k)
  BY <1>3 DEF Q!CancelQuery, Q!CancelledStatus, QueryServiceInv, Listed
<1> QED BY <1>1, <1>2, <1>3, CallKeepsService DEF Q!QueryServiceNext

-----------------------------------------------------------------------------
(* Pruning.                                                                *)

Columns == {"dt", "id"}
Planning == [pc : {"idle", "parse", "check", "prune", "plan"}, query : Queries \cup {""},
             cols : SUBSET Columns, table : {"none", "partial", "full"}]

\* What a PruningInfo leaves out of the rows of q it lists.
Reports(q, info) ==
  /\ info.rows \subseteq N!Selected(q)
  /\ \A row \in N!Selected(q) \ info.rows : row.dt \in info.dt \/ row.id \in info.id

SoundPlan(q, plan) ==
  /\ plan.query = q
  /\ Reports(q, plan.info)
  /\ plan.info.loss > MaxDataLoss /\ ~PreferPruned => plan.executable = FALSE

PruningInv ==
  /\ \A q \in DOMAIN parserCache : parserCache[q] \subseteq Columns
  /\ planning \in Planning
  /\ \A key \in DOMAIN pruningCache : Reports(key[1], pruningCache[key])
  /\ \A q \in DOMAIN planCache : SoundPlan(q, planCache[q])

\* A row is excluded by its partition or its bucket, however the exclusions are joined.
LEMMA PrunedRowsAreReported ==
  ASSUME NEW q, NEW cols, cols \subseteq Columns, NEW dt, NEW id, NEW how
  PROVE  Reports(q, N!pruneQueryInternal(q, cols, dt, id, how))
<1> DEFINE unavailable == [dt |-> dt, id |-> id]
           info == N!pruneQueryInternal(q, cols, dt, id, how)
           kept == N!buildPrunedWhereClause(unavailable, cols, how)
<1>1. info.rows = N!Selected(q) \cap kept /\ info.dt = dt /\ info.id = id
  BY DEF N!pruneQueryInternal
<1>2. ASSUME NEW row \in N!Rows, row \notin kept PROVE row.dt \in dt \/ row.id \in id
  <2>1. PICK c \in cols : row[c] \in unavailable[c]
    BY <1>2 DEF N!buildPrunedWhereClause, N!Kept
  <2>2. c = "dt" \/ c = "id"
    BY DEF Columns
  <2>3. CASE c = "dt"
    BY <2>1, <2>3
  <2>4. CASE c = "id"
    BY <2>1, <2>4
  <2> QED BY <2>2, <2>3, <2>4
<1>3. N!Selected(q) \subseteq N!Rows
  BY DEF N!Selected
<1> HIDE DEF info, kept
<1>4. Reports(q, info)
  BY <1>1, <1>2, <1>3 DEF Reports
<1> QED BY <1>4 DEF info

LEMMA OriginalIsSound == ASSUME NEW q PROVE SoundPlan(q, N!Original(q)) /\ SoundPlan(q, N!Rejected(q))
<1>1. Reports(q, N!NotPruned(q)) /\ N!NotPruned(q).loss = 0
  BY DEF N!NotPruned, Reports
<1>2. N!Original(q) = [query |-> q, strategy |-> "ORIGINAL", executable |-> TRUE, info |-> N!NotPruned(q)]
  BY DEF N!Original
<1>3. N!Rejected(q).query = q /\ N!Rejected(q).executable = FALSE /\ N!Rejected(q).info = N!NotPruned(q)
  <2>1. N!Rejected(q) = [N!Original(q) EXCEPT !.strategy = "REJECTED", !.executable = FALSE]
    BY DEF N!Rejected
  <2> HIDE DEF N!Rejected
  <2> QED BY <1>2, <2>1
<1> QED BY <1>1, <1>2, <1>3, PruningAssumption DEF SoundPlan

LEMMA PrunedPlanIsSound == ASSUME NEW q, NEW info, Reports(q, info) PROVE SoundPlan(q, N!PrunedPlan(q, info))
  BY OriginalIsSound DEF N!PrunedPlan, SoundPlan

\* Whatever the plan, the answer is kept under its query.
LEMMA AnswerKeepsPruning ==
  ASSUME PruningInv, NEW q, NEW plan, SoundPlan(q, plan), DOMAIN plan = {"query", "strategy", "executable", "info"},
         N!Answer(plan)
  PROVE  /\ planning' \in Planning
         /\ \A x \in DOMAIN planCache' : SoundPlan(x, planCache'[x])
<1>1. planning' \in Planning
  <2>1. planning' = [pc |-> "idle", query |-> "", cols |-> {}, table |-> "full"]
    BY DEF N!Answer, N!Idle
  <2> HIDE DEF N!Answer
  <2> QED BY <2>1 DEF Planning
<1>2. PICK p : planCache' = N!Cached(planCache, q, p) /\ (p = plan \/ p = [plan EXCEPT !.strategy = "PARTITIONED"])
  BY DEF N!Answer, SoundPlan
<1>3. SoundPlan(q, p)
  <2>1. p.query = plan.query /\ p.info = plan.info /\ p.executable = plan.executable
    BY <1>2
  <2> QED BY <2>1 DEF SoundPlan
<1>4. DOMAIN planCache' = DOMAIN planCache \cup {q}
      /\ \A x \in DOMAIN planCache' : planCache'[x] = IF x = q THEN p ELSE planCache[x]
  BY <1>2 DEF N!Cached
<1>5. ASSUME NEW x \in DOMAIN planCache' PROVE SoundPlan(x, planCache'[x])
  <2>1. CASE x = q
    BY <1>3, <1>4, <2>1
  <2>2. CASE x # q
    BY <1>4, <2>2 DEF PruningInv
  <2> QED BY <2>1, <2>2
<1> QED BY <1>1, <1>5

LEMMA ParseKeepsPruning == PruningInv /\ N!ParseQuery => PruningInv'
<1> SUFFICES ASSUME PruningInv, N!ParseQuery PROVE PruningInv'
  OBVIOUS
<1>1. PICK columns, cols :
        /\ columns \in N!ColumnsFound
        /\ cols = IF planning.query \in DOMAIN parserCache THEN parserCache[planning.query]
                  ELSE N!extractConditionsFromExpr(planning.query, columns)
        /\ parserCache' = N!Cached(parserCache, planning.query, cols)
        /\ planning' = [planning EXCEPT !.pc = "check", !.cols = cols]
  BY DEF N!ParseQuery
<1>2. columns \subseteq Columns
  BY <1>1 DEF N!ColumnsFound, Columns
<1>3. N!extractConditionsFromExpr(planning.query, columns) \subseteq Columns
  BY <1>2 DEF N!extractConditionsFromExpr
<1>4. cols \subseteq Columns
  <2>1. CASE planning.query \in DOMAIN parserCache
    BY <1>1, <2>1 DEF PruningInv
  <2>2. CASE planning.query \notin DOMAIN parserCache
    BY <1>1, <1>3, <2>2
  <2> QED BY <2>1, <2>2
<1>5. \A q \in DOMAIN parserCache' : parserCache'[q] \subseteq Columns
  BY <1>1, <1>4 DEF N!Cached, PruningInv
<1>6. planning' \in Planning
  BY <1>1, <1>4 DEF PruningInv, Planning
<1>7. UNCHANGED <<pruningCache, planCache>>
  BY DEF N!ParseQuery
<1> QED BY <1>5, <1>6, <1>7 DEF PruningInv, SoundPlan

LEMMA PruneKeepsPruning == PruningInv /\ N!PruneQuery => PruningInv'
<1> SUFFICES ASSUME PruningInv, N!PruneQuery PROVE PruningInv'
  OBVIOUS
<1> DEFINE q == planning.query
           key == <<q, strategy>>
<1>1. PICK seen, info :
        /\ seen \in N!Learned
        /\ info = IF key \in DOMAIN pruningCache THEN pruningCache[key]
                  ELSE N!pruneQueryInternal(q, planning.cols, seen.dt, seen.id, strategy)
        /\ pruningCache' = N!Cached(pruningCache, key, info)
        /\ N!Answer(N!PrunedPlan(q, info))
  BY DEF N!PruneQuery
<1>2. Reports(q, info)
  <2>1. CASE key \in DOMAIN pruningCache
    <3>1. Reports(key[1], pruningCache[key])
      BY <2>1 DEF PruningInv
    <3> QED BY <1>1, <2>1, <3>1
  <2>2. CASE key \notin DOMAIN pruningCache
    <3>1. planning.cols \subseteq Columns
      BY DEF PruningInv, Planning
    <3> QED BY <1>1, <2>2, <3>1, PrunedRowsAreReported
  <2> QED BY <2>1, <2>2
<1>3. PICK plan : plan = N!PrunedPlan(q, info)
  OBVIOUS
<1>4. SoundPlan(q, plan)
  BY <1>2, <1>3, PrunedPlanIsSound
<1>5. DOMAIN plan = {"query", "strategy", "executable", "info"}
  BY <1>3 DEF N!PrunedPlan, N!Original
<1>6. N!Answer(plan)
  BY <1>1, <1>3
<1>7. planning' \in Planning /\ \A x \in DOMAIN planCache' : SoundPlan(x, planCache'[x])
  BY <1>4, <1>5, <1>6, AnswerKeepsPruning
<1>8. \A k \in DOMAIN pruningCache' : Reports(k[1], pruningCache'[k])
  <2> SUFFICES ASSUME NEW k \in DOMAIN pruningCache' PROVE Reports(k[1], pruningCache'[k])
    OBVIOUS
  <2>1. CASE k = key
    <3>1. pruningCache'[k] = info /\ k[1] = q
      BY <1>1, <2>1 DEF N!Cached
    <3> QED BY <1>2, <3>1
  <2>2. CASE k # key
    <3>1. k \in DOMAIN pruningCache /\ pruningCache'[k] = pruningCache[k]
      BY <1>1, <2>2 DEF N!Cached
    <3> QED BY <3>1 DEF PruningInv
  <2> QED BY <2>1, <2>2
<1>9. UNCHANGED parserCache
  BY DEF N!PruneQuery
<1> QED BY <1>7, <1>8, <1>9 DEF PruningInv

LEMMA PlanKeepsPruning == PruningInv /\ N!PlanUnpruned => PruningInv'
<1> SUFFICES ASSUME PruningInv, N!PlanUnpruned PROVE PruningInv'
  OBVIOUS
<1>1. PICK plan : N!Answer(plan) /\ (plan = N!Rejected(planning.query) \/ plan = N!Original(planning.query))
  BY DEF N!PlanUnpruned
<1>2. SoundPlan(planning.query, plan)
  BY <1>1, OriginalIsSound
<1>3. DOMAIN plan = {"query", "strategy", "executable", "info"}
  BY <1>1 DEF N!Rejected, N!Original
<1>4. planning' \in Planning /\ \A x \in DOMAIN planCache' : SoundPlan(x, planCache'[x])
  BY <1>1, <1>2, <1>3, AnswerKeepsPruning
<1>5. UNCHANGED <<parserCache, pruningCache>>
  BY DEF N!PlanUnpruned
<1> QED BY <1>4, <1>5 DEF PruningInv

\* To forget entries is always sound.
LEMMA ForgettingKeepsPruning ==
  ASSUME PruningInv, UNCHANGED planning,
         \A x \in DOMAIN parserCache' : x \in DOMAIN parserCache /\ parserCache'[x] = parserCache[x],
         \A x \in DOMAIN pruningCache' : x \in DOMAIN pruningCache /\ pruningCache'[x] = pruningCache[x],
         \A x \in DOMAIN planCache' : x \in DOMAIN planCache /\ planCache'[x] = planCache[x]
  PROVE  PruningInv'
  BY DEF PruningInv

LEMMA PruningNextKeepsPruning == PruningInv /\ N!QueryNext => PruningInv'
<1> SUFFICES ASSUME PruningInv, N!QueryNext PROVE PruningInv'
  OBVIOUS
<1>1. CASE \E q \in Queries : N!GetQueryPlan(q)
  <2>1. PICK q \in Queries : N!GetQueryPlan(q)
    BY <1>1
  <2>2. planning' = [pc |-> "parse", query |-> q, cols |-> {}, table |-> "full"]
    BY <2>1 DEF N!GetQueryPlan, N!Idle
  <2>3. planning' \in Planning
    BY <2>2 DEF Planning
  <2> QED BY <2>1, <2>3 DEF N!GetQueryPlan, PruningInv
<1>2. CASE N!getTablesAvailability
  <2>1. PICK table \in {"none", "partial", "full"}, pc \in {"prune", "plan"} :
          planning' = [planning EXCEPT !.table = table, !.pc = pc]
    BY <1>2 DEF N!getTablesAvailability
  <2>2. planning' \in Planning
    BY <2>1 DEF PruningInv, Planning
  <2> QED BY <1>2, <2>2 DEF N!getTablesAvailability, PruningInv
<1>3. CASE \E q \in Queries : N!InvalidateCache(q)
  BY <1>3, ForgettingKeepsPruning DEF N!InvalidateCache, N!Without
<1>4. CASE \E s \in PruningStrategies : N!SetPruningStrategy(s)
  BY <1>4, ForgettingKeepsPruning DEF N!SetPruningStrategy
<1>5. CASE N!Expire
  BY <1>5, ForgettingKeepsPruning DEF N!Expire, N!Without
<1>6. CASE N!ParseQuery \/ N!PlanUnpruned \/ N!PruneQuery
  BY <1>6, ParseKeepsPruning, PlanKeepsPruning, PruneKeepsPruning
<1> QED BY <1>1, <1>2, <1>3, <1>4, <1>5, <1>6 DEF N!QueryNext

(* GetRunningQueries lists the queries being executed, and a result of an  *)
(* unhealthy system says that it is partial, from the cache too; what a    *)
(* plan leaves out is reported, and a plan that leaves out too much is not *)
(* executable (application/services/query_service.go, domain/query).       *)
THEOREM QuerySafety == RequestsSpec => []QueriesAreTold
<1> DEFINE Inv == (part = "queries" => QueryServiceInv) /\ (part = "pruning" => PruningInv)
<1>1. RequestsInit => Inv
  <2>1. ASSUME N!QueryInit PROVE PruningInv
    <3>1. planning = [pc |-> "idle", query |-> "", cols |-> {}, table |-> "full"]
      BY <2>1 DEF N!QueryInit, N!Idle
    <3>2. planning \in Planning
      BY <3>1 DEF Planning
    <3> QED BY <2>1, <3>2 DEF N!QueryInit, PruningInv
  <2> QED BY <2>1, ServiceInitially DEF RequestsInit
<1>2. Inv /\ [RequestsNext]_requestsVars => Inv'
  <2> SUFFICES ASSUME Inv, [RequestsNext]_requestsVars PROVE Inv'
    OBVIOUS
  <2>1. CASE part' = "queries"
    <3>1. part = "queries" /\ QueryServiceInv /\ (Q!QueryServiceNext \/ UNCHANGED queryVars)
      BY <2>1 DEF RequestsNext, requestsVars
    <3>2. QueryServiceInv'
      <4>1. CASE UNCHANGED queryVars
        BY <3>1, <4>1 DEF queryVars, QueryServiceInv, Listed
      <4> QED BY <3>1, <4>1, ServiceNextKeepsService
    <3> QED BY <2>1, <3>2
  <2>2. CASE part' = "pruning"
    <3>1. part = "pruning" /\ PruningInv /\ (N!QueryNext \/ UNCHANGED pruningVars)
      BY <2>2 DEF RequestsNext, requestsVars
    <3>2. PruningInv'
      <4>1. CASE UNCHANGED pruningVars
        BY <3>1, <4>1, ForgettingKeepsPruning DEF pruningVars
      <4> QED BY <3>1, <4>1, PruningNextKeepsPruning
    <3> QED BY <2>2, <3>2
  <2> QED BY <2>1, <2>2
<1>3. Inv => QueriesAreTold
  <2>1. QueryServiceInv => Q!RunningListIsExact /\ Q!PartialIsMarked
    BY DEF QueryServiceInv, Listed, Answers, Q!RunningListIsExact, Q!GetRunningQueries, Q!PartialIsMarked
  <2>2. PruningInv => N!LossIsReported /\ N!ExcessiveLossIsRejected
    BY DEF PruningInv, SoundPlan, Reports, N!LossIsReported, N!ExcessiveLossIsRejected
  <2> QED BY <2>1, <2>2 DEF QueriesAreTold
<1> QED BY <1>1, <1>2, <1>3, PTL DEF RequestsSpec

-----------------------------------------------------------------------------
(* Batch strategies: the evaluator.                                        *)

\* A strategy: a number limits what a simple one measures, the others ask earlier ones, and
\* each but the last is asked.
SimpleStrategy(k) == k.type \in B!Simple /\ k.max \in Nat

StrategyOK(s) ==
  /\ Len(s) \in Nat /\ Len(s) # 0 /\ DOMAIN s = 1..Len(s)
  /\ \A i \in DOMAIN s :
       /\ SimpleStrategy(s[i]) \/ (s[i].type \notin B!Simple /\ B!Asked(s[i]) # {})
       /\ B!Asked(s[i]) \subseteq 1..(i - 1)
       /\ i # Len(s) => \E j \in DOMAIN s : i \in B!Asked(s[j])

LEMMA CreatedSimpleIsOK ==
  ASSUME NEW c \in SimpleConfigs
  PROVE  SimpleStrategy(B!CreateSimple(c)) /\ B!CreateSimple(c).type = c.type
<1>1. PICK d \in {"time", "size", "count"} : c.type = d
  BY DEF SimpleConfigs, B!Simple
<1>2. B!Default[c.type].min = 1 /\ B!Default[c.type].max = 10
  BY <1>1 DEF B!Default
<1>3. PICK min \in Int, max \in Int :
        /\ min = (IF c.min <= 0 THEN B!Default[c.type].min ELSE c.min)
        /\ max = (IF c.max <= 0 THEN B!Default[c.type].max ELSE c.max)
  BY <1>2 DEF SimpleConfigs
<1>4. min > 0 /\ max > 0
  BY <1>2, <1>3 DEF SimpleConfigs
<1>5. B!CreateSimple(c) = [c EXCEPT !.min = min, !.max = IF max < min THEN min ELSE max]
  BY <1>3 DEF B!CreateSimple
<1>6. B!CreateSimple(c).type = c.type /\ B!CreateSimple(c).max = IF max < min THEN min ELSE max
  BY <1>5 DEF SimpleConfigs
<1> QED BY <1>3, <1>4, <1>6 DEF SimpleStrategy, SimpleConfigs

LEMMA CreatedIsOK ==
  ASSUME NEW c, WellFormed(c), B!Creatable(c)
  PROVE  StrategyOK(B!CreateStrategy(c))
<1> DEFINE Nodes == SimpleConfigs \cup HybridConfigs \cup AdaptiveConfigs
<1>1. PICK s : s = B!CreateStrategy(c)
  OBVIOUS
<1>2. c \in Seq(Nodes) /\ c # <<>>
  BY DEF WellFormed
<1>3. Len(c) \in Nat /\ Len(c) # 0 /\ DOMAIN c = 1..Len(c) /\ \A i \in DOMAIN c : c[i] \in Nodes
  BY <1>2
<1>4. s = [i \in DOMAIN c |-> IF c[i].type \in B!Simple THEN B!CreateSimple(c[i]) ELSE c[i]]
  BY <1>1 DEF B!CreateStrategy
<1>5. DOMAIN s = 1..Len(c) /\ Len(s) = Len(c)
  BY <1>3, <1>4
<1>6. ASSUME NEW i \in 1..Len(c)
      PROVE  /\ B!Asked(s[i]) = B!Asked(c[i])
             /\ SimpleStrategy(s[i]) \/ (s[i].type \notin B!Simple /\ B!Asked(s[i]) # {})
  <2>1. CASE c[i] \in SimpleConfigs
    <3>1. c[i].type \in B!Simple
      BY <2>1 DEF SimpleConfigs
    <3>2. s[i] = B!CreateSimple(c[i])
      BY <1>3, <1>4, <3>1
    <3>3. SimpleStrategy(s[i]) /\ s[i].type = c[i].type
      BY <2>1, <3>2, CreatedSimpleIsOK
    <3> QED BY <3>1, <3>3 DEF B!Asked, B!Simple
  <2>2. CASE c[i] \notin SimpleConfigs
    <3>1. c[i].type \in {"hybrid", "adaptive"} /\ c[i].type \notin B!Simple
      BY <1>3, <2>2 DEF HybridConfigs, AdaptiveConfigs, B!Simple
    <3>2. s[i] = c[i]
      BY <1>3, <1>4, <3>1
    <3>3. B!Asked(c[i]) # {}
      BY <1>3, <3>1 DEF B!Asked, B!Creatable
    <3> QED BY <3>1, <3>2, <3>3
  <2> QED BY <2>1, <2>2
<1>7. StrategyOK(s)
  BY <1>3, <1>5, <1>6 DEF StrategyOK, WellFormed
<1> QED BY <1>1, <1>7

\* What node i answers when those it asks answer f.
Says(s, i, b, t, f) ==
  IF s[i].type \in B!Simple THEN B!SimpleReady(s[i], b, t)
  ELSE IF B!RequiresAll(s[i]) THEN \A p \in B!Asked(s[i]) : f[p]
  ELSE \E p \in B!Asked(s[i]) : f[p]

LEMMA SaysTheSame ==
  ASSUME NEW s, NEW i, NEW b, NEW t, NEW f, NEW g, \A p \in B!Asked(s[i]) : f[p] = g[p]
  PROVE  Says(s, i, b, t, f) = Says(s, i, b, t, g)
<1>1. (\A p \in B!Asked(s[i]) : f[p]) = (\A p \in B!Asked(s[i]) : g[p])
  BY Zenon
<1>2. (\E p \in B!Asked(s[i]) : f[p]) = (\E p \in B!Asked(s[i]) : g[p])
  BY Zenon
<1> QED BY <1>1, <1>2, Zenon DEF Says

\* The answers of the nodes exist: each depends on earlier ones only.
Answered(s, b, t, n, f) == f = [i \in 1..n |-> Says(s, i, b, t, f)]

LEMMA OneMoreIsAnswered ==
  ASSUME NEW s, StrategyOK(s), NEW b, NEW t, NEW n \in 1..Len(s), NEW f, Answered(s, b, t, n - 1, f)
  PROVE  \E g : Answered(s, b, t, n, g)
<1> DEFINE g == [i \in 1..n |-> IF i < n THEN f[i] ELSE Says(s, i, b, t, f)]
<1>0. Len(s) \in Nat /\ DOMAIN s = 1..Len(s) /\ \A i \in DOMAIN s : B!Asked(s[i]) \subseteq 1..(i - 1)
  BY Zenon DEF StrategyOK
<1>1. n \in Nat /\ \A i \in 1..n : i \in DOMAIN s /\ B!Asked(s[i]) \subseteq 1..(i - 1)
  <2>1. n \in Nat /\ \A i \in 1..n : i \in 1..Len(s)
    BY <1>0
  <2> QED BY <1>0, <2>1
<1>2. ASSUME NEW i \in 1..n PROVE g[i] = Says(s, i, b, t, f)
  <2>1. CASE i < n
    <3>1. i \in 1..(n - 1)
      BY <1>1, <2>1
    <3>2. f[i] = Says(s, i, b, t, f)
      BY <3>1, Zenon DEF Answered
    <3> QED BY <2>1, <3>2, Zenon
  <2>2. CASE ~(i < n)
    BY <2>2, Zenon
  <2> QED BY <2>1, <2>2
<1>3. ASSUME NEW i \in 1..n PROVE g[i] = Says(s, i, b, t, g)
  <2>1. \A p \in B!Asked(s[i]) : f[p] = g[p]
    <3>1. \A p \in 1..(i - 1) : p \in 1..n /\ p < n
      BY <1>1
    <3>2. \A p \in 1..(i - 1) : f[p] = g[p]
      BY <3>1
    <3> QED BY <1>1, <3>2
  <2> HIDE DEF g
  <2>2. Says(s, i, b, t, f) = Says(s, i, b, t, g)
    BY <2>1, SaysTheSame
  <2> QED BY <1>2, <2>2
<1>4. g = [i \in 1..n |-> g[i]]
  OBVIOUS
<1> HIDE DEF g
<1>5. Answered(s, b, t, n, g)
  BY <1>3, <1>4 DEF Answered
<1> QED BY <1>5

LEMMA AllIsAnswered ==
  ASSUME NEW s, StrategyOK(s), NEW b, NEW t
  PROVE  \E f : Answered(s, b, t, Len(s), f)
<1> DEFINE Bad == {n \in 0..Len(s) : ~\E f : Answered(s, b, t, n, f)}
<1>1. Len(s) \in Nat
  BY DEF StrategyOK
<1>2. SUFFICES ASSUME Bad # {} PROVE FALSE
  BY <1>1
<1>3. Bad \subseteq Nat
  BY <1>1
<1>4. PICK n \in Bad : \A y \in Bad : ~(<<y, n>> \in OpToRel(<, Nat))
  BY <1>2, <1>3, WFMin, NatLessThanWellFounded
<1>5. \A y \in Bad : ~(y < n)
  BY <1>3, <1>4 DEF OpToRel
<1>6. n # 0
  <2> DEFINE none == [i \in 1..0 |-> TRUE]
  <2>1. none = [i \in 1..0 |-> Says(s, i, b, t, none)]
    OBVIOUS
  <2> HIDE DEF none
  <2>2. Answered(s, b, t, 0, none)
    BY <2>1 DEF Answered
  <2> QED BY <2>2
<1>7. n \in 1..Len(s) /\ n - 1 \in 0..Len(s) /\ n - 1 < n
  BY <1>1, <1>6
<1>8. PICK f : Answered(s, b, t, n - 1, f)
  BY <1>5, <1>7
<1>9. \E g : Answered(s, b, t, n, g)
  BY <1>7, <1>8, OneMoreIsAnswered
<1> QED BY <1>9

LEMMA VerdictsAreAnswers ==
  ASSUME NEW s, StrategyOK(s), NEW b, NEW t
  PROVE  \A i \in DOMAIN s : B!Verdicts(s, b, t)[i] = Says(s, i, b, t, B!Verdicts(s, b, t))
<1> DEFINE P(g) == g = [i \in DOMAIN s |->
             IF s[i].type \in B!Simple THEN B!SimpleReady(s[i], b, t)
             ELSE IF B!RequiresAll(s[i]) THEN \A p \in B!Asked(s[i]) : g[p]
             ELSE \E p \in B!Asked(s[i]) : g[p]]
<1>1. \E g : P(g)
  <2>1. PICK f : Answered(s, b, t, Len(s), f)
    BY AllIsAnswered
  <2>2. DOMAIN s = 1..Len(s)
    BY DEF StrategyOK
  <2>3. f = [i \in DOMAIN s |-> Says(s, i, b, t, f)]
    BY <2>1, <2>2 DEF Answered
  <2>4. P(f)
    BY <2>3, Zenon DEF Says
  <2> HIDE DEF P
  <2> QED BY <2>4
<1>2. B!Verdicts(s, b, t) = CHOOSE g : P(g)
  BY DEF B!Verdicts
<1>3. PICK g : g = B!Verdicts(s, b, t)
  OBVIOUS
<1>4. P(g)
  <2> HIDE DEF P
  <2>1. P(CHOOSE h : P(h))
    BY <1>1
  <2> QED BY <1>2, <1>3, <2>1
<1>5. \A i \in DOMAIN s : g[i] = Says(s, i, b, t, g)
  BY <1>4, Zenon DEF Says
<1> QED BY <1>3, <1>5

\* A set of numbers has a minimum.
LEMMA MinimumIsIn == ASSUME NEW S, S \subseteq Nat, S # {} PROVE B!Min(S) \in S
<1>1. PICK m \in S : \A y \in S : ~(<<y, m>> \in OpToRel(<, Nat))
  BY WFMin, NatLessThanWellFounded
<1>2. \A y \in S : ~(y < m)
  BY <1>1 DEF OpToRel
<1>3. \E x \in S : \A y \in S : x =< y
  BY <1>2
<1> QED BY <1>3 DEF B!Min

\* The first node is a simple strategy.
LEMMA FirstIsSimple == ASSUME NEW s, StrategyOK(s) PROVE 1 \in DOMAIN s /\ SimpleStrategy(s[1])
<1>1. 1 \in DOMAIN s
  BY DEF StrategyOK
<1>2. B!Asked(s[1]) \subseteq 1..0
  BY <1>1 DEF StrategyOK
<1> QED BY <1>1, <1>2 DEF StrategyOK

\* A limit that is announced, and is one, is that of a simple strategy below.
LEMMA AnnouncedIsOfSimple ==
  ASSUME NEW s, StrategyOK(s), NEW type \in B!Simple, B!Announced(s, type) < B!Unlimited(type)
  PROVE  \E i \in DOMAIN s : SimpleStrategy(s[i]) /\ s[i].type = type /\ B!Announced(s, type) = s[i].max
<1> DEFINE limits == {B!SimpleLimit(s[i], type) : i \in {j \in DOMAIN s : s[j].type \in B!Simple}}
           none == {B!Unlimited(type) : i \in {j \in DOMAIN s : s[j].type = "hybrid"}}
<1>1. B!Announced(s, type) = B!Min(limits \cup none)
  BY DEF B!Announced
<1>2. B!Unlimited(type) \in Nat
  BY EvaluatorAssumption DEF B!Unlimited
<1>3. ASSUME NEW i \in DOMAIN s, s[i].type \in B!Simple PROVE SimpleStrategy(s[i])
  BY <1>3 DEF StrategyOK
<1>4. limits \cup none \subseteq Nat /\ limits # {}
  <2>1. ASSUME NEW i \in DOMAIN s, s[i].type \in B!Simple PROVE B!SimpleLimit(s[i], type) \in Nat
    BY <1>2, <1>3, <2>1 DEF B!SimpleLimit, SimpleStrategy
  <2>2. 1 \in DOMAIN s /\ s[1].type \in B!Simple
    BY FirstIsSimple DEF SimpleStrategy
  <2> QED BY <1>2, <2>1, <2>2
<1>5. B!Announced(s, type) \in limits \cup none
  <2> HIDE DEF limits, none
  <2> QED BY <1>1, <1>4, MinimumIsIn
<1>6. B!Announced(s, type) # B!Unlimited(type)
  BY <1>2
<1>7. PICK i \in DOMAIN s : s[i].type \in B!Simple /\ B!Announced(s, type) = B!SimpleLimit(s[i], type)
  BY <1>5, <1>6
<1>8. s[i].type = type /\ B!Announced(s, type) = s[i].max
  BY <1>6, <1>7 DEF B!SimpleLimit
<1> QED BY <1>3, <1>7, <1>8

\* A bounded set of numbers has a maximum.
LEMMA HasMaximum ==
  ASSUME NEW b \in Nat, NEW S, S \subseteq 0..b, S # {}
  PROVE  \E x \in S : \A y \in S : y <= x
<1> DEFINE Bounds == {x \in Nat : \A y \in S : y <= x}
<1>1. Bounds \subseteq Nat /\ b \in Bounds
  OBVIOUS
<1>2. PICK m \in Bounds : \A y \in Bounds : ~(<<y, m>> \in OpToRel(<, Nat))
  BY <1>1, WFMin, NatLessThanWellFounded
<1>3. \A y \in Bounds : ~(y < m)
  BY <1>1, <1>2 DEF OpToRel
<1>4. m \in Nat /\ \A y \in S : y \in Nat /\ y <= m
  OBVIOUS
<1>5. m \in S
  <2> SUFFICES ASSUME m \notin S PROVE FALSE
    OBVIOUS
  <2>1. \A y \in S : y \in Nat /\ y < m
    BY <1>4
  <2>2. m - 1 \in Nat
    <3>1. PICK y \in S : TRUE
      OBVIOUS
    <3> QED BY <1>4, <2>1, <3>1
  <2>3. \A y \in S : y <= m - 1
    BY <1>4, <2>1
  <2>4. m - 1 \in Bounds
    BY <2>2, <2>3
  <2> QED BY <1>3, <1>4, <2>4
<1> QED BY <1>4, <1>5

\* Where none requires all, the yes of a node becomes that of the strategy.
LEMMA YesReachesTheLast ==
  ASSUME NEW s, StrategyOK(s), NEW b, NEW t, \A i \in DOMAIN s : ~B!RequiresAll(s[i]),
         NEW k \in DOMAIN s, B!Verdicts(s, b, t)[k]
  PROVE  B!Verdicts(s, b, t)[Len(s)]
<1> DEFINE yes == {i \in DOMAIN s : B!Verdicts(s, b, t)[i]}
<1>1. Len(s) \in Nat /\ DOMAIN s = 1..Len(s) /\ yes \subseteq 0..Len(s) /\ yes # {}
  BY DEF StrategyOK
<1>2. PICK m \in yes : \A y \in yes : y <= m
  BY <1>1, HasMaximum
<1>3. m \in DOMAIN s /\ B!Verdicts(s, b, t)[m]
  OBVIOUS
<1>4. ASSUME m # Len(s) PROVE FALSE
  <2>1. PICK j \in DOMAIN s : m \in B!Asked(s[j])
    BY <1>3, <1>4 DEF StrategyOK
  <2>2. m \in 1..(j - 1)
    BY <2>1 DEF StrategyOK
  <2>3. s[j].type \notin B!Simple
    BY <2>1 DEF B!Asked, B!Simple
  <2>4. Says(s, j, b, t, B!Verdicts(s, b, t))
    BY <1>3, <2>1, <2>3, Zenon DEF Says
  <2>5. B!Verdicts(s, b, t)[j]
    BY <2>4, VerdictsAreAnswers, Zenon
  <2>6. j \in yes
    BY <2>5
  <2> HIDE DEF yes
  <2>7. j <= m
    BY <1>2, <2>6
  <2> QED BY <1>1, <2>2, <2>7
<1> QED BY <1>3, <1>4

\* When every simple strategy says yes, so do all.
LEMMA AllSayYes ==
  ASSUME NEW s, StrategyOK(s), NEW b, NEW t,
         \A i \in DOMAIN s : s[i].type \in B!Simple => B!SimpleReady(s[i], b, t)
  PROVE  B!Verdicts(s, b, t)[Len(s)]
<1> DEFINE no == {i \in DOMAIN s : ~B!Verdicts(s, b, t)[i]}
<1>1. Len(s) \in Nat /\ Len(s) # 0 /\ DOMAIN s = 1..Len(s) /\ no \subseteq Nat
  BY DEF StrategyOK
<1>2. SUFFICES ASSUME no # {} PROVE FALSE
  BY <1>1
<1>3. PICK m \in no : \A y \in no : ~(<<y, m>> \in OpToRel(<, Nat))
  BY <1>1, <1>2, WFMin, NatLessThanWellFounded
<1>4. \A y \in no : ~(y < m)
  BY <1>1, <1>3 DEF OpToRel
<1>5. m \in DOMAIN s /\ ~B!Verdicts(s, b, t)[m]
  OBVIOUS
<1>6. ~Says(s, m, b, t, B!Verdicts(s, b, t))
  BY <1>5, VerdictsAreAnswers, Zenon
<1>7. s[m].type \notin B!Simple
  BY <1>5, <1>6, Zenon DEF Says
<1>8. B!Asked(s[m]) # {} /\ B!Asked(s[m]) \subseteq 1..(m - 1)
  BY <1>5, <1>7 DEF StrategyOK, SimpleStrategy
<1>9. \A p \in B!Asked(s[m]) : p \in DOMAIN s /\ p < m
  BY <1>1, <1>5, <1>8
<1>10. \A p \in B!Asked(s[m]) : B!Verdicts(s, b, t)[p]
  BY <1>4, <1>9
<1>11. Says(s, m, b, t, B!Verdicts(s, b, t))
  BY <1>7, <1>8, <1>10, Zenon DEF Says
<1> QED BY <1>6, <1>11

LEMMA ReadyAtItsMaximum ==
  ASSUME NEW k, NEW b, NEW t, b.count > 0, B!Measure(k, b, t) >= k.max
  PROVE  B!SimpleReady(k, b, t)
<1> HIDE DEF B!Measure
<1> QED BY DEF B!SimpleReady

LEMMA LimitIsKept ==
  ASSUME NEW s, StrategyOK(s), NEW b, NEW t, b.count > 0, scale = 100,
         \A i \in DOMAIN s : ~B!RequiresAll(s[i]),
         NEW type \in B!Simple, B!Announced(s, type) < B!Unlimited(type),
         B!Measure([type |-> type], b, t) >= B!Limit(s, type)
  PROVE  B!ShouldCreateBatch(s, b, t)
<1>1. PICK i \in DOMAIN s : SimpleStrategy(s[i]) /\ s[i].type = type /\ B!Announced(s, type) = s[i].max
  BY AnnouncedIsOfSimple
<1>2. B!Limit(s, type) = s[i].max
  <2>1. \A x \in Nat : (x * 100) \div 100 = x
    OBVIOUS
  <2> QED BY <1>1, <2>1 DEF B!Limit, SimpleStrategy
<1>3. B!Measure(s[i], b, t) = B!Measure([type |-> type], b, t)
  BY <1>1 DEF B!Measure
<1>4. B!SimpleReady(s[i], b, t)
  BY <1>2, <1>3, ReadyAtItsMaximum
<1>5. Says(s, i, b, t, B!Verdicts(s, b, t))
  BY <1>1, <1>4, Zenon DEF Says, SimpleStrategy
<1>6. B!Verdicts(s, b, t)[i]
  BY <1>5, VerdictsAreAnswers, Zenon
<1>7. B!Verdicts(s, b, t)[Len(s)]
  BY <1>6, YesReachesTheLast
<1> QED BY <1>7 DEF B!ShouldCreateBatch

EvaluatorInv == StrategyOK(theStrategy)

LEMMA EvaluatorInitially == B!EvaluatorInit => EvaluatorInv
BY EvaluatorAssumption, CreatedIsOK DEF B!EvaluatorInit, EvaluatorInv

LEMMA EvaluatorNextKeeps == EvaluatorInv /\ B!EvaluatorNext => EvaluatorInv'
<1>1. B!EvaluatorNext => UNCHANGED theStrategy
  BY DEF B!EvaluatorNext, B!AddMessage, B!Tick, B!Evaluate
<1> QED BY <1>1 DEF EvaluatorInv

LEMMA StrategyKeepsItsLimits == EvaluatorInv => B!KeepsItsLimits
<1> SUFFICES ASSUME EvaluatorInv PROVE B!KeepsItsLimits
  OBVIOUS
<1>1. batch.count = 0 => ~B!ShouldCreateBatch(theStrategy, batch, now)
  BY DEF B!ShouldCreateBatch
<1>2. ASSUME batch.count > 0, scale = 100, \A i \in DOMAIN theStrategy : ~B!RequiresAll(theStrategy[i]),
             NEW type \in B!Simple, B!Announced(theStrategy, type) < B!Unlimited(type),
             B!Measure([type |-> type], batch, now) >= B!Limit(theStrategy, type)
      PROVE  B!ShouldCreateBatch(theStrategy, batch, now)
  BY <1>2, LimitIsKept DEF EvaluatorInv
<1>3. ASSUME batch.count > 0,
             \A i \in DOMAIN theStrategy : theStrategy[i].type \in B!Simple =>
               B!Measure(theStrategy[i], batch, now) >= theStrategy[i].max
      PROVE  B!ShouldCreateBatch(theStrategy, batch, now)
  <2>1. \A i \in DOMAIN theStrategy : theStrategy[i].type \in B!Simple => B!SimpleReady(theStrategy[i], batch, now)
    BY <1>3, ReadyAtItsMaximum
  <2>2. B!Verdicts(theStrategy, batch, now)[Len(theStrategy)]
    BY <2>1, AllSayYes DEF EvaluatorInv
  <2> QED BY <1>3, <2>2 DEF B!ShouldCreateBatch
<1> QED BY <1>1, <1>2, <1>3 DEF B!KeepsItsLimits

-----------------------------------------------------------------------------
(* Batch strategies: the manager.                                          *)

ManagerInv ==
  /\ created \in Nat /\ Strategies \in [Targets -> Nat]
  /\ wanting \in [StrategyUsers -> Targets \cup {"none"}]
  /\ holding \in [StrategyUsers -> [target : Targets \cup {"none"}, strategy : Nat, replaced : BOOLEAN]]
  /\ \A u \in StrategyUsers : holding[u].target # "none" /\ holding[u].replaced = FALSE =>
       holding[u].strategy # 0 /\ holding[u].strategy = Strategies[holding[u].target]

\* A user is given the strategy of a target.
LEMMA GivenKeepsManager ==
  ASSUME ManagerInv, NEW u \in StrategyUsers, NEW t \in Targets, t # "none", Strategies[t] # 0,
         holding' = [holding EXCEPT ![u] = [target |-> t, strategy |-> Strategies[t], replaced |-> FALSE]],
         wanting' \in [StrategyUsers -> Targets \cup {"none"}], UNCHANGED <<Strategies, created>>
  PROVE  ManagerInv'
<1>1. [target |-> t, strategy |-> Strategies[t], replaced |-> FALSE]
        \in [target : Targets \cup {"none"}, strategy : Nat, replaced : BOOLEAN]
  BY DEF ManagerInv
<1>2. holding' \in [StrategyUsers -> [target : Targets \cup {"none"}, strategy : Nat, replaced : BOOLEAN]]
  BY <1>1 DEF ManagerInv
<1>3. ASSUME NEW v \in StrategyUsers, holding'[v].target # "none", holding'[v].replaced = FALSE
      PROVE  holding'[v].strategy # 0 /\ holding'[v].strategy = Strategies[holding'[v].target]
  <2>1. CASE v = u
    BY <2>1 DEF ManagerInv
  <2>2. CASE v # u
    BY <1>3, <2>2 DEF ManagerInv
  <2> QED BY <2>1, <2>2
<1> QED BY <1>2, <1>3 DEF ManagerInv

LEMMA FindKeepsManager ==
  ASSUME ManagerInv, NEW u \in StrategyUsers, NEW t \in Targets, "none" \notin Targets, B!FindStrategy(u, t)
  PROVE  ManagerInv'
<1>1. CASE Strategies[t] # 0
  BY <1>1, GivenKeepsManager, ZenonT(60) DEF B!FindStrategy, ManagerInv
<1>2. CASE Strategies[t] = 0
  BY <1>2 DEF B!FindStrategy, ManagerInv
<1> QED BY <1>1, <1>2

LEMMA MakeKeepsManager ==
  ASSUME ManagerInv, NEW u \in StrategyUsers, B!MakeStrategy(u)
  PROVE  ManagerInv'
<1>1. PICK t \in Targets : t = wanting[u] /\ t # "none"
  BY DEF B!MakeStrategy, ManagerInv
<1>2. wanting' \in [StrategyUsers -> Targets \cup {"none"}]
  BY DEF B!MakeStrategy, ManagerInv
<1>3. CASE Strategies[t] # 0
  BY <1>1, <1>2, <1>3, GivenKeepsManager DEF B!MakeStrategy, B!StillMissing
<1>4. CASE UNCHANGED <<Strategies, created, holding>>
  BY <1>2, <1>4 DEF ManagerInv
<1>5. CASE Strategies[t] = 0 /\ ~UNCHANGED <<Strategies, created, holding>>
  <2>1. /\ created' = created + 1 /\ Strategies' = [Strategies EXCEPT ![t] = created + 1]
        /\ holding' = [holding EXCEPT ![u] = [target |-> t, strategy |-> created + 1, replaced |-> FALSE]]
    BY <1>1, <1>5 DEF B!MakeStrategy, B!StillMissing
  <2>2. created + 1 \in Nat /\ created + 1 # 0
    BY DEF ManagerInv
  <2>3. created' \in Nat /\ Strategies' \in [Targets -> Nat]
    BY <2>1, <2>2 DEF ManagerInv
  <2>4. holding' \in [StrategyUsers -> [target : Targets \cup {"none"}, strategy : Nat, replaced : BOOLEAN]]
    <3>1. [target |-> t, strategy |-> created + 1, replaced |-> FALSE]
            \in [target : Targets \cup {"none"}, strategy : Nat, replaced : BOOLEAN]
      BY <2>2
    <3> QED BY <2>1, <3>1 DEF ManagerInv
  <2>5. ASSUME NEW v \in StrategyUsers, holding'[v].target # "none", holding'[v].replaced = FALSE
        PROVE  holding'[v].strategy # 0 /\ holding'[v].strategy = Strategies'[holding'[v].target]
    <3>1. CASE v = u
      BY <2>1, <2>2, <3>1 DEF ManagerInv
    <3>2. CASE v # u
      <4>1. holding'[v] = holding[v]
        BY <2>1, <3>2 DEF ManagerInv
      <4>2. holding[v].strategy # 0 /\ holding[v].strategy = Strategies[holding[v].target]
        BY <2>5, <4>1 DEF ManagerInv
      <4>3. holding[v].target # t
        BY <1>5, <4>2
      <4>4. Strategies'[holding[v].target] = Strategies[holding[v].target]
        BY <2>1, <2>5, <4>1, <4>3 DEF ManagerInv
      <4> QED BY <4>1, <4>2, <4>4
    <3> QED BY <3>1, <3>2
  <2> QED BY <1>2, <2>3, <2>4, <2>5 DEF ManagerInv
<1> QED BY <1>3, <1>4, <1>5

LEMMA ReplacedUsers ==
  ASSUME ManagerInv, NEW ts, B!Replaced(ts)
  PROVE  /\ holding' \in [StrategyUsers -> [target : Targets \cup {"none"}, strategy : Nat, replaced : BOOLEAN]]
         /\ \A u \in StrategyUsers :
              /\ holding'[u].target = holding[u].target /\ holding'[u].strategy = holding[u].strategy
              /\ holding'[u].replaced = FALSE => holding[u].replaced = FALSE /\ holding[u].target \notin ts
<1>1. ASSUME NEW u \in StrategyUsers
      PROVE  /\ holding'[u] \in [target : Targets \cup {"none"}, strategy : Nat, replaced : BOOLEAN]
             /\ holding'[u].target = holding[u].target /\ holding'[u].strategy = holding[u].strategy
             /\ holding'[u].replaced = FALSE => holding[u].replaced = FALSE /\ holding[u].target \notin ts
  <2>1. holding[u] \in [target : Targets \cup {"none"}, strategy : Nat, replaced : BOOLEAN]
    BY DEF ManagerInv
  <2>2. PICK r \in BOOLEAN : r = (holding[u].replaced \/ holding[u].target \in ts)
    BY <2>1
  <2>3. holding'[u] = [holding[u] EXCEPT !.replaced = r]
    BY <2>2 DEF B!Replaced
  <2> QED BY <2>1, <2>2, <2>3
<1>2. DOMAIN holding' = StrategyUsers /\ holding' = [u \in StrategyUsers |-> holding'[u]]
  BY DEF B!Replaced
<1> QED BY <1>1, <1>2

LEMMA SetKeepsManager ==
  ASSUME ManagerInv, NEW t \in Targets, B!SetStrategyConfig(t)
  PROVE  ManagerInv'
<1>1. B!Replaced({t}) /\ UNCHANGED wanting /\ created' = created + 1
      /\ Strategies' = [Strategies EXCEPT ![t] = created + 1]
  BY DEF B!SetStrategyConfig
<1>2. created' \in Nat /\ Strategies' \in [Targets -> Nat]
  BY <1>1 DEF ManagerInv
<1> HIDE DEF B!Replaced
<1>3. holding' \in [StrategyUsers -> [target : Targets \cup {"none"}, strategy : Nat, replaced : BOOLEAN]]
  BY <1>1, ReplacedUsers
<1>4. ASSUME NEW u \in StrategyUsers, holding'[u].target # "none", holding'[u].replaced = FALSE
      PROVE  holding'[u].strategy # 0 /\ holding'[u].strategy = Strategies'[holding'[u].target]
  <2>1. /\ holding'[u].target = holding[u].target /\ holding'[u].strategy = holding[u].strategy
        /\ holding[u].replaced = FALSE /\ holding[u].target \notin {t}
    BY <1>1, <1>4, ReplacedUsers
  <2>2. holding[u].strategy # 0 /\ holding[u].strategy = Strategies[holding[u].target]
    BY <1>4, <2>1 DEF ManagerInv
  <2>3. Strategies'[holding[u].target] = Strategies[holding[u].target]
    BY <1>1, <1>4, <2>1 DEF ManagerInv
  <2> QED BY <2>1, <2>2, <2>3
<1> QED BY <1>1, <1>2, <1>3, <1>4 DEF ManagerInv

LEMMA CloseKeepsManager == ManagerInv /\ B!CloseManager => ManagerInv'
<1> SUFFICES ASSUME ManagerInv, B!CloseManager PROVE ManagerInv'
  OBVIOUS
<1>1. B!Replaced(Targets) /\ UNCHANGED <<wanting, created>> /\ Strategies' \in [Targets -> Nat]
  BY DEF B!CloseManager
<1> HIDE DEF B!Replaced
<1>2. holding' \in [StrategyUsers -> [target : Targets \cup {"none"}, strategy : Nat, replaced : BOOLEAN]]
  BY <1>1, ReplacedUsers
<1>3. ASSUME NEW u \in StrategyUsers, holding'[u].target # "none", holding'[u].replaced = FALSE
      PROVE  FALSE
  <2>1. holding'[u].target = holding[u].target /\ holding[u].target \notin Targets
    BY <1>1, <1>3, ReplacedUsers
  <2> QED BY <1>3, <2>1 DEF ManagerInv
<1> QED BY <1>1, <1>2, <1>3 DEF ManagerInv

(* A strategy of any nesting creates a batch as soon as a limit it         *)
(* announces is reached, unless it asks a hybrid one that requires all or  *)
(* has adapted, and in any case when all its simple strategies are at      *)
(* their maximum; two first calls for a target do not make two strategies  *)
(* (batch/strategy.go).                                                    *)
THEOREM StrategySafety == RequestsSpec => []BatchLimitsAreKept
<1> DEFINE Inv == (part = "evaluator" => EvaluatorInv) /\ (part = "strategies" => ManagerInv)
<1>1. RequestsInit => Inv
  <2>1. ASSUME B!ManagerInit PROVE ManagerInv
    <3>1. [target |-> "none", strategy |-> 0, replaced |-> FALSE]
            \in [target : Targets \cup {"none"}, strategy : Nat, replaced : BOOLEAN]
      OBVIOUS
    <3> QED BY <2>1, <3>1 DEF B!ManagerInit, ManagerInv
  <2> QED BY <2>1, EvaluatorInitially DEF RequestsInit
<1>2. Inv /\ [RequestsNext]_requestsVars => Inv'
  <2> SUFFICES ASSUME Inv, [RequestsNext]_requestsVars PROVE Inv'
    OBVIOUS
  <2>1. CASE part' = "evaluator"
    <3>1. part = "evaluator" /\ EvaluatorInv /\ (B!EvaluatorNext \/ UNCHANGED evaluatorVars)
      BY <2>1 DEF RequestsNext, requestsVars
    <3>2. CASE UNCHANGED evaluatorVars
      BY <2>1, <3>1, <3>2 DEF evaluatorVars, EvaluatorInv
    <3> QED BY <2>1, <3>1, <3>2, EvaluatorNextKeeps
  <2>2. CASE part' = "strategies"
    <3>1. part = "strategies" /\ ManagerInv /\ (B!ManagerNext \/ UNCHANGED strategyVars)
      BY <2>2 DEF RequestsNext, requestsVars
    <3>2. CASE UNCHANGED strategyVars
      BY <2>2, <3>1, <3>2 DEF strategyVars, ManagerInv
    <3>3. CASE B!ManagerNext
      <4>1. ManagerInv'
        BY <3>1, <3>3, ManagerAssumption, FindKeepsManager, MakeKeepsManager, SetKeepsManager, CloseKeepsManager
           DEF B!ManagerNext
      <4> QED BY <2>2, <4>1
    <3> QED BY <3>1, <3>2, <3>3
  <2> QED BY <2>1, <2>2
<1>3. Inv => BatchLimitsAreKept
  <2>1. EvaluatorInv => B!KeepsItsLimits
    BY StrategyKeepsItsLimits
  <2>2. ManagerInv => B!StrategyIsShared
    BY DEF ManagerInv, B!StrategyIsShared
  <2> QED BY <2>1, <2>2 DEF BatchLimitsAreKept
<1> QED BY <1>1, <1>2, <1>3, PTL DEF RequestsSpec

-----------------------------------------------------------------------------
(* Write service.                                                          *)

WriteBegins == {"idle", "validate", "expired", "buffer", "lookup", "schedule"}
WriteSends  == {"attempt", "delay"}
WriteAnswer == [success : BOOLEAN, err : BOOLEAN, inBuffer : BOOLEAN]
WriteCall   ==
  [at : WriteBegins \cup WriteSends \cup {"answered"}, id : WriteIDs,
   tx : Transactions \cup {W!NoTx}, late : BOOLEAN, timed : BOOLEAN, batches : 0..MaxBatches, partial : BOOLEAN,
   batch : Nat, attempt : Nat, ok : SUBSET W!Batches, errors : SUBSET W!Batches, answer : WriteAnswer]

\* Where a call is in its batches, of which StarRocks has applied done.
CallOK(c, done) ==
  /\ c.ok \cup c.errors \cup done \subseteq 1..c.batches
  /\ c.ok \cap c.errors = {} /\ c.ok \subseteq done
  /\ c.at \in WriteBegins => c.ok = {} /\ c.errors = {} /\ c.batch = 1 /\ c.batches = 1 /\ c.answer = W!NoAnswer
  /\ c.at \in WriteBegins \ {"lookup", "schedule"} => done = {} /\ ~c.timed
  /\ c.at \in WriteSends =>
       /\ c.batch \in 1..c.batches /\ c.ok \cup c.errors = 1..(c.batch - 1)
       /\ c.errors = {} \/ c.partial
       /\ c.answer = W!NoAnswer
  /\ (c.answer.success /\ ~c.answer.inBuffer /\ ~c.answer.err) =>
       /\ c.ok \cup c.errors = 1..c.batches
       /\ c.errors = {} \/ (c.partial /\ c.ok # {})

\* A late write never gets as far as StarRocks: its transaction is found over.
LateOK(c, done, ended) ==
  c.late => done = {} /\ c.at \in {"validate", "expired", "answered"} /\ (c.at = "validate" => c.tx \in ended)

CallsOK ==
  /\ write \in [Writes -> WriteCall] /\ writeApplied \in [Writes -> SUBSET W!Batches]
  /\ \A w \in Writes : CallOK(write[w], writeApplied[w]) /\ LateOK(write[w], writeApplied[w], told)

\* A transaction whose end was told is never active again.
TransactionsOK ==
  /\ told \subseteq Transactions
  /\ DOMAIN status = Transactions /\ \A t \in told : status[t] # "active"
  /\ DOMAIN ender = Enders
  /\ \A e \in Enders : /\ ender[e].at # "idle" => ender[e].tx \in Transactions
                       /\ ender[e].at = "store" => ender[e].outcome # "active"

\* A mark in scheduledFlushes belongs to a goroutine that sleeps.
FlushesOK ==
  /\ unflushed \subseteq buffered /\ buffered \subseteq Writes
  /\ \A w \in buffered : /\ write[w].at \in {"lookup", "schedule", "answered"}
                         /\ ~write[w].late /\ write[w].batches = 1
  /\ sleeping \in [WriteIDs -> Nat] /\ flushing \in [WriteIDs -> Nat]
  /\ scheduled \subseteq WriteIDs /\ \A i \in scheduled : sleeping[i] > 0
  /\ W!BufferedIsWatched

WriteServiceInv == CallsOK /\ TransactionsOK /\ FlushesOK

\* A step of one call.
OnlyWriteOf(w) ==
  /\ DOMAIN write' = DOMAIN write /\ DOMAIN writeApplied' = DOMAIN writeApplied
  /\ \A v \in Writes \ {w} : write'[v] = write[v] /\ writeApplied'[v] = writeApplied[v]

LEMMA OneCallMoves ==
  ASSUME CallsOK, NEW w \in Writes, OnlyWriteOf(w), told \subseteq told',
         write'[w] \in WriteCall, writeApplied'[w] \in SUBSET W!Batches,
         CallOK(write'[w], writeApplied'[w]), LateOK(write'[w], writeApplied'[w], told'),
         write' = [v \in Writes |-> write'[v]], writeApplied' = [v \in Writes |-> writeApplied'[v]]
  PROVE  CallsOK'
<1>1. \A v \in Writes : write'[v] \in WriteCall /\ writeApplied'[v] \in SUBSET W!Batches
  BY DEF CallsOK, OnlyWriteOf
<1>2. write' \in [Writes -> WriteCall] /\ writeApplied' \in [Writes -> SUBSET W!Batches]
  <2> HIDE DEF WriteCall
  <2> QED BY <1>1
<1>3. ASSUME NEW v \in Writes, v # w
      PROVE  CallOK(write'[v], writeApplied'[v]) /\ LateOK(write'[v], writeApplied'[v], told')
  <2>1. write'[v] = write[v] /\ writeApplied'[v] = writeApplied[v]
    BY <1>3 DEF OnlyWriteOf
  <2>2. CallOK(write[v], writeApplied[v]) /\ LateOK(write[v], writeApplied[v], told)
    BY DEF CallsOK
  <2>3. LateOK(write[v], writeApplied[v], told')
    BY <2>2 DEF LateOK
  <2> HIDE DEF CallOK, LateOK
  <2> QED BY <2>1, <2>2, <2>3
<1>4. \A v \in Writes : CallOK(write'[v], writeApplied'[v]) /\ LateOK(write'[v], writeApplied'[v], told')
  BY <1>3
<1> QED BY <1>2, <1>4 DEF CallsOK

\* A call that is not in the buffer does not disturb the flushes.
LEMMA FlushesUndisturbed ==
  ASSUME FlushesOK, NEW w \in Writes, OnlyWriteOf(w), w \notin buffered,
         UNCHANGED <<buffered, scheduled, sleeping, flushing, unflushed>>
  PROVE  FlushesOK'
<1>1. \A v \in buffered : write'[v] = write[v]
  BY DEF FlushesOK, OnlyWriteOf
<1>2. W!BufferedIsWatched'
  BY <1>1 DEF FlushesOK, W!BufferedIsWatched
<1> QED BY <1>1, <1>2 DEF FlushesOK

\* What a call looks like once it is answered.
LEMMA AnswerIsCall ==
  ASSUME NEW c \in WriteCall, NEW success \in BOOLEAN, NEW err \in BOOLEAN
  PROVE  /\ W!Answer(c, success, err) \in WriteCall
         /\ W!Answer(c, success, err).at = "answered" /\ W!Answer(c, success, err).late = c.late
         /\ W!Answer(c, success, err).batches = c.batches /\ W!Answer(c, success, err).partial = c.partial
         /\ W!Answer(c, success, err).ok = c.ok /\ W!Answer(c, success, err).errors = c.errors
         /\ W!Answer(c, success, err).answer = [success |-> success, err |-> err, inBuffer |-> FALSE]
<1>1. [success |-> success, err |-> err, inBuffer |-> FALSE] \in WriteAnswer
  BY DEF WriteAnswer
<1> HIDE DEF WriteAnswer
<1> QED BY <1>1 DEF W!Answer, WriteCall

\* An answer with an error promises nothing.
LEMMA RefusalIsSound ==
  ASSUME NEW c \in WriteCall, NEW done, CallOK(c, done), NEW success \in BOOLEAN
  PROVE  /\ CallOK(W!Answer(c, success, TRUE), done)
         /\ W!Answer(c, success, TRUE) \in WriteCall /\ W!Answer(c, success, TRUE).at = "answered"
<1> PICK d : d = W!Answer(c, success, TRUE)
  OBVIOUS
<1>1. /\ d \in WriteCall /\ d.at = "answered" /\ d.batches = c.batches
      /\ d.ok = c.ok /\ d.errors = c.errors /\ d.answer = [success |-> success, err |-> TRUE, inBuffer |-> FALSE]
  BY AnswerIsCall
<1>2. [success |-> success, err |-> TRUE, inBuffer |-> FALSE].err
  OBVIOUS
<1>3. d.answer.err
  BY <1>1, <1>2, Zenon
<1>4. CallOK(d, done)
  BY <1>1, <1>3 DEF CallOK, WriteBegins, WriteSends
<1> QED BY <1>1, <1>4

\* A call before anything is done for it.
Fresh(id) == [W!FreshWrite EXCEPT !.id = id]

IsFresh(c) ==
  /\ c \in WriteCall /\ c.at = "idle" /\ c.late = FALSE /\ c.timed = FALSE
  /\ c.batches = 1 /\ c.ok = {} /\ c.errors = {} /\ c.batch = 1 /\ c.answer = W!NoAnswer

LEMMA FreshIsCall ==
  /\ IsFresh(W!FreshWrite)
  /\ \A id \in WriteIDs : IsFresh(Fresh(id))
<1>1. W!NoAnswer \in WriteAnswer
  BY DEF W!NoAnswer, WriteAnswer
<1>2. 1 \in 0..MaxBatches
  BY WriteServiceAssumption
<1> HIDE DEF WriteAnswer
<1>3. IsFresh(W!FreshWrite)
  BY <1>1, <1>2, WriteServiceAssumption DEF WriteCall, WriteBegins, W!FreshWrite, IsFresh
<1>4. ASSUME NEW id \in WriteIDs PROVE IsFresh(Fresh(id))
  BY <1>3 DEF WriteCall, W!FreshWrite, Fresh, IsFresh
<1> QED BY <1>3, <1>4

\* A fresh call is sound, whatever it says of its data.
LEMMA FreshIsSound ==
  ASSUME NEW c, IsFresh(c)
  PROVE  c \in WriteCall /\ CallOK(c, {}) /\ LateOK(c, {}, told)
<1>1. W!NoAnswer.success = FALSE
  BY DEF W!NoAnswer
<1> QED BY <1>1 DEF IsFresh, CallOK, LateOK, WriteBegins, WriteSends

LEMMA BegunIsCall ==
  ASSUME NEW id \in WriteIDs, NEW tx \in Transactions \cup {W!NoTx}, NEW strategy_,
         NEW new, new = W!Begun(id, tx, strategy_)
  PROVE  new \in WriteCall /\ CallOK(new, {}) /\ LateOK(new, {}, told)
<1> PICK c : c = Fresh(id)
  OBVIOUS
<1>1. IsFresh(c)
  BY FreshIsCall
<1>2. /\ c \in WriteCall /\ c.at = "idle" /\ c.late = FALSE /\ c.timed = FALSE
      /\ c.batches = 1 /\ c.ok = {} /\ c.errors = {} /\ c.batch = 1 /\ c.answer = W!NoAnswer
      /\ CallOK(c, {})
  BY <1>1, FreshIsSound DEF IsFresh
<1> PICK l : l = (tx \in told)
  OBVIOUS
<1>7. l \in BOOLEAN
  <2>1. CASE tx \in told
    <3>1. (tx \in told) = TRUE
      BY <2>1
    <3>2. l = TRUE
      BY <3>1, Zenon
    <3> QED BY <3>2
  <2>2. CASE tx \notin told
    <3>1. (tx \in told) = FALSE
      BY <2>2
    <3>2. l = FALSE
      BY <3>1, Zenon
    <3> QED BY <3>2
  <2> QED BY <2>1, <2>2
<1>8. l => tx \in told
  OBVIOUS
<1>3. CASE new = W!Answer(c, FALSE, TRUE)
  <2>1. CallOK(new, {})
    BY <1>2, <1>3, RefusalIsSound
  <2>2. new \in WriteCall /\ new.at = "answered"
    BY <1>2, <1>3, RefusalIsSound
  <2> QED BY <2>1, <2>2 DEF LateOK, WriteSends
<1>4. CASE new = [c EXCEPT !.at = "buffer"]
  <2>1. new \in WriteCall /\ new.at = "buffer" /\ new.batches = c.batches /\ new.ok = c.ok /\ new.errors = c.errors
        /\ new.batch = c.batch /\ new.answer = c.answer /\ new.timed = FALSE /\ new.late = c.late
    BY <1>2, <1>4 DEF WriteCall, WriteBegins
  <2> QED BY <1>2, <2>1 DEF CallOK, LateOK, WriteBegins, WriteSends
<1>5. CASE new = [c EXCEPT !.at = "validate", !.tx = tx, !.late = l]
  <2>1. new \in WriteCall /\ new.at = "validate" /\ new.batches = c.batches /\ new.ok = c.ok /\ new.errors = c.errors
        /\ new.batch = c.batch /\ new.answer = c.answer /\ new.timed = FALSE /\ new.late = l /\ new.tx = tx
    BY <1>2, <1>5, <1>7 DEF WriteCall, WriteBegins
  <2> QED BY <1>2, <1>8, <2>1 DEF CallOK, LateOK, WriteBegins, WriteSends
<1>6. \/ new = W!Answer(c, FALSE, TRUE)
      \/ new = [c EXCEPT !.at = "buffer"]
      \/ new = [c EXCEPT !.at = "validate", !.tx = tx, !.late = (tx \in told)]
  BY DEF W!Begun, Fresh
<1> QED BY <1>3, <1>4, <1>5, <1>6, Zenon

\* A call that is cut into batches, or has none.
LEMMA CutIsCall ==
  ASSUME NEW d \in WriteCall, d.at \in WriteBegins \ {"lookup", "schedule"}, CallOK(d, {}), ~d.late,
         NEW n \in 0..MaxBatches, NEW partial \in BOOLEAN,
         NEW new, new = W!CutIntoBatches(d, n, partial)
  PROVE  new \in WriteCall /\ CallOK(new, {}) /\ LateOK(new, {}, told)
<1>1. d.ok = {} /\ d.errors = {} /\ d.batch = 1 /\ d.answer = W!NoAnswer
  BY DEF CallOK
<1>2. W!NoAnswer.success = FALSE
  BY DEF W!NoAnswer
<1>3. CASE n = 0
  <2> PICK c : c = [d EXCEPT !.batches = 0, !.partial = partial]
    OBVIOUS
  <2>1. 0 \in 0..MaxBatches
    BY WriteServiceAssumption
  <2>2. c \in WriteCall /\ c.at = d.at /\ c.batches = 0 /\ c.ok = {} /\ c.errors = {} /\ c.late = FALSE
    BY <1>1, <2>1 DEF WriteCall
  <2>3. new = W!Answer(c, TRUE, FALSE)
    BY <1>3 DEF W!CutIntoBatches
  <2>4. /\ new \in WriteCall /\ new.at = "answered" /\ new.late = FALSE /\ new.batches = 0
        /\ new.ok = {} /\ new.errors = {}
    BY <2>2, <2>3, AnswerIsCall
  <2>5. {} = 1..0
    OBVIOUS
  <2> QED BY <2>4, <2>5 DEF CallOK, LateOK, WriteBegins, WriteSends
<1>4. CASE n # 0
  <2>1. new = [d EXCEPT !.at = "attempt", !.tx = W!NoTx, !.batches = n, !.partial = partial]
    BY <1>4 DEF W!CutIntoBatches
  <2>2. /\ new \in WriteCall /\ new.at = "attempt" /\ new.late = d.late /\ new.batches = n
        /\ new.ok = {} /\ new.errors = {} /\ new.batch = 1 /\ new.answer = W!NoAnswer
    BY <1>1, <2>1 DEF WriteCall, WriteSends
  <2>3. n \in Nat /\ 1 \in 1..n /\ {} = 1..(1 - 1)
    BY <1>4
  <2> QED BY <1>2, <2>2, <2>3 DEF CallOK, LateOK, WriteBegins, WriteSends
<1> QED BY <1>3, <1>4

LEMMA CallIsSet ==
  ASSUME CallsOK, NEW w \in Writes, NEW c \in WriteCall, NEW done \in SUBSET W!Batches,
         CallOK(c, done), LateOK(c, done, told), told' = told,
         write' = [write EXCEPT ![w] = c], writeApplied' = [writeApplied EXCEPT ![w] = done]
  PROVE  CallsOK' /\ OnlyWriteOf(w) /\ write'[w] = c
<1>1. write \in [Writes -> WriteCall] /\ writeApplied \in [Writes -> SUBSET W!Batches]
  BY DEF CallsOK
<1> HIDE DEF WriteCall, CallOK, LateOK
<1>2. OnlyWriteOf(w) /\ write'[w] = c /\ writeApplied'[w] = done
  BY <1>1 DEF OnlyWriteOf
<1>3. write' = [v \in Writes |-> write'[v]] /\ writeApplied' = [v \in Writes |-> writeApplied'[v]]
  BY <1>1
<1>4. told \subseteq told' /\ LateOK(write'[w], writeApplied'[w], told')
  BY <1>2
<1>5. CallsOK'
  BY <1>2, <1>3, <1>4, OneCallMoves
<1> QED BY <1>2, <1>5

LEMMA CallMoves ==
  ASSUME WriteServiceInv, NEW w \in Writes, NEW c \in WriteCall, NEW done \in SUBSET W!Batches,
         CallOK(c, done), LateOK(c, done, told), write[w].at \notin {"lookup", "schedule", "answered"},
         write' = [write EXCEPT ![w] = c], writeApplied' = [writeApplied EXCEPT ![w] = done],
         told' = told, UNCHANGED W!flushVars
  PROVE  CallsOK' /\ FlushesOK'
<1>1. CallsOK /\ FlushesOK
  BY DEF WriteServiceInv
<1>2. CallsOK' /\ OnlyWriteOf(w)
  BY <1>1, CallIsSet
<1>3. w \notin buffered
  BY <1>1 DEF FlushesOK
<1>4. FlushesOK'
  BY <1>1, <1>2, <1>3, FlushesUndisturbed DEF W!flushVars
<1> QED BY <1>2, <1>4

LEMMA CallIsOK ==
  ASSUME WriteServiceInv, NEW w \in Writes
  PROVE  /\ write \in [Writes -> WriteCall] /\ write[w] \in WriteCall
         /\ writeApplied \in [Writes -> SUBSET W!Batches] /\ writeApplied[w] \in SUBSET W!Batches
         /\ writeApplied = [writeApplied EXCEPT ![w] = writeApplied[w]]
         /\ CallOK(write[w], writeApplied[w]) /\ LateOK(write[w], writeApplied[w], told)
<1> HIDE DEF WriteCall, CallOK, LateOK
<1> QED BY DEF WriteServiceInv, CallsOK

LEMMA BeginKeepsWrites ==
  ASSUME WriteServiceInv, NEW w \in Writes, write[w].at = "idle",
         NEW c \in WriteCall, CallOK(c, {}), LateOK(c, {}, told), write' = [write EXCEPT ![w] = c],
         writeApplied' = writeApplied, told' = told, UNCHANGED W!flushVars
  PROVE  CallsOK' /\ FlushesOK'
<1>1. writeApplied[w] = {}
  BY CallIsOK DEF CallOK, WriteBegins
<1>2. writeApplied' = [writeApplied EXCEPT ![w] = {}]
  BY <1>1, CallIsOK
<1> QED BY <1>2, CallMoves

LEMMA ExecuteKeepsWrites ==
  ASSUME WriteServiceInv, NEW w \in Writes, W!ExecuteWrite(w) \/ W!CallBufferWrite(w) \/ W!ExecuteBatchWrite(w)
  PROVE  CallsOK' /\ FlushesOK'
<1>1. write[w].at = "idle" /\ writeApplied' = writeApplied /\ told' = told /\ UNCHANGED W!flushVars
  BY DEF W!ExecuteWrite, W!CallBufferWrite, W!ExecuteBatchWrite
<1>2. ASSUME NEW id \in WriteIDs, NEW tx \in Transactions \cup {W!NoTx}, NEW strategy_,
             write' = [write EXCEPT ![w] = W!Begun(id, tx, strategy_)]
      PROVE  CallsOK' /\ FlushesOK'
  <2> PICK c : c = W!Begun(id, tx, strategy_)
    OBVIOUS
  <2>1. c \in WriteCall /\ CallOK(c, {}) /\ LateOK(c, {}, told) /\ write' = [write EXCEPT ![w] = c]
    BY <1>2, BegunIsCall
  <2> QED BY <1>1, <2>1, BeginKeepsWrites
<1>3. CASE W!ExecuteBatchWrite(w)
  <2>1. PICK n \in 0..MaxBatches, partial \in BOOLEAN :
          write' = [write EXCEPT ![w] = W!CutIntoBatches(W!FreshWrite, n, partial)]
    BY <1>3 DEF W!ExecuteBatchWrite
  <2> PICK c : c = W!CutIntoBatches(W!FreshWrite, n, partial)
    OBVIOUS
  <2>2. /\ W!FreshWrite \in WriteCall /\ W!FreshWrite.at = "idle" /\ ~W!FreshWrite.late
        /\ CallOK(W!FreshWrite, {})
    BY FreshIsCall, FreshIsSound DEF IsFresh
  <2>3. W!FreshWrite.at \in WriteBegins \ {"lookup", "schedule"}
    BY <2>2 DEF WriteBegins
  <2> PICK d : d = W!FreshWrite
    OBVIOUS
  <2>4. c \in WriteCall /\ CallOK(c, {}) /\ LateOK(c, {}, told)
    BY <2>2, <2>3, CutIsCall
  <2> QED BY <1>1, <2>1, <2>4, BeginKeepsWrites
<1>4. W!NoTx \in Transactions \cup {W!NoTx}
  OBVIOUS
<1>5. CASE W!ExecuteWrite(w)
  BY <1>2, <1>5 DEF W!ExecuteWrite
<1>6. CASE W!CallBufferWrite(w)
  BY <1>2, <1>4, <1>6 DEF W!CallBufferWrite
<1> QED BY <1>3, <1>5, <1>6

\* A refusal, with nothing else changed.
LEMMA RefusalKeepsWrites ==
  ASSUME WriteServiceInv, NEW w \in Writes, write[w].at \notin {"lookup", "schedule", "answered"},
         NEW success \in BOOLEAN,
         write' = [write EXCEPT ![w] = W!Answer(write[w], success, TRUE)],
         writeApplied' = writeApplied, told' = told, UNCHANGED W!flushVars
  PROVE  CallsOK' /\ FlushesOK'
<1> PICK c : c = W!Answer(write[w], success, TRUE)
  OBVIOUS
<1>1. /\ write[w] \in WriteCall /\ CallOK(write[w], writeApplied[w]) /\ LateOK(write[w], writeApplied[w], told)
      /\ writeApplied[w] \in SUBSET W!Batches
      /\ writeApplied' = [writeApplied EXCEPT ![w] = writeApplied[w]]
  BY CallIsOK
<1>2. CallOK(c, writeApplied[w]) /\ c \in WriteCall /\ c.at = "answered"
  BY <1>1, RefusalIsSound
<1>3. LateOK(c, writeApplied[w], told)
  <2>1. c.late = write[w].late
    BY <1>1, AnswerIsCall
  <2> QED BY <1>1, <1>2, <2>1 DEF LateOK, WriteSends
<1>4. write' = [write EXCEPT ![w] = c]
  OBVIOUS
<1>5. PICK done : done = writeApplied[w]
  OBVIOUS
<1> QED BY <1>1, <1>2, <1>3, <1>4, <1>5, CallMoves

LEMMA ValidateKeepsWrites ==
  ASSUME WriteServiceInv, NEW w \in Writes, W!ValidateTransaction(w)
  PROVE  CallsOK' /\ FlushesOK'
<1>1. /\ write[w].at = "validate" /\ writeApplied' = writeApplied /\ told' = told /\ UNCHANGED W!flushVars
      /\ \/ write[w].tx \in W!Active \cup {W!NoTx} /\ W!BeginWork(w)
         \/ write' = [write EXCEPT ![w] = W!Refused(w)]
         \/ write' = [write EXCEPT ![w].at = "expired"]
  BY DEF W!ValidateTransaction
<1>2. /\ write \in [Writes -> WriteCall] /\ write[w] \in WriteCall /\ writeApplied[w] \in SUBSET W!Batches
      /\ CallOK(write[w], writeApplied[w]) /\ LateOK(write[w], writeApplied[w], told)
      /\ writeApplied' = [writeApplied EXCEPT ![w] = writeApplied[w]]
  BY <1>1, CallIsOK
<1>3. CASE write' = [write EXCEPT ![w] = W!Refused(w)]
  <2>1. write' = [write EXCEPT ![w] = W!Answer(write[w], FALSE, TRUE)]
    BY <1>3 DEF W!Refused
  <2> QED BY <1>1, <2>1, RefusalKeepsWrites
<1>4. ASSUME NEW c, write' = [write EXCEPT ![w] = c], c \in WriteCall, CallOK(c, writeApplied[w]),
             LateOK(c, writeApplied[w], told)
      PROVE  CallsOK' /\ FlushesOK'
  <2> PICK done : done = writeApplied[w]
    OBVIOUS
  <2> QED BY <1>1, <1>2, <1>4, CallMoves
<1>5. CASE write' = [write EXCEPT ![w].at = "expired"]
  <2> PICK c : c = [write[w] EXCEPT !.at = "expired"]
    OBVIOUS
  <2>1. write' = [write EXCEPT ![w] = c]
    BY <1>2, <1>5
  <2>2. /\ c \in WriteCall /\ c.at = "expired" /\ c.late = write[w].late /\ c.batches = write[w].batches
        /\ c.ok = write[w].ok /\ c.errors = write[w].errors /\ c.batch = write[w].batch /\ c.answer = write[w].answer
    BY <1>2 DEF WriteCall, WriteBegins
  <2>3. CallOK(c, writeApplied[w]) /\ LateOK(c, writeApplied[w], told)
    BY <1>1, <1>2, <2>2 DEF CallOK, LateOK, WriteBegins, WriteSends
  <2> QED BY <1>4, <2>1, <2>2, <2>3
<1>6. CASE write[w].tx \in W!Active \cup {W!NoTx} /\ W!BeginWork(w)
  <2>1. ~write[w].late
    <3> SUFFICES ASSUME write[w].late PROVE FALSE
      OBVIOUS
    <3>1. write[w].tx \in told
      BY <1>1, <1>2 DEF LateOK
    <3>2. told \subseteq Transactions /\ status[write[w].tx] # "active"
      BY <3>1 DEF WriteServiceInv, TransactionsOK
    <3> QED BY <1>6, <3>1, <3>2, WriteServiceAssumption DEF W!Active
  <2>2. CASE write' = [write EXCEPT ![w].at = "buffer", ![w].tx = W!NoTx]
    <3> PICK c : c = [write[w] EXCEPT !.at = "buffer", !.tx = W!NoTx]
      OBVIOUS
    <3>1. write' = [write EXCEPT ![w] = c]
      BY <1>2, <2>2
    <3>2. /\ c \in WriteCall /\ c.at = "buffer" /\ c.late = write[w].late /\ c.batches = write[w].batches
          /\ c.ok = write[w].ok /\ c.errors = write[w].errors /\ c.batch = write[w].batch /\ c.answer = write[w].answer
      BY <1>2 DEF WriteCall, WriteBegins
    <3>3. CallOK(c, writeApplied[w]) /\ LateOK(c, writeApplied[w], told)
      BY <1>1, <1>2, <2>1, <3>2 DEF CallOK, LateOK, WriteBegins, WriteSends
    <3> QED BY <1>4, <3>1, <3>2, <3>3
  <2>3. ASSUME NEW n \in 0..MaxBatches, NEW partial \in BOOLEAN,
               write' = [write EXCEPT ![w] = W!CutIntoBatches(write[w], n, partial)]
        PROVE  CallsOK' /\ FlushesOK'
    <3> PICK c : c = W!CutIntoBatches(write[w], n, partial)
      OBVIOUS
    <3>1. writeApplied[w] = {} /\ CallOK(write[w], {}) /\ write[w].at \in WriteBegins \ {"lookup", "schedule"}
      BY <1>1, <1>2 DEF CallOK, WriteBegins
    <3> PICK d : d = write[w]
      OBVIOUS
    <3>2. c \in WriteCall /\ CallOK(c, {}) /\ LateOK(c, {}, told)
      BY <1>2, <2>1, <3>1, CutIsCall
    <3> QED BY <1>4, <2>3, <3>1, <3>2
  <2> QED BY <1>3, <1>6, <2>2, <2>3 DEF W!BeginWork
<1> QED BY <1>1, <1>3, <1>5, <1>6

LEMMA TimeOutKeepsWrites ==
  ASSUME WriteServiceInv, NEW w \in Writes, W!TimeOutTransaction(w)
  PROVE  CallsOK' /\ FlushesOK'
<1>1. write' = [write EXCEPT ![w] = W!Answer(write[w], FALSE, TRUE)] /\ write[w].at = "expired"
      /\ writeApplied' = writeApplied /\ told' = told /\ UNCHANGED W!flushVars
  BY DEF W!TimeOutTransaction, W!Refused
<1> QED BY <1>1, RefusalKeepsWrites

\* A success lists what was not applied.
LEMMA SuccessIsSound ==
  ASSUME NEW d \in WriteCall, NEW done, CallOK(d, done), d.errors = {} \/ (d.partial /\ d.ok # {}),
         d.ok \cup d.errors = 1..d.batches
  PROVE  /\ CallOK(W!Answer(d, TRUE, FALSE), done)
         /\ W!Answer(d, TRUE, FALSE) \in WriteCall /\ W!Answer(d, TRUE, FALSE).at = "answered"
<1> PICK c : c = W!Answer(d, TRUE, FALSE)
  OBVIOUS
<1>1. [success |-> TRUE, err |-> FALSE, inBuffer |-> FALSE] \in WriteAnswer
  BY DEF WriteAnswer
<1>2. /\ c \in WriteCall /\ c.at = "answered" /\ c.batches = d.batches /\ c.partial = d.partial
      /\ c.ok = d.ok /\ c.errors = d.errors
  <2> HIDE DEF WriteAnswer
  <2> QED BY <1>1 DEF W!Answer, WriteCall
<1>3. CallOK(c, done)
  BY <1>2 DEF CallOK, WriteBegins, WriteSends
<1> QED BY <1>2, <1>3

LEMMA FailureIsSound ==
  ASSUME NEW d \in WriteCall, NEW done, CallOK(d, done)
  PROVE  /\ CallOK(W!Answer(d, FALSE, FALSE), done)
         /\ W!Answer(d, FALSE, FALSE) \in WriteCall /\ W!Answer(d, FALSE, FALSE).at = "answered"
<1> PICK c : c = W!Answer(d, FALSE, FALSE)
  OBVIOUS
<1>1. [success |-> FALSE, err |-> FALSE, inBuffer |-> FALSE] \in WriteAnswer
  BY DEF WriteAnswer
<1>2. /\ c \in WriteCall /\ c.at = "answered" /\ c.batches = d.batches
      /\ c.ok = d.ok /\ c.errors = d.errors /\ c.answer.success = FALSE
  <2> HIDE DEF WriteAnswer
  <2> QED BY <1>1 DEF W!Answer, WriteCall
<1>3. CallOK(c, done)
  BY <1>2 DEF CallOK, WriteBegins, WriteSends
<1> QED BY <1>2, <1>3

AttemptOn(d, next) == [d EXCEPT !.at = "attempt", !.batch = next, !.attempt = 0]

LEMMA NextBatch ==
  ASSUME NEW d \in WriteCall, NEW next, next \in Nat, NEW c, c = AttemptOn(d, next)
  PROVE  /\ c \in WriteCall /\ c.at = "attempt" /\ c.late = d.late /\ c.batches = d.batches
         /\ c.partial = d.partial /\ c.ok = d.ok /\ c.errors = d.errors /\ c.batch = next
         /\ c.answer = d.answer
<1>1. 0 \in Nat /\ "attempt" \in WriteBegins \cup WriteSends \cup {"answered"}
  BY DEF WriteSends
<1> HIDE DEF WriteBegins, WriteSends
<1> QED BY <1>1 DEF WriteCall, AttemptOn

LEMMA NextBatchIsOK ==
  ASSUME NEW d \in WriteCall, ~d.late, d.answer = W!NoAnswer, d.batch \in 1..d.batches, d.batches \in Nat,
         NEW done, d.ok \cup d.errors = 1..d.batch, d.ok \cap d.errors = {}, d.ok \subseteq done,
         done \subseteq 1..d.batches, d.errors = {} \/ d.partial, d.batch # d.batches,
         NEW c, c = AttemptOn(d, d.batch + 1)
  PROVE  c \in WriteCall /\ CallOK(c, done) /\ ~c.late
<1>1. d.batch + 1 \in Nat /\ d.batch + 1 \in 1..d.batches /\ (d.batch + 1) - 1 = d.batch
  OBVIOUS
<1> PICK next : next = d.batch + 1
  OBVIOUS
<1>2. /\ c \in WriteCall /\ c.at = "attempt" /\ c.late = d.late /\ c.batches = d.batches
      /\ c.partial = d.partial /\ c.ok = d.ok /\ c.errors = d.errors /\ c.batch = next
      /\ c.answer = d.answer
  <2>1. next \in Nat /\ c = AttemptOn(d, next)
    BY <1>1
  <2> QED BY <2>1, NextBatch
<1>3. c.ok \cup c.errors = 1..(c.batch - 1) /\ c.ok \cup c.errors \subseteq 1..c.batches
  BY <1>1, <1>2
<1>4. W!NoAnswer.success = FALSE
  BY DEF W!NoAnswer
<1>5. CallOK(c, done)
  BY <1>1, <1>2, <1>3, <1>4 DEF CallOK, WriteBegins, WriteSends
<1> QED BY <1>2, <1>5

\* The end of a batch: all of its predecessors and itself are accounted for.
LEMMA BatchDoneIsOK ==
  ASSUME NEW w \in Writes, write[w] \in WriteCall, CallOK(write[w], writeApplied[w]), LateOK(write[w], writeApplied[w], told),
         write[w].at = "attempt",
         NEW ok \in SUBSET W!Batches, NEW errors \in SUBSET W!Batches, NEW done \in SUBSET W!Batches,
         ok \cup errors = 1..write[w].batch, ok \cap errors = {}, ok \subseteq done, done \subseteq 1..write[w].batches,
         NEW c, c = W!BatchDone(w, ok, errors)
  PROVE  c \in WriteCall /\ CallOK(c, done) /\ LateOK(c, done, told)
<1> PICK d : d = [write[w] EXCEPT !.ok = ok, !.errors = errors]
  OBVIOUS
<1>1. /\ d \in WriteCall /\ d.at = "attempt" /\ d.late = write[w].late /\ d.batches = write[w].batches
      /\ d.partial = write[w].partial /\ d.ok = ok /\ d.errors = errors /\ d.batch = write[w].batch
      /\ d.answer = write[w].answer
  BY DEF WriteCall
<1>2. /\ ~d.late /\ d.answer = W!NoAnswer /\ d.batch \in 1..d.batches /\ d.batches \in Nat
      /\ ok \cup errors \subseteq 1..d.batches
  <2>1. ~d.late /\ d.answer = W!NoAnswer /\ d.batch \in 1..d.batches
    BY <1>1 DEF CallOK, LateOK, WriteSends
  <2>2. d.batches \in Nat
    BY <1>1, WriteServiceAssumption DEF WriteCall, W!Batches
  <2> QED BY <1>1, <2>1, <2>2
<1>3. W!NoAnswer.success = FALSE
  BY DEF W!NoAnswer
\* The call once it is answered.
<1> PICK a : a = [d EXCEPT !.at = "answered"]
  OBVIOUS
<1>4. /\ a \in WriteCall /\ a.at = "answered" /\ a.late = d.late /\ a.batches = d.batches /\ a.partial = d.partial
      /\ a.ok = ok /\ a.errors = errors /\ a.answer = d.answer
  BY <1>1 DEF WriteCall
<1>5. CallOK(a, done)
  BY <1>1, <1>2, <1>3, <1>4 DEF CallOK, WriteBegins, WriteSends
<1>6. W!Answer(d, FALSE, TRUE) = W!Answer(a, FALSE, TRUE) /\ W!Answer(d, FALSE, FALSE) = W!Answer(a, FALSE, FALSE)
      /\ W!Answer(d, TRUE, FALSE) = W!Answer(a, TRUE, FALSE)
  BY <1>1 DEF W!Answer, WriteCall
<1>7. W!Answer(d, FALSE, TRUE).late = d.late /\ W!Answer(d, FALSE, FALSE).late = d.late
       /\ W!Answer(d, TRUE, FALSE).late = d.late
  BY <1>1 DEF W!Answer, WriteCall
<1>8. CASE c = W!Answer(d, FALSE, TRUE)
  <2>1. CallOK(W!Answer(a, FALSE, TRUE), done) /\ W!Answer(a, FALSE, TRUE) \in WriteCall
    BY <1>4, <1>5, RefusalIsSound
  <2>2. c \in WriteCall /\ CallOK(c, done) /\ ~c.late
    BY <1>2, <1>6, <1>8, <1>7, <2>1
  <2> QED BY <2>2 DEF LateOK
<1>9. CASE c = W!Answer(d, FALSE, FALSE)
  <2>1. CallOK(W!Answer(a, FALSE, FALSE), done) /\ W!Answer(a, FALSE, FALSE) \in WriteCall
    BY <1>4, <1>5, FailureIsSound
  <2>2. c \in WriteCall /\ CallOK(c, done) /\ ~c.late
    BY <1>2, <1>6, <1>9, <1>7, <2>1
  <2> QED BY <2>2 DEF LateOK
<1>10. CASE c = W!Answer(d, TRUE, FALSE) /\ d.batch = d.batches /\ (errors = {} \/ (d.partial /\ ok # {}))
  <2>1. a.errors = {} \/ (a.partial /\ a.ok # {})
    BY <1>4, <1>10
  <2>2. a.ok \cup a.errors = 1..a.batches
    BY <1>1, <1>4, <1>10
  <2>3. CallOK(W!Answer(a, TRUE, FALSE), done) /\ W!Answer(a, TRUE, FALSE) \in WriteCall
    BY <1>4, <1>5, <2>1, <2>2, SuccessIsSound
  <2>4. c \in WriteCall /\ CallOK(c, done) /\ ~c.late
    BY <1>2, <1>6, <1>10, <1>7, <2>3
  <2> QED BY <2>4 DEF LateOK
<1>11. CASE /\ c = [d EXCEPT !.at = "attempt", !.batch = d.batch + 1, !.attempt = 0]
            /\ d.batch # d.batches /\ (errors = {} \/ d.partial)
  <2>1. c = AttemptOn(d, d.batch + 1)
    BY <1>11 DEF AttemptOn
  <2>2. /\ d.batch # d.batches /\ (d.errors = {} \/ d.partial)
        /\ d.ok \cup d.errors = 1..d.batch /\ d.ok \cap d.errors = {} /\ d.ok \subseteq done /\ done \subseteq 1..d.batches
    BY <1>1, <1>11
  <2>3. c \in WriteCall /\ CallOK(c, done) /\ ~c.late
    BY <1>1, <1>2, <2>1, <2>2, NextBatchIsOK
  <2> QED BY <2>3 DEF LateOK
<1>12. \/ c = W!Answer(d, FALSE, TRUE)
       \/ c = W!Answer(d, FALSE, FALSE)
       \/ c = W!Answer(d, TRUE, FALSE) /\ d.batch = d.batches /\ (errors = {} \/ (d.partial /\ ok # {}))
       \/ /\ c = [d EXCEPT !.at = "attempt", !.batch = d.batch + 1, !.attempt = 0]
          /\ d.batch # d.batches /\ (errors = {} \/ d.partial)
  BY <1>1 DEF W!BatchDone
<1> QED BY <1>8, <1>9, <1>10, <1>11, <1>12

\* StarRocks applies the batch; the answer may say so or not.
LEMMA AttemptKeepsWrites ==
  ASSUME WriteServiceInv, NEW w \in Writes, W!AttemptSucceeds(w) \/ W!AttemptFails(w)
  PROVE  CallsOK' /\ FlushesOK'
<1> DEFINE b == write[w].batch
<1>1. /\ write[w].at = "attempt" /\ told' = told /\ UNCHANGED W!flushVars
      /\ \/ writeApplied' = [writeApplied EXCEPT ![w] = writeApplied[w] \cup {b}]
         \/ writeApplied' = writeApplied /\ W!AttemptFails(w)
      /\ \/ /\ write' = [write EXCEPT ![w] = W!BatchDone(w, write[w].ok \cup {b}, write[w].errors)]
            /\ writeApplied' = [writeApplied EXCEPT ![w] = writeApplied[w] \cup {b}]
         \/ write' = [write EXCEPT ![w] = W!BatchDone(w, write[w].ok, write[w].errors \cup {b})]
         \/ write' = [write EXCEPT ![w].at = "delay", ![w].attempt = write[w].attempt + 1] /\ W!AttemptFails(w)
  BY CallIsOK DEF W!AttemptSucceeds, W!AttemptFails, W!Applies
<1>2. /\ write \in [Writes -> WriteCall] /\ write[w] \in WriteCall
      /\ writeApplied[w] \in SUBSET W!Batches
      /\ CallOK(write[w], writeApplied[w]) /\ LateOK(write[w], writeApplied[w], told)
      /\ writeApplied = [writeApplied EXCEPT ![w] = writeApplied[w]]
  BY CallIsOK
<1>3. /\ b \in 1..write[w].batches /\ write[w].ok \cup write[w].errors = 1..(b - 1) /\ ~write[w].late
      /\ write[w].ok \cap write[w].errors = {} /\ write[w].ok \subseteq writeApplied[w]
      /\ writeApplied[w] \subseteq 1..write[w].batches
  BY <1>1, <1>2 DEF CallOK, LateOK, WriteSends
<1>4. write[w].batches \in Nat /\ write[w].batches <= MaxBatches /\ write[w].ok \in SUBSET W!Batches /\ write[w].errors \in SUBSET W!Batches
  BY <1>2 DEF WriteCall
<1>5. b \in W!Batches /\ b \in Nat /\ b \notin 1..(b - 1) /\ 1..(b - 1) \cup {b} = 1..b
  BY <1>3, <1>4, WriteServiceAssumption DEF W!Batches
<1> PICK done : done \in {writeApplied[w], writeApplied[w] \cup {b}} /\ writeApplied' = [writeApplied EXCEPT ![w] = done]
  BY <1>1, <1>2
<1>6. done \in SUBSET W!Batches /\ done \subseteq 1..write[w].batches /\ writeApplied[w] \subseteq done
  BY <1>2, <1>3, <1>5
<1>7. ASSUME NEW c, write' = [write EXCEPT ![w] = c], c \in WriteCall, CallOK(c, done), LateOK(c, done, told)
      PROVE  CallsOK' /\ FlushesOK'
  BY <1>1, <1>6, <1>7, CallMoves
<1>8. ASSUME NEW ok \in SUBSET W!Batches, NEW errors \in SUBSET W!Batches, ok \cup errors = 1..b, ok \cap errors = {},
             ok \subseteq done, write' = [write EXCEPT ![w] = W!BatchDone(w, ok, errors)]
      PROVE  CallsOK' /\ FlushesOK'
  <2> PICK c : c = W!BatchDone(w, ok, errors)
    OBVIOUS
  <2>1. c \in WriteCall /\ CallOK(c, done) /\ LateOK(c, done, told)
    BY <1>1, <1>2, <1>6, <1>8, BatchDoneIsOK
  <2> QED BY <1>7, <1>8, <2>1
<1>9. CASE /\ write' = [write EXCEPT ![w] = W!BatchDone(w, write[w].ok \cup {b}, write[w].errors)]
           /\ writeApplied' = [writeApplied EXCEPT ![w] = writeApplied[w] \cup {b}]
  <2> PICK ok : ok = write[w].ok \cup {b}
    OBVIOUS
  <2>1. b \in done
    <3>1. writeApplied \in [Writes -> SUBSET W!Batches]
      BY CallIsOK
    <3>2. writeApplied'[w] = done /\ writeApplied'[w] = writeApplied[w] \cup {b}
      BY <1>9, <3>1
    <3> QED BY <3>2
  <2>2. /\ ok \in SUBSET W!Batches /\ ok \cup write[w].errors = 1..b /\ ok \cap write[w].errors = {}
        /\ ok \subseteq done
    BY <1>3, <1>4, <1>5, <1>6, <2>1
  <2> QED BY <1>4, <1>8, <1>9, <2>2
<1>10. CASE write' = [write EXCEPT ![w] = W!BatchDone(w, write[w].ok, write[w].errors \cup {b})]
  <2> PICK errors : errors = write[w].errors \cup {b}
    OBVIOUS
  <2>1. /\ errors \in SUBSET W!Batches /\ write[w].ok \cup errors = 1..b /\ write[w].ok \cap errors = {}
        /\ write[w].ok \subseteq done
    BY <1>3, <1>4, <1>5, <1>6
  <2> QED BY <1>4, <1>8, <1>10, <2>1
<1>11. CASE write' = [write EXCEPT ![w].at = "delay", ![w].attempt = write[w].attempt + 1]
  <2> PICK n : n = write[w].attempt + 1
    OBVIOUS
  <2> PICK c : c = [write[w] EXCEPT !.at = "delay", !.attempt = n]
    OBVIOUS
  <2>1. write' = [write EXCEPT ![w] = c]
    BY <1>2, <1>11
  <2>5. n \in Nat
    BY <1>2 DEF WriteCall
  <2>2. /\ c \in WriteCall /\ c.at = "delay" /\ c.late = write[w].late /\ c.batches = write[w].batches
        /\ c.partial = write[w].partial /\ c.ok = write[w].ok /\ c.errors = write[w].errors
        /\ c.batch = write[w].batch /\ c.answer = write[w].answer
    BY <1>2, <2>5 DEF WriteCall, WriteSends
  <2>3. CallOK(c, done)
    BY <1>1, <1>2, <1>6, <2>2 DEF CallOK, WriteBegins, WriteSends
  <2>4. LateOK(c, done, told)
    BY <1>3, <2>2 DEF LateOK
  <2> QED BY <1>7, <2>1, <2>2, <2>3, <2>4
<1> QED BY <1>1, <1>9, <1>10, <1>11

LEMMA DelayKeepsWrites ==
  ASSUME WriteServiceInv, NEW w \in Writes, W!DelayEnds(w)
  PROVE  CallsOK' /\ FlushesOK'
<1>1. write[w].at = "delay" /\ writeApplied' = writeApplied /\ told' = told /\ UNCHANGED W!flushVars
  BY DEF W!DelayEnds
<1>2. /\ write \in [Writes -> WriteCall] /\ write[w] \in WriteCall
      /\ writeApplied[w] \in SUBSET W!Batches
      /\ CallOK(write[w], writeApplied[w]) /\ LateOK(write[w], writeApplied[w], told)
      /\ writeApplied' = [writeApplied EXCEPT ![w] = writeApplied[w]]
  BY <1>1, CallIsOK
<1>3. CASE write' = [write EXCEPT ![w].at = "attempt"]
  <2> PICK c : c = [write[w] EXCEPT !.at = "attempt"]
    OBVIOUS
  <2>1. write' = [write EXCEPT ![w] = c]
    BY <1>2, <1>3
  <2>2. /\ c \in WriteCall /\ c.at = "attempt" /\ c.late = write[w].late /\ c.batches = write[w].batches
        /\ c.partial = write[w].partial /\ c.ok = write[w].ok /\ c.errors = write[w].errors
        /\ c.batch = write[w].batch /\ c.answer = write[w].answer
    BY <1>2 DEF WriteCall, WriteSends
  <2>3. CallOK(c, writeApplied[w]) /\ LateOK(c, writeApplied[w], told)
    BY <1>1, <1>2, <2>2 DEF CallOK, LateOK, WriteBegins, WriteSends
  <2> PICK done : done = writeApplied[w]
    OBVIOUS
  <2> QED BY <1>1, <1>2, <2>1, <2>2, <2>3, CallMoves
<1>4. CASE write' = [write EXCEPT ![w] = W!Answer(write[w], write[w].ok # {}, TRUE)]
  <2>1. CASE write[w].ok = {}
    <3>1. (write[w].ok # {}) = FALSE
      BY <2>1
    <3>2. write' = [write EXCEPT ![w] = W!Answer(write[w], FALSE, TRUE)]
      BY <1>4, <3>1, Zenon
    <3> QED BY <1>1, <3>2, RefusalKeepsWrites
  <2>2. CASE write[w].ok # {}
    <3>1. (write[w].ok # {}) = TRUE
      BY <2>2
    <3>2. write' = [write EXCEPT ![w] = W!Answer(write[w], TRUE, TRUE)]
      BY <1>4, <3>1, Zenon
    <3> QED BY <1>1, <3>2, RefusalKeepsWrites
  <2> QED BY <2>1, <2>2
<1> QED BY <1>3, <1>4 DEF W!DelayEnds

LEMMA InBufferIsOK ==
  ASSUME NEW w, write[w] \in WriteCall, NEW done, CallOK(write[w], done), NEW c, c = W!InBuffer(w)
  PROVE  /\ c \in WriteCall /\ c.at = "answered" /\ c.id = write[w].id /\ c.late = write[w].late
         /\ c.timed = write[w].timed /\ c.batches = write[w].batches /\ CallOK(c, done)
<1> PICK a : a = [write[w].answer EXCEPT !.success = TRUE, !.inBuffer = TRUE]
  OBVIOUS
<1>1. a \in WriteAnswer /\ a.inBuffer = TRUE
  BY DEF WriteCall, WriteAnswer
<1>2. c = [write[w] EXCEPT !.at = "answered", !.answer = a]
  BY DEF W!InBuffer, WriteCall
<1>3. /\ c \in WriteCall /\ c.at = "answered" /\ c.id = write[w].id /\ c.late = write[w].late
      /\ c.batches = write[w].batches /\ c.timed = write[w].timed /\ c.ok = write[w].ok /\ c.errors = write[w].errors /\ c.answer = a
  <2> HIDE DEF WriteAnswer
  <2> QED BY <1>1, <1>2 DEF WriteCall
<1>4. CallOK(c, done)
  BY <1>1, <1>3 DEF CallOK, WriteBegins, WriteSends
<1> QED BY <1>3, <1>4

LEMMA BufferKeepsWrites ==
  ASSUME WriteServiceInv, NEW w \in Writes, W!BufferWrite(w)
  PROVE  CallsOK' /\ FlushesOK'
<1>1. /\ write[w].at = "buffer" /\ writeApplied' = writeApplied /\ told' = told
      /\ UNCHANGED <<scheduled, sleeping, flushing, unflushed>>
  BY DEF W!BufferWrite
<1>2. CASE write' = [write EXCEPT ![w] = W!Refused(w)] /\ UNCHANGED buffered
  <2>1. write' = [write EXCEPT ![w] = W!Answer(write[w], FALSE, TRUE)] /\ UNCHANGED W!flushVars
    BY <1>1, <1>2 DEF W!Refused, W!flushVars
  <2> QED BY <1>1, <2>1, RefusalKeepsWrites
<1>3. /\ write \in [Writes -> WriteCall] /\ write[w] \in WriteCall
      /\ writeApplied[w] \in SUBSET W!Batches
      /\ CallOK(write[w], writeApplied[w]) /\ LateOK(write[w], writeApplied[w], told)
      /\ writeApplied' = [writeApplied EXCEPT ![w] = writeApplied[w]]
  BY <1>1, CallIsOK
<1>4. write[w].batches = 1 /\ ~write[w].late
  BY <1>1, <1>3 DEF CallOK, LateOK, WriteBegins
<1>5. ASSUME NEW c, buffered' = buffered \cup {w}, write' = [write EXCEPT ![w] = c], c \in WriteCall,
             CallOK(c, writeApplied[w]), ~c.late, c.batches = 1,
             c.at = "lookup" \/ (c.at = "answered" /\ ~c.timed)
      PROVE  CallsOK' /\ FlushesOK'
  <2> PICK done : done = writeApplied[w]
    OBVIOUS
  <2>4. LateOK(c, done, told)
    BY <1>5 DEF LateOK
  <2>5. CallsOK' /\ OnlyWriteOf(w) /\ write'[w] = c
    BY <1>1, <1>3, <1>5, <2>4, CallIsSet DEF WriteServiceInv
  <2>6. FlushesOK
    BY DEF WriteServiceInv
  <2>7. w \notin buffered
    BY <1>1, <2>6 DEF FlushesOK
  <2>8. \A v \in buffered : write'[v] = write[v]
    BY <2>5, <2>6, <2>7 DEF FlushesOK, OnlyWriteOf
  <2>9. W!BufferedIsWatched'
    <3>1. ASSUME NEW v \in buffered' \ unflushed', write'[v].timed
          PROVE  write'[v].at \in {"lookup", "schedule"} \/ sleeping'[write'[v].id] + flushing'[write'[v].id] > 0
      <4>1. CASE v = w
        BY <1>5, <2>5, <3>1, <4>1
      <4>2. CASE v # w
        <5>1. v \in buffered \ unflushed /\ write'[v] = write[v] /\ sleeping' = sleeping /\ flushing' = flushing
          BY <1>1, <1>5, <2>8, <3>1, <4>2
        <5> QED BY <2>6, <3>1, <5>1 DEF FlushesOK, W!BufferedIsWatched
      <4> QED BY <4>1, <4>2
    <3> QED BY <3>1 DEF W!BufferedIsWatched
  <2>10. FlushesOK'
    BY <1>1, <1>5, <2>5, <2>6, <2>8, <2>9 DEF FlushesOK
  <2> QED BY <2>5, <2>10
<1>6. CASE buffered' = buffered \cup {w} /\ write' = [write EXCEPT ![w].at = "lookup", ![w].timed = TRUE]
  <2> PICK c : c = [write[w] EXCEPT !.at = "lookup", !.timed = TRUE]
    OBVIOUS
  <2>2. write' = [write EXCEPT ![w] = c]
    BY <1>3, <1>6
  <2>3. /\ c \in WriteCall /\ c.at = "lookup" /\ c.late = write[w].late /\ c.batches = write[w].batches
        /\ c.ok = write[w].ok /\ c.errors = write[w].errors
        /\ c.batch = write[w].batch /\ c.answer = write[w].answer
    BY <1>3 DEF WriteCall, WriteBegins
  <2>4. CallOK(c, writeApplied[w])
    BY <1>1, <1>3, <2>3 DEF CallOK, WriteBegins, WriteSends
  <2> QED BY <1>4, <1>5, <1>6, <2>2, <2>3, <2>4
<1>7. CASE buffered' = buffered \cup {w} /\ write' = [write EXCEPT ![w] = W!InBuffer(w)] /\ ~write[w].timed
  <2> PICK c : c = W!InBuffer(w)
    OBVIOUS
  <2>1. /\ c \in WriteCall /\ c.at = "answered" /\ c.late = write[w].late /\ c.timed = write[w].timed
        /\ c.batches = write[w].batches /\ CallOK(c, writeApplied[w])
    BY <1>3, InBufferIsOK
  <2> QED BY <1>4, <1>5, <1>7, <2>1
<1>8. ~write[w].timed
  BY <1>1, <1>3 DEF CallOK, WriteBegins
<1> QED BY <1>2, <1>6, <1>7, <1>8 DEF W!BufferWrite

\* A mark that is seen belongs to a goroutine that still sleeps.
LEMMA ScheduleKeepsWrites ==
  ASSUME WriteServiceInv, NEW w \in Writes, W!LookUpSchedule(w) \/ W!ScheduleBufferFlush(w)
  PROVE  CallsOK' /\ FlushesOK'
<1>1. /\ write \in [Writes -> WriteCall] /\ write[w] \in WriteCall /\ write[w].id \in WriteIDs
      /\ writeApplied[w] \in SUBSET W!Batches /\ writeApplied \in [Writes -> SUBSET W!Batches]
      /\ CallOK(write[w], writeApplied[w]) /\ LateOK(write[w], writeApplied[w], told)
      /\ writeApplied = [writeApplied EXCEPT ![w] = writeApplied[w]]
      /\ CallsOK /\ FlushesOK
  BY CallIsOK DEF WriteServiceInv, WriteCall
<1>2. write[w].at \in {"lookup", "schedule"} /\ writeApplied' = writeApplied /\ told' = told
      /\ buffered' = buffered /\ unflushed' = unflushed /\ flushing' = flushing
  BY DEF W!LookUpSchedule, W!ScheduleBufferFlush, W!flushVars
<1> PICK i : i = write[w].id
  OBVIOUS
<1>3. i \in WriteIDs /\ sleeping[i] \in Nat /\ flushing[i] \in Nat
  BY <1>1 DEF FlushesOK
<1>4. ASSUME NEW c, write' = [write EXCEPT ![w] = c], c \in WriteCall, c.id = i, c.late = write[w].late,
             CallOK(c, writeApplied[w]), c.at \in {"schedule", "answered"}, c.batches = 1,
             sleeping' \in [WriteIDs -> Nat], \A j \in WriteIDs : sleeping'[j] >= sleeping[j],
             scheduled' \subseteq WriteIDs, \A j \in scheduled' : sleeping'[j] > 0,
             c.at = "answered" => sleeping'[i] > 0
      PROVE  CallsOK' /\ FlushesOK'
  <2>1. LateOK(c, writeApplied[w], told) /\ ~c.late
    BY <1>1, <1>2, <1>4 DEF LateOK, WriteSends
  <2> PICK done : done = writeApplied[w]
    OBVIOUS
  <2>2. CallsOK' /\ OnlyWriteOf(w) /\ write'[w] = c
    BY <1>1, <1>2, <1>4, <2>1, CallIsSet
  <2>3. ASSUME NEW v \in buffered, v # w PROVE write'[v] = write[v]
    BY <1>1, <2>2, <2>3 DEF FlushesOK, OnlyWriteOf
  <2>4. ASSUME NEW v \in buffered' \ unflushed', write'[v].timed
        PROVE  write'[v].at \in {"lookup", "schedule"} \/ sleeping'[write'[v].id] + flushing'[write'[v].id] > 0
    <3>1. CASE v = w
      BY <1>2, <1>3, <1>4, <2>2, <3>1
    <3>2. CASE v # w
      <4>1. v \in buffered \ unflushed /\ write'[v] = write[v] /\ v \in Writes
        BY <1>1, <1>2, <2>3, <3>2 DEF FlushesOK
      <4> PICK j : j = write[v].id
        OBVIOUS
      <4>2. j \in WriteIDs
        BY <1>1, <4>1 DEF WriteCall
      <4>3. write[v].at \in {"lookup", "schedule"} \/ sleeping[j] + flushing[j] > 0
        BY <1>1, <2>4, <4>1 DEF FlushesOK, W!BufferedIsWatched
      <4>4. sleeping[j] \in Nat /\ flushing[j] \in Nat /\ sleeping'[j] \in Nat /\ sleeping'[j] >= sleeping[j]
        BY <1>1, <1>4, <4>2 DEF FlushesOK
      <4> QED BY <1>2, <4>1, <4>3, <4>4
    <3> QED BY <3>1, <3>2
  <2>5. W!BufferedIsWatched'
    BY <2>4 DEF W!BufferedIsWatched
  <2>6. \A v \in buffered' : /\ write'[v].at \in {"lookup", "schedule", "answered"}
                             /\ ~write'[v].late /\ write'[v].batches = 1
    BY <1>1, <1>2, <1>4, <2>1, <2>2, <2>3 DEF FlushesOK
  <2>7. FlushesOK'
    BY <1>1, <1>2, <1>4, <2>5, <2>6 DEF FlushesOK
  <2> QED BY <2>2, <2>7
<1>5. PICK c : c = W!InBuffer(w)
  OBVIOUS
<1>9. write[w].batches = 1
  BY <1>1, <1>2 DEF CallOK, WriteBegins
<1>6. /\ c \in WriteCall /\ c.at = "answered" /\ c.id = i /\ c.late = write[w].late /\ c.batches = 1
      /\ CallOK(c, writeApplied[w])
  BY <1>1, <1>5, <1>9, InBufferIsOK
<1>7. CASE W!LookUpSchedule(w)
  <2>1. UNCHANGED <<sleeping, scheduled>>
    BY <1>7 DEF W!LookUpSchedule, W!flushVars
  <2>2. /\ sleeping' \in [WriteIDs -> Nat] /\ (\A j \in WriteIDs : sleeping'[j] >= sleeping[j])
        /\ scheduled' \subseteq WriteIDs /\ \A j \in scheduled' : sleeping'[j] > 0
    BY <1>1, <2>1 DEF FlushesOK
  <2>3. CASE i \in scheduled
    <3>1. write' = [write EXCEPT ![w] = c]
      BY <1>5, <1>7, <2>3 DEF W!LookUpSchedule
    <3>2. sleeping'[i] > 0
      BY <2>1, <2>2, <2>3
    <3> QED BY <1>4, <1>6, <2>2, <3>1, <3>2
  <2>4. CASE i \notin scheduled
    <3> PICK d : d = [write[w] EXCEPT !.at = "schedule"]
      OBVIOUS
    <3>1. write' = [write EXCEPT ![w] = d]
      BY <1>7, <2>4 DEF W!LookUpSchedule
    <3>2. /\ d \in WriteCall /\ d.at = "schedule" /\ d.late = write[w].late /\ d.batches = write[w].batches
          /\ d.ok = write[w].ok /\ d.errors = write[w].errors /\ d.id = i
          /\ d.batch = write[w].batch /\ d.answer = write[w].answer
      BY <1>1 DEF WriteCall, WriteBegins
    <3>3. CallOK(d, writeApplied[w])
      BY <1>1, <1>2, <3>2 DEF CallOK, WriteBegins, WriteSends
    <3> QED BY <1>4, <1>9, <2>2, <3>1, <3>2, <3>3
  <2> QED BY <2>3, <2>4
<1>8. CASE W!ScheduleBufferFlush(w)
  <2>1. /\ write' = [write EXCEPT ![w] = c] /\ scheduled' = scheduled \cup {i}
        /\ sleeping' = [sleeping EXCEPT ![i] = sleeping[i] + 1]
    BY <1>5, <1>8 DEF W!ScheduleBufferFlush
  <2>2. sleeping' \in [WriteIDs -> Nat] /\ sleeping'[i] = sleeping[i] + 1
        /\ \A j \in WriteIDs : sleeping'[j] >= sleeping[j]
    BY <1>1, <1>3, <2>1 DEF FlushesOK
  <2>3. scheduled' \subseteq WriteIDs /\ (\A j \in scheduled' : sleeping'[j] > 0) /\ sleeping'[i] > 0
    <3>1. ASSUME NEW j \in scheduled' PROVE sleeping'[j] > 0
      <4>1. CASE j = i
        BY <1>3, <2>2, <4>1
      <4>2. CASE j # i
        <5>1. j \in WriteIDs /\ sleeping[j] > 0 /\ sleeping[j] \in Nat /\ sleeping'[j] = sleeping[j]
          BY <1>1, <2>1, <4>2 DEF FlushesOK
        <5> QED BY <5>1
      <4> QED BY <4>1, <4>2
    <3> QED BY <1>1, <1>3, <2>1, <2>2, <3>1 DEF FlushesOK
  <2> QED BY <1>4, <1>6, <2>1, <2>2, <2>3
<1> QED BY <1>7, <1>8

\* The buffer sends writes it holds.
LEMMA SendsKeepCalls ==
  ASSUME WriteServiceInv, NEW gone \in SUBSET buffered, W!Sends(gone), UNCHANGED <<write, told>>
  PROVE  CallsOK'
<1>1. /\ write \in [Writes -> WriteCall] /\ writeApplied \in [Writes -> SUBSET W!Batches]
      /\ \A w \in Writes : CallOK(write[w], writeApplied[w]) /\ LateOK(write[w], writeApplied[w], told)
  BY DEF WriteServiceInv, CallsOK
<1>2. writeApplied' = [w \in Writes |-> IF w \in gone THEN {1} ELSE writeApplied[w]]
  BY DEF W!Sends
<1>3. {1} \in SUBSET W!Batches
  BY WriteServiceAssumption DEF W!Batches
<1>4. writeApplied' \in [Writes -> SUBSET W!Batches]
  <2> HIDE DEF W!Batches
  <2> QED BY <1>1, <1>2, <1>3
<1>5. ASSUME NEW w \in Writes
      PROVE  CallOK(write[w], writeApplied'[w]) /\ LateOK(write[w], writeApplied'[w], told)
  <2>1. CASE w \in gone
    <3>1. /\ write[w].at \in {"lookup", "schedule", "answered"} /\ ~write[w].late /\ write[w].batches = 1
      BY <2>1 DEF WriteServiceInv, FlushesOK
    <3>2. writeApplied'[w] = {1} /\ 1..1 = {1}
      BY <1>2, <2>1
    <3>3. CallOK(write[w], writeApplied[w])
      BY <1>1
    <3> QED BY <3>1, <3>2, <3>3 DEF CallOK, LateOK, WriteBegins, WriteSends
  <2>2. CASE w \notin gone
    <3>1. writeApplied'[w] = writeApplied[w]
      BY <1>2, <2>2
    <3> HIDE DEF CallOK, LateOK
    <3> QED BY <1>1, <3>1
  <2> QED BY <2>1, <2>2
<1>6. write' = write /\ told' = told
  OBVIOUS
<1> HIDE DEF CallOK, LateOK, WriteCall
<1> QED BY <1>1, <1>4, <1>5, <1>6 DEF CallsOK

LEMMA FlushKeepsWrites ==
  ASSUME WriteServiceInv, W!FlushStep
  PROVE  WriteServiceInv'
<1>1. UNCHANGED <<write, status, ender, told>>
  BY DEF W!FlushStep, W!FlushBufferedWrites, W!FlushWakes, W!FlushByID
<1>2. CallsOK' /\ TransactionsOK'
  <2>1. TransactionsOK'
    BY <1>1 DEF WriteServiceInv, TransactionsOK
  <2>2. CASE writeApplied' = writeApplied
    <3> HIDE DEF CallOK, LateOK, WriteCall
    <3> QED BY <1>1, <2>1, <2>2 DEF WriteServiceInv, CallsOK
  <2>3. CASE \E gone \in SUBSET buffered : W!Sends(gone)
    BY <1>1, <2>1, <2>3, SendsKeepCalls
  <2>4. \A i \in WriteIDs : W!WithID(i) \subseteq buffered
    BY DEF W!WithID
  <2>5. writeApplied' = writeApplied \/ \E gone \in SUBSET buffered : W!Sends(gone)
    <3>1. CASE W!FlushBufferedWrites
      BY <3>1 DEF W!FlushBufferedWrites
    <3>2. ASSUME NEW i \in WriteIDs, W!FlushByID(i) PROVE \E gone \in SUBSET buffered : W!Sends(gone)
      <4>1. \E gone \in SUBSET W!WithID(i) : W!Sends(gone)
        BY <3>2, Zenon DEF W!FlushByID
      <4> HIDE DEF W!Sends
      <4> QED BY <2>4, <4>1
    <3>3. ASSUME NEW i \in WriteIDs, W!FlushWakes(i) PROVE writeApplied' = writeApplied
      BY <3>3 DEF W!FlushWakes
    <3> QED BY <3>1, <3>2, <3>3 DEF W!FlushStep
  <2> QED BY <2>2, <2>3, <2>5
<1>3. /\ FlushesOK /\ \A v \in Writes : write[v].id \in WriteIDs
  BY DEF WriteServiceInv, CallsOK, WriteCall
<1>4. ASSUME W!FlushBufferedWrites PROVE FlushesOK'
  BY <1>1, <1>3, <1>4 DEF W!FlushBufferedWrites, FlushesOK, W!BufferedIsWatched
<1>5. ASSUME NEW i \in WriteIDs, W!FlushWakes(i) PROVE FlushesOK'
  <2>1. /\ sleeping' = [sleeping EXCEPT ![i] = sleeping[i] - 1] /\ flushing' = [flushing EXCEPT ![i] = flushing[i] + 1]
        /\ scheduled' = scheduled \ {i} /\ UNCHANGED <<buffered, unflushed>> /\ sleeping[i] > 0
    BY <1>5 DEF W!FlushWakes
  <2>2. sleeping \in [WriteIDs -> Nat] /\ flushing \in [WriteIDs -> Nat] /\ sleeping[i] \in Nat /\ flushing[i] \in Nat
    BY <1>3 DEF FlushesOK
  <2>3. sleeping[i] - 1 \in Nat /\ flushing[i] + 1 \in Nat
    BY <2>1, <2>2
  <2>4. sleeping' \in [WriteIDs -> Nat] /\ flushing' \in [WriteIDs -> Nat]
    BY <2>1, <2>2, <2>3
  <2>5. \A j \in WriteIDs : sleeping'[j] + flushing'[j] = sleeping[j] + flushing[j]
    <3>1. ASSUME NEW j \in WriteIDs PROVE sleeping'[j] + flushing'[j] = sleeping[j] + flushing[j]
      <4>1. CASE j = i
        <5>1. sleeping'[j] = sleeping[i] - 1 /\ flushing'[j] = flushing[i] + 1
          BY <2>1, <2>2, <4>1
        <5> QED BY <2>2, <4>1, <5>1
      <4>2. CASE j # i
        BY <2>1, <2>2, <4>2
      <4> QED BY <4>1, <4>2
    <3> QED BY <3>1
  <2>6. \A j \in scheduled' : sleeping'[j] > 0
    BY <1>3, <2>1, <2>2 DEF FlushesOK
  <2>7. W!BufferedIsWatched'
    <3>1. ASSUME NEW v \in buffered \ unflushed, write[v].timed
          PROVE  write[v].at \in {"lookup", "schedule"} \/ sleeping'[write[v].id] + flushing'[write[v].id] > 0
      <4> PICK j : j = write[v].id
        OBVIOUS
      <4>1. j \in WriteIDs
        BY <1>3 DEF FlushesOK
      <4>2. write[v].at \in {"lookup", "schedule"} \/ sleeping[j] + flushing[j] > 0
        BY <1>3, <3>1 DEF FlushesOK, W!BufferedIsWatched
      <4> QED BY <2>5, <4>1, <4>2
    <3> QED BY <1>1, <2>1, <3>1 DEF W!BufferedIsWatched
  <2> QED BY <1>1, <1>3, <2>1, <2>4, <2>6, <2>7 DEF FlushesOK
<1>6. ASSUME NEW i \in WriteIDs, W!FlushByID(i) PROVE FlushesOK'
  <2>1. /\ flushing' = [flushing EXCEPT ![i] = flushing[i] - 1] /\ flushing[i] > 0
        /\ UNCHANGED <<scheduled, sleeping>>
        /\ \/ buffered' = buffered \ W!WithID(i) /\ unflushed' = unflushed \ W!WithID(i)
           \/ buffered' = buffered /\ unflushed' = unflushed \cup W!WithID(i)
    BY <1>6 DEF W!FlushByID
  <2>2. flushing \in [WriteIDs -> Nat] /\ flushing[i] \in Nat /\ W!WithID(i) \subseteq buffered
    BY <1>3 DEF FlushesOK, W!WithID
  <2>3. flushing[i] - 1 \in Nat
    BY <2>1, <2>2
  <2>4. flushing' \in [WriteIDs -> Nat] /\ \A j \in WriteIDs \ {i} : flushing'[j] = flushing[j]
    BY <2>1, <2>2, <2>3
  <2>5. buffered' \subseteq buffered /\ unflushed' \subseteq buffered'
        /\ \A v \in buffered' \ unflushed' : v \in buffered \ unflushed /\ write[v].id # i
    BY <1>3, <2>1, <2>2 DEF FlushesOK, W!WithID
  <2>6. W!BufferedIsWatched'
    <3>1. ASSUME NEW v \in buffered' \ unflushed', write[v].timed
          PROVE  write[v].at \in {"lookup", "schedule"} \/ sleeping'[write[v].id] + flushing'[write[v].id] > 0
      <4> PICK j : j = write[v].id
        OBVIOUS
      <4>1. j \in WriteIDs \ {i} /\ v \in buffered \ unflushed
        BY <1>3, <2>5 DEF FlushesOK
      <4>2. write[v].at \in {"lookup", "schedule"} \/ sleeping[j] + flushing[j] > 0
        BY <1>3, <3>1, <4>1 DEF FlushesOK, W!BufferedIsWatched
      <4> QED BY <2>1, <2>4, <4>1, <4>2
    <3> QED BY <1>1, <3>1 DEF W!BufferedIsWatched
  <2> QED BY <1>1, <1>3, <2>1, <2>4, <2>5, <2>6 DEF FlushesOK
<1>7. FlushesOK'
  BY <1>4, <1>5, <1>6 DEF W!FlushStep
<1> QED BY <1>2, <1>7 DEF WriteServiceInv

\* A transaction is marked timed out.
LEMMA TimeOutKeepsTransactions ==
  ASSUME TransactionsOK, NEW t, status' = [status EXCEPT ![t] = "timed out"], UNCHANGED <<ender, told>>
  PROVE  TransactionsOK'
BY DEF TransactionsOK

LEMMA TransactionKeepsWrites ==
  ASSUME WriteServiceInv, W!TransactionStep
  PROVE  WriteServiceInv'
<1>1. UNCHANGED <<write, writeApplied, buffered, scheduled, sleeping, flushing, unflushed>>
  BY DEF W!TransactionStep, W!BeginTransaction, W!EndTransaction, W!ClientAnswersEnd, W!StoreEnd, W!CleanUp, W!flushVars
<1>2. FlushesOK'
  BY <1>1 DEF WriteServiceInv, FlushesOK, W!BufferedIsWatched
<1>3. TransactionsOK
  BY DEF WriteServiceInv
<1>4. told \subseteq told' /\ TransactionsOK'
  <2>1. ASSUME NEW t \in Transactions, W!BeginTransaction(t) PROVE told \subseteq told' /\ TransactionsOK'
    BY <1>3, <2>1 DEF W!BeginTransaction, TransactionsOK
  <2>2. ASSUME NEW e \in Enders, W!EndTransaction(e) PROVE told \subseteq told' /\ TransactionsOK'
    <3>1. PICK t \in Transactions : ender' = [ender EXCEPT ![e] = [at |-> "client", tx |-> t, outcome |-> "none"]]
      BY <2>2 DEF W!EndTransaction
    <3>2. UNCHANGED <<status, told>>
      BY <2>2 DEF W!EndTransaction
    <3>3. \A f \in Enders : ender'[f] = IF f = e THEN [at |-> "client", tx |-> t, outcome |-> "none"] ELSE ender[f]
      BY <1>3, <3>1 DEF TransactionsOK
    <3>4. DOMAIN ender' = Enders
      BY <1>3, <3>1 DEF TransactionsOK
    <3> QED BY <1>3, <3>2, <3>3, <3>4 DEF TransactionsOK
  <2>3. ASSUME NEW e \in Enders, W!ClientAnswersEnd(e) PROVE told \subseteq told' /\ TransactionsOK'
    <3>1. PICK o : o # "active" /\ ender' = [ender EXCEPT ![e].at = "store", ![e].outcome = o]
      <4>1. PICK o \in {"committed", "rolled back", "failed"} : ender' = [ender EXCEPT ![e].at = "store", ![e].outcome = o]
        BY <2>3 DEF W!ClientAnswersEnd
      <4>2. o # "active"
        BY <4>1, Zenon
      <4> QED BY <4>1, <4>2
    <3>2. UNCHANGED <<status, told>> /\ ender[e].at = "client"
      BY <2>3 DEF W!ClientAnswersEnd
    <3>3. ender'[e] = [ender[e] EXCEPT !.at = "store", !.outcome = o] /\ \A f \in Enders \ {e} : ender'[f] = ender[f]
      BY <1>3, <3>1 DEF TransactionsOK
    <3>4. DOMAIN ender' = Enders /\ ender[e].tx \in Transactions
      BY <1>3, <3>1, <3>2 DEF TransactionsOK
    <3>5. ender'[e].tx = ender[e].tx /\ (ender'[e].outcome = o \/ ender'[e].outcome = ender[e].outcome)
      BY <3>3
    <3>6. ender'[e].outcome = o \/ ender'[e].at # "store"
      BY <3>3
    <3> QED BY <1>3, <3>1, <3>2, <3>3, <3>4, <3>5, <3>6 DEF TransactionsOK
  <2>4. ASSUME NEW e \in Enders, W!StoreEnd(e) PROVE told \subseteq told' /\ TransactionsOK'
    <3>1. /\ ender[e].at = "store" /\ status' = [status EXCEPT ![ender[e].tx] = ender[e].outcome]
          /\ told' = told \cup {ender[e].tx}
          /\ ender' = [ender EXCEPT ![e].at = IF ender[e].outcome = "failed" THEN "ended" ELSE "cleanup"]
      BY <2>4 DEF W!StoreEnd
    <3> PICK p : p = IF ender[e].outcome = "failed" THEN "ended" ELSE "cleanup"
      OBVIOUS
    <3>2. ender'[e] = [ender[e] EXCEPT !.at = p] /\ (\A f \in Enders \ {e} : ender'[f] = ender[f])
          /\ DOMAIN ender' = Enders
      BY <1>3, <3>1 DEF TransactionsOK
    <3>3. ender[e].tx \in Transactions /\ ender[e].outcome # "active"
      BY <1>3, <3>1 DEF TransactionsOK
    <3>4. ender'[e].tx = ender[e].tx /\ ender'[e].outcome = ender[e].outcome
      BY <3>2
    <3>5. DOMAIN status' = Transactions /\ \A t \in told' : status'[t] # "active"
      BY <1>3, <3>1, <3>3 DEF TransactionsOK
    <3> QED BY <1>3, <3>1, <3>2, <3>3, <3>4, <3>5 DEF TransactionsOK
  <2>5. ASSUME NEW e \in Enders, W!CleanUp(e) PROVE told \subseteq told' /\ TransactionsOK'
    <3>1. /\ ender[e].at = "cleanup" /\ status' = [status EXCEPT ![ender[e].tx] = "absent"]
          /\ told' = told /\ ender' = [ender EXCEPT ![e].at = "ended"]
      BY <2>5 DEF W!CleanUp
    <3>2. ender'[e] = [ender[e] EXCEPT !.at = "ended"] /\ (\A f \in Enders \ {e} : ender'[f] = ender[f])
          /\ DOMAIN ender' = Enders
      BY <1>3, <3>1 DEF TransactionsOK
    <3>3. ender[e].tx \in Transactions
      BY <1>3, <3>1 DEF TransactionsOK
    <3>4. ender'[e].tx = ender[e].tx /\ (ender'[e].at = "ended" \/ ender'[e].at = ender[e].at)
      BY <3>2
    <3>5. DOMAIN status' = Transactions /\ \A t \in told' : status'[t] # "active"
      BY <1>3, <3>1 DEF TransactionsOK
    <3> QED BY <1>3, <3>1, <3>2, <3>3, <3>4, <3>5 DEF TransactionsOK
  <2> QED BY <2>1, <2>2, <2>3, <2>4, <2>5 DEF W!TransactionStep
<1>5. CallsOK'
  <2>1. /\ write' \in [Writes -> WriteCall] /\ writeApplied' \in [Writes -> SUBSET W!Batches]
        /\ \A w \in Writes : CallOK(write[w], writeApplied[w]) /\ LateOK(write[w], writeApplied[w], told')
    BY <1>1, <1>4 DEF WriteServiceInv, CallsOK, LateOK
  <2> HIDE DEF CallOK, LateOK
  <2> QED BY <1>1, <2>1 DEF CallsOK
<1> QED BY <1>2, <1>4, <1>5 DEF WriteServiceInv

LEMMA WriteNextKeeps == WriteServiceInv /\ W!WriteNext => WriteServiceInv'
<1> SUFFICES ASSUME WriteServiceInv, W!WriteNext PROVE WriteServiceInv'
  OBVIOUS
<1>1. ASSUME NEW w \in Writes, W!WriteStep(w) PROVE WriteServiceInv'
  <2>1. CallsOK' /\ FlushesOK'
    <3>1. CASE W!ExecuteWrite(w) \/ W!CallBufferWrite(w) \/ W!ExecuteBatchWrite(w)
      BY <3>1, ExecuteKeepsWrites
    <3>4. CASE W!ValidateTransaction(w) \/ W!TimeOutTransaction(w)
      BY <3>4, ValidateKeepsWrites, TimeOutKeepsWrites
    <3>2. CASE W!AttemptSucceeds(w) \/ W!AttemptFails(w) \/ W!DelayEnds(w)
      BY <3>2, AttemptKeepsWrites, DelayKeepsWrites
    <3>3. CASE W!BufferWrite(w) \/ W!LookUpSchedule(w) \/ W!ScheduleBufferFlush(w)
      BY <3>3, BufferKeepsWrites, ScheduleKeepsWrites
    <3> QED BY <1>1, <3>1, <3>2, <3>3, <3>4 DEF W!WriteStep
  <2>2. TransactionsOK'
    <3>1. CASE UNCHANGED <<status, ender, told>>
      BY <3>1 DEF WriteServiceInv, TransactionsOK
    <3>2. CASE W!TimeOutTransaction(w)
      BY <3>2, TimeOutKeepsTransactions DEF W!TimeOutTransaction, WriteServiceInv
    <3>3. UNCHANGED <<status, ender, told>> \/ W!TimeOutTransaction(w)
      BY <1>1 DEF W!WriteStep, W!ExecuteWrite, W!CallBufferWrite, W!ExecuteBatchWrite, W!ValidateTransaction, W!AttemptSucceeds, W!AttemptFails, W!DelayEnds,
                  W!BufferWrite, W!LookUpSchedule, W!ScheduleBufferFlush
    <3> QED BY <3>1, <3>2, <3>3
  <2> QED BY <2>1, <2>2 DEF WriteServiceInv
<1> QED BY <1>1, FlushKeepsWrites, TransactionKeepsWrites DEF W!WriteNext

LEMMA UnchangedWrites ==
  ASSUME WriteServiceInv, UNCHANGED <<write, writeApplied, status, ender, told>>, UNCHANGED W!flushVars
  PROVE  WriteServiceInv'
<1>1. CallsOK'
  <2> HIDE DEF CallOK, LateOK, WriteCall
  <2> QED BY DEF WriteServiceInv, CallsOK
<1>2. TransactionsOK'
  BY DEF WriteServiceInv, TransactionsOK
<1>3. FlushesOK'
  BY DEF WriteServiceInv, FlushesOK, W!BufferedIsWatched, W!flushVars
<1> QED BY <1>1, <1>2, <1>3 DEF WriteServiceInv

LEMMA WritesInitially == W!WriteInit => WriteServiceInv
<1> SUFFICES ASSUME W!WriteInit PROVE WriteServiceInv
  OBVIOUS
<1>1. /\ W!FreshWrite \in WriteCall /\ CallOK(W!FreshWrite, {}) /\ LateOK(W!FreshWrite, {}, told)
  BY FreshIsCall, FreshIsSound
<1>2. CallsOK
  <2>1. write = [w \in Writes |-> W!FreshWrite] /\ writeApplied = [w \in Writes |-> {}]
    BY DEF W!WriteInit
  <2> HIDE DEF WriteCall, CallOK, LateOK
  <2> QED BY <1>1, <2>1 DEF CallsOK
<1>3. TransactionsOK
  BY DEF W!WriteInit, TransactionsOK, W!FreshEnder
<1>4. FlushesOK
  BY DEF W!WriteInit, FlushesOK, W!BufferedIsWatched
<1> QED BY <1>2, <1>3, <1>4 DEF WriteServiceInv

LEMMA WriteServiceInvIsEnough ==
  WriteServiceInv => W!WriteTypeOK /\ W!RefusedOnceEnded /\ W!SuccessIsApplied /\ W!BufferedIsWatched
<1> SUFFICES ASSUME WriteServiceInv
             PROVE  W!WriteTypeOK /\ W!RefusedOnceEnded /\ W!SuccessIsApplied /\ W!BufferedIsWatched
  OBVIOUS
<1>1. /\ \A w \in Writes : CallOK(write[w], writeApplied[w]) /\ LateOK(write[w], writeApplied[w], told)
      /\ TransactionsOK /\ FlushesOK
  BY DEF WriteServiceInv, CallsOK
<1>2. W!WriteTypeOK
  BY <1>1 DEF W!WriteTypeOK, CallOK, TransactionsOK, FlushesOK
<1>3. W!RefusedOnceEnded
  BY <1>1 DEF W!RefusedOnceEnded, LateOK, FlushesOK
<1>4. W!SuccessIsApplied
  <2>1. ASSUME NEW w \in Writes
        PROVE  /\ write[w].ok \subseteq writeApplied[w]
               /\ (write[w].answer.success /\ ~write[w].answer.inBuffer /\ ~write[w].answer.err) =>
                     /\ write[w].ok \cup write[w].errors = 1..write[w].batches
                     /\ write[w].errors = {} \/ (write[w].partial /\ write[w].ok # {})
    BY <1>1 DEF CallOK
  <2> QED BY <2>1 DEF W!SuccessIsApplied
<1> QED BY <1>1, <1>2, <1>3, <1>4 DEF FlushesOK

(* A write that begins once the end of its transaction was told is never   *)
(* sent, a success was applied in every batch it does not list as failed,  *)
(* and a buffered write has a flush to come; beside them the write buffer  *)
(* keeps its types (application/services/write_service.go).                *)
THEOREM WriteSafety == RequestsSpec => []WritesKeepPromises
<1> DEFINE Inv == BytesInv /\ (part = "writes" => WriteServiceInv)
<1>1. RequestsInit => Inv
  BY WritesInitially, BytesInitially DEF RequestsInit
<1>2. Inv /\ [RequestsNext]_requestsVars => Inv'
  <2> SUFFICES ASSUME Inv, [RequestsNext]_requestsVars PROVE Inv'
    OBVIOUS
  <2>1. BufferNext \/ UNCHANGED bufferVars
    BY DEF RequestsNext, requestsVars
  <2>2. BytesInv'
    BY <2>1, NextKeepsBytes, SnapshotKeepsBytes
  <2>3. CASE part' = "writes"
    <3>1. part = "writes" /\ WriteServiceInv /\ (W!WriteNext \/ UNCHANGED writeVars)
      BY <2>3 DEF RequestsNext, requestsVars
    <3>2. CASE UNCHANGED writeVars
      <4>1. UNCHANGED <<write, writeApplied, status, ender, told>> /\ UNCHANGED W!flushVars
        BY <3>2 DEF writeVars, W!flushVars
      <4>2. WriteServiceInv'
        BY <3>1, <4>1, UnchangedWrites
      <4> QED BY <2>2, <4>2
    <3> QED BY <2>2, <3>1, <3>2, WriteNextKeeps
  <2> QED BY <2>2, <2>3
<1>3. Inv => WritesKeepPromises
  BY BytesInvIsEnough, WriteServiceInvIsEnough DEF WritesKeepPromises
<1> QED BY <1>1, <1>2, <1>3, PTL DEF RequestsSpec

-----------------------------------------------------------------------------
(* The loops of the router are folds over a list.  A fold of SequencesExt  *)
(* is a recursive function over sets of places: that such a function       *)
(* exists is shown first, then that it runs through the places in order.   *)

\* What passes from each place to the next holds up to the last.
LEMMA UpTo ==
  ASSUME NEW n \in Nat, NEW P \in SUBSET (0..n), 0 \in P,
         \A i \in 1..n : i - 1 \in P => i \in P
  PROVE  P = 0..n
<1> SUFFICES ASSUME P # 0..n PROVE FALSE
  OBVIOUS
<1> DEFINE Bad == (0..n) \ P
<1>0. P \subseteq 0..n
  OBVIOUS
<1>1. Bad \subseteq Nat /\ Bad # {}
  <2>1. PICK x \in 0..n : x \notin P
    BY <1>0, Zenon
  <2>2. \A y \in 0..n : y \in Nat
    OBVIOUS
  <2> QED BY <2>1, <2>2, Zenon
<1>2. PICK m \in Bad : \A y \in Bad : ~(<<y, m>> \in OpToRel(<, Nat))
  BY <1>1, WFMin, NatLessThanWellFounded
<1>3. \A y \in Bad : ~(y < m)
  BY <1>1, <1>2 DEF OpToRel
<1>4. m \in 1..n
  OBVIOUS
<1>5. m - 1 \in 0..n /\ m - 1 \notin P
  BY <1>4
<1>6. m - 1 < m
  BY <1>4
<1> QED BY <1>3, <1>5, <1>6

\* The last place of a set of places.
LEMMA MaxOf ==
  ASSUME NEW m \in Nat, NEW s \in SUBSET (1..m), m \in s
  PROVE  Max(s) = m
<1>1. \A x \in s : x \in Nat /\ m >= x
  OBVIOUS
<1>2. Max(s) \in s /\ Max(s) >= m
  BY <1>1 DEF Max
<1>3. Max(s) \in Nat /\ m >= Max(s)
  BY <1>1, <1>2
<1> QED BY <1>2, <1>3

LEMMA LastIsIn ==
  ASSUME NEW n \in Nat, NEW s \in SUBSET (1..n), s # {}
  PROVE  Max(s) \in s
<1> DEFINE Bounds == {x \in Nat : \A y \in s : y <= x}
<1>1. Bounds \subseteq Nat /\ n \in Bounds
  OBVIOUS
<1>2. PICK m \in Bounds : \A y \in Bounds : ~(<<y, m>> \in OpToRel(<, Nat))
  BY <1>1, WFMin, NatLessThanWellFounded
<1>3. \A y \in Bounds : ~(y < m)
  BY <1>1, <1>2 DEF OpToRel
<1>4. m \in Nat /\ \A y \in s : y \in Nat \ {0} /\ y <= m
  OBVIOUS
<1>5. m \in s
  <2> SUFFICES ASSUME m \notin s PROVE FALSE
    OBVIOUS
  <2>1. \A y \in s : y <= m - 1
    BY <1>4
  <2>2. m - 1 \in Nat
    <3>1. PICK y \in s : TRUE
      OBVIOUS
    <3> QED BY <1>4, <3>1
  <2>3. m - 1 \in Bounds
    BY <2>1, <2>2
  <2> QED BY <1>3, <1>4, <2>3
<1>6. \A y \in s : m >= y
  BY <1>4
<1> QED BY <1>5, <1>6 DEF Max

\* g is the fold of F over the sets of the first m places.
IsFold(g, m, base, F) == \A s \in SUBSET (1..m) :
  g[s] = IF s = {} THEN base ELSE F[<<g[s \ {Max(s)}], Max(s)>>]

\* A fold that stays in X exists.
LEMMA FoldExists ==
  ASSUME NEW n \in Nat, NEW X, NEW base \in X, NEW F \in [X \X (1..n) -> X]
  PROVE  \E g \in [SUBSET (1..n) -> X] : IsFold(g, n, base, F)
<1> DEFINE P == {m \in 0..n : \E g \in [SUBSET (1..m) -> X] : IsFold(g, m, base, F)}
<1>1. 0 \in P
  <2> DEFINE g == [s \in SUBSET (1..0) |-> base]
  <2>1. \A s \in SUBSET (1..0) : s = {}
    OBVIOUS
  <2>2. g \in [SUBSET (1..0) -> X] /\ IsFold(g, 0, base, F)
    BY <2>1 DEF IsFold
  <2>3. 0 \in 0..n
    OBVIOUS
  <2>4. \E f \in [SUBSET (1..0) -> X] : IsFold(f, 0, base, F)
    BY <2>2
  <2> QED BY <2>3, <2>4, Zenon
<1>2. ASSUME NEW m \in 1..n, m - 1 \in P PROVE m \in P
  <2>1. PICK h \in [SUBSET (1..(m - 1)) -> X] : IsFold(h, m - 1, base, F)
    BY <1>2
  <2> DEFINE g == [s \in SUBSET (1..m) |-> IF m \in s THEN F[<<h[s \ {m}], m>>] ELSE h[s]]
  <2>2. \A s \in SUBSET (1..m) : s \ {m} \in SUBSET (1..(m - 1)) /\ (m \notin s => s \in SUBSET (1..(m - 1)))
    OBVIOUS
  <2>3. g \in [SUBSET (1..m) -> X]
    <3>1. ASSUME NEW s \in SUBSET (1..m) PROVE g[s] \in X
      BY <2>2
    <3> QED BY <3>1
  <2>4. ASSUME NEW s \in SUBSET (1..m)
        PROVE  g[s] = IF s = {} THEN base ELSE F[<<g[s \ {Max(s)}], Max(s)>>]
    <3>1. CASE m \in s
      <4>1. Max(s) = m
        BY <3>1, MaxOf
      <4>2. s \ {m} \in SUBSET (1..m) /\ g[s \ {m}] = h[s \ {m}]
        BY <2>2
      <4> QED BY <3>1, <4>1, <4>2
    <3>2. CASE m \notin s /\ s = {}
      <4>1. g[s] = h[s] /\ h[s] = base
        BY <2>1, <2>2, <3>2 DEF IsFold
      <4> QED BY <3>2, <4>1
    <3>3. CASE m \notin s /\ s # {}
      <4>1. PICK k : k = Max(s)
        OBVIOUS
      <4>2. g[s] = h[s] /\ h[s] = F[<<h[s \ {k}], k>>]
        BY <2>1, <2>2, <3>3, <4>1 DEF IsFold
      <4>3. s \ {k} \in SUBSET (1..m) /\ m \notin s \ {k} /\ g[s \ {k}] = h[s \ {k}]
        BY <3>3
      <4> QED BY <3>3, <4>1, <4>2, <4>3
    <3> QED BY <3>1, <3>2, <3>3
  <2>5. IsFold(g, m, base, F)
    BY <2>4 DEF IsFold
  <2> HIDE DEF g
  <2> QED BY <2>3, <2>5
<1> HIDE DEF P
<1>3. P = 0..n
  <2>1. P \in SUBSET (0..n)
    BY DEF P
  <2> QED BY <1>1, <1>2, <2>1, UpTo
<1>4. n \in P
  BY <1>3
<1> QED BY <1>4 DEF P

\* g makes the steps of the fold as long as it stays in X.
Follows(g, n, X, base, F) ==
  /\ g[{}] = base
  /\ \A s \in SUBSET (1..n) : s # {} /\ g[s \ {Max(s)}] \in X =>
       g[s] = F[<<g[s \ {Max(s)}], Max(s)>>]

\* The values of the fold, place by place.
Runs(r, n, base, F, last) ==
  r[0] = base /\ r[n] = last /\ \A i \in 1..n : r[i] = F[<<r[i - 1], i>>]

LEMMA FoldRuns ==
  ASSUME NEW n \in Nat, NEW X, NEW base \in X, NEW F \in [X \X (1..n) -> X], NEW iter,
         Follows(iter, n, X, base, F)
  PROVE  \E r \in [0..n -> X] : Runs(r, n, base, F, iter[1..n])
<1> USE DEF Follows
<1> DEFINE P == {i \in 0..n : iter[1..i] \in X}
<1>1. ASSUME NEW i \in 1..n
      PROVE  /\ 1..i \in SUBSET (1..n) /\ 1..i # {} /\ Max(1..i) = i /\ (1..i) \ {i} = 1..(i - 1)
             /\ i \in 0..n /\ i - 1 \in 0..n
  <2>1. i \in Nat /\ 1..i \in SUBSET (1..i) /\ i \in 1..i
    OBVIOUS
  <2>2. Max(1..i) = i
    BY <2>1, MaxOf
  <2>3. \A x : x \in (1..i) \ {i} <=> x \in 1..(i - 1)
    OBVIOUS
  <2>4. (1..i) \ {i} = 1..(i - 1)
    BY <2>3
  <2>5. 1..i \subseteq 1..n /\ i \in 0..n /\ i - 1 \in 0..n
    OBVIOUS
  <2>6. 1..i # {}
    BY <2>1
  <2> QED BY <2>2, <2>4, <2>5, <2>6
<1>2. ASSUME NEW i \in 1..n, iter[1..(i - 1)] \in X
      PROVE  iter[1..i] = F[<<iter[1..(i - 1)], i>>] /\ iter[1..i] \in X
  <2>1. iter[1..i] = F[<<iter[1..(i - 1)], i>>]
    BY <1>1, <1>2
  <2>2. <<iter[1..(i - 1)], i>> \in X \X (1..n)
    BY <1>2
  <2> QED BY <2>1, <2>2
<1>3. 1..0 = {} /\ 0 \in 0..n
  OBVIOUS
<1>4. 0 \in P
  BY <1>3
<1>5. ASSUME NEW i \in 1..n, i - 1 \in P PROVE i \in P
  BY <1>1, <1>2, <1>5
<1>6. P = 0..n
  <2>1. P \in SUBSET (0..n)
    OBVIOUS
  <2> HIDE DEF P
  <2> QED BY <1>4, <1>5, <2>1, UpTo
<1>7. \A i \in 0..n : iter[1..i] \in X
  BY <1>6
<1> DEFINE r == [i \in 0..n |-> iter[1..i]]
<1>8. r \in [0..n -> X] /\ n \in 0..n
  BY <1>7
<1>9. r[0] = base /\ r[n] = iter[1..n]
  BY <1>3, <1>8
<1>10. ASSUME NEW i \in 1..n PROVE r[i] = F[<<r[i - 1], i>>]
  BY <1>1, <1>2, <1>7
<1> HIDE DEF r
<1> QED BY <1>8, <1>9, <1>10 DEF Runs

\* One place of each loop of the router.
CollectStep(kept, t, S) == IF t \in S THEN Append(kept, t) ELSE kept
TakeStep(found, t, strict) == IF ~t.isPreferred /\ strict /\ found # <<>> THEN found ELSE Append(found, t)
LeastStep(best, t, counts) == IF counts[t.id] < counts[best.id] THEN t ELSE best
ScanStep(s, t, better) ==
  IF <<t, s.best>> \in better THEN [best |-> t, fallbacks |-> Append(s.fallbacks, s.best)]
  ELSE [best |-> s.best, fallbacks |-> Append(s.fallbacks, t)]

OnlyRun(r, list, S) ==
  /\ ToSet(r[0]) = {} /\ r[Len(list)] = Only(list, S)
  /\ \A i \in 1..Len(list) : r[i] = CollectStep(r[i - 1], list[i], S)

LEMMA OnlyRuns ==
  ASSUME NEW T, NEW list \in Seq(T), NEW S
  PROVE  \E r \in [0..Len(list) -> Seq(T)] : OnlyRun(r, list, S)
<1> DEFINE n == Len(list)
           F == [p \in Seq(T) \X (1..n) |-> CollectStep(p[1], list[p[2]], S)]
           Unfold(f, s) == IF s = {} THEN <<>>
                         ELSE CollectStep(f[s \ {Max(s)}], list[Max(s)], S)
           iter == CHOOSE f : f = [s \in SUBSET DOMAIN list |-> Unfold(f, s)]
<1>1. Only(list, S) = iter[DOMAIN list]
  BY DEF Only, CollectStep, FoldLeft, MapThenFoldSet
<1>2. n \in Nat /\ DOMAIN list = 1..n /\ <<>> \in Seq(T) /\ \A i \in 1..n : list[i] \in T
  OBVIOUS
<1>3. \A acc \in Seq(T), t \in T : CollectStep(acc, t, S) \in Seq(T)
  BY DEF CollectStep
<1> HIDE DEF iter, n
<1>4. F \in [Seq(T) \X (1..n) -> Seq(T)]
  BY <1>2, <1>3
<1>5. PICK g \in [SUBSET (1..n) -> Seq(T)] : IsFold(g, n, <<>>, F)
  <2> HIDE DEF F
  <2> QED BY <1>2, <1>4, FoldExists
<1>6. g = [s \in SUBSET DOMAIN list |-> Unfold(g, s)]
  <2>1. ASSUME NEW s \in SUBSET (1..n) PROVE g[s] = Unfold(g, s)
    <3>1. CASE s = {}
      BY <1>5, <3>1 DEF IsFold
    <3>2. CASE s # {}
      <4>1. PICK k : k = Max(s)
        OBVIOUS
      <4>2. k \in s
        BY <1>2, <3>2, <4>1, LastIsIn
      <4>3. g[s] = F[<<g[s \ {k}], k>>] /\ g[s \ {k}] \in Seq(T) /\ k \in 1..n
        BY <1>5, <3>2, <4>1, <4>2 DEF IsFold
      <4>4. F[<<g[s \ {k}], k>>] = CollectStep(g[s \ {k}], list[k], S)
        BY <4>3
      <4> QED BY <3>2, <4>1, <4>3, <4>4
    <3> QED BY <3>1, <3>2
  <2> HIDE DEF Unfold
  <2> QED BY <1>2, <2>1
<1>7. iter = [s \in SUBSET DOMAIN list |-> Unfold(iter, s)]
  <2> HIDE DEF Unfold
  <2> QED BY <1>6 DEF iter
<1>8. \A s \in SUBSET (1..n) : iter[s] = Unfold(iter, s)
  <2> HIDE DEF Unfold
  <2> QED BY <1>2, <1>7
<1>9. Follows(iter, n, Seq(T), <<>>, F)
  <2>1. iter[{}] = <<>>
    BY <1>8
  <2>2. ASSUME NEW s \in SUBSET (1..n), s # {}, iter[s \ {Max(s)}] \in Seq(T)
        PROVE  iter[s] = F[<<iter[s \ {Max(s)}], Max(s)>>]
    BY <1>2, <1>8, <2>2, LastIsIn
  <2> HIDE DEF F, Unfold
  <2> QED BY <2>1, <2>2 DEF Follows
<1>10. PICK r \in [0..n -> Seq(T)] : Runs(r, n, <<>>, F, iter[1..n])
  <2> HIDE DEF F, Unfold
  <2>1. n \in Nat /\ <<>> \in Seq(T)
    BY <1>2
  <2> QED BY <1>4, <1>9, <2>1, FoldRuns
<1>11. ASSUME NEW i \in 1..n PROVE r[i] = CollectStep(r[i - 1], list[i], S)
  <2>1. <<r[i - 1], i>> \in Seq(T) \X (1..n)
    BY <1>2, <1>10
  <2>2. r[i] = F[<<r[i - 1], i>>]
    BY <1>10 DEF Runs
  <2> QED BY <2>1, <2>2
<1>12. ToSet(r[0]) = {} /\ r[n] = Only(list, S)
  BY <1>1, <1>2, <1>10 DEF Runs, ToSet
<1> HIDE DEF F, Unfold
<1> QED BY <1>10, <1>11, <1>12 DEF n, OnlyRun

TakenRun(r, list, strict) ==
  /\ ToSet(r[0]) = {} /\ r[Len(list)] = Taken(list, strict)
  /\ \A i \in 1..Len(list) : r[i] = TakeStep(r[i - 1], list[i], strict)

LEMMA TakenRuns ==
  ASSUME NEW T, NEW list \in Seq(T), NEW strict
  PROVE  \E r \in [0..Len(list) -> Seq(T)] : TakenRun(r, list, strict)
<1> DEFINE n == Len(list)
           F == [p \in Seq(T) \X (1..n) |-> TakeStep(p[1], list[p[2]], strict)]
           Unfold(f, s) == IF s = {} THEN <<>>
                         ELSE TakeStep(f[s \ {Max(s)}], list[Max(s)], strict)
           iter == CHOOSE f : f = [s \in SUBSET DOMAIN list |-> Unfold(f, s)]
<1>1. Taken(list, strict) = iter[DOMAIN list]
  BY DEF Taken, TakeStep, FoldLeft, MapThenFoldSet
<1>2. n \in Nat /\ DOMAIN list = 1..n /\ <<>> \in Seq(T) /\ \A i \in 1..n : list[i] \in T
  OBVIOUS
<1>3. \A acc \in Seq(T), t \in T : TakeStep(acc, t, strict) \in Seq(T)
  BY DEF TakeStep
<1> HIDE DEF iter, n
<1>4. F \in [Seq(T) \X (1..n) -> Seq(T)]
  BY <1>2, <1>3
<1>5. PICK g \in [SUBSET (1..n) -> Seq(T)] : IsFold(g, n, <<>>, F)
  <2> HIDE DEF F
  <2> QED BY <1>2, <1>4, FoldExists
<1>6. g = [s \in SUBSET DOMAIN list |-> Unfold(g, s)]
  <2>1. ASSUME NEW s \in SUBSET (1..n) PROVE g[s] = Unfold(g, s)
    <3>1. CASE s = {}
      BY <1>5, <3>1 DEF IsFold
    <3>2. CASE s # {}
      <4>1. PICK k : k = Max(s)
        OBVIOUS
      <4>2. k \in s
        BY <1>2, <3>2, <4>1, LastIsIn
      <4>3. g[s] = F[<<g[s \ {k}], k>>] /\ g[s \ {k}] \in Seq(T) /\ k \in 1..n
        BY <1>5, <3>2, <4>1, <4>2 DEF IsFold
      <4>4. F[<<g[s \ {k}], k>>] = TakeStep(g[s \ {k}], list[k], strict)
        BY <4>3
      <4> QED BY <3>2, <4>1, <4>3, <4>4
    <3> QED BY <3>1, <3>2
  <2> HIDE DEF Unfold
  <2> QED BY <1>2, <2>1
<1>7. iter = [s \in SUBSET DOMAIN list |-> Unfold(iter, s)]
  <2> HIDE DEF Unfold
  <2> QED BY <1>6 DEF iter
<1>8. \A s \in SUBSET (1..n) : iter[s] = Unfold(iter, s)
  <2> HIDE DEF Unfold
  <2> QED BY <1>2, <1>7
<1>9. Follows(iter, n, Seq(T), <<>>, F)
  <2>1. iter[{}] = <<>>
    BY <1>8
  <2>2. ASSUME NEW s \in SUBSET (1..n), s # {}, iter[s \ {Max(s)}] \in Seq(T)
        PROVE  iter[s] = F[<<iter[s \ {Max(s)}], Max(s)>>]
    BY <1>2, <1>8, <2>2, LastIsIn
  <2> HIDE DEF F, Unfold
  <2> QED BY <2>1, <2>2 DEF Follows
<1>10. PICK r \in [0..n -> Seq(T)] : Runs(r, n, <<>>, F, iter[1..n])
  <2> HIDE DEF F, Unfold
  <2>1. n \in Nat /\ <<>> \in Seq(T)
    BY <1>2
  <2> QED BY <1>4, <1>9, <2>1, FoldRuns
<1>11. ASSUME NEW i \in 1..n PROVE r[i] = TakeStep(r[i - 1], list[i], strict)
  <2>1. <<r[i - 1], i>> \in Seq(T) \X (1..n)
    BY <1>2, <1>10
  <2>2. r[i] = F[<<r[i - 1], i>>]
    BY <1>10 DEF Runs
  <2> QED BY <2>1, <2>2
<1>12. ToSet(r[0]) = {} /\ r[n] = Taken(list, strict)
  BY <1>1, <1>2, <1>10 DEF Runs, ToSet
<1> HIDE DEF F, Unfold
<1> QED BY <1>10, <1>11, <1>12 DEF n, TakenRun

LeastRun(r, list, counts) ==
  /\ r[0] = Head(list) /\ r[Len(list)] = LeastUsed(list, counts)
  /\ \A i \in 1..Len(list) : r[i] = LeastStep(r[i - 1], list[i], counts)

LEMMA LeastRuns ==
  ASSUME NEW T, NEW list \in Seq(T), NEW counts, list # <<>>
  PROVE  \E r \in [0..Len(list) -> T] : LeastRun(r, list, counts)
<1> DEFINE n == Len(list)
           F == [p \in T \X (1..n) |-> LeastStep(p[1], list[p[2]], counts)]
           Unfold(f, s) == IF s = {} THEN Head(list)
                         ELSE LeastStep(f[s \ {Max(s)}], list[Max(s)], counts)
           iter == CHOOSE f : f = [s \in SUBSET DOMAIN list |-> Unfold(f, s)]
<1>1. LeastUsed(list, counts) = iter[DOMAIN list]
  BY DEF LeastUsed, LeastStep, FoldLeft, MapThenFoldSet
<1>2. n \in Nat /\ DOMAIN list = 1..n /\ Head(list) \in T /\ \A i \in 1..n : list[i] \in T
  OBVIOUS
<1>3. \A acc \in T, t \in T : LeastStep(acc, t, counts) \in T
  BY DEF LeastStep
<1> HIDE DEF iter, n
<1>4. F \in [T \X (1..n) -> T]
  BY <1>2, <1>3
<1>5. PICK g \in [SUBSET (1..n) -> T] : IsFold(g, n, Head(list), F)
  <2> HIDE DEF F
  <2> QED BY <1>2, <1>4, FoldExists
<1>6. g = [s \in SUBSET DOMAIN list |-> Unfold(g, s)]
  <2>1. ASSUME NEW s \in SUBSET (1..n) PROVE g[s] = Unfold(g, s)
    <3>1. CASE s = {}
      BY <1>5, <3>1 DEF IsFold
    <3>2. CASE s # {}
      <4>1. PICK k : k = Max(s)
        OBVIOUS
      <4>2. k \in s
        BY <1>2, <3>2, <4>1, LastIsIn
      <4>3. g[s] = F[<<g[s \ {k}], k>>] /\ g[s \ {k}] \in T /\ k \in 1..n
        BY <1>5, <3>2, <4>1, <4>2 DEF IsFold
      <4>4. F[<<g[s \ {k}], k>>] = LeastStep(g[s \ {k}], list[k], counts)
        BY <4>3
      <4> QED BY <3>2, <4>1, <4>3, <4>4
    <3> QED BY <3>1, <3>2
  <2> HIDE DEF Unfold
  <2> QED BY <1>2, <2>1
<1>7. iter = [s \in SUBSET DOMAIN list |-> Unfold(iter, s)]
  <2> HIDE DEF Unfold
  <2> QED BY <1>6 DEF iter
<1>8. \A s \in SUBSET (1..n) : iter[s] = Unfold(iter, s)
  <2> HIDE DEF Unfold
  <2> QED BY <1>2, <1>7
<1>9. Follows(iter, n, T, Head(list), F)
  <2>1. iter[{}] = Head(list)
    BY <1>8
  <2>2. ASSUME NEW s \in SUBSET (1..n), s # {}, iter[s \ {Max(s)}] \in T
        PROVE  iter[s] = F[<<iter[s \ {Max(s)}], Max(s)>>]
    BY <1>2, <1>8, <2>2, LastIsIn
  <2> HIDE DEF F, Unfold
  <2> QED BY <2>1, <2>2 DEF Follows
<1>10. PICK r \in [0..n -> T] : Runs(r, n, Head(list), F, iter[1..n])
  <2> HIDE DEF F, Unfold
  <2>1. n \in Nat /\ Head(list) \in T
    BY <1>2
  <2> QED BY <1>4, <1>9, <2>1, FoldRuns
<1>11. ASSUME NEW i \in 1..n PROVE r[i] = LeastStep(r[i - 1], list[i], counts)
  <2>1. <<r[i - 1], i>> \in T \X (1..n)
    BY <1>2, <1>10
  <2>2. r[i] = F[<<r[i - 1], i>>]
    BY <1>10 DEF Runs
  <2> QED BY <2>1, <2>2
<1>12. r[0] = Head(list) /\ r[n] = LeastUsed(list, counts)
  BY <1>1, <1>2, <1>10 DEF Runs, ToSet
<1> HIDE DEF F, Unfold
<1> QED BY <1>10, <1>11, <1>12 DEF n, LeastRun

ScanRun(r, list, better) ==
  /\ r[0] = [best |-> Head(list), fallbacks |-> <<>>] /\ r[Len(list)] = Scan(list, better)
  /\ \A i \in 1..Len(list) : r[i] = ScanStep(r[i - 1], list[i], better)

LEMMA ScanRuns ==
  ASSUME NEW T, NEW list \in Seq(T), NEW better, list # <<>>
  PROVE  \E r \in [0..Len(list) -> [best : T, fallbacks : Seq(T)]] : ScanRun(r, list, better)
<1> DEFINE n == Len(list)
           F == [p \in [best : T, fallbacks : Seq(T)] \X (1..n) |-> ScanStep(p[1], list[p[2]], better)]
           Unfold(f, s) == IF s = {} THEN [best |-> Head(list), fallbacks |-> <<>>]
                         ELSE ScanStep(f[s \ {Max(s)}], list[Max(s)], better)
           iter == CHOOSE f : f = [s \in SUBSET DOMAIN list |-> Unfold(f, s)]
<1>1. Scan(list, better) = iter[DOMAIN list]
  BY DEF Scan, ScanStep, FoldLeft, MapThenFoldSet
<1>2. n \in Nat /\ DOMAIN list = 1..n /\ [best |-> Head(list), fallbacks |-> <<>>] \in [best : T, fallbacks : Seq(T)] /\ \A i \in 1..n : list[i] \in T
  OBVIOUS
<1>3. \A acc \in [best : T, fallbacks : Seq(T)], t \in T : ScanStep(acc, t, better) \in [best : T, fallbacks : Seq(T)]
  BY DEF ScanStep
<1> HIDE DEF iter, n
<1>4. F \in [[best : T, fallbacks : Seq(T)] \X (1..n) -> [best : T, fallbacks : Seq(T)]]
  BY <1>2, <1>3
<1>5. PICK g \in [SUBSET (1..n) -> [best : T, fallbacks : Seq(T)]] : IsFold(g, n, [best |-> Head(list), fallbacks |-> <<>>], F)
  <2> HIDE DEF F
  <2> QED BY <1>2, <1>4, FoldExists
<1>6. g = [s \in SUBSET DOMAIN list |-> Unfold(g, s)]
  <2>1. ASSUME NEW s \in SUBSET (1..n) PROVE g[s] = Unfold(g, s)
    <3>1. CASE s = {}
      BY <1>5, <3>1 DEF IsFold
    <3>2. CASE s # {}
      <4>1. PICK k : k = Max(s)
        OBVIOUS
      <4>2. k \in s
        BY <1>2, <3>2, <4>1, LastIsIn
      <4>3. g[s] = F[<<g[s \ {k}], k>>] /\ g[s \ {k}] \in [best : T, fallbacks : Seq(T)] /\ k \in 1..n
        BY <1>5, <3>2, <4>1, <4>2 DEF IsFold
      <4>4. F[<<g[s \ {k}], k>>] = ScanStep(g[s \ {k}], list[k], better)
        BY <4>3
      <4> QED BY <3>2, <4>1, <4>3, <4>4
    <3> QED BY <3>1, <3>2
  <2> HIDE DEF Unfold
  <2> QED BY <1>2, <2>1
<1>7. iter = [s \in SUBSET DOMAIN list |-> Unfold(iter, s)]
  <2> HIDE DEF Unfold
  <2> QED BY <1>6 DEF iter
<1>8. \A s \in SUBSET (1..n) : iter[s] = Unfold(iter, s)
  <2> HIDE DEF Unfold
  <2> QED BY <1>2, <1>7
<1>9. Follows(iter, n, [best : T, fallbacks : Seq(T)], [best |-> Head(list), fallbacks |-> <<>>], F)
  <2>1. iter[{}] = [best |-> Head(list), fallbacks |-> <<>>]
    BY <1>8
  <2>2. ASSUME NEW s \in SUBSET (1..n), s # {}, iter[s \ {Max(s)}] \in [best : T, fallbacks : Seq(T)]
        PROVE  iter[s] = F[<<iter[s \ {Max(s)}], Max(s)>>]
    BY <1>2, <1>8, <2>2, LastIsIn
  <2> HIDE DEF F, Unfold
  <2> QED BY <2>1, <2>2 DEF Follows
<1>10. PICK r \in [0..n -> [best : T, fallbacks : Seq(T)]] : Runs(r, n, [best |-> Head(list), fallbacks |-> <<>>], F, iter[1..n])
  <2> HIDE DEF F, Unfold
  <2>1. n \in Nat /\ [best |-> Head(list), fallbacks |-> <<>>] \in [best : T, fallbacks : Seq(T)]
    BY <1>2
  <2> QED BY <1>4, <1>9, <2>1, FoldRuns
<1>11. ASSUME NEW i \in 1..n PROVE r[i] = ScanStep(r[i - 1], list[i], better)
  <2>1. <<r[i - 1], i>> \in [best : T, fallbacks : Seq(T)] \X (1..n)
    BY <1>2, <1>10
  <2>2. r[i] = F[<<r[i - 1], i>>]
    BY <1>10 DEF Runs
  <2> QED BY <2>1, <2>2
<1>12. r[0] = [best |-> Head(list), fallbacks |-> <<>>] /\ r[n] = Scan(list, better)
  BY <1>1, <1>2, <1>10 DEF Runs, ToSet
<1> HIDE DEF F, Unfold
<1> QED BY <1>10, <1>11, <1>12 DEF n, ScanRun

\* What the folds of the router compute.
LEMMA EmptyAndAppended ==
  ASSUME NEW T, NEW s \in Seq(T), NEW t \in T
  PROVE  ToSet(<<>>) = {} /\ ToSet(Append(s, t)) = ToSet(s) \cup {t}
<1>1. ToSet(<<>>) = {}
  BY DEF ToSet
<1>2. /\ DOMAIN Append(s, t) = 1..(Len(s) + 1) /\ DOMAIN s = 1..Len(s) /\ Len(s) \in Nat
      /\ \A i \in 1..Len(s) : Append(s, t)[i] = s[i]
      /\ Append(s, t)[Len(s) + 1] = t
  OBVIOUS
<1>3. ASSUME NEW x \in ToSet(Append(s, t)) PROVE x \in ToSet(s) \cup {t}
  BY <1>2 DEF ToSet
<1>4. ASSUME NEW x \in ToSet(s) \cup {t} PROVE x \in ToSet(Append(s, t))
  BY <1>2 DEF ToSet
<1> QED BY <1>1, <1>3, <1>4

LEMMA OnlyIs ==
  ASSUME NEW T, NEW list \in Seq(T), NEW S
  PROVE  Only(list, S) \in Seq(T) /\ ToSet(Only(list, S)) = ToSet(list) \cap S
<1>0. PICK r \in [0..Len(list) -> Seq(T)] : OnlyRun(r, list, S)
  BY OnlyRuns
<1>1. /\ ToSet(r[0]) = {} /\ r[Len(list)] = Only(list, S)
      /\ \A i \in 1..Len(list) :
           r[i] = CollectStep(r[i - 1], list[i], S)
  BY <1>0 DEF OnlyRun
<1> DEFINE Seen(i) == {list[j] : j \in 1..i}
           P == {i \in 0..Len(list) : ToSet(r[i]) = Seen(i) \cap S}
<1>2. Len(list) \in Nat /\ \A i \in 1..Len(list) : list[i] \in T /\ i - 1 \in 0..Len(list) /\ i \in 0..Len(list)
  OBVIOUS
<1>3. 0 \in P
  <2>1. Seen(0) = {} /\ 0 \in 0..Len(list)
    BY <1>2
  <2> HIDE DEF Seen
  <2> QED BY <1>1, <2>1, EmptyAndAppended DEF ToSet
<1>4. ASSUME NEW i \in 1..Len(list), i - 1 \in P PROVE i \in P
  <2>1. Seen(i) = Seen(i - 1) \cup {list[i]}
    BY <1>2
  <2>2. ToSet(r[i - 1]) = Seen(i - 1) \cap S /\ r[i - 1] \in Seq(T)
    BY <1>2, <1>4
  <2>3. ToSet(Append(r[i - 1], list[i])) = ToSet(r[i - 1]) \cup {list[i]}
    BY <1>2, <2>2, EmptyAndAppended
  <2>4. r[i] = IF list[i] \in S THEN Append(r[i - 1], list[i]) ELSE r[i - 1]
    BY <1>1 DEF CollectStep
  <2> HIDE DEF Seen
  <2>5. ToSet(r[i]) = Seen(i) \cap S
    BY <2>1, <2>2, <2>3, <2>4
  <2> QED BY <1>2, <2>5
<1>5. P = 0..Len(list)
  <2>1. P \in SUBSET (0..Len(list))
    OBVIOUS
  <2> HIDE DEF P
  <2> QED BY <1>2, <1>3, <1>4, <2>1, UpTo
<1>6. Len(list) \in P
  <2> HIDE DEF P
  <2> QED BY <1>2, <1>5
<1>7. Seen(Len(list)) = ToSet(list)
  BY DEF ToSet
<1> HIDE DEF Seen
<1> QED BY <1>1, <1>2, <1>6, <1>7

LEMMA TakenIs ==
  ASSUME NEW T, NEW list \in Seq(T), NEW strict
  PROVE  Taken(list, strict) \in Seq(T) /\ ToSet(Taken(list, strict)) \subseteq ToSet(list)
<1>0. PICK r \in [0..Len(list) -> Seq(T)] : TakenRun(r, list, strict)
  BY TakenRuns
<1>1. /\ ToSet(r[0]) = {} /\ r[Len(list)] = Taken(list, strict)
      /\ \A i \in 1..Len(list) :
           r[i] = TakeStep(r[i - 1], list[i], strict)
  BY <1>0 DEF TakenRun
<1> DEFINE P == {i \in 0..Len(list) : ToSet(r[i]) \subseteq ToSet(list)}
<1>2. Len(list) \in Nat /\ \A i \in 1..Len(list) : list[i] \in T /\ i - 1 \in 0..Len(list) /\ i \in 0..Len(list)
  OBVIOUS
<1>3. 0 \in P
  <2>1. 0 \in 0..Len(list) /\ ToSet(r[0]) \subseteq ToSet(list)
    BY <1>1, <1>2
  <2> QED BY <2>1
<1>4. ASSUME NEW i \in 1..Len(list), i - 1 \in P PROVE i \in P
  <2>1. ToSet(r[i - 1]) \subseteq ToSet(list) /\ r[i - 1] \in Seq(T) /\ list[i] \in ToSet(list)
    <3>1. ToSet(r[i - 1]) \subseteq ToSet(list)
      BY <1>4
    <3>2. r[i - 1] \in Seq(T)
      BY <1>2
    <3>3. list[i] \in ToSet(list)
      BY DEF ToSet
    <3> QED BY <3>1, <3>2, <3>3
  <2>2. ToSet(Append(r[i - 1], list[i])) = ToSet(r[i - 1]) \cup {list[i]}
    BY <1>2, <2>1, EmptyAndAppended
  <2>3. PICK before, all, x : before = ToSet(r[i - 1]) /\ all = ToSet(list) /\ x = list[i]
    OBVIOUS
  <2>4. r[i] = r[i - 1] \/ r[i] = Append(r[i - 1], list[i])
    BY <1>1 DEF TakeStep
  <2>5. ToSet(r[i]) \in {before, before \cup {x}} /\ before \subseteq all /\ x \in all
    <3>1. CASE r[i] = r[i - 1]
      BY <2>1, <2>3, <3>1
    <3>2. CASE r[i] = Append(r[i - 1], list[i])
      BY <2>1, <2>2, <2>3, <3>2
    <3> QED BY <2>4, <3>1, <3>2
  <2>6. ToSet(r[i]) \subseteq all
    BY <2>5
  <2> QED BY <1>2, <2>3, <2>6
<1>5. P = 0..Len(list)
  <2>1. P \in SUBSET (0..Len(list))
    OBVIOUS
  <2> HIDE DEF P
  <2> QED BY <1>2, <1>3, <1>4, <2>1, UpTo
<1>6. Len(list) \in P
  <2> HIDE DEF P
  <2> QED BY <1>2, <1>5
<1> QED BY <1>1, <1>2, <1>6

LEMMA LeastIs ==
  ASSUME NEW T, NEW list \in Seq(T), NEW counts, list # <<>>
  PROVE  LeastUsed(list, counts) \in ToSet(list)
<1> DEFINE L == ToSet(list)
<1>1. list \in Seq(L) /\ Len(list) \in Nat
  BY DEF ToSet
<1>2. PICK r \in [0..Len(list) -> L] : LeastRun(r, list, counts)
  <2> HIDE DEF L
  <2> QED BY <1>1, LeastRuns
<1>3. Len(list) \in 0..Len(list)
  BY <1>1
<1> QED BY <1>2, <1>3 DEF LeastRun

LEMMA ScanIs ==
  ASSUME NEW T, NEW list \in Seq(T), NEW better, list # <<>>
  PROVE  {Scan(list, better).best} \cup ToSet(Scan(list, better).fallbacks) = ToSet(list)
<1> DEFINE X == [best : T, fallbacks : Seq(T)]
<1>0. PICK r \in [0..Len(list) -> X] : ScanRun(r, list, better)
  BY ScanRuns
<1>1. /\ r[0] = [best |-> Head(list), fallbacks |-> <<>>] /\ r[Len(list)] = Scan(list, better)
      /\ \A i \in 1..Len(list) :
           r[i] = ScanStep(r[i - 1], list[i], better)
  BY <1>0 DEF ScanRun
<1> DEFINE Seen(i) == {list[j] : j \in 1..i} \cup {Head(list)}
           Named(s) == {s.best} \cup ToSet(s.fallbacks)
           P == {i \in 0..Len(list) : Named(r[i]) = Seen(i)}
<1>2. Len(list) \in Nat /\ \A i \in 1..Len(list) : list[i] \in T /\ i - 1 \in 0..Len(list) /\ i \in 0..Len(list)
  OBVIOUS
<1>3. 0 \in P
  <2>1. Seen(0) = {Head(list)} /\ 0 \in 0..Len(list) /\ ToSet(<<>>) = {}
    BY <1>2 DEF ToSet
  <2>2. Named(r[0]) = {Head(list)}
    BY <1>1, <2>1
  <2> HIDE DEF Seen, Named
  <2> QED BY <2>1, <2>2
<1>4. ASSUME NEW i \in 1..Len(list), i - 1 \in P PROVE i \in P
  <2>1. Seen(i) = Seen(i - 1) \cup {list[i]}
    BY <1>2
  <2>2. PICK s \in X : s = r[i - 1]
    BY <1>2
  <2>3. Named(s) = Seen(i - 1)
    BY <1>4, <2>2
  <2>4. s.best \in T /\ s.fallbacks \in Seq(T) /\ list[i] \in T
    BY <1>2
  <2>5. /\ ToSet(Append(s.fallbacks, list[i])) = ToSet(s.fallbacks) \cup {list[i]}
        /\ ToSet(Append(s.fallbacks, s.best)) = ToSet(s.fallbacks) \cup {s.best}
    BY <2>4, EmptyAndAppended
  <2>6. \/ r[i] = [best |-> list[i], fallbacks |-> Append(s.fallbacks, s.best)]
        \/ r[i] = [best |-> s.best, fallbacks |-> Append(s.fallbacks, list[i])]
    BY <1>1, <2>2 DEF ScanStep
  <2>7. PICK a, b : a = Append(s.fallbacks, s.best) /\ b = Append(s.fallbacks, list[i])
    OBVIOUS
  <2>8. r[i] = [best |-> list[i], fallbacks |-> a] \/ r[i] = [best |-> s.best, fallbacks |-> b]
    BY <2>6, <2>7
  <2>9. ToSet(a) = ToSet(s.fallbacks) \cup {s.best} /\ ToSet(b) = ToSet(s.fallbacks) \cup {list[i]}
    BY <2>5, <2>7
  <2>10. Named(r[i]) = Named(s) \cup {list[i]}
    BY <2>8, <2>9
  <2> HIDE DEF Seen, Named
  <2>11. Named(r[i]) = Seen(i)
    BY <2>1, <2>3, <2>10
  <2> QED BY <1>2, <2>11
<1>5. P = 0..Len(list)
  <2>1. P \in SUBSET (0..Len(list))
    OBVIOUS
  <2> HIDE DEF P
  <2> QED BY <1>2, <1>3, <1>4, <2>1, UpTo
<1>6. Len(list) \in P
  <2> HIDE DEF P
  <2> QED BY <1>2, <1>5
<1>7. Seen(Len(list)) = ToSet(list)
  BY DEF ToSet
<1> HIDE DEF Seen
<1> QED BY <1>1, <1>2, <1>6, <1>7

-----------------------------------------------------------------------------
(* Request router: eligible targets, selection, decision.                  *)

\* A selection names all of the list and nothing else.
Names(s, list) == {s.best} \cup ToSet(s.fallbacks) = ToSet(list)

LEMMA ConsistencyNames ==
  ASSUME NEW T, NEW list \in Seq(T), list # <<>>
  PROVE  Names(ByConsistency(list), list)
<1>1. CASE Preferred(list) = <<>>
  <2>1. Head(list) \in ToSet(list)
    BY DEF ToSet
  <2>2. ByConsistency(list) = [best |-> Head(list), fallbacks |-> list]
    BY <1>1 DEF ByConsistency
  <2> QED BY <2>1, <2>2 DEF Names
<1>2. CASE Preferred(list) # <<>>
  <2>1. PICK best : best = Head(Preferred(list))
    OBVIOUS
  <2>2. Preferred(list) \in Seq(T) /\ ToSet(Preferred(list)) \subseteq ToSet(list)
    BY OnlyIs DEF Preferred
  <2>3. best \in ToSet(Preferred(list))
    BY <1>2, <2>1, <2>2 DEF ToSet
  <2>4. ToSet(Others(list, best)) = ToSet(list) \ {best}
    BY OnlyIs DEF Others
  <2>5. ByConsistency(list) = [best |-> best, fallbacks |-> Others(list, best)]
    BY <1>2, <2>1 DEF ByConsistency
  <2> QED BY <2>2, <2>3, <2>4, <2>5 DEF Names
<1> QED BY <1>1, <1>2

LEMMA QuerySelectionNames ==
  ASSUME NEW T, NEW list \in Seq(T), list # <<>>, NEW plan
  PROVE  Names(selectQueryTarget(list, plan), list)
<1>1. CASE Len(list) = 1
  <2>1. ToSet(list) = {list[1]} /\ ToSet(<<>>) = {}
    BY <1>1 DEF ToSet
  <2>2. selectQueryTarget(list, plan) = [best |-> list[1], fallbacks |-> <<>>]
    BY <1>1 DEF selectQueryTarget
  <2> QED BY <2>1, <2>2 DEF Names
<1>2. CASE Len(list) # 1
  <2>1. \/ selectQueryTarget(list, plan) = ByAvailability(list)
        \/ selectQueryTarget(list, plan) = ByConsistency(list)
        \/ selectQueryTarget(list, plan) = ByShare(list)
    BY <1>2 DEF selectQueryTarget
  <2>2. Names(ByAvailability(list), list) /\ Names(ByShare(list), list)
    BY ScanIs DEF Names, ByAvailability, ByShare
  <2> QED BY <2>1, <2>2, ConsistencyNames
<1> QED BY <1>1, <1>2

LEMMA WriteSelectionNames ==
  ASSUME NEW T, NEW list \in Seq(T), list # <<>>
  PROVE  Names(selectWriteTarget(list), list)
<1> DEFINE pool == IF Preferred(list) = <<>> THEN list ELSE Preferred(list)
<1>1. PICK best : best = LeastUsed(pool, targetUsageCounts)
  OBVIOUS
<1>2. Preferred(list) \in Seq(T) /\ ToSet(Preferred(list)) \subseteq ToSet(list)
  BY OnlyIs DEF Preferred
<1>3. pool \in Seq(T) /\ pool # <<>> /\ ToSet(pool) \subseteq ToSet(list)
  BY <1>2
<1>4. best \in ToSet(list)
  <2> HIDE DEF pool
  <2> QED BY <1>1, <1>3, LeastIs
<1>5. ToSet(Others(list, best)) = ToSet(list) \ {best}
  BY OnlyIs DEF Others
<1>6. selectWriteTarget(list) = [best |-> best, fallbacks |-> Others(list, best)]
  BY <1>1 DEF selectWriteTarget
<1> QED BY <1>4, <1>5, <1>6 DEF Names

LEMMA QueriesEligible ==
  ASSUME NEW T, NEW list \in Seq(T), NEW req
  PROVE  filterTargetsForQuery(list, req) \in Seq(T)
  BY OnlyIs DEF filterTargetsForQuery, Hinted

LEMMA WritesEligible ==
  ASSUME NEW T, NEW list \in Seq(T), NEW req
  PROVE  /\ filterTargetsForWrite(list, req) \in Seq(T)
         /\ \A t \in ToSet(filterTargetsForWrite(list, req)) : ~t.isReadOnly
<1>1. PICK writable : writable = Writable(list)
  OBVIOUS
<1>2. writable \in Seq(T) /\ \A t \in ToSet(writable) : ~t.isReadOnly
  BY <1>1, OnlyIs DEF Writable
<1>3. Hinted(writable, req.hint) \in Seq(T) /\ ToSet(Hinted(writable, req.hint)) \subseteq ToSet(writable)
  BY <1>2, OnlyIs DEF Hinted
<1>4. /\ Taken(writable, req.consistency = "strict") \in Seq(T)
      /\ ToSet(Taken(writable, req.consistency = "strict")) \subseteq ToSet(writable)
  BY <1>2, TakenIs
<1>5. \/ filterTargetsForWrite(list, req) = Hinted(writable, req.hint)
      \/ filterTargetsForWrite(list, req) = Taken(writable, req.consistency = "strict")
  BY <1>1 DEF filterTargetsForWrite
<1> QED BY <1>2, <1>3, <1>4, <1>5

Serves(d) ==
  d # NoDecision =>
    /\ d.eligible = {d.target} \cup ToSet(d.fallbacks)
    /\ d.kind = "write" => \A t \in d.eligible : ~t.isReadOnly

LEMMA DecisionServes ==
  ASSUME NEW T, NEW list \in Seq(T), NEW req \in QueryRequests \cup WriteRequests,
         Eligible(list, req) # <<>>
  PROVE  Serves(Decide(list, req))
<1>1. req.kind \in {"query", "write"}
  BY DEF QueryRequests, WriteRequests
<1>2. PICK eligible : eligible = Eligible(list, req)
  OBVIOUS
<1>3. eligible # <<>>
  BY <1>2
<1>4. CASE req.kind = "query"
  <2>1. PICK s : s = selectQueryTarget(eligible, determineQueryRoutingStrategy(req))
    OBVIOUS
  <2>2. eligible \in Seq(T)
    BY <1>2, <1>4, QueriesEligible DEF Eligible
  <2>3. Names(s, eligible)
    BY <1>3, <2>1, <2>2, QuerySelectionNames
  <2>4. Decide(list, req) = [kind |-> "query", target |-> s.best, fallbacks |-> s.fallbacks,
                             eligible |-> ToSet(eligible)]
    BY <1>2, <1>4, <2>1 DEF Decide
  <2> QED BY <2>3, <2>4 DEF Serves, Names
<1>5. CASE req.kind = "write"
  <2>1. PICK s : s = selectWriteTarget(eligible)
    OBVIOUS
  <2>2. eligible \in Seq(T) /\ \A t \in ToSet(eligible) : ~t.isReadOnly
    BY <1>2, <1>5, WritesEligible DEF Eligible
  <2>3. Names(s, eligible)
    BY <1>3, <2>1, <2>2, WriteSelectionNames
  <2>4. Decide(list, req) = [kind |-> "write", target |-> s.best, fallbacks |-> s.fallbacks,
                             eligible |-> ToSet(eligible)]
    BY <1>2, <1>5, <2>1 DEF Decide
  <2> QED BY <2>2, <2>3, <2>4 DEF Serves, Names
<1> QED BY <1>1, <1>4, <1>5

RouterInv ==
  /\ configured \in Configurations /\ targets \in Configurations
  /\ DOMAIN decisionCache = CacheKeys /\ \A k \in CacheKeys : Serves(decisionCache[k])
  /\ DOMAIN routing = RouteCallers /\ \A c \in RouteCallers : Serves(routing[c].decision)

LEMMA NoDecisionServes == Serves(NoDecision)
  BY DEF Serves

LEMMA RouterInitially == RouterInit => RouterInv
  BY NoDecisionServes DEF RouterInit, RouterInv

LEMMA RouteKeepsRouter == ASSUME RouterInv, NEW c \in RouteCallers, Route(c) PROVE RouterInv'
<1>1. PICK req \in QueryRequests \cup WriteRequests : RouteFromCache(c, req) \/ RouteFromTargets(c, req)
  BY DEF Route
<1>2. UNCHANGED <<configured, targets>>
  BY DEF Route
<1>3. CASE RouteFromCache(c, req)
  BY <1>2, <1>3 DEF RouterInv, RouteFromCache
<1>4. CASE RouteFromTargets(c, req)
  <2>1. PICK healthy, list :
          /\ list = Only(targets, {t \in ToSet(targets) : t.id \in healthy})
          /\ Eligible(list, req) # <<>>
          /\ routing' = [routing EXCEPT ![c] = [key |-> CacheKey(req), decision |-> Decide(list, req)]]
    BY <1>4 DEF RouteFromTargets
  <2>2. PICK T : targets \in Seq(T)
    BY RouterAssumption DEF RouterInv
  <2>3. list \in Seq(T)
    BY <2>1, <2>2, OnlyIs
  <2>4. PICK d : d = Decide(list, req)
    OBVIOUS
  <2>5. Serves(d)
    BY <2>1, <2>3, <2>4, DecisionServes
  <2>6. DOMAIN routing' = RouteCallers /\ routing'[c].decision = d
        /\ \A e \in RouteCallers \ {c} : routing'[e] = routing[e]
    BY <2>1, <2>4 DEF RouterInv
  <2>7. \A e \in RouteCallers : Serves(routing'[e].decision)
    BY <2>5, <2>6 DEF RouterInv
  <2> QED BY <1>2, <1>4, <2>6, <2>7 DEF RouterInv, RouteFromTargets, Serves
<1> QED BY <1>1, <1>3, <1>4

LEMMA CacheDecisionKeepsRouter ==
  ASSUME RouterInv, NEW c \in RouteCallers, CacheDecision(c) PROVE RouterInv'
<1>1. PICK key, d : key = routing[c].key /\ d = routing[c].decision
  OBVIOUS
<1>2. Serves(d)
  BY <1>1 DEF RouterInv
<1>3. decisionCache' = decisionCache \/ decisionCache' = [decisionCache EXCEPT ![key] = d]
  BY <1>1 DEF CacheDecision
<1>4. DOMAIN decisionCache' = CacheKeys /\ \A k \in CacheKeys : Serves(decisionCache'[k])
  BY <1>2, <1>3 DEF RouterInv
<1>5. routing' = [routing EXCEPT ![c] = [key |-> "none", decision |-> NoDecision]]
  BY DEF CacheDecision
<1>6. DOMAIN routing' = RouteCallers /\ \A e \in RouteCallers : Serves(routing'[e].decision)
  BY <1>5, NoDecisionServes DEF RouterInv
<1> QED BY <1>4, <1>6 DEF RouterInv, CacheDecision, Serves

LEMMA RouterNextKeepsRouter == RouterInv /\ RouterNext => RouterInv'
<1> SUFFICES ASSUME RouterInv, RouterNext PROVE RouterInv'
  OBVIOUS
<1>1. ASSUME NEW c \in RouteCallers, Route(c) \/ CacheDecision(c) PROVE RouterInv'
  BY <1>1, RouteKeepsRouter, CacheDecisionKeepsRouter
<1>2. ASSUME NEW k \in CacheKeys, ExpireDecision(k) PROVE RouterInv'
  BY <1>2, NoDecisionServes DEF RouterInv, ExpireDecision, Serves
<1>3. CASE Reconfigure
  BY <1>3 DEF RouterInv, Reconfigure, Serves
<1>4. CASE RefreshTargets
  BY <1>4 DEF RouterInv, RefreshTargets, Serves
<1>5. CASE ClearCache
  BY <1>5, NoDecisionServes DEF RouterInv, ClearCache, Serves
<1> QED BY <1>1, <1>2, <1>3, <1>4, <1>5 DEF RouterNext

LEMMA RouterInvIsEnough == RouterInv => DecisionsMayServe
<1> SUFFICES ASSUME RouterInv, NEW d \in Decisions, d # NoDecision
             PROVE  /\ d.eligible = {d.target} \cup ToSet(d.fallbacks)
                    /\ d.kind = "write" => \A t \in d.eligible : ~t.isReadOnly
  BY DEF DecisionsMayServe
<1>1. Serves(d)
  BY DEF RouterInv, Decisions
<1> QED BY <1>1 DEF Serves

(* A decision names each eligible target and no other, and a write never   *)
(* reaches a read-only one, for any configuration, hint, consistency and   *)
(* strategy, and for decisions that are taken from the cache               *)
(* (core/proxy/router.go).                                                 *)
THEOREM RouterSafety == RequestsSpec => []DecisionsAreSound
<1> DEFINE Inv == part = "router" => RouterInv
<1>1. RequestsInit => Inv
  BY RouterInitially DEF RequestsInit
<1>2. Inv /\ [RequestsNext]_requestsVars => Inv'
  <2> SUFFICES ASSUME Inv, [RequestsNext]_requestsVars, part' = "router" PROVE RouterInv'
    OBVIOUS
  <2>1. part = "router" /\ RouterInv /\ (RouterNext \/ UNCHANGED routerVars)
    BY DEF RequestsNext, requestsVars
  <2>2. CASE UNCHANGED routerVars
    BY <2>1, <2>2 DEF routerVars, RouterInv, Serves
  <2> QED BY <2>1, <2>2, RouterNextKeepsRouter
<1>3. Inv => DecisionsAreSound
  BY RouterInvIsEnough DEF DecisionsAreSound
<1> QED BY <1>1, <1>2, <1>3, PTL DEF RequestsSpec

-----------------------------------------------------------------------------
(* The Pulsar consumer: its type invariant, in four parts.                 *)

LifeType ==
  /\ state \in ConsumerState /\ stateLock \in Callers \cup {None}
  /\ health \in [state : ConsumerState, healthy : BOOLEAN]
  /\ ticker \in {"off", "idle", "locked"}

FlagType ==
  /\ opts \in Options
  /\ paused \in BOOLEAN /\ stopped \in BOOLEAN /\ subscribed \in BOOLEAN
  /\ registered \in BOOLEAN /\ panicked \in BOOLEAN

CallType == call \in [Callers -> CallRecord]
WorkType == work \in [Workers -> WorkRecord]

\* A copy waits in the channel only after the broker has pushed it.
MsgType ==
  /\ pending \subseteq Messages /\ pendingCount \in Int
  /\ queued \in [Messages -> 0..MaxDeliveries] /\ sent \in [Messages -> 0..MaxDeliveries]
  /\ \A m \in Messages : queued[m] <= sent[m]
  /\ handled \subseteq Messages /\ acked \subseteq Messages

\* What a goroutine settles is a message, and what it acknowledges was handled.
InHand ==
  /\ \A c \in Callers : call[c].op \in {"ack", "ackID", "nack"} => call[c].msg \in handled
  /\ \A w \in Workers : Engaged(w) => work[w].msg \in Messages
  /\ \A w \in Workers : work[w].at \in {"ack", "acking"} => work[w].msg \in handled

IType == LifeType /\ FlagType /\ CallType /\ WorkType /\ MsgType

LEMMA ITypeGivesTypeOK == IType => TypeOK
  BY DEF IType, LifeType, FlagType, CallType, WorkType, MsgType, TypeOK

LEMMA IdleType == Idle \in CallRecord
  BY DEF Idle, CallRecord

LEMMA InitType == Init => IType
<1> SUFFICES ASSUME Init PROVE IType
  OBVIOUS
<1>1. LifeType BY DEF Init, LifeType, ConsumerState
<1>2. FlagType BY DEF Init, FlagType
<1>3. CallType BY IdleType DEF Init, CallType
<1>4. WorkType BY DEF Init, WorkType, WorkRecord, WorkerPoints
<1>5. MsgType BY ConsumerAssumption DEF Init, MsgType
<1>6. QED BY <1>1, <1>2, <1>3, <1>4, <1>5 DEF IType

\* setStateInternal writes a state and its mirror.
LEMMA SetStateType ==
  ASSUME LifeType, NEW c \in Callers, NEW s \in ConsumerState, setStateInternal(c, s)
  PROVE  LifeType'
<1>1. HealthOf(s) \in BOOLEAN BY DEF LifeType, HealthOf
<1>2. QED BY <1>1 DEF LifeType, setStateInternal

LEMMA LockType ==
  ASSUME LifeType, NEW c \in Callers, LockState(c), UNCHANGED <<state, health>>,
         ticker' \in {"off", "idle", "locked"}
  PROVE  LifeType'
  BY DEF LifeType, LockState

LEMMA CallGoto ==
  ASSUME CallType, NEW c \in Callers,
         NEW x \in {"idle", "connecting", "client", "failed", "subscribed", "flag", "locked",
                    "spawn", "send", "drop", "start", "closing", "stop", "wait", "forget",
                    "cleared", "closed"},
         Goto(c, x)
  PROVE  CallType'
  BY DEF CallType, Goto, CallRecord

LEMMA CallReturn ==
  ASSUME CallType, NEW c \in Callers, Return(c)
  PROVE  CallType'
  BY IdleType DEF CallType, Return

LEMMA CallBegin ==
  ASSUME CallType, NEW c \in Callers, NEW m \in Messages \cup {None},
         NEW op \in {"subscribe", "pause", "resume", "receiveAsync", "ack", "ackID", "nack",
                     "close"},
         NEW x \in {"connecting", "flag", "spawn", "send", "start"},
         Begin(c, op, x, m)
  PROVE  CallType'
  BY DEF CallType, Begin, CallRecord

\* Every step of an application goroutine keeps the types.
LEMMA CallerType ==
  ASSUME IType, InHand, NEW c \in Callers, CallerNext(c)
  PROVE  IType'
<1> USE DEF IType, At, lifeVars, flagVars, msgVars
<1>1. ASSUME UNCHANGED flagVars, UNCHANGED panicked PROVE FlagType'
  BY <1>1 DEF FlagType
<1>2. ASSUME UNCHANGED work PROVE WorkType'
  BY <1>2 DEF WorkType
<1>3. ASSUME UNCHANGED msgVars PROVE MsgType'
  BY <1>3 DEF MsgType
<1>4. ASSUME UNCHANGED lifeVars PROVE LifeType'
  BY <1>4 DEF LifeType
<1> USE DEF ConsumerState
<1>5. CASE SubscribeBegin(c)
  BY <1>5, <1>1, <1>2, <1>3, CallBegin, LockType DEF SubscribeBegin, LifeType
<1>6. CASE SubscribeConnect(c) \/ SubscribeFailed(c) \/ SubscribeReady(c) \/ FlagState(c)
           \/ CloseMark(c) \/ CloseDone(c)
  <2>1. FlagType' /\ WorkType' /\ MsgType'
    BY <1>6, <1>1, <1>2, <1>3
    DEF SubscribeConnect, SubscribeFailed, SubscribeReady, FlagState, CloseMark, CloseDone
  <2>2. LifeType'
    BY <1>6, SetStateType
    DEF SubscribeConnect, SubscribeFailed, SubscribeReady, FlagState, CloseMark, CloseDone
  <2>3. CallType'
    BY <1>6, CallGoto, CallReturn
    DEF SubscribeConnect, SubscribeFailed, SubscribeReady, FlagState, CloseMark, CloseDone
  <2>4. QED BY <2>1, <2>2, <2>3
<1>7. CASE SubscribeFail(c) \/ FlagLock(c) \/ CloseLock(c)
  <2>1. FlagType' /\ WorkType' /\ MsgType'
    BY <1>7, <1>1, <1>2, <1>3 DEF SubscribeFail, FlagLock, CloseLock
  <2>2. LifeType'
    BY <1>7, LockType DEF SubscribeFail, FlagLock, CloseLock, LifeType
  <2>3. CallType' 
    BY <1>7, CallGoto DEF SubscribeFail, FlagLock, CloseLock
  <2>4. QED BY <2>1, <2>2, <2>3
<1>8. CASE SubscribeOk(c)
  <2>1. LifeType' BY <1>8, LockType DEF SubscribeOk, LifeType
  <2>2. CallType' BY <1>8, CallGoto DEF SubscribeOk
  <2>3. QED BY <1>8, <1>2, <2>1, <2>2 DEF SubscribeOk, FlagType, MsgType
<1>9. CASE PauseBegin(c) \/ ResumeBegin(c) \/ ReceiveAsyncBegin(c) \/ CloseBegin(c)
  <2>1. LifeType' /\ WorkType' /\ MsgType'
    BY <1>9, <1>2, <1>3, <1>4 DEF PauseBegin, ResumeBegin, ReceiveAsyncBegin, CloseBegin
  <2>2. FlagType'
    BY <1>9 DEF PauseBegin, ResumeBegin, ReceiveAsyncBegin, CloseBegin, Unregister, FlagType
  <2>3. CallType'
    BY <1>9, CallBegin DEF PauseBegin, ResumeBegin, ReceiveAsyncBegin, CloseBegin
  <2>4. QED BY <2>1, <2>2, <2>3
<1>10. CASE ReceiveAsyncSpawn(c)
  <2>1. WorkType' BY <1>10 DEF ReceiveAsyncSpawn, WorkType, WorkRecord, WorkerPoints
  <2>2. QED BY <2>1, <1>10, <1>1, <1>3, <1>4, CallReturn DEF ReceiveAsyncSpawn
<1>11. ASSUME NEW m \in Messages, NEW op \in {"ack", "ackID", "nack"}, SettleCallBegin(c, op, m)
       PROVE  IType'
  BY <1>11, <1>1, <1>2, <1>3, <1>4, CallBegin DEF SettleCallBegin
<1>12. CASE SettleCallSend(c)
  <2>1. call[c].msg \in Messages BY <1>12 DEF SettleCallSend, InHand, MsgType
  <2>2. acked' \subseteq Messages
    BY <2>1, <1>12 DEF SettleCallSend, MsgType
  <2>3. QED
    BY <2>2, <1>12, <1>2, <1>4, CallGoto DEF SettleCallSend, FlagType, MsgType
<1>13. CASE SettleCallDrop(c)
  BY <1>13, <1>1, <1>2, <1>4, CallReturn DEF SettleCallDrop, MsgType
<1>14. CASE CloseStop(c)
  BY <1>14, <1>2, <1>3, <1>4, CallGoto DEF CloseStop, FlagType
<1>15. CASE CloseDrain(c)
  BY <1>15, <1>2, <1>4, CallGoto DEF CloseDrain, FlagType, MsgType, AckPendingOnClose
<1>16. CASE CloseForget(c)
  BY <1>16, <1>1, <1>2, <1>4, CallGoto DEF CloseForget, MsgType
<1>17. QED
  BY <1>5, <1>6, <1>7, <1>8, <1>9, <1>10, <1>11, <1>12, <1>13, <1>14, <1>15, <1>16
  DEF CallerNext
\* Every step of a worker keeps the types.
LEMMA WorkerType ==
  ASSUME IType, InHand, NEW w \in Workers, WorkerNext(w)
  PROVE  IType'
<1> USE DEF IType, lifeVars, flagVars, msgVars
<1>1. ASSUME UNCHANGED flagVars, UNCHANGED panicked PROVE FlagType'
  BY <1>1 DEF FlagType
<1>2. ASSUME UNCHANGED <<call, lifeVars>> PROVE CallType' /\ LifeType'
  BY <1>2 DEF CallType, LifeType
<1>3. ASSUME UNCHANGED msgVars PROVE MsgType'
  BY <1>3 DEF MsgType
<1>4. ASSUME NEW x \in WorkerPoints, work' = [work EXCEPT ![w].at = x] PROVE WorkType'
  BY <1>4 DEF WorkType, WorkRecord
<1>5. ASSUME ToTop(w) PROVE WorkType'
  BY <1>5 DEF WorkType, WorkRecord, ToTop, WorkerPoints
<1>6. CASE WorkerExit(w) \/ WorkerTop(w) \/ HandleFail(w)
  BY <1>6, <1>1, <1>2, <1>3, <1>4
  DEF WorkerExit, WorkerTop, WorkerLoop, HandleFail, AfterFailure, Step, WorkerPoints
<1>7. CASE ReceiveCheck(w) \/ ReceiveNothing(w)
  BY <1>7, <1>1, <1>2, <1>3, <1>4, <1>5
  DEF ReceiveCheck, ReceiveNothing, Step, WorkerPoints
<1>8. ASSUME NEW m \in Messages, ReceiveTake(w, m) PROVE IType'
  <2>1. WorkType' BY <1>8 DEF ReceiveTake, WorkType, WorkRecord, WorkerPoints
  <2>2. MsgType'
    BY <1>8, ConsumerAssumption DEF ReceiveTake, Available, MsgType
  <2>3. QED BY <2>1, <2>2, <1>8, <1>1, <1>2 DEF ReceiveTake, FlagType
<1>9. CASE ReceiveStore(w)
  <2>1. work[w].msg \in Messages BY <1>9 DEF ReceiveStore, Step, InHand, Engaged
  <2>2. QED
    BY <2>1, <1>9, <1>1, <1>2, <1>4 DEF ReceiveStore, Step, MsgType, WorkerPoints
<1>10. CASE HandleOk(w)
  <2>1. work[w].msg \in Messages BY <1>10 DEF HandleOk, InHand, Engaged
  <2>2. WorkType' BY <1>10, <1>4, <1>5 DEF HandleOk, AfterSuccess, WorkerPoints
  <2>3. QED BY <2>1, <2>2, <1>10, <1>1, <1>2 DEF HandleOk, MsgType
<1>11. CASE SettleCheck(w)
  BY <1>11, <1>1, <1>2, <1>3, <1>4, <1>5 DEF SettleCheck, WorkerPoints
<1>12. CASE SettleSend(w)
  <2>1. work[w].msg \in Messages BY <1>12 DEF SettleSend, InHand, Engaged
  <2>2. QED
    BY <2>1, <1>12, <1>2, <1>4 DEF SettleSend, MsgType, FlagType, WorkerPoints
<1>13. CASE SettleDrop(w)
  BY <1>13, <1>1, <1>2, <1>5 DEF SettleDrop, SettleDropped, MsgType
<1>14. QED
  BY <1>6, <1>7, <1>8, <1>9, <1>10, <1>11, <1>12, <1>13 DEF WorkerNext

\* Every step of the health goroutine and of the broker keeps the types.
LEMMA TickerBrokerType ==
  ASSUME IType, TickerNext \/ \E m \in Messages : BrokerPush(m)
  PROVE  IType'
<1> USE DEF IType, lifeVars, flagVars, msgVars
<1>1. CASE TickerNext
  <2>1. LifeType'
    BY <1>1 DEF TickerNext, HealthLock, HealthCheck, HealthStop, LifeType
  <2>2. QED
    BY <2>1, <1>1
    DEF TickerNext, HealthLock, HealthCheck, HealthStop, FlagType, CallType, WorkType, MsgType
<1>2. ASSUME NEW m \in Messages, BrokerPush(m) PROVE IType'
  <2>1. MsgType' BY <1>2, ConsumerAssumption DEF BrokerPush, MsgType
  <2>2. QED BY <2>1, <1>2 DEF BrokerPush, LifeType, FlagType, CallType, WorkType
<1>3. QED BY <1>1, <1>2

-----------------------------------------------------------------------------
(* What is in hand stays handled: handled only grows.                      *)

LEMMA InHandNext ==
  ASSUME IType, InHand, Next
  PROVE  InHand'
<1> USE DEF IType, lifeVars, flagVars, msgVars
<1>1. handled \subseteq handled'
  BY DEF Next, CallerNext, WorkerNext, TickerNext, SubscribeBegin, SubscribeConnect,
     SubscribeFail, SubscribeFailed, SubscribeOk, SubscribeReady, PauseBegin, ResumeBegin,
     FlagLock, FlagState, ReceiveAsyncBegin, ReceiveAsyncSpawn, SettleCallBegin,
     SettleCallSend, SettleCallDrop, CloseBegin, CloseLock, CloseMark, CloseStop, CloseDrain,
     CloseForget, CloseDone, WorkerExit, WorkerTop, ReceiveCheck, ReceiveTake, ReceiveNothing,
     ReceiveStore, HandleOk, HandleFail, SettleCheck, SettleSend, SettleDrop, HealthLock,
     HealthCheck, HealthStop, BrokerPush
<1>2. ASSUME UNCHANGED work
      PROVE  /\ \A w \in Workers : Engaged(w)' => work'[w].msg \in Messages
             /\ \A w \in Workers : work'[w].at \in {"ack", "acking"} => work'[w].msg \in handled'
  BY <1>1, <1>2 DEF InHand, Engaged
<1>3. ASSUME UNCHANGED call
      PROVE  \A c \in Callers : call'[c].op \in {"ack", "ackID", "nack"}
                                   => call'[c].msg \in handled'
  BY <1>1, <1>3 DEF InHand
<1>4. ASSUME NEW c \in Callers, CallerNext(c) PROVE InHand'
  <2>1. CASE \E m \in Messages, op \in {"ack", "ackID", "nack"} : SettleCallBegin(c, op, m)
    <3>1. \A d \in Callers : call'[d].op \in {"ack", "ackID", "nack"}
                               => call'[d].msg \in handled'
      BY <2>1, <1>1 DEF SettleCallBegin, Begin, InHand, CallType
    <3>2. UNCHANGED work BY <2>1 DEF SettleCallBegin
    <3>3. QED BY <3>1, <3>2, <1>2 DEF InHand
  <2>2. CASE ReceiveAsyncSpawn(c)
    BY <2>2, <1>1, IdleType DEF ReceiveAsyncSpawn, Return, Idle, InHand, Engaged, CallType
  <2>3. CASE /\ ~(\E m \in Messages, op \in {"ack", "ackID", "nack"} : SettleCallBegin(c, op, m))
             /\ ~ReceiveAsyncSpawn(c)
    <3>1. \A d \in Callers : call'[d].op \in {"ack", "ackID", "nack"}
                               => call'[d].op = call[d].op /\ call'[d].msg = call[d].msg
      BY <2>3, <1>4
      DEF CallerNext, SubscribeBegin, SubscribeConnect, SubscribeFail, SubscribeFailed,
          SubscribeOk, SubscribeReady, PauseBegin, ResumeBegin, FlagLock, FlagState,
          ReceiveAsyncBegin, SettleCallSend, SettleCallDrop, CloseBegin, CloseLock, CloseMark,
          CloseStop, CloseDrain, CloseForget, CloseDone, Begin, Goto, Return, Idle, At, CallType,
          CallRecord
    <3>2. UNCHANGED work
      BY <2>3, <1>4
      DEF CallerNext, SubscribeBegin, SubscribeConnect, SubscribeFail, SubscribeFailed,
          SubscribeOk, SubscribeReady, PauseBegin, ResumeBegin, FlagLock, FlagState,
          ReceiveAsyncBegin, SettleCallSend, SettleCallDrop, CloseBegin, CloseLock, CloseMark,
          CloseStop, CloseDrain, CloseForget, CloseDone
    <3>3. QED BY <3>1, <3>2, <1>1, <1>2 DEF InHand
  <2>4. QED BY <2>1, <2>2, <2>3
<1>5. ASSUME NEW w \in Workers, WorkerNext(w) PROVE InHand'
  <2>1. UNCHANGED call
    BY <1>5 DEF WorkerNext, WorkerExit, WorkerTop, ReceiveCheck, ReceiveTake, ReceiveNothing,
       ReceiveStore, HandleOk, HandleFail, SettleCheck, SettleSend, SettleDrop
  <2>2. \A v \in Workers : v # w => work'[v] = work[v]
    BY <1>5 DEF WorkerNext, WorkerExit, WorkerTop, WorkerLoop, ReceiveCheck, ReceiveTake,
       ReceiveNothing, ReceiveStore, HandleOk, HandleFail, SettleCheck, SettleSend, SettleDrop,
       Step, ToTop, WorkType
  <2>3. /\ Engaged(w)' => work'[w].msg \in Messages
        /\ work'[w].at \in {"ack", "acking"} => work'[w].msg \in handled'
    BY <1>5, <1>1 DEF WorkerNext, WorkerExit, WorkerTop, WorkerLoop, ReceiveCheck, ReceiveTake,
       ReceiveNothing, ReceiveStore, HandleOk, HandleFail, SettleCheck, SettleSend, SettleDrop,
       Step, ToTop, WorkType, WorkRecord, AfterSuccess, AfterFailure, InHand, Engaged
  <2>4. QED BY <2>1, <2>2, <2>3, <1>1, <1>3 DEF InHand, Engaged
<1>6. CASE TickerNext \/ \E m \in Messages : BrokerPush(m)
  BY <1>6, <1>2, <1>3
  DEF InHand, TickerNext, HealthLock, HealthCheck, HealthStop, BrokerPush
<1>7. QED BY <1>4, <1>5, <1>6 DEF Next

\* The type invariant is inductive together with InHand.
LEMMA TypeStep ==
  ASSUME IType, InHand, [Next]_vars
  PROVE  IType' /\ InHand'
<1>1. CASE Next
  <2>1. IType' BY <1>1, CallerType, WorkerType, TickerBrokerType DEF Next
  <2>2. QED BY <2>1, <1>1, InHandNext
<1>2. CASE UNCHANGED vars
  BY <1>2 DEF vars, lifeVars, flagVars, msgVars, IType, LifeType, FlagType, CallType, WorkType,
     MsgType, InHand, Engaged
<1>3. QED BY <1>1, <1>2

\* Every variable keeps the values the code can give it.
THEOREM TypeCorrect == Spec => []TypeOK
<1>1. Init => IType /\ InHand
  BY InitType DEF Init, InHand, Engaged, Idle
<1>2. IType /\ InHand /\ [Next]_vars => (IType /\ InHand)'
  BY TypeStep
<1>3. QED BY <1>1, <1>2, ITypeGivesTypeOK, PTL DEF Spec
-----------------------------------------------------------------------------
(* Acknowledgements.                                                       *)

\* Past close(c.StopChannel) the channel is closed, and it is never reopened.
CloseStopped ==
  \A c \in Callers : InClose(c) /\ call[c].at \in {"wait", "forget", "cleared", "closed"}
                       => stopped

LEMMA StoppedForEver ==
  ASSUME Next
  PROVE  opts' = opts /\ (stopped => stopped') /\ handled \subseteq handled'
  BY DEF Next, CallerNext, WorkerNext, TickerNext, lifeVars, flagVars, msgVars,
     SubscribeBegin, SubscribeConnect, SubscribeFail, SubscribeFailed, SubscribeOk, SubscribeReady,
     PauseBegin, ResumeBegin, FlagLock, FlagState, ReceiveAsyncBegin, ReceiveAsyncSpawn,
     SettleCallBegin, SettleCallSend, SettleCallDrop, CloseBegin, CloseLock, CloseMark, CloseStop,
     CloseDrain, CloseForget, CloseDone,
     WorkerExit, WorkerTop, WorkerLoop, ReceiveCheck, ReceiveTake, ReceiveNothing, ReceiveStore,
     HandleOk, HandleFail, SettleCheck, SettleSend, SettleDrop,
     HealthLock, HealthCheck, HealthStop, BrokerPush

LEMMA CloseStoppedNext ==
  ASSUME IType, CloseStopped, Next
  PROVE  CloseStopped'
<1>1. ASSUME UNCHANGED call PROVE CloseStopped'
  BY <1>1, StoppedForEver DEF CloseStopped, InClose
<1>2. ASSUME NEW c \in Callers, CallerNext(c) PROVE CloseStopped'
  <2>1. \A d \in Callers : d # c => call'[d] = call[d]
    BY <1>2 DEF CallerNext, IType, CallType, Begin, Goto, Return,
     SubscribeBegin, SubscribeConnect, SubscribeFail, SubscribeFailed, SubscribeOk, SubscribeReady,
     PauseBegin, ResumeBegin, FlagLock, FlagState, ReceiveAsyncBegin, ReceiveAsyncSpawn,
     SettleCallBegin, SettleCallSend, SettleCallDrop, CloseBegin, CloseLock, CloseMark, CloseStop,
     CloseDrain, CloseForget, CloseDone
  <2>2. CASE CloseStop(c)
    BY <2>2, <2>1 DEF CloseStop, CloseStopped, InClose
  <2>3. CASE ~CloseStop(c)
    <3>1. call'[c].op = "close" /\ call'[c].at \in {"wait", "forget", "cleared", "closed"}
            => call[c].op = "close" /\ call[c].at \in {"wait", "forget", "cleared", "closed"}
      BY <1>2, <2>3 DEF CallerNext, IType, CallType, CallRecord, Begin, Goto, Return, Idle, At,
     SubscribeBegin, SubscribeConnect, SubscribeFail, SubscribeFailed, SubscribeOk, SubscribeReady,
     PauseBegin, ResumeBegin, FlagLock, FlagState, ReceiveAsyncBegin, ReceiveAsyncSpawn,
     SettleCallBegin, SettleCallSend, SettleCallDrop, CloseBegin, CloseLock, CloseMark, CloseStop,
     CloseDrain, CloseForget, CloseDone
    <3>2. QED BY <3>1, <2>1, StoppedForEver DEF CloseStopped, InClose
  <2>4. QED BY <2>2, <2>3
<1>3. ASSUME NEW w \in Workers, WorkerNext(w) PROVE UNCHANGED call
  BY <1>3 DEF WorkerNext,
     WorkerExit, WorkerTop, WorkerLoop, ReceiveCheck, ReceiveTake, ReceiveNothing, ReceiveStore,
     HandleOk, HandleFail, SettleCheck, SettleSend, SettleDrop
<1>4. CASE TickerNext \/ \E m \in Messages : BrokerPush(m)
  BY <1>4, <1>1 DEF TickerNext, HealthLock, HealthCheck, HealthStop, BrokerPush
<1>5. QED BY <1>1, <1>2, <1>3, <1>4 DEF Next

LEMMA AckedNext ==
  ASSUME IType, InHand, CloseStopped, AckedOnlyAfterHandled, Next
  PROVE  AckedOnlyAfterHandled'
<1> USE DEF IType, lifeVars, flagVars, msgVars
<1>1. ASSUME UNCHANGED acked PROVE AckedOnlyAfterHandled'
  BY <1>1, StoppedForEver DEF AckedOnlyAfterHandled
<1>2. ASSUME NEW m \in handled, acked' \subseteq acked \cup {m} PROVE AckedOnlyAfterHandled'
  BY <1>2, StoppedForEver DEF AckedOnlyAfterHandled
<1>3. ASSUME NEW c \in Callers, CallerNext(c) PROVE AckedOnlyAfterHandled'
  <2>1. CASE SettleCallSend(c)
    <3>1. call[c].msg \in handled BY <2>1 DEF SettleCallSend, InHand
    <3>2. acked' \subseteq acked \cup {call[c].msg} BY <2>1 DEF SettleCallSend
    <3>3. QED BY <3>1, <3>2, <1>2
  <2>2. CASE CloseDrain(c)
    <3>1. stopped BY <2>2 DEF CloseDrain, CloseStopped, InClose, At
    <3>2. acked' # acked => opts.autoAckOnClose
      BY <2>2 DEF CloseDrain, AckPendingOnClose
    <3>3. QED
      BY <3>1, <3>2, StoppedForEver DEF AckedOnlyAfterHandled
  <2>3. CASE ~SettleCallSend(c) /\ ~CloseDrain(c)
    <3>1. UNCHANGED acked
      BY <1>3, <2>3 DEF CallerNext,
     SubscribeBegin, SubscribeConnect, SubscribeFail, SubscribeFailed, SubscribeOk, SubscribeReady,
     PauseBegin, ResumeBegin, FlagLock, FlagState, ReceiveAsyncBegin, ReceiveAsyncSpawn,
     SettleCallBegin, SettleCallSend, SettleCallDrop, CloseBegin, CloseLock, CloseMark, CloseStop,
     CloseDrain, CloseForget, CloseDone
    <3>2. QED BY <3>1, <1>1
  <2>4. QED BY <2>1, <2>2, <2>3
<1>4. ASSUME NEW w \in Workers, WorkerNext(w) PROVE AckedOnlyAfterHandled'
  <2>1. CASE SettleSend(w)
    <3>1. CASE work[w].at = "acking"
      <4>1. work[w].msg \in handled BY <3>1 DEF InHand
      <4>2. acked' \subseteq acked \cup {work[w].msg} BY <2>1 DEF SettleSend
      <4>3. QED BY <4>1, <4>2, <1>2
    <3>2. CASE work[w].at # "acking"
      BY <3>2, <2>1, <1>1 DEF SettleSend
    <3>3. QED BY <3>1, <3>2
  <2>2. CASE ~SettleSend(w)
    BY <1>4, <2>2, <1>1 DEF WorkerNext,
     WorkerExit, WorkerTop, WorkerLoop, ReceiveCheck, ReceiveTake, ReceiveNothing, ReceiveStore,
     HandleOk, HandleFail, SettleCheck, SettleSend, SettleDrop
  <2>3. QED BY <2>1, <2>2
<1>5. CASE TickerNext \/ \E m \in Messages : BrokerPush(m)
  BY <1>5, <1>1 DEF TickerNext, HealthLock, HealthCheck, HealthStop, BrokerPush
<1>6. QED BY <1>3, <1>4, <1>5 DEF Next

\* Whatever is acknowledged was handled, or the consumer was closing with
\* EnableAutoAckOnClose.
THEOREM AckSafety == Spec => []AckedOnlyAfterHandled
<1> DEFINE Inv == IType /\ InHand /\ CloseStopped /\ AckedOnlyAfterHandled
<1>1. Init => Inv
  BY InitType DEF Init, InHand, Engaged, Idle, CloseStopped, InClose, AckedOnlyAfterHandled
<1>2. Inv /\ [Next]_vars => Inv'
  <2>1. CASE Next BY <2>1, TypeStep, CloseStoppedNext, AckedNext
  <2>2. CASE UNCHANGED vars
    BY <2>2, TypeStep DEF vars, lifeVars, flagVars, msgVars, CloseStopped, InClose,
       AckedOnlyAfterHandled
  <2>3. QED BY <2>1, <2>2
<1>3. QED BY <1>1, <1>2, PTL DEF Spec

-----------------------------------------------------------------------------
(* The workers and the consumer they use.                                  *)

\* Either the consumer is there, or it never gave a message, or the consumer
\* is stopped and no worker is past its loop head.
ConsumerOrNoWork ==
  \/ subscribed
  \/ (\A m \in Messages : queued[m] = 0) /\ (\A w \in Workers : ~Engaged(w))
  \/ stopped /\ \A w \in Workers : work[w].at \in {"idle", "top", "done"}

LEMMA ConsumerOrNoWorkNext ==
  ASSUME IType, CloseStopped, ConsumerOrNoWork, Next
  PROVE  ConsumerOrNoWork'
<1> USE DEF IType, lifeVars, flagVars, msgVars
<1>1. ASSUME UNCHANGED <<subscribed, queued, work>> PROVE ConsumerOrNoWork'
  BY <1>1, StoppedForEver DEF ConsumerOrNoWork, Engaged
<1>2. ASSUME NEW c \in Callers, CallerNext(c) PROVE ConsumerOrNoWork'
  <2>1. CASE CloseDrain(c)
    BY <2>1 DEF CloseDrain, Drained, ConsumerOrNoWork, CloseStopped, InClose, At, Engaged
  <2>2. CASE ReceiveAsyncSpawn(c)
    BY <2>2 DEF ReceiveAsyncSpawn, ConsumerOrNoWork, Engaged
  <2>3. CASE SubscribeOk(c)
    BY <2>3 DEF SubscribeOk, ConsumerOrNoWork
  <2>4. CASE ~CloseDrain(c) /\ ~ReceiveAsyncSpawn(c) /\ ~SubscribeOk(c)
    <3>1. UNCHANGED <<subscribed, queued, work>>
      BY <1>2, <2>4 DEF CallerNext,
     SubscribeBegin, SubscribeConnect, SubscribeFail, SubscribeFailed, SubscribeOk, SubscribeReady,
     PauseBegin, ResumeBegin, FlagLock, FlagState, ReceiveAsyncBegin, ReceiveAsyncSpawn,
     SettleCallBegin, SettleCallSend, SettleCallDrop, CloseBegin, CloseLock, CloseMark, CloseStop,
     CloseDrain, CloseForget, CloseDone
    <3>2. QED BY <3>1, <1>1
  <2>5. QED BY <2>1, <2>2, <2>3, <2>4
<1>3. ASSUME NEW w \in Workers, WorkerNext(w) PROVE ConsumerOrNoWork'
  <2>1. UNCHANGED <<subscribed, stopped>> /\ \A v \in Workers : v # w => work'[v] = work[v]
    BY <1>3 DEF WorkerNext, Step, ToTop, WorkType,
     WorkerExit, WorkerTop, WorkerLoop, ReceiveCheck, ReceiveTake, ReceiveNothing, ReceiveStore,
     HandleOk, HandleFail, SettleCheck, SettleSend, SettleDrop
  <2>2. CASE subscribed
    BY <2>1, <2>2 DEF ConsumerOrNoWork
  <2>3. CASE (\A m \in Messages : queued[m] = 0) /\ (\A v \in Workers : ~Engaged(v))
    <3>1. UNCHANGED queued /\ ~Engaged(w)'
      BY <1>3, <2>3 DEF WorkerNext, Step, ToTop, WorkType, WorkRecord, Engaged, Available,
     WorkerExit, WorkerTop, WorkerLoop, ReceiveCheck, ReceiveTake, ReceiveNothing, ReceiveStore,
     HandleOk, HandleFail, SettleCheck, SettleSend, SettleDrop
    <3>2. QED BY <3>1, <2>1, <2>3 DEF ConsumerOrNoWork, Engaged
  <2>4. CASE stopped /\ \A v \in Workers : work[v].at \in {"idle", "top", "done"}
    <3>1. work'[w].at = "done"
      BY <1>3, <2>4 DEF WorkerNext, Step, ToTop, WorkType, WorkRecord,
     WorkerExit, WorkerTop, WorkerLoop, ReceiveCheck, ReceiveTake, ReceiveNothing, ReceiveStore,
     HandleOk, HandleFail, SettleCheck, SettleSend, SettleDrop
    <3>2. QED BY <3>1, <2>1, <2>4 DEF ConsumerOrNoWork
  <2>5. QED BY <2>2, <2>3, <2>4 DEF ConsumerOrNoWork
<1>4. CASE TickerNext
  BY <1>4, <1>1 DEF TickerNext, HealthLock, HealthCheck, HealthStop, BrokerPush
<1>5. ASSUME NEW m \in Messages, BrokerPush(m) PROVE ConsumerOrNoWork'
  BY <1>5 DEF BrokerPush, ConsumerOrNoWork
<1>6. QED BY <1>2, <1>3, <1>4, <1>5 DEF Next

\* No worker that has taken a message finds c.Consumer gone.
THEOREM WorkersSafe == Spec => []WorkersHoldLiveConsumer
<1> DEFINE Inv == IType /\ InHand /\ CloseStopped /\ ConsumerOrNoWork
<1>1. Init => Inv
  BY InitType DEF Init, InHand, Engaged, Idle, CloseStopped, InClose, ConsumerOrNoWork
<1>2. Inv /\ [Next]_vars => Inv'
  <2>1. CASE Next BY <2>1, TypeStep, CloseStoppedNext, ConsumerOrNoWorkNext
  <2>2. CASE UNCHANGED vars
    BY <2>2, TypeStep DEF vars, lifeVars, flagVars, msgVars, CloseStopped, InClose,
       ConsumerOrNoWork, Engaged
  <2>3. QED BY <2>1, <2>2
<1>3. Inv => WorkersHoldLiveConsumer
  BY DEF ConsumerOrNoWork, WorkersHoldLiveConsumer, Engaged
<1>4. QED BY <1>1, <1>2, <1>3, PTL DEF Spec

-----------------------------------------------------------------------------
(* The health record.                                                      *)

LEMMA MirrorNext ==
  ASSUME health.state = state, Next
  PROVE  health'.state = state'
<1> USE DEF lifeVars, LockState, setStateInternal
<1>1. ASSUME NEW c \in Callers, CallerNext(c) PROVE health'.state = state'
  BY <1>1 DEF CallerNext,
     SubscribeBegin, SubscribeConnect, SubscribeFail, SubscribeFailed, SubscribeOk, SubscribeReady,
     PauseBegin, ResumeBegin, FlagLock, FlagState, ReceiveAsyncBegin, ReceiveAsyncSpawn,
     SettleCallBegin, SettleCallSend, SettleCallDrop, CloseBegin, CloseLock, CloseMark, CloseStop,
     CloseDrain, CloseForget, CloseDone
<1>2. ASSUME NEW w \in Workers, WorkerNext(w) PROVE health'.state = state'
  BY <1>2 DEF WorkerNext,
     WorkerExit, WorkerTop, WorkerLoop, ReceiveCheck, ReceiveTake, ReceiveNothing, ReceiveStore,
     HandleOk, HandleFail, SettleCheck, SettleSend, SettleDrop
<1>3. CASE TickerNext \/ \E m \in Messages : BrokerPush(m)
  BY <1>3 DEF TickerNext, HealthLock, HealthCheck, HealthStop, BrokerPush
<1>4. QED BY <1>1, <1>2, <1>3 DEF Next

\* The health record shows the state of the consumer.
THEOREM HealthMirrors == Spec => []HealthMirrorsState
<1>1. Init => health.state = state BY DEF Init
<1>2. health.state = state /\ [Next]_vars => (health.state = state)'
  BY MirrorNext DEF vars, lifeVars
<1>3. health.state = state => HealthMirrorsState BY DEF HealthMirrorsState
<1>4. QED BY <1>1, <1>2, <1>3, PTL DEF Spec

-----------------------------------------------------------------------------
(* The pending counter and the pending map.                                *)

\* The workers whose message the counter counts, and those whose message is in
\* the map or was before a redelivery of it was settled.
Counted    == {w \in Workers : work[w].at \in {"store", "handle", "ack", "nack", "acking", "nacking"}}
Unsettled     == {w \in Workers : work[w].at \in {"handle", "ack", "nack", "acking", "nacking", "drop"}}
LeftBehind == pending \ {work[w].msg : w \in Unsettled}

\* No message has been taken from this consumer.
NeverUsed ==
  /\ ~subscribed /\ pending = {}
  /\ \A m \in Messages : queued[m] = 0
  /\ \A w \in Workers : ~Engaged(w)

Settling(c)    == call[c].op \in {"ack", "ackID", "nack"}
Spawning(c)    == call[c].op = "receiveAsync"
Subscribing(c) == call[c].op = "subscribe"
Connecting(c)  == Subscribing(c) /\ call[c].at \in {"connecting", "client"}

\* Subscribe resets the counter of a consumer that was never used, ReceiveAsync
\* starts workers only where none is at work, and the application settles
\* nothing under EnableAutoAck.
CallsInv ==
  /\ \A c \in Callers : Spawning(c) => \A w \in Workers : work[w].at = "idle"
  /\ \A c, d \in Callers : Spawning(c) /\ Spawning(d) => c = d
  /\ \A c, d \in Callers : Subscribing(c) /\ Subscribing(d) => c = d
  /\ registered /\ ~subscribed => NeverUsed
  /\ \A c \in Callers : InClose(c) => ~registered
  /\ \A c \in Callers : Connecting(c) => NeverUsed
  /\ \A c \in Callers : Settling(c) => ~opts.autoAck

\* The counter covers the workers that hold a message they have not settled and
\* the messages left in the map with nobody to settle them.
CountInv == opts.autoAck => Cardinality(Counted) + Cardinality(LeftBehind) <= pendingCount

LEMMA CallsCalm ==
  ASSUME CallsInv, UNCHANGED <<opts, registered, subscribed>>, NeverUsed => NeverUsed',
         \A w \in Workers : work[w].at = "idle" => work'[w].at = "idle",
         \A c \in Callers : /\ Spawning(c)' => Spawning(c)
                            /\ Subscribing(c)' => Subscribing(c)
                            /\ Connecting(c)' => Connecting(c)
                            /\ InClose(c)' => InClose(c)
                            /\ Settling(c)' => ~opts.autoAck
  PROVE  CallsInv'
  BY DEF CallsInv

LEMMA CallsCaller ==
  ASSUME IType, CallsInv, NEW c \in Callers, CallerNext(c)
  PROVE  CallsInv'
<1> USE DEF IType, CallType, lifeVars, flagVars, msgVars, At, Goto, Return, Begin, Idle
<1>1. \A d \in Callers \ {c} : call'[d] = call[d]
  BY DEF CallerNext, CallRecord,
     SubscribeBegin, SubscribeConnect, SubscribeFail, SubscribeFailed, SubscribeOk, SubscribeReady,
     PauseBegin, ResumeBegin, FlagLock, FlagState, ReceiveAsyncBegin, ReceiveAsyncSpawn,
     SettleCallBegin, SettleCallSend, SettleCallDrop, CloseBegin, CloseLock, CloseMark, CloseStop,
     CloseDrain, CloseForget, CloseDone
<1> USE DEF Spawning, Subscribing, Connecting, InClose, Settling
<1>2. CASE SubscribeBegin(c)
  <2>1. /\ UNCHANGED <<opts, registered, subscribed, pending, queued, work>> /\ ~subscribed /\ registered
        /\ \A d \in Callers : call[d].op # "subscribe"
        /\ call'[c].op = "subscribe"
    BY <1>2 DEF SubscribeBegin
  <2>2. NeverUsed /\ NeverUsed' BY <2>1 DEF CallsInv, NeverUsed, Engaged
  <2>3. QED BY <1>1, <2>1, <2>2 DEF CallsInv
<1>3. CASE SubscribeOk(c)
  <2>1. /\ UNCHANGED <<opts, registered, work>> /\ subscribed'
        /\ Connecting(c) /\ call'[c].op = "subscribe" /\ call'[c].at = "subscribed"
    BY <1>3 DEF SubscribeOk, CallRecord
  <2>2. QED BY <1>1, <2>1 DEF CallsInv
<1>4. CASE ReceiveAsyncBegin(c)
  <2>1. /\ UNCHANGED <<opts, registered, subscribed, pending, queued, work>>
        /\ \A w \in Workers : work[w].at = "idle"
        /\ \A d \in Callers : call[d].op # "receiveAsync"
        /\ call'[c].op = "receiveAsync"
    BY <1>4 DEF ReceiveAsyncBegin
  <2>2. NeverUsed' <=> NeverUsed BY <2>1 DEF NeverUsed, Engaged
  <2>3. QED BY <1>1, <2>1, <2>2 DEF CallsInv
<1>5. CASE ReceiveAsyncSpawn(c)
  <2>1. /\ UNCHANGED <<opts, registered, subscribed, pending, queued>>
        /\ Spawning(c) /\ call'[c].op = "none"
        /\ \A w \in Workers : ~Engaged(w)'
    BY <1>5 DEF ReceiveAsyncSpawn, Engaged
  <2>2. NeverUsed => NeverUsed' BY <2>1 DEF NeverUsed
  <2>3. QED BY <1>1, <2>1, <2>2 DEF CallsInv
<1>6. CASE CloseBegin(c)
  <2>1. UNCHANGED <<opts, subscribed, pending, queued, work>> /\ ~registered' /\ call'[c].op = "close"
    BY <1>6 DEF CloseBegin, Unregister
  <2>2. NeverUsed' <=> NeverUsed BY <2>1 DEF NeverUsed, Engaged
  <2>3. QED BY <1>1, <2>1, <2>2 DEF CallsInv
<1>7. CASE CloseDrain(c)
  <2>1. /\ UNCHANGED <<opts, registered, pending, queued, work>> /\ ~subscribed'
        /\ InClose(c) /\ call'[c].op = "close"
    BY <1>7 DEF CloseDrain, CallRecord
  <2>2. NeverUsed => NeverUsed' BY <2>1 DEF NeverUsed, Engaged
  <2>3. QED BY <1>1, <2>1, <2>2 DEF CallsInv
<1>8. CASE SettleCallDrop(c) \/ CloseForget(c)
  <2>1. UNCHANGED <<opts, registered, subscribed, queued, work>> /\ pending' \subseteq pending
    BY <1>8 DEF SettleCallDrop, CloseForget
  <2>2. call'[c].op = "none" \/ (call'[c].op = "close" /\ call[c].op = "close")
    BY <1>8 DEF SettleCallDrop, CloseForget, CallRecord
  <2>3. NeverUsed => NeverUsed' BY <2>1 DEF NeverUsed, Engaged
  <2>4. \A d \in Callers : Settling(d)' => ~opts.autoAck BY <1>1, <2>2 DEF CallsInv
  <2>5. QED BY <1>1, <2>1, <2>2, <2>3, <2>4, CallsCalm
<1>9. CASE /\ UNCHANGED <<opts, registered, subscribed, pending, queued, work>>
           /\ \/ call'[c].op \in {"none", "pause", "resume"}
              \/ ~opts.autoAck /\ call'[c].op \in {"ack", "ackID", "nack"}
              \/ call'[c].op = "close" /\ call[c].op = "close"
              \/ call'[c].op = call[c].op /\ call'[c].at \notin {"connecting", "client"}
              \/ call'[c].op = call[c].op /\ call[c].at \in {"connecting", "client"}
  <2>1. NeverUsed => NeverUsed' BY <1>9 DEF NeverUsed, Engaged
  <2>2. /\ Spawning(c)' => Spawning(c)
        /\ Subscribing(c)' => Subscribing(c)
        /\ Connecting(c)' => Connecting(c)
        /\ InClose(c)' => InClose(c)
        /\ Settling(c)' => ~opts.autoAck
    BY <1>9 DEF CallsInv
  <2>3. QED BY <1>1, <1>9, <2>1, <2>2, CallsCalm DEF CallsInv
<1>10. CASE \/ SubscribeConnect(c) \/ SubscribeFail(c) \/ SubscribeFailed(c) \/ SubscribeReady(c)
            \/ PauseBegin(c) \/ ResumeBegin(c) \/ FlagLock(c) \/ FlagState(c)
            \/ \E m \in Messages, op \in {"ack", "ackID", "nack"} : SettleCallBegin(c, op, m)
            \/ SettleCallSend(c) \/ CloseLock(c) \/ CloseMark(c) \/ CloseStop(c) \/ CloseDone(c)
  <2>1. UNCHANGED <<opts, registered, subscribed, pending, queued, work>>
    BY <1>10
    DEF SubscribeConnect, SubscribeFail, SubscribeFailed, SubscribeReady, PauseBegin, ResumeBegin,
        FlagLock, FlagState, SettleCallBegin, SettleCallSend, CloseLock, CloseMark, CloseStop, CloseDone
  <2>2. \/ call'[c].op \in {"none", "pause", "resume"}
        \/ ~opts.autoAck /\ call'[c].op \in {"ack", "ackID", "nack"}
        \/ call'[c].op = "close" /\ call[c].op = "close"
        \/ call'[c].op = call[c].op /\ call'[c].at \notin {"connecting", "client"}
        \/ call'[c].op = call[c].op /\ call[c].at \in {"connecting", "client"}
    <3>1. CASE SubscribeConnect(c) \/ SubscribeFail(c) \/ SubscribeFailed(c) \/ SubscribeReady(c)
      BY <3>1 DEF SubscribeConnect, SubscribeFail, SubscribeFailed, SubscribeReady, CallRecord
    <3>2. CASE PauseBegin(c) \/ ResumeBegin(c) \/ FlagLock(c) \/ FlagState(c)
      BY <3>2 DEF PauseBegin, ResumeBegin, FlagLock, FlagState, CallRecord
    <3>3. CASE \/ \E m \in Messages, op \in {"ack", "ackID", "nack"} : SettleCallBegin(c, op, m)
               \/ SettleCallSend(c)
      BY <3>3 DEF SettleCallBegin, SettleCallSend, CallRecord
    <3>4. CASE CloseLock(c) \/ CloseMark(c) \/ CloseStop(c) \/ CloseDone(c)
      BY <3>4 DEF CloseLock, CloseMark, CloseStop, CloseDone, CallRecord
    <3>5. QED BY <1>10, <3>1, <3>2, <3>3, <3>4
  <2>3. QED BY <1>9, <2>1, <2>2
<1>11. QED BY <1>2, <1>3, <1>4, <1>5, <1>6, <1>7, <1>8, <1>10 DEF CallerNext

LEMMA CallsWorker ==
  ASSUME IType, CallsInv, NEW w \in Workers, WorkerNext(w)
  PROVE  CallsInv'
<1> USE DEF IType, WorkType, lifeVars, flagVars, msgVars
<1>1. UNCHANGED <<opts, registered, subscribed, call>> /\ \A v \in Workers \ {w} : work'[v] = work[v]
  BY DEF WorkerNext, Step, ToTop,
     WorkerExit, WorkerTop, WorkerLoop, ReceiveCheck, ReceiveTake, ReceiveNothing, ReceiveStore,
     HandleOk, HandleFail, SettleCheck, SettleSend, SettleDrop
<1>2. work[w].at # "idle"
  BY DEF WorkerNext, Step,
     WorkerExit, WorkerTop, WorkerLoop, ReceiveCheck, ReceiveTake, ReceiveNothing, ReceiveStore,
     HandleOk, HandleFail, SettleCheck, SettleSend, SettleDrop
<1>3. ASSUME NeverUsed PROVE NeverUsed'
  <2>1. ~Engaged(w) /\ \A m \in Messages : ~Available(m) BY <1>3 DEF NeverUsed, Available
  <2>2. WorkerExit(w) \/ WorkerTop(w) \/ ReceiveCheck(w) \/ ReceiveNothing(w)
    BY <2>1 DEF WorkerNext, Engaged, Step, ReceiveTake, ReceiveStore, HandleOk, HandleFail, SettleCheck,
       SettleSend, SettleDrop
  <2>3. UNCHANGED <<pending, queued>> /\ ~Engaged(w)'
    BY <2>2 DEF Step, ToTop, WorkerExit, WorkerTop, WorkerLoop, ReceiveCheck, ReceiveNothing, Engaged,
       WorkRecord
  <2>4. QED BY <1>1, <1>3, <2>3 DEF NeverUsed, Engaged
<1>4. QED BY <1>1, <1>2, <1>3, CallsCalm DEF Spawning, Subscribing, Connecting, InClose, Settling, CallsInv

LEMMA CallsStep ==
  ASSUME IType, CallsInv, [Next]_vars
  PROVE  CallsInv'
<1>1. CASE \E c \in Callers : CallerNext(c) BY <1>1, CallsCaller
<1>2. CASE \E w \in Workers : WorkerNext(w) BY <1>2, CallsWorker
<1>3. CASE TickerNext \/ (\E m \in Messages : BrokerPush(m)) \/ UNCHANGED vars
  <2>1. UNCHANGED <<opts, registered, subscribed, call, work, pending>> /\ (UNCHANGED queued \/ subscribed)
    BY <1>3 DEF TickerNext, HealthLock, HealthCheck, HealthStop, BrokerPush, vars, flagVars, msgVars
  <2>2. NeverUsed => NeverUsed' BY <2>1 DEF NeverUsed, Engaged
  <2>3. QED BY <2>1, <2>2, CallsCalm DEF Spawning, Subscribing, Connecting, InClose, Settling, CallsInv
<1>4. QED BY <1>1, <1>2, <1>3 DEF Next

LEMMA SetsCounted ==
  ASSUME IType
  PROVE  /\ \A S \in SUBSET Workers : IsFiniteSet(S) /\ Cardinality(S) \in Nat
         /\ \A P \in SUBSET Messages : IsFiniteSet(P) /\ Cardinality(P) \in Nat
         /\ Counted \in SUBSET Workers /\ LeftBehind \in SUBSET Messages /\ pendingCount \in Int
  BY ConsumerAssumption, FS_Subset, FS_CardinalityType DEF IType, MsgType, Counted, LeftBehind

LEMMA SmallerSet ==
  ASSUME NEW X, IsFiniteSet(X), NEW S \in SUBSET X, NEW T \in SUBSET S
  PROVE  Cardinality(T) <= Cardinality(S)
  BY FS_Subset

LEMMA OneMore ==
  ASSUME NEW X, IsFiniteSet(X), NEW S \in SUBSET X, NEW e, e \notin S
  PROVE  Cardinality(S \cup {e}) = Cardinality(S) + 1
  BY FS_Subset, FS_AddElement

LEMMA OneLess ==
  ASSUME NEW X, IsFiniteSet(X), NEW S \in SUBSET X, NEW e \in S
  PROVE  Cardinality(S \ {e}) = Cardinality(S) - 1
  BY FS_Subset, FS_RemoveElement

\* The counted workers stay and nothing more is left behind.
LEMMA CountCalm ==
  ASSUME IType, CountInv, UNCHANGED <<opts, pendingCount>>, Counted' \subseteq Counted,
         LeftBehind' \subseteq LeftBehind
  PROVE  CountInv'
<1>1. Cardinality(Counted') <= Cardinality(Counted) /\ Cardinality(LeftBehind') <= Cardinality(LeftBehind)
  BY SetsCounted, SmallerSet, ConsumerAssumption
<1>2. Cardinality(Counted') \in Nat /\ Cardinality(LeftBehind') \in Nat
  BY SetsCounted
<1>3. QED BY <1>1, <1>2, SetsCounted DEF CountInv

LEMMA CountCaller ==
  ASSUME IType, CallsInv, CountInv, NEW c \in Callers, CallerNext(c)
  PROVE  CountInv'
<1> USE DEF lifeVars, flagVars, msgVars, At
<1>1. CASE SubscribeOk(c)
  <2>1. NeverUsed BY <1>1 DEF SubscribeOk, CallsInv, Connecting, Subscribing
  <2>2. UNCHANGED <<work, pending>> /\ pendingCount' = 0 BY <1>1 DEF SubscribeOk
  <2>3. Counted' = {} /\ LeftBehind' = {}
    BY <2>1, <2>2 DEF NeverUsed, Engaged, Counted, LeftBehind
  <2>4. QED BY <2>2, <2>3, FS_EmptySet DEF CountInv
<1>2. CASE ReceiveAsyncSpawn(c)
  <2>1. \A w \in Workers : work[w].at = "idle" BY <1>2 DEF ReceiveAsyncSpawn, CallsInv, Spawning
  <2>2. UNCHANGED <<opts, pending, pendingCount>> /\ \A w \in Workers : work'[w].at = "top"
    BY <1>2 DEF ReceiveAsyncSpawn
  <2>3. Unsettled = {} /\ Unsettled' = {} /\ Counted' = {} BY <2>1, <2>2 DEF Unsettled, Counted
  <2>4. LeftBehind' \subseteq LeftBehind BY <2>2, <2>3 DEF LeftBehind
  <2>5. QED BY <2>2, <2>3, <2>4, CountCalm
<1>3. CASE CloseForget(c)
  <2>1. UNCHANGED <<opts, work, pendingCount>> /\ pending' = {} BY <1>3 DEF CloseForget
  <2>2. QED BY <2>1, CountCalm DEF Counted, Unsettled, LeftBehind
<1>4. CASE \/ \E m \in Messages, op \in {"ack", "ackID", "nack"} : SettleCallBegin(c, op, m)
           \/ SettleCallDrop(c)
  <2>1. UNCHANGED <<opts, work, pendingCount>> /\ pending' \subseteq pending
    BY <1>4 DEF SettleCallBegin, SettleCallDrop
  <2>2. QED BY <2>1, CountCalm DEF Counted, Unsettled, LeftBehind
<1>5. CASE SettleCallSend(c)
  <2>1. ~opts.autoAck /\ UNCHANGED opts BY <1>5 DEF SettleCallSend, CallsInv, Settling
  <2>2. QED BY <2>1 DEF CountInv
<1>6. CASE UNCHANGED <<opts, work, pending, pendingCount>>
  BY <1>6, CountCalm DEF Counted, Unsettled, LeftBehind
<1>7. QED
  BY <1>1, <1>2, <1>3, <1>4, <1>5, <1>6
  DEF CallerNext, SubscribeBegin, SubscribeConnect, SubscribeFail, SubscribeFailed, SubscribeReady,
      PauseBegin, ResumeBegin, FlagLock, FlagState, ReceiveAsyncBegin, CloseBegin, CloseLock, CloseMark,
      CloseStop, CloseDrain, CloseDone

LEMMA CountWorker ==
  ASSUME IType, CountInv, NEW w \in Workers, WorkerNext(w)
  PROVE  CountInv'
<1> USE DEF lifeVars, flagVars, msgVars
<1> DEFINE m == work[w].msg
<1>1. UNCHANGED opts /\ \A v \in Workers \ {w} : work'[v] = work[v]
  BY DEF WorkerNext, Step, ToTop, IType, WorkType,
     WorkerExit, WorkerTop, WorkerLoop, ReceiveCheck, ReceiveTake, ReceiveNothing, ReceiveStore,
     HandleOk, HandleFail, SettleCheck, SettleSend, SettleDrop
<1>2. work \in [Workers -> WorkRecord] BY DEF IType, WorkType
<1>3. /\ Cardinality(Counted) \in Nat /\ Cardinality(Counted') \in Nat /\ pendingCount \in Int
      /\ Cardinality(LeftBehind) \in Nat /\ LeftBehind \in SUBSET Messages
  BY SetsCounted DEF Counted
<1>4. ASSUME NEW k, k \in Messages PROVE Cardinality(LeftBehind \cup {k}) <= Cardinality(LeftBehind) + 1
  <2>1. CASE k \in LeftBehind
    <3>1. LeftBehind \cup {k} = LeftBehind BY <2>1
    <3>2. Cardinality(LeftBehind) <= Cardinality(LeftBehind) + 1 BY <1>3
    <3>3. QED BY <3>1, <3>2
  <2>2. CASE k \notin LeftBehind
    <3>1. Cardinality(LeftBehind \cup {k}) = Cardinality(LeftBehind) + 1
      BY <1>3, <2>2, OneMore, ConsumerAssumption
    <3>2. QED BY <1>3, <3>1
  <2>3. QED BY <2>1, <2>2
<1>5. CASE UNCHANGED <<pending, pendingCount>> /\ work[w].at \in {"top", "receive", "select"}
           /\ work'[w].at \in {"top", "receive", "select", "done"}
  <2>1. Counted' = Counted /\ LeftBehind' = LeftBehind
    BY <1>1, <1>5 DEF Counted, LeftBehind, Unsettled
  <2>2. QED BY <1>1, <1>5, <2>1, CountCalm
<1>6. CASE WorkerExit(w) \/ WorkerTop(w) \/ ReceiveCheck(w) \/ ReceiveNothing(w)
  BY <1>2, <1>5, <1>6
  DEF WorkerExit, WorkerTop, WorkerLoop, ReceiveCheck, ReceiveNothing, Step, ToTop, WorkRecord
<1>7. CASE \E k \in Messages : ReceiveTake(w, k)
  <2>1. /\ work[w].at = "select" /\ work'[w].at = "store" /\ UNCHANGED pending
        /\ pendingCount' = pendingCount + 1
    BY <1>2, <1>7 DEF ReceiveTake
  <2>2. Counted' = Counted \cup {w} /\ w \notin Counted /\ LeftBehind' = LeftBehind
    BY <1>1, <2>1 DEF Counted, LeftBehind, Unsettled
  <2>3. Cardinality(Counted') = Cardinality(Counted) + 1
    BY <2>2, OneMore, ConsumerAssumption DEF Counted
  <2>4. QED BY <1>1, <1>3, <2>1, <2>2, <2>3 DEF CountInv
<1>8. CASE ReceiveStore(w)
  <2>1. /\ work[w].at = "store" /\ work'[w].at = "handle" /\ work'[w].msg = m
        /\ pending' = pending \cup {m} /\ UNCHANGED pendingCount
    BY <1>2, <1>8 DEF ReceiveStore, Step, WorkRecord
  <2>2. Counted' = Counted /\ LeftBehind' \subseteq LeftBehind
    BY <1>1, <2>1 DEF Counted, LeftBehind, Unsettled
  <2>3. QED BY <1>1, <2>1, <2>2, CountCalm
<1>9. CASE /\ UNCHANGED <<pending, pendingCount>> /\ work'[w].msg = m
           /\ work[w].at \in {"handle", "ack", "nack"}
           /\ work'[w].at \in {"ack", "nack", "acking", "nacking"}
  <2>1. Counted' = Counted /\ LeftBehind' = LeftBehind
    BY <1>1, <1>9 DEF Counted, LeftBehind, Unsettled
  <2>2. QED BY <1>1, <1>9, <2>1, CountCalm
<1>10. CASE HandleOk(w) /\ opts.autoAck
  BY <1>2, <1>9, <1>10 DEF HandleOk, AfterSuccess, WorkRecord
<1>11. CASE HandleFail(w)
  BY <1>2, <1>9, <1>11 DEF HandleFail, AfterFailure, Step, WorkRecord
<1>12. CASE SettleCheck(w)
  <2>1. CASE isInReadyState BY <1>2, <1>9, <1>12, <2>1 DEF SettleCheck, WorkRecord
  <2>2. CASE ~isInReadyState
    <3>1. /\ work[w].at \in {"ack", "nack"} /\ work'[w].at = "top" /\ UNCHANGED <<pending, pendingCount>>
      BY <1>2, <1>12, <2>2 DEF SettleCheck, ToTop
    <3>2. Counted' = Counted \ {w} /\ w \in Counted BY <1>1, <3>1 DEF Counted
    <3>3. Cardinality(Counted') = Cardinality(Counted) - 1
      BY <3>2, OneLess, ConsumerAssumption DEF Counted
    <3>4. LeftBehind' \subseteq LeftBehind \cup ({m} \cap Messages)
      BY <1>1, <3>1 DEF LeftBehind, Unsettled, IType, MsgType
    <3>5. Cardinality(LeftBehind') <= Cardinality(LeftBehind) + 1 /\ Cardinality(LeftBehind') \in Nat
      <4>1. CASE m \in Messages
        <5>1. LeftBehind' \in SUBSET (LeftBehind \cup {m}) /\ LeftBehind \cup {m} \in SUBSET Messages
          BY <1>3, <3>4, <4>1
        <5>2. Cardinality(LeftBehind') <= Cardinality(LeftBehind \cup {m})
          BY <5>1, SmallerSet, ConsumerAssumption
        <5>3. Cardinality(LeftBehind') \in Nat /\ Cardinality(LeftBehind \cup {m}) \in Nat
          BY <5>1, SetsCounted
        <5>4. QED BY <1>3, <1>4, <4>1, <5>2, <5>3
      <4>2. CASE m \notin Messages
        <5>1. LeftBehind' \in SUBSET LeftBehind BY <3>4, <4>2
        <5>2. Cardinality(LeftBehind') <= Cardinality(LeftBehind)
          BY <1>3, <5>1, SmallerSet, ConsumerAssumption
        <5>3. Cardinality(LeftBehind') \in Nat BY <1>3, <5>1, SetsCounted
        <5>4. QED BY <1>3, <5>2, <5>3
      <4>3. QED BY <4>1, <4>2
    <3>6. QED BY <1>1, <1>3, <3>1, <3>3, <3>5 DEF CountInv
  <2>3. QED BY <2>1, <2>2
<1>13. CASE SettleSend(w)
  <2>1. /\ work[w].at \in {"acking", "nacking"} /\ work'[w].at = "drop" /\ work'[w].msg = m
        /\ UNCHANGED pending /\ pendingCount' = pendingCount - 1
    BY <1>2, <1>13 DEF SettleSend, WorkRecord
  <2>2. Counted' = Counted \ {w} /\ w \in Counted /\ LeftBehind' = LeftBehind
    BY <1>1, <2>1 DEF Counted, LeftBehind, Unsettled
  <2>3. Cardinality(Counted') = Cardinality(Counted) - 1
    BY <2>2, OneLess, ConsumerAssumption DEF Counted
  <2>4. QED BY <1>1, <1>3, <2>1, <2>2, <2>3 DEF CountInv
<1>14. CASE SettleDrop(w)
  <2>1. /\ work[w].at = "drop" /\ work'[w].at = "top" /\ pending' = pending \ {m} /\ UNCHANGED pendingCount
    BY <1>2, <1>14 DEF SettleDrop, SettleDropped, ToTop
  <2>2. Counted' = Counted /\ LeftBehind' \subseteq LeftBehind
    BY <1>1, <2>1 DEF Counted, LeftBehind, Unsettled
  <2>3. QED BY <1>1, <2>1, <2>2, CountCalm
<1>15. CASE ~opts.autoAck BY <1>1, <1>15 DEF CountInv
<1>16. QED
  BY <1>6, <1>7, <1>8, <1>10, <1>11, <1>12, <1>13, <1>14, <1>15 DEF WorkerNext

LEMMA CountStep ==
  ASSUME IType, CallsInv, CountInv, [Next]_vars
  PROVE  CountInv'
<1>1. CASE \E c \in Callers : CallerNext(c) BY <1>1, CountCaller
<1>2. CASE \E w \in Workers : WorkerNext(w) BY <1>2, CountWorker
<1>3. CASE TickerNext \/ (\E m \in Messages : BrokerPush(m)) \/ UNCHANGED vars
  <2>1. UNCHANGED <<opts, work, pending, pendingCount>>
    BY <1>3 DEF TickerNext, HealthLock, HealthCheck, HealthStop, BrokerPush, vars, flagVars, msgVars
  <2>2. QED BY <2>1, CountCalm DEF Counted, Unsettled, LeftBehind
<1>4. QED BY <1>1, <1>2, <1>3 DEF Next

\* The messages in the map are left behind, or of a worker that has stored one.
LEMMA MapCovered ==
  ASSUME IType, CountInv, opts.autoAck
  PROVE  Cardinality(pending) <= pendingCount + Cardinality({w \in Workers : work[w].at = "drop"})
<1> DEFINE Dropping == {w \in Workers : work[w].at = "drop"}
           InMap    == {work[w].msg : w \in Unsettled}
           f        == [w \in Unsettled |-> work[w].msg]
<1>1. /\ IsFiniteSet(Unsettled) /\ IsFiniteSet(Counted) /\ IsFiniteSet(Dropping) /\ IsFiniteSet(pending)
      /\ IsFiniteSet(LeftBehind)
      /\ Cardinality(Unsettled) \in Nat /\ Cardinality(Counted) \in Nat /\ Cardinality(Dropping) \in Nat
      /\ Cardinality(pending) \in Nat /\ Cardinality(LeftBehind) \in Nat /\ pendingCount \in Int
  BY SetsCounted DEF Unsettled, Counted, IType, MsgType
<1>2. f \in Surjection(Unsettled, InMap) BY Fun_IsSurj
<1>3. IsFiniteSet(InMap) /\ Cardinality(InMap) <= Cardinality(Unsettled)
  BY <1>1, <1>2, FS_Surjection
<1>4. Cardinality(InMap) \in Nat BY <1>3, FS_CardinalityType
<1>5. Cardinality(Unsettled) <= Cardinality(Counted) + Cardinality(Dropping)
  <2>1. Unsettled \in SUBSET (Counted \cup Dropping) BY DEF Unsettled, Counted
  <2>2. /\ IsFiniteSet(Counted \cup Dropping)
        /\ Cardinality(Counted \cup Dropping) <= Cardinality(Counted) + Cardinality(Dropping)
    <3>1. /\ IsFiniteSet(Counted \cup Dropping) /\ IsFiniteSet(Counted \cap Dropping)
          /\ Cardinality(Counted \cup Dropping)
               = Cardinality(Counted) + Cardinality(Dropping) - Cardinality(Counted \cap Dropping)
      BY <1>1, FS_Union, FS_Intersection
    <3>2. Cardinality(Counted \cap Dropping) \in Nat BY <3>1, FS_CardinalityType
    <3>3. QED BY <1>1, <3>1, <3>2
  <2>3. Cardinality(Unsettled) <= Cardinality(Counted \cup Dropping) BY <2>1, <2>2, FS_Subset
  <2>4. Cardinality(Counted \cup Dropping) \in Nat BY <2>2, FS_CardinalityType
  <2>5. QED BY <1>1, <2>2, <2>3, <2>4
<1>6. Cardinality(pending) <= Cardinality(LeftBehind) + Cardinality(InMap)
  <2>1. pending \in SUBSET (LeftBehind \cup InMap) BY DEF LeftBehind
  <2>2. /\ IsFiniteSet(LeftBehind \cup InMap)
        /\ Cardinality(LeftBehind \cup InMap) <= Cardinality(LeftBehind) + Cardinality(InMap)
    <3>1. /\ IsFiniteSet(LeftBehind \cup InMap) /\ IsFiniteSet(LeftBehind \cap InMap)
          /\ Cardinality(LeftBehind \cup InMap)
               = Cardinality(LeftBehind) + Cardinality(InMap) - Cardinality(LeftBehind \cap InMap)
      BY <1>1, <1>3, FS_Union, FS_Intersection
    <3>2. Cardinality(LeftBehind \cap InMap) \in Nat BY <3>1, FS_CardinalityType
    <3>3. QED BY <1>1, <1>4, <3>1, <3>2
  <2>3. Cardinality(pending) <= Cardinality(LeftBehind \cup InMap) BY <2>1, <2>2, FS_Subset
  <2>4. Cardinality(LeftBehind \cup InMap) \in Nat BY <2>2, FS_CardinalityType
  <2>5. QED BY <1>1, <1>4, <2>2, <2>3, <2>4
<1>7. QED BY <1>1, <1>3, <1>4, <1>5, <1>6 DEF CountInv

\* Under EnableAutoAck the PendingMessages metric never falls below the map it
\* counts by more than the workers between lowering the one and deleting from
\* the other, although workers, redeliveries of one message, Subscribe's reset
\* and Close write the two one after the other.
THEOREM MetricSafety == Spec => []PendingMetricCoversMap
<1> DEFINE Inv == IType /\ InHand /\ CallsInv /\ CountInv
<1>1. Init => Inv
  <2> SUFFICES ASSUME Init PROVE Inv OBVIOUS
  <2>1. Init /\ IType /\ InHand BY InitType DEF Init, InHand, Engaged, Idle
  <2>2. CallsInv
    BY <2>1 DEF Init, CallsInv, Idle, Spawning, Subscribing, Connecting, Settling, InClose, NeverUsed,
       Engaged
  <2>3. Counted = {} /\ LeftBehind = {} BY <2>1 DEF Init, Counted, LeftBehind
  <2>4. CountInv BY <2>1, <2>3, FS_EmptySet DEF Init, CountInv
  <2>5. QED BY <2>1, <2>2, <2>4
<1>2. Inv /\ [Next]_vars => Inv' BY TypeStep, CallsStep, CountStep
<1>3. Inv => PendingMetricCoversMap BY MapCovered DEF PendingMetricCoversMap
<1>4. QED BY <1>1, <1>2, <1>3, PTL DEF Spec
=============================================================================
