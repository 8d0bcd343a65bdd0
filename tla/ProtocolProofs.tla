---------------------------- MODULE ProtocolProofs ----------------------------
(***************************************************************************)
(* Proofs about the MySQL protocol: client and server stay in step         *)
(* (ProtocolSafety).                                                       *)
(*                                                                         *)
(* While nothing is aligned, what is on its way to the client is what      *)
(* remains of the server's answer (Conversation): each packet is assigned  *)
(* a message and the bytes before it (Spread).  A message written behind   *)
(* others extends the assignment, a packet read leaves its rest; that the  *)
(* client stops at the end of an answer is that no proper part of one is   *)
(* complete (Answers).                                                     *)
(***************************************************************************)
EXTENDS Formats, WellFoundedInduction, SequenceTheorems, FiniteSetTheorems, TLAPS

-----------------------------------------------------------------------------
(* Lists.                                                                  *)

\* A list that begins with the elements of another has it as a prefix.
LEMMA FirstArePrefix ==
  ASSUME NEW T, NEW s \in Seq(T), NEW t \in Seq(T), Len(s) <= Len(t), \A i \in 1..Len(s) : s[i] = t[i]
  PROVE  IsPrefix(s, t)
<1>1. Len(s) \in Nat /\ Len(t) \in Nat
  OBVIOUS
<1>2. SubSeq(s, 1, Len(s)) = s
  BY SubSeqFull
<1>3. /\ SubSeq(t, 1, Len(s)) \in Seq(T) /\ Len(SubSeq(t, 1, Len(s))) = Len(s)
      /\ \A i \in 1..Len(s) : SubSeq(t, 1, Len(s))[i] = t[i]
  BY <1>1
<1>4. s = SubSeq(t, 1, Len(s))
  BY <1>3, SeqEqual
<1> QED BY <1>2, <1>4 DEF IsPrefix

-----------------------------------------------------------------------------
(* The MySQL protocol: values.  A sum over a list is a fold of             *)
(* SequencesExt, a recursive function over sets of places: that such a     *)
(* function exists is shown first, then that it runs through the places in *)
(* order.                                                                  *)

\* What passes from each place to the next holds up to the last.
LEMMA UpTo ==
  ASSUME NEW n \in Nat, NEW P \in SUBSET (0..n), 0 \in P,
         \A i \in 1..n : i - 1 \in P => i \in P
  PROVE  P = 0..n
<1> SUFFICES ASSUME P # 0..n PROVE FALSE
  OBVIOUS
<1> DEFINE Bad == (0..n) \ P
<1>0. P \subseteq 0..n
  OBVIOUS
<1>1. Bad \subseteq Nat /\ Bad # {}
  <2>1. PICK x \in 0..n : x \notin P
    BY <1>0, Zenon
  <2>2. \A y \in 0..n : y \in Nat
    OBVIOUS
  <2> QED BY <2>1, <2>2, Zenon
<1>2. PICK m \in Bad : \A y \in Bad : ~(<<y, m>> \in OpToRel(<, Nat))
  BY <1>1, WFMin, NatLessThanWellFounded
<1>3. \A y \in Bad : ~(y < m)
  BY <1>1, <1>2 DEF OpToRel
<1>4. m \in 1..n
  OBVIOUS
<1>5. m - 1 \in 0..n /\ m - 1 \notin P
  BY <1>4
<1>6. m - 1 < m
  BY <1>4
<1> QED BY <1>3, <1>5, <1>6

\* The last place of a set of places.
LEMMA MaxOf ==
  ASSUME NEW m \in Nat, NEW s \in SUBSET (1..m), m \in s
  PROVE  Max(s) = m
<1>1. \A x \in s : x \in Nat /\ m >= x
  OBVIOUS
<1>2. Max(s) \in s /\ Max(s) >= m
  BY <1>1 DEF Max
<1>3. Max(s) \in Nat /\ m >= Max(s)
  BY <1>1, <1>2
<1> QED BY <1>2, <1>3

\* A set of places has a last one.
LEMMA LastIsIn ==
  ASSUME NEW n \in Nat, NEW s \in SUBSET (1..n), s # {}
  PROVE  Max(s) \in s
<1> DEFINE Bounds == {x \in Nat : \A y \in s : y <= x}
<1>1. Bounds \subseteq Nat /\ n \in Bounds
  OBVIOUS
<1>2. PICK m \in Bounds : \A y \in Bounds : ~(<<y, m>> \in OpToRel(<, Nat))
  BY <1>1, WFMin, NatLessThanWellFounded
<1>3. \A y \in Bounds : ~(y < m)
  BY <1>1, <1>2 DEF OpToRel
<1>4. m \in Nat /\ \A y \in s : y \in Nat \ {0} /\ y <= m
  OBVIOUS
<1>5. m \in s
  <2> SUFFICES ASSUME m \notin s PROVE FALSE
    OBVIOUS
  <2>1. \A y \in s : y <= m - 1
    BY <1>4
  <2>2. m - 1 \in Nat
    <3>1. PICK y \in s : TRUE
      OBVIOUS
    <3> QED BY <1>4, <3>1
  <2>3. m - 1 \in Bounds
    BY <2>1, <2>2
  <2> QED BY <1>3, <1>4, <2>3
<1>6. \A y \in s : m >= y
  BY <1>4
<1> QED BY <1>5, <1>6 DEF Max

\* g is the fold of F over the sets of the first m places.
IsFold(g, m, base, F) == \A s \in SUBSET (1..m) :
  g[s] = IF s = {} THEN base ELSE F[<<g[s \ {Max(s)}], Max(s)>>]

\* A fold that stays in X exists.
LEMMA FoldExists ==
  ASSUME NEW n \in Nat, NEW X, NEW base \in X, NEW F \in [X \X (1..n) -> X]
  PROVE  \E g \in [SUBSET (1..n) -> X] : IsFold(g, n, base, F)
<1> DEFINE P == {m \in 0..n : \E g \in [SUBSET (1..m) -> X] : IsFold(g, m, base, F)}
<1>1. 0 \in P
  <2> DEFINE g == [s \in SUBSET (1..0) |-> base]
  <2>1. \A s \in SUBSET (1..0) : s = {}
    OBVIOUS
  <2>2. g \in [SUBSET (1..0) -> X] /\ IsFold(g, 0, base, F)
    BY <2>1 DEF IsFold
  <2>3. 0 \in 0..n
    OBVIOUS
  <2>4. \E f \in [SUBSET (1..0) -> X] : IsFold(f, 0, base, F)
    BY <2>2
  <2> QED BY <2>3, <2>4, Zenon
<1>2. ASSUME NEW m \in 1..n, m - 1 \in P PROVE m \in P
  <2>1. PICK h \in [SUBSET (1..(m - 1)) -> X] : IsFold(h, m - 1, base, F)
    BY <1>2
  <2> DEFINE g == [s \in SUBSET (1..m) |-> IF m \in s THEN F[<<h[s \ {m}], m>>] ELSE h[s]]
  <2>2. \A s \in SUBSET (1..m) : s \ {m} \in SUBSET (1..(m - 1)) /\ (m \notin s => s \in SUBSET (1..(m - 1)))
    OBVIOUS
  <2>3. g \in [SUBSET (1..m) -> X]
    <3>1. ASSUME NEW s \in SUBSET (1..m) PROVE g[s] \in X
      BY <2>2
    <3> QED BY <3>1
  <2>4. ASSUME NEW s \in SUBSET (1..m)
        PROVE  g[s] = IF s = {} THEN base ELSE F[<<g[s \ {Max(s)}], Max(s)>>]
    <3>1. CASE m \in s
      <4>1. Max(s) = m
        BY <3>1, MaxOf
      <4>2. s \ {m} \in SUBSET (1..m) /\ g[s \ {m}] = h[s \ {m}]
        BY <2>2
      <4> QED BY <3>1, <4>1, <4>2
    <3>2. CASE m \notin s /\ s = {}
      <4>1. g[s] = h[s] /\ h[s] = base
        BY <2>1, <2>2, <3>2 DEF IsFold
      <4> QED BY <3>2, <4>1
    <3>3. CASE m \notin s /\ s # {}
      <4>1. PICK k : k = Max(s)
        OBVIOUS
      <4>2. g[s] = h[s] /\ h[s] = F[<<h[s \ {k}], k>>]
        BY <2>1, <2>2, <3>3, <4>1 DEF IsFold
      <4>3. s \ {k} \in SUBSET (1..m) /\ m \notin s \ {k} /\ g[s \ {k}] = h[s \ {k}]
        BY <3>3
      <4> QED BY <3>3, <4>1, <4>2, <4>3
    <3> QED BY <3>1, <3>2, <3>3
  <2>5. IsFold(g, m, base, F)
    BY <2>4 DEF IsFold
  <2> HIDE DEF g
  <2> QED BY <2>3, <2>5
<1> HIDE DEF P
<1>3. P = 0..n
  <2>1. P \in SUBSET (0..n)
    BY DEF P
  <2> QED BY <1>1, <1>2, <2>1, UpTo
<1>4. n \in P
  BY <1>3
<1> QED BY <1>4 DEF P

\* g makes the steps of the fold as long as it stays in X.
Follows(g, n, X, base, F) ==
  /\ g[{}] = base
  /\ \A s \in SUBSET (1..n) : s # {} /\ g[s \ {Max(s)}] \in X =>
       g[s] = F[<<g[s \ {Max(s)}], Max(s)>>]

\* The values of the fold, place by place.
Runs(r, n, base, F, last) ==
  r[0] = base /\ r[n] = last /\ \A i \in 1..n : r[i] = F[<<r[i - 1], i>>]

\* Such a function, over the first places of a list, runs through them in order.
LEMMA FoldRuns ==
  ASSUME NEW n \in Nat, NEW X, NEW base \in X, NEW F \in [X \X (1..n) -> X], NEW iter,
         Follows(iter, n, X, base, F)
  PROVE  \E r \in [0..n -> X] : Runs(r, n, base, F, iter[1..n])
<1> USE DEF Follows
<1> DEFINE P == {i \in 0..n : iter[1..i] \in X}
<1>1. ASSUME NEW i \in 1..n
      PROVE  /\ 1..i \in SUBSET (1..n) /\ 1..i # {} /\ Max(1..i) = i /\ (1..i) \ {i} = 1..(i - 1)
             /\ i \in 0..n /\ i - 1 \in 0..n
  <2>1. i \in Nat /\ 1..i \in SUBSET (1..i) /\ i \in 1..i
    OBVIOUS
  <2>2. Max(1..i) = i
    BY <2>1, MaxOf
  <2>3. \A x : x \in (1..i) \ {i} <=> x \in 1..(i - 1)
    OBVIOUS
  <2>4. (1..i) \ {i} = 1..(i - 1)
    BY <2>3
  <2>5. 1..i \subseteq 1..n /\ i \in 0..n /\ i - 1 \in 0..n
    OBVIOUS
  <2>6. 1..i # {}
    BY <2>1
  <2> QED BY <2>2, <2>4, <2>5, <2>6
<1>2. ASSUME NEW i \in 1..n, iter[1..(i - 1)] \in X
      PROVE  iter[1..i] = F[<<iter[1..(i - 1)], i>>] /\ iter[1..i] \in X
  <2>1. iter[1..i] = F[<<iter[1..(i - 1)], i>>]
    BY <1>1, <1>2
  <2>2. <<iter[1..(i - 1)], i>> \in X \X (1..n)
    BY <1>2
  <2> QED BY <2>1, <2>2
<1>3. 1..0 = {} /\ 0 \in 0..n
  OBVIOUS
<1>4. 0 \in P
  BY <1>3
<1>5. ASSUME NEW i \in 1..n, i - 1 \in P PROVE i \in P
  BY <1>1, <1>2, <1>5
<1>6. P = 0..n
  <2>1. P \in SUBSET (0..n)
    OBVIOUS
  <2> HIDE DEF P
  <2> QED BY <1>4, <1>5, <2>1, UpTo
<1>7. \A i \in 0..n : iter[1..i] \in X
  BY <1>6
<1> DEFINE r == [i \in 0..n |-> iter[1..i]]
<1>8. r \in [0..n -> X] /\ n \in 0..n
  BY <1>7
<1>9. r[0] = base /\ r[n] = iter[1..n]
  BY <1>3, <1>8
<1>10. ASSUME NEW i \in 1..n PROVE r[i] = F[<<r[i - 1], i>>]
  BY <1>1, <1>2, <1>7
<1> HIDE DEF r
<1> QED BY <1>8, <1>9, <1>10 DEF Runs

\* The sums up to each place of a list.
Sums(r, numbers, n) ==
  r[0] = 0 /\ r[n] = Total(numbers) /\ \A i \in 1..n : r[i] = r[i - 1] + numbers[i]

\* The sum of a list goes up from place to place.
LEMMA TotalRuns ==
  ASSUME NEW n \in Nat, NEW numbers \in [1..n -> Int]
  PROVE  \E r \in [0..n -> Int] : Sums(r, numbers, n)
<1> DEFINE F == [p \in Int \X (1..n) |-> p[1] + numbers[p[2]]]
           Step(f, s) == IF s = {} THEN 0 ELSE f[s \ {Max(s)}] + numbers[Max(s)]
           iter == CHOOSE f : f = [s \in SUBSET DOMAIN numbers |-> Step(f, s)]
<1>1. Total(numbers) = iter[DOMAIN numbers]
  BY DEF Total, FoldLeft, MapThenFoldSet
<1>2. DOMAIN numbers = 1..n /\ 0 \in Int
  OBVIOUS
<1> HIDE DEF iter
<1>4. F \in [Int \X (1..n) -> Int]
  OBVIOUS
<1>5. PICK g \in [SUBSET (1..n) -> Int] : IsFold(g, n, 0, F)
  <2> HIDE DEF F
  <2> QED BY <1>2, <1>4, FoldExists
<1>6. g = [s \in SUBSET DOMAIN numbers |-> Step(g, s)]
  <2>1. ASSUME NEW s \in SUBSET (1..n) PROVE g[s] = Step(g, s)
    <3>1. CASE s = {}
      BY <1>5, <3>1 DEF IsFold
    <3>2. CASE s # {}
      <4>1. PICK k : k = Max(s)
        OBVIOUS
      <4>2. k \in s
        BY <3>2, <4>1, LastIsIn
      <4>3. g[s] = F[<<g[s \ {k}], k>>] /\ g[s \ {k}] \in Int /\ k \in 1..n
        BY <1>5, <3>2, <4>1, <4>2 DEF IsFold
      <4>4. F[<<g[s \ {k}], k>>] = g[s \ {k}] + numbers[k]
        BY <4>3
      <4> QED BY <3>2, <4>1, <4>3, <4>4
    <3> QED BY <3>1, <3>2
  <2> HIDE DEF Step
  <2> QED BY <1>2, <2>1
<1>7. iter = [s \in SUBSET DOMAIN numbers |-> Step(iter, s)]
  <2> HIDE DEF Step
  <2> QED BY <1>6 DEF iter
<1>8. \A s \in SUBSET (1..n) : iter[s] = Step(iter, s)
  <2> HIDE DEF Step
  <2> QED BY <1>2, <1>7
<1>9. Follows(iter, n, Int, 0, F)
  <2>1. iter[{}] = 0
    BY <1>8
  <2>2. ASSUME NEW s \in SUBSET (1..n), s # {}, iter[s \ {Max(s)}] \in Int
        PROVE  iter[s] = F[<<iter[s \ {Max(s)}], Max(s)>>]
    <3>1. Max(s) \in 1..n
      BY <2>2, LastIsIn
    <3>2. iter[s] = iter[s \ {Max(s)}] + numbers[Max(s)]
      BY <1>8, <2>2
    <3> QED BY <2>2, <3>1, <3>2
  <2> HIDE DEF F, Step
  <2> QED BY <2>1, <2>2 DEF Follows
<1>10. PICK r \in [0..n -> Int] : Runs(r, n, 0, F, iter[1..n])
  <2> HIDE DEF F, Step
  <2> QED BY <1>2, <1>4, <1>9, FoldRuns
<1>11. ASSUME NEW i \in 1..n PROVE r[i] = r[i - 1] + numbers[i]
  <2>1. r[i] = F[<<r[i - 1], i>>] /\ r[i - 1] \in Int
    <3>1. i - 1 \in 0..n
      OBVIOUS
    <3> HIDE DEF F
    <3> QED BY <1>10, <3>1 DEF Runs
  <2>2. <<r[i - 1], i>> \in Int \X (1..n)
    BY <2>1
  <2> QED BY <2>1, <2>2
<1>12. r[0] = 0 /\ r[n] = Total(numbers)
  BY <1>1, <1>2, <1>10 DEF Runs
<1> QED BY <1>10, <1>11, <1>12 DEF Sums

\* A value that is encoded by its own type.
WrittenAsItIs(v) == SizeWritten(v, v.type)

\* A time that is not zero is read one byte longer, and written one byte shorter, than it is sent.
LEMMA SizesAre ==
  \A v \in Values : /\ SizeSent(v) \in Nat /\ SizeRead(v) \in Nat /\ WrittenAsItIs(v) \in Nat
                    /\ IF v.type = "time" /\ v.length > 0
                       THEN SizeRead(v) = SizeSent(v) + 1 /\ WrittenAsItIs(v) = SizeSent(v) - 1
                       ELSE SizeRead(v) = SizeSent(v) /\ WrittenAsItIs(v) = SizeSent(v)
  BY DEF Values, SizeSent, SizeRead, WrittenAsItIs, SizeWritten, FixedSize

(* Each value is read one byte further, and written one byte earlier by    *)
(* its own type, for every time before it.                                 *)
LEMMA OffsetsAre ==
  ASSUME NEW values \in Seq(Values), NEW i \in 1..Len(values)
  PROVE  /\ ReadFrom(values, i) = Offset(SizeSent, values, i) + Cardinality(TimesBefore(values, i))
         /\ Offset(WrittenAsItIs, values, i) = Offset(SizeSent, values, i) - Cardinality(TimesBefore(values, i))
<1> DEFINE n == i - 1
           read == [j \in 1..n |-> SizeRead(values[j])]
           gone == [j \in 1..n |-> SizeSent(values[j])]
           put == [j \in 1..n |-> WrittenAsItIs(values[j])]
<1>1. n \in Nat /\ \A j \in 1..n : values[j] \in Values
  OBVIOUS
<1>2. read \in [1..n -> Int] /\ gone \in [1..n -> Int] /\ put \in [1..n -> Int]
  <2>1. \A j \in 1..n : SizeRead(values[j]) \in Int /\ SizeSent(values[j]) \in Int /\ WrittenAsItIs(values[j]) \in Int
    BY <1>1, SizesAre
  <2> QED BY <2>1
<1>3. \A j \in 1..n : IF values[j].type = "time" /\ values[j].length > 0
                      THEN read[j] = gone[j] + 1 /\ put[j] = gone[j] - 1
                      ELSE read[j] = gone[j] /\ put[j] = gone[j]
  BY <1>1, SizesAre
<1>4. /\ ReadFrom(values, i) = Total(read) /\ Offset(SizeSent, values, i) = Total(gone)
      /\ Offset(WrittenAsItIs, values, i) = Total(put)
  BY DEF ReadFrom, Offset
<1> HIDE DEF n, read, gone, put
<1>5. PICK r \in [0..n -> Int] : Sums(r, read, n)
  BY <1>1, <1>2, TotalRuns
<1>6. PICK g \in [0..n -> Int] : Sums(g, gone, n)
  BY <1>1, <1>2, TotalRuns
<1>7. PICK p \in [0..n -> Int] : Sums(p, put, n)
  BY <1>1, <1>2, TotalRuns
<1> DEFINE C(k) == Cardinality(TimesBefore(values, k + 1))
           P == {k \in 0..n : r[k] = g[k] + C(k) /\ p[k] = g[k] - C(k)}
<1>8. \A k \in 0..n : C(k) \in Nat /\ IsFiniteSet(TimesBefore(values, k + 1))
  <2> TAKE k \in 0..n
  <2>1. TimesBefore(values, k + 1) \subseteq 1..k /\ k \in Nat
    BY <1>1 DEF TimesBefore
  <2>2. IsFiniteSet(1..k)
    BY <2>1, FS_Interval
  <2> QED BY <2>1, <2>2, FS_Subset, FS_CardinalityType
<1>9. C(0) = 0 /\ 0 \in 0..n
  <2>1. TimesBefore(values, 0 + 1) = {} /\ 0 \in 0..n
    BY <1>1 DEF TimesBefore
  <2>2. Cardinality({}) = 0
    BY FS_EmptySet
  <2> QED BY <2>1, <2>2
<1>10. ASSUME NEW k \in 1..n
       PROVE  C(k) = IF values[k].type = "time" /\ values[k].length > 0 THEN C(k - 1) + 1 ELSE C(k - 1)
  <2>1. k - 1 \in 0..n /\ (k - 1) + 1 = k /\ k \notin TimesBefore(values, k)
    BY <1>1 DEF TimesBefore
  <2>0. /\ TimesBefore(values, k + 1) = {j \in 1..k : values[j].type = "time" /\ values[j].length > 0}
        /\ TimesBefore(values, k) = {j \in 1..(k - 1) : values[j].type = "time" /\ values[j].length > 0}
        /\ \A j : j \in 1..k <=> j \in 1..(k - 1) \/ j = k
    <3>1. k \in Nat /\ k > 0 /\ (k + 1) - 1 = k
      BY <1>1
    <3> QED BY <3>1 DEF TimesBefore
  <2>2. CASE values[k].type = "time" /\ values[k].length > 0
    <3>1. TimesBefore(values, k + 1) = TimesBefore(values, k) \cup {k}
      <4>1. \A j : j \in TimesBefore(values, k + 1) <=> j \in TimesBefore(values, k) \/ j = k
        BY <2>0, <2>2, Zenon
      <4> QED BY <4>1
    <3> QED BY <1>8, <2>1, <2>2, <3>1, FS_AddElement, ZenonT(60)
  <2>3. CASE ~(values[k].type = "time" /\ values[k].length > 0)
    <3>1. TimesBefore(values, k + 1) = TimesBefore(values, k)
      <4>1. \A j : j \in TimesBefore(values, k + 1) <=> j \in TimesBefore(values, k)
        BY <2>0, <2>3, Zenon
      <4> QED BY <4>1
    <3> QED BY <2>1, <2>3, <3>1
  <2> QED BY <2>2, <2>3
<1>11. 0 \in P
  <2>1. r[0] = 0 /\ g[0] = 0 /\ p[0] = 0
    BY <1>5, <1>6, <1>7 DEF Sums
  <2> HIDE DEF C
  <2> QED BY <1>9, <2>1
<1>12. ASSUME NEW k \in 1..n, k - 1 \in P PROVE k \in P
  <2>1. r[k] = r[k - 1] + read[k] /\ g[k] = g[k - 1] + gone[k] /\ p[k] = p[k - 1] + put[k]
    BY <1>5, <1>6, <1>7 DEF Sums
  <2>2. k \in 0..n /\ k - 1 \in 0..n
    BY <1>1
  <2>3. C(k - 1) \in Nat /\ read[k] \in Int /\ gone[k] \in Int /\ put[k] \in Int
        /\ r[k - 1] \in Int /\ g[k - 1] \in Int /\ p[k - 1] \in Int
    BY <1>2, <1>5, <1>6, <1>7, <1>8, <2>2
  <2>4. r[k - 1] = g[k - 1] + C(k - 1) /\ p[k - 1] = g[k - 1] - C(k - 1)
    BY <1>12
  <2> HIDE DEF C
  <2>5. PICK before \in Int, here \in Int, late \in Int :
             /\ C(k - 1) = before /\ C(k) = here /\ here = before + late
             /\ read[k] = gone[k] + late /\ put[k] = gone[k] - late
    <3>1. CASE values[k].type = "time" /\ values[k].length > 0
      <4>1. read[k] = gone[k] + 1 /\ put[k] = gone[k] - 1 /\ C(k) = C(k - 1) + 1
        BY <1>3, <1>10, <3>1
      <4> QED BY <2>3, <4>1
    <3>2. CASE ~(values[k].type = "time" /\ values[k].length > 0)
      <4>1. read[k] = gone[k] + 0 /\ put[k] = gone[k] - 0 /\ C(k) = C(k - 1) + 0
        BY <1>3, <1>10, <2>3, <3>2
      <4> QED BY <2>3, <4>1
    <3> QED BY <3>1, <3>2
  <2>6. r[k] = g[k] + C(k)
    <3>1. r[k - 1] = g[k - 1] + before
      BY <2>4, <2>5
    <3>2. r[k] = (g[k - 1] + before) + (gone[k] + late) /\ g[k] = g[k - 1] + gone[k] /\ here = before + late
      BY <2>1, <2>5, <3>1
    <3>3. r[k] = g[k] + here
      <4>1. g[k - 1] \in Int /\ gone[k] \in Int
        BY <2>3
      <4> QED BY <3>2, <4>1
    <3> QED BY <2>5, <3>3, Zenon
  <2>7. p[k] = g[k] - C(k)
    <3>1. p[k - 1] = g[k - 1] - before
      BY <2>4, <2>5
    <3>2. p[k] = (g[k - 1] - before) + (gone[k] - late) /\ g[k] = g[k - 1] + gone[k] /\ here = before + late
      BY <2>1, <2>5, <3>1
    <3>3. p[k] = g[k] - here
      <4>1. g[k - 1] \in Int /\ gone[k] \in Int
        BY <2>3
      <4> QED BY <3>2, <4>1
    <3> QED BY <2>5, <3>3, Zenon
  <2> QED BY <2>2, <2>6, <2>7
<1>13. P = 0..n
  <2>1. P \in SUBSET (0..n)
    OBVIOUS
  <2> HIDE DEF P
  <2> QED BY <1>1, <1>11, <1>12, <2>1, UpTo
<1>14. n \in P /\ n + 1 = i
  <2>1. n \in 0..n
    BY <1>1
  <2>2. n + 1 = i
    BY DEF n
  <2> HIDE DEF P
  <2> QED BY <1>13, <2>1, <2>2
<1>15. r[n] = Total(read) /\ g[n] = Total(gone) /\ p[n] = Total(put)
  BY <1>5, <1>6, <1>7 DEF Sums
<1> QED BY <1>4, <1>14, <1>15

\* The values before one are written as they are when they are encoded by their own types.
LEMMA RowsAre ==
  ASSUME NEW values, NEW paramTypes, NEW i,
         \A j \in 1..(i - 1) : EncodedAs(values, paramTypes, j) = values[j].type
  PROVE  WrittenAt(values, paramTypes, i) = Offset(WrittenAsItIs, values, i)
<1>1. [j \in 1..(i - 1) |-> SizeWritten(values[j], EncodedAs(values, paramTypes, j))]
        = [j \in 1..(i - 1) |-> WrittenAsItIs(values[j])]
  BY Zenon DEF WrittenAsItIs
<1> QED BY <1>1, Zenon DEF WrittenAt, Offset

-----------------------------------------------------------------------------
(* The MySQL protocol: written lengths and names of types.                 *)

\* The values of the places.
LEMMA PlacesAre == 256^0 = 1 /\ 256^1 = 256 /\ 256^2 = 65536 /\ 256^3 = 16777216
  OBVIOUS

\* The bytes of a number, each at the value of its place.
Weighed(bytes, k) ==
  bytes[1] + 256 * bytes[2] + (IF k > 2 THEN 65536 * bytes[3] ELSE 0) + (IF k > 3 THEN 16777216 * bytes[4] ELSE 0)

\* The number of a list of bytes is the sum of their weights.
LEMMA NumberIs ==
  ASSUME NEW k \in 2..4, NEW bytes \in [1..k -> Nat]
  PROVE  Number(bytes) = Weighed(bytes, k)
<1> DEFINE digits == [i \in 1..k |-> bytes[i] * 256^(i - 1)]
<1>1. Len(bytes) = k
  OBVIOUS
<1>2. /\ digits[1] = bytes[1] /\ digits[2] = 256 * bytes[2]
      /\ k > 2 => digits[3] = 65536 * bytes[3]
      /\ k > 3 => digits[4] = 16777216 * bytes[4]
  <2>1. 1 \in 1..k /\ 2 \in 1..k /\ (k > 2 => 3 \in 1..k) /\ (k > 3 => 4 \in 1..k)
    OBVIOUS
  <2>2. digits[1] = bytes[1] * 256^0 /\ digits[2] = bytes[2] * 256^1
    BY <2>1
  <2>3. (k > 2 => digits[3] = bytes[3] * 256^2) /\ (k > 3 => digits[4] = bytes[4] * 256^3)
    BY <2>1
  <2> HIDE DEF digits
  <2> QED BY <2>1, <2>2, <2>3, PlacesAre
<1>3. digits \in [1..k -> Int]
  <2>1. ASSUME NEW i \in 1..k PROVE digits[i] \in Int
    <3>1. i \in {1, 2, 3, 4}
      OBVIOUS
    <3> HIDE DEF digits
    <3> QED BY <1>2, <3>1, SMTT(30)
  <2> QED BY <2>1
<1>4. Number(bytes) = Total(digits)
  BY <1>1 DEF Number
<1> HIDE DEF digits
<1>5. PICK r \in [0..k -> Int] : Sums(r, digits, k)
  BY <1>3, TotalRuns
<1>6. /\ r[0] = 0 /\ r[1] = r[0] + digits[1] /\ r[2] = r[1] + digits[2]
      /\ (k > 2 => r[3] = r[2] + digits[3]) /\ (k > 3 => r[4] = r[3] + digits[4]) /\ r[k] = Total(digits)
  BY <1>5 DEF Sums
<1>7. k = 2 \/ k = 3 \/ k = 4
  OBVIOUS
<1> QED BY <1>2, <1>4, <1>6, <1>7 DEF Weighed

\* A number is its last digit and what is before it; as many digits as it has add up to it.
LEMMA LastDigit ==
  ASSUME NEW n \in Nat
  PROVE  n \div 256 \in Nat /\ n % 256 \in 0..255 /\ n = 256 * (n \div 256) + (n % 256)
  OBVIOUS

\* What is before the last two, three digits.
LEMMA DigitsBefore ==
  ASSUME NEW n \in Nat
  PROVE  n \div 65536 = (n \div 256) \div 256 /\ n \div 16777216 = ((n \div 256) \div 256) \div 256
  OBVIOUS

\* One byte holds a number below 256.
LEMMA OneDigit ==
  ASSUME NEW n \in Nat, n < 256
  PROVE  n = n % 256
  OBVIOUS

\* Two bytes hold a number below 65536.
LEMMA TwoDigits ==
  ASSUME NEW n \in Nat, n < 65536
  PROVE  n = (n % 256) + 256 * ((n \div 256) % 256)
<1>1. n \div 256 \in Nat /\ n \div 256 < 256
  BY LastDigit
<1> QED BY <1>1, LastDigit, OneDigit

\* Three bytes hold a number below 16777216.
LEMMA ThreeDigits ==
  ASSUME NEW n \in Nat, n < 16777216
  PROVE  n = (n % 256) + 256 * ((n \div 256) % 256) + 65536 * ((n \div 65536) % 256)
<1> DEFINE m == n \div 256
<1>1. m \in Nat /\ m < 65536 /\ n = 256 * m + (n % 256) /\ n % 256 \in Int /\ n \div 65536 = m \div 256
  BY LastDigit, DigitsBefore
<1>2. m % 256 \in Int /\ (m \div 256) % 256 \in Int
  BY <1>1, LastDigit
<1> HIDE DEF m
<1>3. m = (m % 256) + 256 * ((m \div 256) % 256)
  BY <1>1, TwoDigits
<1> QED BY <1>1, <1>2, <1>3 DEF m

\* Four bytes hold a number below 4294967296.
LEMMA FourDigits ==
  ASSUME NEW n \in Nat, n < 4294967296
  PROVE  n = (n % 256) + 256 * ((n \div 256) % 256) + 65536 * ((n \div 65536) % 256)
               + 16777216 * ((n \div 16777216) % 256)
<1> DEFINE m == n \div 256
<1>1. /\ m \in Nat /\ m < 16777216 /\ n = 256 * m + (n % 256) /\ n % 256 \in Int
      /\ n \div 65536 = m \div 256 /\ n \div 16777216 = m \div 65536
  BY LastDigit, DigitsBefore
<1>2. m % 256 \in Int /\ (m \div 256) % 256 \in Int /\ (m \div 65536) % 256 \in Int
  BY <1>1, LastDigit
<1> HIDE DEF m
<1>3. m = (m % 256) + 256 * ((m \div 256) % 256) + 65536 * ((m \div 65536) % 256)
  BY <1>1, ThreeDigits
<1> QED BY <1>1, <1>2, <1>3 DEF m

\* The four digits of a number, by the values of their places.
LEMMA DigitIs ==
  ASSUME NEW n, NEW first, NEW second, NEW third, NEW fourth,
         256^0 = first, 256^1 = second, 256^2 = third, 256^3 = fourth
  PROVE  /\ (n \div 256^0) % 256 = (n \div first) % 256
         /\ (n \div 256^1) % 256 = (n \div second) % 256
         /\ (n \div 256^2) % 256 = (n \div third) % 256
         /\ (n \div 256^3) % 256 = (n \div fourth) % 256
  BY Zenon

\* The first number that needs one byte more.
Limit(k) == IF k = 2 THEN 65536 ELSE IF k = 3 THEN 16777216 ELSE 4294967296

\* The digits that are written of a number within the limit are read as that number.
LEMMA DigitsAddUp ==
  ASSUME NEW n \in Nat, NEW k \in 2..4,
         n < Limit(k)
  PROVE  Number(LittleEndian(n, k)) = n
<1> DEFINE bytes == LittleEndian(n, k)
           Digit(e) == (n \div 256^e) % 256
<1>1. \A i \in 1..k : bytes[i] = Digit(i - 1)
  BY DEF LittleEndian
<1>2. /\ 1 \in 1..k /\ 2 \in 1..k /\ (k > 2 => 3 \in 1..k) /\ (k > 3 => 4 \in 1..k)
      /\ 1 - 1 = 0 /\ 2 - 1 = 1 /\ 3 - 1 = 2 /\ 4 - 1 = 3
  OBVIOUS
<1>3. /\ bytes[1] = Digit(0) /\ bytes[2] = Digit(1)
      /\ (k > 2 => bytes[3] = Digit(2)) /\ (k > 3 => bytes[4] = Digit(3))
  <2> HIDE DEF bytes, Digit
  <2> QED BY <1>1, <1>2
<1>4. /\ Digit(0) = (n \div 1) % 256 /\ Digit(1) = (n \div 256) % 256
      /\ Digit(2) = (n \div 65536) % 256 /\ Digit(3) = (n \div 16777216) % 256
  BY DigitIs, PlacesAre
<1>5. /\ bytes[1] = n % 256 /\ bytes[2] = (n \div 256) % 256
      /\ (k > 2 => bytes[3] = (n \div 65536) % 256) /\ (k > 3 => bytes[4] = (n \div 16777216) % 256)
  <2>1. n \div 1 = n
    OBVIOUS
  <2> HIDE DEF bytes, Digit
  <2> QED BY <1>3, <1>4, <2>1
<1>6. bytes \in [1..k -> Nat]
  <2>1. bytes = [i \in 1..k |-> bytes[i]]
    BY DEF LittleEndian
  <2>2. ASSUME NEW i \in 1..k PROVE bytes[i] \in Nat
    <3>1. i = 1 \/ i = 2 \/ (i = 3 /\ k > 2) \/ (i = 4 /\ k > 3)
      OBVIOUS
    <3> HIDE DEF bytes
    <3> QED BY <1>5, <3>1
  <2> HIDE DEF bytes
  <2> QED BY <2>1, <2>2
<1> HIDE DEF bytes
<1>7. Number(bytes) = Weighed(bytes, k)
  BY <1>6, NumberIs, Zenon
<1>8. Number(bytes) = n
  <2>1. CASE k = 2
    <3>1. n < 65536 /\ Weighed(bytes, k) = (n % 256) + 256 * ((n \div 256) % 256)
      BY <1>5, <2>1 DEF Weighed, Limit
    <3> QED BY <1>7, <3>1, TwoDigits
  <2>2. CASE k = 3
    <3>1. n < 16777216 /\ Weighed(bytes, k) = (n % 256) + 256 * ((n \div 256) % 256) + 65536 * ((n \div 65536) % 256)
      BY <1>5, <2>2 DEF Weighed, Limit
    <3> QED BY <1>7, <3>1, ThreeDigits
  <2>3. CASE k = 4
    <3>1. /\ n < 4294967296
          /\ Weighed(bytes, k) = (n % 256) + 256 * ((n \div 256) % 256) + 65536 * ((n \div 65536) % 256)
                                    + 16777216 * ((n \div 16777216) % 256)
      BY <1>5, <2>3 DEF Weighed, Limit
    <3> QED BY <1>7, <3>1, FourDigits
  <2> QED BY <2>1, <2>2, <2>3
<1> QED BY <1>8 DEF bytes

\* What is behind the first byte.
LEMMA MarkIsFirst ==
  ASSUME NEW x \in Int, NEW s \in Seq(Int)
  PROVE  /\ <<x>> \o s \in Seq(Int) /\ Len(<<x>> \o s) = Len(s) + 1 /\ (<<x>> \o s)[1] = x
         /\ SubSeq(<<x>> \o s, 2, Len(s) + 1) = s
<1> DEFINE t == <<x>> \o s
<1>1. t \in Seq(Int) /\ Len(t) = Len(s) + 1 /\ t[1] = x /\ \A i \in 1..Len(s) : t[i + 1] = s[i]
  OBVIOUS
<1> HIDE DEF t
<1>2. /\ SubSeq(t, 2, Len(s) + 1) \in Seq(Int) /\ Len(SubSeq(t, 2, Len(s) + 1)) = Len(s)
      /\ \A i \in 1..Len(s) : SubSeq(t, 2, Len(s) + 1)[i] = s[i]
  BY <1>1
<1>3. SubSeq(t, 2, Len(s) + 1) = s
  BY <1>2, SeqEqual
<1> QED BY <1>1, <1>3 DEF t

\* Every length is read back as it was written, by as many bytes.
LEMMA LengthsComeBack ==
  ASSUME NEW n \in Nat, n < Limit(4)
  PROVE  readLengthEncodedInteger(writeLengthEncodedInteger(n)) = <<n, Len(writeLengthEncodedInteger(n))>>
<1>1. n \in Nat /\ n < Limit(4)
  OBVIOUS
<1> DEFINE w == writeLengthEncodedInteger(n)
<1>2. \A k \in 2..4 : LittleEndian(n, k) \in Seq(Int) /\ Len(LittleEndian(n, k)) = k
  <2> TAKE k \in 2..4
  <2>1. k \in Nat /\ \A i \in 1..k : (n \div 256^(i - 1)) % 256 \in Int
    <3>1. \A i \in 1..k : i = 1 \/ i = 2 \/ i = 3 \/ i = 4
      OBVIOUS
    <3> QED BY <1>1, <3>1, PlacesAre
  <2> QED BY <2>1 DEF LittleEndian
<1>3. CASE n < 251
  BY <1>1, <1>3 DEF writeLengthEncodedInteger, readLengthEncodedInteger
<1>4. CASE n >= 251 /\ n < 65536
  <2>1. w = <<252>> \o LittleEndian(n, 2)
    BY <1>4 DEF writeLengthEncodedInteger
  <2>2. Len(w) = 3 /\ w[1] = 252 /\ SubSeq(w, 2, 3) = LittleEndian(n, 2)
    <3>1. LittleEndian(n, 2) \in Seq(Int) /\ Len(LittleEndian(n, 2)) = 2
      BY <1>2
    <3>2. PICK b \in Int : b = 252
      OBVIOUS
    <3> DEFINE s == LittleEndian(n, 2)
    <3> HIDE DEF s
    <3>3. /\ <<b>> \o s \in Seq(Int) /\ Len(<<b>> \o s) = Len(s) + 1 /\ (<<b>> \o s)[1] = b
          /\ SubSeq(<<b>> \o s, 2, Len(s) + 1) = s
      BY <3>1, MarkIsFirst, Zenon DEF s
    <3>4. w = <<b>> \o s /\ Len(s) = 2
      BY <2>1, <3>1, <3>2 DEF s
    <3> HIDE DEF w
    <3>5. Len(w) = Len(s) + 1 /\ w[1] = b /\ SubSeq(w, 2, Len(s) + 1) = s
      BY <3>3, <3>4, Zenon
    <3>6. Len(s) + 1 = 3
      BY <3>4
    <3>7. Len(w) = 3 /\ w[1] = 252 /\ SubSeq(w, 2, 3) = s
      BY <3>2, <3>5, <3>6, Zenon
    <3> QED BY <3>7, Zenon DEF s
  <2>3. Number(LittleEndian(n, 2)) = n
    BY <1>1, <1>4, DigitsAddUp DEF Limit
  <2> HIDE DEF w
  <2>4. readLengthEncodedInteger(w) = <<Number(SubSeq(w, 2, 3)), 3>>
    BY <2>2 DEF readLengthEncodedInteger
  <2>5. readLengthEncodedInteger(w) = <<n, Len(w)>>
    BY <2>2, <2>3, <2>4
  <2> QED BY <2>5 DEF w
<1>5. CASE n >= 65536 /\ n < 16777216
  <2>1. w = <<253>> \o LittleEndian(n, 3)
    BY <1>5 DEF writeLengthEncodedInteger
  <2>2. Len(w) = 4 /\ w[1] = 253 /\ SubSeq(w, 2, 4) = LittleEndian(n, 3)
    <3>1. LittleEndian(n, 3) \in Seq(Int) /\ Len(LittleEndian(n, 3)) = 3
      BY <1>2
    <3>2. PICK b \in Int : b = 253
      OBVIOUS
    <3> DEFINE s == LittleEndian(n, 3)
    <3> HIDE DEF s
    <3>3. /\ <<b>> \o s \in Seq(Int) /\ Len(<<b>> \o s) = Len(s) + 1 /\ (<<b>> \o s)[1] = b
          /\ SubSeq(<<b>> \o s, 2, Len(s) + 1) = s
      BY <3>1, MarkIsFirst, Zenon DEF s
    <3>4. w = <<b>> \o s /\ Len(s) = 3
      BY <2>1, <3>1, <3>2 DEF s
    <3> HIDE DEF w
    <3>5. Len(w) = Len(s) + 1 /\ w[1] = b /\ SubSeq(w, 2, Len(s) + 1) = s
      BY <3>3, <3>4, Zenon
    <3>6. Len(s) + 1 = 4
      BY <3>4
    <3>7. Len(w) = 4 /\ w[1] = 253 /\ SubSeq(w, 2, 4) = s
      BY <3>2, <3>5, <3>6, Zenon
    <3> QED BY <3>7, Zenon DEF s
  <2>3. Number(LittleEndian(n, 3)) = n
    BY <1>1, <1>5, DigitsAddUp DEF Limit
  <2> HIDE DEF w
  <2>4. readLengthEncodedInteger(w) = <<Number(SubSeq(w, 2, 4)), 4>>
    BY <2>2 DEF readLengthEncodedInteger
  <2>5. readLengthEncodedInteger(w) = <<n, Len(w)>>
    BY <2>2, <2>3, <2>4
  <2> QED BY <2>5 DEF w
<1>6. CASE n >= 16777216
  <2>1. w = <<254>> \o LittleEndian(n, 4) \o <<0, 0, 0, 0>>
    BY <1>6 DEF writeLengthEncodedInteger
  <2>2. Len(w) = 9 /\ w[1] = 254 /\ SubSeq(w, 2, 5) = LittleEndian(n, 4)
    <3>0. LittleEndian(n, 4) \in Seq(Int) /\ Len(LittleEndian(n, 4)) = 4
      BY <1>2
    <3>1. <<254>> \o LittleEndian(n, 4) \in Seq(Int) /\ Len(<<254>> \o LittleEndian(n, 4)) = 5
      <4>1. 254 \in Int
        OBVIOUS
      <4>2. <<254>> \o LittleEndian(n, 4) \in Seq(Int) /\ Len(<<254>> \o LittleEndian(n, 4)) = Len(LittleEndian(n, 4)) + 1
        BY <3>0, <4>1, MarkIsFirst, ZenonT(60)
      <4>3. 4 + 1 = 5
        OBVIOUS
      <4> QED BY <3>0, <4>2, <4>3, Zenon
    <3>2. SubSeq(<<254>> \o LittleEndian(n, 4), 2, 5) = LittleEndian(n, 4)
      BY <3>0, MarkIsFirst
    <3>3. /\ Len(w) = 9 /\ w \in Seq(Int)
          /\ \A i \in 1..5 : w[i] = (<<254>> \o LittleEndian(n, 4))[i]
      BY <2>1, <3>1
    <3>4. w[1] = 254
      BY <1>2, <3>3
    <3> HIDE DEF w
    <3>5. SubSeq(w, 2, 5) = SubSeq(<<254>> \o LittleEndian(n, 4), 2, 5)
      BY <3>1, <3>3
    <3> QED BY <3>2, <3>3, <3>4, <3>5
  <2>3. Number(LittleEndian(n, 4)) = n
    BY <1>1, DigitsAddUp DEF Limit
  <2> HIDE DEF w
  <2>4. readLengthEncodedInteger(w) = <<Number(SubSeq(w, 2, 5)), 9>>
    BY <2>2 DEF readLengthEncodedInteger
  <2>5. readLengthEncodedInteger(w) = <<n, Len(w)>>
    BY <2>2, <2>3, <2>4
  <2> QED BY <2>5 DEF w
<1> QED BY <1>1, <1>3, <1>4, <1>5, <1>6

\* The tests by their places.
LEMMA TestsAre ==
  /\ DOMAIN Tests = 1..17
  /\ Tests[1] = {"TINYINT", "BOOLEAN"} /\ Tests[2] = {"SMALLINT"} /\ Tests[3] = {"INT"} /\ Tests[4] = {"BIGINT"}
  /\ Tests[5] = {"FLOAT"} /\ Tests[6] = {"DOUBLE"} /\ Tests[7] = {"DECIMAL"} /\ Tests[8] = {"DATE"}
  /\ Tests[9] = {"DATETIME"} /\ Tests[10] = {"TIMESTAMP"} /\ Tests[11] = {"TIME"} /\ Tests[12] = {"YEAR"}
  /\ Tests[13] = {"CHAR", "VARCHAR"} /\ Tests[14] = {"TEXT", "BLOB"} /\ Tests[15] = {"JSON"}
  /\ Tests[16] = {"ENUM"} /\ Tests[17] = {"SET"}
  BY DEF Tests

\* Most names contain no other.
LEMMA NothingContained ==
  ASSUME NEW name, name \notin {"TINYINT", "SMALLINT", "TIMESTAMP", "VARCHAR", "BIGINT", "DATETIME"}
  PROVE  Contained(name) = {}
  BY DEF Contained

\* The first test that finds anything in a name finds the name itself.
LEMMA NamesAreFound ==
  ASSUME NEW name \in (UNION ToSet(Tests)) \ {"BIGINT", "DATETIME"}
  PROVE  name \in convertToMySQLType(name)
<1>1. PICK k \in 1..17 : name \in Tests[k]
  BY TestsAre DEF ToSet
<1> DEFINE Hits == {i \in 1..17 : Found(Tests[i], name)}
           First(i) == Found(Tests[i], name) /\ \A j \in 1..(i - 1) : ~Found(Tests[j], name)
<1>2. k \in Hits
  BY <1>1 DEF Found
<1>3. PICK m \in Hits : \A y \in Hits : ~(<<y, m>> \in OpToRel(<, Nat))
  <2>1. Hits \subseteq Nat /\ Hits # {}
    BY <1>2
  <2> QED BY <2>1, WFMin, NatLessThanWellFounded, ZenonT(60)
<1>4. m \in 1..17 /\ First(m)
  <2>1. m \in 1..17 /\ Found(Tests[m], name)
    BY <1>3
  <2>2. ASSUME NEW j \in 1..(m - 1) PROVE ~Found(Tests[j], name)
    <3>1. j \in Nat /\ m \in Nat /\ j < m /\ j \in 1..17
      BY <2>1
    <3>2. <<j, m>> \in OpToRel(<, Nat)
      BY <3>1 DEF OpToRel
    <3>3. j \notin Hits
      BY <1>3, <3>2, Zenon
    <3> QED BY <3>1, <3>3
  <2> QED BY <2>1, <2>2
<1> DEFINE i == CHOOSE i \in DOMAIN Tests : Found(Tests[i], name) /\ \A j \in 1..(i - 1) : ~Found(Tests[j], name)
<1>5. i \in 1..17 /\ First(i) /\ convertToMySQLType(name) = Tests[i]
  BY <1>4, TestsAre DEF convertToMySQLType
<1> HIDE DEF i
<1>6. i <= k
  BY <1>1, <1>2, <1>5
<1>7. name \in Tests[i]
  <2>1. CASE Contained(name) = {}
    BY <1>5, <2>1 DEF Found
  <2>2. CASE name = "TINYINT"
    BY <1>1, <1>5, <1>6, <2>2, TestsAre
  <2>3. CASE name = "SMALLINT"
    BY <1>1, <1>5, <1>6, <2>3, TestsAre DEF Found, Contained
  <2>4. CASE name = "TIMESTAMP"
    BY <1>1, <1>5, <1>6, <2>4, TestsAre DEF Found, Contained
  <2>5. CASE name = "VARCHAR"
    BY <1>1, <1>5, <1>6, <2>5, TestsAre DEF Found, Contained
  <2>6. name \in {"TINYINT", "SMALLINT", "TIMESTAMP", "VARCHAR"} \/ Contained(name) = {}
    BY NothingContained
  <2> QED BY <2>1, <2>2, <2>3, <2>4, <2>5, <2>6
<1> QED BY <1>5, <1>7

\* Values, lengths and types are where the other side looks for them.
LEMMA ValuesAreInPlace == parameters \in Seq(Values) => ValuesInPlace
<1> SUFFICES ASSUME parameters \in Seq(Values) PROVE ValuesInPlace
  OBVIOUS
<1>1. NamesInPlace
  BY NamesAreFound DEF NamesInPlace
<1>2. ParametersInPlace
  BY OffsetsAre DEF ParametersInPlace
<1>4. RowsInPlace
  <2>1. ASSUME NEW k \in 0..Len(parameters), NEW i \in 1..Len(parameters), NEW paramTypes,
               \A j \in 1..(i - 1) : EncodedAs(parameters, paramTypes, j) = parameters[j].type
        PROVE  WrittenAt(parameters, paramTypes, i)
                 = Offset(SizeSent, parameters, i) - Cardinality(TimesBefore(parameters, i))
    <3>1. WrittenAt(parameters, paramTypes, i) = Offset(WrittenAsItIs, parameters, i)
      BY <2>1, RowsAre
    <3> QED BY <3>1, OffsetsAre
  <2> QED BY <2>1, Zenon DEF RowsInPlace
<1>3. LengthsInPlace
  BY LengthsComeBack DEF Limit, LengthsInPlace
<1> QED BY <1>1, <1>2, <1>3, <1>4 DEF ValuesInPlace

-----------------------------------------------------------------------------
(* The MySQL protocol: messages and the grammar of an answer.              *)
Statuses == {"autocommit", "in_transaction"}
LogIns == {"log_in_without_password", "log_in", "log_in_wrongly"}
AnswerKinds == {"ok", "eof", "error", "header", "field", "row", "prepare_ok"}
Messages == [kind : AnswerKinds, size : Nat \ {0}, status : SUBSET Statuses]
Packets == [size : Nat, number : Nat, kind : AnswerKinds \cup {"handshake"}, status : SUBSET Statuses]
Requests == [size : Nat, number : Nat, kind : Commands \cup LogIns, status : {{}}]
Sessions == [db : BOOLEAN, status : SUBSET Statuses, stmts : SUBSET Nat, next : Nat]

\* The answer is complete, and no part of it is.
Answers(name, messages) ==
  /\ Complete(name, MessageKinds(messages))
  /\ \A k \in 0..(Len(messages) - 1), part \in Seq(Messages) :
        Len(part) = k /\ (\A i \in 1..k : part[i] = messages[i]) => ~Complete(name, MessageKinds(part))

EndsInStatus(messages) == messages # <<>> /\ Last(messages).kind \in {"ok", "eof"}

\* An answer that is no result set ends with the session's status.
Tells(messages, status) ==
  EndsInStatus(messages) /\ ~ResultSet(MessageKinds(messages)) => Last(messages).status = status

Answering(name, status, messages) ==
  messages \in Seq(Messages) /\ Answers(name, messages) /\ Tells(messages, status)

\* The fields of a message.
LEMMA MessageIs ==
  ASSUME NEW m \in Messages
  PROVE  m.kind \in AnswerKinds /\ m.size \in Nat \ {0} /\ m.status \in SUBSET Statuses
  BY DEF Messages

\* The kinds of a list of messages.
LEMMA MessageKindsAre ==
  ASSUME NEW ms \in Seq(Messages)
  PROVE  /\ Len(MessageKinds(ms)) = Len(ms) /\ MessageKinds(ms) \in Seq(AnswerKinds)
         /\ \A i \in 1..Len(ms) : MessageKinds(ms)[i] = ms[i].kind
<1>1. Len(ms) \in Nat /\ \A i \in 1..Len(ms) : ms[i] \in Messages /\ ms[i].kind \in AnswerKinds
  BY MessageIs
<1> QED BY <1>1 DEF MessageKinds

\* A sequence of m elements with one of n elements behind it.
Joins(q, T, s, m, t, n) ==
  /\ q \in Seq(T) /\ Len(q) = m + n
  /\ \A i \in 1..m : q[i] = s[i]
  /\ \A i \in 1..n : q[m + i] = t[i]

\* Two lists behind each other.
LEMMA Joined ==
  ASSUME NEW T, NEW m \in Nat, NEW n \in Nat, NEW s \in Seq(T), Len(s) = m, NEW t \in Seq(T), Len(t) = n
  PROVE  Joins(s \o t, T, s, m, t, n)
<1>1. /\ s \o t \in Seq(T) /\ Len(s \o t) = Len(s) + Len(t)
      /\ \A i \in 1..(Len(s) + Len(t)) : (s \o t)[i] = IF i <= Len(s) THEN s[i] ELSE t[i - Len(s)]
  BY ConcatProperties
<1>2. \A i \in 1..m : (s \o t)[i] = s[i]
  BY <1>1
<1>3. ASSUME NEW i \in 1..n PROVE (s \o t)[m + i] = t[i]
  <2>1. m + i \in 1..(Len(s) + Len(t)) /\ ~(m + i <= Len(s)) /\ (m + i) - Len(s) = i
    OBVIOUS
  <2> QED BY <1>1, <2>1
<1> QED BY <1>1, <1>2, <1>3 DEF Joins

\* No answer at all completes no command but "close".
LEMMA NothingIsIncomplete == \A name : name # "close" => ~Complete(name, <<>>)
  BY DEF Complete, ResultSet, FieldsThenEOF

\* The answers of one message.
LEMMA OneAnswers ==
  ASSUME NEW name \in (Commands \cup LogIns) \ {"close"}, NEW status \in SUBSET Statuses,
         NEW ms, ms = WriteOK(status) \/ ms = WriteError
  PROVE  Answering(name, status, ms)
<1>1. ms \in Seq(Messages) /\ Len(ms) = 1 /\ ms[1].kind \in {"ok", "error"} /\ (ms[1].kind = "ok" => ms[1].status = status)
  <2>1. CASE ms = WriteOK(status)
    <3>1. PICK m \in Messages : ms = <<m>> /\ m.kind = "ok" /\ m.status = status
      <4> DEFINE m == [Message("ok", 1) EXCEPT !.status = status]
      <4>1. m = [kind |-> "ok", size |-> 1, status |-> status]
        BY DEF Message
      <4> QED BY <2>1, <4>1 DEF WriteOK, Messages, AnswerKinds
    <3> QED BY <3>1
  <2>2. CASE ms = WriteError
    <3>1. PICK m \in Messages : ms = <<m>> /\ m.kind = "error"
      <4>1. Message("error", 1) \in Messages /\ Message("error", 1).kind = "error"
        BY DEF Message, Messages, AnswerKinds
      <4> QED BY <2>2, <4>1 DEF WriteError
    <3> QED BY <3>1
  <2> QED BY <2>1, <2>2
<1>2. MessageKinds(ms) \in {<<"ok">>, <<"error">>}
  BY <1>1 DEF MessageKinds
<1>3. Complete(name, MessageKinds(ms))
  BY <1>2 DEF Complete
<1>4. ASSUME NEW k \in 0..(Len(ms) - 1), NEW p \in Seq(Messages), Len(p) = k
      PROVE  ~Complete(name, MessageKinds(p))
  <2>1. k = 0
    BY <1>1
  <2>2. p = <<>>
    BY <1>4, <2>1
  <2>3. MessageKinds(p) = <<>>
    BY <2>2 DEF MessageKinds
  <2> QED BY <2>3, NothingIsIncomplete
<1>5. Tells(ms, status)
  BY <1>1 DEF Tells, EndsInStatus, Last
<1> QED BY <1>1, <1>3, <1>4, <1>5 DEF Answering, Answers

\* What a command without an answer sends.
LEMMA NoneAnswers == \A status : Answering("close", status, <<>>)
<1>1. MessageKinds(<<>>) = <<>> /\ Len(<<>>) = 0 /\ <<>> \in Seq(Messages)
  BY DEF MessageKinds
<1>2. Complete("close", <<>>)
  BY DEF Complete
<1> QED BY <1>1, <1>2 DEF Answering, Answers, Tells, EndsInStatus

\* A result: a header, the columns, an end, the rows, an end.
Result(ms, c, r) ==
  /\ ms \in Seq(Messages) /\ Len(ms) = c + r + 3
  /\ ms[1].kind = "header" /\ ms[c + 2].kind = "eof" /\ ms[c + r + 3].kind = "eof"
  /\ \A i \in 2..(c + 1) : ms[i].kind = "field"
  /\ \A i \in (c + 3)..(c + r + 2) : ms[i].kind = "row"

\* The layout of a result set with c columns and r rows.
LEMMA ResultIs ==
  ASSUME NEW c \in Nat, NEW r \in Nat, NEW size \in Nat \ {0}
  PROVE  Result(WriteQueryResult(c, r, size), c, r)
<1> DEFINE ms == WriteQueryResult(c, r, size)
<1> DEFINE h == WriteResultSetHeader
           f == Repeat(c, WriteColumnDefinition)
           e == WriteEOF({})
           w == Repeat(r, WriteTextRow(size))
<1>1. /\ h \in Seq(Messages) /\ Len(h) = 1 /\ h[1].kind = "header"
      /\ e \in Seq(Messages) /\ Len(e) = 1 /\ e[1].kind = "eof"
  BY DEF WriteResultSetHeader, WriteEOF, Message, Messages, AnswerKinds
<1>2. /\ f \in Seq(Messages) /\ Len(f) = c /\ \A i \in 1..c : f[i].kind = "field"
      /\ w \in Seq(Messages) /\ Len(w) = r /\ \A i \in 1..r : w[i].kind = "row"
  <2>1. WriteColumnDefinition \in Messages /\ WriteTextRow(size) \in Messages
        /\ WriteColumnDefinition.kind = "field" /\ WriteTextRow(size).kind = "row"
    BY DEF WriteColumnDefinition, WriteTextRow, Message, Messages, AnswerKinds
  <2> QED BY <2>1 DEF Repeat
<1>3. ms = h \o f \o e \o w \o e
  BY DEF WriteQueryResult
<1> HIDE DEF h, f, e, w, ms
<1> DEFINE a == h \o f
<1>4. /\ a \in Seq(Messages) /\ Len(a) = 1 + c
      /\ a[1].kind = "header" /\ \A i \in 1..c : a[1 + i].kind = "field"
  <2>1. 1 \in Nat
    OBVIOUS
  <2>2. Joins(a, Messages, h, 1, f, c)
    BY <1>1, <1>2, <2>1, Joined, Zenon
  <2> HIDE DEF a
  <2>3. a \in Seq(Messages) /\ Len(a) = 1 + c /\ a[1] = h[1] /\ \A i \in 1..c : a[1 + i] = f[i]
    BY <2>2 DEF Joins
  <2> QED BY <1>1, <1>2, <2>3, Zenon
<1> HIDE DEF a
<1> DEFINE b == a \o e
<1>5. /\ b \in Seq(Messages) /\ Len(b) = (1 + c) + 1
      /\ \A i \in 1..(1 + c) : b[i] = a[i]
      /\ \A i \in 1..1 : b[(1 + c) + i] = e[i]
  <2>1. 1 \in Nat /\ 1 + c \in Nat
    OBVIOUS
  <2>2. Joins(b, Messages, a, 1 + c, e, 1)
    BY <1>1, <1>4, <2>1, Joined, Zenon
  <2> QED BY <2>2, Zenon DEF Joins
<1> HIDE DEF b
<1> DEFINE d == b \o w
<1>6. /\ d \in Seq(Messages) /\ Len(d) = ((1 + c) + 1) + r
      /\ \A i \in 1..((1 + c) + 1) : d[i] = b[i]
      /\ \A i \in 1..r : d[((1 + c) + 1) + i] = w[i]
  <2>1. (1 + c) + 1 \in Nat
    OBVIOUS
  <2>2. Joins(d, Messages, b, (1 + c) + 1, w, r)
    BY <1>2, <1>5, <2>1, Joined, Zenon
  <2> QED BY <2>2, Zenon DEF Joins
<1> HIDE DEF d
<1>7. /\ ms \in Seq(Messages) /\ Len(ms) = (((1 + c) + 1) + r) + 1
      /\ \A i \in 1..(((1 + c) + 1) + r) : ms[i] = d[i]
      /\ \A i \in 1..1 : ms[(((1 + c) + 1) + r) + i] = e[i]
  <2>1. ms = d \o e
    BY <1>3 DEF a, b, d
  <2>2. 1 \in Nat /\ ((1 + c) + 1) + r \in Nat
    OBVIOUS
  <2>3. Joins(ms, Messages, d, ((1 + c) + 1) + r, e, 1)
    BY <1>1, <1>6, <2>1, <2>2, Joined, Zenon
  <2> QED BY <2>3, Zenon DEF Joins
<1>8. Len(ms) = c + r + 3 /\ ms[c + r + 3].kind = "eof"
  BY <1>1, <1>7
<1>9. \A i \in 1..(1 + c) : ms[i] = a[i]
  BY <1>5, <1>6, <1>7
<1>10. ms[1].kind = "header"
  <2>1. 1 \in 1..(1 + c)
    OBVIOUS
  <2> QED BY <1>4, <1>9, <2>1
<1>11. ms[c + 2].kind = "eof"
  <2>1. /\ (1 + c) + 1 = c + 2 /\ 1 \in 1..1
        /\ c + 2 \in 1..((1 + c) + 1) /\ c + 2 \in 1..(((1 + c) + 1) + r)
    OBVIOUS
  <2> QED BY <1>1, <1>5, <1>6, <1>7, <2>1
<1>12. ASSUME NEW i \in 2..(c + 1) PROVE ms[i].kind = "field"
  <2>1. i - 1 \in 1..c /\ 1 + (i - 1) = i /\ i \in 1..(1 + c)
    OBVIOUS
  <2> QED BY <1>4, <1>9, <2>1
<1>13. ASSUME NEW i \in (c + 3)..(c + r + 2) PROVE ms[i].kind = "row"
  <2>1. /\ i - (c + 2) \in 1..r /\ ((1 + c) + 1) + (i - (c + 2)) = i
        /\ i \in 1..(((1 + c) + 1) + r)
    OBVIOUS
  <2> QED BY <1>2, <1>6, <1>7, <2>1
<1> QED BY <1>7, <1>8, <1>10, <1>11, <1>12, <1>13, Zenon DEF ms, Result

\* A result set answers what asks for one, whatever its columns and rows.
LEMMA ResultAnswers ==
  ASSUME NEW name \in {"query", "execute", "show_variables", "show_databases", "show_tables"}, NEW status,
         NEW c \in Nat \ {0}, NEW r \in Nat, NEW size \in Nat \ {0}, NEW ms, ms = WriteQueryResult(c, r, size)
  PROVE  Answering(name, status, ms)
<1> DEFINE K == MessageKinds(ms)
<1>1. /\ ms \in Seq(Messages) /\ Len(ms) = c + r + 3
      /\ ms[1].kind = "header" /\ ms[c + 2].kind = "eof" /\ ms[c + r + 3].kind = "eof"
      /\ \A i \in 2..(c + 1) : ms[i].kind = "field"
      /\ \A i \in (c + 3)..(c + r + 2) : ms[i].kind = "row"
  <2>1. Result(ms, c, r)
    BY ResultIs, Zenon
  <2> QED BY <2>1, Zenon DEF Result
<1>2. Len(K) = c + r + 3 /\ K \in Seq(AnswerKinds) /\ \A i \in 1..(c + r + 3) : K[i] = ms[i].kind
  BY <1>1, MessageKindsAre, SMTT(30)
<1>3. /\ K[1] = "header" /\ K[c + 2] = "eof" /\ K[c + r + 3] = "eof"
      /\ \A i \in 2..(c + 1) : K[i] = "field"
      /\ \A i \in (c + 3)..(c + r + 2) : K[i] = "row"
  BY <1>1, <1>2
<1> HIDE DEF K
<1>4. ResultSet(K)
  <2>1. FieldsThenEOF(SubSeq(K, 2, c + 2), c)
    <3>1. /\ Len(SubSeq(K, 2, c + 2)) = c + 1
          /\ \A i \in 1..(c + 1) : SubSeq(K, 2, c + 2)[i] = K[i + 1]
      BY <1>2
    <3> QED BY <1>3, <3>1 DEF FieldsThenEOF
  <2>2. Last(K) = "eof" /\ Len(K) >= 3 /\ c \in 1..(Len(K) - 2) /\ c + 2 < Len(K)
    BY <1>2, <1>3 DEF Last
  <2>3. \A i \in (c + 3)..(Len(K) - 1) : K[i] = "row"
    BY <1>2, <1>3
  <2> QED BY <1>3, <2>1, <2>2, <2>3 DEF ResultSet
<1>5. Complete(name, K)
  BY <1>4 DEF Complete
<1>6. ASSUME NEW k \in 0..(Len(ms) - 1), NEW p \in Seq(Messages), Len(p) = k, \A i \in 1..k : p[i] = ms[i]
      PROVE  ~Complete(name, MessageKinds(p))
  <2> DEFINE J == MessageKinds(p)
  <2>1. Len(J) = k /\ J \in Seq(AnswerKinds) /\ \A i \in 1..k : J[i] = p[i].kind
    BY <1>6, MessageKindsAre
  <2>2. k <= c + r + 2 /\ k \in Nat /\ \A i \in 1..k : J[i] = K[i]
    BY <1>1, <1>2, <1>6, <2>1
  <2> HIDE DEF J
  <2>3. J # <<"ok">> /\ J # <<"error">>
    <3>1. CASE k = 0
      BY <2>1, <3>1
    <3>2. CASE k # 0
      BY <1>3, <2>2, <3>2
    <3> QED BY <3>1, <3>2
  <2>4. ~ResultSet(J)
    <3> SUFFICES ASSUME ResultSet(J) PROVE FALSE
      OBVIOUS
    <3>1. k >= 3 /\ J[k] = "eof"
      BY <2>1 DEF ResultSet, Last
    <3>2. k = c + 2
      BY <1>3, <2>2, <3>1
    <3>3. PICK n \in 1..(Len(J) - 2) : FieldsThenEOF(SubSeq(J, 2, n + 2), n) /\ n + 2 < Len(J)
      BY DEF ResultSet
    <3>4. SubSeq(J, 2, n + 2)[n + 1] = "eof" /\ SubSeq(J, 2, n + 2)[n + 1] = J[n + 2]
      BY <2>1, <3>3 DEF FieldsThenEOF
    <3>5. n + 2 \in 2..(c + 1) /\ n + 2 \in 1..k
      BY <2>1, <3>2, <3>3
    <3>6. J[n + 2] = "eof" /\ J[n + 2] = K[n + 2] /\ K[n + 2] = "field"
      BY <1>3, <2>2, <3>4, <3>5
    <3> QED BY <3>6
  <2> QED BY <2>3, <2>4 DEF J, Complete
<1>7. Tells(ms, status)
  BY <1>4 DEF K, Tells
<1> QED BY <1>1, <1>5, <1>6, <1>7 DEF K, Answering, Answers

\* The fields and their end answer "field_list".
LEMMA FieldListAnswers ==
  ASSUME NEW status \in SUBSET Statuses, NEW ms, ms = Repeat(3, WriteColumnDefinition) \o WriteEOF(status)
  PROVE  Answering("field_list", status, ms)
<1> DEFINE K == MessageKinds(ms)
<1>1. /\ ms \in Seq(Messages) /\ Len(ms) = 4
      /\ ms[1].kind = "field" /\ ms[2].kind = "field" /\ ms[3].kind = "field" /\ ms[4].kind = "eof"
      /\ ms[4].status = status
  <2>1. /\ Repeat(3, WriteColumnDefinition) \in Seq(Messages) /\ Len(Repeat(3, WriteColumnDefinition)) = 3
        /\ \A i \in 1..3 : Repeat(3, WriteColumnDefinition)[i].kind = "field"
    BY DEF Repeat, WriteColumnDefinition, Message, Messages, AnswerKinds
  <2>2. /\ WriteEOF(status) \in Seq(Messages) /\ Len(WriteEOF(status)) = 1
        /\ WriteEOF(status)[1].kind = "eof" /\ WriteEOF(status)[1].status = status
    BY DEF WriteEOF, Message, Messages, AnswerKinds
  <2> DEFINE f == Repeat(3, WriteColumnDefinition)
             e == WriteEOF(status)
  <2>3. ms = f \o e
    OBVIOUS
  <2> HIDE DEF f, e
  <2>4. 1 \in Nat /\ 3 \in Nat
    OBVIOUS
  <2>5. Joins(ms, Messages, f, 3, e, 1)
    BY <2>1, <2>2, <2>3, <2>4, Joined, Zenon DEF f, e
  <2>6. ms \in Seq(Messages) /\ Len(ms) = 4 /\ ms[1] = f[1] /\ ms[2] = f[2] /\ ms[3] = f[3] /\ ms[4] = e[1]
    BY <2>5 DEF Joins
  <2>7. f[1].kind = "field" /\ f[2].kind = "field" /\ f[3].kind = "field"
    BY <2>1 DEF f
  <2> QED BY <2>2, <2>6, <2>7, Zenon DEF e
<1>2. Len(K) = 4 /\ K[1] = "field" /\ K[2] = "field" /\ K[3] = "field" /\ K[4] = "eof"
  <2>1. Len(K) = Len(ms) /\ \A i \in 1..Len(ms) : K[i] = ms[i].kind
    BY <1>1, MessageKindsAre, Zenon
  <2> HIDE DEF K
  <2> QED BY <1>1, <2>1, SMTT(30)
<1> HIDE DEF K
<1>3. Complete("field_list", K)
  <2>1. FieldsThenEOF(K, Len(K) - 1)
    <3>1. \A i \in 1..3 : i = 1 \/ i = 2 \/ i = 3
      OBVIOUS
    <3> QED BY <1>2, <3>1 DEF FieldsThenEOF
  <2> QED BY <2>1 DEF Complete
<1>4. ASSUME NEW k \in 0..(Len(ms) - 1), NEW p \in Seq(Messages), Len(p) = k, \A i \in 1..k : p[i] = ms[i]
      PROVE  ~Complete("field_list", MessageKinds(p))
  <2> DEFINE J == MessageKinds(p)
  <2>1. Len(J) = k /\ k \in 0..3 /\ \A i \in 1..k : J[i] = "field"
    <3>1. Len(J) = k /\ \A i \in 1..k : J[i] = p[i].kind
      BY <1>4, MessageKindsAre
    <3>2. k \in 0..3 /\ \A i \in 1..k : i = 1 \/ i = 2 \/ i = 3
      BY <1>1
    <3> QED BY <1>1, <1>4, <3>1, <3>2, ZenonT(60)
  <2> HIDE DEF J
  <2>2. J # <<"ok">> /\ J # <<"error">>
    <3> SUFFICES ASSUME J = <<"ok">> \/ J = <<"error">> PROVE FALSE
      OBVIOUS
    <3>1. Len(J) = 1 /\ J[1] \in {"ok", "error"}
      OBVIOUS
    <3>2. 1 \in 1..k
      BY <2>1, <3>1
    <3> QED BY <2>1, <3>1, <3>2
  <2>3. ~FieldsThenEOF(J, Len(J) - 1)
    <3> SUFFICES ASSUME FieldsThenEOF(J, Len(J) - 1) PROVE FALSE
      OBVIOUS
    <3>1. k - 1 > 0 /\ J[(k - 1) + 1] = "eof"
      BY <2>1 DEF FieldsThenEOF
    <3>2. (k - 1) + 1 = k /\ k \in 1..k
      BY <2>1, <3>1
    <3> QED BY <2>1, <3>1, <3>2
  <2> QED BY <2>2, <2>3 DEF J, Complete
<1>5. Tells(ms, status)
  BY <1>1 DEF Tells, Last
<1> QED BY <1>1, <1>3, <1>4, <1>5 DEF K, Answering, Answers

\* Two parameters and three columns, each with their end, answer "prepare".
LEMMA PrepareAnswers ==
  ASSUME NEW status \in SUBSET Statuses
  PROVE  Answering("prepare", status,
                   WritePrepareOK \o Repeat(2, WriteColumnDefinition) \o WriteEOF(status)
                     \o Repeat(3, WriteColumnDefinition) \o WriteEOF(status))
<1> DEFINE ms == WritePrepareOK \o Repeat(2, WriteColumnDefinition) \o WriteEOF(status)
                   \o Repeat(3, WriteColumnDefinition) \o WriteEOF(status)
           K == MessageKinds(ms)
           f2 == Repeat(2, WriteColumnDefinition)
           f3 == Repeat(3, WriteColumnDefinition)
           o == WritePrepareOK
           e == WriteEOF(status)
<1>0. ms = o \o f2 \o e \o f3 \o e
  OBVIOUS
<1> HIDE DEF ms
<1>1. /\ ms \in Seq(Messages) /\ Len(ms) = 8 /\ ms[1].kind = "prepare_ok"
      /\ ms[2].kind = "field" /\ ms[3].kind = "field" /\ ms[4].kind = "eof"
      /\ ms[5].kind = "field" /\ ms[6].kind = "field" /\ ms[7].kind = "field" /\ ms[8].kind = "eof"
      /\ ms[8].status = status
  <2>1. /\ f2 \in Seq(Messages) /\ Len(f2) = 2 /\ f2[1].kind = "field" /\ f2[2].kind = "field"
        /\ f3 \in Seq(Messages) /\ Len(f3) = 3 /\ f3[1].kind = "field" /\ f3[2].kind = "field" /\ f3[3].kind = "field"
    BY DEF Repeat, WriteColumnDefinition, Message, Messages, AnswerKinds
  <2>2. e \in Seq(Messages) /\ Len(e) = 1 /\ e[1].kind = "eof" /\ e[1].status = status
    BY DEF WriteEOF, Message, Messages, AnswerKinds
  <2>3. o \in Seq(Messages) /\ Len(o) = 1 /\ o[1].kind = "prepare_ok"
    BY DEF WritePrepareOK, Message, Messages, AnswerKinds
  <2>4. ms = o \o f2 \o e \o f3 \o e
    BY <1>0
  <2> HIDE DEF o, f2, f3, e
  <2>0. 1 \in Nat /\ 2 \in Nat /\ 3 \in Nat /\ 4 \in Nat /\ 7 \in Nat
    OBVIOUS
  <2>5. o \o f2 \in Seq(Messages) /\ Len(o \o f2) = 3 /\ (o \o f2)[1] = o[1] /\ (o \o f2)[2] = f2[1] /\ (o \o f2)[3] = f2[2]
    <3>1. Joins(o \o f2, Messages, o, 1, f2, 2)
      BY <2>0, <2>1, <2>3, Joined, Zenon
    <3> QED BY <3>1 DEF Joins
  <2> DEFINE a == o \o f2
             b == a \o e
             d == b \o f3
  <2>6. b \in Seq(Messages) /\ Len(b) = 4 /\ b[1] = a[1] /\ b[2] = a[2] /\ b[3] = a[3] /\ b[4] = e[1]
    <3> HIDE DEF a
    <3>1. a \in Seq(Messages) /\ Len(a) = 3
      BY <2>5 DEF a
    <3>2. Joins(b, Messages, a, 3, e, 1)
      BY <2>0, <2>2, <3>1, Joined, Zenon
    <3> HIDE DEF b
    <3> QED BY <3>2 DEF Joins
  <2>7. /\ d \in Seq(Messages) /\ Len(d) = 7 /\ d[1] = b[1] /\ d[2] = b[2] /\ d[3] = b[3] /\ d[4] = b[4]
        /\ d[5] = f3[1] /\ d[6] = f3[2] /\ d[7] = f3[3]
    <3> HIDE DEF b
    <3>1. Joins(d, Messages, b, 4, f3, 3)
      BY <2>0, <2>1, <2>6, Joined, Zenon
    <3> HIDE DEF d
    <3> QED BY <3>1 DEF Joins
  <2>8. /\ ms \in Seq(Messages) /\ Len(ms) = 8 /\ ms[8] = e[1] /\ ms[1] = d[1] /\ ms[2] = d[2] /\ ms[3] = d[3]
        /\ ms[4] = d[4] /\ ms[5] = d[5] /\ ms[6] = d[6] /\ ms[7] = d[7]
    <3>1. ms = d \o e
      BY <2>4
    <3> HIDE DEF d
    <3>2. Joins(ms, Messages, d, 7, e, 1)
      BY <2>0, <2>2, <2>7, <3>1, Joined, Zenon
    <3>3. ms \in Seq(Messages) /\ Len(ms) = 8 /\ ms[8] = e[1] /\ \A i \in 1..7 : ms[i] = d[i]
      BY <3>2 DEF Joins
    <3> QED BY <3>3
  <2> HIDE DEF a, b, d
  <2>9. ms[1] = o[1] /\ ms[2] = f2[1] /\ ms[3] = f2[2] /\ ms[4] = e[1]
    BY <2>5, <2>6, <2>7, <2>8, Zenon DEF a
  <2>10. ms[5] = f3[1] /\ ms[6] = f3[2] /\ ms[7] = f3[3] /\ ms[8] = e[1]
    BY <2>7, <2>8, Zenon
  <2>11. ms[1].kind = "prepare_ok" /\ ms[2].kind = "field" /\ ms[3].kind = "field" /\ ms[4].kind = "eof"
    BY <2>1, <2>2, <2>3, <2>9
  <2>12. ms[5].kind = "field" /\ ms[6].kind = "field" /\ ms[7].kind = "field" /\ ms[8].kind = "eof" /\ ms[8].status = status
    BY <2>1, <2>2, <2>10
  <2> QED BY <2>8, <2>11, <2>12, Zenon
<1>2. /\ Len(K) = 8 /\ K \in Seq(AnswerKinds) /\ K[1] = "prepare_ok" /\ K[2] = "field" /\ K[3] = "field" /\ K[4] = "eof"
      /\ K[5] = "field" /\ K[6] = "field" /\ K[7] = "field" /\ K[8] = "eof"
  <2>1. Len(K) = Len(ms) /\ K \in Seq(AnswerKinds) /\ \A i \in 1..Len(ms) : K[i] = ms[i].kind
    BY <1>1, MessageKindsAre, Zenon
  <2> HIDE DEF K
  <2> QED BY <1>1, <2>1
<1> HIDE DEF K
<1>3. Complete("prepare", K)
  <2>1. FieldsThenEOF(SubSeq(K, 2, 2 + 2), 2)
    <3>1. /\ Len(SubSeq(K, 2, 4)) = 3 /\ SubSeq(K, 2, 4)[1] = K[2] /\ SubSeq(K, 2, 4)[2] = K[3] /\ SubSeq(K, 2, 4)[3] = K[4]
      BY <1>2
    <3> QED BY <1>2, <3>1 DEF FieldsThenEOF
  <2>2. FieldsThenEOF(SubSeq(K, 2 + 3, 2 + 3 + 3), 3)
    <3>1. /\ Len(SubSeq(K, 5, 8)) = 4 /\ SubSeq(K, 5, 8)[1] = K[5] /\ SubSeq(K, 5, 8)[2] = K[6]
          /\ SubSeq(K, 5, 8)[3] = K[7] /\ SubSeq(K, 5, 8)[4] = K[8]
      BY <1>2
    <3> QED BY <1>2, <3>1 DEF FieldsThenEOF
  <2>3. K # <<>> /\ Head(K) = "prepare_ok" /\ 2 \in 1..Len(K) /\ 3 \in 1..Len(K) /\ Len(K) = 2 + 3 + 3
    <3>1. K \in Seq(AnswerKinds) /\ Len(K) = 8 /\ K[1] = "prepare_ok"
      BY <1>2
    <3>2. K # <<>>
      <4>1. Len(<<>>) # 8
        OBVIOUS
      <4> QED BY <3>1, <4>1, Zenon
    <3>3. Head(K) = K[1]
      BY <3>1, <3>2 DEF Head
    <3> QED BY <3>1, <3>2, <3>3
  <2> QED BY <2>1, <2>2, <2>3 DEF Complete
<1>4. ASSUME NEW k \in 0..(Len(ms) - 1), NEW p \in Seq(Messages), Len(p) = k, \A i \in 1..k : p[i] = ms[i]
      PROVE  ~Complete("prepare", MessageKinds(p))
  <2> DEFINE J == MessageKinds(p)
  <2>1. Len(J) = k /\ J \in Seq(AnswerKinds) /\ \A i \in 1..k : J[i] = p[i].kind
    BY <1>4, MessageKindsAre
  <2>2. k \in 0..7 /\ \A i \in 1..k : J[i] = K[i]
    <3>1. \A i \in 1..Len(ms) : K[i] = ms[i].kind
      BY <1>1, MessageKindsAre, Zenon DEF K
    <3>2. k \in 0..7 /\ Len(ms) = 8
      BY <1>1
    <3> HIDE DEF J
    <3>3. ASSUME NEW i \in 1..k PROVE J[i] = K[i]
      <4>1. i \in 1..Len(ms)
        BY <3>2
      <4> QED BY <1>4, <2>1, <3>1, <4>1, Zenon
    <3> QED BY <3>2, <3>3
  <2> HIDE DEF J
  <2>3. J # <<"ok">> /\ J # <<"error">>
    <3>1. CASE k = 0
      BY <2>1, <3>1
    <3>2. CASE k # 0
      BY <1>2, <2>2, <3>2
    <3> QED BY <3>1, <3>2
  <2>4. ASSUME NEW q \in 1..Len(J), NEW c \in 1..Len(J), Len(J) = q + c + 3,
               FieldsThenEOF(SubSeq(J, 2, q + 2), q), FieldsThenEOF(SubSeq(J, q + 3, q + c + 3), c)
        PROVE  FALSE
    <3>1. SubSeq(J, 2, q + 2)[q + 1] = "eof" /\ SubSeq(J, 2, q + 2)[q + 1] = J[q + 2]
      <4>1. SubSeq(J, 2, q + 2)[q + 1] = "eof"
        BY <2>4, Zenon DEF FieldsThenEOF
      <4>2. Len(J) \in Nat /\ q \in Nat /\ q >= 1 /\ c \in Nat /\ q + 2 <= Len(J) /\ Len(J) = q + c + 3
        BY <2>1, <2>4
      <4>3. SubSeq(J, 2, q + 2)[q + 1] = J[q + 2]
        BY <2>1, <4>2
      <4> QED BY <4>1, <4>3
    <3>2. SubSeq(J, q + 3, q + c + 3)[c + 1] = "eof" /\ SubSeq(J, q + 3, q + c + 3)[c + 1] = J[q + c + 3]
      BY <2>1, <2>4 DEF FieldsThenEOF
    <3>3. q + 2 = 4 /\ q + c + 3 = 4
      BY <1>2, <2>1, <2>2, <2>4, <3>1, <3>2
    <3> QED BY <2>4, <3>3
  <2> QED BY <2>3, <2>4 DEF J, Complete
<1>5. Tells(ms, status)
  BY <1>1 DEF Tells, Last
<1> QED BY <1>1, <1>3, <1>4, <1>5 DEF ms, K, Answering, Answers

\* What each command does to the session, and that it is answered.
LEMMA HandleAnswers ==
  ASSUME NEW c \in [name : Commands \ {"quit"}, stmt : Nat], NEW s \in Sessions, NEW size \in Nat \ {0}
  PROVE  /\ Handle(c, s, size).session \in Sessions
         /\ Answering(c.name, Handle(c, s, size).session.status, Handle(c, s, size).messages)
<1> DEFINE h == Handle(c, s, size)
           name == c.name
<1>1. name \in Commands /\ name # "quit" /\ s.status \in SUBSET Statuses /\ s.stmts \in SUBSET Nat /\ s.next \in Nat
      /\ c.stmt \in Nat
  BY DEF Sessions
<1> USE DEF Handled
<1>2. CASE name = "init_db"
  BY <1>1, <1>2, OneAnswers DEF Handle, handleInitDB, Sessions
<1>3. CASE name = "query"
  <2>1. h = [session |-> s, messages |-> WriteQueryResult(3, 3, size)]
    BY <1>3 DEF Handle, handleQuery
  <2> HIDE DEF h
  <2> QED BY <1>3, <2>1, ResultAnswers DEF h
<1>4. CASE name \in {"ping", "set_option", "set_names"}
  <2>1. h = [session |-> s, messages |-> WriteOK(s.status)]
    BY <1>4 DEF Handle, handleSetOption, handleSpecialCommand
  <2> HIDE DEF h
  <2> QED BY <1>1, <1>4, <2>1, OneAnswers DEF h
<1>5. CASE name = "prepare"
  <2>1. h.session = [s EXCEPT !.stmts = @ \cup {s.next}, !.next = @ + 1]
    BY <1>5 DEF Handle, handleStmtPrepare
  <2>2. h.messages = WritePrepareOK \o Repeat(2, WriteColumnDefinition) \o WriteEOF(s.status)
                       \o Repeat(3, WriteColumnDefinition) \o WriteEOF(s.status)
    BY <1>5 DEF Handle, handleStmtPrepare
  <2> HIDE DEF h
  <2>3. h.session \in Sessions /\ h.session.status = s.status
    <3>1. s.next + 1 \in Nat /\ s.stmts \cup {s.next} \in SUBSET Nat /\ s.db \in BOOLEAN
      BY <1>1 DEF Sessions
    <3>2. h.session = [db |-> s.db, status |-> s.status, stmts |-> s.stmts \cup {s.next}, next |-> s.next + 1]
      BY <2>1 DEF Sessions
    <3> QED BY <1>1, <3>1, <3>2 DEF Sessions
  <2> QED BY <1>1, <1>5, <2>2, <2>3, PrepareAnswers DEF h
<1>6. CASE name = "execute"
  <2>1. h = [session |-> s, messages |-> IF c.stmt \in s.stmts THEN WriteQueryResult(3, 2, size) ELSE WriteError]
    BY <1>6 DEF Handle, handleStmtExecute, WritePreparedResult, WriteQueryResult, WriteBinaryRow, WriteTextRow
  <2> HIDE DEF h
  <2>2. h.session = s
    BY <2>1
  <2>3. CASE c.stmt \in s.stmts
    <3>1. h.messages = WriteQueryResult(3, 2, size) /\ 3 \in Nat \ {0} /\ 2 \in Nat
      BY <2>1, <2>3
    <3>2. Answering("execute", s.status, h.messages)
      BY <3>1, ResultAnswers
    <3> QED BY <1>6, <2>2, <3>2 DEF h
  <2>4. CASE c.stmt \notin s.stmts
    <3>1. h.messages = WriteError
      BY <2>1, <2>4
    <3>2. Answering(name, s.status, h.messages)
      BY <1>1, <1>6, <3>1, OneAnswers
    <3> QED BY <2>2, <3>2 DEF h
  <2> QED BY <2>3, <2>4
<1>7. CASE name = "close"
  <2>1. h = [session |-> [s EXCEPT !.stmts = @ \ {c.stmt}], messages |-> <<>>]
    BY <1>7 DEF Handle, handleStmtClose
  <2> HIDE DEF h
  <2>2. h.session \in Sessions
    BY <1>1, <2>1 DEF Sessions
  <2> QED BY <1>7, <2>1, <2>2, NoneAnswers DEF h
<1>8. CASE name \in {"reset", "other"}
  <2>1. h.session = s /\ (h.messages = WriteOK(s.status) \/ h.messages = WriteError)
    BY <1>8 DEF Handle, handleStmtReset
  <2> HIDE DEF h
  <2> QED BY <1>1, <1>8, <2>1, OneAnswers DEF h
<1>9. CASE name = "field_list"
  <2>1. h = [session |-> s, messages |-> Repeat(3, WriteColumnDefinition) \o WriteEOF(s.status)]
    BY <1>9 DEF Handle, handleFieldList
  <2> HIDE DEF h
  <2>2. h.session = s /\ h.messages = Repeat(3, WriteColumnDefinition) \o WriteEOF(s.status)
    BY <2>1
  <2>3. Answering("field_list", s.status, h.messages)
    BY <1>1, <2>2, FieldListAnswers, Zenon
  <2> QED BY <1>9, <2>2, <2>3 DEF h
<1>10. CASE name \in {"show_variables", "show_databases", "show_tables"}
  <2>1. /\ h.session = s
        /\ \/ h.messages = WriteQueryResult(2, size - 1, 1)
           \/ h.messages = WriteQueryResult(1, 4, 1)
           \/ h.messages = WriteError
    BY <1>10 DEF Handle, handleSpecialCommand, handleShowVariables, handleShowDatabases, handleShowTables
  <2> HIDE DEF h
  <2>2. size - 1 \in Nat
    OBVIOUS
  <2>3. ASSUME NEW columns \in {1, 2}, NEW rows \in Nat, NEW width \in Nat \ {0},
               h.messages = WriteQueryResult(columns, rows, width)
        PROVE  Answering(name, s.status, h.messages)
    BY <1>10, <2>3, ResultAnswers
  <2>4. h.messages = WriteError => Answering(name, s.status, h.messages)
    BY <1>1, <1>10, OneAnswers
  <2>5. Answering(name, s.status, h.messages)
    BY <2>1, <2>2, <2>3, <2>4
  <2> QED BY <2>1, <2>5 DEF h
<1>11. CASE name \in {"use", "begin", "commit", "rollback", "autocommit_on", "autocommit_off"}
  <2>1. /\ h.session \in Sessions /\ h.messages = WriteOK(h.session.status)
    BY <1>1, <1>11 DEF Handle, handleSpecialCommand, handleInitDB, SetServerStatus, handleSetCommand, Sessions, Statuses
  <2> HIDE DEF h
  <2>2. h.session.status \in SUBSET Statuses
    BY <2>1 DEF Sessions
  <2> QED BY <1>1, <1>11, <2>1, <2>2, OneAnswers DEF h
<1> QED BY <1>1, <1>2, <1>3, <1>4, <1>5, <1>6, <1>7, <1>8, <1>9, <1>10, <1>11 DEF Commands

-----------------------------------------------------------------------------
(* The MySQL protocol: messages on the wire.                               *)

\* Chunks, numbers and bounds.
LEMMA NumbersAre == Chunk \in Nat \ {0, 1} /\ Numbers \in Nat \ {0, 1} /\ MaxSize \in Nat /\ MaxStatements \in Nat
  BY ProtocolAssumption

\* A number is its quotient and its remainder.
LEMMA Division ==
  ASSUME NEW a \in Nat, NEW c \in Nat \ {0}
  PROVE  a \div c \in Nat /\ a % c \in 0..(c - 1) /\ a = c * (a \div c) + (a % c)
  OBVIOUS

\* The remainder is the only one.
LEMMA Remainder ==
  ASSUME NEW a \in Nat, NEW c \in Nat \ {0}, NEW q \in Nat, NEW r \in 0..(c - 1), a = c * q + r
  PROVE  a % c = r
<1>1. a \div c \in Nat /\ a % c \in 0..(c - 1) /\ a = c * (a \div c) + (a % c)
  BY Division
<1>2. PICK d \in Nat, s \in Nat : d = a \div c /\ s = a % c
  BY <1>1
<1>3. c * q + r = c * d + s /\ s \in 0..(c - 1)
  BY <1>1, <1>2
<1>4. q = d
  <2>1. ~(q >= d + 1)
    <3> SUFFICES ASSUME q >= d + 1 PROVE FALSE
      OBVIOUS
    <3>1. PICK x \in Nat : q = d + 1 + x
      <4>1. q - d - 1 \in Nat /\ q = d + 1 + (q - d - 1)
        BY <1>2
      <4> QED BY <4>1
    <3>2. c * q = c * d + c + c * x /\ c * x \in Nat /\ c * d \in Nat
      BY <1>2, <3>1
    <3> QED BY <1>3, <3>2
  <2>2. ~(d >= q + 1)
    <3> SUFFICES ASSUME d >= q + 1 PROVE FALSE
      OBVIOUS
    <3>1. PICK x \in Nat : d = q + 1 + x
      <4>1. d - q - 1 \in Nat /\ d = q + 1 + (d - q - 1)
        BY <1>2
      <4> QED BY <4>1
    <3>2. c * d = c * q + c + c * x /\ c * x \in Nat /\ c * q \in Nat
      BY <1>2, <3>1
    <3> QED BY <1>3, <3>2
  <2> QED BY <1>2, <2>1, <2>2
<1>5. c * q = c * d
  BY <1>4
<1>6. c * q \in Nat /\ c * d \in Nat
  BY <1>2
<1> QED BY <1>2, <1>3, <1>5, <1>6

\* A multiple of a sum.
LEMMA Distributes ==
  ASSUME NEW c \in Nat, NEW p \in Nat, NEW q \in Nat
  PROVE  c * (q + p) = c * q + c * p /\ q + p \in Nat
  OBVIOUS

\* Counting on from a number modulo c.
LEMMA CountingOn ==
  ASSUME NEW a \in Nat, NEW b \in Nat, NEW c \in Nat \ {0}
  PROVE  a % c \in 0..(c - 1) /\ ((a % c) + b) % c = (a + b) % c
<1> DEFINE x == (a % c) + b
<1>1. a \div c \in Nat /\ a % c \in 0..(c - 1) /\ a = c * (a \div c) + (a % c)
  BY Division
<1>2. x \in Nat
  BY <1>1
<1> HIDE DEF x
<1>3. x \div c \in Nat /\ x % c \in 0..(c - 1) /\ x = c * (x \div c) + (x % c)
  BY <1>2, Division
<1>4. PICK q \in Nat, p \in Nat : q = a \div c /\ p = x \div c
  BY <1>1, <1>3
<1>5. a + b = c * q + c * p + (x % c)
  <2>1. a = c * q + (a % c) /\ x = c * p + (x % c) /\ x = (a % c) + b
    BY <1>1, <1>3, <1>4 DEF x
  <2>2. c * q \in Nat /\ c * p \in Nat
    BY <1>4
  <2> QED BY <1>1, <1>3, <2>1, <2>2
<1>6. c * (q + p) = c * q + c * p /\ q + p \in Nat /\ a + b \in Nat
  <2>1. c \in Nat /\ a + b \in Nat
    OBVIOUS
  <2> QED BY <2>1, Distributes, Zenon
<1>7. (a + b) % c = x % c
  BY <1>3, <1>5, <1>6, Remainder
<1> QED BY <1>1, <1>7 DEF x

\* A sequence number is its own remainder.
LEMMA Same ==
  ASSUME NEW n \in 0..(Numbers - 1)
  PROVE  n % Numbers = n /\ (n + 0) % Numbers = n
<1>1. n \in Nat /\ n = Numbers * 0 + n /\ n + 0 = n /\ 0 \in Nat
  BY NumbersAre
<1>2. n % Numbers = n
  BY <1>1, NumbersAre, Remainder
<1> QED BY <1>1, <1>2

(* The packets carry what remains of the first "to" messages behind the    *)
(* first k and b bytes of the next, numbered from n on: packet j belongs   *)
(* to message of[j], of which before[j] bytes come before it.              *)
Spread(ps, ms, of, before, k, to, b, n) ==
  /\ IF Len(ps) = 0 THEN k = to /\ b = 0 ELSE of[1] = k + 1 /\ before[1] = b
  /\ \A j \in 1..Len(ps) :
        /\ of[j] \in 1..to /\ before[j] \in Nat
        /\ ps[j].number = (n + j - 1) % Numbers
        /\ ps[j].kind = ms[of[j]].kind /\ ps[j].status = ms[of[j]].status
        /\ IF ps[j].size < Chunk
           THEN /\ before[j] + ps[j].size = ms[of[j]].size
                /\ IF j < Len(ps) THEN of[j + 1] = of[j] + 1 /\ before[j + 1] = 0 ELSE of[j] = to
           ELSE /\ ps[j].size = Chunk /\ j < Len(ps)
                /\ of[j + 1] = of[j] /\ before[j + 1] = before[j] + Chunk

Carries(ps, ms, k, to, b, n) == \E of, before : Spread(ps, ms, of, before, k, to, b, n)

\* No packets carry no messages.
LEMMA NothingCarried == \A ms, n : Carries(<<>>, ms, 0, 0, 0, n)
<1>1. \A ms, n : Spread(<<>>, ms, <<>>, <<>>, 0, 0, 0, n)
  BY DEF Spread
<1> QED BY <1>1, Zenon DEF Carries

\* When no packets are left, nothing remains of the answer.
LEMMA NothingLeft ==
  ASSUME NEW ms, NEW k, NEW to, NEW b, NEW n, Carries(<<>>, ms, k, to, b, n)
  PROVE  k = to /\ b = 0
<1>1. PICK of, before : Spread(<<>>, ms, of, before, k, to, b, n)
  BY Zenon DEF Carries
<1> QED BY <1>1 DEF Spread

(* The packets of one message, numbered from n on: all full but the last.  *)
Chunks(ps, m, n) ==
  /\ ps \in Seq(Packets) /\ Len(ps) \in Nat \ {0}
  /\ \A j \in 1..Len(ps) : /\ ps[j].number = (n + j - 1) % Numbers
                           /\ ps[j].kind = m.kind /\ ps[j].status = m.status
                           /\ j < Len(ps) => ps[j].size = Chunk
  /\ ps[Len(ps)].size < Chunk /\ Chunk * (Len(ps) - 1) + ps[Len(ps)].size = m.size

\* writePacket spreads a message over packets: all full but the last, which is not.
LEMMA OneIsSpread ==
  ASSUME NEW m \in Messages, ~Aligned(m.size), NEW n \in Nat
  PROVE  /\ Chunks(Numbered(writePacket(m.size), n, m), m, n)
         /\ Len(Numbered(writePacket(m.size), n, m)) = Len(writePacket(m.size))
<1>1. /\ m.size \in Nat \ {0} /\ Chunk \in Nat \ {0} /\ Numbers \in Nat \ {0}
      /\ m.kind \in AnswerKinds /\ m.status \in SUBSET Statuses
  BY ProtocolAssumption, MessageIs
<1> DEFINE q == m.size \div Chunk
           sizes == writePacket(m.size)
           ps == Numbered(writePacket(m.size), n, m)
<1>2. q \in Nat /\ m.size % Chunk \in 0..(Chunk - 1) /\ m.size = Chunk * q + (m.size % Chunk)
  BY <1>1, Division
<1>3. sizes = Repeat(q, Chunk) \o <<m.size % Chunk>>
  BY DEF writePacket
<1>4. PICK r \in 0..(Chunk - 1) : r = m.size % Chunk
  BY <1>2
<1> HIDE DEF q, sizes
<1>5. Repeat(q, Chunk) \in Seq(Nat) /\ Len(Repeat(q, Chunk)) = q /\ \A i \in 1..q : Repeat(q, Chunk)[i] = Chunk
  BY <1>1, <1>2 DEF Repeat
<1>6. sizes \in Seq(Nat) /\ Len(sizes) = q + 1 /\ sizes[q + 1] = r /\ \A i \in 1..q : sizes[i] = Chunk
  <2>1. <<r>> \in Seq(Nat) /\ Len(<<r>>) = 1 /\ <<r>>[1] = r /\ 1 \in Nat
    BY <1>1, <1>4
  <2>2. sizes = Repeat(q, Chunk) \o <<r>>
    BY <1>3, <1>4
  <2>3. Joins(sizes, Nat, Repeat(q, Chunk), q, <<r>>, 1)
    BY <1>2, <1>5, <2>1, <2>2, Joined, Zenon
  <2>4. sizes \in Seq(Nat) /\ Len(sizes) = q + 1 /\ sizes[q + 1] = <<r>>[1] /\ \A i \in 1..q : sizes[i] = Repeat(q, Chunk)[i]
    BY <2>3 DEF Joins
  <2> QED BY <1>5, <2>1, <2>4, Zenon
<1>7. ps = [i \in 1..Len(sizes) |-> [size |-> sizes[i], number |-> (n + i - 1) % Numbers,
                                     kind |-> m.kind, status |-> m.status]]
  BY DEF Numbered, sizes
<1>8. \A i \in 1..(q + 1) : sizes[i] \in Nat /\ (n + i - 1) % Numbers \in Nat
  <2> TAKE i \in 1..(q + 1)
  <2>1. n + i - 1 \in Nat
    BY <1>2
  <2>2. (n + i - 1) % Numbers \in 0..(Numbers - 1)
    BY <1>1, <2>1, Division, Zenon
  <2>3. sizes[i] \in Nat
    BY <1>2, <1>6
  <2> QED BY <1>1, <2>2, <2>3
<1> HIDE DEF ps
<1>9. /\ Len(ps) = q + 1 /\ ps \in Seq(Packets)
      /\ \A i \in 1..(q + 1) : /\ ps[i].number = (n + i - 1) % Numbers /\ ps[i].size = sizes[i]
                               /\ ps[i].kind = m.kind /\ ps[i].status = m.status
  <2>1. ASSUME NEW i \in 1..(q + 1)
        PROVE  [size |-> sizes[i], number |-> (n + i - 1) % Numbers, kind |-> m.kind, status |-> m.status] \in Packets
    BY <1>1, <1>8 DEF Packets
  <2> QED BY <1>2, <1>6, <1>7, <2>1
<1>10. /\ ps \in Seq(Packets) /\ Len(ps) \in Nat \ {0} /\ Len(ps) = Len(sizes)
       /\ \A j \in 1..Len(ps) : /\ ps[j].number = (n + j - 1) % Numbers
                                /\ ps[j].kind = m.kind /\ ps[j].status = m.status
                                /\ j < Len(ps) => ps[j].size = Chunk
  <2>1. \A j \in 1..(q + 1) : j < q + 1 => j \in 1..q
    BY <1>2
  <2>2. Len(ps) \in Nat \ {0} /\ Len(ps) = Len(sizes)
    BY <1>2, <1>6, <1>9
  <2> QED BY <1>6, <1>9, <2>1, <2>2, Zenon
<1>11. ps[Len(ps)].size < Chunk /\ Chunk * (Len(ps) - 1) + ps[Len(ps)].size = m.size
  <2>1. q + 1 \in 1..(q + 1) /\ (q + 1) - 1 = q /\ r < Chunk
    BY <1>1, <1>2
  <2>2. ps[q + 1].size = r
    BY <1>6, <1>9, <2>1, Zenon
  <2>3. Len(ps) = q + 1 /\ Chunk * q + r = m.size
    BY <1>2, <1>4, <1>9
  <2> QED BY <2>1, <2>2, <2>3
<1> QED BY <1>10, <1>11, Zenon DEF ps, sizes, Chunks

\* One more message behind those that are on the wire.
LEMMA OneMore ==
  ASSUME NEW ms \in Seq(Messages), NEW i \in 1..Len(ms), ~Aligned(ms[i].size), NEW n \in Nat,
         NEW ps \in Seq(Packets), Carries(ps, ms, 0, i - 1, 0, n),
         NEW qs, Chunks(qs, ms[i], (n + Len(ps)) % Numbers)
  PROVE  ps \o qs \in Seq(Packets) /\ Carries(ps \o qs, ms, 0, i, 0, n)
<1> DEFINE f == (n + Len(ps)) % Numbers
           l == Len(ps)
           ts == ps \o qs
           m == ms[i]
<1>1. /\ Numbers \in Nat \ {0} /\ Chunk \in Nat \ {0} /\ l \in Nat /\ i \in Nat /\ i # 0
      /\ m \in Messages /\ m.size \in Nat \ {0}
  <2>1. m \in Messages /\ i \in Nat /\ i # 0
    OBVIOUS
  <2> QED BY <2>1, ProtocolAssumption, MessageIs
<1>2. f \in Nat
  BY <1>1, CountingOn
<1>3. /\ qs \in Seq(Packets) /\ Len(qs) \in Nat \ {0}
      /\ \A j \in 1..Len(qs) : /\ qs[j].number = (f + j - 1) % Numbers
                               /\ qs[j].kind = m.kind /\ qs[j].status = m.status
                               /\ j < Len(qs) => qs[j].size = Chunk
      /\ qs[Len(qs)].size < Chunk /\ Chunk * (Len(qs) - 1) + qs[Len(qs)].size = m.size
  BY Zenon DEF Chunks
<1>4. \A j \in 1..Len(qs) : qs[j].number = (n + (l + j) - 1) % Numbers
  <2> TAKE j \in 1..Len(qs)
  <2>1. j - 1 \in Nat /\ n + l \in Nat /\ (n + l) + (j - 1) = n + (l + j) - 1 /\ f + j - 1 = f + (j - 1)
    BY <1>1, <1>2
  <2>2. (((n + l) % Numbers) + (j - 1)) % Numbers = ((n + l) + (j - 1)) % Numbers
    <3>1. PICK x \in Nat, y \in Nat : x = n + l /\ y = j - 1
      BY <2>1
    <3>2. ((x % Numbers) + y) % Numbers = (x + y) % Numbers
      BY <1>1, CountingOn, Zenon
    <3> QED BY <3>1, <3>2
  <2> QED BY <1>3, <2>1, <2>2
<1>5. PICK of, before : Spread(ps, ms, of, before, 0, i - 1, 0, n)
  BY Zenon DEF Carries
<1> DEFINE to == [j \in 1..(l + Len(qs)) |-> IF j <= l THEN of[j] ELSE i]
           past == [j \in 1..(l + Len(qs)) |-> IF j <= l THEN before[j] ELSE Chunk * (j - l - 1)]
<1>6. /\ ts \in Seq(Packets) /\ Len(ts) = l + Len(qs)
      /\ \A j \in 1..l : ts[j] = ps[j]
      /\ \A j \in (l + 1)..(l + Len(qs)) : ts[j] = qs[j - l]
  <2>1. Len(qs) \in Nat /\ qs \in Seq(Packets)
    BY <1>3
  <2>2. Joins(ts, Packets, ps, l, qs, Len(qs))
    BY <1>1, <2>1, Joined, Zenon
  <2> HIDE DEF ts
  <2>3. /\ ts \in Seq(Packets) /\ Len(ts) = l + Len(qs)
        /\ \A j \in 1..l : ts[j] = ps[j]
        /\ \A j \in 1..Len(qs) : ts[l + j] = qs[j]
    BY <2>2, Zenon DEF Joins
  <2>4. ASSUME NEW j \in (l + 1)..(l + Len(qs)) PROVE ts[j] = qs[j - l]
    <3>1. j - l \in 1..Len(qs) /\ l + (j - l) = j
      BY <1>1, <2>1
    <3> QED BY <2>3, <3>1
  <2> QED BY <2>3, <2>4
<1>7. /\ \A j \in 1..l : to[j] = of[j] /\ past[j] = before[j]
      /\ \A j \in (l + 1)..(l + Len(qs)) : to[j] = i /\ past[j] = Chunk * (j - l - 1)
  BY <1>1, <1>3, SMTT(30)
<1>8. Chunk * 0 = 0 /\ past[l + 1] = 0 /\ to[l + 1] = i
  <2>1. l + 1 \in (l + 1)..(l + Len(qs)) /\ (l + 1) - l - 1 = 0 /\ Chunk * 0 = 0
    BY <1>1, <1>3
  <2> HIDE DEF to, past
  <2> QED BY <1>7, <2>1
<1>9. l # 0 => of[1] = 1 /\ before[1] = 0 /\ of[l] = i - 1
  <2>1. l # 0 => of[1] = 0 + 1 /\ before[1] = 0
    BY <1>5 DEF Spread
  <2>2. l # 0 => of[l] = i - 1
    BY <1>1, <1>5 DEF Spread
  <2> QED BY <2>1, <2>2
<1>10. l = 0 => i = 1
  BY <1>1, <1>5 DEF Spread
<1> HIDE DEF to, past, ts, f
<1>11. to[1] = 0 + 1 /\ past[1] = 0
  <2>1. CASE l = 0
    BY <1>8, <1>10, <2>1
  <2>2. CASE l # 0
    BY <1>1, <1>7, <1>9, <2>2
  <2> QED BY <2>1, <2>2
<1>12. ASSUME NEW j \in 1..l
       PROVE  /\ to[j] \in 1..i /\ past[j] \in Nat
              /\ ts[j].number = (n + j - 1) % Numbers
              /\ ts[j].kind = ms[to[j]].kind /\ ts[j].status = ms[to[j]].status
              /\ IF ts[j].size < Chunk
                 THEN /\ past[j] + ts[j].size = ms[to[j]].size
                      /\ IF j < Len(ts) THEN to[j + 1] = to[j] + 1 /\ past[j + 1] = 0 ELSE to[j] = i
                 ELSE /\ ts[j].size = Chunk /\ j < Len(ts)
                      /\ to[j + 1] = to[j] /\ past[j + 1] = past[j] + Chunk
  <2>1. ts[j] = ps[j] /\ to[j] = of[j] /\ past[j] = before[j] /\ j < Len(ts) /\ j \in Nat
    <3>1. ts[j] = ps[j] /\ to[j] = of[j] /\ past[j] = before[j]
      BY <1>6, <1>7, Zenon
    <3>2. Len(qs) \in Nat \ {0} /\ Len(ts) = l + Len(qs)
      BY <1>3, <1>6, Zenon
    <3>3. j < Len(ts) /\ j \in Nat
      BY <1>1, <3>2
    <3> QED BY <3>1, <3>3
  <2>2. /\ of[j] \in 1..(i - 1) /\ before[j] \in Nat
        /\ ps[j].number = (n + j - 1) % Numbers
        /\ ps[j].kind = ms[of[j]].kind /\ ps[j].status = ms[of[j]].status
        /\ IF ps[j].size < Chunk
           THEN /\ before[j] + ps[j].size = ms[of[j]].size
                /\ IF j < l THEN of[j + 1] = of[j] + 1 /\ before[j + 1] = 0 ELSE of[j] = i - 1
           ELSE /\ ps[j].size = Chunk /\ j < l
                /\ of[j + 1] = of[j] /\ before[j + 1] = before[j] + Chunk
    BY <1>5 DEF Spread
  <2>3. j < l => to[j + 1] = of[j + 1] /\ past[j + 1] = before[j + 1]
    <3>1. j < l => j + 1 \in 1..l
      BY <1>1
    <3> QED BY <1>7, <3>1, Zenon
  <2>4. j = l => to[j + 1] = i /\ past[j + 1] = 0
    BY <1>8
  <2>5. j < l \/ j = l
    BY <1>1
  <2>6. to[j] \in 1..i
    BY <1>1, <2>1, <2>2
  <2> QED BY <1>1, <2>1, <2>2, <2>3, <2>4, <2>5, <2>6, SMTT(30)
<1>13. ASSUME NEW j \in (l + 1)..(l + Len(qs))
       PROVE  /\ to[j] \in 1..i /\ past[j] \in Nat
              /\ ts[j].number = (n + j - 1) % Numbers
              /\ ts[j].kind = ms[to[j]].kind /\ ts[j].status = ms[to[j]].status
              /\ IF ts[j].size < Chunk
                 THEN /\ past[j] + ts[j].size = ms[to[j]].size
                      /\ IF j < Len(ts) THEN to[j + 1] = to[j] + 1 /\ past[j + 1] = 0 ELSE to[j] = i
                 ELSE /\ ts[j].size = Chunk /\ j < Len(ts)
                      /\ to[j + 1] = to[j] /\ past[j + 1] = past[j] + Chunk
  <2>1. PICK x \in 1..Len(qs) : j = l + x
    <3>1. Len(qs) \in Nat /\ l \in Nat
      BY <1>1, <1>3, Zenon
    <3>2. j - l \in 1..Len(qs) /\ j = l + (j - l)
      BY <3>1
    <3> QED BY <3>2
  <2>2. ts[j] = qs[x] /\ to[j] = i /\ past[j] = Chunk * (x - 1)
    <3>1. j - l = x /\ j - l - 1 = x - 1
      BY <1>1, <1>3, <2>1
    <3> QED BY <1>6, <1>7, <3>1
  <2>3. ts[j].number = (n + j - 1) % Numbers
    BY <1>4, <2>1, <2>2
  <2>4. to[j] \in 1..i /\ past[j] \in Nat
    <3>1. x - 1 \in Nat
      BY <1>3
    <3>2. Chunk * (x - 1) \in Nat
      BY <1>1, <3>1, SMTT(30)
    <3> QED BY <1>1, <2>2, <3>2
  <2>5. CASE x < Len(qs)
    <3>1. ts[j].size = Chunk /\ j < Len(ts) /\ j + 1 \in (l + 1)..(l + Len(qs))
      <4>1. ts[j].size = Chunk
        BY <1>3, <2>2, <2>5, Zenon
      <4>2. Len(qs) \in Nat /\ l \in Nat /\ Len(ts) = l + Len(qs)
        BY <1>1, <1>3, <1>6, Zenon
      <4>3. j < l + Len(qs) /\ j + 1 \in (l + 1)..(l + Len(qs))
        BY <2>1, <2>5, <4>2
      <4> QED BY <4>1, <4>2, <4>3
    <3>2. to[j + 1] = i /\ past[j + 1] = Chunk * x
      <4>1. (j + 1) - l - 1 = x
        BY <1>1, <1>3, <2>1
      <4> QED BY <1>7, <3>1, <4>1
    <3>3. Chunk * x = Chunk * (x - 1) + Chunk
      <4>1. PICK y \in Nat : x = y + 1 /\ x - 1 = y
        <5>1. x - 1 \in Nat /\ x = (x - 1) + 1
          BY <1>3
        <5> QED BY <5>1
      <4>2. Chunk * (y + 1) = Chunk * y + Chunk
        BY <1>1
      <4> QED BY <4>1, <4>2
    <3>4. ~(ts[j].size < Chunk)
      BY <1>1, <3>1
    <3>5. ts[j].kind = ms[to[j]].kind /\ ts[j].status = ms[to[j]].status
      BY <1>3, <2>2
    <3> QED BY <2>2, <2>3, <2>4, <3>1, <3>2, <3>3, <3>4, <3>5
  <2>6. CASE x = Len(qs)
    <3>1. ts[j].size < Chunk /\ ~(j < Len(ts)) /\ past[j] + ts[j].size = m.size
      BY <1>1, <1>3, <1>6, <2>1, <2>2, <2>6
    <3>2. ts[j].kind = ms[to[j]].kind /\ ts[j].status = ms[to[j]].status
      BY <1>3, <2>2
    <3> QED BY <2>2, <2>3, <2>4, <3>1, <3>2
  <2> QED BY <1>3, <2>5, <2>6
<1>14. Spread(ts, ms, to, past, 0, i, 0, n)
  <2>1. Len(ts) # 0 /\ \A j \in 1..Len(ts) : j \in 1..l \/ j \in (l + 1)..(l + Len(qs))
    BY <1>1, <1>3, <1>6
  <2> HIDE DEF l
  <2> QED BY <1>11, <1>12, <1>13, <2>1 DEF Spread
<1>15. Carries(ts, ms, 0, i, 0, n)
  BY <1>14, Zenon DEF Carries
<1> QED BY <1>6, <1>15 DEF ts

Wires == [packets : Seq(Packets), sequence : 0..(Numbers - 1)]

\* The wire after each message.
WriteRun(r, ms) ==
  /\ r[0].packets = <<>> /\ r[0].sequence = sequence /\ r[Len(ms)] = WriteAll(ms)
  /\ \A i \in 1..Len(ms) : r[i] = WriteMessage(r[i - 1], ms[i])

\* Behind a message that was written the wire is a wire.
LEMMA WritesOne ==
  ASSUME NEW m \in Messages, ~Aligned(m.size), NEW w \in Wires
  PROVE  WriteMessage(w, m) \in Wires
<1> DEFINE qs == Numbered(writePacket(m.size), w.sequence, m)
<1>1. w.packets \in Seq(Packets) /\ w.sequence \in Nat
  BY NumbersAre DEF Wires
<1>2. qs \in Seq(Packets) /\ Len(writePacket(m.size)) \in Nat
  <2>1. Chunks(qs, m, w.sequence) /\ Len(qs) = Len(writePacket(m.size))
    BY <1>1, OneIsSpread, Zenon
  <2> HIDE DEF qs
  <2> QED BY <2>1 DEF Chunks
<1>3. (w.sequence + Len(writePacket(m.size))) % Numbers \in 0..(Numbers - 1)
  BY <1>1, <1>2, NumbersAre, CountingOn
<1> HIDE DEF qs
<1>4. w.packets \o qs \in Seq(Packets)
  BY <1>1, <1>2
<1> QED BY <1>3, <1>4 DEF WriteMessage, Wires, qs

\* The wire goes on from message to message.
LEMMA WriteRuns ==
  ASSUME NEW ms \in Seq(Messages), \A i \in 1..Len(ms) : ~Aligned(ms[i].size), sequence \in 0..(Numbers - 1)
  PROVE  \E r \in [0..Len(ms) -> Wires] : WriteRun(r, ms)
<1> DEFINE n == Len(ms)
           base == [packets |-> <<>>, sequence |-> sequence]
           F == [p \in Wires \X (1..n) |-> WriteMessage(p[1], ms[p[2]])]
           Step(f, s) == IF s = {} THEN base ELSE WriteMessage(f[s \ {Max(s)}], ms[Max(s)])
           iter == CHOOSE f : f = [s \in SUBSET DOMAIN ms |-> Step(f, s)]
<1>1. WriteAll(ms) = iter[DOMAIN ms]
  BY DEF WriteAll, FoldLeft, MapThenFoldSet
<1>2. n \in Nat /\ DOMAIN ms = 1..n /\ base \in Wires /\ \A i \in 1..n : ms[i] \in Messages /\ ~Aligned(ms[i].size)
  BY DEF Wires
<1>3. base.packets = <<>> /\ base.sequence = sequence
  OBVIOUS
<1> HIDE DEF iter, n, base
<1>4. F \in [Wires \X (1..n) -> Wires]
  BY <1>2, WritesOne
<1>5. PICK g \in [SUBSET (1..n) -> Wires] : IsFold(g, n, base, F)
  <2> HIDE DEF F
  <2> QED BY <1>2, <1>4, FoldExists
<1>6. g = [s \in SUBSET DOMAIN ms |-> Step(g, s)]
  <2>1. ASSUME NEW s \in SUBSET (1..n) PROVE g[s] = Step(g, s)
    <3>1. CASE s = {}
      BY <1>5, <3>1 DEF IsFold
    <3>2. CASE s # {}
      <4>1. PICK k : k = Max(s)
        OBVIOUS
      <4>2. k \in s
        BY <1>2, <3>2, <4>1, LastIsIn
      <4>3. g[s] = F[<<g[s \ {k}], k>>] /\ g[s \ {k}] \in Wires /\ k \in 1..n
        BY <1>5, <3>2, <4>1, <4>2 DEF IsFold
      <4>4. F[<<g[s \ {k}], k>>] = WriteMessage(g[s \ {k}], ms[k])
        BY <4>3
      <4> QED BY <3>2, <4>1, <4>3, <4>4
    <3> QED BY <3>1, <3>2
  <2> HIDE DEF Step
  <2> QED BY <1>2, <2>1
<1>7. iter = [s \in SUBSET DOMAIN ms |-> Step(iter, s)]
  <2> HIDE DEF Step
  <2> QED BY <1>6 DEF iter
<1>8. \A s \in SUBSET (1..n) : iter[s] = Step(iter, s)
  <2> HIDE DEF Step
  <2> QED BY <1>2, <1>7
<1>9. Follows(iter, n, Wires, base, F)
  <2>1. iter[{}] = base
    BY <1>8
  <2>2. ASSUME NEW s \in SUBSET (1..n), s # {}, iter[s \ {Max(s)}] \in Wires
        PROVE  iter[s] = F[<<iter[s \ {Max(s)}], Max(s)>>]
    BY <1>2, <1>8, <2>2, LastIsIn
  <2> HIDE DEF F, Step
  <2> QED BY <2>1, <2>2 DEF Follows
<1>10. PICK r \in [0..n -> Wires] : Runs(r, n, base, F, iter[1..n])
  <2> HIDE DEF F, Step
  <2> QED BY <1>2, <1>4, <1>9, FoldRuns
<1>11. ASSUME NEW i \in 1..n PROVE r[i] = WriteMessage(r[i - 1], ms[i])
  <2>1. <<r[i - 1], i>> \in Wires \X (1..n)
    BY <1>2, <1>10
  <2>2. r[i] = F[<<r[i - 1], i>>]
    BY <1>10 DEF Runs
  <2> QED BY <2>1, <2>2
<1>12. r[0].packets = <<>> /\ r[0].sequence = sequence /\ r[n] = WriteAll(ms)
  BY <1>1, <1>2, <1>3, <1>10 DEF Runs
<1> HIDE DEF F, Step
<1> QED BY <1>10, <1>11, <1>12 DEF n, WriteRun

\* An answer goes onto the wire as a whole, message behind message.
LEMMA AllAreWritten ==
  ASSUME NEW ms \in Seq(Messages), \A i \in 1..Len(ms) : ~Aligned(ms[i].size), sequence \in 0..(Numbers - 1)
  PROVE  /\ WriteAll(ms) \in Wires
         /\ Carries(WriteAll(ms).packets, ms, 0, Len(ms), 0, sequence)
<1> DEFINE n == Len(ms)
<1>1. n \in Nat /\ sequence \in Nat /\ \A i \in 1..n : ms[i] \in Messages /\ ~Aligned(ms[i].size)
  BY NumbersAre
<1>2. PICK r \in [0..n -> Wires] : WriteRun(r, ms)
  BY WriteRuns
<1> HIDE DEF n
<1> DEFINE P == {i \in 0..n : /\ Carries(r[i].packets, ms, 0, i, 0, sequence)
                              /\ r[i].sequence = (sequence + Len(r[i].packets)) % Numbers}
<1>4. 0 \in P
  <2>1. r[0].packets = <<>> /\ r[0].sequence = sequence /\ 0 \in 0..n /\ Len(<<>>) = 0
    BY <1>1, <1>2 DEF WriteRun
  <2>2. sequence = (sequence + 0) % Numbers
    BY <1>1, Same
  <2> QED BY <2>1, <2>2, NothingCarried
<1>5. ASSUME NEW i \in 1..n, i - 1 \in P PROVE i \in P
  <2> DEFINE w == r[i - 1]
             m == ms[i]
             qs == Numbered(writePacket(m.size), w.sequence, m)
  <2>1. /\ w \in Wires /\ w.packets \in Seq(Packets) /\ w.sequence \in Nat /\ i \in 0..n /\ i \in 1..Len(ms)
        /\ Carries(w.packets, ms, 0, i - 1, 0, sequence) /\ w.sequence = (sequence + Len(w.packets)) % Numbers
    <3>1. w \in Wires /\ i \in 0..n /\ i \in 1..Len(ms)
      BY <1>1, <1>2 DEF n
    <3>2. w.packets \in Seq(Packets) /\ w.sequence \in Nat
      BY <3>1, NumbersAre DEF Wires
    <3> QED BY <1>5, <3>1, <3>2
  <2>2. r[i] = [packets |-> w.packets \o qs, sequence |-> (w.sequence + Len(writePacket(m.size))) % Numbers]
    BY <1>2 DEF WriteRun, WriteMessage, n
  <2>3. /\ qs \in Seq(Packets) /\ Len(qs) = Len(writePacket(m.size)) /\ Len(qs) \in Nat
        /\ Chunks(qs, m, w.sequence)
    <3>1. Chunks(qs, m, w.sequence) /\ Len(qs) = Len(writePacket(m.size))
      BY <1>1, <2>1, OneIsSpread, Zenon
    <3> HIDE DEF qs
    <3> QED BY <3>1 DEF Chunks
  <2>4. Carries(w.packets \o qs, ms, 0, i, 0, sequence)
    <3> HIDE DEF w, qs
    <3>1. Chunks(qs, ms[i], (sequence + Len(w.packets)) % Numbers)
      BY <2>1, <2>3
    <3> QED BY <1>1, <2>1, <3>1, OneMore, Zenon
  <2>5. r[i].packets = w.packets \o qs /\ r[i].sequence = (w.sequence + Len(writePacket(m.size))) % Numbers
    <3> DEFINE whole == w.packets \o qs
               last == (w.sequence + Len(writePacket(m.size))) % Numbers
    <3>1. r[i] = [packets |-> whole, sequence |-> last]
      BY <2>2
    <3> HIDE DEF whole, last
    <3>2. r[i].packets = whole /\ r[i].sequence = last
      BY <3>1
    <3> QED BY <3>2 DEF whole, last
  <2>6. r[i].sequence = (sequence + Len(r[i].packets)) % Numbers
    <3> HIDE DEF w, m, qs
    <3>1. /\ Len(r[i].packets) = Len(w.packets) + Len(qs)
          /\ r[i].sequence = (w.sequence + Len(qs)) % Numbers
      <4>1. Len(w.packets \o qs) = Len(w.packets) + Len(qs)
        BY <2>1, <2>3, ConcatProperties, Zenon
      <4> QED BY <2>3, <2>5, <4>1, Zenon
    <3>2. sequence + Len(w.packets) \in Nat
          /\ (sequence + Len(w.packets)) + Len(qs) = sequence + (Len(w.packets) + Len(qs))
      <4>1. Len(w.packets) \in Nat /\ Len(qs) \in Nat
        BY <2>1, <2>3, LenProperties, Zenon
      <4>2. PICK x \in Nat, y \in Nat : x = Len(w.packets) /\ y = Len(qs)
        BY <4>1, Zenon
      <4>3. sequence + x \in Nat /\ (sequence + x) + y = sequence + (x + y)
        BY <1>1
      <4> QED BY <4>2, <4>3, Zenon
    <3>3. (((sequence + Len(w.packets)) % Numbers) + Len(qs)) % Numbers
            = ((sequence + Len(w.packets)) + Len(qs)) % Numbers
      BY <2>3, <3>2, NumbersAre, CountingOn, ZenonT(60)
    <3> QED BY <2>1, <3>1, <3>2, <3>3
  <2>7. Carries(r[i].packets, ms, 0, i, 0, sequence)
    BY <2>4, <2>5, Zenon
  <2> QED BY <2>1, <2>6, <2>7, Zenon
<1>6. n \in P
  <2>1. P \in SUBSET (0..n)
    OBVIOUS
  <2> HIDE DEF P
  <2>2. P = 0..n
    BY <1>1, <1>4, <1>5, <2>1, UpTo
  <2> QED BY <1>1, <2>2
<1>7. r[n] = WriteAll(ms) /\ r[n] \in Wires
  BY <1>1, <1>2 DEF WriteRun, n
<1> QED BY <1>6, <1>7 DEF n

\* What remains when the first packet has been read.
LEMMA OneIsRead ==
  ASSUME NEW ms \in Seq(Messages), NEW ps \in Seq(Packets), ps # <<>>, NEW k \in Nat, NEW b \in Nat,
         NEW n \in 0..(Numbers - 1), Carries(ps, ms, k, Len(ms), b, n)
  PROVE  /\ ps[1].number = n /\ k + 1 \in 1..Len(ms)
         /\ ps[1].kind = ms[k + 1].kind /\ ps[1].status = ms[k + 1].status
         /\ IF ps[1].size < Chunk
            THEN /\ b + ps[1].size = ms[k + 1].size
                 /\ Carries(Tail(ps), ms, k + 1, Len(ms), 0, Next1(n))
            ELSE ps[1].size = Chunk /\ Carries(Tail(ps), ms, k, Len(ms), b + Chunk, Next1(n))
         /\ Tail(ps) = <<>> => k + 1 = Len(ms) /\ ps[1].size < Chunk
<1> DEFINE ts == Tail(ps)
<1>1. /\ Len(ps) \in Nat \ {0} /\ ts \in Seq(Packets) /\ Len(ts) = Len(ps) - 1 /\ \A j \in 1..Len(ts) : ts[j] = ps[j + 1]
      /\ Numbers \in Nat \ {0} /\ Chunk \in Nat \ {0} /\ n \in Nat
  BY ProtocolAssumption
<1>2. PICK of, before : Spread(ps, ms, of, before, k, Len(ms), b, n)
  BY Zenon DEF Carries
<1>3. /\ of[1] = k + 1 /\ before[1] = b /\ 1 \in 1..Len(ps)
      /\ \A j \in 1..Len(ps) :
            /\ of[j] \in 1..Len(ms) /\ before[j] \in Nat
            /\ ps[j].number = (n + j - 1) % Numbers
            /\ ps[j].kind = ms[of[j]].kind /\ ps[j].status = ms[of[j]].status
            /\ IF ps[j].size < Chunk
               THEN /\ before[j] + ps[j].size = ms[of[j]].size
                    /\ IF j < Len(ps) THEN of[j + 1] = of[j] + 1 /\ before[j + 1] = 0 ELSE of[j] = Len(ms)
               ELSE /\ ps[j].size = Chunk /\ j < Len(ps)
                    /\ of[j + 1] = of[j] /\ before[j + 1] = before[j] + Chunk
  BY <1>1, <1>2 DEF Spread
<1>4. ps[1].number = n
  <2>1. n + 1 - 1 = n /\ n + 0 = n
    BY <1>1
  <2>2. n % Numbers = n
    BY <2>1, Same
  <2> QED BY <1>3, <2>1, <2>2
<1> DEFINE to == [j \in 1..Len(ts) |-> of[j + 1]]
           past == [j \in 1..Len(ts) |-> before[j + 1]]
<1>5. ASSUME NEW j \in 1..Len(ts)
      PROVE  /\ to[j] \in 1..Len(ms) /\ past[j] \in Nat
             /\ ts[j].number = (Next1(n) + j - 1) % Numbers
             /\ ts[j].kind = ms[to[j]].kind /\ ts[j].status = ms[to[j]].status
             /\ IF ts[j].size < Chunk
                THEN /\ past[j] + ts[j].size = ms[to[j]].size
                     /\ IF j < Len(ts) THEN to[j + 1] = to[j] + 1 /\ past[j + 1] = 0 ELSE to[j] = Len(ms)
                ELSE /\ ts[j].size = Chunk /\ j < Len(ts)
                     /\ to[j + 1] = to[j] /\ past[j + 1] = past[j] + Chunk
  <2>1. /\ j + 1 \in 1..Len(ps) /\ ts[j] = ps[j + 1] /\ to[j] = of[j + 1] /\ past[j] = before[j + 1]
        /\ j < Len(ts) <=> j + 1 < Len(ps)
        /\ j < Len(ts) => to[j + 1] = of[(j + 1) + 1] /\ past[j + 1] = before[(j + 1) + 1]
    BY <1>1
  <2>2. (n + (j + 1) - 1) % Numbers = (Next1(n) + j - 1) % Numbers
    <3>1. n + 1 \in Nat /\ j - 1 \in Nat /\ (n + 1) + (j - 1) = n + (j + 1) - 1 /\ Next1(n) = (n + 1) % Numbers
      BY <1>1 DEF Next1
    <3>2. ((n + 1) % Numbers) \in Nat /\ (((n + 1) % Numbers) + (j - 1)) % Numbers = ((n + 1) + (j - 1)) % Numbers
      <4>1. PICK x \in Nat, y \in Nat : x = n + 1 /\ y = j - 1
        BY <3>1
      <4>2. ((x % Numbers) + y) % Numbers = (x + y) % Numbers
        BY <1>1, CountingOn, ZenonT(60)
      <4>3. x % Numbers \in Nat
        BY <1>1
      <4> QED BY <4>1, <4>2, <4>3, Zenon
    <3>3. ((n + 1) % Numbers) + (j - 1) = ((n + 1) % Numbers) + j - 1
      BY <1>1, <3>2
    <3> QED BY <3>1, <3>2, <3>3
  <2> HIDE DEF ts, to, past
  <2> QED BY <1>3, <2>1, <2>2, ZenonT(60)
<1>6. Len(ts) # 0 => to[1] = of[2] /\ past[1] = before[2] /\ 1 < Len(ps)
  BY <1>1
<1>7. Len(ts) = 0 => ~(1 < Len(ps))
  <2>1. PICK x \in Nat : x = Len(ps) /\ Len(ts) = x - 1
    BY <1>1, Zenon
  <2>2. x - 1 = 0 => ~(1 < x)
    OBVIOUS
  <2> QED BY <2>1, <2>2, Zenon
<1>8. k + 1 \in 1..Len(ms) /\ ps[1].kind = ms[k + 1].kind /\ ps[1].status = ms[k + 1].status
  BY <1>3
<1> HIDE DEF ts, to, past
<1>9. CASE ps[1].size < Chunk
  <2>1. b + ps[1].size = ms[k + 1].size
    BY <1>3, <1>9
  <2>2. IF Len(ts) = 0 THEN k + 1 = Len(ms) /\ 0 = 0 ELSE to[1] = (k + 1) + 1 /\ past[1] = 0
    BY <1>3, <1>6, <1>7, <1>9
  <2>3. Spread(ts, ms, to, past, k + 1, Len(ms), 0, Next1(n))
    BY <1>5, <2>2 DEF Spread
  <2>4. Carries(ts, ms, k + 1, Len(ms), 0, Next1(n))
    BY <2>3, Zenon DEF Carries
  <2>5. ts = <<>> => k + 1 = Len(ms)
    BY <1>1, <2>2
  <2> QED BY <1>4, <1>8, <1>9, <2>1, <2>4, <2>5 DEF ts
<1>10. CASE ~(ps[1].size < Chunk)
  <2>1. ps[1].size = Chunk /\ 1 < Len(ps) /\ of[2] = k + 1 /\ before[2] = b + Chunk
    BY <1>3, <1>10
  <2>2. IF Len(ts) = 0 THEN k = Len(ms) /\ b + Chunk = 0 ELSE to[1] = k + 1 /\ past[1] = b + Chunk
    BY <1>6, <1>7, <2>1
  <2>3. Spread(ts, ms, to, past, k, Len(ms), b + Chunk, Next1(n))
    BY <1>5, <2>2 DEF Spread
  <2>4. Carries(ts, ms, k, Len(ms), b + Chunk, Next1(n))
    BY <2>3, Zenon DEF Carries
  <2>5. ts # <<>>
    BY <1>1, <2>1
  <2> QED BY <1>4, <1>8, <1>10, <2>1, <2>4, <2>5 DEF ts
<1> QED BY <1>9, <1>10

-----------------------------------------------------------------------------
(* The MySQL protocol: the conversation.                                   *)

Clients == [at : {"connecting", "reading", "idle"}, number : 0..(Numbers - 1), read : Seq(Messages),
            size : Nat, status : SUBSET Statuses]

ConversationTypes ==
  /\ toServer \in Seq(Requests) /\ toClient \in Seq(Packets) /\ sequence \in 0..(Numbers - 1) /\ received \in Nat
  /\ server \in {"greeting", "authenticating", "verifying", "reading", "handling", "closed"}
  /\ command \in [name : Commands \cup LogIns \cup {"none"}, stmt : Nat] /\ reply \in Seq(Messages)
  /\ client \in Clients
  /\ currentDB \in BOOLEAN /\ serverStatus \in SUBSET Statuses /\ preparedStmts \in SUBSET Nat /\ nextStmtID \in Nat

\* The packets of a request are full but for the last, and numbered as the server expects.
Incoming ==
  \A i \in 1..Len(toServer) :
     /\ toServer[i].number = (sequence + i - 1) % Numbers
     /\ IF i < Len(toServer) THEN toServer[i].size = Chunk ELSE toServer[i].size \in 1..(Chunk - 1)

\* The server has not answered yet what the client has sent.
Awaited == toServer # <<>> \/ server \in {"verifying", "handling"}

AwaitedOK ==
  Awaited =>
    /\ client.at = "reading" /\ client.read = <<>> /\ client.size = 0 /\ toClient = <<>> /\ reply = <<>>
    /\ client.number = (sequence + Len(toServer)) % Numbers
    /\ \/ server \in {"authenticating", "verifying"} /\ command.name \in LogIns
       \/ server \in {"reading", "handling"} /\ command.name \in Commands
    /\ server \in {"verifying", "handling"} => toServer = <<>>

Connecting ==
  /\ server \in {"greeting", "authenticating", "verifying"} => serverStatus = InitialStatus
  /\ server = "greeting" => client.at = "connecting"
  /\ server = "authenticating" => client.at = "connecting" \/ toServer # <<>>
  /\ client.at = "connecting" =>
       /\ server \in {"greeting", "authenticating"} /\ toServer = <<>> /\ reply = <<>>
       /\ client.read = <<>> /\ client.size = 0
       /\ IF server = "greeting" THEN toClient = <<>>
          ELSE sequence = 1 /\ Len(toClient) = 1 /\ toClient[1].number = 0

\* The client is reading the answer of the server.
BeingRead ==
  client.at = "reading" /\ ~Awaited /\ command.name # "quit" =>
    /\ server \in {"reading", "closed"}
    /\ Carries(toClient, reply, Len(client.read), Len(reply), client.size, client.number)
    /\ Len(client.read) <= Len(reply) /\ \A i \in 1..Len(client.read) : client.read[i] = reply[i]
    /\ Answers(command.name, reply)

Quitting ==
  client.at = "reading" /\ ~Awaited /\ command.name = "quit" =>
    server = "closed" /\ toClient = <<>> /\ client.read = <<>> /\ reply = <<>>

IdleOK ==
  client.at = "idle" =>
    /\ ~Awaited /\ server \in {"reading", "closed"} /\ toClient = <<>> /\ client.read = <<>> /\ client.size = 0

ClosedOK == server = "closed" => command.name = "quit" \/ (command.name = "log_in_wrongly" /\ reply = WriteError)

\* The client has heard the status that the answer ends with.
Heard ==
  client.at \in {"reading", "idle"} /\ toClient = <<>> /\ EndsInStatus(reply) => client.status = Last(reply).status

Conversation ==
  /\ ConversationTypes /\ Incoming /\ AwaitedOK /\ Connecting /\ BeingRead /\ Quitting /\ IdleOK /\ ClosedOK
  /\ Tells(reply, serverStatus) /\ Heard

ProtocolInv == aligned \in BOOLEAN /\ parameters \in Seq(Values) /\ (~aligned => Conversation)

\* No answer tells no status.
LEMMA EmptyTells == \A status : Tells(<<>>, status) /\ ~EndsInStatus(<<>>)
  BY DEF Tells, EndsInStatus

\* A connection begins in step.
LEMMA ConversationBegins == ProtocolInit => ProtocolInv
<1> SUFFICES ASSUME ProtocolInit PROVE ProtocolInv
  OBVIOUS
<1>1. ConversationTypes
  <2>1. toServer \in Seq(Requests) /\ toClient \in Seq(Packets) /\ reply \in Seq(Messages)
    <3>1. toServer = <<>> /\ toClient = <<>> /\ reply = <<>>
      BY Zenon DEF ProtocolInit
    <3> QED BY <3>1
  <2>2. client \in Clients
    <3>1. 0 \in 0..(Numbers - 1) /\ 0 \in Nat /\ {} \in SUBSET Statuses
      BY NumbersAre
    <3>2. <<>> \in Seq(Messages)
      OBVIOUS
    <3>3. client = [at |-> "connecting", number |-> 0, read |-> <<>>, size |-> 0, status |-> {}]
      BY Zenon DEF ProtocolInit
    <3> QED BY <3>1, <3>2, <3>3, Zenon DEF Clients
  <2>3. sequence \in 0..(Numbers - 1) /\ received \in Nat /\ nextStmtID \in Nat /\ preparedStmts \in SUBSET Nat
    BY NumbersAre DEF ProtocolInit
  <2>4. /\ server \in {"greeting", "authenticating", "verifying", "reading", "handling", "closed"}
        /\ currentDB \in BOOLEAN
        /\ serverStatus \in SUBSET Statuses
    BY DEF ProtocolInit, InitialStatus, Statuses
  <2>5. command \in [name : Commands \cup LogIns \cup {"none"}, stmt : Nat]
    BY DEF ProtocolInit
  <2> QED BY <2>1, <2>2, <2>3, <2>4, <2>5, Zenon DEF ConversationTypes
<1>2. Incoming /\ AwaitedOK /\ Connecting /\ BeingRead /\ Quitting /\ IdleOK /\ ClosedOK
  BY DEF ProtocolInit, Incoming, AwaitedOK, Awaited, Connecting, BeingRead, Quitting, IdleOK, ClosedOK
<1>3. Tells(reply, serverStatus) /\ Heard
  BY EmptyTells DEF ProtocolInit, Heard
<1>4. aligned \in BOOLEAN /\ parameters \in Seq(Values)
  <2>1. aligned \in BOOLEAN /\ parameters = <<>>
    BY Zenon DEF ProtocolInit
  <2> QED BY <2>1
<1> QED BY <1>1, <1>2, <1>3, <1>4 DEF ProtocolInv, Conversation

\* The greeting.
LEMMA HandshakeKeeps ==
  ASSUME Conversation, SendHandshake PROVE Conversation'
<1> USE DEF SendHandshake
<1>1. client.at = "connecting" /\ toServer = <<>> /\ reply = <<>> /\ client.read = <<>> /\ client.size = 0
  BY DEF Conversation, Connecting
<1>2. toClient' \in Seq(Packets) /\ Len(toClient') = 1 /\ toClient'[1].number = 0
  <2>1. toClient' = [i \in 1..1 |-> [size |-> <<1>>[i], number |-> (0 + i - 1) % Numbers,
                                     kind |-> "handshake", status |-> InitialStatus]]
    BY DEF Numbered, WriteHandshake, Message
  <2>2. (0 + 1 - 1) % Numbers = 0
    <3>1. 0 + 1 - 1 = 0 /\ 0 + 0 = 0 /\ 0 \in 0..(Numbers - 1)
      BY NumbersAre
    <3> QED BY <3>1, Same
  <2>3. toClient' = [i \in 1..1 |-> [size |-> 1, number |-> 0, kind |-> "handshake", status |-> InitialStatus]]
    <3>1. \A i \in 1..1 : i = 1 /\ <<1>>[i] = 1
      OBVIOUS
    <3> QED BY <2>1, <2>2, <3>1
  <2>4. [size |-> 1, number |-> 0, kind |-> "handshake", status |-> InitialStatus] \in Packets
    BY DEF Packets, InitialStatus, Statuses
  <2> HIDE DEF SendHandshake
  <2> QED BY <2>3, <2>4
<1>3. ConversationTypes'
  BY <1>2, NumbersAre DEF Conversation, ConversationTypes, sessionVars
<1>4. Connecting'
  BY <1>1, <1>2 DEF Conversation, Connecting, sessionVars
<1>5. Incoming' /\ AwaitedOK' /\ BeingRead' /\ Quitting' /\ IdleOK' /\ ClosedOK' /\ Heard'
  BY <1>1 DEF Incoming, AwaitedOK, Awaited, BeingRead, Quitting, IdleOK, ClosedOK, Heard
<1>6. Tells(reply, serverStatus)'
  BY <1>1, EmptyTells
<1> QED BY <1>3, <1>4, <1>5, <1>6 DEF Conversation

\* The credentials of the client.
LEMMA LogInKeeps ==
  ASSUME Conversation, ClientLogsIn PROVE Conversation'
<1> USE DEF ClientLogsIn
<1>1. /\ client.at = "connecting" /\ toServer = <<>> /\ reply = <<>> /\ client.read = <<>> /\ client.size = 0
      /\ server = "authenticating" /\ sequence = 1 /\ Len(toClient) = 1 /\ toClient[1].number = 0
      /\ serverStatus = InitialStatus /\ toClient[1].status \in SUBSET Statuses
  <2>1. /\ client.at = "connecting" /\ toServer = <<>> /\ reply = <<>> /\ client.read = <<>> /\ client.size = 0
        /\ server = "authenticating" /\ sequence = 1 /\ Len(toClient) = 1 /\ toClient[1].number = 0
        /\ serverStatus = InitialStatus
    BY DEF Conversation, Connecting
  <2>2. toClient[1] \in Packets
    BY <2>1 DEF Conversation, ConversationTypes
  <2> QED BY <2>1, <2>2 DEF Packets
<1>2. PICK name \in LogIns : /\ command' = [name |-> name, stmt |-> 0]
                             /\ toServer' = Numbered(<<1>>, Next1(0), [kind |-> name, status |-> {}])
  BY <1>1 DEF LogIns
<1>3. (1 + 1 - 1) % Numbers = 1 /\ Next1(0) = 1
  <2>1. 1 + 1 - 1 = 1 /\ 0 + 1 = 1 /\ 1 \in 0..(Numbers - 1)
    BY NumbersAre
  <2>2. 1 % Numbers = 1
    BY <2>1, Same
  <2> QED BY <2>1, <2>2 DEF Next1
<1>4. toServer' = [i \in 1..1 |-> [size |-> 1, number |-> 1, kind |-> name, status |-> {}]]
  <2>1. toServer' = [i \in 1..1 |-> [size |-> <<1>>[i], number |-> (1 + i - 1) % Numbers,
                                     kind |-> name, status |-> {}]]
    BY <1>2, <1>3 DEF Numbered
  <2>2. \A i \in 1..1 : i = 1 /\ <<1>>[i] = 1
    OBVIOUS
  <2> HIDE DEF ClientLogsIn
  <2> QED BY <1>3, <2>1, <2>2
<1>5. toServer' \in Seq(Requests) /\ Len(toServer') = 1 /\ toServer'[1].number = 1 /\ toServer'[1].size = 1
  <2>1. [size |-> 1, number |-> 1, kind |-> name, status |-> {}] \in Requests
    BY DEF Requests
  <2> HIDE DEF ClientLogsIn
  <2> QED BY <1>4, <2>1
<1>6. /\ client'.at = "reading" /\ client'.read = <<>> /\ client'.size = 0 /\ client'.number = 2 % Numbers
      /\ client' \in Clients
  <2>1. 2 % Numbers \in 0..(Numbers - 1)
    BY NumbersAre, CountingOn
  <2> QED BY <1>1, <2>1 DEF Conversation, ConversationTypes, Clients
<1>7. ConversationTypes'
  BY <1>2, <1>5, <1>6 DEF Conversation, ConversationTypes, sessionVars
<1>8. toClient' = <<>> /\ reply' = <<>> /\ server' = "authenticating" /\ sequence' = 1 /\ toServer' # <<>>
      /\ command'.name \in LogIns /\ serverStatus' = InitialStatus
  BY <1>1, <1>2, <1>5 DEF sessionVars
<1> HIDE DEF ClientLogsIn
<1>9. Incoming'
  <2>1. \A i \in 1..Len(toServer') : i = 1 /\ ~(i < Len(toServer')) /\ 1 \in 1..(Chunk - 1)
    BY <1>5, NumbersAre
  <2> QED BY <1>3, <1>5, <1>8, <2>1 DEF Incoming
<1>10. AwaitedOK' /\ Connecting'
  BY <1>5, <1>6, <1>8 DEF AwaitedOK, Connecting, Awaited
<1>11. BeingRead' /\ Quitting' /\ IdleOK' /\ ClosedOK' /\ Tells(reply, serverStatus)' /\ Heard'
  BY <1>6, <1>8, EmptyTells DEF BeingRead, Quitting, IdleOK, ClosedOK, Heard, Awaited
<1> QED BY <1>7, <1>9, <1>10, <1>11 DEF Conversation

\* The answer to the credentials.
LEMMA VerifyKeeps ==
  ASSUME Conversation, VerifyHandshakeResponse PROVE Conversation'
<1> DEFINE success == PasswordAccepted(ReadHandshakeResponse)
           ms == SendAuthResult(success)
           w == WriteAll(ms)
<1>1. /\ server = "verifying" /\ server' = IF success THEN "reading" ELSE "closed"
      /\ reply' = ms /\ toClient' = w.packets /\ sequence' = w.sequence
      /\ UNCHANGED <<toServer, received, command, client, aligned>> /\ UNCHANGED sessionVars
  BY DEF VerifyHandshakeResponse
<1>2. /\ client.at = "reading" /\ client.read = <<>> /\ client.size = 0 /\ toServer = <<>>
      /\ client.number = (sequence + 0) % Numbers /\ command.name \in LogIns /\ serverStatus = InitialStatus
      /\ sequence \in 0..(Numbers - 1)
  <2>1. Awaited /\ sequence \in 0..(Numbers - 1)
    BY <1>1 DEF Conversation, ConversationTypes, Awaited
  <2>2. Len(<<>>) = 0
    OBVIOUS
  <2> QED BY <1>1, <2>1, <2>2 DEF Conversation, AwaitedOK, Connecting
<1>3. /\ ms = WriteOK(InitialStatus) \/ ms = WriteError
      /\ success => ms = WriteOK(InitialStatus)
      /\ ~success => ms = WriteError /\ command.name = "log_in_wrongly"
  BY <1>2 DEF SendAuthResult, PasswordAccepted, ReadHandshakeResponse, LogIns
<1>4. ms \in Seq(Messages) /\ Answers(command.name, ms) /\ Tells(ms, InitialStatus)
  <2>1. command.name \in (Commands \cup LogIns) \ {"close"} /\ InitialStatus \in SUBSET Statuses
    BY <1>2 DEF LogIns, InitialStatus, Statuses
  <2> HIDE DEF ms
  <2> QED BY <1>3, <2>1, OneAnswers DEF Answering
<1>5. \A i \in 1..Len(ms) : ~Aligned(ms[i].size)
  <2>1. Len(ms) = 1 /\ ms[1].size = 1
    <3> HIDE DEF ms
    <3> QED BY <1>3 DEF WriteOK, WriteError, Message
  <2>2. 1 % Chunk = 1
    <3>1. 1 = Chunk * 0 + 1 /\ 1 \in 0..(Chunk - 1)
      BY NumbersAre
    <3> QED BY <3>1, NumbersAre, Remainder
  <2>3. \A i \in 1..Len(ms) : i = 1
    BY <2>1
  <2> HIDE DEF ms
  <2> QED BY <2>1, <2>2, <2>3 DEF Aligned
<1> HIDE DEF ms, success
<1>6. w \in Wires /\ Carries(w.packets, ms, 0, Len(ms), 0, sequence)
  BY <1>2, <1>4, <1>5, AllAreWritten
<1>7. w.packets \in Seq(Packets) /\ w.sequence \in 0..(Numbers - 1)
  BY <1>6, NumbersAre DEF Wires
<1> HIDE DEF w
<1>8. ConversationTypes'
  BY <1>1, <1>4, <1>7 DEF Conversation, ConversationTypes, sessionVars
<1>9. ~Awaited' /\ server' \in {"reading", "closed"} /\ client' = client /\ command' = command /\ command.name # "quit"
  BY <1>1, <1>2 DEF Awaited, LogIns
<1>10. BeingRead'
  <2>1. client.number = sequence /\ Len(client.read) = 0 /\ Len(ms) \in Nat
    BY <1>2, <1>4, Same
  <2>2. Carries(toClient', reply', Len(client'.read), Len(reply'), client'.size, client'.number)
    BY <1>1, <1>2, <1>6, <1>9, <2>1
  <2>3. Len(client'.read) <= Len(reply') /\ \A i \in 1..Len(client'.read) : client'.read[i] = reply'[i]
    BY <1>1, <1>9, <2>1
  <2> QED BY <1>1, <1>4, <1>9, <2>2, <2>3 DEF BeingRead
<1>11. Incoming' /\ AwaitedOK' /\ Connecting' /\ Quitting' /\ IdleOK'
  BY <1>1, <1>2, <1>9 DEF Incoming, AwaitedOK, Connecting, Quitting, IdleOK
<1>12. ClosedOK'
  BY <1>1, <1>3 DEF ClosedOK
<1>13. Tells(reply, serverStatus)'
  <2>1. serverStatus' = InitialStatus /\ reply' = ms
    BY <1>1, <1>2 DEF sessionVars
  <2> QED BY <1>4, <2>1
<1>14. Heard'
  <2>1. toClient' # <<>>
    <3>1. Len(ms) = 1
      BY <1>3 DEF WriteOK, WriteError
    <3> SUFFICES ASSUME toClient' = <<>> PROVE FALSE
      OBVIOUS
    <3>2. Carries(<<>>, ms, 0, Len(ms), 0, sequence)
      BY <1>1, <1>6
    <3> QED BY <3>1, <3>2, NothingLeft
  <2> QED BY <2>1 DEF Heard
<1> QED BY <1>8, <1>10, <1>11, <1>12, <1>13, <1>14 DEF Conversation

\* The client sends a command.
LEMMA SendKeeps ==
  ASSUME Conversation, ClientSends, ~aligned' PROVE Conversation'
<1>1. PICK size \in 1..MaxSize, name \in Commands, stmt \in 0..MaxStatements :
        /\ command' = [name |-> name, stmt |-> stmt]
        /\ toServer' = Numbered(Split(size), 0, [kind |-> name, status |-> {}])
        /\ client' = [client EXCEPT !.at = "reading", !.number = Len(Split(size)) % Numbers]
        /\ aligned' = (aligned \/ Aligned(size))
  BY DEF ClientSends
<1>2. /\ client.at = "idle" /\ server = "reading" /\ sequence' = 0 /\ received' = 0 /\ reply' = <<>>
      /\ UNCHANGED <<toClient, server>> /\ UNCHANGED sessionVars
  BY DEF ClientSends
<1>3. toClient = <<>> /\ client.read = <<>> /\ client.size = 0
  BY <1>2 DEF Conversation, IdleOK
<1>4. size \in Nat \ {0} /\ ~Aligned(size) /\ stmt \in Nat /\ name \in Commands
  <2>1. ~Aligned(size)
    BY <1>1, Zenon
  <2>2. size \in Nat \ {0} /\ stmt \in Nat
    BY NumbersAre
  <2> QED BY <2>1, <2>2
<1> DEFINE q == size \div Chunk
           sizes == Split(size)
<1>5. q \in Nat /\ size % Chunk \in 1..(Chunk - 1)
  <2>1. q \in Nat /\ size % Chunk \in 0..(Chunk - 1)
    <3>1. size \in Nat /\ Chunk \in Nat \ {0}
      BY <1>4, NumbersAre
    <3> QED BY <3>1, Division, Zenon
  <2>2. size % Chunk # 0
    <3>1. size > 0
      BY <1>4
    <3> QED BY <1>4, <3>1, Zenon DEF Aligned
  <2> QED BY <2>1, <2>2, NumbersAre
<1>6. PICK r \in 1..(Chunk - 1) : r = size % Chunk
  BY <1>5
<1>7. sizes = Repeat(q, Chunk) \o <<r>>
  BY <1>6 DEF Split
<1> HIDE DEF q
<1>8. Repeat(q, Chunk) \in Seq(Nat) /\ Len(Repeat(q, Chunk)) = q /\ \A i \in 1..q : Repeat(q, Chunk)[i] = Chunk
  BY <1>5, NumbersAre DEF Repeat
<1> HIDE DEF sizes
<1>9. sizes \in Seq(Nat) /\ Len(sizes) = q + 1 /\ sizes[q + 1] = r /\ \A i \in 1..q : sizes[i] = Chunk
  BY <1>5, <1>6, <1>7, <1>8, NumbersAre
<1>10. toServer' = [i \in 1..Len(sizes) |-> [size |-> sizes[i], number |-> (0 + i - 1) % Numbers,
                                             kind |-> name, status |-> {}]]
  BY <1>1 DEF Numbered, sizes
<1>11. \A i \in 1..(q + 1) : sizes[i] \in Nat /\ (0 + i - 1) % Numbers \in Nat
  <2> TAKE i \in 1..(q + 1)
  <2>1. 0 + i - 1 \in Nat
    BY <1>5
  <2> QED BY <1>9, <2>1, NumbersAre, CountingOn
<1>12. /\ Len(toServer') = q + 1 /\ toServer' \in Seq(Requests)
       /\ \A i \in 1..(q + 1) : toServer'[i].number = (0 + i - 1) % Numbers /\ toServer'[i].size = sizes[i]
  <2>1. ASSUME NEW i \in 1..(q + 1)
        PROVE  [size |-> sizes[i], number |-> (0 + i - 1) % Numbers, kind |-> name, status |-> {}] \in Requests
    BY <1>4, <1>11 DEF Requests
  <2> QED BY <1>5, <1>9, <1>10, <2>1
<1>13. toServer' # <<>>
  BY <1>5, <1>12
<1>14. /\ client'.at = "reading" /\ client'.read = <<>> /\ client'.size = 0 /\ client'.number = (0 + (q + 1)) % Numbers
       /\ client' \in Clients
  <2>1. Len(Split(size)) = q + 1 /\ 0 + (q + 1) = q + 1
    BY <1>5, <1>9 DEF sizes
  <2>2. (q + 1) % Numbers \in 0..(Numbers - 1)
    BY <1>5, NumbersAre, CountingOn
  <2> QED BY <1>1, <1>3, <2>1, <2>2 DEF Conversation, ConversationTypes, Clients
<1>15. ConversationTypes'
  <2>1. ConversationTypes
    BY Zenon DEF Conversation
  <2>2. /\ toClient' = toClient /\ server' = server /\ currentDB' = currentDB /\ serverStatus' = serverStatus
        /\ preparedStmts' = preparedStmts /\ nextStmtID' = nextStmtID
    BY <1>2 DEF sessionVars
  <2>3. command' \in [name : Commands \cup LogIns \cup {"none"}, stmt : Nat]
    BY <1>1, <1>4
  <2>4. sequence' \in 0..(Numbers - 1) /\ received' \in Nat
    BY <1>2, NumbersAre
  <2>5. reply' \in Seq(Messages)
    <3>1. <<>> \in Seq(Messages)
      OBVIOUS
    <3> QED BY <1>2, <3>1, Zenon
  <2> QED BY <1>12, <1>14, <2>1, <2>2, <2>3, <2>4, <2>5, Zenon DEF ConversationTypes
<1>16. Incoming'
  <2>1. ASSUME NEW i \in 1..Len(toServer')
        PROVE  /\ toServer'[i].number = (0 + i - 1) % Numbers
               /\ IF i < Len(toServer') THEN toServer'[i].size = Chunk ELSE toServer'[i].size \in 1..(Chunk - 1)
    <3>1. i \in 1..(q + 1) /\ (i < Len(toServer') => i \in 1..q) /\ (~(i < Len(toServer')) => i = q + 1)
      BY <1>5, <1>12
    <3> QED BY <1>6, <1>9, <1>12, <3>1
  <2> QED BY <1>2, <2>1 DEF Incoming
<1>17. AwaitedOK'
  BY <1>1, <1>2, <1>3, <1>4, <1>12, <1>14 DEF AwaitedOK, Awaited
<1>18. Connecting' /\ BeingRead' /\ Quitting' /\ IdleOK' /\ ClosedOK' /\ Heard'
  BY <1>2, <1>13, <1>14, EmptyTells DEF Connecting, BeingRead, Quitting, IdleOK, ClosedOK, Heard, Awaited
<1>19. Tells(reply, serverStatus)'
  BY <1>2, EmptyTells
<1> QED BY <1>15, <1>16, <1>17, <1>18, <1>19 DEF Conversation

\* The server reads a packet: the first of those under way, whose number it expects.
LEMMA ReadPacketKeeps ==
  ASSUME Conversation, ReadPacket PROVE Conversation'
<1> DEFINE p == Head(toServer)
           complete == IF server = "reading" THEN "handling" ELSE "verifying"
<1>1. /\ server \in {"authenticating", "reading"} /\ toServer # <<>> /\ toServer' = Tail(toServer)
      /\ UNCHANGED <<toClient, command, reply, client, aligned>> /\ UNCHANGED sessionVars
  BY DEF ReadPacket
<1>2. Awaited /\ ConversationTypes /\ Incoming /\ AwaitedOK
  BY <1>1 DEF Conversation, Awaited
<1>3. /\ client.at = "reading" /\ client.read = <<>> /\ client.size = 0 /\ toClient = <<>> /\ reply = <<>>
      /\ client.number = (sequence + Len(toServer)) % Numbers
      /\ server = "authenticating" => command.name \in LogIns
      /\ server = "reading" => command.name \in Commands
  BY <1>1, <1>2 DEF AwaitedOK
<1>4. /\ Len(toServer) \in Nat \ {0} /\ toServer' \in Seq(Requests) /\ Len(toServer') = Len(toServer) - 1
      /\ \A i \in 1..Len(toServer') : toServer'[i] = toServer[i + 1]
      /\ p = toServer[1] /\ p \in Requests /\ sequence \in Nat /\ received \in Nat
  BY <1>1, <1>2 DEF ConversationTypes
<1>5. p.number = sequence % Numbers /\ p.size > 0 /\ p.size \in Nat
      /\ IF 1 < Len(toServer) THEN p.size = Chunk ELSE p.size # Chunk
  <2>1. sequence + 1 - 1 = sequence /\ 1 \in 1..Len(toServer)
    BY <1>4
  <2>2. /\ toServer[1].number = (sequence + 1 - 1) % Numbers
        /\ IF 1 < Len(toServer) THEN toServer[1].size = Chunk ELSE toServer[1].size \in 1..(Chunk - 1)
    BY <1>2, <2>1 DEF Incoming
  <2> HIDE DEF p
  <2> QED BY <1>4, <2>1, <2>2, NumbersAre
<1>6. sequence \in 0..(Numbers - 1) /\ p.number = sequence
  BY <1>2, <1>5, Same DEF ConversationTypes
<1>7. /\ sequence' = Next1(sequence) /\ received' = received + p.size
      /\ server' = IF p.size = Chunk THEN server ELSE complete
  <2>1. ~(p.size = 0)
    BY <1>5
  <2> HIDE DEF p, complete
  <2> QED BY <1>6, <2>1 DEF ReadPacket, p, complete
<1> HIDE DEF p
<1>8. sequence' \in 0..(Numbers - 1) /\ received' \in Nat
  <2>1. PICK x \in Nat, c \in Nat \ {0} : x = sequence + 1 /\ c = Numbers
    BY <1>4, NumbersAre
  <2>2. x % c \in 0..(c - 1)
    BY CountingOn, Zenon
  <2>3. sequence' \in 0..(Numbers - 1)
    BY <1>7, <2>1, <2>2 DEF Next1
  <2>4. received' \in Nat
    BY <1>4, <1>5, <1>7
  <2> QED BY <2>3, <2>4
<1>9. IF Len(toServer') # 0 THEN server' = server /\ toServer' # <<>> ELSE server' = complete /\ toServer' = <<>>
  BY <1>4, <1>5, <1>7, SMTT(30)
<1>10. ConversationTypes'
  BY <1>1, <1>2, <1>4, <1>8, <1>9 DEF ConversationTypes, sessionVars
<1>11. \A j \in Nat : (sequence' + j) % Numbers = (sequence + (j + 1)) % Numbers
  <2> TAKE j \in Nat
  <2>1. sequence + 1 \in Nat /\ (sequence + 1) + j = sequence + (j + 1)
    BY <1>4
  <2> QED BY <1>7, <2>1, NumbersAre, CountingOn DEF Next1
<1>12. Incoming'
  <2>1. ASSUME NEW i \in 1..Len(toServer')
        PROVE  /\ toServer'[i].number = (sequence' + i - 1) % Numbers
               /\ IF i < Len(toServer') THEN toServer'[i].size = Chunk ELSE toServer'[i].size \in 1..(Chunk - 1)
    <3>1. /\ i + 1 \in 1..Len(toServer) /\ toServer'[i] = toServer[i + 1]
          /\ (i < Len(toServer')) <=> (i + 1 < Len(toServer))
      BY <1>4
    <3>2. /\ toServer[i + 1].number = (sequence + (i + 1) - 1) % Numbers
          /\ IF i + 1 < Len(toServer) THEN toServer[i + 1].size = Chunk ELSE toServer[i + 1].size \in 1..(Chunk - 1)
      BY <1>2, <3>1 DEF Incoming
    <3>3. i - 1 \in Nat /\ sequence' + (i - 1) = sequence' + i - 1 /\ sequence + ((i - 1) + 1) = sequence + (i + 1) - 1
      BY <1>4, <1>8
    <3>4. (sequence' + i - 1) % Numbers = (sequence + (i + 1) - 1) % Numbers
      BY <1>11, <3>3
    <3> QED BY <3>1, <3>2, <3>4
  <2> QED BY <2>1 DEF Incoming
<1>13. client'.number = (sequence' + Len(toServer')) % Numbers
  <2>1. Len(toServer') \in Nat /\ Len(toServer') + 1 = Len(toServer)
    BY <1>4
  <2> QED BY <1>1, <1>3, <1>11, <2>1
<1>14. AwaitedOK'
  BY <1>1, <1>3, <1>9, <1>13 DEF AwaitedOK
<1>15. Awaited' /\ server' # "closed" /\ server' # "greeting"
  BY <1>1, <1>9 DEF Awaited
<1>16. Connecting'
  BY <1>1, <1>3, <1>9 DEF Conversation, Connecting, sessionVars
<1>17. BeingRead' /\ Quitting' /\ IdleOK' /\ ClosedOK' /\ Tells(reply, serverStatus)' /\ Heard'
  BY <1>1, <1>3, <1>15, EmptyTells DEF BeingRead, Quitting, IdleOK, ClosedOK, Heard
<1> QED BY <1>10, <1>12, <1>14, <1>16, <1>17 DEF Conversation

\* The server handles a command: the whole answer goes onto the wire.
LEMMA HandleKeeps ==
  ASSUME Conversation, HandleCommand, ~aligned' PROVE Conversation'
<1>1. /\ server = "handling" /\ UNCHANGED <<toServer, received, command, client>>
      /\ \E size \in IF command.name \in {"query", "execute", "show_variables"} THEN 1..MaxSize ELSE {1} :
            IF command.name = "quit"
            THEN /\ server' = "closed"
                 /\ UNCHANGED <<toClient, sequence, reply, aligned>> /\ UNCHANGED sessionVars
            ELSE LET h == Handle(command, Session, size)
                     w == WriteAll(h.messages)
                 IN  /\ reply' = h.messages
                     /\ toClient' = toClient \o w.packets /\ sequence' = w.sequence
                     /\ server' = "reading"
                     /\ aligned' = (aligned \/ \E m \in ToSet(h.messages) : Aligned(m.size))
                     /\ currentDB' = h.session.db /\ serverStatus' = h.session.status
                     /\ preparedStmts' = h.session.stmts /\ nextStmtID' = h.session.next
                     /\ parameters' = <<>>
  BY DEF HandleCommand
<1>2. /\ ConversationTypes /\ client.at = "reading" /\ client.read = <<>> /\ client.size = 0 /\ toServer = <<>>
      /\ toClient = <<>> /\ reply = <<>>
      /\ client.number = (sequence + 0) % Numbers /\ command.name \in Commands
  <2>1. Awaited /\ ConversationTypes
    BY <1>1 DEF Conversation, Awaited
  <2>2. Len(<<>>) = 0
    OBVIOUS
  <2> QED BY <1>1, <2>1, <2>2 DEF Conversation, AwaitedOK
<1>3. CASE command.name = "quit"
  <2>1. /\ server' = "closed" /\ UNCHANGED <<toClient, sequence, reply, aligned>> /\ UNCHANGED sessionVars
    BY <1>1, <1>3
  <2>2. ConversationTypes'
    BY <1>1, <1>2, <2>1 DEF ConversationTypes, sessionVars
  <2>3. ~Awaited'
    BY <1>1, <1>2, <2>1 DEF Awaited
  <2> QED BY <1>1, <1>2, <1>3, <2>1, <2>2, <2>3, EmptyTells
       DEF Conversation, Incoming, AwaitedOK, Connecting, BeingRead, Quitting, IdleOK, ClosedOK, Heard
<1>4. CASE command.name # "quit"
  <2>1. PICK size \in Nat \ {0} :
          LET h == Handle(command, Session, size)
              w == WriteAll(h.messages)
          IN  /\ reply' = h.messages
              /\ toClient' = toClient \o w.packets /\ sequence' = w.sequence
              /\ server' = "reading"
              /\ aligned' = (aligned \/ \E m \in ToSet(h.messages) : Aligned(m.size))
              /\ currentDB' = h.session.db /\ serverStatus' = h.session.status
              /\ preparedStmts' = h.session.stmts /\ nextStmtID' = h.session.next
    <3>1. (IF command.name \in {"query", "execute", "show_variables"} THEN 1..MaxSize ELSE {1}) \subseteq Nat \ {0}
      BY NumbersAre
    <3> QED BY <1>1, <1>4, <3>1
  <2> DEFINE h == Handle(command, Session, size)
             ms == h.messages
             w == WriteAll(ms)
  <2>2. Session \in Sessions /\ command \in [name : Commands \ {"quit"}, stmt : Nat]
    BY <1>2, <1>4 DEF ConversationTypes, Session, Sessions
  <2>3. h.session \in Sessions /\ Answering(command.name, h.session.status, ms)
    BY <2>2, HandleAnswers
  <2>4. /\ reply' = ms /\ toClient' = toClient \o w.packets /\ sequence' = w.sequence /\ server' = "reading"
        /\ aligned' = (aligned \/ \E m \in ToSet(ms) : Aligned(m.size))
        /\ currentDB' = h.session.db /\ serverStatus' = h.session.status
        /\ preparedStmts' = h.session.stmts /\ nextStmtID' = h.session.next
    BY <2>1
  <2> HIDE DEF h
  <2>5. ms \in Seq(Messages) /\ Answers(command.name, ms) /\ Tells(ms, h.session.status)
    BY <2>3 DEF Answering
  <2> HIDE DEF ms
  <2>6. \A i \in 1..Len(ms) : ~Aligned(ms[i].size)
    <3> TAKE i \in 1..Len(ms)
    <3>1. ms[i] \in ToSet(ms)
      BY <2>5 DEF ToSet
    <3> QED BY <2>4, <3>1, Zenon
  <2>7. sequence \in 0..(Numbers - 1) /\ client.number = sequence
    BY <1>2, Same DEF ConversationTypes
  <2>8. w \in Wires /\ Carries(w.packets, ms, 0, Len(ms), 0, sequence)
    BY <2>5, <2>6, <2>7, AllAreWritten
  <2> HIDE DEF w
  <2>9. w.packets \in Seq(Packets) /\ toClient' = w.packets /\ w.sequence \in 0..(Numbers - 1)
    BY <1>2, <2>4, <2>8 DEF Wires
  <2>10. ConversationTypes'
    <3>1. /\ h.session.db \in BOOLEAN /\ h.session.status \in SUBSET Statuses
          /\ h.session.stmts \in SUBSET Nat /\ h.session.next \in Nat
      BY <2>3 DEF Sessions
    <3> QED BY <1>1, <1>2, <2>4, <2>5, <2>9, <3>1 DEF ConversationTypes
  <2>11. ~Awaited'
    BY <1>1, <1>2, <2>4 DEF Awaited
  <2>12. BeingRead'
    <3>1. Len(client'.read) = 0 /\ client'.size = 0 /\ client'.number = sequence /\ Len(ms) \in Nat
      BY <1>1, <1>2, <2>5, <2>7
    <3>2. Carries(toClient', reply', Len(client'.read), Len(reply'), client'.size, client'.number)
      BY <2>4, <2>8, <2>9, <3>1
    <3>3. Len(client'.read) <= Len(reply') /\ \A i \in 1..Len(client'.read) : client'.read[i] = reply'[i]
      BY <2>4, <3>1
    <3> QED BY <1>1, <2>4, <2>5, <3>2, <3>3 DEF BeingRead
  <2>13. Incoming' /\ AwaitedOK' /\ Connecting' /\ Quitting' /\ IdleOK' /\ ClosedOK'
    BY <1>1, <1>2, <1>4, <2>4, <2>11 DEF Incoming, AwaitedOK, Connecting, Quitting, IdleOK, ClosedOK
  <2>14. Tells(reply, serverStatus)'
    BY <2>4, <2>5
  <2>15. Heard'
    <3> SUFFICES ASSUME toClient' = <<>>, EndsInStatus(ms) PROVE FALSE
      BY <2>4 DEF Heard
    <3>1. Carries(<<>>, ms, 0, Len(ms), 0, sequence)
      BY <2>8, <2>9
    <3>2. Len(ms) = 0
      BY <3>1, NothingLeft
    <3> QED BY <2>5, <3>2 DEF EndsInStatus
  <2> QED BY <2>10, <2>12, <2>13, <2>14, <2>15 DEF Conversation
<1> QED BY <1>3, <1>4

\* A message behind a list of messages.
LEMMA OneIsAppended ==
  ASSUME NEW s \in Seq(Messages), NEW m \in Messages
  PROVE  /\ Len(Append(s, m)) = Len(s) + 1 /\ Append(s, m)[Len(s) + 1] = m
         /\ \A i \in 1..Len(s) : Append(s, m)[i] = s[i]
  OBVIOUS

\* The client reads on.
LEMMA ClientReadsKeeps ==
  ASSUME Conversation, ClientReads PROVE Conversation'
<1> DEFINE p == Head(toClient)
           k == Len(client.read)
           m == reply[k + 1]
<1>1. /\ client.at = "reading" /\ toClient # <<>> /\ toClient' = Tail(toClient)
      /\ UNCHANGED <<toServer, sequence, server, received, command, reply, aligned>> /\ UNCHANGED sessionVars
      /\ client' = IF p.number # client.number THEN [client EXCEPT !.at = "lost"]
                   ELSE [client EXCEPT !.number = Next1(@),
                            !.read = IF p.size < Chunk
                                     THEN Append(@, [kind |-> p.kind, size |-> client.size + p.size,
                                                     status |-> p.status])
                                     ELSE @,
                            !.status = IF p.kind \in {"ok", "eof"} THEN p.status ELSE @,
                            !.size = IF p.size < Chunk THEN 0 ELSE @ + p.size]
  BY DEF ClientReads
<1>2. ConversationTypes /\ ~Awaited /\ command.name # "quit"
  BY <1>1 DEF Conversation, AwaitedOK, Quitting
<1>3. /\ server \in {"reading", "closed"} /\ Answers(command.name, reply)
      /\ Carries(toClient, reply, k, Len(reply), client.size, client.number)
      /\ k <= Len(reply) /\ \A i \in 1..k : client.read[i] = reply[i]
  BY <1>1, <1>2 DEF Conversation, BeingRead
<1>4. /\ toClient \in Seq(Packets) /\ reply \in Seq(Messages) /\ client.read \in Seq(Messages) /\ k \in Nat
      /\ client.size \in Nat /\ client.number \in 0..(Numbers - 1) /\ p = toClient[1] /\ p \in Packets
      /\ toClient' \in Seq(Packets) /\ client.status \in SUBSET Statuses
  BY <1>1, <1>2 DEF ConversationTypes, Clients
<1> HIDE DEF k
<1>5. /\ p.number = client.number /\ k + 1 \in 1..Len(reply)
      /\ p.kind = m.kind /\ p.status = m.status
      /\ IF p.size < Chunk
         THEN /\ client.size + p.size = m.size
              /\ Carries(toClient', reply, k + 1, Len(reply), 0, Next1(client.number))
         ELSE p.size = Chunk /\ Carries(toClient', reply, k, Len(reply), client.size + Chunk, Next1(client.number))
      /\ toClient' = <<>> => k + 1 = Len(reply) /\ p.size < Chunk
  <2> HIDE DEF p, m
  <2> QED BY <1>1, <1>3, <1>4, OneIsRead DEF m
<1> HIDE DEF p
<1>6. m \in Messages /\ p.status \in SUBSET Statuses
  BY <1>4, <1>5 DEF Packets
<1>7. [kind |-> p.kind, size |-> m.size, status |-> p.status] = m
  BY <1>5, <1>6 DEF Messages
<1> HIDE DEF m
<1>8. /\ client'.at = "reading" /\ client'.number = Next1(client.number)
      /\ client'.status = IF p.kind \in {"ok", "eof"} THEN p.status ELSE client.status
      /\ p.size < Chunk => client'.read = Append(client.read, m) /\ client'.size = 0
      /\ ~(p.size < Chunk) => client'.read = client.read /\ client'.size = client.size + Chunk
      /\ client' \in Clients
  <2>1. Next1(client.number) \in 0..(Numbers - 1)
    BY <1>4, NumbersAre, CountingOn DEF Next1
  <2>2. client' = [client EXCEPT !.number = Next1(@),
                      !.read = IF p.size < Chunk THEN Append(@, m) ELSE @,
                      !.status = IF p.kind \in {"ok", "eof"} THEN p.status ELSE @,
                      !.size = IF p.size < Chunk THEN 0 ELSE @ + p.size]
    BY <1>1, <1>5, <1>7 DEF p
  <2>3. client \in Clients
    BY <1>2 DEF ConversationTypes
  <2>4. /\ Append(client.read, m) \in Seq(Messages) /\ client.size + Chunk \in Nat
        /\ ~(p.size < Chunk) => client.size + p.size = client.size + Chunk
    BY <1>4, <1>5, <1>6, NumbersAre, SMTT(30)
  <2>5. /\ client'.at = client.at /\ client'.number = Next1(client.number)
        /\ client'.read = IF p.size < Chunk THEN Append(client.read, m) ELSE client.read
        /\ client'.status = IF p.kind \in {"ok", "eof"} THEN p.status ELSE client.status
        /\ client'.size = IF p.size < Chunk THEN 0 ELSE client.size + p.size
    BY <2>2, <2>3 DEF Clients
  <2>6. client' \in Clients
    <3>1. (IF p.size < Chunk THEN Append(client.read, m) ELSE client.read) \in Seq(Messages)
      BY <1>4, <2>4
    <3>2. (IF p.kind \in {"ok", "eof"} THEN p.status ELSE client.status) \in SUBSET Statuses
      BY <1>4, <1>6
    <3>3. (IF p.size < Chunk THEN 0 ELSE client.size + p.size) \in Nat
      BY <2>4
    <3> QED BY <2>1, <2>2, <2>3, <3>1, <3>2, <3>3 DEF Clients
  <2> QED BY <1>1, <2>4, <2>5, <2>6
<1>9. ConversationTypes'
  BY <1>1, <1>2, <1>4, <1>8 DEF ConversationTypes, sessionVars
<1>10. ~Awaited' /\ server' \in {"reading", "closed"}
  BY <1>1, <1>2, <1>3 DEF Awaited
<1>11. BeingRead'
  <2>1. CASE p.size < Chunk
    <3>1. /\ Len(client'.read) = k + 1 /\ client'.read[k + 1] = m /\ \A i \in 1..k : client'.read[i] = client.read[i]
      <4>1. client'.read = Append(client.read, m)
        BY <1>8, <2>1, Zenon
      <4>2. /\ Len(Append(client.read, m)) = Len(client.read) + 1
            /\ Append(client.read, m)[Len(client.read) + 1] = m
            /\ \A i \in 1..Len(client.read) : Append(client.read, m)[i] = client.read[i]
        <5>1. client.read \in Seq(Messages) /\ m \in Messages
          BY <1>4, <1>6, Zenon
        <5> QED BY <5>1, OneIsAppended, Zenon
      <4> QED BY <4>1, <4>2, Zenon DEF k
    <3>2. Len(client'.read) <= Len(reply') /\ \A i \in 1..Len(client'.read) : client'.read[i] = reply'[i]
      BY <1>1, <1>3, <1>4, <1>5, <3>1 DEF m
    <3>3. Carries(toClient', reply', Len(client'.read), Len(reply'), client'.size, client'.number)
      BY <1>1, <1>5, <1>8, <2>1, <3>1
    <3> QED BY <1>1, <1>3, <1>10, <3>2, <3>3 DEF BeingRead
  <2>2. CASE ~(p.size < Chunk)
    <3>1. client'.read = client.read /\ client'.size = client.size + Chunk /\ reply' = reply
      BY <1>1, <1>8, <2>2
    <3>2. Carries(toClient', reply', Len(client'.read), Len(reply'), client'.size, client'.number)
      BY <1>5, <1>8, <2>2, <3>1 DEF k
    <3> QED BY <1>1, <1>3, <1>10, <3>1, <3>2 DEF BeingRead, k
  <2> QED BY <2>1, <2>2
<1>12. Incoming' /\ AwaitedOK' /\ Connecting' /\ Quitting' /\ IdleOK' /\ ClosedOK'
  BY <1>1, <1>2, <1>8, <1>10 DEF Conversation, Incoming, AwaitedOK, Connecting, Quitting, IdleOK, ClosedOK, sessionVars
<1>13. Tells(reply, serverStatus)'
  BY <1>1 DEF Conversation, sessionVars
<1>14. Heard'
  <2> SUFFICES ASSUME toClient' = <<>>, EndsInStatus(reply) PROVE client'.status = Last(reply).status
    BY <1>1 DEF Heard
  <2>1. k + 1 = Len(reply) /\ p.kind = Last(reply).kind /\ p.status = Last(reply).status
    BY <1>5 DEF m, Last
  <2> QED BY <1>8, <2>1 DEF EndsInStatus
<1> QED BY <1>9, <1>11, <1>12, <1>13, <1>14 DEF Conversation

\* A client that has a complete answer has read all of it.
LEMMA DoneKeeps ==
  ASSUME Conversation, ClientDone PROVE Conversation'
<1>1. /\ client.at = "reading" /\ Complete(command.name, MessageKinds(client.read)) /\ server # "handling"
      /\ toServer = <<>> /\ client' = [client EXCEPT !.at = "idle", !.read = <<>>]
      /\ UNCHANGED <<toServer, toClient, sequence, server, received, command, reply, aligned>>
      /\ UNCHANGED sessionVars
  BY DEF ClientDone
<1>2. ConversationTypes /\ client.read \in Seq(Messages)
  BY DEF Conversation, ConversationTypes, Clients
<1>3. ~Awaited
  <2>1. CASE server = "verifying"
    <3>1. client.read = <<>> /\ command.name \in LogIns
      BY <2>1 DEF Conversation, AwaitedOK, Awaited
    <3>2. MessageKinds(client.read) = <<>>
      BY <3>1 DEF MessageKinds
    <3> QED BY <1>1, <3>1, <3>2, NothingIsIncomplete DEF LogIns
  <2> QED BY <1>1, <2>1 DEF Awaited
<1>4. command.name # "quit"
  <2> SUFFICES ASSUME command.name = "quit" PROVE FALSE
    OBVIOUS
  <2>1. client.read = <<>>
    BY <1>1, <1>3 DEF Conversation, Quitting
  <2>2. MessageKinds(client.read) = <<>>
    BY <2>1 DEF MessageKinds
  <2> QED BY <1>1, <2>2, NothingIsIncomplete
<1>5. /\ server \in {"reading", "closed"} /\ Answers(command.name, reply)
      /\ Carries(toClient, reply, Len(client.read), Len(reply), client.size, client.number)
      /\ Len(client.read) <= Len(reply) /\ \A i \in 1..Len(client.read) : client.read[i] = reply[i]
  BY <1>1, <1>3, <1>4 DEF Conversation, BeingRead
<1>6. reply \in Seq(Messages) /\ Len(reply) \in Nat /\ Len(client.read) \in Nat
  BY <1>2 DEF ConversationTypes
<1>7. Len(client.read) = Len(reply)
  <2> SUFFICES ASSUME Len(client.read) # Len(reply) PROVE FALSE
    OBVIOUS
  <2>1. Len(client.read) \in 0..(Len(reply) - 1)
    BY <1>5, <1>6
  <2> QED BY <1>1, <1>2, <1>5, <2>1 DEF Answers
<1>8. toClient = <<>> /\ client.size = 0
  <2>1. toClient = <<>>
    <3> SUFFICES ASSUME toClient # <<>> PROVE FALSE
      OBVIOUS
    <3>1. toClient \in Seq(Packets) /\ client.size \in Nat /\ client.number \in 0..(Numbers - 1)
      BY <1>2 DEF ConversationTypes, Clients
    <3>2. Len(client.read) + 1 \in 1..Len(reply)
      BY <1>5, <1>6, <3>1, OneIsRead
    <3> QED BY <1>6, <1>7, <3>2
  <2> QED BY <1>5, <2>1, NothingLeft
<1>9. /\ client'.at = "idle" /\ client'.read = <<>> /\ client'.size = 0 /\ client'.status = client.status
      /\ client' \in Clients
  <2>1. client \in Clients
    BY <1>2, Zenon DEF ConversationTypes
  <2>2. client' = [client EXCEPT !.at = "idle", !.read = <<>>]
    BY <1>1, Zenon
  <2>3. client'.at = "idle" /\ client'.read = <<>> /\ client'.size = client.size /\ client'.status = client.status
    BY <2>1, <2>2 DEF Clients
  <2>4. <<>> \in Seq(Messages)
    OBVIOUS
  <2>5. client' \in Clients
    BY <2>1, <2>2, <2>4 DEF Clients
  <2> QED BY <1>8, <2>3, <2>5, Zenon
<1>10. ConversationTypes'
  BY <1>1, <1>2, <1>9 DEF ConversationTypes, sessionVars
<1>11. ~Awaited' /\ server' \in {"reading", "closed"} /\ toClient' = <<>>
  BY <1>1, <1>3, <1>5, <1>8 DEF Awaited
<1>12. Incoming' /\ AwaitedOK' /\ Connecting' /\ BeingRead' /\ Quitting' /\ IdleOK' /\ ClosedOK'
  BY <1>1, <1>9, <1>11 DEF Conversation, Incoming, AwaitedOK, Connecting, BeingRead, Quitting, IdleOK, ClosedOK, sessionVars
<1>13. Tells(reply, serverStatus)' /\ Heard'
  BY <1>1, <1>8, <1>9 DEF Conversation, Heard, sessionVars
<1> QED BY <1>10, <1>12, <1>13 DEF Conversation

\* The parameters of an execution are no part of the conversation.
LEMMA ParametersKeep ==
  ASSUME Conversation, UNCHANGED wireVars, UNCHANGED <<currentDB, serverStatus, preparedStmts, nextStmtID>>
  PROVE  Conversation'
<1> USE DEF wireVars
<1>1. ConversationTypes'
  BY DEF Conversation, ConversationTypes
<1>2. Incoming' /\ AwaitedOK' /\ Connecting' /\ BeingRead' /\ Quitting' /\ IdleOK' /\ ClosedOK'
  BY DEF Conversation, Incoming, AwaitedOK, Awaited, Connecting, BeingRead, Quitting, IdleOK, ClosedOK
<1>3. Tells(reply, serverStatus)' /\ Heard'
  BY DEF Conversation, Heard
<1> QED BY <1>1, <1>2, <1>3 DEF Conversation

\* Every step of the protocol.
LEMMA ProtocolNextKeeps ==
  ASSUME ProtocolInv, ProtocolNext \/ UNCHANGED protocolVars PROVE ProtocolInv'
<1>1. aligned' \in BOOLEAN /\ (~aligned' => ~aligned)
  BY DEF ProtocolInv, ProtocolNext, SendHandshake, ClientLogsIn, VerifyHandshakeResponse, ClientSends, ReadPacket,
         HandleCommand, ReadExecuteParameters, ClientReads, ClientDone, protocolVars, wireVars
<1>2. parameters' \in Seq(Values)
  <2>1. CASE ReadExecuteParameters
    <3>1. PICK n \in 1..MaxParameters : parameters' \in [1..n -> Values]
      BY <2>1 DEF ReadExecuteParameters
    <3>2. n \in Nat
      OBVIOUS
    <3> QED BY <3>1, <3>2
  <2>2. CASE HandleCommand
    <3>1. parameters' = parameters \/ parameters' = <<>>
      BY <2>2 DEF HandleCommand, sessionVars
    <3>2. <<>> \in Seq(Values)
      OBVIOUS
    <3> QED BY <3>1, <3>2, Zenon DEF ProtocolInv
  <2>3. CASE ~ReadExecuteParameters /\ ~HandleCommand
    <3>1. parameters' = parameters
      BY <2>3 DEF ProtocolNext, SendHandshake, ClientLogsIn, VerifyHandshakeResponse, ClientSends, ReadPacket,
                  ClientReads, ClientDone, protocolVars, sessionVars
    <3> QED BY <3>1 DEF ProtocolInv
  <2> QED BY <2>1, <2>2, <2>3
<1>3. ASSUME ~aligned' PROVE Conversation'
  <2>1. Conversation
    BY <1>1, <1>3 DEF ProtocolInv
  <2>2. CASE UNCHANGED protocolVars
    BY <2>1, <2>2, ParametersKeep DEF protocolVars, sessionVars
  <2>3. CASE ReadExecuteParameters
    BY <2>1, <2>3, ParametersKeep DEF ReadExecuteParameters
  <2> QED BY <1>3, <2>1, <2>2, <2>3, HandshakeKeeps, LogInKeeps, VerifyKeeps, SendKeeps, ReadPacketKeeps, HandleKeeps,
             ClientReadsKeeps, DoneKeeps DEF ProtocolNext
<1> QED BY <1>1, <1>2, <1>3 DEF ProtocolInv

\* The invariant says what client and server are promised.
LEMMA ProtocolInvIsEnough == ProtocolInv => InStep /\ ValuesInPlace
<1> SUFFICES ASSUME ProtocolInv PROVE InStep /\ ValuesInPlace
  OBVIOUS
<1>1. ValuesInPlace
  BY ValuesAreInPlace DEF ProtocolInv
<1>2. ASSUME ~aligned
      PROVE  /\ client.at # "lost" /\ IsPrefix(client.read, reply)
             /\ server = "closed" => command.name = "quit" \/ (command.name = "log_in_wrongly" /\ reply = WriteError)
             /\ (client.at = "reading" /\ server = "reading" /\ toServer = <<>> /\ toClient = <<>>) =>
                   Complete(command.name, MessageKinds(client.read))
             /\ client.at = "idle" =>
                   /\ toClient = <<>>
                   /\ reply # <<>> /\ Last(reply).kind \in {"ok", "eof"} /\ ~ResultSet(MessageKinds(reply)) =>
                         client.status = serverStatus
  <2>1. Conversation /\ ConversationTypes
    BY <1>2 DEF ProtocolInv, Conversation
  <2>2. client.at \in {"connecting", "reading", "idle"} /\ client.read \in Seq(Messages) /\ reply \in Seq(Messages)
    BY <2>1 DEF ConversationTypes, Clients
  <2>3. Len(client.read) <= Len(reply) /\ \A i \in 1..Len(client.read) : client.read[i] = reply[i]
    <3>1. CASE client.read = <<>>
      BY <2>2, <3>1
    <3>2. CASE client.read # <<>>
      <4>1. client.at = "reading" /\ ~Awaited /\ command.name # "quit"
        BY <2>1, <2>2, <3>2 DEF Conversation, Connecting, IdleOK, AwaitedOK, Quitting
      <4> QED BY <2>1, <4>1 DEF Conversation, BeingRead
    <3> QED BY <3>1, <3>2
  <2>4. IsPrefix(client.read, reply)
    BY <2>2, <2>3, FirstArePrefix
  <2>5. server = "closed" => command.name = "quit" \/ (command.name = "log_in_wrongly" /\ reply = WriteError)
    BY <2>1 DEF Conversation, ClosedOK
  <2>6. ASSUME client.at = "reading", server = "reading", toServer = <<>>, toClient = <<>>
        PROVE  Complete(command.name, MessageKinds(client.read))
    <3>1. ~Awaited
      BY <2>6 DEF Awaited
    <3>2. command.name # "quit"
      BY <2>1, <2>6, <3>1 DEF Conversation, Quitting
    <3>3. /\ Answers(command.name, reply)
          /\ Carries(toClient, reply, Len(client.read), Len(reply), client.size, client.number)
      BY <2>1, <2>6, <3>1, <3>2 DEF Conversation, BeingRead
    <3>4. Len(client.read) = Len(reply)
      BY <2>6, <3>3, NothingLeft
    <3>5. client.read = reply
      BY <2>2, <2>3, <3>4, SeqEqual
    <3> QED BY <3>3, <3>5 DEF Answers
  <2>7. ASSUME client.at = "idle"
        PROVE  /\ toClient = <<>>
               /\ reply # <<>> /\ Last(reply).kind \in {"ok", "eof"} /\ ~ResultSet(MessageKinds(reply)) =>
                     client.status = serverStatus
    BY <2>1, <2>7 DEF Conversation, IdleOK, Tells, Heard, EndsInStatus
  <2> QED BY <2>2, <2>4, <2>5, <2>6, <2>7
<1> QED BY <1>1, <1>2 DEF InStep

-----------------------------------------------------------------------------
(* Client and server of the MySQL protocol stay in step: neither finds a   *)
(* packet out of turn, what the client reads is what the server meant, an  *)
(* answer is complete when all of it is read and not before, and tells the *)
(* status of the session -- unless a message was a multiple of the chunk   *)
(* long.  Every parameter is read where the client has put it, and every   *)
(* value of a binary row written where the client looks for it, but for    *)
(* the times before it and as long as the values before it are encoded by  *)
(* the types that were announced; every length is read back as it was      *)
(* written.                                                                *)
(* For every size of chunks and messages, range of sequence numbers,       *)
(* number of statements and list of parameters (mysql/protocol).           *)
THEOREM ProtocolSafety == FormatsSpec => []ProtocolInStep
<1> DEFINE Inv == format = "protocol" => ProtocolInv
<1>1. FormatsInit => Inv
  BY ConversationBegins DEF FormatsInit
<1>2. Inv /\ [FormatsNext]_formatsVars => Inv'
  <2> SUFFICES ASSUME Inv, [FormatsNext]_formatsVars, format' = "protocol" PROVE ProtocolInv'
    OBVIOUS
  <2>1. format = "protocol" /\ (ProtocolNext \/ UNCHANGED protocolVars)
    BY DEF FormatsNext, formatsVars
  <2> QED BY <2>1, ProtocolNextKeeps
<1>3. Inv => ProtocolInStep
  BY ProtocolInvIsEnough DEF ProtocolInStep
<1> QED BY <1>1, <1>2, <1>3, PTL DEF FormatsSpec
===============================================================================
