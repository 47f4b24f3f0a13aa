-------------------------- MODULE WriteQueueProofs --------------------------
(***************************************************************************)
(* WriteQueue for any writers, sizes, triggers and numbers of failures.    *)
(***************************************************************************)
EXTENDS WriteQueue, SequenceTheorems, FiniteSetTheorems, WellFoundedInduction, TLAPS

Leads  == {"room", "delayed", "stalled", "logging", "inserting", "failed", "sync_error"}
Writes == {"logging", "inserting", "failed", "sync_error"}

InQueue(w) == \E i \in 1..Len(writers_) : writers_[i] = w

(* A writer is in the queue, once, from its call until a leader, or itself *)
(* as one, has given it a status; only the head leads.                     *)
QueueShape ==
  /\ \A i, j \in 1..Len(writers_) : writers_[i] = writers_[j] => i = j
  /\ \A w \in Writers :
       /\ InQueue(w) => result[w] = "none" /\ pc[w] \in Leads \cup {"queued"}
       /\ result[w] = "none" => InQueue(w) \/ pc[w] = "idle"
       /\ pc[w] = "idle" => result[w] = "none"
       /\ pc[w] \in Leads => writers_ # <<>> /\ w = writers_[1]
       /\ pc[w] \in {"flushed", "flushwait"} => w \in NullWriters

(* The group of a leader that writes is the front of the queue; it holds a *)
(* synchronous write only when the leader is one.                          *)
GroupInv ==
  /\ \A w \in Writers :
       pc[w] \in Writes =>
         /\ w \notin NullWriters
         /\ Len(batch) \in 1..Len(writers_)
         /\ \A i \in 1..Len(batch) : /\ batch[i] = writers_[i]
                                     /\ batch[i] \in SyncWriters => w \in SyncWriters
         /\ inserted = 0 \/ pc[w] = "inserting"
  /\ (\A w \in Writers : pc[w] \notin Writes) => batch = <<>> /\ inserted = 0

(* What is stored of a writer is its whole batch, seen by readers, or what *)
(* its leader has inserted so far, above what they see.                    *)
EntriesInv ==
  /\ Stored \subseteq [writer : Writers, seq : Nat]
  /\ \A w \in Writers \ NullWriters :
       IF result[w] = "ok"
       THEN /\ Cardinality(EntriesOf(w, Stored)) = BatchSize
            /\ \A e \in EntriesOf(w, Stored) : e.seq <= last_sequence
       ELSE EntriesOf(w, Stored) = EntriesOf(w, {Entry(k) : k \in 1..inserted})

(* Entries of synchronous writers lie under a log that was synced for them.*)
SyncInv ==
  /\ {log, imm_log} \subseteq [records : SUBSET Writers, synced : SUBSET Writers]
  /\ log.synced \subseteq log.records
  /\ \A w \in SyncWriters \ NullWriters :
       /\ EntriesOf(w, mem) # {} => w \in log.synced
       /\ EntriesOf(w, imm) # {} => w \in imm_log.synced
  /\ \A w \in SyncWriters : pc[w] = "inserting" => Batched \subseteq log.synced

(* The background thread works only while it is scheduled, on files that   *)
(* are there.                                                              *)
WorkInv ==
  /\ flushing \/ compaction # {} => scheduled
  /\ \A c \in compaction : c.inputs <= l0

(* A manual compaction is registered by its caller, who waits for it; one  *)
(* that is done is not registered any more.                                *)
ManualInv ==
  /\ ManualIsThere
  /\ manual_compaction => caller \in {"waiting", "loop"} /\ ~manual_done
  /\ \A c \in compaction : c.manual => ~manual_done
  /\ caller = "waiting" => manual_compaction
  /\ bg_error => ShuttingDown
  /\ ShuttingDown => caller \in {"idle", "returned"}
  /\ \A w \in Writers : pc[w] # "sync_error"

-----------------------------------------------------------------------------
(* Lemmas about sequences and numbers *)

(* A set of natural numbers has a least one.                               *)
LEMMA LeastNumber ==
  ASSUME NEW S \in SUBSET Nat, S # {}
  PROVE  \E k \in S : \A m \in S : k <= m
  <1> DEFINE R == OpToRel(<, Nat)
  <1>1. IsWellFoundedOn(R, Nat)
    BY NatLessThanWellFounded
  <1>2. PICK k \in S : \A m \in S : ~ (<<m, k>> \in R)
    <2> HIDE DEF R
    <2> QED BY <1>1, WFMin
  <1>3. ASSUME NEW m \in S PROVE k <= m
    <2>1. <<m, k>> \notin {ss \in Nat \X Nat : ss[1] < ss[2]}
      BY <1>2 DEF OpToRel
    <2> QED BY <2>1
  <1> QED BY <1>3

(* The quotient by BatchSize.                                              *)
LEMMA Quotient ==
  ASSUME NEW x \in Nat, NEW k \in Nat
  PROVE  x \div BatchSize = k <=> k * BatchSize <= x /\ x < k * BatchSize + BatchSize
  <1> DEFINE q == x \div BatchSize
  <1> USE BatchAssumption DEF BatchAssumption
  <1>1. x = BatchSize * q + (x % BatchSize) /\ 0 <= x % BatchSize /\ x % BatchSize < BatchSize
        /\ q \in Nat
    OBVIOUS
  <1>2. CASE q < k
    <2>1. q + 1 <= k /\ (q + 1) * BatchSize <= k * BatchSize
      BY <1>1, <1>2
    <2> QED BY <2>1, <1>1, <1>2
  <1>3. CASE q > k
    <2>1. k + 1 <= q /\ (k + 1) * BatchSize <= q * BatchSize
      BY <1>1, <1>3
    <2> QED BY <2>1, <1>1, <1>3
  <1>4. CASE q = k
    BY <1>1, <1>4
  <1> QED BY <1>1, <1>2, <1>3, <1>4

(* WithBatch lists the writers of a queue without repetitions that have a  *)
(* batch, each once.                                                       *)
LEMMA WithBatchLists ==
  ASSUME NEW q \in Seq(Writers), \A i, j \in 1..Len(q) : q[i] = q[j] => i = j
  PROVE  /\ WithBatch(q) \in Seq(Writers)
         /\ \A m, k \in 1..Len(WithBatch(q)) : WithBatch(q)[m] = WithBatch(q)[k] => m = k
         /\ \A w \in Writers \ NullWriters :
              (\E i \in 1..Len(q) : q[i] = w) => \E k \in 1..Len(WithBatch(q)) : WithBatch(q)[k] = w
         /\ \A k \in 1..Len(WithBatch(q)) : /\ WithBatch(q)[k] \notin NullWriters
                                            /\ \E i \in 1..Len(q) : q[i] = WithBatch(q)[k]
  <1> DEFINE Has     == {i \in DOMAIN q : q[i] \notin NullWriters}
             Upto(i) == {j \in Has : j <= i}
             Rank    == [i \in Has |-> Cardinality(Upto(i))]
             N       == Cardinality(Has)
             At(k)   == CHOOSE i \in Has : Rank[i] = k
  <1>1. DOMAIN q = 1..Len(q) /\ Len(q) \in Nat
    OBVIOUS
  <1>2. IsFiniteSet(Has) /\ N \in Nat
    <2>1. Has \in SUBSET (1..Len(q))
      BY <1>1
    <2>2. IsFiniteSet(1..Len(q))
      BY <1>1, FS_Interval
    <2>3. IsFiniteSet(Has)
      BY <2>1, <2>2, FS_Subset
    <2> QED BY <2>3, FS_CardinalityType
  <1>3. \A i \in Has : Upto(i) \in SUBSET Has
    OBVIOUS
  <1>4. \A i \in Has : IsFiniteSet(Upto(i)) /\ Cardinality(Upto(i)) \in Nat
    BY <1>2, <1>3, FS_Subset, FS_CardinalityType
  <1>5. ASSUME NEW i \in Has PROVE Rank[i] \in 1..N
    <2>1. Cardinality(Upto(i)) <= N
      BY <1>2, <1>3, FS_Subset
    <2>2. i \in Upto(i)
      BY <1>1
    <2>3. Cardinality(Upto(i)) # 0
      BY <1>4, <2>2, FS_EmptySet
    <2>4. Rank[i] = Cardinality(Upto(i))
      OBVIOUS
    <2> HIDE DEF Rank, N, Upto, Has
    <2> QED BY <1>2, <1>4, <2>1, <2>3, <2>4
  <1>6. ASSUME NEW i \in Has, NEW j \in Has, i < j PROVE Rank[i] # Rank[j]
    <2>1. i \in Int /\ j \in Int
      BY <1>1
    <2>2. Upto(i) \in SUBSET Upto(j)
      BY <1>1, <1>6
    <2>3. Upto(i) # Upto(j)
      BY <1>1, <1>6
    <2>4. Cardinality(Upto(i)) # Cardinality(Upto(j))
      BY <1>4, <2>2, <2>3, FS_Subset
    <2> QED BY <2>4
  <1>7. Rank \in Injection(Has, 1..N)
    <2>1. Rank \in [Has -> 1..N]
      BY <1>5
    <2>2. \A i, j \in Has : Rank[i] = Rank[j] => i = j
      BY <1>1, <1>6
    <2> QED BY <2>1, <2>2 DEF Injection, IsInjective
  <1>8. Rank \in Surjection(Has, 1..N)
    <2>1. IsFiniteSet(1..N) /\ Cardinality(1..N) = N
      BY <1>2, FS_Interval
    <2> HIDE DEF Rank, N
    <2>2. Cardinality(Has) = N
      BY DEF N
    <2> QED BY <1>7, <2>1, <2>2, FS_Injection
  <1>9. \A k \in 1..N : \E i \in Has : Rank[i] = k
    BY <1>8 DEF Surjection
  <1>10. \A k \in 1..N : At(k) \in Has /\ Rank[At(k)] = k
    BY <1>9
  <1>11. \A i \in Has : At(Rank[i]) = i
    BY <1>5, <1>7, <1>10 DEF Injection, IsInjective
  <1>12. WithBatch(q) = [k \in 1..N |-> q[At(k)]]
    BY DEF WithBatch
  <1> HIDE DEF Has, Upto, Rank, N, At
  <1>13. \A k \in 1..N : At(k) \in 1..Len(q) /\ q[At(k)] \in Writers \ NullWriters
    BY <1>1, <1>10 DEF Has
  <1>14. WithBatch(q) \in Seq(Writers) /\ Len(WithBatch(q)) = N
    BY <1>2, <1>12, <1>13
  <1>15. \A m, k \in 1..N : q[At(m)] = q[At(k)] => m = k
    BY <1>10, <1>13
  <1>16. ASSUME NEW w \in Writers \ NullWriters, NEW i \in 1..Len(q), q[i] = w
         PROVE  \E k \in 1..N : q[At(k)] = w
    BY <1>1, <1>5, <1>11, <1>16 DEF Has
  <1>17. \A k \in 1..N : WithBatch(q)[k] = q[At(k)]
    BY <1>12
  <1>18. \A m, k \in 1..N : WithBatch(q)[m] = WithBatch(q)[k] => m = k
    BY <1>15, <1>17
  <1>19. ASSUME NEW w \in Writers \ NullWriters, \E i \in 1..Len(q) : q[i] = w
         PROVE  \E k \in 1..N : WithBatch(q)[k] = w
    BY <1>16, <1>17, <1>19
  <1>20. \A k \in 1..N : /\ WithBatch(q)[k] \notin NullWriters
                         /\ \E i \in 1..Len(q) : q[i] = WithBatch(q)[k]
    BY <1>13, <1>17
  <1> QED BY <1>14, <1>18, <1>19, <1>20

-----------------------------------------------------------------------------
(* Lemmas about groups and their entries *)

LEMMA GroupLengthFits ==
  ASSUME writers_ \in Seq(Writers), writers_ # <<>>
  PROVE  /\ GroupLength \in 1..Len(writers_)
         /\ \A i \in 2..GroupLength : writers_[i] \in SyncWriters => writers_[1] \in SyncWriters
  <1> DEFINE Joins(i) ==
               /\ writers_[i] \in SyncWriters => writers_[1] \in SyncWriters
               /\ Cardinality({j \in 1..i : writers_[j] \notin NullWriters}) <= MaxGroup
             Ends == {k \in 1..Len(writers_) : k < Len(writers_) => ~Joins(k + 1)}
  <1>1. Len(writers_) \in Nat \ {0}
    OBVIOUS
  <1>2. Len(writers_) \in Ends
    BY <1>1
  <1>3. PICK k \in Ends : \A m \in Ends : k <= m
    <2>1. Ends \in SUBSET Nat
      BY <1>1
    <2> HIDE DEF Ends
    <2> QED BY <1>2, <2>1, LeastNumber
  <1>4. \A i \in 2..k : Joins(i)
    <2> SUFFICES ASSUME NEW i \in 2..k PROVE Joins(i)
      OBVIOUS
    <2>1. k \in 1..Len(writers_) /\ i - 1 \in 1..Len(writers_) /\ i - 1 < k
      BY <1>1
    <2>2. i - 1 \notin Ends
      <3> HIDE DEF Ends
      <3> QED BY <1>1, <1>3, <2>1
    <2>3. (i - 1) + 1 = i
      BY <2>1
    <2> HIDE DEF Joins
    <2> QED BY <2>1, <2>2, <2>3
  <1> DEFINE G == CHOOSE k_1 \in 1..Len(writers_) :
                    /\ \A i \in 2..k_1 : Joins(i)
                    /\ k_1 < Len(writers_) => ~Joins(k_1 + 1)
  <1>5. GroupLength = G
    BY DEF GroupLength
  <1>6. G \in 1..Len(writers_) /\ \A i \in 2..G : Joins(i)
    <2> HIDE DEF Joins
    <2> QED BY <1>3, <1>4
  <1> QED BY <1>5, <1>6

(* The batch of a group without repetitions.                               *)
IsGroup == /\ batch \in Seq(Writers)
           /\ \A i, j \in 1..Len(batch) : batch[i] = batch[j] => i = j

LEMMA CountType ==
  ASSUME IsGroup
  PROVE  Count \in Nat /\ Count = BatchSize * Len(WithBatch(batch))
  <1>1. Len(WithBatch(batch)) \in Nat
    BY WithBatchLists DEF IsGroup
  <1> QED BY <1>1, BatchAssumption DEF Count, BatchAssumption

LEMMA BatchedAre ==
  ASSUME IsGroup
  PROVE  /\ Batched = {WithBatch(batch)[k] : k \in 1..Len(WithBatch(batch))}
         /\ Batched \subseteq {w \in Writers \ NullWriters : \E i \in 1..Len(batch) : batch[i] = w}
         /\ {w \in Writers \ NullWriters : \E i \in 1..Len(batch) : batch[i] = w} \subseteq Batched
  <1>1. DOMAIN WithBatch(batch) = 1..Len(WithBatch(batch))
    BY WithBatchLists DEF IsGroup
  <1>2. Batched = {WithBatch(batch)[k] : k \in 1..Len(WithBatch(batch))}
    BY <1>1 DEF Batched
  <1>3. \A k \in 1..Len(WithBatch(batch)) :
          /\ WithBatch(batch)[k] \in Writers \ NullWriters
          /\ \E i \in 1..Len(batch) : batch[i] = WithBatch(batch)[k]
    BY WithBatchLists DEF IsGroup
  <1>4. \A w \in Writers \ NullWriters :
          (\E i \in 1..Len(batch) : batch[i] = w)
          => \E k \in 1..Len(WithBatch(batch)) : WithBatch(batch)[k] = w
    BY WithBatchLists DEF IsGroup
  <1> QED BY <1>2, <1>3, <1>4

(* Entry k belongs to the batch that holds it when batches lie side by     *)
(* side.                                                                   *)
LEMMA EntryBelongs ==
  ASSUME IsGroup, NEW k \in 1..Count, last_sequence \in Nat
  PROVE  /\ Entry(k) \in [writer : Writers, seq : Nat]
         /\ Entry(k).seq = last_sequence + k
         /\ (k - 1) \div BatchSize + 1 \in 1..Len(WithBatch(batch))
         /\ Entry(k).writer = WithBatch(batch)[(k - 1) \div BatchSize + 1]
         /\ Entry(k).writer \in Batched
  <1> DEFINE L == Len(WithBatch(batch))
             d == (k - 1) \div BatchSize
  <1>1. L \in Nat /\ Count = BatchSize * L /\ Count \in Nat
    BY CountType, WithBatchLists DEF IsGroup
  <1>2. k \in Nat /\ k - 1 \in Nat /\ k - 1 < BatchSize * L
    BY <1>1
  <1>3. d \in Nat
    BY <1>2, BatchAssumption DEF BatchAssumption
  <1>4. d * BatchSize <= k - 1
    BY <1>2, <1>3, Quotient
  <1>5. d < L
    <2>1. SUFFICES ASSUME L <= d PROVE FALSE
      BY <1>1, <1>3
    <2>2. L * BatchSize <= d * BatchSize /\ BatchSize * L = L * BatchSize
      BY <1>1, <1>3, <2>1, BatchAssumption DEF BatchAssumption
    <2> DEFINE x == L * BatchSize  y == d * BatchSize
    <2>3. x \in Nat /\ y \in Nat
      BY <1>1, <1>3, BatchAssumption DEF BatchAssumption
    <2> HIDE DEF x, y
    <2> QED BY <1>2, <1>4, <2>2, <2>3 DEF x, y
  <1>6. d + 1 \in 1..L
    BY <1>1, <1>3, <1>5
  <1>7. WithBatch(batch)[d + 1] \in Batched
    BY <1>6, BatchedAre
  <1>8. WithBatch(batch)[d + 1] \in Writers
    BY <1>7, BatchedAre
  <1> HIDE DEF L
  <1> QED BY <1>2, <1>6, <1>7, <1>8 DEF Entry, L

(* All entries of a group hold BatchSize of each of its writers.           *)
LEMMA WholeBatch ==
  ASSUME IsGroup, last_sequence \in Nat, NEW w \in Batched
  PROVE  Cardinality(EntriesOf(w, {Entry(k) : k \in 1..Count})) = BatchSize
  <1> DEFINE L == Len(WithBatch(batch))
             E == EntriesOf(w, {Entry(k) : k \in 1..Count})
  <1>1. PICK m \in 1..L : WithBatch(batch)[m] = w
    BY BatchedAre
  <1> DEFINE a == (m - 1) * BatchSize
             I == a + 1 .. a + BatchSize
             f == [k \in I |-> Entry(k)]
  <1>2. L \in Nat /\ Count \in Nat /\ Count = BatchSize * L /\ m \in Nat \ {0} /\ m <= L
    BY CountType, WithBatchLists DEF IsGroup
  <1>3. a \in Nat /\ BatchSize \in Nat \ {0}
    BY <1>2, BatchAssumption DEF BatchAssumption
  <1>4. a + BatchSize <= Count
    <2>1. a + BatchSize = m * BatchSize
      BY <1>2, <1>3
    <2>2. m * BatchSize <= L * BatchSize
      BY <1>2, <1>3
    <2>3. L * BatchSize = BatchSize * L
      BY <1>2, <1>3
    <2> HIDE DEF a, L
    <2> DEFINE x == m * BatchSize
    <2>4. x \in Nat
      BY <1>2, <1>3
    <2> HIDE DEF x
    <2> QED BY <1>2, <1>3, <2>1, <2>2, <2>3, <2>4 DEF x
  <1>5. \A k \in 1..Count : k \in I <=> (k - 1) \div BatchSize = m - 1
    <2> SUFFICES ASSUME NEW k \in 1..Count PROVE k \in I <=> (k - 1) \div BatchSize = m - 1
      OBVIOUS
    <2>1. k \in Nat /\ k - 1 \in Nat /\ m - 1 \in Nat
      BY <1>2
    <2>2. (k - 1) \div BatchSize = m - 1 <=> a <= k - 1 /\ k - 1 < a + BatchSize
      BY <2>1, Quotient
    <2> HIDE DEF a
    <2> QED BY <1>3, <2>1, <2>2
  <1>6. \A k \in 1..Count : Entry(k).writer = w <=> k \in I
    <2> SUFFICES ASSUME NEW k \in 1..Count PROVE Entry(k).writer = w <=> k \in I
      OBVIOUS
    <2> DEFINE d == (k - 1) \div BatchSize
    <2>1. d + 1 \in 1..L /\ Entry(k).writer = WithBatch(batch)[d + 1]
      BY EntryBelongs
    <2>2. WithBatch(batch)[d + 1] = w <=> d + 1 = m
      BY <1>1, <2>1, WithBatchLists DEF IsGroup
    <2>3. k \in I <=> d = m - 1
      BY <1>5
    <2>4. d \in Int
      BY <1>2, <1>3
    <2> HIDE DEF d, I, L
    <2> QED BY <1>2, <2>1, <2>2, <2>3, <2>4
  <1>7. I \subseteq 1..Count
    BY <1>2, <1>3, <1>4
  <1>8. E = {Entry(k) : k \in I}
    <2> HIDE DEF I
    <2> QED BY <1>6, <1>7 DEF EntriesOf
  <1>9. f \in Bijection(I, E)
    <2>1. \A k \in I : Entry(k).seq = last_sequence + k
      BY <1>7, EntryBelongs
    <2>2. \A j, k \in I : Entry(j) = Entry(k) => j = k
      <3> SUFFICES ASSUME NEW j \in I, NEW k \in I, Entry(j) = Entry(k) PROVE j = k
        OBVIOUS
      <3>1. j \in Nat /\ k \in Nat /\ last_sequence + j = last_sequence + k
        BY <1>3, <2>1
      <3> QED BY <3>1
    <2> HIDE DEF I, E
    <2>3. f \in Injection(I, E)
      BY <1>8, <2>2 DEF Injection, IsInjective
    <2>4. f \in Surjection(I, E)
      BY <1>8 DEF Surjection
    <2> QED BY <2>3, <2>4 DEF Bijection
  <1>10. IsFiniteSet(I) /\ Cardinality(I) = BatchSize
    <2> HIDE DEF a
    <2>1. a + 1 \in Int /\ a + BatchSize \in Int /\ (a + 1 > a + BatchSize <=> FALSE)
      BY <1>3
    <2> QED BY <1>3, <2>1, FS_Interval
  <1>11. ExistsBijection(I, E)
    BY <1>9 DEF ExistsBijection
  <1> HIDE DEF I, E
  <1> QED BY <1>10, <1>11, FS_Bijection DEF E

LEMMA GroupIsDistinct == TypeOK /\ QueueShape /\ GroupInv => IsGroup
  <1> SUFFICES ASSUME TypeOK, QueueShape, GroupInv PROVE IsGroup
    OBVIOUS
  <1>1. batch \in Seq(Writers)
    BY DEF TypeOK
  <1>2. CASE batch = <<>>
    BY <1>1, <1>2 DEF IsGroup
  <1>3. CASE batch # <<>>
    <2>1. Len(batch) <= Len(writers_) /\ \A i \in 1..Len(batch) : batch[i] = writers_[i]
      BY <1>3 DEF GroupInv
    <2>2. Len(batch) \in Nat /\ Len(writers_) \in Nat
      BY DEF TypeOK
    <2>3. \A i \in 1..Len(batch) : i \in 1..Len(writers_)
      BY <2>1, <2>2
    <2> QED BY <1>1, <2>1, <2>3 DEF IsGroup, QueueShape
  <1> QED BY <1>2, <1>3

-----------------------------------------------------------------------------
(* Types *)

(* Finish takes the front of the queue off and gives it the status.        *)
LEMMA FinishTakesOff ==
  ASSUME TypeOK, QueueShape, NEW w \in Writers, NEW n \in 1..Len(writers_),
         NEW status \in {"ok", "error"}, Finish(w, n, status)
  PROVE  /\ writers_' \in Seq(Writers) /\ Len(writers_') = Len(writers_) - n
         /\ \A i \in 1..Len(writers_') : writers_'[i] = writers_[i + n]
         /\ result' \in [Writers -> {"none", "ok", "error"}]
         /\ \A v \in Writers : \/ result'[v] = result[v] /\ \A i \in 1..n : writers_[i] # v
                               \/ result'[v] = status /\ \E i \in 1..n : writers_[i] = v
         /\ signaled' \subseteq Writers
  <1> USE DEF TypeOK
  <1>1. /\ Len(writers_) \in Nat /\ n \in Nat /\ n <= Len(writers_)
        /\ \A i \in 1..Len(writers_) : writers_[i] \in Writers
    OBVIOUS
  <1>2. writers_' = SubSeq(writers_, n + 1, Len(writers_))
    BY DEF Finish
  <1>3. \A i \in n + 1..Len(writers_) : writers_[i] \in Writers
    BY <1>1
  <1>4. /\ writers_' \in Seq(Writers)
        /\ Len(writers_') = IF n + 1 <= Len(writers_) THEN Len(writers_) - (n + 1) + 1 ELSE 0
        /\ \A i \in 1..Len(writers_) - (n + 1) + 1 : writers_'[i] = writers_[(n + 1) + i - 1]
    <2>1. n + 1 \in Int /\ Len(writers_) \in Int
      BY <1>1
    <2> QED BY <1>2, <1>3, <2>1, SubSeqProperties
  <1>5. Len(writers_') = Len(writers_) - n
    BY <1>1, <1>4
  <1>6. \A i \in 1..Len(writers_') : writers_'[i] = writers_[i + n]
    <2> SUFFICES ASSUME NEW i \in 1..Len(writers_') PROVE writers_'[i] = writers_[i + n]
      OBVIOUS
    <2>1. (n + 1) + i - 1 = i + n /\ i \in 1..Len(writers_) - (n + 1) + 1
      BY <1>1, <1>5
    <2> QED BY <1>4, <2>1
  <1>7. \A i \in 1..n : writers_[i] \in Writers
    BY <1>1
  <1>8. \A v \in Writers : \/ result'[v] = result[v] /\ \A i \in 1..n : writers_[i] # v
                           \/ result'[v] = status /\ \E i \in 1..n : writers_[i] = v
    BY DEF Finish
  <1>9. result' \in [Writers -> {"none", "ok", "error"}]
    BY DEF Finish
  <1>10. signaled' \subseteq Writers
    <2>1. writers_' # <<>> => Head(writers_') \in Writers
      BY <1>4
    <2> QED BY <1>2, <1>7, <2>1 DEF Finish
  <1> QED BY <1>4, <1>5, <1>6, <1>8, <1>9, <1>10

(* The queue of a leader is not empty.                                     *)
LEMMA LeaderIsHead ==
  ASSUME TypeOK, QueueShape, NEW w \in Writers, pc[w] \in Leads
  PROVE  Len(writers_) \in Nat /\ 1 \in 1..Len(writers_) /\ writers_[1] = w /\ InQueue(w)
  <1>1. writers_ # <<>> /\ w = writers_[1]
    BY DEF QueueShape
  <1>2. Len(writers_) \in Nat /\ Len(writers_) # 0
    BY <1>1 DEF TypeOK
  <1> QED BY <1>1, <1>2 DEF InQueue

PcValues == {"idle", "queued", "room", "delayed", "stalled", "logging", "inserting", "failed",
             "sync_error", "flushed", "flushwait", "returned"}

LEMMA WokenType ==
  ASSUME pc \in [Writers -> PcValues]
  PROVE  [w \in Writers |-> Woken(pc[w])] \in [Writers -> PcValues]
  <1> QED BY DEF Woken, PcValues

(* Entries to be flushed are in a memtable the background thread knows of. *)
ImmInv == imm # {} => has_imm

ThreadsInv == TypeOK /\ QueueShape /\ GroupInv /\ WorkInv /\ ImmInv

LEMMA TypeInit == Init => TypeOK
  <1> SUFFICES ASSUME Init PROVE TypeOK
    OBVIOUS
  <1> USE DEF Init
  <1>1. IsGroup
    BY DEF IsGroup
  <1>2. Count \in Nat
    BY <1>1, CountType
  <1>3. writers_ \in Seq(Writers) /\ batch \in Seq(Writers)
    OBVIOUS
  <1>4. /\ pc \in [Writers -> {"idle", "queued", "room", "delayed", "stalled", "logging",
                              "inserting", "failed", "sync_error", "flushed", "flushwait",
                              "returned"}]
        /\ result \in [Writers -> {"none", "ok", "error"}]
    OBVIOUS
  <1>5. inserted \in 0..Count
    BY <1>2
  <1> QED BY <1>3, <1>4, <1>5 DEF TypeOK

(* A group taken from the front of the queue, and none.                    *)
LEMMA FrontIsGroup ==
  ASSUME TypeOK, QueueShape, NEW n \in 1..Len(writers_), batch' = SubSeq(writers_, 1, n)
  PROVE  IsGroup' /\ Len(batch') = n /\ \A i \in 1..n : batch'[i] = writers_[i]
  <1>1. Len(writers_) \in Nat /\ n \in Nat /\ n <= Len(writers_)
        /\ \A i \in 1..n : writers_[i] \in Writers
    BY DEF TypeOK
  <1>2. /\ batch' \in Seq(Writers)
        /\ Len(batch') = IF 1 <= n THEN n - 1 + 1 ELSE 0
        /\ \A i \in 1..n - 1 + 1 : batch'[i] = writers_[1 + i - 1]
    BY <1>1, SubSeqProperties
  <1>3. Len(batch') = n /\ \A i \in 1..n : batch'[i] = writers_[i]
    BY <1>1, <1>2
  <1>4. \A i, j \in 1..n : writers_[i] = writers_[j] => i = j
    BY <1>1 DEF QueueShape
  <1> QED BY <1>2, <1>3, <1>4 DEF IsGroup

LEMMA CountIsNat == IsGroup => Count \in Nat
  BY CountType

LEMMA CountAfter == (IsGroup => Count \in Nat)'
  BY CountIsNat, PTL

LEMMA NoGroupNext == batch' = <<>> => IsGroup'
  BY DEF IsGroup

LEMMA LeadType ==
  ASSUME NEW w, Lead(w)
  PROVE  force' \in BOOLEAN /\ allow_delay' \in BOOLEAN
  <1>1. force' \in BOOLEAN
    BY DEF Lead
  <1>2. allow_delay' \in BOOLEAN
    BY DEF Lead
  <1> QED BY <1>1, <1>2

LEMMA TypeWriterStep ==
  ASSUME ThreadsInv, NEW w \in Writers, WriterStep(w) \/ Enqueue(w)
  PROVE  TypeOK'
  <1> USE DEF ThreadsInv, TypeOK, Woken
  <1>a. Count' = Count \/ batch' # batch
    BY DEF Count
  <1>1. CASE Enqueue(w)
    <2>1. writers_' \in Seq(Writers)
      BY <1>1 DEF Enqueue
    <2>2. force' \in BOOLEAN /\ allow_delay' \in BOOLEAN
      BY <1>1, LeadType DEF Enqueue, leader
    <2> QED BY <1>1, <1>a, <2>1, <2>2 DEF Enqueue, Lead, leader, data, work, manual
  <1>2. CASE WakeUp(w)
    <2>1. Returned(w, result[w]) \in {"flushed", "returned"}
      BY DEF Returned
    <2>2. force' \in BOOLEAN /\ allow_delay' \in BOOLEAN
      BY <1>2, LeadType DEF WakeUp, leader
    <2> QED BY <1>2, <1>a, <2>1, <2>2 DEF WakeUp, Lead, leader, data, work, manual
  <1>3. CASE YieldPreviousError(w)
    <2>1. pc[w] \in Leads
      BY <1>3 DEF YieldPreviousError, AtRoom, Leads
    <2>2. Returned(w, "error") \in {"flushed", "returned"}
      BY DEF Returned
    <2> QED BY <1>3, <1>a, <2>1, <2>2, LeaderIsHead, FinishTakesOff
            DEF YieldPreviousError, FinishAlone, leader, data, work, manual
  <1>4. CASE Delay(w) \/ EndDelay(w) \/ WaitForRoom(w)
    <2>1. CASE Delay(w)
      BY <2>1, <1>a DEF Delay, data, work, manual
    <2>2. CASE EndDelay(w)
      BY <2>2, <1>a DEF EndDelay, leader, data, work, manual
    <2>3. CASE WaitForRoom(w)
      BY <2>3, <1>a DEF WaitForRoom, leader, data, work, manual
    <2> QED BY <1>4, <2>1, <2>2, <2>3
  <1>5. CASE UseRoom(w)
    <2>1. pc[w] \in Leads
      BY <1>5 DEF UseRoom, AtRoom, Leads
    <2>2. Returned(w, "ok") \in {"flushed", "returned"}
      BY DEF Returned
    <2>3. CASE w \in NullWriters
      <3>1. FinishAlone(w, "ok") /\ UNCHANGED <<force, allow_delay, batch, inserted, data, work,
                                                bg_error, scheduled, manual, db, errors>>
        BY <1>5, <2>3 DEF UseRoom
      <3> QED BY <1>a, <2>1, <2>2, <3>1, LeaderIsHead, FinishTakesOff
              DEF FinishAlone, data, work, manual
    <2>4. CASE w \notin NullWriters
      <3>1. Count' \in Nat /\ batch' \in Seq(Writers)
        <4>1. GroupLength \in 1..Len(writers_)
          BY <2>1, LeaderIsHead, GroupLengthFits
        <4>2. IsGroup'
          BY <1>5, <2>4, <4>1, FrontIsGroup DEF UseRoom
        <4> QED BY <4>2, CountAfter DEF IsGroup
      <3> QED BY <1>5, <2>4, <3>1 DEF UseRoom, data, work, manual
    <2> QED BY <2>3, <2>4
  <1>6. CASE SwitchMemTable(w)
    <2>1. pc[w] \in Leads
      BY <1>6 DEF SwitchMemTable, AtRoom, Leads
    <2>2. Returned(w, "error") \in {"flushed", "returned"}
      BY DEF Returned
    <2>3. CASE Fails /\ FinishAlone(w, "error")
      BY <1>6, <1>a, <2>1, <2>2, <2>3, LeaderIsHead, FinishTakesOff
         DEF SwitchMemTable, FinishAlone, Fails, leader, data, work, manual
    <2>4. CASE ~(Fails /\ FinishAlone(w, "error"))
      BY <1>6, <1>a, <2>4 DEF SwitchMemTable, MaybeScheduleCompaction, leader, data, work, manual
    <2> QED BY <2>3, <2>4
  <1>7. CASE AddRecord(w)
    BY <1>7, <1>a DEF AddRecord, Fails, leader, data, work, manual
  <1>8. CASE InsertEntry(w)
    <2>1. Count \in Nat
      BY CountType, GroupIsDistinct
    <2> QED BY <1>8, <1>a, <2>1 DEF InsertEntry, leader, data, work, manual
  <1>9. CASE EndOfGroup(w)
    <2>1. pc[w] \in Leads /\ Len(batch) \in 1..Len(writers_)
      BY <1>9 DEF EndOfGroup, Leads, Writes, GroupInv
    <2>2. Count' \in Nat /\ batch' = <<>> /\ inserted' = 0
      BY <1>9, NoGroupNext, CountAfter DEF EndOfGroup, ClearBatch
    <2>3. Count \in Nat
      BY CountType, GroupIsDistinct
    <2>4. PICK status \in {"ok", "error"} : Finish(w, Len(batch), status)
      BY <1>9 DEF EndOfGroup
    <2>5. /\ writers_' \in Seq(Writers) /\ signaled' \subseteq Writers
          /\ result' \in [Writers -> {"none", "ok", "error"}]
      BY <2>1, <2>4, FinishTakesOff
    <2>6. \A v \in Writers : pc'[v] \in PcValues
      BY <1>9 DEF EndOfGroup, PcValues
    <2>7. pc' \in [Writers -> PcValues]
      BY <1>9, <2>6 DEF EndOfGroup
    <2> QED BY <1>9, <2>2, <2>3, <2>5, <2>7 DEF EndOfGroup, PcValues, data, work, manual
  <1>10. CASE AwaitFlush(w)
    BY <1>10, <1>a DEF AwaitFlush, leader, data, work, manual
  <1> QED BY <1>1, <1>2, <1>3, <1>4, <1>5, <1>6, <1>7, <1>8, <1>9, <1>10 DEF WriterStep

(* What the ends of the background thread's calls do to scheduled.         *)
LEMMA SchedulingType ==
  ASSUME scheduled \in BOOLEAN, MaybeScheduleCompaction \/ EndBackgroundCall
  PROVE  scheduled' \in BOOLEAN
  <1>1. CASE MaybeScheduleCompaction
    BY <1>1 DEF MaybeScheduleCompaction
  <1>2. CASE EndBackgroundCall
    BY <1>2 DEF EndBackgroundCall
  <1> QED BY <1>1, <1>2

LEMMA SignalType ==
  ASSUME pc \in [Writers -> PcValues], caller \in {"idle", "loop", "waiting", "returned"},
         SignalAll
  PROVE  /\ pc' \in [Writers -> PcValues]
         /\ caller' \in {"idle", "loop", "waiting", "returned"}
  BY WokenType DEF SignalAll

LEMMA ChosenInputs ==
  ASSUME l0 \in Nat, BeginCompaction
  PROVE  \E k \in 0..l0, m \in BOOLEAN :
           /\ compaction' = {[inputs |-> k, manual |-> m]}
           /\ m = TRUE => manual_compaction
  <1>1. CASE \E k \in 0..l0 : compaction' = {[inputs |-> k, manual |-> TRUE]} /\ manual_compaction
    BY <1>1
  <1>2. CASE compaction' = {[inputs |-> l0, manual |-> FALSE]}
    <2>1. l0 \in 0..l0 /\ FALSE \in BOOLEAN
      OBVIOUS
    <2> QED BY <1>2, <2>1
  <1> QED BY <1>1, <1>2 DEF BeginCompaction

LEMMA TypeOtherStep ==
  ASSUME ThreadsInv, BackgroundStep \/ CallerStep \/ Destructor \/ UNCHANGED vars
  PROVE  TypeOK'
  <1> USE DEF ThreadsInv, TypeOK
  <1>a. batch' = batch => Count' = Count
    BY DEF Count
  <1>b. pc \in [Writers -> PcValues]
    BY DEF PcValues
  <1>1. CASE BackgroundNothing
    <2>1. EndBackgroundCall /\ SignalAll
      BY <1>1 DEF BackgroundNothing, EndBackgroundCall
    <2>2. manual_compaction' \in BOOLEAN /\ manual_done' \in BOOLEAN
      BY <1>1 DEF BackgroundNothing
    <2>3. pc' \in [Writers -> PcValues] /\ caller' \in {"idle", "loop", "waiting", "returned"}
      BY <1>b, <2>1, SignalType
    <2>4. scheduled' \in BOOLEAN
      BY <2>1, SchedulingType
    <2>5. UNCHANGED <<data, work, bg_error, result, writers_, signaled, leader, rounds, db, errors>>
      BY <1>1 DEF BackgroundNothing
    <2> QED BY <1>a, <2>2, <2>3, <2>4, <2>5 DEF data, work, leader, PcValues
  <1>2. CASE BeginFlush
    BY <1>2, <1>a DEF BeginFlush, leader, data, manual
  <1>3. CASE EndFlush
    <2>1. SignalAll
      BY <1>3 DEF EndFlush, EndBackgroundCall
    <2>2. scheduled' \in BOOLEAN
      BY <1>3, SchedulingType DEF EndFlush
    <2>3. pc' \in [Writers -> PcValues] /\ caller' \in {"idle", "loop", "waiting", "returned"}
      BY <1>b, <2>1, SignalType
    <2>4. l0' \in Nat /\ errors' \in Nat /\ bg_error' \in BOOLEAN
      <3>1. CASE l0' \in {l0, l0 + 1} /\ UNCHANGED <<bg_error, errors>>
        BY <3>1
      <3>2. CASE /\ IF ShuttingDown THEN UNCHANGED errors ELSE Fails
                 /\ bg_error' = TRUE /\ l0' = l0
        BY <3>2 DEF Fails
      <3> QED BY <1>3, <3>1, <3>2 DEF EndFlush
    <2>5. /\ UNCHANGED <<manual_compaction, manual_done, rounds, compaction>>
          /\ UNCHANGED <<result, writers_, signaled, leader, last_sequence, mem, log, db>>
          /\ flushing' = FALSE
      BY <1>3 DEF EndFlush
    <2>6. has_imm' \in BOOLEAN
      BY <1>3 DEF EndFlush
    <2> QED BY <1>a, <2>2, <2>3, <2>4, <2>5, <2>6 DEF leader, PcValues
  <1>4. CASE BeginCompaction
    <2>1. compaction' \subseteq [inputs : Nat, manual : BOOLEAN]
      <3>1. PICK k \in 0..l0, m \in BOOLEAN : compaction' = {[inputs |-> k, manual |-> m]}
        BY <1>4, ChosenInputs
      <3> QED BY <3>1
    <2> QED BY <1>4, <1>a, <2>1 DEF BeginCompaction, leader, data, manual
  <1>5. CASE EndCompaction
    <2>1. PICK c \in compaction :
            /\ \/ /\ l0' = l0 - c.inputs
                  /\ UNCHANGED <<bg_error, errors, manual_done>>
               \/ /\ IF ShuttingDown THEN UNCHANGED errors ELSE Fails
                  /\ bg_error' = TRUE
                  /\ manual_done' = (manual_done \/ c.manual)
                  /\ UNCHANGED l0
            /\ manual_compaction' = (manual_compaction /\ ~c.manual)
            /\ rounds' = IF c.manual THEN rounds + 1 ELSE rounds
      BY <1>5 DEF EndCompaction
    <2>2. c.inputs \in Nat /\ c.inputs <= l0
      BY DEF WorkInv
    <2>3. l0' \in Nat /\ errors' \in Nat /\ rounds' \in Nat
      BY <2>1, <2>2 DEF Fails
    <2>4. bg_error' \in BOOLEAN
      BY <2>1
    <2>5. manual_done' \in BOOLEAN
      BY <2>1
    <2>6. manual_compaction' \in BOOLEAN
      BY <2>1
    <2>7. EndBackgroundCall /\ SignalAll
      BY <1>5 DEF EndCompaction, EndBackgroundCall
    <2>8. pc' \in [Writers -> PcValues] /\ caller' \in {"idle", "loop", "waiting", "returned"}
      BY <1>b, <2>7, SignalType
    <2>9. scheduled' \in BOOLEAN
      BY <2>7, SchedulingType
    <2>10. /\ UNCHANGED <<data, flushing>> /\ compaction' = {}
           /\ UNCHANGED <<result, writers_, signaled, leader, db>>
      BY <1>5 DEF EndCompaction
    <2> QED BY <1>a, <2>3, <2>4, <2>5, <2>6, <2>8, <2>9, <2>10 DEF leader, data, PcValues
  <1>6. CASE StartCompactRange
    BY <1>6, <1>a DEF StartCompactRange, leader, data, work
  <1>7. CASE CompactRangeTurn
    <2>1. scheduled' \in BOOLEAN
      BY <1>7, SchedulingType DEF CompactRangeTurn
    <2>2. /\ manual_compaction' \in BOOLEAN /\ caller' \in {"returned", "waiting"}
          /\ UNCHANGED <<data, work, bg_error>>
          /\ UNCHANGED <<pc, result, writers_, signaled, leader, manual_done, rounds, db, errors>>
      BY <1>7 DEF CompactRangeTurn
    <2> QED BY <1>a, <2>1, <2>2 DEF leader, data, work
  <1>8. CASE Shutdown
    BY <1>8, <1>a DEF Shutdown, leader, data, work, manual
  <1>9. CASE Close
    BY <1>9, <1>a DEF Close, leader, data, work, manual
  <1>10. CASE UNCHANGED vars
    BY <1>10, <1>a DEF vars, leader, data, work, manual
  <1> QED BY <1>1, <1>2, <1>3, <1>4, <1>5, <1>6, <1>7, <1>8, <1>9, <1>10
          DEF BackgroundStep, CallerStep, Destructor

LEMMA WorkStep ==
  ASSUME TypeOK, WorkInv, [Next]_vars
  PROVE  WorkInv'
  <1> USE DEF TypeOK, WorkInv
  <1>1. ASSUME NEW w \in Writers, WriterStep(w) \/ Enqueue(w) PROVE WorkInv'
    <2>1. UNCHANGED work
      BY <1>1 DEF WriterStep, WakeUp, YieldPreviousError, Delay, EndDelay, UseRoom, WaitForRoom,
                  SwitchMemTable, AddRecord, InsertEntry, EndOfGroup, AwaitFlush, Enqueue
    <2>2. scheduled => scheduled'
      BY <1>1 DEF WriterStep, WakeUp, YieldPreviousError, Delay, EndDelay, UseRoom, WaitForRoom,
                  SwitchMemTable, AddRecord, InsertEntry, EndOfGroup, AwaitFlush, Enqueue,
                  MaybeScheduleCompaction
    <2> QED BY <2>1, <2>2 DEF work
  <1>2. CASE BackgroundNothing
    BY <1>2 DEF BackgroundNothing, BackgroundIdle, work
  <1>3. CASE BeginFlush
    BY <1>3 DEF BeginFlush
  <1>4. CASE EndFlush
    <2>1. l0' \in Nat /\ l0' >= l0
      BY <1>4 DEF EndFlush
    <2>2. compaction' = compaction /\ flushing' = FALSE
      BY <1>4 DEF EndFlush
    <2>3. compaction # {} => scheduled' = scheduled
      BY <1>4 DEF EndFlush
    <2> QED BY <2>1, <2>2, <2>3
  <1>5. CASE BeginCompaction
    <2>1. \E k \in 0..l0, m \in BOOLEAN : compaction' = {[inputs |-> k, manual |-> m]}
      BY <1>5, ChosenInputs
    <2>2. l0' = l0 /\ scheduled' = scheduled /\ flushing' = flushing /\ scheduled
      BY <1>5 DEF BeginCompaction
    <2> QED BY <2>1, <2>2
  <1>6. CASE EndCompaction
    BY <1>6 DEF EndCompaction
  <1>7. CASE StartCompactRange
    BY <1>7 DEF StartCompactRange, work
  <1>8. CASE CompactRangeTurn
    BY <1>8 DEF CompactRangeTurn, MaybeScheduleCompaction, work
  <1>9. CASE Destructor \/ UNCHANGED vars
    BY <1>9 DEF Destructor, Shutdown, Close, vars, work
  <1> QED BY <1>1, <1>2, <1>3, <1>4, <1>5, <1>6, <1>7, <1>8, <1>9
          DEF Next, BackgroundStep, CallerStep

LEMMA ImmStep ==
  ASSUME ImmInv, [Next]_vars
  PROVE  ImmInv'
  <1> USE DEF ImmInv
  <1>1. ASSUME UNCHANGED <<imm, has_imm>> PROVE ImmInv'
    BY <1>1
  <1>2. ASSUME NEW w \in Writers, WriterStep(w) \/ Enqueue(w) PROVE ImmInv'
    <2>1. CASE SwitchMemTable(w)
      BY <2>1 DEF SwitchMemTable
    <2>2. CASE ~SwitchMemTable(w)
      BY <1>1, <1>2, <2>2 DEF WriterStep, WakeUp, YieldPreviousError, Delay, EndDelay, UseRoom,
         WaitForRoom, AddRecord, InsertEntry, EndOfGroup, AwaitFlush, Enqueue, data
    <2> QED BY <2>1, <2>2
  <1>3. CASE EndFlush
    BY <1>3 DEF EndFlush
  <1>4. CASE (BackgroundStep /\ ~EndFlush) \/ CallerStep \/ Destructor \/ UNCHANGED vars
    BY <1>1, <1>4 DEF BackgroundStep, CallerStep, Destructor, BackgroundNothing, BeginFlush,
       BeginCompaction, EndCompaction, StartCompactRange, CompactRangeTurn, Shutdown, Close,
       vars, data
  <1> QED BY <1>2, <1>3, <1>4 DEF Next

-----------------------------------------------------------------------------
(* The queue and its groups *)

(* A step that leaves the queue and the results alone.                     *)
LEMMA QueueSame ==
  ASSUME TypeOK, QueueShape, UNCHANGED <<writers_, result>>,
         \A w \in Writers :
           \/ pc'[w] = pc[w]
           \/ pc[w] \in Leads /\ pc'[w] \in Leads
           \/ InQueue(w) /\ pc[w] = "queued" /\ pc'[w] \in Leads \cup {"queued"}
              /\ writers_ # <<>> /\ w = writers_[1]
           \/ result[w] # "none" /\ pc[w] # "idle"
              /\ \/ pc'[w] = "returned"
                 \/ pc'[w] \in {"flushed", "flushwait"} /\ w \in NullWriters
  PROVE  QueueShape'
  <1>1. \A w : InQueue(w)' <=> InQueue(w)
    BY DEF InQueue
  <1>2. \A w \in Writers : result[w] # "none" => ~InQueue(w) /\ pc[w] \notin Leads
    BY LeaderIsHead DEF QueueShape
  <1> QED BY <1>1, <1>2 DEF QueueShape, Leads

(* A step that takes the front of the queue off.                           *)
LEMMA QueueFinish ==
  ASSUME TypeOK, QueueShape, NEW w \in Writers, pc[w] \in Leads,
         NEW n \in 1..Len(writers_), NEW status \in {"ok", "error"}, Finish(w, n, status),
         pc'[w] = "returned" \/ (pc'[w] = "flushed" /\ w \in NullWriters),
         \A v \in Writers \ {w} : pc'[v] = pc[v] \/ pc'[v] = Woken(pc[v])
  PROVE  QueueShape'
  <1>1. /\ writers_[1] = w /\ InQueue(w) /\ Len(writers_) \in Nat /\ n \in Nat /\ n <= Len(writers_)
        /\ 1 \in 1..n
    BY LeaderIsHead
  <1>2. /\ Len(writers_') = Len(writers_) - n
        /\ \A i \in 1..Len(writers_') : i + n \in 1..Len(writers_) /\ writers_'[i] = writers_[i + n]
    BY <1>1, FinishTakesOff
  <1>3. \A v \in Writers : \/ result'[v] = result[v] /\ \A i \in 1..n : writers_[i] # v
                           \/ result'[v] = status /\ \E i \in 1..n : writers_[i] = v
    BY FinishTakesOff
  <1>4. \A i, j \in 1..Len(writers_') : writers_'[i] = writers_'[j] => i = j
    BY <1>1, <1>2 DEF QueueShape
  <1>5. ASSUME NEW v \in Writers
        PROVE  InQueue(v)' <=> InQueue(v) /\ \A i \in 1..n : writers_[i] # v
    <2>1. ASSUME NEW i \in 1..Len(writers_'), writers_'[i] = v
          PROVE  InQueue(v) /\ \A j \in 1..n : writers_[j] # v
      BY <1>1, <1>2, <2>1 DEF QueueShape, InQueue
    <2>2. ASSUME NEW i \in 1..Len(writers_), writers_[i] = v, \A j \in 1..n : writers_[j] # v
          PROVE  \E j \in 1..Len(writers_') : writers_'[j] = v
      <3>1. i \in Nat /\ i > n
        BY <1>1, <2>2
      <3>2. i - n \in 1..Len(writers_') /\ (i - n) + n = i
        BY <1>1, <1>2, <3>1
      <3> QED BY <1>2, <2>2, <3>2
    <2> QED BY <2>1, <2>2 DEF InQueue
  <1>6. ASSUME NEW v \in Writers, v # w
        PROVE  pc[v] \notin Leads
    BY <1>1, <1>6 DEF QueueShape
  <1>7. ASSUME NEW v \in Writers, v # w
        PROVE  \/ pc'[v] = pc[v]
               \/ pc[v] = "flushwait" /\ pc'[v] = "flushed"
    BY <1>6, <1>7 DEF Woken, Leads
  <1>8. ~InQueue(w)' /\ result'[w] = status
    BY <1>1, <1>3, <1>5
  <1>9. \A i \in 1..n : InQueue(writers_[i]) /\ writers_[i] \in Writers
    BY <1>1 DEF InQueue, TypeOK
  <1> QED BY <1>3, <1>4, <1>5, <1>6, <1>7, <1>8, <1>9 DEF QueueShape, Leads

LEMMA QueueEnqueue ==
  ASSUME TypeOK, QueueShape, NEW w \in Writers, Enqueue(w)
  PROVE  QueueShape'
  <1>1. pc[w] = "idle" /\ result[w] = "none" /\ ~InQueue(w) /\ Len(writers_) \in Nat
    BY DEF Enqueue, QueueShape, TypeOK, Leads
  <1>2. /\ writers_' # <<>> /\ Len(writers_') = Len(writers_) + 1
        /\ \A i \in 1..Len(writers_) : writers_'[i] = writers_[i]
        /\ writers_'[Len(writers_) + 1] = w
    BY AppendProperties DEF Enqueue, TypeOK
  <1>3. \A i \in 1..Len(writers_') : i \in 1..Len(writers_) \/ i = Len(writers_) + 1
    BY <1>1, <1>2
  <1>4. \A v \in Writers : InQueue(v)' <=> InQueue(v) \/ v = w
    BY <1>1, <1>2, <1>3 DEF InQueue
  <1>5. \A i, j \in 1..Len(writers_') : writers_'[i] = writers_'[j] => i = j
    BY <1>1, <1>2, <1>3 DEF QueueShape, InQueue
  <1>6. writers_ # <<>> => writers_'[1] = writers_[1]
    BY <1>1, <1>2 DEF TypeOK
  <1>7. writers_ = <<>> => writers_'[1] = w
    BY <1>2
  <1>8. /\ result' = result /\ \A v \in Writers : v # w => pc'[v] = pc[v]
        /\ pc'[w] \in {"queued", "room"} /\ (pc'[w] = "room" => writers_ = <<>>)
    BY DEF Enqueue, Lead, TypeOK
  <1>9. writers_ = <<>> => \A v \in Writers : pc[v] \notin Leads
    BY DEF QueueShape
  <1> QED BY <1>1, <1>2, <1>4, <1>5, <1>6, <1>7, <1>8, <1>9 DEF QueueShape, Leads

LEMMA QueueWriterStep ==
  ASSUME ThreadsInv, NEW w \in Writers, WriterStep(w)
  PROVE  QueueShape'
  <1> USE DEF ThreadsInv
  <1>1. pc \in [Writers -> PcValues]
    BY DEF TypeOK, PcValues
  <1>2. CASE WakeUp(w)
    <2>1. CASE result[w] # "none"
      <3>1. result[w] = "ok" \/ result[w] = "error"
        BY <2>1 DEF TypeOK
      <3>2. \/ pc'[w] = "returned"
            \/ pc'[w] = "flushed" /\ w \in NullWriters
        BY <1>1, <1>2, <2>1 DEF WakeUp, Returned
      <3> QED BY <1>1, <1>2, <2>1, <3>2, QueueSame DEF WakeUp
    <2>2. CASE result[w] = "none"
      <3>1. InQueue(w) /\ pc[w] = "queued"
        BY <1>2, <2>2 DEF WakeUp, QueueShape
      <3>2. writers_ # <<>> /\ Head(writers_) = writers_[1]
        BY <3>1 DEF InQueue, TypeOK
      <3>3. \A v \in Writers : \/ pc'[v] = pc[v]
                               \/ v = w /\ pc'[v] = "room" /\ w = writers_[1]
        BY <1>1, <1>2, <2>2, <3>2 DEF WakeUp, Lead
      <3> QED BY <1>2, <3>1, <3>2, <3>3, QueueSame DEF WakeUp, Leads
    <2> QED BY <2>1, <2>2
  <1>3. CASE (FinishAlone(w, "error") \/ FinishAlone(w, "ok")) /\ pc[w] = "room"
    <2>1. PICK status \in {"ok", "error"} : FinishAlone(w, status)
      BY <1>3
    <2>2. pc[w] \in Leads
      BY <1>3 DEF Leads
    <2>3. 1 \in 1..Len(writers_)
      BY <2>2, LeaderIsHead
    <2>4. pc'[w] = "returned" \/ (pc'[w] = "flushed" /\ w \in NullWriters)
      BY <1>1, <2>1 DEF FinishAlone, Returned
    <2>5. \A v \in Writers \ {w} : pc'[v] = pc[v]
      BY <1>1, <2>1 DEF FinishAlone
    <2> QED BY <2>1, <2>2, <2>3, <2>4, <2>5, QueueFinish DEF FinishAlone
  <1>4. CASE Delay(w) \/ EndDelay(w) \/ WaitForRoom(w)
    BY <1>1, <1>4, QueueSame DEF Delay, EndDelay, WaitForRoom, AtRoom, Leads
  <1>5. CASE UseRoom(w)
    <2>1. CASE FinishAlone(w, "ok")
      BY <1>3, <1>5, <2>1 DEF UseRoom, AtRoom
    <2>2. CASE w \notin NullWriters
      BY <1>1, <1>5, <2>2, QueueSame DEF UseRoom, AtRoom, Leads
    <2> QED BY <1>5, <2>1, <2>2 DEF UseRoom
  <1>6. CASE SwitchMemTable(w)
    <2>1. CASE FinishAlone(w, "error")
      BY <1>3, <1>6, <2>1 DEF SwitchMemTable, AtRoom
    <2>2. CASE UNCHANGED <<pc, result, writers_, signaled, errors>>
      BY <2>2, QueueSame
    <2> QED BY <1>6, <2>1, <2>2 DEF SwitchMemTable
  <1>7. CASE AddRecord(w)
    BY <1>1, <1>7, QueueSame DEF AddRecord, Leads
  <1>8. CASE InsertEntry(w)
    BY <1>8, QueueSame DEF InsertEntry
  <1>9. CASE EndOfGroup(w)
    <2>1. pc[w] \in Leads /\ Len(batch) \in 1..Len(writers_)
      BY <1>9 DEF EndOfGroup, Leads, Writes, GroupInv
    <2>2. PICK status \in {"ok", "error"} : Finish(w, Len(batch), status)
      BY <1>9 DEF EndOfGroup
    <2>3. pc'[w] = "returned" /\ \A v \in Writers \ {w} : pc'[v] = pc[v] \/ pc'[v] = Woken(pc[v])
      BY <1>1, <1>9 DEF EndOfGroup
    <2> QED BY <2>1, <2>2, <2>3, QueueFinish
  <1>10. CASE AwaitFlush(w)
    <2>1. w \in NullWriters /\ ~InQueue(w) /\ result[w] # "none"
      BY <1>10 DEF AwaitFlush, QueueShape, Leads
    <2>2. UNCHANGED writers_ /\ pc[w] = "flushed"
      BY <1>10 DEF AwaitFlush
    <2>3. \A v \in Writers : v # w => pc'[v] = pc[v] /\ result'[v] = result[v]
      BY <1>1, <1>10 DEF AwaitFlush, TypeOK
    <2>4. result'[w] # "none" /\ pc'[w] \in {"flushwait", "returned"}
      BY <1>1, <1>10, <2>1 DEF AwaitFlush, TypeOK
    <2>5. \A v \in Writers : InQueue(v)' <=> InQueue(v)
      BY <2>2 DEF InQueue
    <2> QED BY <2>1, <2>2, <2>3, <2>4, <2>5 DEF QueueShape, Leads
  <1>11. CASE YieldPreviousError(w)
    BY <1>3, <1>11 DEF YieldPreviousError, AtRoom
  <1> QED BY <1>2, <1>4, <1>5, <1>6, <1>7, <1>8, <1>9, <1>10, <1>11 DEF WriterStep

(* The other threads only wake writers.                                    *)
LEMMA OthersOnlyWake ==
  ASSUME TypeOK, BackgroundStep \/ CallerStep \/ Destructor \/ UNCHANGED vars
  PROVE  /\ UNCHANGED <<result, writers_, signaled, leader, last_sequence, mem, log>>
         /\ \A w \in Writers : pc'[w] = pc[w] \/ pc'[w] = Woken(pc[w])
  <1>1. UNCHANGED <<result, writers_, signaled, leader, last_sequence, mem, log>>
    BY DEF BackgroundStep, CallerStep, Destructor, BackgroundNothing, BeginFlush, EndFlush,
           BeginCompaction, EndCompaction, StartCompactRange, CompactRangeTurn, Shutdown, Close,
           vars, leader, data
  <1>2. \A w \in Writers : pc'[w] = pc[w] \/ pc'[w] = Woken(pc[w])
    BY DEF BackgroundStep, CallerStep, Destructor, BackgroundNothing, BeginFlush, EndFlush,
           BeginCompaction, EndCompaction, StartCompactRange, CompactRangeTurn, Shutdown, Close,
           vars, EndBackgroundCall, SignalAll
  <1> QED BY <1>1, <1>2

LEMMA QueueStep == ThreadsInv /\ [Next]_vars => QueueShape'
  <1> SUFFICES ASSUME ThreadsInv, [Next]_vars PROVE QueueShape'
    OBVIOUS
  <1> USE DEF ThreadsInv
  <1>1. CASE BackgroundStep \/ CallerStep \/ Destructor \/ UNCHANGED vars
    <2>1. ASSUME NEW w \in Writers
          PROVE  \/ pc'[w] = pc[w]
                 \/ pc[w] = "stalled" /\ pc'[w] = "room"
                 \/ pc[w] = "flushwait" /\ pc'[w] = "flushed"
      BY <1>1, OthersOnlyWake DEF Woken
    <2>2. \A w \in Writers : pc[w] = "flushwait" => w \in NullWriters /\ result[w] # "none"
      BY DEF QueueShape, Leads
    <2> QED BY <1>1, <2>1, <2>2, OthersOnlyWake, QueueSame DEF Leads
  <1> QED BY <1>1, QueueEnqueue, QueueWriterStep DEF Next

(* There is one leader.                                                    *)
LEMMA OneLeader ==
  ASSUME TypeOK, QueueShape, NEW w \in Writers, pc[w] \in Leads, NEW v \in Writers, pc[v] \in Leads
  PROVE  v = w
  BY LeaderIsHead

(* A step after which nobody writes a group.                               *)
LEMMA GroupNone ==
  ASSUME \A v \in Writers : pc'[v] \notin Writes, batch' = <<>>, inserted' = 0
  PROVE  GroupInv'
  BY DEF GroupInv

(* A step that leaves the group alone.                                     *)
LEMMA GroupSame ==
  ASSUME TypeOK, GroupInv, UNCHANGED <<batch, inserted>>,
         /\ Len(writers_') >= Len(writers_) /\ Len(writers_') \in Nat
         /\ \A i \in 1..Len(writers_) : writers_'[i] = writers_[i],
         \A v \in Writers : \/ pc'[v] = pc[v]
                            \/ pc[v] \notin Writes /\ pc'[v] \notin Writes
                            \/ pc[v] = "logging" /\ pc'[v] \in Writes
  PROVE  GroupInv'
  <1>1. \A v \in Writers : pc'[v] \in Writes <=> pc[v] \in Writes
    BY DEF Writes
  <1>2. \A v \in Writers : pc[v] \in Writes =>
          /\ Len(batch) \in Nat /\ Len(writers_) \in Nat /\ Len(batch) <= Len(writers_)
          /\ Len(batch) \in 1..Len(writers_')
          /\ \A i \in 1..Len(batch) : writers_'[i] = writers_[i]
    BY DEF GroupInv, TypeOK
  <1>3. \A v \in Writers : pc[v] \in Writes => inserted' = 0 \/ pc'[v] = "inserting"
    BY DEF GroupInv, Writes
  <1> QED BY <1>1, <1>2, <1>3 DEF GroupInv

LEMMA GroupStep == ThreadsInv /\ [Next]_vars => GroupInv'
  <1> SUFFICES ASSUME ThreadsInv, [Next]_vars PROVE GroupInv'
    OBVIOUS
  <1> USE DEF ThreadsInv
  <1>a. /\ pc \in [Writers -> PcValues] /\ Len(writers_) \in Nat
        /\ "room" \in Leads /\ "room" \notin Writes /\ Writes \subseteq Leads
    BY DEF TypeOK, PcValues, Leads, Writes
  <1>1. CASE BackgroundStep \/ CallerStep \/ Destructor \/ UNCHANGED vars
    <2>1. \A w \in Writers : pc'[w] = pc[w] \/ (pc[w] \notin Writes /\ pc'[w] \notin Writes)
      BY <1>1, OthersOnlyWake DEF Woken, Writes
    <2> QED BY <1>1, <1>a, <2>1, OthersOnlyWake, GroupSame DEF leader
  <1>2. ASSUME NEW w \in Writers, Enqueue(w) PROVE GroupInv'
    <2>1. /\ Len(writers_') = Len(writers_) + 1
          /\ \A i \in 1..Len(writers_) : writers_'[i] = writers_[i]
      BY <1>2, AppendProperties DEF Enqueue, TypeOK
    <2>2. \A v \in Writers : pc'[v] = pc[v] \/ (pc[v] \notin Writes /\ pc'[v] \notin Writes)
      BY <1>2, <1>a DEF Enqueue, Lead, Writes
    <2>3. UNCHANGED <<batch, inserted>>
      BY <1>2 DEF Enqueue, Lead, leader
    <2> QED BY <1>a, <2>1, <2>2, <2>3, GroupSame
  <1>3. ASSUME NEW w \in Writers, pc[w] = "room", FinishAlone(w, "error") \/ FinishAlone(w, "ok"),
               UNCHANGED <<batch, inserted>>
        PROVE  GroupInv'
    <2>1. \A v \in Writers : pc[v] \notin Writes
      BY <1>3, <1>a, OneLeader
    <2>2. \A v \in Writers : pc'[v] \notin Writes
      BY <1>3, <1>a, <2>1 DEF FinishAlone, Returned, Writes
    <2> QED BY <1>3, <2>1, <2>2, GroupNone DEF GroupInv
  <1>4. ASSUME NEW w \in Writers, WakeUp(w) \/ Delay(w) \/ EndDelay(w) \/ WaitForRoom(w) \/ AwaitFlush(w)
        PROVE  GroupInv'
    <2>1. UNCHANGED <<writers_, batch, inserted>>
      BY <1>4 DEF WakeUp, Delay, EndDelay, WaitForRoom, AwaitFlush, Lead, leader
    <2>2. pc[w] \notin Writes /\ pc'[w] \notin Writes
      BY <1>4, <1>a DEF WakeUp, Delay, EndDelay, WaitForRoom, AwaitFlush, AtRoom, Lead, Returned, Writes
    <2>3. \A v \in Writers : v # w => pc'[v] = pc[v]
      BY <1>4, <1>a DEF WakeUp, Delay, EndDelay, WaitForRoom, AwaitFlush, Lead
    <2> QED BY <1>a, <2>1, <2>2, <2>3, GroupSame
  <1>5. ASSUME NEW w \in Writers, YieldPreviousError(w) PROVE GroupInv'
    BY <1>3, <1>5 DEF YieldPreviousError, AtRoom, leader
  <1>6. ASSUME NEW w \in Writers, UseRoom(w) PROVE GroupInv'
    <2>1. CASE w \in NullWriters
      BY <1>3, <1>6, <2>1 DEF UseRoom, AtRoom
    <2>2. CASE w \notin NullWriters
      <3>1. /\ batch' = SubSeq(writers_, 1, GroupLength) /\ inserted' = 0
            /\ UNCHANGED writers_ /\ pc' = [pc EXCEPT ![w] = "logging"] /\ pc[w] = "room"
        BY <1>6, <2>2 DEF UseRoom, AtRoom
      <3>2. writers_ # <<>> /\ writers_[1] = w
        BY <1>a, <3>1 DEF QueueShape
      <3>3. /\ GroupLength \in 1..Len(writers_)
            /\ \A i \in 2..GroupLength : writers_[i] \in SyncWriters => w \in SyncWriters
        BY <3>2, GroupLengthFits DEF TypeOK
      <3>4. Len(batch') = GroupLength /\ \A i \in 1..GroupLength : batch'[i] = writers_[i]
        BY <3>1, <3>3, FrontIsGroup
      <3>5. \A i \in 1..GroupLength : i = 1 \/ i \in 2..GroupLength
        BY <1>a, <3>3
      <3>6. \A v \in Writers : v # w => pc'[v] \notin Writes
        BY <1>a, <3>1, OneLeader
      <3>7. pc'[w] = "logging"
        BY <1>a, <3>1
      <3> QED BY <2>2, <3>1, <3>2, <3>3, <3>4, <3>5, <3>6, <3>7 DEF GroupInv, Writes
    <2> QED BY <2>1, <2>2
  <1>7. ASSUME NEW w \in Writers, SwitchMemTable(w) PROVE GroupInv'
    <2>1. CASE FinishAlone(w, "error")
      BY <1>3, <1>7, <2>1 DEF SwitchMemTable, AtRoom
    <2>2. CASE UNCHANGED <<pc, result, writers_, signaled, errors>>
      BY <1>7, <1>a, <2>2, GroupSame DEF SwitchMemTable
    <2> QED BY <1>7, <2>1, <2>2 DEF SwitchMemTable
  <1>8. ASSUME NEW w \in Writers, AddRecord(w) PROVE GroupInv'
    <2>1. UNCHANGED <<writers_, batch, inserted>> /\ pc[w] = "logging"
      BY <1>8 DEF AddRecord, leader
    <2>2. pc'[w] \in Writes /\ \A v \in Writers : v # w => pc'[v] = pc[v]
      BY <1>8, <1>a DEF AddRecord, Writes
    <2> QED BY <1>a, <2>1, <2>2, GroupSame
  <1>9. ASSUME NEW w \in Writers, InsertEntry(w) PROVE GroupInv'
    <2>1. UNCHANGED <<writers_, batch, pc>> /\ pc[w] = "inserting"
      BY <1>9 DEF InsertEntry
    <2>2. \A v \in Writers : pc[v] \in Writes => v = w
      BY <1>a, <2>1, OneLeader DEF Leads
    <2> QED BY <2>1, <2>2 DEF GroupInv, Writes
  <1>10. ASSUME NEW w \in Writers, EndOfGroup(w) PROVE GroupInv'
    <2>1. pc[w] \in Writes
      BY <1>10 DEF EndOfGroup, Writes
    <2>2. \A v \in Writers : v # w => pc[v] \notin Writes
      BY <1>a, <2>1, OneLeader
    <2>3. \A v \in Writers : v # w => pc'[v] = pc[v] \/ pc'[v] = Woken(pc[v])
      BY <1>10, <1>a DEF EndOfGroup
    <2>4. pc'[w] = "returned"
      BY <1>10, <1>a DEF EndOfGroup
    <2>5. \A v \in Writers : pc'[v] \notin Writes
      BY <2>2, <2>3, <2>4 DEF Woken, Writes
    <2> QED BY <1>10, <2>5, GroupNone DEF EndOfGroup, ClearBatch
  <1> QED BY <1>1, <1>2, <1>4, <1>5, <1>6, <1>7, <1>8, <1>9, <1>10 DEF Next, WriterStep

-----------------------------------------------------------------------------
(* The queue and the background thread                                     *)

LEMMA ThreadsInit == Init => ThreadsInv /\ WorkIsScheduled
  <1> SUFFICES ASSUME Init PROVE ThreadsInv /\ WorkIsScheduled
    OBVIOUS
  <1>1. TypeOK
    BY TypeInit
  <1>2. QueueShape
    BY DEF Init, QueueShape, InQueue, Leads
  <1>3. GroupInv
    BY DEF Init, GroupInv, Writes
  <1>4. WorkInv
    BY DEF Init, WorkInv
  <1>5. ImmInv
    BY DEF Init, ImmInv
  <1>6. WorkIsScheduled
    BY TriggerAssumption DEF Init, WorkIsScheduled, TriggerAssumption
  <1> QED BY <1>1, <1>2, <1>3, <1>4, <1>5, <1>6 DEF ThreadsInv

LEMMA ThreadsStep == ThreadsInv /\ [Next]_vars => ThreadsInv'
  <1> SUFFICES ASSUME ThreadsInv, [Next]_vars PROVE ThreadsInv'
    OBVIOUS
  <1>1. TypeOK'
    BY TypeWriterStep, TypeOtherStep DEF Next
  <1>2. QueueShape' /\ GroupInv'
    BY QueueStep, GroupStep
  <1>3. WorkInv'
    BY WorkStep DEF ThreadsInv
  <1>4. ImmInv'
    BY ImmStep DEF ThreadsInv
  <1> QED BY <1>1, <1>2, <1>3, <1>4 DEF ThreadsInv

LEMMA ScheduledStep == ThreadsInv /\ WorkIsScheduled /\ [Next]_vars => WorkIsScheduled'
  <1> SUFFICES ASSUME ThreadsInv, WorkIsScheduled, [Next]_vars PROVE WorkIsScheduled'
    OBVIOUS
  <1> USE DEF WorkIsScheduled, ShuttingDown
  <1>a. db \in {"open", "closing", "closed"}
    BY DEF ThreadsInv, TypeOK
  <1>1. ASSUME db' = db, MaybeScheduleCompaction \/ EndBackgroundCall PROVE WorkIsScheduled'
    BY <1>1 DEF MaybeScheduleCompaction, EndBackgroundCall
  <1>2. ASSUME UNCHANGED <<has_imm, manual_compaction, l0, scheduled, db>>, bg_error => bg_error'
        PROVE  WorkIsScheduled'
    BY <1>2
  <1>3. ASSUME NEW w \in Writers, WriterStep(w) \/ Enqueue(w) PROVE WorkIsScheduled'
    <2>1. CASE SwitchMemTable(w)
      <3>1. CASE MaybeScheduleCompaction
        BY <1>1, <2>1, <3>1 DEF SwitchMemTable
      <3>2. CASE UNCHANGED <<force, imm, has_imm, mem, imm_log, log, work, bg_error, scheduled, manual, db>>
        BY <1>2, <3>2 DEF work, manual
      <3> QED BY <2>1, <3>1, <3>2 DEF SwitchMemTable
    <2>2. CASE ~SwitchMemTable(w)
      <3>1. UNCHANGED <<has_imm, manual_compaction, l0, scheduled, db>>
        BY <1>3, <2>2 DEF WriterStep, WakeUp, YieldPreviousError, Delay, EndDelay, UseRoom,
           WaitForRoom, AddRecord, InsertEntry, EndOfGroup, AwaitFlush, Enqueue, data, work, manual
      <3>2. bg_error => bg_error'
        BY <1>3, <2>2 DEF WriterStep, WakeUp, YieldPreviousError, Delay, EndDelay, UseRoom,
           WaitForRoom, AddRecord, InsertEntry, EndOfGroup, AwaitFlush, Enqueue
      <3> QED BY <1>2, <3>1, <3>2
    <2> QED BY <2>1, <2>2
  <1>4. CASE BackgroundNothing
    BY <1>1, <1>4 DEF BackgroundNothing
  <1>5. CASE BeginFlush \/ BeginCompaction
    BY <1>2, <1>5 DEF BeginFlush, BeginCompaction, data, manual
  <1>6. CASE EndFlush
    <2>1. CASE compaction = {}
      BY <1>1, <1>6, <2>1 DEF EndFlush
    <2>2. CASE compaction # {}
      BY <1>6, <2>2 DEF EndFlush, ThreadsInv, WorkInv
    <2> QED BY <2>1, <2>2
  <1>7. CASE EndCompaction
    BY <1>1, <1>7 DEF EndCompaction
  <1>8. CASE StartCompactRange
    BY <1>2, <1>8 DEF StartCompactRange, data, work
  <1>9. CASE CompactRangeTurn
    BY <1>1, <1>9 DEF CompactRangeTurn, data, work
  <1>10. CASE Destructor
    BY <1>10 DEF Destructor, Shutdown, Close
  <1>11. CASE UNCHANGED vars
    BY <1>2, <1>11 DEF vars, data, work, manual
  <1> QED BY <1>3, <1>4, <1>5, <1>6, <1>7, <1>8, <1>9, <1>10, <1>11
          DEF Next, BackgroundStep, CallerStep

(* Whatever threads wait for is being worked on: there is no work, and no  *)
(* state without an error, in which the background thread is not scheduled *)
(* (MaybeScheduleCompaction is called wherever work appears).              *)
THEOREM QueueIsRight == Spec => []QueueInv
  <1>1. Init => ThreadsInv /\ WorkIsScheduled
    BY ThreadsInit
  <1>2. (ThreadsInv /\ WorkIsScheduled) /\ [Next]_vars => (ThreadsInv /\ WorkIsScheduled)'
    BY ThreadsStep, ScheduledStep
  <1>3. ThreadsInv /\ WorkIsScheduled => QueueInv
    BY DEF ThreadsInv, QueueInv
  <1> QED BY <1>1, <1>2, <1>3, PTL DEF Spec

(* The invariant the other theorems build on: a writer is in the queue     *)
(* exactly from its call until it has a status and only its head leads;    *)
(* the group being written is the front of the queue, with a batch that    *)
(* wants a sync only under a leader that does; the background thread works *)
(* only while it is scheduled (BuildBatchGroup, Write, BackgroundCall).    *)
THEOREM ThreadsAreRight == Spec => []ThreadsInv
  <1>1. Init => ThreadsInv
    BY ThreadsInit
  <1> QED BY <1>1, ThreadsStep, PTL DEF Spec

-----------------------------------------------------------------------------
(* What is stored                                                          *)

(* A step that stores nothing and acknowledges nothing.                    *)
LEMMA EntriesSame ==
  ASSUME EntriesInv, Stored' = Stored, last_sequence' = last_sequence,
         UNCHANGED <<batch, inserted>> \/ (inserted = 0 /\ inserted' = 0),
         \A w \in Writers \ NullWriters : result'[w] = "ok" <=> result[w] = "ok"
  PROVE  EntriesInv'
  <1>1. {Entry(k) : k \in 1..inserted}' = {Entry(k) : k \in 1..inserted}
    <2>1. CASE inserted = 0 /\ inserted' = 0
      <3>1. 1..inserted = {} /\ 1..inserted' = {}
        BY <2>1
      <3> QED BY <3>1
    <2>2. CASE UNCHANGED <<batch, inserted>>
      BY <2>2 DEF Entry, WithBatch
    <2> QED BY <2>1, <2>2
  <1>2. \A w : EntriesOf(w, Stored)' = EntriesOf(w, Stored)
    BY DEF EntriesOf
  <1>3. \A w : EntriesOf(w, {Entry(k) : k \in 1..inserted})'
               = EntriesOf(w, {Entry(k) : k \in 1..inserted})
    BY <1>1 DEF EntriesOf
  <1> HIDE DEF Stored
  <1> QED BY <1>2, <1>3 DEF EntriesInv

(* Whose entries the leader has inserted.                                  *)
LEMMA InsertedAre ==
  ASSUME ThreadsInv
  PROVE  /\ inserted \in Nat /\ Count \in Nat /\ inserted <= Count /\ last_sequence \in Nat
         /\ \A k \in 1..Count : /\ Entry(k) \in [writer : Writers, seq : Nat]
                                /\ Entry(k).seq = last_sequence + k
                                /\ Entry(k).writer \in Batched
         /\ IsGroup
  <1>1. IsGroup /\ last_sequence \in Nat
    BY GroupIsDistinct DEF ThreadsInv, TypeOK
  <1>2. Count \in Nat
    BY <1>1, CountType
  <1>3. inserted \in 0..Count
    BY DEF ThreadsInv, TypeOK
  <1> QED BY <1>1, <1>2, <1>3, EntryBelongs

LEMMA EntriesInsert ==
  ASSUME ThreadsInv, EntriesInv, NEW w \in Writers, InsertEntry(w)
  PROVE  EntriesInv'
  <1> DEFINE e == Entry(inserted + 1)
             A == {Entry(k) : k \in 1..inserted}
  <1>1. /\ pc[w] = "inserting" /\ inserted + 1 \in 1..Count
        /\ mem' = mem \cup {e} /\ inserted' = inserted + 1
        /\ UNCHANGED <<pc, result, batch, last_sequence, imm, tables>>
    BY InsertedAre DEF InsertEntry
  <1>2. /\ e \in [writer : Writers, seq : Nat] /\ e.writer \in Batched
        /\ e.seq = last_sequence + (inserted + 1)
    BY <1>1, InsertedAre
  <1>3. result[e.writer] # "ok"
    <2>1. PICK i \in 1..Len(batch) : batch[i] = e.writer
      BY <1>2, InsertedAre, BatchedAre
    <2>2. batch[i] = writers_[i] /\ i \in 1..Len(writers_)
      BY <1>1 DEF ThreadsInv, GroupInv, Writes, TypeOK
    <2>3. InQueue(e.writer)
      BY <2>1, <2>2 DEF InQueue
    <2> QED BY <1>2, <2>3 DEF ThreadsInv, QueueShape
  <1>4. Stored' = Stored \cup {e}
    BY <1>1 DEF Stored
  <1>5. {Entry(k) : k \in 1..inserted}' = A \cup {e}
    <2>1. \A k : Entry(k)' = Entry(k)
      BY <1>1 DEF Entry, WithBatch
    <2>2. 1..inserted' = (1..inserted) \cup {inserted + 1}
      BY <1>1, InsertedAre
    <2> QED BY <2>1, <2>2
  <1> HIDE DEF e, A
  <1>6. \A v : EntriesOf(v, Stored)' = EntriesOf(v, Stored) \cup EntriesOf(v, {e})
    BY <1>4 DEF EntriesOf
  <1>7. \A v : EntriesOf(v, {Entry(k) : k \in 1..inserted})' = EntriesOf(v, A) \cup EntriesOf(v, {e})
    BY <1>5 DEF EntriesOf
  <1>8. \A v : v # e.writer => EntriesOf(v, {e}) = {}
    BY DEF EntriesOf
  <1>9. ASSUME NEW v \in Writers \ NullWriters, result[v] = "ok"
        PROVE  EntriesOf(v, Stored)' = EntriesOf(v, Stored)
    BY <1>3, <1>6, <1>8, <1>9
  <1>10. ASSUME NEW v \in Writers \ NullWriters, result[v] # "ok"
         PROVE  EntriesOf(v, Stored)' = EntriesOf(v, {Entry(k) : k \in 1..inserted})'
    BY <1>6, <1>7, <1>10 DEF EntriesInv, A
  <1>11. Stored' \subseteq [writer : Writers, seq : Nat]
    BY <1>2, <1>4 DEF EntriesInv
  <1>12. result' = result /\ last_sequence' = last_sequence
    BY <1>1
  <1> HIDE DEF Stored
  <1> QED BY <1>9, <1>10, <1>11, <1>12 DEF EntriesInv

LEMMA EntriesEnd ==
  ASSUME ThreadsInv, EntriesInv, NEW w \in Writers, EndOfGroup(w)
  PROVE  EntriesInv'
  <1> DEFINE A == {Entry(k) : k \in 1..inserted}
             status == IF pc[w] = "inserting" THEN "ok" ELSE "error"
  <1>1. /\ Finish(w, Len(batch), status) /\ UNCHANGED <<mem, imm, tables>>
        /\ last_sequence' = last_sequence + Count /\ inserted' = 0
        /\ pc[w] \in Writes
        /\ pc[w] = "inserting" => inserted = Count
        /\ pc[w] # "inserting" => inserted = 0
    BY DEF EndOfGroup, ClearBatch, Writes, ThreadsInv, GroupInv
  <1>2. /\ Len(batch) \in 1..Len(writers_) /\ Len(writers_) \in Nat
        /\ \A i \in 1..Len(batch) : batch[i] = writers_[i]
        /\ status \in {"ok", "error"}
    BY <1>1 DEF ThreadsInv, GroupInv, TypeOK
  <1>3. \A v \in Writers : \/ result'[v] = result[v] /\ \A i \in 1..Len(batch) : batch[i] # v
                           \/ result'[v] = status /\ \E i \in 1..Len(batch) : batch[i] = v
    <2> HIDE DEF status
    <2>1. \A v \in Writers : \/ result'[v] = result[v] /\ \A i \in 1..Len(batch) : writers_[i] # v
                             \/ result'[v] = status /\ \E i \in 1..Len(batch) : writers_[i] = v
      BY <1>1, <1>2, FinishTakesOff DEF ThreadsInv
    <2> QED BY <1>2, <2>1
  <1>4. \A v \in Writers : (\E i \in 1..Len(batch) : batch[i] = v) => result[v] = "none"
    BY <1>2 DEF ThreadsInv, QueueShape, InQueue
  <1>5. Stored' = Stored /\ \A v : EntriesOf(v, Stored)' = EntriesOf(v, Stored)
    BY <1>1 DEF Stored, EntriesOf
  <1>6. \A v : EntriesOf(v, {Entry(k) : k \in 1..inserted})' = {}
    <2>1. 1..inserted' = {}
      BY <1>1
    <2> QED BY <2>1 DEF EntriesOf
  <1>7. last_sequence \in Nat /\ Count \in Nat /\ last_sequence' \in Nat
        /\ last_sequence <= last_sequence'
    BY <1>1, InsertedAre
  <1>8. ASSUME NEW v \in Writers \ NullWriters, result[v] = "ok"
        PROVE  /\ result'[v] = "ok"
               /\ \A e \in EntriesOf(v, Stored) : e.seq <= last_sequence'
    <2>1. \A e \in EntriesOf(v, Stored) : e.seq \in Nat /\ e.seq <= last_sequence
      BY <1>8 DEF EntriesInv, EntriesOf
    <2> QED BY <1>3, <1>4, <1>7, <1>8, <2>1
  <1>9. ASSUME NEW v \in Writers \ NullWriters, result[v] # "ok", result'[v] = "ok"
        PROVE  /\ Cardinality(EntriesOf(v, Stored)) = BatchSize
               /\ \A e \in EntriesOf(v, Stored) : e.seq <= last_sequence'
    <2>1. status = "ok" /\ \E i \in 1..Len(batch) : batch[i] = v
      BY <1>3, <1>9
    <2>2. inserted = Count /\ v \in Batched
      BY <1>1, <2>1, InsertedAre, BatchedAre
    <2>3. EntriesOf(v, Stored) = EntriesOf(v, {Entry(k) : k \in 1..Count})
      BY <1>9, <2>2 DEF EntriesInv
    <2>4. Cardinality(EntriesOf(v, {Entry(k) : k \in 1..Count})) = BatchSize
      BY <2>2, InsertedAre, WholeBatch
    <2>5. \A k \in 1..Count : Entry(k).seq <= last_sequence'
      <3> SUFFICES ASSUME NEW k \in 1..Count PROVE Entry(k).seq <= last_sequence'
        OBVIOUS
      <3>1. Entry(k).seq = last_sequence + k
        BY InsertedAre
      <3> HIDE DEF Count
      <3> QED BY <1>1, <1>7, <3>1
    <2> QED BY <2>3, <2>4, <2>5 DEF EntriesOf
  <1>10. ASSUME NEW v \in Writers \ NullWriters, result[v] # "ok", result'[v] # "ok"
         PROVE  EntriesOf(v, Stored) = {}
    <2>1. CASE pc[w] # "inserting"
      <3>1. 1..inserted = {}
        BY <1>1, <2>1
      <3> QED BY <1>10, <3>1 DEF EntriesInv, EntriesOf
    <2>2. CASE pc[w] = "inserting"
      <3>1. \A i \in 1..Len(batch) : batch[i] # v
        BY <1>3, <1>10, <2>2
      <3>2. v \notin Batched
        BY <3>1, InsertedAre, BatchedAre
      <3>3. \A k \in 1..inserted : Entry(k).writer # v
        BY <1>1, <2>2, <3>2, InsertedAre
      <3>4. EntriesOf(v, A) = {}
        BY <3>3 DEF EntriesOf
      <3>5. EntriesOf(v, Stored) = EntriesOf(v, A)
        BY <1>10 DEF EntriesInv
      <3> QED BY <3>4, <3>5
    <2> QED BY <2>1, <2>2
  <1>11. Stored' \subseteq [writer : Writers, seq : Nat]
    BY <1>5 DEF EntriesInv
  <1> HIDE DEF Stored, status
  <1>12. ASSUME NEW v \in Writers \ NullWriters
         PROVE  IF result'[v] = "ok"
                THEN /\ Cardinality(EntriesOf(v, Stored)') = BatchSize
                     /\ \A e \in EntriesOf(v, Stored)' : e.seq <= last_sequence'
                ELSE EntriesOf(v, Stored)' = EntriesOf(v, {Entry(k) : k \in 1..inserted})'
    <2>1. result[v] = "ok" => Cardinality(EntriesOf(v, Stored)) = BatchSize
      BY DEF EntriesInv
    <2> QED BY <1>5, <1>6, <1>8, <1>9, <1>10, <2>1
  <1> QED BY <1>11, <1>12 DEF EntriesInv

LEMMA EntriesStep == ThreadsInv /\ EntriesInv /\ [Next]_vars => EntriesInv'
  <1> SUFFICES ASSUME ThreadsInv, EntriesInv, [Next]_vars PROVE EntriesInv'
    OBVIOUS
  <1>a. pc \in [Writers -> PcValues]
    BY DEF ThreadsInv, TypeOK, PcValues
  <1>1. ASSUME UNCHANGED <<mem, imm, tables, last_sequence, batch, inserted, result>>
        PROVE  EntriesInv'
    BY <1>1, EntriesSame DEF Stored
  <1>2. ASSUME NEW w \in Writers, pc[w] = "room", NEW status \in {"ok", "error"},
               FinishAlone(w, status), status = "ok" => w \in NullWriters,
               UNCHANGED <<mem, imm, tables, last_sequence, batch, inserted>>
        PROVE  EntriesInv'
    <2>1. 1 \in 1..Len(writers_) /\ writers_[1] = w /\ result[w] = "none"
      BY <1>2, LeaderIsHead DEF ThreadsInv, QueueShape, Leads
    <2>2. \A v \in Writers : \/ result'[v] = result[v] /\ \A i \in 1..1 : writers_[i] # v
                             \/ result'[v] = status /\ \E i \in 1..1 : writers_[i] = v
      BY <1>2, <2>1, FinishTakesOff DEF ThreadsInv, FinishAlone
    <2>3. \A v \in Writers : result'[v] = result[v] \/ (v = w /\ result'[v] = status)
      BY <2>1, <2>2
    <2>4. \A v \in Writers \ NullWriters : result'[v] = "ok" <=> result[v] = "ok"
      BY <1>2, <2>1, <2>3
    <2> QED BY <1>2, <2>4, EntriesSame DEF Stored
  <1>3. CASE BackgroundStep \/ CallerStep \/ Destructor \/ UNCHANGED vars
    <2>1. CASE EndFlush
      <3>1. Stored' = Stored /\ UNCHANGED <<last_sequence, batch, inserted, result>>
        BY <2>1 DEF EndFlush, Stored, leader
      <3> QED BY <3>1, EntriesSame
    <2>2. CASE ~EndFlush
      BY <1>1, <1>3, <2>2 DEF BackgroundStep, CallerStep, Destructor, BackgroundNothing, BeginFlush,
         BeginCompaction, EndCompaction, StartCompactRange, CompactRangeTurn, Shutdown, Close,
         vars, leader, data
    <2> QED BY <2>1, <2>2
  <1>4. ASSUME NEW w \in Writers,
               Enqueue(w) \/ WakeUp(w) \/ Delay(w) \/ EndDelay(w) \/ WaitForRoom(w) \/ AddRecord(w)
        PROVE  EntriesInv'
    BY <1>1, <1>4 DEF Enqueue, WakeUp, Delay, EndDelay, WaitForRoom, AddRecord, Lead, leader, data
  <1>5. ASSUME NEW w \in Writers, YieldPreviousError(w) PROVE EntriesInv'
    BY <1>2, <1>5 DEF YieldPreviousError, AtRoom, leader, data
  <1>6. ASSUME NEW w \in Writers, UseRoom(w) PROVE EntriesInv'
    <2>1. CASE w \in NullWriters
      BY <1>2, <1>6, <2>1 DEF UseRoom, AtRoom, data
    <2>2. CASE w \notin NullWriters
      <3>1. inserted = 0
        <4>1. pc[w] \in Leads /\ pc[w] \notin Writes
          BY <1>6 DEF UseRoom, AtRoom, Leads, Writes
        <4>2. \A v \in Writers : pc[v] \notin Writes
          BY <4>1, OneLeader DEF ThreadsInv, Writes, Leads
        <4> QED BY <4>2 DEF ThreadsInv, GroupInv
      <3> QED BY <1>6, <2>2, <3>1, EntriesSame DEF UseRoom, Stored, data
    <2> QED BY <2>1, <2>2
  <1>7. ASSUME NEW w \in Writers, SwitchMemTable(w) PROVE EntriesInv'
    <2>1. CASE FinishAlone(w, "error") /\ UNCHANGED <<imm, mem>>
      BY <1>2, <1>7, <2>1 DEF SwitchMemTable, AtRoom
    <2>2. CASE imm' = mem /\ mem' = {} /\ UNCHANGED <<pc, result, writers_, signaled, errors>>
      <3>1. imm = {}
        BY <1>7 DEF SwitchMemTable, MustWait, ThreadsInv, ImmInv
      <3>2. Stored' = Stored
        BY <1>7, <2>2, <3>1 DEF Stored, SwitchMemTable
      <3> QED BY <1>7, <2>2, <3>2, EntriesSame DEF SwitchMemTable
    <2> QED BY <1>7, <2>1, <2>2 DEF SwitchMemTable
  <1>8. ASSUME NEW w \in Writers, AwaitFlush(w) PROVE EntriesInv'
    <2>1. w \in NullWriters
      BY <1>8 DEF AwaitFlush, ThreadsInv, QueueShape
    <2>2. \A v \in Writers \ NullWriters : result'[v] = result[v]
      BY <1>8, <2>1 DEF AwaitFlush, ThreadsInv, TypeOK
    <2> QED BY <1>8, <2>2, EntriesSame DEF AwaitFlush, Stored, leader, data
  <1> QED BY <1>3, <1>4, <1>5, <1>6, <1>7, <1>8, EntriesInsert, EntriesEnd DEF Next, WriterStep

LEMMA EntriesAreRight == Spec => [](ThreadsInv /\ EntriesInv)
  <1>1. Init => ThreadsInv /\ EntriesInv
    <2> SUFFICES ASSUME Init PROVE EntriesInv
      BY ThreadsInit
    <2>1. 1..inserted = {} /\ Stored = {} /\ \A w \in Writers : result[w] # "ok"
      BY DEF Init, Stored
    <2> QED BY <2>1 DEF EntriesInv, EntriesOf
  <1>2. (ThreadsInv /\ EntriesInv) /\ [Next]_vars => (ThreadsInv /\ EntriesInv)'
    BY ThreadsStep, EntriesStep
  <1> QED BY <1>1, <1>2, PTL DEF Spec

(* A reader sees all of a batch or nothing of it, whoever leads its group  *)
(* and however far the leader has come (last_sequence is raised once, when *)
(* all of the group is in the memtable).                                   *)
THEOREM ReadersSeeWholeBatches == Spec => []BatchesAreAtomic
  <1>1. ThreadsInv /\ EntriesInv => BatchesAreAtomic
    <2> SUFFICES ASSUME ThreadsInv, EntriesInv, NEW w \in Writers \ NullWriters
                 PROVE  Cardinality({e \in EntriesOf(w, Stored) : e.seq <= last_sequence})
                        \in {0, BatchSize}
      BY DEF BatchesAreAtomic
    <2> DEFINE Seen == {e \in EntriesOf(w, Stored) : e.seq <= last_sequence}
    <2>1. CASE result[w] = "ok"
      <3>1. Seen = EntriesOf(w, Stored)
        BY <2>1 DEF EntriesInv
      <3> QED BY <2>1, <3>1 DEF EntriesInv
    <2>2. CASE result[w] # "ok"
      <3>1. \A k \in 1..inserted : ~(Entry(k).seq <= last_sequence)
        <4> SUFFICES ASSUME NEW k \in 1..inserted PROVE ~(Entry(k).seq <= last_sequence)
          OBVIOUS
        <4>1. k \in 1..Count /\ k \in Nat \ {0} /\ last_sequence \in Nat
          BY InsertedAre
        <4>2. Entry(k).seq = last_sequence + k
          BY <4>1, InsertedAre
        <4> QED BY <4>1, <4>2
      <3>2. EntriesOf(w, Stored) \subseteq {Entry(k) : k \in 1..inserted}
        BY <2>2 DEF EntriesInv, EntriesOf
      <3>3. Seen = {}
        BY <3>1, <3>2
      <3> QED BY <3>3, FS_EmptySet
    <2> QED BY <2>1, <2>2
  <1> QED BY <1>1, EntriesAreRight, PTL

(* What Write acknowledged stays stored, all of it and once, while         *)
(* memtables are switched and flushed and other writes fail.               *)
THEOREM AcknowledgedStays == Spec => []AcknowledgedIsKept
  <1>1. EntriesInv => AcknowledgedIsKept
    BY DEF EntriesInv, AcknowledgedIsKept
  <1> QED BY <1>1, EntriesAreRight, PTL

-----------------------------------------------------------------------------
(* The logs                                                                *)

(* A step that leaves the memtables and the logs alone.                    *)
LEMMA SyncSame ==
  ASSUME SyncInv, UNCHANGED <<mem, imm, log, imm_log>>,
         \A w \in Writers : pc'[w] = "inserting" => pc[w] = "inserting" /\ batch' = batch
  PROVE  SyncInv'
  <1>1. batch' = batch => Batched' = Batched
    BY DEF Batched, WithBatch
  <1>2. \A w : EntriesOf(w, mem)' = EntriesOf(w, mem) /\ EntriesOf(w, imm)' = EntriesOf(w, imm)
    BY DEF EntriesOf
  <1> QED BY <1>1, <1>2, WritersAssumption DEF SyncInv, WritersAssumption

LEMMA SyncAdd ==
  ASSUME ThreadsInv, SyncInv, NEW w \in Writers, AddRecord(w)
  PROVE  SyncInv'
  <1> DEFINE added == log.records \cup Batched
  <1>1. /\ pc \in [Writers -> PcValues] /\ pc[w] = "logging"
        /\ UNCHANGED <<batch, mem, imm, imm_log>>
    BY DEF ThreadsInv, TypeOK, PcValues, AddRecord, leader
  <1>2. Batched' = Batched /\ Batched \subseteq Writers
    <2>1. Batched' = Batched
      BY <1>1 DEF Batched, WithBatch
    <2> QED BY <2>1, InsertedAre, BatchedAre
  <1>3. \A v \in Writers : v # w => pc'[v] # "inserting"
    <2>1. \A v \in Writers : v # w => pc[v] # "inserting"
      BY <1>1, OneLeader DEF ThreadsInv, Leads
    <2> QED BY <1>1, <2>1 DEF AddRecord
  <1>4. /\ log \in [records : SUBSET Writers, synced : SUBSET Writers]
        /\ log.synced \subseteq log.records
    BY DEF SyncInv
  <1>5. /\ log' \in [records : SUBSET Writers, synced : SUBSET Writers]
        /\ log.synced \subseteq log'.synced /\ log'.synced \subseteq log'.records
        /\ pc'[w] = "inserting" /\ w \in SyncWriters => Batched \subseteq log'.synced
    <2>1. CASE /\ log' = [records |-> added,
                          synced  |-> IF w \in SyncWriters THEN added ELSE log.synced]
               /\ pc' = [pc EXCEPT ![w] = "inserting"]
      BY <1>2, <1>4, <2>1
    <2>2. CASE /\ \E kept \in {added, log.records} : log' = [log EXCEPT !.records = kept]
               /\ pc' = [pc EXCEPT ![w] = "failed"] \/ pc' = [pc EXCEPT ![w] = "sync_error"]
      <3>1. PICK kept \in {added, log.records} : log' = [log EXCEPT !.records = kept]
        BY <2>2
      <3>2. kept \subseteq Writers /\ log.records \subseteq kept
        BY <1>2, <1>4
      <3>3. log'.records = kept /\ log'.synced = log.synced /\ pc'[w] # "inserting"
        BY <1>1, <1>4, <2>2, <3>1
      <3>4. log' \in [records : SUBSET Writers, synced : SUBSET Writers]
        BY <1>4, <3>1, <3>2
      <3> QED BY <1>4, <3>2, <3>3, <3>4
    <2> QED BY <2>1, <2>2 DEF AddRecord
  <1>6. \A v : EntriesOf(v, mem)' = EntriesOf(v, mem) /\ EntriesOf(v, imm)' = EntriesOf(v, imm)
    BY <1>1 DEF EntriesOf
  <1>7. ASSUME NEW v \in SyncWriters, pc'[v] = "inserting"
        PROVE  Batched' \subseteq log'.synced
    BY <1>2, <1>3, <1>5, <1>7, WritersAssumption DEF WritersAssumption
  <1>8. \A v \in SyncWriters \ NullWriters : /\ EntriesOf(v, mem)' # {} => v \in log'.synced
                                             /\ EntriesOf(v, imm)' # {} => v \in imm_log'.synced
    BY <1>1, <1>5, <1>6 DEF SyncInv
  <1>9. imm_log' \in [records : SUBSET Writers, synced : SUBSET Writers]
    BY <1>1 DEF SyncInv
  <1> QED BY <1>5, <1>7, <1>8, <1>9 DEF SyncInv

LEMMA SyncInsert ==
  ASSUME ThreadsInv, SyncInv, NEW w \in Writers, InsertEntry(w)
  PROVE  SyncInv'
  <1> DEFINE e == Entry(inserted + 1)
  <1>1. /\ pc[w] = "inserting" /\ inserted + 1 \in 1..Count /\ mem' = mem \cup {e}
        /\ UNCHANGED <<pc, batch, imm, log, imm_log>>
    BY InsertedAre DEF InsertEntry
  <1>2. e.writer \in Batched
    BY <1>1, InsertedAre
  <1>3. e.writer \in SyncWriters => e.writer \in log.synced
    <2>1. PICK i \in 1..Len(batch) : batch[i] = e.writer
      BY <1>2, InsertedAre, BatchedAre
    <2>2. e.writer \in SyncWriters => w \in SyncWriters
      BY <1>1, <2>1 DEF ThreadsInv, GroupInv, Writes
    <2> QED BY <1>1, <1>2, <2>2 DEF SyncInv
  <1> HIDE DEF e
  <1>4. \A v : /\ EntriesOf(v, imm)' = EntriesOf(v, imm)
               /\ EntriesOf(v, mem)' # {} => EntriesOf(v, mem) # {} \/ v = e.writer
    BY <1>1 DEF EntriesOf
  <1>5. Batched' = Batched
    BY <1>1 DEF Batched, WithBatch
  <1> QED BY <1>1, <1>3, <1>4, <1>5 DEF SyncInv

LEMMA SyncStep == ThreadsInv /\ SyncInv /\ [Next]_vars => SyncInv'
  <1> SUFFICES ASSUME ThreadsInv, SyncInv, [Next]_vars PROVE SyncInv'
    OBVIOUS
  <1>a. pc \in [Writers -> PcValues]
    BY DEF ThreadsInv, TypeOK, PcValues
  <1>b. ASSUME NEW w \in Writers, pc[w] = "room", NEW v \in Writers
        PROVE  pc[v] # "inserting"
    BY <1>b, OneLeader DEF ThreadsInv, Leads
  <1>1. CASE BackgroundStep \/ CallerStep \/ Destructor \/ UNCHANGED vars
    <2>1. \A w \in Writers : pc'[w] = "inserting" => pc[w] = "inserting"
      BY <1>1, OthersOnlyWake DEF Woken, ThreadsInv
    <2>2. UNCHANGED <<mem, log, batch>>
      BY <1>1, OthersOnlyWake DEF leader, ThreadsInv
    <2>3. CASE UNCHANGED <<imm, imm_log>>
      BY <2>1, <2>2, <2>3, SyncSame
    <2>4. CASE imm' = {} /\ imm_log' = NoLog
      <3>1. Batched' = Batched /\ \A w : EntriesOf(w, imm)' = {} /\ EntriesOf(w, mem)' = EntriesOf(w, mem)
        BY <2>2, <2>4 DEF Batched, WithBatch, EntriesOf
      <3>2. imm_log' \in [records : SUBSET Writers, synced : SUBSET Writers]
        BY <2>4 DEF NoLog
      <3> QED BY <2>1, <2>2, <3>1, <3>2, WritersAssumption DEF SyncInv, WritersAssumption
    <2>5. UNCHANGED <<imm, imm_log>> \/ (imm' = {} /\ imm_log' = NoLog)
      BY <1>1 DEF BackgroundStep, CallerStep, Destructor, BackgroundNothing, BeginFlush, EndFlush,
         BeginCompaction, EndCompaction, StartCompactRange, CompactRangeTurn, Shutdown, Close,
         vars, data
    <2> QED BY <2>3, <2>4, <2>5
  <1>2. ASSUME NEW w \in Writers,
               \/ Enqueue(w) \/ WakeUp(w) \/ Delay(w) \/ EndDelay(w) \/ WaitForRoom(w)
               \/ YieldPreviousError(w) \/ AwaitFlush(w)
        PROVE  SyncInv'
    <2>1. UNCHANGED <<mem, imm, log, imm_log, batch>>
      BY <1>2 DEF Enqueue, WakeUp, Delay, EndDelay, WaitForRoom, YieldPreviousError, AwaitFlush,
         Lead, leader, data
    <2>2. \A v \in Writers : pc'[v] = "inserting" => pc[v] = "inserting"
      BY <1>2, <1>a DEF Enqueue, WakeUp, Delay, EndDelay, WaitForRoom, YieldPreviousError, AwaitFlush,
         FinishAlone, Returned, Lead
    <2> QED BY <2>1, <2>2, SyncSame
  <1>3. ASSUME NEW w \in Writers, UseRoom(w) PROVE SyncInv'
    <2>1. \A v \in Writers : pc[v] # "inserting"
      BY <1>3, <1>b DEF UseRoom, AtRoom
    <2>2. \A v \in Writers : pc'[v] # "inserting"
      BY <1>3, <1>a, <2>1 DEF UseRoom, FinishAlone, Returned
    <2> QED BY <1>3, <2>2, SyncSame DEF UseRoom, data
  <1>4. ASSUME NEW w \in Writers, SwitchMemTable(w) PROVE SyncInv'
    <2>1. \A v \in Writers : pc[v] # "inserting"
      BY <1>4, <1>b DEF SwitchMemTable, AtRoom
    <2>2. CASE FinishAlone(w, "error") /\ UNCHANGED <<imm, mem, imm_log, log>>
      <3>1. \A v \in Writers : pc'[v] # "inserting"
        BY <1>a, <2>1, <2>2 DEF FinishAlone, Returned
      <3> QED BY <2>2, <3>1, SyncSame
    <2>3. CASE imm' = mem /\ mem' = {} /\ imm_log' = log /\ log' = NoLog /\ pc' = pc
      <3>1. \A v : EntriesOf(v, mem)' = {} /\ EntriesOf(v, imm)' = EntriesOf(v, mem)
        BY <2>3 DEF EntriesOf
      <3>2. log' \in [records : SUBSET Writers, synced : SUBSET Writers]
        BY <2>3 DEF NoLog
      <3>3. log'.synced \subseteq log'.records
        BY <2>3 DEF NoLog
      <3> QED BY <2>1, <2>3, <3>1, <3>2, <3>3, WritersAssumption DEF SyncInv, WritersAssumption
    <2> QED BY <1>4, <2>2, <2>3 DEF SwitchMemTable
  <1>5. ASSUME NEW w \in Writers, EndOfGroup(w) PROVE SyncInv'
    <2>1. \A v \in Writers : v # w => pc[v] # "inserting"
      BY <1>5, OneLeader DEF EndOfGroup, ThreadsInv, Leads
    <2>2. \A v \in Writers : pc'[v] # "inserting"
      BY <1>5, <1>a, <2>1 DEF EndOfGroup, Woken
    <2> QED BY <1>5, <2>2, SyncSame DEF EndOfGroup
  <1> QED BY <1>1, <1>2, <1>3, <1>4, <1>5, SyncAdd, SyncInsert DEF Next, WriterStep

(* A synchronous write that was acknowledged is in a synced log or in a    *)
(* table, whoever led its group and whatever was switched or flushed       *)
(* meanwhile.                                                              *)
THEOREM SyncedStays == Spec => []SyncedIsDurable
  <1>1. Init => SyncInv
    <2> SUFFICES ASSUME Init PROVE SyncInv
      OBVIOUS
    <2>1. log = NoLog /\ imm_log = NoLog /\ mem = {} /\ imm = {}
          /\ \A w \in Writers : pc[w] # "inserting"
      BY DEF Init
    <2> QED BY <2>1, WritersAssumption DEF SyncInv, EntriesOf, NoLog, WritersAssumption
  <1>2. Spec => [](ThreadsInv /\ SyncInv)
    <2>1. Init => ThreadsInv /\ SyncInv
      BY <1>1, ThreadsInit
    <2>2. (ThreadsInv /\ SyncInv) /\ [Next]_vars => (ThreadsInv /\ SyncInv)'
      BY ThreadsStep, SyncStep
    <2> QED BY <2>1, <2>2, PTL DEF Spec
  <1>3. EntriesInv /\ SyncInv => SyncedIsDurable
    <2> SUFFICES ASSUME EntriesInv, SyncInv, NEW w \in SyncWriters \ NullWriters, result[w] = "ok"
                 PROVE  w \in log.synced \cup imm_log.synced \/ EntriesOf(w, tables) # {}
      BY DEF SyncedIsDurable
    <2>1. Cardinality(EntriesOf(w, Stored)) = BatchSize
      BY WritersAssumption DEF EntriesInv, WritersAssumption
    <2>2. EntriesOf(w, Stored) # {}
      BY <2>1, BatchAssumption, FS_EmptySet DEF BatchAssumption
    <2>3. EntriesOf(w, mem) # {} \/ EntriesOf(w, imm) # {} \/ EntriesOf(w, tables) # {}
      BY <2>2 DEF EntriesOf, Stored
    <2> QED BY <2>3 DEF SyncInv
  <1> QED BY <1>2, <1>3, EntriesAreRight, PTL

-----------------------------------------------------------------------------
(* The end, and manual compactions                                         *)

ClosedInv == db = "closed" => ~scheduled

LEMMA ClosedStep == ThreadsInv /\ ClosedInv /\ [Next]_vars => ClosedInv'
  <1> SUFFICES ASSUME ThreadsInv, ClosedInv, [Next]_vars PROVE ClosedInv'
    OBVIOUS
  <1>1. CASE Shutdown \/ Close
    BY <1>1 DEF Shutdown, Close, ClosedInv
  <1>2. ASSUME UNCHANGED db, scheduled' = scheduled \/ MaybeScheduleCompaction \/ EndBackgroundCall
        PROVE  ClosedInv'
    BY <1>2 DEF MaybeScheduleCompaction, EndBackgroundCall, ShuttingDown, ClosedInv
  <1>3. ASSUME NEW w \in Writers, Enqueue(w) \/ WriterStep(w) PROVE ClosedInv'
    BY <1>2, <1>3 DEF Enqueue, WriterStep, WakeUp, YieldPreviousError, Delay, EndDelay, UseRoom,
       WaitForRoom, SwitchMemTable, AddRecord, InsertEntry, EndOfGroup, AwaitFlush
  <1>4. CASE BackgroundStep \/ CallerStep \/ UNCHANGED vars
    BY <1>2, <1>4 DEF BackgroundStep, CallerStep, BackgroundNothing, BeginFlush, EndFlush,
       BeginCompaction, EndCompaction, StartCompactRange, CompactRangeTurn, vars
  <1> QED BY <1>1, <1>3, <1>4 DEF Next, Destructor

LEMMA ClosedStays == Spec => [](ThreadsInv /\ ClosedIsQuiet)
  <1>1. Init => ThreadsInv /\ ClosedInv
    BY ThreadsInit DEF Init, ClosedInv
  <1>2. (ThreadsInv /\ ClosedInv) /\ [Next]_vars => (ThreadsInv /\ ClosedInv)'
    BY ThreadsStep, ClosedStep
  <1>3. ThreadsInv /\ ClosedInv => ClosedIsQuiet
    BY DEF ThreadsInv, WorkInv, TypeOK, ClosedInv, ClosedIsQuiet, BackgroundIdle
  <1> QED BY <1>1, <1>2, <1>3, PTL DEF Spec

(* Without failures.                                                       *)
LEMMA ManualStep ==
  ASSUME MaxErrors = 0, ThreadsInv, ManualInv, [Next]_vars
  PROVE  ManualInv'
  <1>a. ~Fails
    BY DEF ThreadsInv, TypeOK, Fails
  <1>b. /\ pc \in [Writers -> PcValues] /\ db \in {"open", "closing", "closed"}
        /\ caller \in {"idle", "loop", "waiting", "returned"}
    BY DEF ThreadsInv, TypeOK, PcValues
  <1> USE DEF ManualInv, ManualIsThere, ShuttingDown
  <1>1. ASSUME NEW w \in Writers, Enqueue(w) \/ WriterStep(w) PROVE ManualInv'
    <2>1. UNCHANGED <<compaction, manual, db, bg_error>>
      <3>1. CASE EndOfGroup(w)
        <4>1. bg_error' = bg_error
          <5>1. bg_error' = (bg_error \/ pc[w] = "sync_error") /\ pc[w] # "sync_error"
            BY <3>1 DEF EndOfGroup
          <5>2. bg_error \in BOOLEAN
            BY DEF ThreadsInv, TypeOK
          <5> QED BY <5>1, <5>2
        <4> QED BY <3>1, <4>1 DEF EndOfGroup, work, manual
      <3>2. CASE ~EndOfGroup(w)
        BY <1>1, <3>2 DEF Enqueue, WriterStep, WakeUp, YieldPreviousError, Delay, EndDelay, UseRoom,
           WaitForRoom, SwitchMemTable, AddRecord, InsertEntry, AwaitFlush, work, manual
      <3> QED BY <3>1, <3>2
    <2>2. \A v \in Writers : pc'[v] # "sync_error"
      BY <1>1, <1>a, <1>b DEF Enqueue, WriterStep, WakeUp, YieldPreviousError, Delay, EndDelay, UseRoom,
         WaitForRoom, SwitchMemTable, AddRecord, InsertEntry, EndOfGroup, AwaitFlush, Lead,
         FinishAlone, Returned, Woken
    <2> QED BY <2>1, <2>2 DEF manual
  <1>2. ASSUME BackgroundStep \/ CallerStep \/ Destructor \/ UNCHANGED vars
        PROVE  \A v \in Writers : pc'[v] # "sync_error"
    BY <1>2, OthersOnlyWake DEF Woken, ThreadsInv
  <1>3. ASSUME SignalAll PROVE /\ caller' # "waiting"
                               /\ caller \in {"waiting", "loop"} => caller' = "loop"
                               /\ caller \in {"idle", "returned"} => caller' = caller
    BY <1>3, <1>b DEF SignalAll
  <1>4. CASE BackgroundNothing
    <2>1. SignalAll /\ UNCHANGED <<compaction, bg_error, db>> /\ compaction = {}
      BY <1>4 DEF BackgroundNothing, EndBackgroundCall, BackgroundIdle, work
    <2>2. \/ UNCHANGED <<manual_compaction, manual_done>>
          \/ manual_compaction' = FALSE
      BY <1>4 DEF BackgroundNothing
    <2> QED BY <1>2, <1>3, <1>4, <2>1, <2>2 DEF BackgroundStep
  <1>5. CASE BeginFlush
    BY <1>2, <1>5 DEF BeginFlush, BackgroundStep, manual
  <1>6. CASE EndFlush
    <2>1. SignalAll /\ UNCHANGED <<manual_compaction, manual_done, compaction, db>>
      BY <1>6 DEF EndFlush, EndBackgroundCall
    <2>2. bg_error' => bg_error \/ ShuttingDown
      BY <1>6, <1>a DEF EndFlush
    <2> QED BY <1>2, <1>3, <1>6, <2>1, <2>2 DEF BackgroundStep
  <1>7. CASE BeginCompaction
    <2>1. PICK k \in 0..l0, m \in BOOLEAN :
            compaction' = {[inputs |-> k, manual |-> m]} /\ (m = TRUE => manual_compaction)
      BY <1>7, ChosenInputs DEF ThreadsInv, TypeOK
    <2>2. \A c \in compaction' : c.manual => manual_compaction
      BY <2>1
    <2> QED BY <1>2, <1>7, <2>2 DEF BeginCompaction, BackgroundStep, manual
  <1>8. CASE EndCompaction
    <2>1. PICK c \in compaction :
            /\ UNCHANGED <<bg_error, manual_done>>
               \/ (bg_error' = TRUE /\ manual_done' = (manual_done \/ c.manual) /\ ShuttingDown)
            /\ manual_compaction' = (manual_compaction /\ ~c.manual)
      BY <1>8, <1>a DEF EndCompaction
    <2>2. SignalAll /\ compaction' = {} /\ db' = db
      BY <1>8 DEF EndCompaction, EndBackgroundCall
    <2>3. manual_compaction' => manual_compaction /\ manual_done' = manual_done
      BY <2>1 DEF ThreadsInv, TypeOK
    <2> QED BY <1>2, <1>3, <1>8, <2>1, <2>2, <2>3 DEF BackgroundStep
  <1>9. CASE StartCompactRange
    BY <1>2, <1>9 DEF StartCompactRange, CallerStep, work
  <1>10. CASE CompactRangeTurn
    <2>1. ~ShuttingDown /\ ~bg_error /\ UNCHANGED <<compaction, bg_error, manual_done, db>>
      BY <1>10 DEF CompactRangeTurn, work
    <2>2. \/ manual_done /\ caller' = "returned" /\ manual_compaction' = FALSE
          \/ ~manual_done /\ caller' = "waiting" /\ manual_compaction' = TRUE
      BY <1>10, <2>1 DEF CompactRangeTurn
    <2> QED BY <1>2, <1>10, <2>1, <2>2 DEF CallerStep
  <1>11. CASE Destructor
    BY <1>2, <1>11 DEF Destructor, Shutdown, Close, Quiet, work, manual
  <1>12. CASE UNCHANGED vars
    BY <1>2, <1>12 DEF vars, work, manual
  <1> QED BY <1>1, <1>4, <1>5, <1>6, <1>7, <1>8, <1>9, <1>10, <1>11, <1>12
          DEF Next, BackgroundStep, CallerStep

(* No manual compaction at all.                                            *)
NoManual == /\ caller = "idle" /\ ~manual_compaction
            /\ \A c \in compaction : ~c.manual

LEMMA NoManualStep ==
  ASSUME MaxRounds = 0, ThreadsInv, NoManual, [Next]_vars
  PROVE  NoManual'
  <1> USE DEF NoManual
  <1>1. ASSUME NEW w \in Writers, Enqueue(w) \/ WriterStep(w) PROVE NoManual'
    <2>1. UNCHANGED <<compaction, manual>>
      BY <1>1 DEF Enqueue, WriterStep, WakeUp, YieldPreviousError, Delay, EndDelay, UseRoom,
         WaitForRoom, SwitchMemTable, AddRecord, InsertEntry, EndOfGroup, AwaitFlush, work, manual
    <2> QED BY <2>1 DEF manual
  <1>2. CASE BeginCompaction
    <2>1. PICK k \in 0..l0, m \in BOOLEAN :
            compaction' = {[inputs |-> k, manual |-> m]} /\ (m = TRUE => manual_compaction)
      BY <1>2, ChosenInputs DEF ThreadsInv, TypeOK
    <2> QED BY <1>2, <2>1 DEF BeginCompaction, manual
  <1>3. CASE EndCompaction
    <2>1. ~manual_compaction'
      BY <1>3 DEF EndCompaction
    <2> QED BY <1>3, <2>1 DEF EndCompaction, EndBackgroundCall, SignalAll
  <1>4. CASE BackgroundNothing \/ BeginFlush \/ EndFlush
    <2>1. compaction' = compaction /\ caller' = caller
      BY <1>4 DEF BackgroundNothing, BeginFlush, EndFlush, EndBackgroundCall, SignalAll, work, manual
    <2>2. ~manual_compaction'
      BY <1>4 DEF BackgroundNothing, BeginFlush, EndFlush, manual
    <2> QED BY <2>1, <2>2
  <1>5. CASE CallerStep \/ Destructor \/ UNCHANGED vars
    BY <1>5 DEF CallerStep, StartCompactRange, CompactRangeTurn, Destructor, Shutdown, Close, vars,
       work, manual
  <1> QED BY <1>1, <1>2, <1>3, <1>4, <1>5 DEF Next, BackgroundStep

(* The background thread never works with a manual compaction or a         *)
(* database that is gone, as long as no background error comes between a   *)
(* manual compaction and its caller (db_impl.cc:763 forgets that the       *)
(* caller, woken by the error, takes its compaction back).                 *)
THEOREM BackgroundStaysSafe ==
  ASSUME MaxErrors = 0 \/ MaxRounds = 0
  PROVE  Spec => []BackgroundIsSafe
  <1>1. ASSUME MaxErrors = 0 PROVE Spec => []ManualIsThere
    <2>1. Init => ThreadsInv /\ ManualInv
      BY ThreadsInit DEF Init, ManualInv, ManualIsThere, ShuttingDown
    <2>2. (ThreadsInv /\ ManualInv) /\ [Next]_vars => (ThreadsInv /\ ManualInv)'
      BY <1>1, ThreadsStep, ManualStep
    <2>3. ManualInv => ManualIsThere
      BY DEF ManualInv
    <2> QED BY <2>1, <2>2, <2>3, PTL DEF Spec
  <1>2. ASSUME MaxRounds = 0 PROVE Spec => []ManualIsThere
    <2>1. Init => ThreadsInv /\ NoManual
      BY ThreadsInit DEF Init, NoManual
    <2>2. (ThreadsInv /\ NoManual) /\ [Next]_vars => (ThreadsInv /\ NoManual)'
      BY <1>2, ThreadsStep, NoManualStep
    <2>3. NoManual => ManualIsThere
      BY DEF NoManual, ManualIsThere
    <2> QED BY <2>1, <2>2, <2>3, PTL DEF Spec
  <1>3. Spec => []ManualIsThere
    BY <1>1, <1>2
  <1>4. ManualIsThere /\ ClosedIsQuiet => BackgroundIsSafe
    BY DEF BackgroundIsSafe
  <1> QED BY <1>3, <1>4, ClosedStays, PTL
=============================================================================
