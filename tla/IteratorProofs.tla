--------------------------- MODULE IteratorProofs ---------------------------
(***************************************************************************)
(* Theorems about MemTable and TwoLevelIterator: a reader without a lock   *)
(* sees its snapshot; a walk over blocks, some of them damaged, leaves out *)
(* nothing that its status does not tell of.                               *)
(***************************************************************************)
EXTENDS MemTable, TwoLevelIterator, SequenceTheorems, FiniteSetTheorems, WellFoundedInduction, TLAPS

-----------------------------------------------------------------------------
(* MemTable: a load of next_ cannot pass over a node that was linked in the*)
(* reader's view: whatever store it returns, a node that lies between that *)
(* store's two ends was linked by, or after, a later store to the same     *)
(* place.                                                                  *)

Levels == 0..(kMaxHeight - 1)

Entry == [key : UserKeys, tag : Nat]

(* Node n is between p, or the head, and v, or the end.                    *)
Between(p, n, v) == /\ p = head_ \/ Before(nodes[p], nodes[n])
                    /\ v = Null \/ Before(nodes[n], nodes[v])

(* Store t is one to next_[level] of node p; it links node n at the level. *)
Sets(t, p, level) == t \in 1..Len(memory) /\ memory[t].at = NextOf(p, level)

Links(t, n, level) ==
  /\ t \in 1..Len(memory) /\ memory[t].value = n
  /\ \E p \in 0..Len(nodes) : memory[t].at = NextOf(p, level)

NodesOK == /\ nodes \in Seq(Entry)
           /\ \A n \in 1..Len(nodes) : nodes[n].tag \in {2 * n, 2 * n + 1}

MemoryOK ==
  /\ memory \in Seq([at : {MaxHeight} \cup {NextOf(p, l) : p \in Nat, l \in Levels}, value : Int])
  /\ \A t \in 1..Len(memory) :
       \/ memory[t].at = MaxHeight /\ memory[t].value \in 1..kMaxHeight
       \/ /\ \E p \in 0..Len(nodes), l \in Levels : memory[t].at = NextOf(p, l)
          /\ memory[t].value \in {Null} \cup 1..Len(nodes)

(* A list is in order.                                                     *)
Ascends ==
  \A t \in 1..Len(memory), p \in 1..Len(nodes), n \in 1..Len(nodes), l \in Levels :
    Sets(t, p, l) /\ memory[t].value = n => Before(nodes[p], nodes[n])

(* A node is linked after its own link is set, from the bottom up.         *)
SetBeforeLinked ==
  /\ \A t \in 1..Len(memory), n \in 1..Len(nodes), l \in Levels :
       Links(t, n, l) => \E s \in 1..(t - 1) : Sets(s, n, l)
  /\ \A t \in 1..Len(memory), n \in 1..Len(nodes), l \in Levels :
       Sets(t, n, l) => /\ \E s \in 1..Len(memory) : Links(s, n, l)
                        /\ \A k \in 0..(l - 1) : \E s \in 1..(t - 1) : Sets(s, n, k)

(* A link that skips a node was replaced by the time the node was linked.  *)
NonePassed ==
  \A p \in 0..Len(nodes), l \in Levels, t \in 0..Len(memory), s \in 1..Len(memory),
     n \in 1..Len(nodes) :
    /\ Sets(t, p, l) \/ (p = head_ /\ t = 0)
    /\ Links(s, n, l)
    /\ Between(p, n, ValueAt(NextOf(p, l), t))
    => \E r \in 1..s : t < r /\ Sets(r, p, l)

(* Prev is the last node before x of those linked at a level.              *)
PrevIs(x, l, prev) ==
  /\ prev # head_ => /\ Before(nodes[prev], nodes[x])
                     /\ \E t \in 1..Len(memory) : Sets(t, prev, l)
  /\ \A n \in 1..(x - 1), t \in 1..Len(memory) :
       Sets(t, n, l) /\ Before(nodes[n], nodes[x])
         => n = prev \/ (prev # head_ /\ Before(nodes[n], nodes[prev]))

(* The node being inserted, the last, is linked below inserting.linked.    *)
InsertingOK ==
  \/ inserting = Idle
  \/ \E x \in 1..Len(nodes) :
       /\ x = Len(nodes)
       /\ inserting.height \in 1..kMaxHeight /\ inserting.linked \in 0..(inserting.height - 1)
       /\ inserting = [height |-> inserting.height, linked |-> inserting.linked,
                       prev |-> inserting.prev]
       /\ \A l \in Levels : (\E t \in 1..Len(memory) : Sets(t, x, l)) <=> l < inserting.linked
       /\ \A l \in inserting.linked..(kMaxHeight - 1) :
            \E prev \in 0..(x - 1) : prev = inserting.prev[l] /\ PrevIs(x, l, prev)

AllLinked ==
  \A n \in 1..Len(nodes) :
    \/ \E t \in 1..Len(memory) : Sets(t, n, 0)
    \/ n = Len(nodes) /\ inserting # Idle /\ inserting.linked = 0

(* All nodes to a sequence are linked in a view.                           *)
InView(sequence, view) ==
  \A n \in 1..sequence : \E t \in 1..view : Links(t, n, 0)

PublishedOK ==
  /\ published \in [sequence : 0..Len(nodes), view : 0..Len(memory)]
  /\ InView(published.sequence, published.view)

WriterInv ==
  /\ NodesOK /\ MemoryOK /\ Ascends /\ SetBeforeLinked /\ NonePassed
  /\ InsertingOK /\ AllLinked /\ PublishedOK

(* What the reader is sure to see of a node: its links below a level.      *)
Seen(n, level) ==
  n \in 1..Len(nodes) /\ \A l \in 0..level : \E t \in 1..reader.view : Sets(t, n, l)

Readers(N, M) ==
  [pc : {"out", "at", "searching"},
   op : {"none", "seek", "get", "first", "last", "next", "prev"},
   view : 0..M, snapshot : 0..N, target : Entry \cup {Null}, x : 0..N, level : Levels,
   from : {Null} \cup 1..N, node : {Null} \cup 1..N, reads : Nat]

ReaderOK ==
  /\ reader \in Readers(Len(nodes), Len(memory))
  /\ InView(reader.snapshot, reader.view)
  /\ reader.node # Null => Seen(reader.node, 0)
  /\ reader.op \in {"seek", "get", "prev"} => reader.target \in Entry
  /\ reader.op = "get" => \E k \in UserKeys : reader.target = LookupKey(k, reader.snapshot)
  /\ reader.op = "prev" => reader.from # Null /\ reader.target = nodes[reader.from]
  /\ reader.op = "next" => reader.from # Null
  /\ reader.pc = "out" => reader = NoRead
  /\ reader.pc = "searching" =>
       /\ reader.op \in {"seek", "get", "prev", "last"}
       /\ reader.x # head_ => /\ Seen(reader.x, reader.level)
                              /\ reader.op # "last" => Before(nodes[reader.x], reader.target)
  /\ reader.pc = "at" /\ reader.op = "get" /\ reader.node # Null =>
       ~Before(nodes[reader.node], reader.target)

-----------------------------------------------------------------------------
(* The order of entries, and the places of the memory.                     *)

LEMMA BeforeIsOrder ==
  ASSUME NEW a \in Entry, NEW b \in Entry, NEW c \in Entry
  PROVE  /\ ~Before(a, a)
         /\ Before(a, b) => ~Before(b, a)
         /\ Before(a, b) /\ Before(b, c) => Before(a, c)
         /\ Before(a, b) /\ ~Before(c, b) => Before(a, c)
         /\ ~Before(b, a) /\ Before(b, c) => Before(a, c)
         /\ a.tag # b.tag => Before(a, b) \/ Before(b, a)
  BY KeyMaxAssumption DEF Entry, Before, UserKeys

LEMMA NodesAreOrdered ==
  ASSUME NodesOK
  PROVE  /\ \A n \in 1..Len(nodes) : nodes[n] \in Entry /\ ~Before(nodes[n], nodes[n])
         /\ \A m, n \in 1..Len(nodes) : /\ Before(nodes[m], nodes[n]) => ~Before(nodes[n], nodes[m])
                                        /\ m # n => \/ Before(nodes[m], nodes[n])
                                                    \/ Before(nodes[n], nodes[m])
         /\ \A m, n, o \in 1..Len(nodes) :
              Before(nodes[m], nodes[n]) /\ Before(nodes[n], nodes[o]) => Before(nodes[m], nodes[o])
<1>1. \A n \in 1..Len(nodes) : nodes[n] \in Entry
  BY ElementOfSeq DEF NodesOK
<1>2. \A m, n \in 1..Len(nodes) : m # n => nodes[m].tag # nodes[n].tag
  BY LenProperties DEF NodesOK
<1> QED BY <1>1, <1>2, BeforeIsOrder

LEMMA Places ==
  /\ \A p, q, l, k : NextOf(p, l) = NextOf(q, k) => p = q /\ l = k
  /\ \A p \in Nat : \A l : NextOf(p, l) # MaxHeight
  /\ \A l : InitialValue(NextOf(head_, l)) = Null
  /\ InitialValue(MaxHeight) = 1
  BY DEF NextOf, MaxHeight, InitialValue, head_, Null

(* A set of natural numbers has a least one.                               *)
LEMMA LeastNumber ==
  ASSUME NEW S \in SUBSET Nat, S # {}
  PROVE  \E k \in S : \A m \in S : k <= m
<1> DEFINE R == OpToRel(<, Nat)
<1>1. IsWellFoundedOn(R, Nat)
  BY NatLessThanWellFounded
<1>2. PICK k \in S : \A m \in S : ~ (<<m, k>> \in R)
  <2> HIDE DEF R
  <2> QED BY <1>1, WFMin
<1>3. ASSUME NEW m \in S PROVE k <= m
  <2>1. <<m, k>> \notin {ss \in Nat \X Nat : ss[1] < ss[2]}
    BY <1>2 DEF OpToRel
  <2> QED BY <2>1
<1> QED BY <1>3

(* A set of times has a last one.                                          *)
LEMMA GreatestIs ==
  ASSUME NEW B \in Nat, NEW T \in SUBSET (0..B), T # {}
  PROVE  Greatest(T) \in T /\ \A s \in T : s <= Greatest(T)
<1> DEFINE D == {n \in 0..B : B - n \in T}
<1>1. PICK t \in T : TRUE
  OBVIOUS
<1>2. D # {} /\ D \in SUBSET Nat
  <2>1. B - t \in 0..B /\ B - (B - t) = t
    BY <1>1
  <2> QED BY <1>1, <2>1
<1>4. PICK d \in D : \A e \in D : d <= e
  <2> HIDE DEF D
  <2> QED BY <1>2, LeastNumber
<1>5. B - d \in T /\ \A s \in T : s <= B - d
  <2>1. ASSUME NEW s \in T PROVE s <= B - d
    <3>1. B - s \in 0..B /\ B - (B - s) = s
      OBVIOUS
    <3>2. B - s \in D
      BY <3>1
    <3>3. d <= B - s
      BY <1>4, <3>2
    <3> QED BY <3>3
  <2> QED BY <2>1
<1> QED BY <1>5 DEF Greatest

(* A set of entries has a first and a last one.                            *)
LEMMA EntriesHaveEnds ==
  ASSUME NEW S \in SUBSET Entry, S # {}, NEW B \in Nat, \A e \in S : e.tag <= B
  PROVE  /\ \E e \in S : \A f \in S : ~Before(f, e)
         /\ \E e \in S : \A f \in S : ~Before(e, f)
<1> DEFINE Low == {e.key : e \in S}
           High == {KeyMax - e.key : e \in S}
<1>0. \A e \in S : e.key \in 1..KeyMax /\ e.tag \in Nat /\ KeyMax \in Nat
  BY KeyMaxAssumption DEF Entry, UserKeys
<1>1. PICK low \in Low : \A k \in Low : low <= k
  <2>1. Low # {} /\ Low \in SUBSET Nat
    BY <1>0
  <2> HIDE DEF Low
  <2> QED BY <2>1, LeastNumber
<1>2. PICK high \in High : \A k \in High : high <= k
  <2>1. High # {} /\ High \in SUBSET Nat
    BY <1>0
  <2> HIDE DEF High
  <2> QED BY <2>1, LeastNumber
<1> DEFINE LowTags == {B - e.tag : e \in {f \in S : f.key = low}}
           HighTags == {e.tag : e \in {f \in S : KeyMax - f.key = high}}
<1>3. PICK lowTag \in LowTags : \A t \in LowTags : lowTag <= t
  <2>1. LowTags # {} /\ LowTags \in SUBSET Nat
    BY <1>0, <1>1
  <2> HIDE DEF LowTags
  <2> QED BY <2>1, LeastNumber
<1>4. PICK highTag \in HighTags : \A t \in HighTags : highTag <= t
  <2>1. HighTags # {} /\ HighTags \in SUBSET Nat
    BY <1>0, <1>2
  <2> HIDE DEF HighTags
  <2> QED BY <2>1, LeastNumber
<1>5. PICK e \in S : e.key = low /\ B - e.tag = lowTag
  BY <1>3
<1>6. ASSUME NEW f \in S PROVE ~Before(f, e)
  <2>1. low <= f.key
    BY <1>1
  <2>2. f.key = low => lowTag <= B - f.tag
    BY <1>3
  <2> QED BY <1>0, <1>5, <2>1, <2>2 DEF Before
<1>7. PICK g \in S : KeyMax - g.key = high /\ g.tag = highTag
  BY <1>4
<1>8. ASSUME NEW f \in S PROVE ~Before(g, f)
  <2>1. high <= KeyMax - f.key
    BY <1>2
  <2>2. KeyMax - f.key = high => highTag <= f.tag
    BY <1>4
  <2> QED BY <1>0, <1>7, <2>1, <2>2 DEF Before
<1> QED BY <1>6, <1>8

-----------------------------------------------------------------------------
(* What a step of the writer leaves as it is.                              *)

Grows ==
  /\ Len(nodes) <= Len(nodes') /\ Len(memory) <= Len(memory')
  /\ \A n \in 1..Len(nodes) : nodes'[n] = nodes[n]
  /\ \A t \in 1..Len(memory) : memory'[t] = memory[t]

LEMMA Lengths ==
  ASSUME NodesOK, MemoryOK
  PROVE  /\ Len(nodes) \in Nat /\ Len(memory) \in Nat
         /\ \A t \in 1..Len(memory) :
              /\ memory[t].at = MaxHeight => memory[t].value \in 1..kMaxHeight
              /\ \A p \in Nat : \A l : Sets(t, p, l) =>
                   p \in 0..Len(nodes) /\ l \in Levels
                   /\ memory[t].value \in {Null} \cup 1..Len(nodes)
<1>1. Len(nodes) \in Nat /\ Len(memory) \in Nat
  BY LenProperties DEF NodesOK, MemoryOK
<1>2. ASSUME NEW t \in 1..Len(memory), memory[t].at = MaxHeight
      PROVE  memory[t].value \in 1..kMaxHeight
  <2>1. \A p \in 0..Len(nodes), l \in Levels : NextOf(p, l) # MaxHeight
    BY Places
  <2> QED BY <1>2, <2>1 DEF MemoryOK
<1>3. ASSUME NEW t \in 1..Len(memory), NEW p \in Nat, NEW l, Sets(t, p, l)
      PROVE  p \in 0..Len(nodes) /\ l \in Levels /\ memory[t].value \in {Null} \cup 1..Len(nodes)
  <2>1. memory[t].at = NextOf(p, l) /\ memory[t].at # MaxHeight
    BY <1>3, Places DEF Sets
  <2>2. PICK q \in 0..Len(nodes), k \in Levels : memory[t].at = NextOf(q, k)
    BY <2>1 DEF MemoryOK
  <2>3. p = q /\ l = k
    BY <2>1, <2>2, Places
  <2> QED BY <2>1, <2>2, <2>3 DEF MemoryOK
<1> QED BY <1>1, <1>2, <1>3

LEMMA AddLinksNothing ==
  ASSUME NodesOK, MemoryOK, Bounds, NEW k \in UserKeys, NEW type \in Types,
         NEW h \in 1..kMaxHeight, Add(k, type, h)
  PROVE  /\ Grows /\ Len(nodes') = Len(nodes) + 1
         /\ nodes'[Len(nodes) + 1] = InternalKey(k, Len(nodes) + 1, type)
         /\ \A t : \A p \in Nat : \A l : Sets(t, p, l)' <=> Sets(t, p, l)
         /\ \A t, n, l : Links(t, n, l)' <=> Links(t, n, l)
         /\ NodesOK' /\ MemoryOK'
<1> DEFINE e == InternalKey(k, Len(nodes) + 1, type)
           store == [at |-> MaxHeight, value |-> h]
<1>0. Len(nodes) \in Nat /\ Len(memory) \in Nat
  BY Lengths
<1>1. e \in Entry /\ e.tag \in {2 * (Len(nodes) + 1), 2 * (Len(nodes) + 1) + 1}
  BY <1>0 DEF Bounds, Entry, InternalKey, PackSequenceAndType, kTypeDeletion, kTypeValue
<1>2. nodes' = Append(nodes, e)
  BY DEF Add
<1>3. /\ nodes' \in Seq(Entry) /\ Len(nodes') = Len(nodes) + 1
      /\ \A n \in 1..Len(nodes) : nodes'[n] = nodes[n]
      /\ nodes'[Len(nodes) + 1] = e
  <2> HIDE DEF e
  <2> QED BY <1>1, <1>2, AppendProperties DEF NodesOK
<1>4. NodesOK'
  <2>1. ASSUME NEW n \in 1..Len(nodes') PROVE nodes'[n].tag \in {2 * n, 2 * n + 1}
    <3>1. n \in 1..Len(nodes) \/ n = Len(nodes) + 1
      BY <1>0, <1>3
    <3> HIDE DEF e
    <3> QED BY <1>1, <1>3, <3>1 DEF NodesOK
  <2> QED BY <1>3, <2>1 DEF NodesOK
<1> DEFINE Stores == [at : {MaxHeight} \cup {NextOf(p, l) : p \in Nat, l \in Levels}, value : Int]
<1>5. memory' = memory \/ memory' = Append(memory, store)
  BY DEF Add
<1>6. /\ memory' \in Seq(Stores) /\ Len(memory') \in Nat /\ Len(memory) <= Len(memory')
      /\ \A t \in 1..Len(memory) : memory'[t] = memory[t]
      /\ \A t \in 1..Len(memory') : t \in 1..Len(memory) \/ memory'[t] = store
  <2>1. store \in Stores /\ memory \in Seq(Stores)
    BY DEF MemoryOK
  <2> HIDE DEF store, Stores
  <2>2. CASE memory' = memory
    BY <1>0, <2>1, <2>2
  <2>3. CASE memory' = Append(memory, store)
    <3>1. /\ memory' \in Seq(Stores) /\ Len(memory') = Len(memory) + 1
          /\ \A t \in 1..Len(memory) : memory'[t] = memory[t]
          /\ memory'[Len(memory) + 1] = store
      BY <2>1, <2>3, AppendProperties
    <3>2. \A t \in 1..Len(memory') : t \in 1..Len(memory) \/ t = Len(memory) + 1
      BY <1>0, <3>1
    <3> QED BY <1>0, <3>1, <3>2
  <2> QED BY <1>5, <2>2, <2>3
<1>7. Grows
  BY <1>0, <1>3, <1>6 DEF Grows
<1>8. \A t : \A p \in Nat : \A l : Sets(t, p, l)' <=> Sets(t, p, l)
  <2>1. ASSUME NEW t, NEW p \in Nat, NEW l PROVE Sets(t, p, l)' <=> Sets(t, p, l)
    <3>1. t \in 1..Len(memory) => t \in 1..Len(memory')
      BY <1>0, <1>6
    <3>2. NextOf(p, l) # MaxHeight
      BY Places
    <3> QED BY <1>6, <3>1, <3>2 DEF Sets
  <2> QED BY <2>1
<1>9. \A t, n, l : Links(t, n, l)' <=> Links(t, n, l)
  <2>1. ASSUME NEW t, NEW n, NEW l, Links(t, n, l)' PROVE Links(t, n, l)
    <3>1. PICK p \in 0..Len(nodes') : memory'[t].at = NextOf(p, l)
      BY <2>1 DEF Links
    <3>2. p \in Nat /\ t \in 1..Len(memory') /\ memory'[t].value = n
      BY <1>0, <1>3, <2>1 DEF Links
    <3>3. Sets(t, p, l)'
      BY <3>1, <3>2 DEF Sets
    <3>4. Sets(t, p, l) /\ t \in 1..Len(memory)
      BY <3>2, <3>3, <1>8 DEF Sets
    <3>5. p \in 0..Len(nodes)
      BY <3>2, <3>4, Lengths
    <3> QED BY <1>6, <3>1, <3>2, <3>4, <3>5 DEF Links
  <2>2. ASSUME NEW t, NEW n, NEW l, Links(t, n, l) PROVE Links(t, n, l)'
    <3>1. PICK p \in 0..Len(nodes) : memory[t].at = NextOf(p, l)
      BY <2>2 DEF Links
    <3>2. p \in 0..Len(nodes') /\ t \in 1..Len(memory) /\ t \in 1..Len(memory')
      BY <1>0, <1>3, <1>6, <2>2 DEF Links
    <3> QED BY <1>6, <2>2, <3>1, <3>2 DEF Links
  <2> QED BY <2>1, <2>2
<1>10. MemoryOK'
  <2>1. ASSUME NEW t \in 1..Len(memory')
        PROVE  \/ memory'[t].at = MaxHeight /\ memory'[t].value \in 1..kMaxHeight
               \/ /\ \E p \in 0..Len(nodes'), l \in Levels : memory'[t].at = NextOf(p, l)
                  /\ memory'[t].value \in {Null} \cup 1..Len(nodes')
    <3>1. CASE memory'[t] = store
      BY <3>1
    <3>2. CASE t \in 1..Len(memory)
      <4>1. 0..Len(nodes) \subseteq 0..Len(nodes') /\ 1..Len(nodes) \subseteq 1..Len(nodes')
        BY <1>0, <1>3
      <4>2. CASE memory[t].at = MaxHeight /\ memory[t].value \in 1..kMaxHeight
        BY <1>6, <3>2, <4>2
      <4>3. CASE /\ \E p \in 0..Len(nodes), l \in Levels : memory[t].at = NextOf(p, l)
                 /\ memory[t].value \in {Null} \cup 1..Len(nodes)
        <5>1. memory'[t] = memory[t]
          BY <1>6, <3>2
        <5> HIDE DEF Levels
        <5> QED BY <4>1, <4>3, <5>1
      <4> QED BY <3>2, <4>2, <4>3 DEF MemoryOK
    <3> QED BY <1>6, <3>1, <3>2
  <2> QED BY <1>6, <2>1 DEF MemoryOK
<1> QED BY <1>3, <1>4, <1>7, <1>8, <1>9, <1>10

-----------------------------------------------------------------------------
(* A pass of the loop of Insert: prev at its level, the last store to its  *)
(* link, and the node that store refers to.                                *)

Level     == inserting.linked
PrevNode  == inserting.prev[Level]
LastStore == Greatest(StoresTo(NextOf(PrevNode, Level)) \cup {0})
NextNode  == ValueAt(NextOf(PrevNode, Level), LastStore)

LEMMA LinkFinds ==
  ASSUME NodesOK, MemoryOK, InsertingOK, Bounds, Link
  PROVE  /\ inserting # Idle /\ inserting.height \in 1..kMaxHeight
         /\ Level \in 0..(inserting.height - 1) /\ Level \in Levels /\ Len(nodes) \in Nat \ {0}
         /\ PrevNode \in 0..(Len(nodes) - 1)
         /\ PrevNode # head_ => /\ Before(nodes[PrevNode], nodes[Len(nodes)])
                                /\ \E t \in 1..Len(memory) : Sets(t, PrevNode, Level)
         /\ LastStore \in 0..Len(memory)
         /\ LastStore = 0 => PrevNode = head_ /\ NextNode = Null
         /\ LastStore # 0 => /\ Sets(LastStore, PrevNode, Level)
                             /\ NextNode = memory[LastStore].value
         /\ \A s : Sets(s, PrevNode, Level) => s <= LastStore
         /\ NextNode \in {Null} \cup 1..Len(nodes)
<1>0. Len(nodes) \in Nat /\ Len(memory) \in Nat /\ kMaxHeight \in Nat \ {0}
  BY Lengths DEF Bounds
<1>1. inserting # Idle
  BY DEF Link, Idle
<1>2. /\ inserting.height \in 1..kMaxHeight
      /\ Level \in 0..(inserting.height - 1)
      /\ Len(nodes) # 0
  BY <1>0, <1>1 DEF InsertingOK, Level
<1>3. Level \in Levels /\ Level \in inserting.linked..(kMaxHeight - 1)
  BY <1>0, <1>2 DEF Levels, Level
<1>4. /\ PrevNode \in 0..(Len(nodes) - 1)
      /\ PrevNode # head_ => /\ Before(nodes[PrevNode], nodes[Len(nodes)])
                             /\ \E t \in 1..Len(memory) : Sets(t, PrevNode, Level)
  BY <1>1, <1>3 DEF InsertingOK, PrevNode, PrevIs
<1>5. PrevNode \in Nat
  BY <1>0, <1>4
<1> DEFINE T == StoresTo(NextOf(PrevNode, Level)) \cup {0}
<1>6. T \in SUBSET (0..Len(memory)) /\ T # {}
  <2>1. DOMAIN memory = 1..Len(memory)
    BY LenProperties DEF MemoryOK
  <2>2. StoresTo(NextOf(PrevNode, Level)) \subseteq 1..Len(memory)
    BY <2>1 DEF StoresTo
  <2>3. 1..Len(memory) \subseteq 0..Len(memory) /\ 0 \in 0..Len(memory)
    BY <1>0
  <2> QED BY <2>2, <2>3
<1>7. LastStore \in T /\ \A s \in T : s <= LastStore
  <2> HIDE DEF T
  <2>1. Greatest(T) \in T /\ \A s \in T : s <= Greatest(T)
    BY <1>0, <1>6, GreatestIs
  <2> QED BY <2>1 DEF LastStore, T
<1>8. \A s : Sets(s, PrevNode, Level) <=> s \in StoresTo(NextOf(PrevNode, Level))
  <2>1. DOMAIN memory = 1..Len(memory)
    BY LenProperties DEF MemoryOK
  <2> QED BY <2>1 DEF StoresTo, Sets
<1>9. LastStore = 0 => PrevNode = head_ /\ NextNode = Null
  <2>1. ASSUME LastStore = 0 PROVE PrevNode = head_
    <3>1. \A t \in 1..Len(memory) : ~ Sets(t, PrevNode, Level)
      <4>1. ASSUME NEW t \in 1..Len(memory), Sets(t, PrevNode, Level) PROVE FALSE
        BY <1>0, <1>7, <1>8, <2>1, <4>1
      <4> QED BY <4>1
    <3> QED BY <1>4, <3>1
  <2> QED BY <2>1, Places DEF NextNode, ValueAt
<1>10. LastStore # 0 => Sets(LastStore, PrevNode, Level) /\ NextNode = memory[LastStore].value
  BY <1>7, <1>8 DEF NextNode, ValueAt
<1>11. NextNode \in {Null} \cup 1..Len(nodes)
  <2>1. LastStore # 0 => LastStore \in 1..Len(memory)
    BY <1>10 DEF Sets
  <2> QED BY <1>5, <1>9, <1>10, <2>1, Lengths
<1> QED BY <1>0, <1>1, <1>2, <1>3, <1>4, <1>6, <1>7, <1>8, <1>9, <1>10, <1>11

LEMMA LinkStores ==
  ASSUME NodesOK, MemoryOK, InsertingOK, Bounds, Link
  PROVE  /\ nodes' = nodes /\ Grows /\ Len(memory') = Len(memory) + 2
         /\ memory'[Len(memory) + 1].value = NextNode
         /\ memory'[Len(memory) + 2].value = Len(nodes)
         /\ \A t : \A p \in Nat : \A l :
              Sets(t, p, l)' <=> \/ Sets(t, p, l)
                                 \/ t = Len(memory) + 1 /\ p = Len(nodes) /\ l = Level
                                 \/ t = Len(memory) + 2 /\ p = PrevNode /\ l = Level
         /\ \A t, n, l :
              Links(t, n, l)' <=> \/ Links(t, n, l)
                                  \/ t = Len(memory) + 1 /\ n = NextNode /\ l = Level
                                  \/ t = Len(memory) + 2 /\ n = Len(nodes) /\ l = Level
         /\ MemoryOK'
<1> DEFINE A == [at |-> NextOf(Len(nodes), Level), value |-> NextNode]
           B == [at |-> NextOf(PrevNode, Level), value |-> Len(nodes)]
           Stores == [at : {MaxHeight} \cup {NextOf(p, l) : p \in Nat, l \in Levels}, value : Int]
           M == Len(memory)
           N == Len(nodes)
<1>0. /\ N \in Nat \ {0} /\ M \in Nat /\ Level \in Levels /\ PrevNode \in 0..(N - 1)
      /\ NextNode \in {Null} \cup 1..N
  BY LinkFinds, Lengths
<1>a. PrevNode \in Nat /\ PrevNode \in 0..N /\ N \in 0..N /\ N \in 1..N
  BY <1>0
<1>1. nodes' = nodes /\ memory' = memory \o <<A, B>>
  BY DEF Link, Linked, NextNode, LastStore, PrevNode, Level, Current
<1>2. A \in Stores /\ B \in Stores /\ memory \in Seq(Stores)
  BY <1>0, <1>a DEF MemoryOK, Null
<1>3. /\ memory' \in Seq(Stores) /\ Len(memory') = M + 2
      /\ \A t \in 1..M : memory'[t] = memory[t]
      /\ memory'[M + 1] = A /\ memory'[M + 2] = B
  <2> HIDE DEF A, B, Stores
  <2>1. <<A, B>> \in Seq(Stores) /\ Len(<<A, B>>) = 2 /\ <<A, B>>[1] = A /\ <<A, B>>[2] = B
    BY <1>2
  <2>2. /\ memory' \in Seq(Stores) /\ Len(memory') = M + 2
        /\ \A i \in 1..(M + 2) : memory'[i] = IF i <= M THEN memory[i] ELSE <<A, B>>[i - M]
    BY <1>1, <1>2, <2>1, ConcatProperties
  <2>3. M + 1 \in 1..(M + 2) /\ M + 2 \in 1..(M + 2) /\ ~ (M + 1 <= M) /\ ~ (M + 2 <= M)
        /\ (M + 1) - M = 1 /\ (M + 2) - M = 2
    BY <1>0
  <2>4. \A t \in 1..M : t \in 1..(M + 2) /\ t <= M
    BY <1>0
  <2> QED BY <2>1, <2>2, <2>3, <2>4
<1>4. Grows
  BY <1>0, <1>1, <1>3 DEF Grows
<1>5. 1..Len(memory') = 1..M \cup {M + 1, M + 2}
  BY <1>0, <1>3
<1>6. ASSUME NEW t, NEW p \in Nat, NEW l
      PROVE  Sets(t, p, l)' <=> \/ Sets(t, p, l)
                                \/ t = M + 1 /\ p = N /\ l = Level
                                \/ t = M + 2 /\ p = PrevNode /\ l = Level
  <2>0. /\ NextOf(N, Level) = NextOf(p, l) <=> N = p /\ Level = l
        /\ NextOf(PrevNode, Level) = NextOf(p, l) <=> PrevNode = p /\ Level = l
        /\ M + 1 # M + 2 /\ M + 1 \notin 1..M /\ M + 2 \notin 1..M
    BY <1>0, Places
  <2>1. CASE t \in 1..M
    BY <1>3, <1>5, <2>0, <2>1 DEF Sets
  <2>2. CASE t = M + 1
    BY <1>3, <1>5, <2>0, <2>2 DEF Sets
  <2>3. CASE t = M + 2
    BY <1>3, <1>5, <2>0, <2>3 DEF Sets
  <2>4. CASE t \notin 1..Len(memory')
    BY <1>5, <2>4 DEF Sets
  <2> QED BY <1>5, <2>1, <2>2, <2>3, <2>4
<1>7. ASSUME NEW t, NEW n, NEW l
      PROVE  Links(t, n, l)' <=> \/ Links(t, n, l)
                                 \/ t = M + 1 /\ n = NextNode /\ l = Level
                                 \/ t = M + 2 /\ n = N /\ l = Level
  <2>0. /\ M + 1 # M + 2 /\ M + 1 \notin 1..M /\ M + 2 \notin 1..M
        /\ \A q : \A p \in 0..N : NextOf(q, Level) = NextOf(p, l) <=> q = p /\ Level = l
    BY <1>0, Places
  <2>1. CASE t \in 1..M
    BY <1>1, <1>3, <1>5, <2>0, <2>1 DEF Links
  <2>2. CASE t = M + 1
    <3>1. Links(t, n, l)' <=> n = NextNode /\ \E p \in 0..N : NextOf(N, Level) = NextOf(p, l)
      BY <1>1, <1>3, <1>5, <2>2 DEF Links
    <3>2. (\E p \in 0..N : NextOf(N, Level) = NextOf(p, l)) <=> Level = l
      BY <1>a, <2>0
    <3> QED BY <2>0, <2>2, <3>1, <3>2 DEF Links
  <2>3. CASE t = M + 2
    <3>0. t \in 1..Len(memory') /\ memory'[t].value = N /\ memory'[t].at = NextOf(PrevNode, Level)
      BY <1>3, <1>5, <2>3
    <3>1. Links(t, n, l)' <=> n = N /\ \E p \in 0..N : NextOf(PrevNode, Level) = NextOf(p, l)
      <4> HIDE DEF M
      <4> QED BY <1>1, <3>0 DEF Links
    <3>2. (\E p \in 0..N : NextOf(PrevNode, Level) = NextOf(p, l)) <=> Level = l
      BY <1>a, <2>0
    <3> QED BY <2>0, <2>3, <3>1, <3>2 DEF Links
  <2>4. CASE t \notin 1..Len(memory')
    BY <1>5, <2>4 DEF Links
  <2> QED BY <1>5, <2>1, <2>2, <2>3, <2>4
<1>8. MemoryOK'
  <2>1. ASSUME NEW t \in 1..Len(memory')
        PROVE  \/ memory'[t].at = MaxHeight /\ memory'[t].value \in 1..kMaxHeight
               \/ /\ \E p \in 0..Len(nodes'), l \in Levels : memory'[t].at = NextOf(p, l)
                  /\ memory'[t].value \in {Null} \cup 1..Len(nodes')
    <3>1. CASE t \in 1..M
      BY <1>1, <1>3, <3>1 DEF MemoryOK
    <3>2. CASE t = M + 1
      BY <1>0, <1>a, <1>1, <1>3, <3>2
    <3>3. CASE t = M + 2
      BY <1>0, <1>a, <1>1, <1>3, <3>3
    <3> QED BY <1>5, <3>1, <3>2, <3>3
  <2> QED BY <1>3, <2>1 DEF MemoryOK
<1>9. \A t : \A p \in Nat : \A l :
        Sets(t, p, l)' <=> \/ Sets(t, p, l)
                           \/ t = M + 1 /\ p = N /\ l = Level
                           \/ t = M + 2 /\ p = PrevNode /\ l = Level
  BY <1>6
<1>10. \A t, n, l :
         Links(t, n, l)' <=> \/ Links(t, n, l)
                             \/ t = M + 1 /\ n = NextNode /\ l = Level
                             \/ t = M + 2 /\ n = N /\ l = Level
  BY <1>7
<1>11. memory'[M + 1].value = NextNode /\ memory'[M + 2].value = N
  BY <1>3
<1> QED BY <1>1, <1>3, <1>4, <1>8, <1>9, <1>10, <1>11

-----------------------------------------------------------------------------
(* The writer's invariant is kept by Add.                                  *)

LEMMA PrevOfIs ==
  ASSUME NodesOK, MemoryOK, NEW e \in Entry, NEW l \in Levels
  PROVE  /\ PrevOf(e)[l] \in 0..Len(nodes)
         /\ PrevOf(e)[l] # head_ => /\ Before(nodes[PrevOf(e)[l]], e)
                                    /\ \E t \in 1..Len(memory) : Sets(t, PrevOf(e)[l], l)
         /\ \A n \in 1..Len(nodes), t \in 1..Len(memory) :
              Sets(t, n, l) /\ Before(nodes[n], e)
                => \/ n = PrevOf(e)[l]
                   \/ PrevOf(e)[l] # head_ /\ Before(nodes[n], nodes[PrevOf(e)[l]])
<1> DEFINE At == {n \in DOMAIN nodes : Before(nodes[n], e) /\ StoresTo(NextOf(n, l)) # {}}
           Best == CHOOSE n \in At : \A m \in At : ~Before(nodes[n], nodes[m])
<1>0. /\ Len(nodes) \in Nat /\ DOMAIN nodes = 1..Len(nodes) /\ DOMAIN memory = 1..Len(memory)
      /\ \A n \in 1..Len(nodes) : nodes[n] \in Entry /\ nodes[n].tag <= 2 * Len(nodes) + 1
  <2>1. Len(nodes) \in Nat /\ DOMAIN nodes = 1..Len(nodes) /\ DOMAIN memory = 1..Len(memory)
    BY LenProperties DEF NodesOK, MemoryOK
  <2>2. ASSUME NEW n \in 1..Len(nodes)
        PROVE  nodes[n] \in Entry /\ nodes[n].tag <= 2 * Len(nodes) + 1
    <3>1. nodes[n] \in Entry /\ nodes[n].tag \in {2 * n, 2 * n + 1}
      BY NodesAreOrdered DEF NodesOK
    <3> QED BY <2>1, <3>1
  <2> QED BY <2>1, <2>2
<1>1. PrevOf(e)[l] = IF At = {} THEN head_ ELSE Best
  <2>1. {n \in {m \in DOMAIN nodes : Before(nodes[m], e)} : StoresTo(NextOf(n, l)) # {}} = At
    OBVIOUS
  <2> QED BY <2>1 DEF PrevOf, Levels
<1>2. \A n \in At : n \in 1..Len(nodes) /\ \E t \in 1..Len(memory) : Sets(t, n, l)
  BY <1>0 DEF StoresTo, Sets
<1>3. \A n \in 1..Len(nodes), t \in 1..Len(memory) :
        Sets(t, n, l) /\ Before(nodes[n], e) => n \in At
  BY <1>0 DEF StoresTo, Sets
<1>4. CASE At = {}
  <2>1. PrevOf(e)[l] = head_ /\ head_ \in 0..Len(nodes)
    BY <1>0, <1>1, <1>4 DEF head_
  <2> HIDE DEF At
  <2> QED BY <1>3, <1>4, <2>1
<1>5. CASE At # {}
  <2> DEFINE S == {nodes[n] : n \in At}
  <2>1. S \in SUBSET Entry /\ S # {} /\ \A f \in S : f.tag <= 2 * Len(nodes) + 1
    BY <1>0, <1>5
  <2>2. 2 * Len(nodes) + 1 \in Nat
    BY <1>0
  <2>3. PICK f \in S : \A g \in S : ~Before(f, g)
    <3> HIDE DEF S
    <3> QED BY <2>1, <2>2, EntriesHaveEnds
  <2>4. \E n \in At : \A m \in At : ~Before(nodes[n], nodes[m])
    <3>1. PICK n \in At : f = nodes[n]
      OBVIOUS
    <3> QED BY <2>3, <3>1
  <2>5. Best \in At /\ \A m \in At : ~Before(nodes[Best], nodes[m])
    <3> HIDE DEF At
    <3> QED BY <2>4
  <2>6. PrevOf(e)[l] = Best
    BY <1>1, <1>5
  <2>7. Before(nodes[Best], e)
    BY <2>5
  <2> HIDE DEF Best, At
  <2>8. Best \in 0..Len(nodes) /\ Best # head_
    BY <1>0, <1>2, <2>5 DEF head_
  <2>9. ASSUME NEW n \in At PROVE n = Best \/ Before(nodes[n], nodes[Best])
    BY <1>2, <2>5, NodesAreOrdered
  <2> QED BY <1>2, <1>3, <2>5, <2>6, <2>7, <2>8, <2>9
<1> QED BY <1>4, <1>5

LEMMA AddKeeps ==
  ASSUME WriterInv, Bounds, NEW k \in UserKeys, NEW type \in Types,
         NEW h \in 1..kMaxHeight, Add(k, type, h)
  PROVE  WriterInv'
<1> DEFINE N == Len(nodes)
           e == InternalKey(k, N + 1, type)
<1>0. N \in Nat /\ Len(memory) \in Nat /\ kMaxHeight \in Nat \ {0}
  BY Lengths DEF WriterInv, Bounds
<1>1. /\ NodesOK /\ MemoryOK /\ Ascends /\ SetBeforeLinked /\ NonePassed /\ AllLinked
      /\ PublishedOK /\ inserting = Idle
  BY DEF WriterInv, Add
<1>2. /\ Grows /\ Len(nodes') = N + 1 /\ nodes'[N + 1] = e /\ NodesOK' /\ MemoryOK'
      /\ \A t : \A p \in Nat : \A l : Sets(t, p, l)' <=> Sets(t, p, l)
      /\ \A t, n, l : Links(t, n, l)' <=> Links(t, n, l)
  BY <1>1, AddLinksNothing
<1>3. \A t : \A p \in Nat : \A l :
        Sets(t, p, l) => /\ t \in 1..Len(memory) /\ t \in 1..Len(memory')
                         /\ p \in 0..N /\ l \in Levels
                         /\ memory[t].value \in {Null} \cup 1..N /\ memory'[t] = memory[t]
  <2>1. \A t : \A p : \A l : Sets(t, p, l) => t \in 1..Len(memory)
    BY DEF Sets
  <2>2. \A t \in 1..Len(memory) : t \in 1..Len(memory') /\ memory'[t] = memory[t]
    BY <1>2, <1>0, <1>2, Lengths DEF Grows
  <2> QED BY <1>1, <2>1, <2>2, Lengths
<1>4. \A t, n, l : Links(t, n, l) => t \in 1..Len(memory) /\ n \in {Null} \cup 1..N
  <2>1. ASSUME NEW t, NEW n, NEW l, Links(t, n, l)
        PROVE  t \in 1..Len(memory) /\ n \in {Null} \cup 1..N
    <3>1. PICK p \in 0..N : Sets(t, p, l)
      BY <2>1 DEF Links, Sets
    <3> QED BY <1>0, <1>3, <2>1, <3>1 DEF Links
  <2> QED BY <2>1
<1>5. \A n \in 1..N : nodes'[n] = nodes[n]
  BY <1>2 DEF Grows
<1>6. Ascends'
  <2>1. ASSUME NEW t \in 1..Len(memory'), NEW p \in 1..Len(nodes'), NEW n \in 1..Len(nodes'),
               NEW l \in Levels, Sets(t, p, l)', memory'[t].value = n
        PROVE  Before(nodes'[p], nodes'[n])
    <3>1. p \in Nat /\ n \in Nat /\ p # 0 /\ n # Null
      BY <1>0, <1>2 DEF Null
    <3>2. Sets(t, p, l)
      BY <1>2, <2>1, <3>1
    <3>3. t \in 1..Len(memory) /\ p \in 1..N /\ n \in 1..N /\ memory[t].value = n
      <4>1. /\ t \in 1..Len(memory) /\ p \in 0..N /\ memory'[t] = memory[t]
            /\ memory[t].value \in {Null} \cup 1..N
        BY <1>3, <3>1, <3>2
      <4>2. memory[t].value = n
        BY <2>1, <4>1
      <4> QED BY <1>0, <3>1, <4>1, <4>2
    <3>4. Before(nodes[p], nodes[n])
      BY <1>1, <3>2, <3>3 DEF Ascends
    <3> QED BY <1>5, <3>3, <3>4
  <2> QED BY <2>1 DEF Ascends
<1>7. SetBeforeLinked'
  <2>0. \A n \in 1..Len(nodes') : n \in Nat /\ n # Null
    BY <1>0, <1>2 DEF Null
  <2>1. ASSUME NEW t \in 1..Len(memory'), NEW n \in 1..Len(nodes'), NEW l \in Levels,
               Links(t, n, l)'
        PROVE  \E s \in 1..(t - 1) : Sets(s, n, l)'
    <3>1. Links(t, n, l) /\ t \in 1..Len(memory) /\ n \in 1..N
      BY <1>2, <1>4, <2>0, <2>1
    <3>2. PICK s \in 1..(t - 1) : Sets(s, n, l)
      BY <1>1, <3>1 DEF SetBeforeLinked
    <3> QED BY <1>2, <2>0, <3>2
  <2>2. ASSUME NEW t \in 1..Len(memory'), NEW n \in 1..Len(nodes'), NEW l \in Levels,
               Sets(t, n, l)'
        PROVE  /\ \E s \in 1..Len(memory') : Links(s, n, l)'
               /\ \A i \in 0..(l - 1) : \E s \in 1..(t - 1) : Sets(s, n, i)'
    <3>1. Sets(t, n, l) /\ t \in 1..Len(memory) /\ n \in 1..N
      <4>1. Sets(t, n, l)
        BY <1>2, <2>0, <2>2
      <4>2. n \in 0..N /\ n # 0
        <5>1. n \in Nat
          BY <2>0
        <5>2. n \in 0..N
          BY <1>3, <4>1, <5>1
        <5>3. n # 0
          BY <1>0, <1>2
        <5> QED BY <5>2, <5>3
      <4>3. n \in 1..N
        BY <1>0, <4>2
      <4> QED BY <1>3, <2>0, <4>1, <4>3
    <3>2. PICK s \in 1..Len(memory) : Links(s, n, l)
      BY <1>1, <3>1 DEF SetBeforeLinked
    <3>3. s \in 1..Len(memory')
      BY <1>2, <1>0, Lengths DEF Grows
    <3>4. ASSUME NEW i \in 0..(l - 1) PROVE \E r \in 1..(t - 1) : Sets(r, n, i)'
      <4>1. PICK r \in 1..(t - 1) : Sets(r, n, i)
        BY <1>1, <3>1 DEF SetBeforeLinked
      <4> QED BY <1>2, <2>0, <4>1
    <3> QED BY <1>2, <3>2, <3>3, <3>4
  <2> QED BY <2>1, <2>2 DEF SetBeforeLinked
<1>8. NonePassed'
  <2>1. ASSUME NEW p \in 0..Len(nodes'), NEW l \in Levels, NEW t \in 0..Len(memory'),
               NEW s \in 1..Len(memory'), NEW n \in 1..Len(nodes'),
               Sets(t, p, l)' \/ (p = head_ /\ t = 0), Links(s, n, l)',
               Between(p, n, ValueAt(NextOf(p, l), t))'
        PROVE  \E r \in 1..s : t < r /\ Sets(r, p, l)'
    <3>0. p \in Nat /\ n \in Nat /\ n # Null
      BY <1>0, <1>2 DEF Null
    <3>1. Links(s, n, l) /\ s \in 1..Len(memory) /\ n \in 1..N
      BY <1>2, <1>4, <2>1, <3>0
    <3>2. Sets(t, p, l) \/ (p = head_ /\ t = 0)
      BY <1>2, <2>1, <3>0
    <3>3. p \in 0..N /\ t \in 0..Len(memory)
      <4>1. CASE Sets(t, p, l)
        <5>1. t \in 1..Len(memory) /\ p \in 0..N
          BY <1>3, <3>0, <4>1
        <5> QED BY <1>0, <5>1
      <4>2. CASE p = head_ /\ t = 0
        BY <1>0, <4>2 DEF head_
      <4> QED BY <3>2, <4>1, <4>2
    <3>4. ValueAt(NextOf(p, l), t)' = ValueAt(NextOf(p, l), t)
      <4>1. CASE t = 0
        BY <4>1 DEF ValueAt
      <4>2. CASE t # 0
        BY <1>3, <3>0, <3>2, <4>2 DEF ValueAt
      <4> QED BY <4>1, <4>2
    <3>5. ValueAt(NextOf(p, l), t) \in {Null} \cup 1..N
      <4>1. CASE t = 0
        <5>1. p = head_
          BY <3>2, <4>1, <1>0 DEF Sets
        <5> QED BY <4>1, <5>1, Places DEF ValueAt
      <4>2. CASE t # 0
        BY <1>3, <3>0, <3>2, <4>2 DEF ValueAt
      <4> QED BY <4>1, <4>2
    <3>6. p = head_ \/ p \in 1..N
      BY <1>0, <3>3 DEF head_
    <3> DEFINE v == ValueAt(NextOf(p, l), t)
    <3>7. Between(p, n, v)
      <4>1. /\ p = head_ \/ Before(nodes'[p], nodes'[n])
            /\ v = Null \/ Before(nodes'[n], nodes'[v])
        BY <2>1, <3>4 DEF Between
      <4> HIDE DEF v
      <4>2. v \in {Null} \cup 1..N
        BY <3>5 DEF v
      <4> QED BY <1>5, <3>1, <3>6, <4>1, <4>2 DEF Between
    <3>8. PICK r \in 1..s : t < r /\ Sets(r, p, l)
      BY <1>1, <3>1, <3>2, <3>3, <3>7 DEF NonePassed
    <3> QED BY <1>2, <3>0, <3>8
  <2> QED BY <2>1 DEF NonePassed
<1>9. InsertingOK'
  <2>1. inserting' = [height |-> h, linked |-> 0, prev |-> PrevOf(e)]
    BY DEF Add
  <2>2. e \in Entry
    BY <1>0 DEF Bounds, Entry, InternalKey, PackSequenceAndType, kTypeDeletion, kTypeValue
  <2>3. PICK x \in Nat : x = N + 1
    BY <1>0
  <2>4. x \in 1..Len(nodes') /\ x = Len(nodes') /\ x \notin 0..N /\ x - 1 = N
    BY <1>0, <1>2, <2>3
  <2>5. /\ inserting'.height \in 1..kMaxHeight /\ inserting'.linked \in 0..(inserting'.height - 1)
        /\ inserting' = [height |-> inserting'.height, linked |-> inserting'.linked,
                         prev |-> inserting'.prev]
        /\ inserting'.linked = 0 /\ inserting'.prev = PrevOf(e)
        /\ inserting'.linked..(kMaxHeight - 1) = Levels
    BY <1>0, <2>1 DEF Levels
  <2>6. \A l \in Levels : (\E t \in 1..Len(memory') : Sets(t, x, l)') <=> l < inserting'.linked
    <3>1. \A l \in Levels : ~ (l < inserting'.linked)
      BY <2>5 DEF Levels
    <3>2. \A t : \A l : ~ Sets(t, x, l)'
      <4>1. ASSUME NEW t, NEW l, Sets(t, x, l)' PROVE FALSE
        <5>1. Sets(t, x, l)
          BY <1>2, <4>1
        <5> QED BY <1>3, <2>4, <5>1
      <4> QED BY <4>1
    <3> QED BY <3>1, <3>2
  <2>7. ASSUME NEW l \in Levels
        PROVE  \E prev \in 0..(x - 1) : prev = inserting'.prev[l] /\ PrevIs(x, l, prev)'
    <3> HIDE DEF e
    <3>0. PICK prev : prev = PrevOf(e)[l]
      OBVIOUS
    <3>1. /\ prev \in 0..N
          /\ prev # head_ => /\ Before(nodes[prev], e)
                             /\ \E t \in 1..Len(memory) : Sets(t, prev, l)
          /\ \A n \in 1..N, t \in 1..Len(memory) :
               Sets(t, n, l) /\ Before(nodes[n], e)
                 => \/ n = prev
                    \/ prev # head_ /\ Before(nodes[n], nodes[prev])
      BY <1>1, <2>2, <3>0, PrevOfIs
    <3>2. prev # head_ => prev \in 1..N
      BY <1>0, <3>1 DEF head_
    <3>3. prev \in Nat /\ (\A n \in 1..N : n \in Nat) /\ nodes'[x] = e
      BY <1>0, <1>2, <2>3, <3>1
    <3>4. prev # head_ => /\ Before(nodes'[prev], nodes'[x])
                          /\ \E t \in 1..Len(memory') : Sets(t, prev, l)'
      <4>1. ASSUME prev # head_ PROVE \E t \in 1..Len(memory') : Sets(t, prev, l)'
        <5>1. PICK t : Sets(t, prev, l)
          BY <3>1, <4>1
        <5> QED BY <1>2, <1>3, <3>3, <5>1
      <4> QED BY <1>5, <3>1, <3>2, <3>3, <4>1
    <3>5. ASSUME NEW n \in 1..N, NEW t \in 1..Len(memory'), Sets(t, n, l)',
                 Before(nodes'[n], nodes'[x])
          PROVE  n = prev \/ (prev # head_ /\ Before(nodes'[n], nodes'[prev]))
      <4>1. Sets(t, n, l) /\ t \in 1..Len(memory) /\ Before(nodes[n], e)
        BY <1>2, <1>3, <1>5, <3>3, <3>5
      <4> QED BY <1>5, <3>1, <3>2, <4>1
    <3>6. PrevIs(x, l, prev)'
      BY <2>4, <3>4, <3>5 DEF PrevIs
    <3>7. prev \in 0..(x - 1)
      BY <2>4, <3>1
    <3> QED BY <2>5, <3>0, <3>6, <3>7
  <2>8. \A l \in inserting'.linked..(kMaxHeight - 1) :
          \E prev \in 0..(x - 1) : prev = inserting'.prev[l] /\ PrevIs(x, l, prev)'
    BY <2>5, <2>7
  <2> HIDE DEF N, e
  <2> QED BY <2>4, <2>5, <2>6, <2>8 DEF InsertingOK
<1>10. AllLinked'
  <2>1. inserting'.linked = 0 /\ inserting' # Idle
    BY <1>0 DEF Add, Idle
  <2>2. ASSUME NEW n \in 1..N PROVE \E t \in 1..Len(memory') : Sets(t, n, 0)'
    <3>1. PICK t \in 1..Len(memory) : Sets(t, n, 0)
      BY <1>1 DEF AllLinked
    <3>2. n \in Nat
      BY <1>0
    <3>3. Sets(t, n, 0)' /\ t \in 1..Len(memory')
      BY <1>2, <1>3, <3>1, <3>2
    <3> QED BY <3>3
  <2>3. \A n \in 1..Len(nodes') : n \in 1..N \/ n = Len(nodes')
    BY <1>0, <1>2
  <2> QED BY <2>1, <2>2, <2>3 DEF AllLinked
<1>11. PublishedOK'
  <2>1. published' = published
    BY DEF Add
  <2>2. /\ published.sequence \in 0..Len(nodes) /\ published.view \in 0..Len(memory)
        /\ published = [sequence |-> published.sequence, view |-> published.view]
        /\ InView(published.sequence, published.view)
    BY <1>1 DEF PublishedOK
  <2>3. published.sequence \in 0..Len(nodes') /\ published.view \in 0..Len(memory')
    BY <1>0, <1>2, <2>2, Lengths DEF Grows
  <2>4. InView(published.sequence, published.view)'
    BY <1>2, <2>1, <2>2 DEF InView
  <2> QED BY <2>1, <2>2, <2>3, <2>4 DEF PublishedOK
<1> QED BY <1>2, <1>6, <1>7, <1>8, <1>9, <1>10, <1>11 DEF WriterInv

-----------------------------------------------------------------------------
(* The writer's invariant is kept by a pass of Insert's loop.              *)

LEMMA LinkKeeps ==
  ASSUME WriterInv, Bounds, Link
  PROVE  WriterInv'
<1>0. /\ NodesOK /\ MemoryOK /\ Ascends /\ SetBeforeLinked /\ NonePassed /\ InsertingOK
      /\ AllLinked /\ PublishedOK /\ kMaxHeight \in Nat \ {0}
  BY DEF WriterInv, Bounds
<1>1. PICK m \in Nat, x \in Nat, l0 \in Levels, q \in Nat, v \in {Null} \cup Nat, t0 \in Nat :
        /\ m = Len(memory) /\ x = Len(nodes) /\ l0 = Level /\ q = PrevNode /\ v = NextNode
        /\ t0 = LastStore
  <2>1. /\ Len(memory) \in Nat /\ Len(nodes) \in Nat /\ Level \in Levels
        /\ PrevNode \in 0..(Len(nodes) - 1) /\ LastStore \in 0..Len(memory)
        /\ NextNode \in {Null} \cup 1..Len(nodes)
    BY <1>0, LinkFinds, Lengths
  <2>2. PrevNode \in Nat /\ LastStore \in Nat /\ NextNode \in {Null} \cup Nat
    BY <2>1
  <2> QED BY <2>1, <2>2
<1>2. /\ x \in 1..x /\ q \in 0..(x - 1) /\ v \in {Null} \cup 1..x /\ t0 \in 0..m
      /\ q # head_ => Before(nodes[q], nodes[x]) /\ \E s \in 1..m : Sets(s, q, l0)
      /\ t0 = 0 => q = head_ /\ v = Null
      /\ t0 # 0 => Sets(t0, q, l0) /\ v = memory[t0].value
      /\ \A s : Sets(s, q, l0) => s <= t0
  <2>1. x \in Nat \ {0}
    BY <1>0, <1>1, LinkFinds
  <2> QED BY <1>0, <1>1, <2>1, LinkFinds
<1>3. /\ nodes' = nodes /\ Grows /\ Len(memory') = m + 2 /\ MemoryOK'
      /\ memory'[m + 1].value = v /\ memory'[m + 2].value = x
      /\ \A t \in 1..m : memory'[t] = memory[t]
      /\ \A t : \A p \in Nat : \A l :
           Sets(t, p, l)' <=> \/ Sets(t, p, l)
                              \/ t = m + 1 /\ p = x /\ l = l0
                              \/ t = m + 2 /\ p = q /\ l = l0
      /\ \A t, n, l :
           Links(t, n, l)' <=> \/ Links(t, n, l)
                               \/ t = m + 1 /\ n = v /\ l = l0
                               \/ t = m + 2 /\ n = x /\ l = l0
  BY <1>0, <1>1, LinkStores DEF Grows
<1>4. /\ \A t \in 1..m : ~ Sets(t, x, l0)
      /\ PrevIs(x, l0, q)
      /\ \A l \in Levels : (\E t \in 1..m : Sets(t, x, l)) <=> l < l0
      /\ \A l \in l0..(kMaxHeight - 1) :
           \E prev \in 0..(x - 1) : prev = inserting.prev[l] /\ PrevIs(x, l, prev)
      /\ inserting.height \in 1..kMaxHeight /\ inserting.linked = l0
      /\ l0 \in 0..(inserting.height - 1)
      /\ inserting = [height |-> inserting.height, linked |-> inserting.linked,
                      prev |-> inserting.prev]
  <2>1. inserting # Idle
    BY <1>0, LinkFinds
  <2>2. /\ inserting.linked = l0 /\ q = inserting.prev[l0] /\ l0 \in l0..(kMaxHeight - 1)
        /\ ~ (l0 < l0)
    BY <1>0, <1>1 DEF Level, PrevNode, Levels
  <2>3. PICK y \in 1..Len(nodes) :
          /\ y = Len(nodes)
          /\ inserting.height \in 1..kMaxHeight /\ inserting.linked \in 0..(inserting.height - 1)
          /\ inserting = [height |-> inserting.height, linked |-> inserting.linked,
                          prev |-> inserting.prev]
          /\ \A l \in Levels : (\E t \in 1..Len(memory) : Sets(t, y, l)) <=> l < inserting.linked
          /\ \A l \in inserting.linked..(kMaxHeight - 1) :
               \E prev \in 0..(y - 1) : prev = inserting.prev[l] /\ PrevIs(y, l, prev)
    BY <1>0, <2>1 DEF InsertingOK
  <2>4. y = x
    BY <1>1, <2>3
  <2> QED BY <1>1, <2>2, <2>3, <2>4
<1>5. \A t, p, l : Sets(t, p, l) => t \in 1..m
  BY <1>1 DEF Sets
<1>6. \A t, n, l : Links(t, n, l) => t \in 1..m /\ memory[t].value = n
  BY <1>1 DEF Links
<1>7. \A t, l : ~ Sets(t, x, l0) /\ ~ Links(t, x, l0)
  <2>1. \A t : ~ Sets(t, x, l0)
    BY <1>4, <1>5
  <2>2. ASSUME NEW t, Links(t, x, l0) PROVE FALSE
    BY <1>0, <1>1, <1>2, <1>6, <2>1, <2>2 DEF SetBeforeLinked
  <2> QED BY <2>1, <2>2
<1>8. ASSUME v # Null
      PROVE  t0 \in 1..m /\ Links(t0, v, l0) /\ v \in 1..x /\ v # x
  <2>1. t0 \in 1..m /\ Sets(t0, q, l0) /\ v = memory[t0].value
    BY <1>2, <1>5, <1>8
  <2>2. q \in 0..Len(nodes)
    BY <1>1, <1>2
  <2>3. Links(t0, v, l0)
    BY <1>1, <2>1, <2>2 DEF Links, Sets
  <2> QED BY <1>2, <1>7, <1>8, <2>1, <2>3
<1>9. /\ \A n \in 1..x : nodes[n] \in Entry /\ ~Before(nodes[n], nodes[n])
      /\ \A i, n \in 1..x : /\ Before(nodes[i], nodes[n]) => ~Before(nodes[n], nodes[i])
                            /\ i # n => Before(nodes[i], nodes[n]) \/ Before(nodes[n], nodes[i])
      /\ \A i, n, o \in 1..x :
           Before(nodes[i], nodes[n]) /\ Before(nodes[n], nodes[o]) => Before(nodes[i], nodes[o])
  BY <1>0, <1>1, NodesAreOrdered
<1>10. /\ x \in 1..x /\ (q # head_ => q \in 1..x) /\ q \in 0..x
       /\ \A n \in 1..x : n # x => n \in 1..(x - 1)
       /\ \A n \in 1..x : n # head_ /\ n # Null /\ n \in Nat
  BY <1>2 DEF head_, Null
<1>11. \A n \in 1..x, t \in 1..m :
         Sets(t, n, l0) /\ Before(nodes[n], nodes[x])
           => n = q \/ (q # head_ /\ Before(nodes[n], nodes[q]))
  <2>1. ASSUME NEW n \in 1..x, NEW t \in 1..m, Sets(t, n, l0), Before(nodes[n], nodes[x])
        PROVE  n = q \/ (q # head_ /\ Before(nodes[n], nodes[q]))
    <3>1. n \in 1..(x - 1)
      BY <1>9, <1>10, <2>1
    <3> QED BY <1>1, <1>4, <2>1, <3>1 DEF PrevIs
  <2> QED BY <2>1
<1>12. v # Null => Before(nodes[x], nodes[v])
  <2>1. ASSUME v # Null, Before(nodes[v], nodes[x]) PROVE FALSE
    <3>1. t0 \in 1..m /\ Links(t0, v, l0) /\ v \in 1..x
      BY <1>8, <2>1
    <3>2. PICK s \in 1..(t0 - 1) : Sets(s, v, l0)
      BY <1>0, <1>1, <3>1 DEF SetBeforeLinked
    <3>3. v = q \/ (q # head_ /\ Before(nodes[v], nodes[q]))
      BY <1>5, <1>11, <2>1, <3>1, <3>2
    <3>4. q # head_
      BY <1>10, <3>1, <3>3
    <3>5. Before(nodes[q], nodes[v])
      BY <1>0, <1>1, <1>2, <1>10, <3>1, <3>4 DEF Ascends
    <3> QED BY <1>9, <1>10, <3>1, <3>3, <3>4, <3>5
  <2>2. ASSUME v # Null PROVE v \in 1..x /\ v # x
    BY <1>8, <2>2
  <2> QED BY <1>9, <1>10, <2>1, <2>2
<1>13. /\ m + 1 \notin 1..m /\ m + 2 \notin 1..m /\ m + 1 # m + 2
       /\ 1..(m + 2) = 1..m \cup {m + 1, m + 2}
  BY <1>1
<1>14. Ascends'
  <2>1. ASSUME NEW t \in 1..Len(memory'), NEW p \in 1..Len(nodes'), NEW n \in 1..Len(nodes'),
               NEW l \in Levels, Sets(t, p, l)', memory'[t].value = n
        PROVE  Before(nodes'[p], nodes'[n])
    <3>0. p \in 1..x /\ n \in 1..x /\ p \in Nat
      BY <1>1, <1>3, <1>10
    <3>1. CASE Sets(t, p, l)
      <4>1. t \in 1..m /\ memory[t].value = n
        BY <1>3, <1>5, <2>1, <3>1
      <4> QED BY <1>0, <1>1, <1>3, <3>0, <3>1, <4>1 DEF Ascends
    <3>2. CASE t = m + 1 /\ p = x /\ l = l0
      BY <1>3, <1>10, <1>12, <2>1, <3>0, <3>2
    <3>3. CASE t = m + 2 /\ p = q /\ l = l0
      BY <1>2, <1>3, <1>10, <2>1, <3>0, <3>3
    <3> QED BY <1>3, <2>1, <3>0, <3>1, <3>2, <3>3
  <2> QED BY <2>1 DEF Ascends
<1>15. SetBeforeLinked'
  <2>1. ASSUME NEW t \in 1..Len(memory'), NEW n \in 1..Len(nodes'), NEW l \in Levels,
               Links(t, n, l)'
        PROVE  \E s \in 1..(t - 1) : Sets(s, n, l)'
    <3>0. n \in 1..x /\ n \in Nat /\ n # Null
      BY <1>1, <1>3, <1>10
    <3>1. CASE Links(t, n, l)
      <4>1. PICK s \in 1..(t - 1) : Sets(s, n, l)
        BY <1>0, <1>1, <1>6, <3>0, <3>1 DEF SetBeforeLinked
      <4> QED BY <1>3, <3>0, <4>1
    <3>2. CASE t = m + 1 /\ n = v /\ l = l0
      <4>1. t0 \in 1..m /\ Links(t0, n, l)
        BY <1>8, <3>0, <3>2
      <4>2. PICK s \in 1..(t0 - 1) : Sets(s, n, l)
        BY <1>0, <1>1, <3>0, <4>1 DEF SetBeforeLinked
      <4>3. s \in 1..(t - 1)
        BY <3>2, <4>1
      <4> QED BY <1>3, <3>0, <4>2, <4>3
    <3>3. CASE t = m + 2 /\ n = x /\ l = l0
      <4>1. m + 1 \in 1..(t - 1) /\ Sets(m + 1, n, l)'
        <5>1. PICK s \in Nat : s = m + 1
          BY <1>1
        <5>2. Sets(s, n, l)' <=> Sets(m + 1, n, l)'
          BY <1>1, <1>3, <5>1 DEF Sets
        <5>3. Sets(s, n, l)'
          BY <1>3, <3>0, <3>3, <5>1
        <5>4. m + 1 \in 1..(t - 1)
          BY <3>3
        <5> QED BY <5>2, <5>3, <5>4
      <4> QED BY <4>1
    <3> QED BY <1>3, <2>1, <3>1, <3>2, <3>3
  <2>2. ASSUME NEW t \in 1..Len(memory'), NEW n \in 1..Len(nodes'), NEW l \in Levels,
               Sets(t, n, l)'
        PROVE  /\ \E s \in 1..Len(memory') : Links(s, n, l)'
               /\ \A i \in 0..(l - 1) : \E s \in 1..(t - 1) : Sets(s, n, i)'
    <3>0. n \in 1..x /\ n \in Nat /\ n # Null
      BY <1>1, <1>3, <1>10
    <3>a. 1..m \subseteq 1..Len(memory')
      BY <1>3, <1>13
    <3>1. CASE Sets(t, n, l)
      <4>1. /\ \E s \in 1..m : Links(s, n, l)
            /\ \A i \in 0..(l - 1) : \E s \in 1..(t - 1) : Sets(s, n, i)
        BY <1>0, <1>1, <1>5, <3>0, <3>1 DEF SetBeforeLinked
      <4> QED BY <1>3, <3>0, <3>a, <4>1
    <3>2. CASE t = m + 1 /\ n = x /\ l = l0
      <4>1. PICK s : s = m + 2
        OBVIOUS
      <4>2. s \in 1..Len(memory') /\ Links(s, n, l)'
        BY <1>3, <1>13, <3>2, <4>1
      <4>3. ASSUME NEW i \in 0..(l - 1) PROVE \E r \in 1..(t - 1) : Sets(r, n, i)'
        <5>1. i \in Levels /\ i < l0
          BY <1>0, <3>2 DEF Levels
        <5>2. PICK r \in 1..m : Sets(r, x, i)
          BY <1>4, <5>1
        <5>3. r \in 1..(t - 1)
          BY <3>2
        <5> QED BY <1>3, <3>0, <3>2, <5>2, <5>3
      <4> QED BY <4>2, <4>3
    <3>3. CASE t = m + 2 /\ n = q /\ l = l0
      <4>1. PICK s \in 1..m : Sets(s, n, l)
        BY <1>2, <1>10, <3>0, <3>3
      <4>2. /\ \E r \in 1..m : Links(r, n, l)
            /\ \A i \in 0..(l - 1) : \E r \in 1..(s - 1) : Sets(r, n, i)
        BY <1>0, <1>1, <3>0, <4>1 DEF SetBeforeLinked
      <4>3. 1..(s - 1) \subseteq 1..(t - 1)
        BY <3>3
      <4> QED BY <1>3, <3>0, <3>a, <4>2, <4>3
    <3> QED BY <1>3, <2>2, <3>0, <3>1, <3>2, <3>3
  <2> QED BY <2>1, <2>2 DEF SetBeforeLinked
<1>16. \A p \in 0..x, l \in Levels, t \in 0..m, s \in 1..m, n \in 1..x :
         /\ Sets(t, p, l) \/ (p = head_ /\ t = 0)
         /\ Links(s, n, l)
         /\ Between(p, n, ValueAt(NextOf(p, l), t))
         => \E r \in 1..s : t < r /\ Sets(r, p, l)
  BY <1>0, <1>1 DEF NonePassed
<1>17. ASSUME NEW n \in 1..x, NEW s, Links(s, n, l0),
              q = head_ \/ Before(nodes[q], nodes[n]), v = Null \/ Before(nodes[n], nodes[v])
       PROVE  FALSE
  <2>1. ValueAt(NextOf(q, l0), t0) = v
    <3>1. CASE t0 = 0
      <4>1. q = head_ /\ v = Null
        BY <1>2, <3>1
      <4> QED BY <3>1, <4>1, Places DEF ValueAt
    <3>2. CASE t0 # 0
      BY <1>2, <3>2 DEF ValueAt
    <3> QED BY <3>1, <3>2
  <2>2. Sets(t0, q, l0) \/ (q = head_ /\ t0 = 0)
    BY <1>2
  <2>3. Between(q, n, ValueAt(NextOf(q, l0), t0))
    BY <1>17, <2>1 DEF Between
  <2>4. s \in 1..m /\ t0 \in 0..m
    BY <1>2, <1>6, <1>17
  <2>5. PICK r \in 1..s : t0 < r /\ Sets(r, q, l0)
    BY <1>10, <1>16, <1>17, <2>2, <2>3, <2>4
  <2> QED BY <1>2, <2>4, <2>5
<1>18. ASSUME NEW p \in 0..x, NEW t \in 0..m, NEW val \in {Null} \cup 1..x,
              Sets(t, p, l0) \/ (p = head_ /\ t = 0), val = ValueAt(NextOf(p, l0), t),
              Between(p, x, val), p # q
       PROVE  \E r \in 1..m : t < r /\ Sets(r, p, l0)
  <2>1. p # x
    BY <1>7, <1>10, <1>18
  <2>2. p # head_ => p \in 1..x /\ t \in 1..m /\ Sets(t, p, l0) /\ Before(nodes[p], nodes[x])
    BY <1>5, <1>18 DEF Between, head_
  <2>3. p # head_ => q # head_ /\ Before(nodes[p], nodes[q])
    BY <1>11, <1>18, <2>2
  <2>4. q # head_
    BY <1>18, <2>3
  <2>5. PICK s0 \in 1..m : Sets(s0, q, l0)
    BY <1>2, <2>4
  <2>6. PICK s \in 1..m : Links(s, q, l0)
    BY <1>0, <1>1, <1>10, <2>4, <2>5 DEF SetBeforeLinked
  <2>7. val = Null \/ Before(nodes[q], nodes[val])
    BY <1>2, <1>9, <1>10, <1>18, <2>4 DEF Between
  <2>8. Between(p, q, val)
    BY <2>3, <2>7 DEF Between
  <2>9. PICK r \in 1..s : t < r /\ Sets(r, p, l0)
    BY <1>10, <1>16, <1>18, <2>4, <2>6, <2>8
  <2> QED BY <1>5, <2>9
<1>19. NonePassed'
  <2>1. ASSUME NEW p \in 0..Len(nodes'), NEW l \in Levels, NEW t \in 0..Len(memory'),
               NEW s \in 1..Len(memory'), NEW n \in 1..Len(nodes'),
               Sets(t, p, l)' \/ (p = head_ /\ t = 0), Links(s, n, l)',
               Between(p, n, ValueAt(NextOf(p, l), t))'
        PROVE  \E r \in 1..s : t < r /\ Sets(r, p, l)'
    <3>0. /\ p \in 0..x /\ p \in Nat /\ n \in 1..x /\ n \in Nat /\ n # Null
          /\ t \in Nat /\ s \in Nat
      BY <1>1, <1>3, <1>10
    <3>1. /\ p = head_ \/ Before(nodes[p], nodes[n])
          /\ ValueAt(NextOf(p, l), t)' = Null
             \/ Before(nodes[n], nodes[ValueAt(NextOf(p, l), t)'])
      BY <1>3, <2>1 DEF Between
    <3>2. CASE Sets(t, p, l) \/ (p = head_ /\ t = 0)
      <4>1. t \in 0..m
        BY <1>1, <1>5, <3>2
      <4>2. ValueAt(NextOf(p, l), t)' = ValueAt(NextOf(p, l), t)
        BY <1>3, <1>5, <3>2 DEF ValueAt
      <4>3. PICK val \in {Null} \cup 1..x : val = ValueAt(NextOf(p, l), t)
        <5>1. CASE t = 0
          <6>1. p = head_
            BY <1>5, <3>2, <5>1
          <6> QED BY <5>1, <6>1, Places DEF ValueAt
        <5>2. CASE t # 0
          BY <1>0, <1>1, <1>5, <3>0, <3>2, <5>2, Lengths DEF ValueAt
        <5> QED BY <5>1, <5>2
      <4>4. Between(p, n, val) /\ Between(p, n, ValueAt(NextOf(p, l), t))
        BY <3>1, <4>2, <4>3 DEF Between
      <4>5. CASE Links(s, n, l)
        <5>1. PICK r \in 1..s : t < r /\ Sets(r, p, l)
          BY <1>6, <1>16, <3>0, <3>2, <4>1, <4>4, <4>5
        <5> QED BY <1>3, <3>0, <5>1
      <4>6. CASE s = m + 1 /\ n = v /\ l = l0
        <5>1. t0 \in 1..m /\ Links(t0, n, l)
          BY <1>8, <3>0, <4>6
        <5>2. PICK r \in 1..t0 : t < r /\ Sets(r, p, l)
          BY <1>16, <3>0, <3>2, <4>1, <4>4, <5>1
        <5>3. r \in 1..s
          BY <4>6, <5>1
        <5> QED BY <1>3, <3>0, <5>2, <5>3
      <4>7. CASE s = m + 2 /\ n = x /\ l = l0
        <5>1. CASE p = q
          <6>1. PICK r \in Nat : r = m + 2
            BY <1>1
          <6>2. r \in 1..s /\ t < r
            BY <1>1, <4>1, <4>7, <6>1
          <6>3. Sets(r, p, l)'
            BY <1>3, <3>0, <4>7, <5>1, <6>1
          <6> QED BY <6>2, <6>3
        <5>2. CASE p # q
          <6>1. PICK r \in 1..m : t < r /\ Sets(r, p, l0)
            BY <1>18, <3>0, <3>2, <4>1, <4>3, <4>4, <4>7, <5>2
          <6>2. r \in 1..s /\ Sets(r, p, l)'
            BY <1>3, <3>0, <4>7, <6>1
          <6> QED BY <6>1, <6>2
        <5> QED BY <5>1, <5>2
      <4> QED BY <1>3, <2>1, <4>5, <4>6, <4>7
    <3>3. CASE t = m + 1 /\ p = x /\ l = l0
      <4>1. ValueAt(NextOf(p, l), t)' = v /\ p # head_
        BY <1>1, <1>3, <1>10, <3>3 DEF ValueAt
      <4>2. Before(nodes[x], nodes[n]) /\ (v = Null \/ Before(nodes[n], nodes[v]))
        BY <3>1, <3>3, <4>1
      <4>3. n # x /\ n # v
        BY <1>9, <3>0, <4>2
      <4>4. Links(s, n, l0)
        BY <1>3, <2>1, <3>3, <4>3
      <4>5. q = head_ \/ Before(nodes[q], nodes[n])
        BY <1>2, <1>9, <1>10, <3>0, <4>2
      <4> QED BY <1>17, <3>0, <4>2, <4>4, <4>5
    <3>4. CASE t = m + 2 /\ p = q /\ l = l0
      <4>1. ValueAt(NextOf(p, l), t)' = x
        BY <1>1, <1>3, <3>4 DEF ValueAt
      <4>2. (q = head_ \/ Before(nodes[q], nodes[n])) /\ Before(nodes[n], nodes[x])
        BY <1>10, <3>1, <3>4, <4>1
      <4>3. n # x
        BY <1>9, <3>0, <4>2
      <4>4. n # v
        BY <1>9, <1>10, <1>12, <3>0, <4>2
      <4>5. Links(s, n, l0)
        BY <1>3, <2>1, <3>4, <4>3, <4>4
      <4>6. PICK s0 \in 1..(s - 1) : Sets(s0, n, l0)
        BY <1>0, <1>1, <1>6, <3>0, <4>5 DEF SetBeforeLinked
      <4>7. n = q \/ (q # head_ /\ Before(nodes[n], nodes[q]))
        BY <1>5, <1>11, <3>0, <4>2, <4>6
      <4> QED BY <1>9, <1>10, <3>0, <4>2, <4>7
    <3> QED BY <1>3, <2>1, <3>0, <3>2, <3>3, <3>4
  <2> QED BY <2>1 DEF NonePassed
<1>20. InsertingOK'
  <2>1. CASE inserting' = Idle
    BY <2>1 DEF InsertingOK
  <2>2. CASE inserting' # Idle
    <3>1. inserting' = [inserting EXCEPT !.linked = @ + 1] /\ l0 + 1 # inserting.height
      BY <1>4, <2>2 DEF Link
    <3>2. /\ inserting'.height = inserting.height /\ inserting'.linked = l0 + 1
          /\ inserting'.prev = inserting.prev
          /\ inserting' = [height |-> inserting'.height, linked |-> inserting'.linked,
                           prev |-> inserting'.prev]
      BY <1>4, <3>1
    <3>3. inserting'.height \in 1..kMaxHeight /\ inserting'.linked \in 0..(inserting'.height - 1)
      BY <1>0, <1>4, <3>1, <3>2
    <3>4. ASSUME NEW l \in Levels
          PROVE  (\E t \in 1..(m + 2) : Sets(t, x, l)') <=> l < l0 + 1
      <4>1. CASE l = l0
        <5>1. PICK t \in Nat : t = m + 1
          BY <1>1
        <5>2. Sets(t, x, l)' /\ t \in 1..(m + 2)
          BY <1>1, <1>3, <4>1, <5>1
        <5>3. l < l0 + 1
          BY <4>1 DEF Levels
        <5> QED BY <5>2, <5>3
      <4>2. CASE l # l0
        <5>1. \A t : Sets(t, x, l)' <=> Sets(t, x, l)
          BY <1>3, <4>2
        <5>2. l < l0 + 1 <=> l < l0
          BY <4>2 DEF Levels
        <5>3. (\E t \in 1..(m + 2) : Sets(t, x, l)) <=> (\E t \in 1..m : Sets(t, x, l))
          BY <1>5, <1>13
        <5> QED BY <1>4, <5>1, <5>2, <5>3
      <4> QED BY <4>1, <4>2
    <3>5. ASSUME NEW l \in (l0 + 1)..(kMaxHeight - 1)
          PROVE  \E prev \in 0..(x - 1) : prev = inserting'.prev[l] /\ PrevIs(x, l, prev)'
      <4>1. l \in l0..(kMaxHeight - 1) /\ l # l0
        BY <1>0 DEF Levels
      <4>2. PICK prev \in 0..(x - 1) : prev = inserting.prev[l] /\ PrevIs(x, l, prev)
        BY <1>4, <4>1
      <4>3. \A t : \A p \in Nat : Sets(t, p, l)' <=> Sets(t, p, l)
        BY <1>3, <4>1
      <4>4. prev \in Nat /\ \A n \in 1..(x - 1) : n \in Nat
        OBVIOUS
      <4>5. PrevIs(x, l, prev)'
        <5>1. ASSUME prev # head_
              PROVE  Before(nodes'[prev], nodes'[x]) /\ \E t \in 1..Len(memory') : Sets(t, prev, l)'
          <6>1. PICK t \in 1..Len(memory) : Sets(t, prev, l)
            BY <4>2, <5>1 DEF PrevIs
          <6>2. t \in 1..Len(memory')
            BY <1>1, <1>3, <1>13
          <6>3. Before(nodes[prev], nodes[x])
            BY <4>2, <5>1 DEF PrevIs
          <6> QED BY <1>3, <4>3, <4>4, <6>1, <6>2, <6>3
        <5>2. ASSUME NEW n \in 1..(x - 1), NEW t \in 1..Len(memory'), Sets(t, n, l)',
                     Before(nodes'[n], nodes'[x])
              PROVE  n = prev \/ (prev # head_ /\ Before(nodes'[n], nodes'[prev]))
          <6>1. Sets(t, n, l) /\ t \in 1..Len(memory)
            BY <1>1, <1>5, <4>3, <4>4, <5>2
          <6> QED BY <1>3, <4>2, <5>2, <6>1 DEF PrevIs
        <5> QED BY <5>1, <5>2 DEF PrevIs
      <4> QED BY <3>2, <4>2, <4>5
    <3>6. x \in 1..Len(nodes') /\ x = Len(nodes')
      BY <1>1, <1>3, <1>10
    <3> QED BY <1>3, <3>2, <3>3, <3>4, <3>5, <3>6 DEF InsertingOK
  <2> QED BY <2>1, <2>2
<1>21. AllLinked'
  <2>1. ASSUME NEW n \in 1..x, NEW t \in 1..m, Sets(t, n, 0)
        PROVE  \E s \in 1..Len(memory') : Sets(s, n, 0)'
    BY <1>3, <1>10, <1>13, <2>1
  <2>2. ASSUME NEW n \in 1..x, ~ \E t \in 1..m : Sets(t, n, 0)
        PROVE  \E s \in 1..Len(memory') : Sets(s, n, 0)'
    <3>1. n = x /\ l0 = 0
      BY <1>0, <1>1, <1>4, <2>2 DEF AllLinked
    <3>2. PICK s \in Nat : s = m + 1
      BY <1>1
    <3> QED BY <1>3, <1>13, <3>1, <3>2
  <2>3. 1..Len(nodes') = 1..x
    BY <1>1, <1>3
  <2> QED BY <2>1, <2>2, <2>3 DEF AllLinked
<1>22. PublishedOK'
  <2>1. published' = published
    BY DEF Link
  <2>2. /\ published.sequence \in 0..Len(nodes) /\ published.view \in 0..Len(memory)
        /\ published = [sequence |-> published.sequence, view |-> published.view]
        /\ InView(published.sequence, published.view)
    BY <1>0 DEF PublishedOK
  <2>3. published.sequence \in 0..Len(nodes') /\ published.view \in 0..Len(memory')
    BY <1>1, <1>3, <2>2
  <2>4. InView(published.sequence, published.view)'
    BY <1>3, <2>1, <2>2 DEF InView
  <2> QED BY <2>1, <2>2, <2>3, <2>4 DEF PublishedOK
<1>23. NodesOK'
  BY <1>0, <1>3 DEF NodesOK
<1> QED BY <1>3, <1>14, <1>15, <1>19, <1>20, <1>21, <1>22, <1>23 DEF WriterInv

LEMMA PublishingKeeps ==
  ASSUME WriterInv, SetLastSequence
  PROVE  WriterInv'
<1>0. /\ NodesOK /\ MemoryOK /\ SetBeforeLinked /\ InsertingOK /\ AllLinked /\ PublishedOK
      /\ Len(nodes) \in Nat /\ Len(memory) \in Nat
  BY Lengths DEF WriterInv
<1>1. /\ nodes' = nodes /\ memory' = memory /\ inserting' = inserting
      /\ published' = [sequence |-> Inserted, view |-> Len(memory)]
      /\ Inserted > published.sequence
  BY DEF SetLastSequence
<1>2. published.sequence \in 0..Len(nodes)
  BY <1>0 DEF PublishedOK
<1>3. inserting = Idle /\ Inserted = Len(nodes)
  <2>1. inserting # Idle => Inserted = published.sequence
    BY DEF Inserted
  <2>2. inserting = Idle
    BY <1>1, <1>2, <2>1
  <2> QED BY <2>2 DEF Inserted
<1>4. ASSUME NEW n \in 1..Len(nodes) PROVE \E t \in 1..Len(memory) : Links(t, n, 0)
  <2>1. PICK t \in 1..Len(memory) : Sets(t, n, 0)
    BY <1>0, <1>3 DEF AllLinked
  <2>2. n \in Nat
    BY <1>0
  <2>3. 0 \in Levels
    BY <1>0, <2>1, <2>2, Lengths
  <2> QED BY <1>0, <2>1, <2>3 DEF SetBeforeLinked
<1>5. PublishedOK'
  <2>1. /\ published'.sequence = Len(nodes) /\ published'.view = Len(memory)
        /\ published' \in [sequence : 0..Len(nodes'), view : 0..Len(memory')]
    BY <1>0, <1>1, <1>3
  <2>2. InView(published.sequence, published.view)'
    BY <1>1, <1>4, <2>1 DEF InView, Links
  <2> QED BY <2>1, <2>2 DEF PublishedOK
<1> QED BY <1>1, <1>5 DEF WriterInv, NodesOK, MemoryOK, Ascends, SetBeforeLinked, NonePassed,
           InsertingOK, AllLinked, Sets, Links, Between, ValueAt, PrevIs

WriterActions == \/ \E k \in UserKeys, type \in Types, h \in 1..kMaxHeight : Add(k, type, h)
                 \/ Link \/ SetLastSequence

LEMMA WriterKeeps ==
  ASSUME Bounds, WriterInv, [Next]_vars
  PROVE  WriterInv'
<1>1. CASE WriterActions
  BY <1>1, AddKeeps, LinkKeeps, PublishingKeeps DEF WriterActions
<1>2. CASE UNCHANGED <<nodes, memory, inserting, published>>
  BY <1>2 DEF WriterInv, NodesOK, MemoryOK, Ascends, SetBeforeLinked, NonePassed,
     InsertingOK, AllLinked, PublishedOK, InView, Sets, Links, Between, ValueAt, PrevIs
<1> QED BY <1>1, <1>2 DEF Next, vars, WriterActions, NewReader, Get, Seek, Search, SeekToFirst,
           NextPosition, Follow, Prev, SeekToLast, Step

LEMMA WriterBegins ==
  ASSUME Bounds, Init
  PROVE  WriterInv
<1>1. /\ nodes = <<>> /\ memory = <<>> /\ inserting = Idle
      /\ published = [sequence |-> 0, view |-> 0]
  BY DEF Init
<1>2. Len(nodes) = 0 /\ Len(memory) = 0
  BY <1>1, EmptySeq
<1>3. NodesOK /\ MemoryOK
  BY <1>1, <1>2, EmptySeq DEF NodesOK, MemoryOK
<1>4. Ascends /\ SetBeforeLinked /\ NonePassed /\ AllLinked
  BY <1>2 DEF Ascends, SetBeforeLinked, NonePassed, AllLinked
<1>5. InsertingOK
  BY <1>1 DEF InsertingOK
<1>6. PublishedOK
  BY <1>1, <1>2 DEF PublishedOK, InView
<1> QED BY <1>3, <1>4, <1>5, <1>6 DEF WriterInv

-----------------------------------------------------------------------------
(* What a reader's loads return.                                           *)

LEMMA LoadIs ==
  ASSUME WriterInv, NEW p \in 0..Len(nodes), NEW l \in Levels, NEW w \in 0..Len(memory),
         p = head_ \/ \E s \in 1..w : Sets(s, p, l), NEW t \in Loads(NextOf(p, l), w)
  PROVE  /\ t \in 0..Len(memory)
         /\ ValueAt(NextOf(p, l), t) \in {Null} \cup 1..Len(nodes)
         /\ ValueAt(NextOf(p, l), t) # Null =>
              /\ p = head_ \/ Before(nodes[p], nodes[ValueAt(NextOf(p, l), t)])
              /\ \A k \in 0..l : \E s \in 1..t : Sets(s, ValueAt(NextOf(p, l), t), k)
         /\ \A n \in 1..Len(nodes), s \in 1..w :
              Links(s, n, l) => ~Between(p, n, ValueAt(NextOf(p, l), t))
<1> DEFINE M == Len(memory)
           at == NextOf(p, l)
           known == {s \in StoresTo(at) \cup {0} : s <= w}
<1>0. /\ NodesOK /\ MemoryOK /\ Ascends /\ SetBeforeLinked /\ NonePassed
      /\ M \in Nat /\ Len(nodes) \in Nat /\ DOMAIN memory = 1..M
  BY Lengths, LenProperties DEF WriterInv, MemoryOK
<1>1. \A s : s \in StoresTo(at) <=> Sets(s, p, l)
  BY <1>0 DEF StoresTo, Sets
<1>2. known \in SUBSET (0..w) /\ known # {} /\ w \in Nat
  <2>1. w \in Nat /\ StoresTo(at) \subseteq Nat
    BY <1>0 DEF StoresTo
  <2> QED BY <2>1
<1>3. Greatest(known) \in known /\ \A s \in known : s <= Greatest(known)
  <2> HIDE DEF known
  <2> QED BY <1>2, GreatestIs
<1>4. t = Greatest(known) \/ (t \in StoresTo(at) /\ t > w)
  BY DEF Loads
<1>5. t \in 0..M /\ (t = 0 \/ Sets(t, p, l)) /\ \A s \in 1..w : Sets(s, p, l) => s <= t
  <2>1. CASE t = Greatest(known)
    <3>1. t \in StoresTo(at) \cup {0} /\ t <= w
      BY <1>3, <2>1
    <3>2. t = 0 \/ Sets(t, p, l)
      BY <1>1, <3>1
    <3>3. t \in 0..M
      BY <1>0, <3>2 DEF Sets
    <3>4. \A s \in 1..w : Sets(s, p, l) => s \in known
      BY <1>1
    <3> QED BY <1>3, <2>1, <3>2, <3>3, <3>4
  <2>2. CASE t \in StoresTo(at) /\ t > w
    <3>1. Sets(t, p, l)
      BY <1>1, <2>2
    <3>2. t \in 1..M
      BY <3>1 DEF Sets
    <3> QED BY <1>0, <2>2, <3>1, <3>2
  <2> QED BY <1>4, <2>1, <2>2
<1>6. t = 0 => p = head_
  <2>1. ASSUME t = 0, NEW s \in 1..w, Sets(s, p, l) PROVE FALSE
    BY <1>5, <2>1
  <2> QED BY <2>1
<1>7. PICK v : v = ValueAt(at, t)
  OBVIOUS
<1>8. /\ t = 0 => v = Null
      /\ t # 0 => Sets(t, p, l) /\ t \in 1..M /\ v = memory[t].value
  <2>1. t = 0 => v = Null
    BY <1>6, <1>7, Places DEF ValueAt
  <2>2. t # 0 => Sets(t, p, l) /\ t \in 1..M
    BY <1>5 DEF Sets
  <2> QED BY <1>7, <2>1, <2>2 DEF ValueAt
<1>9. v \in {Null} \cup 1..Len(nodes)
  <2>1. p \in Nat
    BY <1>0
  <2> QED BY <1>0, <1>8, <2>1, Lengths
<1>10. ASSUME v # Null
       PROVE  /\ p = head_ \/ Before(nodes[p], nodes[v])
              /\ \A k \in 0..l : \E s \in 1..t : Sets(s, v, k)
  <2>1. Sets(t, p, l) /\ t \in 1..M /\ v = memory[t].value /\ v \in 1..Len(nodes)
    BY <1>8, <1>9, <1>10
  <2>2. p = head_ \/ Before(nodes[p], nodes[v])
    <3>1. p = head_ \/ p \in 1..Len(nodes)
      BY <1>0 DEF head_
    <3> QED BY <1>0, <2>1, <3>1 DEF Ascends
  <2>3. Links(t, v, l)
    BY <2>1 DEF Links, Sets
  <2>4. PICK s \in 1..(t - 1) : Sets(s, v, l)
    BY <1>0, <2>1, <2>3 DEF SetBeforeLinked
  <2>5. s \in 1..t /\ s \in 1..M /\ \A r \in 1..(s - 1) : r \in 1..t
    BY <1>0, <2>1
  <2>6. \A k \in 0..(l - 1) : \E r \in 1..(s - 1) : Sets(r, v, k)
    BY <1>0, <2>1, <2>4, <2>5 DEF SetBeforeLinked
  <2>7. \A k \in 0..l : k = l \/ k \in 0..(l - 1)
    BY DEF Levels
  <2> QED BY <2>2, <2>4, <2>5, <2>6, <2>7
<1>11. ASSUME NEW n \in 1..Len(nodes), NEW s \in 1..w, Links(s, n, l), Between(p, n, v)
       PROVE  FALSE
  <2>1. s \in 1..M /\ (Sets(t, p, l) \/ (p = head_ /\ t = 0))
    BY <1>5, <1>6, <1>11 DEF Links
  <2>2. Between(p, n, ValueAt(NextOf(p, l), t))
    BY <1>7, <1>11
  <2>3. PICK r \in 1..s : t < r /\ Sets(r, p, l)
    BY <1>0, <1>5, <1>11, <2>1, <2>2 DEF NonePassed
  <2>4. r \in 1..w /\ r <= t
    BY <1>2, <1>5, <2>3
  <2> QED BY <1>5, <2>3, <2>4
<1> QED BY <1>5, <1>7, <1>9, <1>10, <1>11

LEMMA HeightIs ==
  ASSUME Bounds, WriterInv, NEW w \in 0..Len(memory), NEW t \in Loads(MaxHeight, w)
  PROVE  ValueAt(MaxHeight, t) \in 1..kMaxHeight
<1> DEFINE known == {s \in StoresTo(MaxHeight) \cup {0} : s <= w}
<1>0. MemoryOK /\ NodesOK /\ Len(memory) \in Nat /\ DOMAIN memory = 1..Len(memory)
  BY Lengths, LenProperties DEF WriterInv, MemoryOK
<1>1. known \in SUBSET (0..w) /\ known # {} /\ w \in Nat
  <2>1. w \in Nat /\ StoresTo(MaxHeight) \subseteq Nat
    BY <1>0 DEF StoresTo
  <2> QED BY <2>1
<1>2. Greatest(known) \in known
  <2> HIDE DEF known
  <2> QED BY <1>1, GreatestIs
<1>3. t \in StoresTo(MaxHeight) \cup {0}
  BY <1>2 DEF Loads
<1>4. CASE t = 0
  BY <1>4, Places DEF ValueAt, Bounds
<1>5. CASE t # 0
  <2>1. t \in 1..Len(memory) /\ memory[t].at = MaxHeight
    BY <1>0, <1>3, <1>5 DEF StoresTo
  <2> QED BY <1>0, <1>5, <2>1, Lengths DEF ValueAt
<1> QED BY <1>4, <1>5

-----------------------------------------------------------------------------
(* The reader, while the writer goes on.                                   *)

OnlyGrows ==
  /\ Len(nodes) \in Nat /\ Len(nodes) <= Len(nodes')
  /\ Len(memory) \in Nat /\ Len(memory) <= Len(memory')
  /\ Len(nodes') \in Nat /\ Len(memory') \in Nat
  /\ \A n \in 1..Len(nodes) : nodes'[n] = nodes[n]
  /\ \A t : \A p \in Nat : \A l : Sets(t, p, l) => Sets(t, p, l)'
  /\ \A t, n, l : Links(t, n, l) => Links(t, n, l)'

LEMMA StepsOnlyGrow ==
  ASSUME Bounds, WriterInv, [Next]_vars
  PROVE  OnlyGrows
<1>0. NodesOK /\ MemoryOK /\ InsertingOK /\ NodesOK' /\ MemoryOK'
  BY WriterKeeps DEF WriterInv
<1>1. /\ Len(nodes) \in Nat /\ Len(memory) \in Nat /\ Len(nodes') \in Nat /\ Len(memory') \in Nat
  BY <1>0, LenProperties DEF NodesOK, MemoryOK
<1>2. ASSUME NEW k \in UserKeys, NEW type \in Types, NEW h \in 1..kMaxHeight, Add(k, type, h)
      PROVE  OnlyGrows
  BY <1>0, <1>1, <1>2, AddLinksNothing DEF OnlyGrows, Grows
<1>3. CASE Link
  BY <1>0, <1>1, <1>3, LinkStores DEF OnlyGrows, Grows
<1>4. CASE UNCHANGED <<nodes, memory>>
  BY <1>1, <1>4 DEF OnlyGrows, Sets, Links
<1> QED BY <1>2, <1>3, <1>4 DEF Next, vars, SetLastSequence, NewReader, Get, Seek, Search,
           SeekToFirst, NextPosition, Follow, Prev, SeekToLast, Step

(* What has been seen, or is in a view, stays so in a later one.           *)
LEMMA SeenStays ==
  ASSUME ReaderOK, OnlyGrows, reader'.view \in Nat, reader.view <= reader'.view
  PROVE  /\ \A n, level : Seen(n, level) => Seen(n, level)'
         /\ \A s, w : InView(s, reader.view) /\ w = reader'.view => InView(s, w)'
<1>1. reader.view \in Nat /\ 1..reader.view \subseteq 1..reader'.view
  BY DEF ReaderOK, OnlyGrows, Readers
<1>2. ASSUME NEW n, NEW level, Seen(n, level) PROVE Seen(n, level)'
  <2>1. n \in 1..Len(nodes) /\ n \in Nat /\ n \in 1..Len(nodes')
    BY <1>2 DEF Seen, OnlyGrows
  <2>2. ASSUME NEW l \in 0..level PROVE \E t \in 1..reader'.view : Sets(t, n, l)'
    <3>1. PICK t \in 1..reader.view : Sets(t, n, l)
      BY <1>2 DEF Seen
    <3> QED BY <1>1, <2>1, <3>1 DEF OnlyGrows
  <2> QED BY <2>1, <2>2 DEF Seen
<1>3. ASSUME NEW s, NEW w, InView(s, reader.view), w = reader'.view PROVE InView(s, w)'
  <2>1. ASSUME NEW n \in 1..s PROVE \E t \in 1..w : Links(t, n, 0)'
    <3>1. PICK t \in 1..reader.view : Links(t, n, 0)
      BY <1>3 DEF InView
    <3> QED BY <1>1, <1>3, <3>1 DEF OnlyGrows
  <2> QED BY <2>1 DEF InView
<1> QED BY <1>2, <1>3

LEMMA WriterLeavesReader ==
  ASSUME NodesOK, ReaderOK, WalksInOrder, OnlyGrows, reader' = reader
  PROVE  ReaderOK' /\ WalksInOrder'
<1>1. /\ 0..Len(nodes) \subseteq 0..Len(nodes') /\ 1..Len(nodes) \subseteq 1..Len(nodes')
      /\ 0..Len(memory) \subseteq 0..Len(memory')
  BY DEF OnlyGrows
<1>2. reader \in Readers(Len(nodes), Len(memory))
  BY DEF ReaderOK
<1>3. reader' \in Readers(Len(nodes'), Len(memory'))
  BY <1>1, <1>2 DEF Readers
<1>4. reader.view \in Nat /\ reader.view <= reader'.view
  BY <1>2 DEF OnlyGrows, Readers
<1>5. InView(reader.snapshot, reader.view)'
  <2>1. PICK s, w : s = reader.snapshot /\ w = reader.view
    OBVIOUS
  <2>2. InView(s, w)'
    BY <1>4, <2>1, SeenStays DEF ReaderOK
  <2> QED BY <2>1, <2>2 DEF InView
<1>6. \A n, level : Seen(n, level) => Seen(n, level)'
  BY <1>4, SeenStays
<1>7. reader.node # Null => Seen(reader.node, 0)'
  <2>1. PICK n : n = reader.node
    OBVIOUS
  <2>2. reader.node # Null => Seen(n, 0)'
    BY <1>6, <2>1 DEF ReaderOK
  <2>3. Seen(n, 0)' => Seen(reader.node, 0)'
    BY <2>1
  <2> QED BY <2>2, <2>3
<1>8. reader.pc = "searching" /\ reader.x # head_ => Seen(reader.x, reader.level)'
  <2>1. PICK n, l : n = reader.x /\ l = reader.level
    OBVIOUS
  <2>2. reader.pc = "searching" /\ reader.x # head_ => Seen(n, l)'
    BY <1>6, <2>1 DEF ReaderOK
  <2>3. Seen(n, l)' => Seen(reader.x, reader.level)'
    BY <2>1
  <2> QED BY <2>2, <2>3
<1>9. \A n \in 1..Len(nodes) : nodes'[n] = nodes[n]
  BY DEF OnlyGrows
<1>10. /\ reader.x # head_ => reader.x \in 1..Len(nodes)
       /\ reader.node # Null => reader.node \in 1..Len(nodes)
       /\ reader.from # Null => reader.from \in 1..Len(nodes)
       /\ \A n \in 1..reader.snapshot : n \in 1..Len(nodes)
  BY <1>2 DEF OnlyGrows, head_, Readers
<1>11. ReaderOK'
  BY <1>3, <1>5, <1>7, <1>8, <1>9, <1>10 DEF ReaderOK
<1>12. Visible' = Visible
  BY <1>9, <1>10 DEF Visible
<1>13. ASSUME reader.pc = "at" PROVE WalksInOrder'
  <2>1. reader.op \in {"next", "prev"} => reader.from \in 1..Len(nodes)
    BY <1>10 DEF ReaderOK
  <2>2. CASE reader.node = Null
    <3>1. CASE reader.op \in {"next", "prev"}
      <4>1. nodes'[reader.from] = nodes[reader.from]
        BY <1>9, <2>1, <3>1
      <4> QED BY <1>12, <1>13, <2>2, <4>1 DEF WalksInOrder
    <3>2. CASE reader.op \notin {"next", "prev"}
      BY <1>12, <1>13, <2>2, <3>2 DEF WalksInOrder
    <3> QED BY <3>1, <3>2
  <2>3. CASE reader.node # Null
    <3>0. nodes'[reader.node] = nodes[reader.node]
      BY <1>9, <1>10, <2>3
    <3>1. CASE reader.op \in {"next", "prev"}
      <4>1. nodes'[reader.from] = nodes[reader.from]
        BY <1>9, <2>1, <3>1
      <4> QED BY <1>12, <1>13, <2>3, <3>0, <4>1 DEF WalksInOrder
    <3>2. CASE reader.op \notin {"next", "prev"}
      BY <1>12, <1>13, <2>3, <3>0, <3>2 DEF WalksInOrder
    <3> QED BY <3>1, <3>2
  <2> QED BY <2>2, <2>3
<1>14. reader.pc # "at" => WalksInOrder'
  BY DEF WalksInOrder
<1> QED BY <1>11, <1>13, <1>14

-----------------------------------------------------------------------------
(* The reader's own steps.                                                 *)

Searches(op, target) ==
  /\ op \in {"seek", "get", "prev", "last"} /\ Search(op, target)
  /\ op # "last" => target \in Entry
  /\ op = "get" => \E k \in UserKeys : target = LookupKey(k, reader.snapshot)
  /\ op = "prev" => reader.node # Null /\ target = nodes[reader.node]
  /\ op = "last" => target = Null

LEMMA SearchKeeps ==
  ASSUME Bounds, WriterInv, ReaderOK, OnlyGrows, NEW op, NEW target, Searches(op, target)
  PROVE  ReaderOK' /\ WalksInOrder'
<1>1. /\ nodes' = nodes /\ memory' = memory /\ reader.pc = "at"
      /\ op \in {"seek", "get", "prev", "last"} /\ target \in Entry \cup {Null}
  BY DEF Searches, Search
<1>2. PICK t \in Loads(MaxHeight, reader.view) :
        reader' = [reader EXCEPT !.pc = "searching", !.op = op, !.target = target, !.x = head_,
                                 !.from = reader.node, !.reads = @ + 1,
                                 !.level = ValueAt(MaxHeight, t) - 1]
  BY DEF Searches, Search
<1>3. ValueAt(MaxHeight, t) \in 1..kMaxHeight
  BY HeightIs DEF ReaderOK, Readers
<1>4. PICK l \in Levels : l = ValueAt(MaxHeight, t) - 1
  BY <1>3 DEF Levels, Bounds
<1>5. /\ reader' = [reader EXCEPT !.pc = "searching", !.op = op, !.target = target, !.x = head_,
                                  !.from = reader.node, !.reads = @ + 1, !.level = l]
      /\ head_ \in 0..Len(nodes)
  BY <1>2, <1>4 DEF OnlyGrows, head_
<1>6. /\ reader'.pc = "searching" /\ reader'.op = op /\ reader'.target = target
      /\ reader'.x = head_ /\ reader'.from = reader.node /\ reader'.node = reader.node
      /\ reader'.view = reader.view /\ reader'.snapshot = reader.snapshot
  BY <1>5 DEF ReaderOK, Readers
<1>7. reader' \in Readers(Len(nodes'), Len(memory'))
  <2>1. reader \in Readers(Len(nodes'), Len(memory'))
    BY <1>1 DEF ReaderOK, Readers
  <2>2. reader.node \in {Null} \cup 1..Len(nodes') /\ reader.reads + 1 \in Nat
    BY <2>1 DEF Readers
  <2>3. op \in {"none", "seek", "get", "first", "last", "next", "prev"}
    BY <1>1
  <2> QED BY <1>1, <1>5, <2>1, <2>2, <2>3 DEF Readers
<1>8. InView(reader.snapshot, reader.view)'
  BY <1>1, <1>6 DEF ReaderOK, InView, Links, Readers
<1>9. reader'.node # Null => Seen(reader.node, 0)'
  BY <1>1, <1>6 DEF ReaderOK, Seen, Sets, Readers
<1>10. op # "last" => target \in Entry
  BY DEF Searches
<1>11. ReaderOK'
  <2>1. op = "get" => \E k \in UserKeys : target = LookupKey(k, reader'.snapshot)
    BY <1>6 DEF Searches
  <2>2. op = "prev" => reader'.from # Null /\ target = nodes'[reader'.from]
    BY <1>1, <1>6 DEF Searches
  <2> QED BY <1>1, <1>6, <1>7, <1>8, <1>9, <1>10, <2>1, <2>2 DEF ReaderOK, Readers
<1> QED BY <1>6, <1>11 DEF WalksInOrder

(* A load of the reader raises its view to the store it returns.           *)
Raised(t) == IF t > reader.view THEN t ELSE reader.view

LEMMA ReaderLoads ==
  ASSUME WriterInv, ReaderOK, NEW p \in 0..Len(nodes), NEW l \in Levels,
         p = head_ \/ Seen(p, l), NEW t \in Loads(NextOf(p, l), reader.view)
  PROVE  /\ Raised(t) \in 0..Len(memory) /\ reader.view <= Raised(t)
         /\ ValueAt(NextOf(p, l), t) \in {Null} \cup 1..Len(nodes)
         /\ ValueAt(NextOf(p, l), t) # Null =>
              /\ p = head_ \/ Before(nodes[p], nodes[ValueAt(NextOf(p, l), t)])
              /\ \A k \in 0..l : \E s \in 1..Raised(t) : Sets(s, ValueAt(NextOf(p, l), t), k)
         /\ l = 0 => \A n \in 1..reader.snapshot :
                       n \in 1..Len(nodes) /\ ~Between(p, n, ValueAt(NextOf(p, l), t))
<1>0. /\ reader.view \in 0..Len(memory) /\ Len(memory) \in Nat /\ Len(nodes) \in Nat
      /\ reader.snapshot \in 0..Len(nodes)
  BY Lengths DEF ReaderOK, WriterInv, Readers
<1>1. p = head_ \/ \E s \in 1..reader.view : Sets(s, p, l)
  <2>1. l \in 0..l
    BY DEF Levels
  <2> QED BY <2>1 DEF Seen
<1>2. /\ t \in 0..Len(memory)
      /\ ValueAt(NextOf(p, l), t) \in {Null} \cup 1..Len(nodes)
      /\ ValueAt(NextOf(p, l), t) # Null =>
           /\ p = head_ \/ Before(nodes[p], nodes[ValueAt(NextOf(p, l), t)])
           /\ \A k \in 0..l : \E s \in 1..t : Sets(s, ValueAt(NextOf(p, l), t), k)
      /\ \A n \in 1..Len(nodes), s \in 1..reader.view :
           Links(s, n, l) => ~Between(p, n, ValueAt(NextOf(p, l), t))
  BY <1>0, <1>1, LoadIs
<1>3. Raised(t) \in 0..Len(memory) /\ reader.view <= Raised(t) /\ 1..t \subseteq 1..Raised(t)
  BY <1>0, <1>2 DEF Raised
<1>4. ASSUME l = 0, NEW n \in 1..reader.snapshot
      PROVE  n \in 1..Len(nodes) /\ ~Between(p, n, ValueAt(NextOf(p, l), t))
  <2>1. PICK s \in 1..reader.view : Links(s, n, 0)
    BY DEF ReaderOK, InView, Readers
  <2>2. n \in 1..Len(nodes)
    BY <1>0
  <2> QED BY <1>2, <1>4, <2>1, <2>2
<1> QED BY <1>2, <1>3, <1>4

LEMMA FollowKeeps ==
  ASSUME Bounds, WriterInv, ReaderOK, OnlyGrows, NEW op, NEW p, Follow(op, p),
         (op = "first" /\ p = head_) \/ (op = "next" /\ p = reader.node /\ p # Null)
  PROVE  ReaderOK' /\ WalksInOrder'
<1>0. /\ nodes' = nodes /\ memory' = memory /\ reader.pc = "at" /\ 0 \in Levels
      /\ p \in 0..Len(nodes) /\ (p = head_ \/ Seen(p, 0))
  BY DEF Follow, ReaderOK, Levels, Bounds, OnlyGrows, head_, Readers
<1>1. PICK t \in Loads(NextOf(p, 0), reader.view) :
        reader' = [reader EXCEPT !.view = IF t > @ THEN t ELSE @, !.reads = @ + 1, !.op = op,
                                 !.from = reader.node, !.node = ValueAt(NextOf(p, 0), t),
                                 !.pc = IF ValueAt(NextOf(p, 0), t) = Uninit
                                        THEN "wild" ELSE "at"]
  BY DEF Follow
<1>2. PICK v : v = ValueAt(NextOf(p, 0), t)
  OBVIOUS
<1>3. PICK w : w = Raised(t)
  OBVIOUS
<1>4. /\ w \in 0..Len(memory) /\ reader.view <= w /\ v \in {Null} \cup 1..Len(nodes)
      /\ v # Null => /\ p = head_ \/ Before(nodes[p], nodes[v])
                     /\ \E s \in 1..w : Sets(s, v, 0)
      /\ \A n \in 1..reader.snapshot : n \in 1..Len(nodes) /\ ~Between(p, n, v)
  BY <1>0, <1>2, <1>3, ReaderLoads
<1>5. v # Uninit
  BY <1>4 DEF Null, Uninit, OnlyGrows
<1>6. reader' = [reader EXCEPT !.view = w, !.reads = @ + 1, !.op = op, !.from = reader.node,
                               !.node = v, !.pc = "at"]
  <2>1. w = IF t > reader.view THEN t ELSE reader.view
    BY <1>3 DEF Raised
  <2> QED BY <1>1, <1>2, <1>5, <2>1 DEF ReaderOK, Readers
<1>7. /\ reader'.pc = "at" /\ reader'.op = op /\ reader'.from = reader.node
      /\ reader'.node = v /\ reader'.view = w /\ reader'.snapshot = reader.snapshot
      /\ reader' \in Readers(Len(nodes'), Len(memory'))
  <2>1. reader \in Readers(Len(nodes'), Len(memory'))
    BY <1>0 DEF ReaderOK, Readers
  <2>2. reader.node \in {Null} \cup 1..Len(nodes') /\ reader.reads + 1 \in Nat
    BY <2>1 DEF Readers
  <2>3. op \in {"none", "seek", "get", "first", "last", "next", "prev"}
    OBVIOUS
  <2>4. w \in 0..Len(memory') /\ v \in {Null} \cup 1..Len(nodes')
    BY <1>0, <1>4
  <2> QED BY <1>6, <2>1, <2>2, <2>3, <2>4 DEF Readers
<1>8. InView(reader.snapshot, reader.view)'
  <2>1. PICK s : s = reader.snapshot
    OBVIOUS
  <2>2. w \in Nat
    BY <1>4 DEF OnlyGrows
  <2>3. InView(s, w)'
    BY <1>4, <1>7, <2>1, <2>2, SeenStays DEF ReaderOK, Readers
  <2> QED BY <1>7, <2>1, <2>3 DEF InView
<1>9. v # Null => Seen(v, 0)'
  BY <1>0, <1>4, <1>7 DEF Seen, Sets
<1>10. reader'.node # Null => Seen(reader.node, 0)'
  <2>1. Seen(v, 0)' => Seen(reader.node, 0)'
    BY <1>7
  <2> QED BY <1>7, <1>9, <2>1
<1>11. op = "next" => reader'.from # Null
  BY <1>7
<1>12. ReaderOK'
  BY <1>7, <1>8, <1>10, <1>11 DEF ReaderOK, Readers
<1>13. Visible' = Visible
  BY <1>0, <1>7 DEF Visible
<1>14. WalksInOrder'
  <2>1. CASE op = "first"
    <3>1. \A n \in 1..reader.snapshot : ~(v = Null \/ Before(nodes[n], nodes[v]))
      BY <1>4, <2>1 DEF Between, head_
    <3>2. \A e \in Visible' : ~(v = Null \/ Before(e, nodes[v]))
      BY <1>13, <3>1 DEF Visible
    <3> QED BY <1>0, <1>7, <2>1, <3>2 DEF WalksInOrder
  <2>2. CASE op = "next"
    <3>0. p = reader.node /\ p # head_
      BY <2>2, <1>0 DEF ReaderOK, head_, Null, OnlyGrows, Readers
    <3>1. \A n \in 1..reader.snapshot :
            ~(Before(nodes[p], nodes[n]) /\ (v = Null \/ Before(nodes[n], nodes[v])))
      BY <1>4 DEF Between
    <3>2. \A e \in Visible' : ~(Before(nodes[p], e) /\ (v = Null \/ Before(e, nodes[v])))
      BY <1>13, <3>1 DEF Visible
    <3>3. v # Null => Before(nodes[p], nodes[v])
      BY <1>4, <3>0
    <3> QED BY <1>0, <1>7, <2>2, <3>0, <3>2, <3>3 DEF WalksInOrder
  <2> QED BY <2>1, <2>2
<1> QED BY <1>12, <1>14

LEMMA StepKeeps ==
  ASSUME Bounds, WriterInv, ReaderOK, OnlyGrows, Step
  PROVE  ReaderOK' /\ WalksInOrder'
<1>0. PICK p, l, op, target, view :
        /\ p = reader.x /\ l = reader.level /\ op = reader.op /\ target = reader.target
        /\ view = reader.view
  OBVIOUS
<1>1. /\ nodes' = nodes /\ memory' = memory /\ reader.pc = "searching"
      /\ p \in 0..Len(nodes) /\ l \in Levels
      /\ op \in {"seek", "get", "prev", "last"}
      /\ p # head_ => Seen(p, l)
      /\ p # head_ /\ op # "last" => Before(nodes[p], target)
      /\ op # "last" => target \in Entry
      /\ op = "get" => \E k \in UserKeys : target = LookupKey(k, reader.snapshot)
      /\ op = "prev" => reader.from # Null /\ target = nodes[reader.from]
  BY <1>0 DEF Step, ReaderOK, Readers
<1>2. PICK t \in Loads(NextOf(p, l), view) :
        LET next == ValueAt(NextOf(p, l), t)
            seen == [reader EXCEPT !.view = IF t > @ THEN t ELSE @]
        IN  reader' = CASE next = Uninit -> [seen EXCEPT !.pc = "wild"]
                        [] next # Uninit /\ GoesOn(next) -> [seen EXCEPT !.x = next]
                        [] next # Uninit /\ ~GoesOn(next) /\ reader.level > 0 ->
                             [seen EXCEPT !.level = @ - 1]
                        [] OTHER -> [seen EXCEPT !.pc = "at", !.node = Arrived(next)]
  BY <1>0 DEF Step
<1>3. PICK v, w : v = ValueAt(NextOf(p, l), t) /\ w = Raised(t)
  OBVIOUS
<1>4. /\ w \in 0..Len(memory) /\ reader.view <= w /\ v \in {Null} \cup 1..Len(nodes)
      /\ v # Null => /\ p = head_ \/ Before(nodes[p], nodes[v])
                     /\ \A k \in 0..l : \E s \in 1..w : Sets(s, v, k)
      /\ l = 0 => \A n \in 1..reader.snapshot : n \in 1..Len(nodes) /\ ~Between(p, n, v)
  BY <1>0, <1>1, <1>2, <1>3, ReaderLoads
<1>5. v # Uninit /\ v # head_ /\ Null # head_
  BY <1>4 DEF Null, Uninit, OnlyGrows, head_
<1> DEFINE seen == [reader EXCEPT !.view = w]
<1>6. reader' = IF GoesOn(v) THEN [seen EXCEPT !.x = v]
                ELSE IF l > 0 THEN [seen EXCEPT !.level = l - 1]
                ELSE [seen EXCEPT !.pc = "at", !.node = Arrived(v)]
  <2>1. [reader EXCEPT !.view = IF t > @ THEN t ELSE @] = seen
    BY <1>3 DEF Raised
  <2>2. seen.level = l
    BY <1>0
  <2> HIDE DEF seen
  <2>3. reader' = CASE v = Uninit -> [seen EXCEPT !.pc = "wild"]
                    [] v # Uninit /\ GoesOn(v) -> [seen EXCEPT !.x = v]
                    [] v # Uninit /\ ~GoesOn(v) /\ l > 0 -> [seen EXCEPT !.level = @ - 1]
                    [] OTHER -> [seen EXCEPT !.pc = "at", !.node = Arrived(v)]
    BY <1>0, <1>2, <1>3, <2>1
  <2>4. CASE GoesOn(v)
    BY <1>5, <2>3, <2>4
  <2>5. CASE ~GoesOn(v) /\ l > 0
    BY <1>5, <2>2, <2>3, <2>5
  <2>6. CASE ~GoesOn(v) /\ ~(l > 0)
    BY <1>5, <2>3, <2>6
  <2> QED BY <2>4, <2>5, <2>6
<1>7. GoesOn(v) <=> v # Null /\ (op = "last" \/ Before(nodes[v], target))
  BY <1>0 DEF GoesOn, IsAfterNode
<1>8. Arrived(v) = IF op \in {"seek", "get"} THEN v ELSE IF p = head_ THEN Null ELSE p
  BY <1>0 DEF Arrived
<1>9. reader \in Readers(Len(nodes'), Len(memory')) /\ w \in 0..Len(memory')
      /\ seen \in Readers(Len(nodes'), Len(memory')) /\ seen.view = w
  BY <1>1, <1>4 DEF ReaderOK, Readers
<1>10. /\ reader'.view = w /\ reader'.snapshot = reader.snapshot /\ reader'.op = op
       /\ reader'.target = target /\ reader'.from = reader.from
       /\ reader' \in Readers(Len(nodes'), Len(memory'))
  <2>0. Arrived(v) \in {Null} \cup 1..Len(nodes') /\ v \in {Null} \cup 1..Len(nodes')
    BY <1>1, <1>4, <1>8 DEF OnlyGrows, head_
  <2>1. CASE GoesOn(v)
    <3>1. reader' = [seen EXCEPT !.x = v] /\ v \in 0..Len(nodes')
      BY <1>6, <1>7, <2>0, <2>1 DEF OnlyGrows
    <3> QED BY <1>0, <1>9, <3>1 DEF Readers
  <2>2. CASE ~GoesOn(v) /\ l > 0
    <3>1. reader' = [seen EXCEPT !.level = l - 1] /\ l - 1 \in Levels
      BY <1>1, <1>6, <2>2 DEF Levels, Bounds
    <3> QED BY <1>0, <1>9, <3>1 DEF Readers
  <2>3. CASE ~GoesOn(v) /\ ~(l > 0)
    <3>1. reader' = [seen EXCEPT !.pc = "at", !.node = Arrived(v)]
      BY <1>6, <2>3
    <3> QED BY <1>0, <1>9, <2>0, <3>1 DEF Readers
  <2> QED BY <2>1, <2>2, <2>3
<1>11. InView(reader.snapshot, reader.view)'
  <2>1. PICK s : s = reader.snapshot
    OBVIOUS
  <2>2. w \in Nat
    BY <1>4 DEF OnlyGrows
  <2>3. InView(s, w)'
    BY <1>4, <1>10, <2>1, <2>2, SeenStays DEF ReaderOK
  <2> QED BY <1>10, <2>1, <2>3 DEF InView
<1>12. \A n, level : Seen(n, level) => Seen(n, level)'
  <2>1. w \in Nat
    BY <1>4 DEF OnlyGrows
  <2> QED BY <1>4, <1>10, <2>1, SeenStays
<1>13. v # Null => Seen(v, l)' /\ Seen(v, 0)'
  <2>1. 0 \in 0..l
    BY <1>1 DEF Levels
  <2>2. v # Null => v \in 1..Len(nodes') /\ \A k \in 0..l : \E s \in 1..reader'.view : Sets(s, v, k)'
    BY <1>1, <1>4, <1>10 DEF Sets
  <2> QED BY <2>1, <2>2 DEF Seen
<1>14. p # head_ => Seen(p, l)' /\ Seen(p, 0)'
  <2>1. 0..0 \subseteq 0..l
    BY <1>1 DEF Levels
  <2>2. p # head_ => Seen(p, l)'
    BY <1>1, <1>12
  <2> QED BY <2>1, <2>2 DEF Seen
<1>15. PICK y, z, n : y = reader'.x /\ z = reader'.level /\ n = reader'.node
  OBVIOUS
<1>16. n # Null => Seen(n, 0)'
  <2>1. n = reader.node \/ n = Arrived(v)
    BY <1>6, <1>15 DEF ReaderOK, Readers
  <2>2. reader.node # Null => Seen(reader.node, 0)
    BY DEF ReaderOK
  <2>3. CASE n = reader.node
    <3>1. n # Null => Seen(n, 0)
      BY <2>2, <2>3
    <3> QED BY <1>12, <3>1
  <2>4. CASE n = Arrived(v)
    BY <1>8, <1>13, <1>14, <2>4
  <2> QED BY <2>1, <2>3, <2>4
<1>17. reader'.pc = "searching" /\ y # head_ =>
         Seen(y, z)' /\ (op # "last" => Before(nodes'[y], target))
  <2>1. CASE GoesOn(v)
    <3>1. y = v /\ z = l
      BY <1>0, <1>6, <1>9, <1>15, <2>1 DEF Readers
    <3> QED BY <1>1, <1>7, <1>13, <2>1, <3>1
  <2>2. CASE ~GoesOn(v) /\ l > 0
    <3>1. y = p /\ z = l - 1
      BY <1>0, <1>6, <1>9, <1>15, <2>2 DEF Readers
    <3>2. Seen(p, l)' => Seen(p, z)'
      <4>1. 0..z \subseteq 0..l
        BY <1>1, <3>1 DEF Levels
      <4> QED BY <4>1 DEF Seen
    <3> QED BY <1>1, <1>14, <3>1, <3>2
  <2>3. CASE ~GoesOn(v) /\ ~(l > 0)
    BY <1>6, <1>9, <2>3 DEF Readers
  <2> QED BY <2>1, <2>2, <2>3
<1>18. reader'.pc = "at" =>
         ~GoesOn(v) /\ l = 0 /\ n = Arrived(v)
  BY <1>1, <1>6, <1>9, <1>15 DEF Readers, Levels
<1>19. reader'.pc \in {"at", "searching"}
  BY <1>1, <1>6, <1>9 DEF Readers
<1>20. ReaderOK'
  <2>1. reader'.node # Null => Seen(reader.node, 0)'
    <3>1. Seen(n, 0)' => Seen(reader.node, 0)'
      BY <1>15
    <3> QED BY <1>15, <1>16, <3>1
  <2>2. reader'.pc = "searching" /\ reader'.x # head_ =>
          Seen(reader.x, reader.level)' /\ (op # "last" => Before(nodes'[reader'.x], target))
    <3>1. Seen(y, z)' => Seen(reader.x, reader.level)'
      BY <1>15
    <3> QED BY <1>15, <1>17, <3>1
  <2>3. reader'.pc = "at" /\ op = "get" /\ reader'.node # Null => ~Before(nodes'[reader'.node], target)
    BY <1>1, <1>7, <1>8, <1>15, <1>18
  <2>4. reader'.pc # "out"
    BY <1>19
  <2> QED BY <1>1, <1>10, <1>11, <2>1, <2>2, <2>3, <2>4 DEF ReaderOK
<1>21. Visible' = Visible
  BY <1>1, <1>10 DEF Visible
<1>22. ASSUME reader'.pc = "at" PROVE WalksInOrder'
  <2>1. /\ l = 0 /\ n = reader'.node
        /\ n = IF op \in {"seek", "get"} THEN v ELSE IF p = head_ THEN Null ELSE p
        /\ v = Null \/ (op # "last" /\ ~Before(nodes[v], target))
    BY <1>7, <1>8, <1>15, <1>18, <1>22
  <2>2. \A i \in 1..reader.snapshot : i \in 1..Len(nodes) /\ ~Between(p, i, v)
    BY <1>4, <2>1
  <2>3. NodesOK
    BY DEF WriterInv
  <2>4. p # head_ => p \in 1..Len(nodes)
    BY <1>1 DEF OnlyGrows, head_
  <2>5. v # Null => v \in 1..Len(nodes)
    BY <1>4
  <2>6. \A i \in 1..Len(nodes) : nodes[i] \in Entry
    BY <2>3, NodesAreOrdered
  <2>7. CASE op \in {"seek", "get"}
    <3>1. ASSUME NEW i \in 1..reader.snapshot,
                 ~Before(nodes[i], target), v = Null \/ Before(nodes[i], nodes[v])
          PROVE  FALSE
      <4>1. p = head_ \/ Before(nodes[p], nodes[i])
        BY <1>1, <2>2, <2>4, <2>6, <2>7, <3>1, BeforeIsOrder
      <4> QED BY <2>2, <3>1, <4>1 DEF Between
    <3>2. \A e \in Visible' : ~(~Before(e, target) /\ (v = Null \/ Before(e, nodes[v])))
      BY <1>21, <3>1 DEF Visible
    <3>3. v # Null => ~Before(nodes[v], target)
      BY <2>1
    <3> QED BY <1>1, <1>10, <2>1, <2>7, <3>2, <3>3 DEF WalksInOrder
  <2>8. CASE op = "prev"
    <3>0. target = nodes[reader.from] /\ target \in Entry
      BY <1>1, <2>8
    <3>1. ASSUME NEW i \in 1..reader.snapshot,
                 Before(nodes[i], target), p = head_ \/ Before(nodes[p], nodes[i])
          PROVE  FALSE
      <4>1. v = Null \/ Before(nodes[i], nodes[v])
        BY <2>1, <2>2, <2>5, <2>6, <3>0, <3>1, BeforeIsOrder
      <4> QED BY <2>2, <3>1, <4>1 DEF Between
    <3>2. \A e \in Visible' : ~(Before(e, target) /\ (p = head_ \/ Before(nodes[p], e)))
      BY <1>21, <3>1 DEF Visible
    <3>3. p # head_ => Before(nodes[p], target) /\ p # Null
      BY <1>1, <2>4, <2>8 DEF Null, OnlyGrows
    <3> QED BY <1>1, <1>10, <2>1, <2>8, <3>0, <3>2, <3>3 DEF WalksInOrder
  <2>9. CASE op = "last"
    <3>1. ASSUME NEW i \in 1..reader.snapshot, p = head_ \/ Before(nodes[p], nodes[i])
          PROVE  FALSE
      BY <2>1, <2>2, <2>9, <3>1 DEF Between
    <3>2. \A e \in Visible' : ~(p = head_ \/ Before(nodes[p], e))
      BY <1>21, <3>1 DEF Visible
    <3>3. p # head_ => p # Null
      BY <2>4 DEF Null, OnlyGrows
    <3> QED BY <1>1, <1>10, <2>1, <2>9, <3>2, <3>3 DEF WalksInOrder
  <2> QED BY <1>1, <2>7, <2>8, <2>9
<1>23. reader'.pc # "at" => WalksInOrder'
  BY DEF WalksInOrder
<1> QED BY <1>20, <1>22, <1>23

LEMMA BeginKeeps ==
  ASSUME Bounds, WriterInv, ReaderOK, OnlyGrows, NewReader
  PROVE  ReaderOK' /\ WalksInOrder'
<1>1. /\ nodes' = nodes /\ memory' = memory /\ reader = NoRead
      /\ reader' = [NoRead EXCEPT !.pc = "at", !.view = published.view,
                                  !.snapshot = published.sequence]
  BY DEF NewReader, ReaderOK
<1>2. /\ published.view \in 0..Len(memory') /\ published.sequence \in 0..Len(nodes')
      /\ InView(published.sequence, published.view)
  BY <1>1 DEF WriterInv, PublishedOK
<1>3. /\ reader'.pc = "at" /\ reader'.op = "none" /\ reader'.node = Null
      /\ reader'.view = published.view /\ reader'.snapshot = published.sequence
  BY <1>1 DEF NoRead
<1>4. reader' \in Readers(Len(nodes'), Len(memory'))
  <2>1. 0 \in Levels /\ head_ \in 0..Len(nodes')
    BY DEF Levels, Bounds, OnlyGrows, head_
  <2> QED BY <1>1, <1>2, <2>1 DEF Readers, NoRead
<1>5. InView(reader.snapshot, reader.view)'
  <2>1. PICK s, w : s = published.sequence /\ w = published.view
    OBVIOUS
  <2>2. InView(s, w)'
    BY <1>1, <1>2, <2>1 DEF InView, Links
  <2> QED BY <1>3, <2>1, <2>2 DEF InView
<1>6. ReaderOK'
  BY <1>3, <1>4, <1>5 DEF ReaderOK
<1>7. WalksInOrder'
  BY <1>3 DEF WalksInOrder
<1> QED BY <1>6, <1>7

(* What a get has found is what it would find in its snapshot alone.       *)
LEMMA WalkingIsSeeing ==
  ASSUME WriterInv, ReaderOK, WalksInOrder
  PROVE  ReaderSeesSnapshot
<1>1. ASSUME reader.pc = "at", reader.op = "get" PROVE GetSeesItsSnapshot
  <2> DEFINE ik == reader.target
             at == nodes[reader.node]
             from == {e \in Visible : ~Before(e, ik)}
  <2>0. /\ reader \in Readers(Len(nodes), Len(memory)) /\ NodesOK /\ Len(nodes) \in Nat
        /\ ik \in Entry /\ \E k \in UserKeys : ik = LookupKey(k, reader.snapshot)
    BY <1>1, Lengths DEF ReaderOK, WriterInv
  <2>1. /\ reader.snapshot \in 0..Len(nodes) /\ reader.node \in {Null} \cup 1..Len(nodes)
        /\ ik.tag = 2 * reader.snapshot + 1
    BY <2>0 DEF Readers, LookupKey, InternalKey, PackSequenceAndType, kValueTypeForSeek, kTypeValue
  <2>2. \A n \in 1..Len(nodes) : nodes[n] \in Entry /\ nodes[n].tag \in {2 * n, 2 * n + 1}
    BY <2>0, NodesAreOrdered DEF NodesOK
  <2>3. \A e \in Visible : ~(~Before(e, ik) /\ (reader.node = Null \/ Before(e, at)))
    BY <1>1 DEF WalksInOrder
  <2>4. reader.node # Null => ~Before(at, ik) /\ reader.node \in 1..Len(nodes) /\ at \in Entry
    BY <1>1, <2>1, <2>2 DEF ReaderOK
  <2>5. from \in SUBSET Entry /\ \A e \in from : e.tag <= 2 * Len(nodes) + 1
    <3>1. ASSUME NEW n \in 1..reader.snapshot
          PROVE  nodes[n] \in Entry /\ nodes[n].tag <= 2 * Len(nodes) + 1
      <4>1. n \in 1..Len(nodes) /\ n <= Len(nodes)
        BY <2>0, <2>1
      <4> QED BY <2>0, <2>2, <4>1
    <3> QED BY <3>1 DEF Visible
  <2>6. from # {} => First(from) \in from /\ \A f \in from : ~Before(f, First(from))
    <3> HIDE DEF from
    <3>1. 2 * Len(nodes) + 1 \in Nat
      BY <2>0
    <3>2. from # {} => \E e \in from : \A f \in from : ~Before(f, e)
      BY <2>5, <3>1, EntriesHaveEnds
    <3> QED BY <3>2 DEF First
  <2>7. CASE reader.node = Null
    <3>1. from = {}
      BY <2>3, <2>7
    <3> QED BY <2>7, <3>1 DEF GetSeesItsSnapshot, SeekEntry
  <2>8. CASE reader.node # Null /\ at.key = ik.key
    <3>1. ~(at.tag > ik.tag)
      BY <2>4, <2>8 DEF Before
    <3>2. reader.node \in 1..reader.snapshot
      <4>1. PICK n \in 1..Len(nodes) : n = reader.node
        BY <2>4, <2>8
      <4>2. nodes[n].tag \in {2 * n, 2 * n + 1} /\ ~(nodes[n].tag > 2 * reader.snapshot + 1)
        BY <2>1, <2>2, <3>1, <4>1
      <4>3. n <= reader.snapshot
        BY <2>0, <2>1, <4>2
      <4> QED BY <2>0, <2>1, <4>1, <4>3
    <3>3. at \in from
      BY <2>4, <2>8, <3>2 DEF Visible
    <3>4. \A f \in from : ~Before(f, at)
      BY <2>3
    <3>5. First(from) = at
      <4>1. PICK f \in from : f = First(from) /\ ~Before(at, f) /\ ~Before(f, at)
        <5> HIDE DEF from
        <5> QED BY <2>6, <3>3, <3>4
      <4>2. PICK n \in 1..Len(nodes) : f = nodes[n]
        <5>1. 1..reader.snapshot \subseteq 1..Len(nodes)
          BY <2>0, <2>1
        <5> QED BY <5>1 DEF Visible
      <4>3. n = reader.node
        BY <2>0, <2>4, <2>8, <4>1, <4>2, NodesAreOrdered
      <4> QED BY <4>1, <4>2, <4>3
    <3> HIDE DEF from, at
    <3>6. SeekEntry(Visible, ik) = {at}
      <4>1. SeekEntry(Visible, ik) =
              IF from = {} THEN {} ELSE {e \in {First(from)} : e.key = ik.key}
        BY DEF SeekEntry, from
      <4> QED BY <2>8, <3>3, <3>5, <4>1
    <3>7. (IF reader.node = Null THEN {} ELSE {e \in {at} : e.key = ik.key}) = {at}
      BY <2>8
    <3> QED BY <3>6, <3>7 DEF GetSeesItsSnapshot, at
  <2>9. CASE reader.node # Null /\ at.key # ik.key
    <3>1. at.key > ik.key
      BY KeyMaxAssumption, <2>0, <2>4, <2>9 DEF Before, Entry, UserKeys
    <3>2. \A f \in from : f.key # ik.key
      <4>1. ASSUME NEW f \in from, f.key = ik.key PROVE FALSE
        <5>1. Before(f, at)
          BY <3>1, <4>1 DEF Before
        <5> QED BY <2>3, <4>1, <5>1
      <4> QED BY <4>1
    <3> HIDE DEF from, at
    <3>3. SeekEntry(Visible, ik) = {}
      <4>1. SeekEntry(Visible, ik) =
              IF from = {} THEN {} ELSE {e \in {First(from)} : e.key = ik.key}
        BY DEF SeekEntry, from
      <4> QED BY <2>6, <3>2, <4>1
    <3>4. (IF reader.node = Null THEN {} ELSE {e \in {at} : e.key = ik.key}) = {}
      BY <2>9
    <3> QED BY <3>3, <3>4 DEF GetSeesItsSnapshot, at
  <2> QED BY <2>7, <2>8, <2>9
<1>2. GetSeesItsSnapshot
  BY <1>1 DEF GetSeesItsSnapshot
<1>3. LinksAreSet
  BY DEF LinksAreSet, ReaderOK, Readers
<1> QED BY <1>2, <1>3 DEF ReaderSeesSnapshot

ReaderInv == WriterInv /\ ReaderOK /\ WalksInOrder

LEMMA ReaderStep ==
  ASSUME Bounds, ReaderInv, [Next]_vars
  PROVE  ReaderInv'
<1>0. /\ WriterInv /\ ReaderOK /\ WalksInOrder /\ NodesOK
  BY DEF ReaderInv, WriterInv
<1>1. WriterInv' /\ OnlyGrows
  BY <1>0, WriterKeeps, StepsOnlyGrow
<1>2. CASE UNCHANGED reader
  BY <1>0, <1>1, <1>2, WriterLeavesReader DEF ReaderInv
<1>3. CASE NewReader
  BY <1>0, <1>1, <1>3, BeginKeeps DEF ReaderInv
<1>4. CASE Step
  BY <1>0, <1>1, <1>4, StepKeeps DEF ReaderInv
<1>5. CASE SeekToFirst
  <2>1. Follow("first", head_)
    BY <1>5 DEF SeekToFirst
  <2> QED BY <1>0, <1>1, <2>1, FollowKeeps DEF ReaderInv
<1>6. CASE NextPosition
  <2>1. Follow("next", reader.node) /\ reader.node # Null
    BY <1>6 DEF NextPosition
  <2> QED BY <1>0, <1>1, <2>1, FollowKeeps DEF ReaderInv
<1>7. \A k \in UserKeys : LookupKey(k, reader.snapshot) \in Entry
  BY <1>0 DEF ReaderOK, Readers, Entry, LookupKey, InternalKey, PackSequenceAndType,
              kValueTypeForSeek, kTypeValue, WriterInv
<1>8. ASSUME NEW k \in UserKeys, Get(k) \/ Seek(LookupKey(k, reader.snapshot))
      PROVE  ReaderInv'
  <2>1. CASE Get(k)
    <3>1. Searches("get", LookupKey(k, reader.snapshot))
      BY <1>7, <2>1 DEF Searches, Get
    <3> QED BY <1>0, <1>1, <3>1, SearchKeeps DEF ReaderInv
  <2>2. CASE Seek(LookupKey(k, reader.snapshot))
    <3>1. Searches("seek", LookupKey(k, reader.snapshot))
      BY <1>7, <2>2 DEF Searches, Seek
    <3> QED BY <1>0, <1>1, <3>1, SearchKeeps DEF ReaderInv
  <2> QED BY <1>8, <2>1, <2>2
<1>9. CASE Prev
  <2>1. reader.node \in 1..Len(nodes) /\ reader.node # Null /\ Search("prev", nodes[reader.node])
    BY <1>0, <1>9 DEF Prev, ReaderOK, Readers
  <2>2. Searches("prev", nodes[reader.node])
    BY <1>0, <2>1, NodesAreOrdered DEF Searches
  <2> QED BY <1>0, <1>1, <2>2, SearchKeeps DEF ReaderInv
<1>10. CASE SeekToLast
  <2>1. Searches("last", Null)
    BY <1>10 DEF Searches, SeekToLast
  <2> QED BY <1>0, <1>1, <2>1, SearchKeeps DEF ReaderInv
<1> QED BY <1>2, <1>3, <1>4, <1>5, <1>6, <1>8, <1>9, <1>10
        DEF Next, vars, Add, Link, SetLastSequence

(* Whatever a thread that holds no lock loads while a batch is inserted    *)
(* and published, a get finds what its snapshot holds, an iterator passes  *)
(* over no entry of its snapshot and moves in order, and no link is        *)
(* followed before it is set (Insert, FindGreaterOrEqual, FindLessThan,    *)
(* FindLast and Next of db/skiplist.h).                                    *)
THEOREM ReadersSeeTheirSnapshots ==
  ASSUME Bounds
  PROVE  Spec => []ReaderSeesSnapshot
<1>1. Init => ReaderInv
  <2>1. ASSUME Init PROVE ReaderInv
    <3>1. WriterInv /\ reader = NoRead /\ nodes = <<>> /\ memory = <<>>
      BY <2>1, WriterBegins DEF Init
    <3>2. ReaderOK
      <4>1. Len(nodes) = 0 /\ Len(memory) = 0 /\ 0 \in Levels
        BY <3>1, EmptySeq DEF Levels, Bounds
      <4>2. reader \in Readers(0, 0)
        BY <3>1, <4>1 DEF NoRead, Readers, head_
      <4>3. InView(reader.snapshot, reader.view)
        BY <3>1 DEF NoRead, InView
      <4> QED BY <3>1, <4>1, <4>2, <4>3 DEF ReaderOK, NoRead
    <3>3. WalksInOrder
      BY <3>1 DEF WalksInOrder, NoRead
    <3> QED BY <3>1, <3>2, <3>3 DEF ReaderInv
  <2> QED BY <2>1
<1>2. ReaderInv /\ [Next]_vars => ReaderInv'
  BY ReaderStep
<1>3. ReaderInv => ReaderSeesSnapshot
  BY WalkingIsSeeing DEF ReaderInv
<1> QED BY <1>1, <1>2, <1>3, PTL DEF Spec

-----------------------------------------------------------------------------
(***************************************************************************)
(* TwoLevelIterator, for any blocks.                                       *)
(***************************************************************************)

(* A loop of n passes, each of which makes of a state in V another one.    *)
Passes(f, n, s, pass) == f = [m \in 0..n |-> IF m = 0 THEN s ELSE pass[f[m - 1]]]

LEMMA LoopExists ==
  ASSUME NEW V, NEW s \in V, NEW pass \in [V -> V], NEW n \in Nat
  PROVE  \E f \in [0..n -> V] : Passes(f, n, s, pass)
<1> DEFINE Q(f, m) == f \in [0..m -> V] /\ Passes(f, m, s, pass)
           Bad == {m \in Nat : \A f : ~Q(f, m)}
<1>1. Bad = {}
  <2> SUFFICES ASSUME Bad # {} PROVE FALSE
    OBVIOUS
  <2>1. PICK k \in Bad : \A m \in Bad : k <= m
    <3>1. Bad \in SUBSET Nat
      OBVIOUS
    <3> HIDE DEF Bad
    <3> QED BY <3>1, LeastNumber
  <2>2. k # 0
    <3>1. Q([m \in 0..0 |-> s], 0)
      BY DEF Passes
    <3> HIDE DEF Q
    <3> QED BY <2>1, <3>1
  <2>3. k \in Nat /\ k - 1 \in Nat /\ k - 1 \notin Bad
    <3>1. k \in Nat /\ k - 1 < k /\ k - 1 \in Nat
      BY <2>1, <2>2
    <3> HIDE DEF Bad
    <3> QED BY <2>1, <3>1
  <2>4. PICK f : Q(f, k - 1)
    BY <2>3
  <2> DEFINE g == [m \in 0..k |-> IF m = k THEN pass[f[k - 1]] ELSE f[m]]
  <2>5. f \in [0..(k - 1) -> V] /\ k - 1 \in 0..(k - 1)
    BY <2>3, <2>4
  <2>6. g \in [0..k -> V]
    <3>1. \A m \in 0..k : m # k => m \in 0..(k - 1)
      BY <2>3
    <3>2. pass[f[k - 1]] \in V
      BY <2>5
    <3> QED BY <2>5, <3>1, <3>2
  <2>7. ASSUME NEW m \in 0..k PROVE g[m] = IF m = 0 THEN s ELSE pass[g[m - 1]]
    <3>1. CASE m = k
      <4>1. g[k - 1] = f[k - 1] /\ g[k] = pass[f[k - 1]]
        BY <2>3
      <4> QED BY <2>2, <3>1, <4>1
    <3>2. CASE m # k
      <4>1. m \in 0..(k - 1) /\ g[m] = f[m]
        BY <2>3, <3>2
      <4>2. f[m] = IF m = 0 THEN s ELSE pass[f[m - 1]]
        BY <2>4, <4>1 DEF Passes
      <4>3. m # 0 => g[m - 1] = f[m - 1]
        BY <2>3, <3>2
      <4> QED BY <4>1, <4>2, <4>3
    <3> QED BY <3>1, <3>2
  <2>8. Q(g, k)
    <3> HIDE DEF g
    <3>1. g = [m \in 0..k |-> g[m]]
      BY <2>6
    <3>2. g = [m \in 0..k |-> IF m = 0 THEN s ELSE pass[g[m - 1]]]
      BY <2>7, <3>1
    <3> QED BY <2>6, <3>2 DEF Passes
  <2> HIDE DEF Q, g
  <2> QED BY <2>1, <2>8
<1> QED BY <1>1

(* What holds at first, and after a pass if it did before, holds at last.  *)
LEMMA LoopKeeps ==
  ASSUME NEW V, NEW s \in V, NEW pass \in [V -> V], NEW n \in Nat,
         NEW f, f[0] = s, \A m \in 0..(n - 1) : f[m] \in V => f[m + 1] = pass[f[m]],
         NEW I, <<0, s>> \in I,
         \A m \in 0..(n - 1), v \in V : <<m, v>> \in I => <<m + 1, pass[v]>> \in I
  PROVE  f[n] \in V /\ <<n, f[n]>> \in I
<1> DEFINE Bad == {m \in 0..n : ~(f[m] \in V /\ <<m, f[m]>> \in I)}
<1>2. Bad = {}
  <2> SUFFICES ASSUME Bad # {} PROVE FALSE
    OBVIOUS
  <2>1. PICK k \in Bad : \A m \in Bad : k <= m
    <3>1. Bad \in SUBSET Nat
      OBVIOUS
    <3> HIDE DEF Bad
    <3> QED BY <3>1, LeastNumber
  <2>2. k \in 0..n /\ k # 0
    BY <2>1
  <2>3. k - 1 \in 0..(n - 1) /\ k - 1 \in 0..n /\ k - 1 < k /\ (k - 1) + 1 = k
    BY <2>2
  <2>4. k - 1 \notin Bad
    <3> HIDE DEF Bad
    <3> QED BY <2>1, <2>2, <2>3
  <2>5. f[k - 1] \in V /\ <<k - 1, f[k - 1]>> \in I
    BY <2>3, <2>4
  <2>6. f[k] = pass[f[k - 1]]
    BY <2>3, <2>5
  <2> QED BY <2>1, <2>3, <2>5, <2>6
<1> QED BY <1>2

-----------------------------------------------------------------------------
(* Entries *)

LEMMA BlocksAre ==
  /\ BlockCount \in Nat
  /\ \A b \in 1..BlockCount :
       /\ Len(Blocks[b]) \in Nat \ {0} /\ DOMAIN Blocks[b] = 1..Len(Blocks[b])
       /\ \A i \in 1..Len(Blocks[b]) : Blocks[b][i] \in Nat \ {0} /\ Blocks[b][i] \in BlockEntries
  /\ \A e \in BlockEntries : \E b \in 1..BlockCount : \E i \in 1..Len(Blocks[b]) : e = Blocks[b][i]
  /\ \A b, c \in 1..BlockCount : \A i \in 1..Len(Blocks[b]), j \in 1..Len(Blocks[c]) :
       b < c \/ (b = c /\ i < j) => Blocks[b][i] < Blocks[c][j]
<1>1. BlockCount \in Nat /\ \A b \in 1..BlockCount : Blocks[b] \in Seq(Nat \ {0}) \ {<<>>}
  BY BlocksAssumption, ElementOfSeq, LenProperties DEF BlocksAssumption, BlockCount
<1>2. ASSUME NEW b \in 1..BlockCount
      PROVE  /\ Len(Blocks[b]) \in Nat \ {0} /\ DOMAIN Blocks[b] = 1..Len(Blocks[b])
             /\ \A i \in 1..Len(Blocks[b]) : Blocks[b][i] \in Nat \ {0} /\ Blocks[b][i] \in BlockEntries
  <2>1. Blocks[b] \in Seq(Nat \ {0}) /\ Blocks[b] # <<>>
    BY <1>1
  <2>2. Len(Blocks[b]) \in Nat \ {0} /\ DOMAIN Blocks[b] = 1..Len(Blocks[b])
    BY <2>1, LenProperties, EmptySeq
  <2>3. \A i \in 1..Len(Blocks[b]) : Blocks[b][i] \in Nat \ {0}
    BY <2>1, ElementOfSeq
  <2>4. \A i \in 1..Len(Blocks[b]) : Blocks[b][i] \in BlockEntries
    BY <2>2 DEF BlockEntries
  <2> QED BY <2>2, <2>3, <2>4
<1>3. \A e \in BlockEntries : \E b \in 1..BlockCount : \E i \in 1..Len(Blocks[b]) : e = Blocks[b][i]
  BY <1>2 DEF BlockEntries
<1>4. ASSUME NEW b \in 1..BlockCount, NEW c \in 1..BlockCount,
             NEW i \in 1..Len(Blocks[b]), NEW j \in 1..Len(Blocks[c]), b < c \/ (b = c /\ i < j)
      PROVE  Blocks[b][i] < Blocks[c][j]
  <2>1. i \in DOMAIN Blocks[b] /\ j \in DOMAIN Blocks[c]
    BY <1>2
  <2> QED BY <1>4, <2>1, BlocksAssumption DEF BlocksAssumption
<1> QED BY <1>1, <1>2, <1>3, <1>4

LEMMA EndsAre ==
  ASSUME NEW S \in SUBSET BlockEntries
  PROVE  /\ S = {} => LeastEntry(S) = 0 /\ LastEntry(S) = 0
         /\ \A e \in S : (\A f \in S : e <= f) => LeastEntry(S) = e
         /\ \A e \in S : (\A f \in S : e >= f) => LastEntry(S) = e
<1>1. S \subseteq Nat
  BY BlocksAre
<1>2. ASSUME NEW e \in S, \A f \in S : e <= f PROVE LeastEntry(S) = e
  <2>1. LeastEntry(S) \in S /\ \A f \in S : LeastEntry(S) <= f
    BY <1>2 DEF LeastEntry
  <2>2. LeastEntry(S) <= e /\ e <= LeastEntry(S) /\ e \in Nat /\ LeastEntry(S) \in Nat
    BY <1>1, <1>2, <2>1
  <2> QED BY <2>2
<1>3. ASSUME NEW e \in S, \A f \in S : e >= f PROVE LastEntry(S) = e
  <2>1. LastEntry(S) \in S /\ \A f \in S : LastEntry(S) >= f
    BY <1>3 DEF LastEntry
  <2>2. LastEntry(S) >= e /\ e >= LastEntry(S) /\ e \in Nat /\ LastEntry(S) \in Nat
    BY <1>1, <1>3, <2>1
  <2> QED BY <2>2
<1> QED BY <1>2, <1>3 DEF LeastEntry, LastEntry

LEMMA OnlyThese ==
  ASSUME NEW S \in SUBSET BlockEntries, NEW b \in 1..BlockCount, NEW i \in 1..Len(Blocks[b]),
         Blocks[b][i] \in S
  PROVE  /\ (\A c \in 1..BlockCount : \A j \in 1..Len(Blocks[c]) :
               c < b \/ (c = b /\ j < i) => Blocks[c][j] \notin S)
            => LeastEntry(S) = Blocks[b][i]
         /\ (\A c \in 1..BlockCount : \A j \in 1..Len(Blocks[c]) :
               c > b \/ (c = b /\ j > i) => Blocks[c][j] \notin S)
            => LastEntry(S) = Blocks[b][i]
<1> DEFINE x == Blocks[b][i]
<1>1. ASSUME NEW f \in S
      PROVE  \/ f = x
             \/ /\ f > x
                /\ \E c \in 1..BlockCount : \E j \in 1..Len(Blocks[c]) :
                     f = Blocks[c][j] /\ (c > b \/ (c = b /\ j > i))
             \/ /\ f < x
                /\ \E c \in 1..BlockCount : \E j \in 1..Len(Blocks[c]) :
                     f = Blocks[c][j] /\ (c < b \/ (c = b /\ j < i))
  <2>1. PICK c \in 1..BlockCount : \E j \in 1..Len(Blocks[c]) : f = Blocks[c][j]
    BY BlocksAre
  <2>2. PICK j \in 1..Len(Blocks[c]) : f = Blocks[c][j]
    BY <2>1
  <2>3. CASE c = b /\ j = i
    BY <2>2, <2>3
  <2>4. CASE c < b \/ (c = b /\ j < i)
    <3>1. f < x
      BY <2>2, <2>4, BlocksAre
    <3> QED BY <2>2, <2>4, <3>1
  <2>5. CASE c > b \/ (c = b /\ j > i)
    <3>1. b < c \/ (b = c /\ i < j)
      BY <2>5, BlocksAre
    <3>2. x < f
      BY <2>2, <3>1, BlocksAre
    <3>3. x \in Nat /\ f \in Nat
      BY <2>2, BlocksAre
    <3> QED BY <2>2, <2>5, <3>2, <3>3
  <2>6. c \in Nat /\ b \in Nat /\ j \in Nat /\ i \in Nat
    BY BlocksAre
  <2> QED BY <2>3, <2>4, <2>5, <2>6
<1>2. x \in Nat /\ \A f \in S : f \in Nat
  BY BlocksAre
<1> HIDE DEF x
<1>3. ASSUME \A c \in 1..BlockCount : \A j \in 1..Len(Blocks[c]) :
               c < b \/ (c = b /\ j < i) => Blocks[c][j] \notin S
      PROVE  LeastEntry(S) = x
  <2>1. \A f \in S : x <= f
    BY <1>1, <1>2, <1>3
  <2> QED BY <2>1, EndsAre DEF x
<1>4. ASSUME \A c \in 1..BlockCount : \A j \in 1..Len(Blocks[c]) :
               c > b \/ (c = b /\ j > i) => Blocks[c][j] \notin S
      PROVE  LastEntry(S) = x
  <2>1. \A f \in S : x >= f
    BY <1>1, <1>2, <1>4
  <2> QED BY <2>1, EndsAre DEF x
<1> QED BY <1>3, <1>4 DEF x

LEMMA NoneOfThese ==
  ASSUME NEW S \in SUBSET BlockEntries,
         \A c \in 1..BlockCount : \A j \in 1..Len(Blocks[c]) : Blocks[c][j] \notin S
  PROVE  LeastEntry(S) = 0 /\ LastEntry(S) = 0
<1>1. S = {}
  BY BlocksAre
<1> QED BY <1>1, EndsAre

(* The entry after, and before, all of block b; 0 is not a block.          *)
FirstAfter(b) == IF b \in 1..(BlockCount - 1) THEN Blocks[b + 1][1] ELSE 0
LastBefore(b) == IF b \in 2..BlockCount THEN Blocks[b - 1][Len(Blocks[b - 1])] ELSE 0

LEMMA SuccessorIs ==
  ASSUME NEW b \in 1..BlockCount, NEW i \in 1..Len(Blocks[b])
  PROVE  LeastEntry({e \in BlockEntries : e > Blocks[b][i]}) =
           IF i < Len(Blocks[b]) THEN Blocks[b][i + 1] ELSE FirstAfter(b)
<1> DEFINE S == {e \in BlockEntries : e > Blocks[b][i]}
<1>1. ASSUME NEW c \in 1..BlockCount, NEW j \in 1..Len(Blocks[c])
      PROVE  Blocks[c][j] \in S <=> c > b \/ (c = b /\ j > i)
  <2>1. /\ Blocks[c][j] \in BlockEntries /\ Blocks[c][j] \in Nat /\ Blocks[b][i] \in Nat
        /\ c \in Nat /\ b \in Nat /\ i \in Nat /\ j \in Nat
    BY BlocksAre
  <2>2. b < c \/ (b = c /\ i < j) => Blocks[b][i] < Blocks[c][j]
    BY BlocksAre
  <2>3. c < b \/ (c = b /\ j < i) => Blocks[c][j] < Blocks[b][i]
    BY BlocksAre
  <2> QED BY <2>1, <2>2, <2>3
<1>2. S \in SUBSET BlockEntries
  OBVIOUS
<1> HIDE DEF S
<1>3. CASE i < Len(Blocks[b])
  <2>1. i + 1 \in 1..Len(Blocks[b]) /\ i + 1 > i
    BY <1>3, BlocksAre
  <2>2. \A c \in 1..BlockCount : \A j \in 1..Len(Blocks[c]) :
          c < b \/ (c = b /\ j < i + 1) => ~(c > b \/ (c = b /\ j > i))
    BY BlocksAre
  <2>3. LeastEntry(S) = Blocks[b][i + 1]
    BY <1>1, <1>2, <2>1, <2>2, OnlyThese
  <2> QED BY <1>3, <2>3 DEF S
<1>4. CASE ~(i < Len(Blocks[b])) /\ b \in 1..(BlockCount - 1)
  <2>1. b + 1 \in 1..BlockCount /\ 1 \in 1..Len(Blocks[b + 1]) /\ b + 1 > b
    BY <1>4, BlocksAre
  <2>2. \A c \in 1..BlockCount : \A j \in 1..Len(Blocks[c]) :
          c < b + 1 \/ (c = b + 1 /\ j < 1) => ~(c > b \/ (c = b /\ j > i))
    BY <1>4, BlocksAre
  <2>3. LeastEntry(S) = Blocks[b + 1][1]
    BY <1>1, <1>2, <2>1, <2>2, OnlyThese
  <2> QED BY <1>4, <2>3 DEF S, FirstAfter
<1>5. CASE ~(i < Len(Blocks[b])) /\ b \notin 1..(BlockCount - 1)
  <2>1. \A c \in 1..BlockCount : \A j \in 1..Len(Blocks[c]) : ~(c > b \/ (c = b /\ j > i))
    BY <1>5, BlocksAre
  <2>2. LeastEntry(S) = 0
    BY <1>1, <1>2, <2>1, NoneOfThese
  <2> QED BY <1>5, <2>2 DEF S, FirstAfter
<1> QED BY <1>3, <1>4, <1>5

LEMMA PredecessorIs ==
  ASSUME NEW b \in 1..BlockCount, NEW i \in 1..Len(Blocks[b])
  PROVE  LastEntry({e \in BlockEntries : e < Blocks[b][i]}) =
           IF i > 1 THEN Blocks[b][i - 1] ELSE LastBefore(b)
<1> DEFINE S == {e \in BlockEntries : e < Blocks[b][i]}
<1>1. ASSUME NEW c \in 1..BlockCount, NEW j \in 1..Len(Blocks[c])
      PROVE  Blocks[c][j] \in S <=> c < b \/ (c = b /\ j < i)
  <2>1. /\ Blocks[c][j] \in BlockEntries /\ Blocks[c][j] \in Nat /\ Blocks[b][i] \in Nat
        /\ c \in Nat /\ b \in Nat /\ i \in Nat /\ j \in Nat
    BY BlocksAre
  <2>2. b < c \/ (b = c /\ i < j) => Blocks[b][i] < Blocks[c][j]
    BY BlocksAre
  <2>3. c < b \/ (c = b /\ j < i) => Blocks[c][j] < Blocks[b][i]
    BY BlocksAre
  <2> QED BY <2>1, <2>2, <2>3
<1>2. S \in SUBSET BlockEntries
  OBVIOUS
<1> HIDE DEF S
<1>3. CASE i > 1
  <2>1. i - 1 \in 1..Len(Blocks[b]) /\ i - 1 < i
    BY <1>3, BlocksAre
  <2>2. \A c \in 1..BlockCount : \A j \in 1..Len(Blocks[c]) :
          c > b \/ (c = b /\ j > i - 1) => ~(c < b \/ (c = b /\ j < i))
    BY BlocksAre
  <2>3. LastEntry(S) = Blocks[b][i - 1]
    BY <1>1, <1>2, <2>1, <2>2, OnlyThese
  <2> QED BY <1>3, <2>3 DEF S
<1>4. CASE ~(i > 1) /\ b \in 2..BlockCount
  <2> DEFINE c == b - 1
             l == Len(Blocks[c])
  <2>1. c \in 1..BlockCount /\ c < b
    BY <1>4, BlocksAre
  <2>2. l \in 1..Len(Blocks[c])
    BY <2>1, BlocksAre
  <2>3. ASSUME NEW d \in 1..BlockCount, NEW j \in 1..Len(Blocks[d]), d > c \/ (d = c /\ j > l)
        PROVE  ~(d < b \/ (d = b /\ j < i))
    <3>1. d # c
      BY <2>2, <2>3, BlocksAre
    <3>2. Len(Blocks[d]) \in Nat /\ Len(Blocks[b]) \in Nat /\ i = 1
      BY <1>4, BlocksAre
    <3> QED BY <2>3, <3>1, <3>2
  <2>4. LastEntry(S) = Blocks[c][l]
    <3>1. Blocks[c][l] \in S
      BY <1>1, <2>1, <2>2
    <3>2. \A d \in 1..BlockCount : \A j \in 1..Len(Blocks[d]) :
            d > c \/ (d = c /\ j > l) => Blocks[d][j] \notin S
      BY <1>1, <2>3
    <3> HIDE DEF c, l
    <3> QED BY <1>2, <2>1, <2>2, <3>1, <3>2, OnlyThese
  <2> QED BY <1>4, <2>4 DEF S, LastBefore
<1>5. CASE ~(i > 1) /\ b \notin 2..BlockCount
  <2>1. \A c \in 1..BlockCount : \A j \in 1..Len(Blocks[c]) : ~(c < b \/ (c = b /\ j < i))
    BY <1>5, BlocksAre
  <2>2. LastEntry(S) = 0
    BY <1>1, <1>2, <2>1, NoneOfThese
  <2> QED BY <1>5, <2>2 DEF S, LastBefore
<1> QED BY <1>3, <1>4, <1>5

(* Where a seek arrives: no entry at target or after it is before entry i  *)
(* of block b, the first entry there is among the last ones of their       *)
(* blocks.                                                                 *)
LEMMA SoughtIs ==
  ASSUME NEW target \in Nat, NEW b \in 1..BlockCount, NEW i \in 1..Len(Blocks[b]),
         \A c \in 1..BlockCount : c < b => Blocks[c][Len(Blocks[c])] < target,
         \A j \in 1..Len(Blocks[b]) : j < i => Blocks[b][j] < target,
         Blocks[b][i] >= target
  PROVE  LeastEntry({e \in BlockEntries : e >= target}) = Blocks[b][i]
<1> DEFINE S == {e \in BlockEntries : e >= target}
<1>1. S \in SUBSET BlockEntries /\ Blocks[b][i] \in S
  BY BlocksAre
<1>2. ASSUME NEW c \in 1..BlockCount, NEW j \in 1..Len(Blocks[c]), c < b \/ (c = b /\ j < i)
      PROVE  Blocks[c][j] \notin S
  <2>1. Blocks[c][j] < target
    <3>1. CASE c = b
      BY <1>2, <3>1
    <3>2. CASE c < b
      <4> DEFINE l == Len(Blocks[c])
      <4>1. l \in 1..Len(Blocks[c]) /\ (j < l \/ j = l)
        BY BlocksAre
      <4>2. j < l => Blocks[c][j] < Blocks[c][l]
        BY <4>1, BlocksAre
      <4>3. Blocks[c][l] < target /\ Blocks[c][l] \in Nat /\ Blocks[c][j] \in Nat
        BY <3>2, <4>1, BlocksAre
      <4> HIDE DEF l
      <4> QED BY <4>1, <4>2, <4>3
    <3> QED BY <1>2, <3>1, <3>2
  <2> QED BY <2>1, BlocksAre
<1> HIDE DEF S
<1>3. LeastEntry(S) = Blocks[b][i]
  BY <1>1, <1>2, OnlyThese
<1> QED BY <1>3 DEF S

LEMMA NothingSought ==
  ASSUME NEW target \in Nat,
         \A c \in 1..BlockCount : Blocks[c][Len(Blocks[c])] < target
  PROVE  LeastEntry({e \in BlockEntries : e >= target}) = 0
<1> DEFINE S == {e \in BlockEntries : e >= target}
<1>1. ASSUME NEW c \in 1..BlockCount, NEW j \in 1..Len(Blocks[c]) PROVE Blocks[c][j] \notin S
  <2> DEFINE l == Len(Blocks[c])
  <2>1. l \in 1..Len(Blocks[c]) /\ (j < l \/ j = l)
    BY BlocksAre
  <2>2. j < l => Blocks[c][j] < Blocks[c][l]
    BY <2>1, BlocksAre
  <2>3. Blocks[c][l] < target /\ Blocks[c][l] \in Nat /\ Blocks[c][j] \in Nat
    BY <2>1, BlocksAre
  <2> HIDE DEF l
  <2> QED BY <2>1, <2>2, <2>3
<1>2. S \in SUBSET BlockEntries
  OBVIOUS
<1> HIDE DEF S
<1>3. LeastEntry(S) = 0
  BY <1>1, <1>2, NoneOfThese
<1> QED BY <1>3 DEF S

(* The first entry and the last.                                           *)
LEMMA OutermostAre ==
  /\ LeastEntry(BlockEntries) = IF BlockCount = 0 THEN 0 ELSE Blocks[1][1]
  /\ LastEntry(BlockEntries) =
       IF BlockCount = 0 THEN 0 ELSE Blocks[BlockCount][Len(Blocks[BlockCount])]
<1>1. CASE BlockCount = 0
  BY <1>1, NoneOfThese, BlocksAre
<1>2. CASE BlockCount # 0
  <2> DEFINE n == BlockCount
             l == Len(Blocks[n])
  <2>1. 1 \in 1..n /\ n \in 1..n /\ n \in Nat
    BY <1>2, BlocksAre
  <2>2. 1 \in 1..Len(Blocks[1]) /\ l \in 1..Len(Blocks[n])
    BY <2>1, BlocksAre
  <2>3. Blocks[1][1] \in BlockEntries /\ Blocks[n][l] \in BlockEntries
    BY <2>1, <2>2, BlocksAre
  <2>4. \A c \in 1..n : \A j \in 1..Len(Blocks[c]) : ~(c < 1 \/ (c = 1 /\ j < 1))
    BY BlocksAre
  <2>5. ASSUME NEW c \in 1..n, NEW j \in 1..Len(Blocks[c]) PROVE ~(c > n \/ (c = n /\ j > l))
    BY <2>1, BlocksAre
  <2>6. LeastEntry(BlockEntries) = Blocks[1][1]
    BY <2>1, <2>2, <2>3, <2>4, OnlyThese
  <2>7. LastEntry(BlockEntries) = Blocks[n][l]
    <3> HIDE DEF l
    <3> QED BY <2>1, <2>2, <2>3, <2>5, OnlyThese
  <2> QED BY <1>2, <2>6, <2>7
<1> QED BY <1>1, <1>2

-----------------------------------------------------------------------------
(* Block iterators *)

DataIts == {it \in [block : 1..BlockCount, at : Nat, bad : Int, ok : BOOLEAN] :
              /\ it.at <= Len(Blocks[it.block])
              /\ it.bad = Unread => it.at = 0 /\ ~it.ok}

IndexIts == {it \in [block : {0}, at : Nat, bad : Nat, ok : BOOLEAN] :
               it.at <= BlockCount /\ it.bad <= BlockCount}

LEMMA OpenedIs ==
  ASSUME NEW b \in 1..BlockCount, NEW read \in Reads
  PROVE  LET it == Iterator(b, read[b], read[b] # Unread)
         IN  it \in DataIts /\ it.block = b
<1> DEFINE it == Iterator(b, read[b], read[b] # Unread)
<1>1. read[b] \in Int
  BY DEF Reads, Unread
<1>2. it = [block |-> b, at |-> 0, bad |-> read[b], ok |-> read[b] # Unread]
  BY DEF Iterator
<1>3. Len(Blocks[b]) \in Nat
  BY BlocksAre
<1>4. it.block = b /\ it.at = 0 /\ it.bad = read[b] /\ it.ok = (read[b] # Unread)
  BY <1>2
<1>5. it \in [block : 1..BlockCount, at : Nat, bad : Int, ok : BOOLEAN]
  <2> DEFINE opened == read[b] # Unread
  <2>1. opened \in BOOLEAN
    OBVIOUS
  <2> HIDE DEF opened
  <2>2. [block |-> b, at |-> 0, bad |-> read[b], ok |-> opened]
          \in [block : 1..BlockCount, at : Nat, bad : Int, ok : BOOLEAN]
    BY <1>1, <2>1
  <2> QED BY <1>2, <2>2 DEF opened
<1> HIDE DEF it
<1>6. it \in DataIts
  BY <1>3, <1>4, <1>5 DEF DataIts
<1> QED BY <1>4, <1>6 DEF it

(* Where a block iterator comes without damage on its way, and that it is  *)
(* not ok when there is some.                                              *)
LEMMA MovesInBlock ==
  ASSUME NEW it \in DataIts
  PROVE  LET l == Len(Blocks[it.block]) IN
         /\ FirstIn(it) \in DataIts /\ FirstIn(it).block = it.block
         /\ FirstIn(it).ok => it.ok /\ FirstIn(it).at = 1
         /\ LastIn(it) \in DataIts /\ LastIn(it).block = it.block
         /\ LastIn(it).ok => it.ok /\ LastIn(it).at = l
         /\ it.at # 0 =>
              /\ NextIn(it) \in DataIts /\ NextIn(it).block = it.block
              /\ NextIn(it).at # 0 => NextIn(it).at = it.at + 1
              /\ NextIn(it).ok => it.ok /\ NextIn(it).at = IF it.at < l THEN it.at + 1 ELSE 0
              /\ PrevIn(it) \in DataIts /\ PrevIn(it).block = it.block
              /\ PrevIn(it).at # 0 => PrevIn(it).at = it.at - 1
              /\ PrevIn(it).ok => it.ok /\ PrevIn(it).at = it.at - 1
<1> DEFINE l == Len(Blocks[it.block])
<1>1. /\ it = [block |-> it.block, at |-> it.at, bad |-> it.bad, ok |-> it.ok]
      /\ it.block \in 1..BlockCount /\ it.at \in Nat /\ it.bad \in Int /\ it.ok \in BOOLEAN
      /\ it.at <= l /\ (it.bad = Unread => it.at = 0 /\ ~it.ok)
  BY DEF DataIts
<1>2. l \in Nat /\ l >= 1
  BY <1>1, BlocksAre
<1>3. /\ it.bad # Unread => LengthOf(it) = l
      /\ it.bad = Unread => LengthOf(it) = 0
  BY DEF LengthOf
<1> HIDE DEF l
<1>4. ASSUME NEW from \in Int, NEW to \in Int, it.bad # Unread, to >= 0
      PROVE  /\ Parsed(it, from, to, l) \in DataIts /\ Parsed(it, from, to, l).block = it.block
             /\ Parsed(it, from, to, l).at # 0 => Parsed(it, from, to, l).at = to
             /\ Parsed(it, from, to, l).ok =>
                  it.ok /\ Parsed(it, from, to, l).at = IF to <= l THEN to ELSE 0
  <2>1. CASE it.bad # 0 /\ it.bad \in from..to
    <3>1. Parsed(it, from, to, l) = [block |-> it.block, at |-> 0, bad |-> it.bad, ok |-> FALSE]
      BY <1>1, <2>1 DEF Parsed
    <3> QED BY <1>1, <1>2, <3>1 DEF DataIts, l
  <2>2. CASE ~(it.bad # 0 /\ it.bad \in from..to)
    <3> DEFINE a == IF to <= l THEN to ELSE 0
    <3>1. Parsed(it, from, to, l) = [block |-> it.block, at |-> a, bad |-> it.bad, ok |-> it.ok]
      BY <1>1, <2>2 DEF Parsed
    <3>2. a \in Nat /\ a <= l /\ (a # 0 => a = to)
      BY <1>2, <1>4
    <3> HIDE DEF a
    <3>3. Parsed(it, from, to, l) \in DataIts
      BY <1>1, <1>4, <3>1, <3>2 DEF DataIts, l
    <3> QED BY <3>1, <3>2, <3>3 DEF a
  <2> QED BY <2>1, <2>2
<1>5. /\ FirstIn(it) \in DataIts /\ FirstIn(it).block = it.block
      /\ FirstIn(it).ok => it.ok /\ FirstIn(it).at = 1
  <2>1. CASE it.bad = Unread
    BY <1>1, <2>1 DEF FirstIn
  <2>2. CASE it.bad # Unread
    <3>1. FirstIn(it) = Parsed(it, 1, 1, l)
      BY <1>3, <2>2 DEF FirstIn
    <3> QED BY <1>2, <1>4, <2>2, <3>1
  <2> QED BY <2>1, <2>2
<1>6. /\ LastIn(it) \in DataIts /\ LastIn(it).block = it.block
      /\ LastIn(it).ok => it.ok /\ LastIn(it).at = l
  <2>1. CASE it.bad = Unread
    BY <1>1, <2>1 DEF LastIn
  <2>2. CASE it.bad # Unread
    <3>1. LastIn(it) = Parsed(it, 1, l, l)
      BY <1>3, <2>2 DEF LastIn
    <3> QED BY <1>2, <1>4, <2>2, <3>1
  <2> QED BY <2>1, <2>2
<1>7. ASSUME it.at # 0
      PROVE  /\ NextIn(it) \in DataIts /\ NextIn(it).block = it.block
             /\ NextIn(it).at # 0 => NextIn(it).at = it.at + 1
             /\ NextIn(it).ok => it.ok /\ NextIn(it).at = IF it.at < l THEN it.at + 1 ELSE 0
  <2>1. it.bad # Unread
    BY <1>1, <1>7
  <2>2. NextIn(it) = Parsed(it, it.at + 1, it.at + 1, l)
    BY <1>3, <2>1 DEF NextIn
  <2>3. it.at + 1 \in Int /\ it.at + 1 >= 0 /\ (it.at + 1 <= l <=> it.at < l)
    BY <1>1, <1>2
  <2> QED BY <1>4, <2>1, <2>2, <2>3
<1>8. ASSUME it.at # 0
      PROVE  /\ PrevIn(it) \in DataIts /\ PrevIn(it).block = it.block
             /\ PrevIn(it).at # 0 => PrevIn(it).at = it.at - 1
             /\ PrevIn(it).ok => it.ok /\ PrevIn(it).at = it.at - 1
  <2>1. it.bad # Unread
    BY <1>1, <1>8
  <2>2. CASE it.at = 1
    <3>1. PrevIn(it) = [block |-> it.block, at |-> 0, bad |-> it.bad, ok |-> it.ok]
      BY <1>1, <2>2 DEF PrevIn
    <3> QED BY <1>1, <1>2, <2>1, <2>2, <3>1 DEF DataIts, l
  <2>3. CASE it.at # 1
    <3>1. PrevIn(it) = Parsed(it, 1, it.at - 1, l)
      BY <1>3, <2>1, <2>3 DEF PrevIn
    <3>2. it.at - 1 \in Int /\ it.at - 1 >= 0 /\ it.at - 1 <= l
      BY <1>1, <1>2, <1>8
    <3> QED BY <1>4, <2>1, <3>1, <3>2
  <2> QED BY <2>2, <2>3
<1> QED BY <1>5, <1>6, <1>7, <1>8 DEF l
(* Where a seek arrives in a block: at the first entry that is not before  *)
(* the target, and past the end if all are.                                *)
LEMMA SeeksInBlock ==
  ASSUME NEW it \in DataIts, NEW target \in Nat
  PROVE  LET l == Len(Blocks[it.block])
             t == SeekIn(it, target)
         IN  /\ t \in DataIts /\ t.block = it.block
             /\ t.ok => it.ok
             /\ t.ok /\ t.at # 0 => /\ Blocks[it.block][t.at] >= target
                                    /\ \A j \in 1..l : j < t.at => Blocks[it.block][j] < target
             /\ t.ok /\ t.at = 0 => \A j \in 1..l : Blocks[it.block][j] < target
<1> DEFINE l    == Len(Blocks[it.block])
           from == {i \in 1..l : Blocks[it.block][i] >= target}
           to   == IF from = {} THEN l + 1 ELSE CHOOSE i \in from : \A j \in from : i <= j
           t    == SeekIn(it, target)
<1>1. /\ it.block \in 1..BlockCount /\ it.at \in Nat /\ it.bad \in Int /\ it.ok \in BOOLEAN
      /\ it.at <= l /\ (it.bad = Unread => it.at = 0 /\ ~it.ok)
  BY DEF DataIts
<1>2. l \in Nat /\ l >= 1 /\ \A j \in 1..l : Blocks[it.block][j] \in Nat
  BY <1>1, BlocksAre
<1>3. CASE it.bad = Unread
  <2>1. t = it
    BY <1>3 DEF SeekIn
  <2> HIDE DEF t
  <2> QED BY <1>1, <1>3, <2>1 DEF t
<1>4. CASE it.bad # Unread
  <2>1. t = Parsed(it, 1, to, l)
    <3>1. LengthOf(it) = l
      BY <1>4 DEF LengthOf
    <3> HIDE DEF l
    <3> QED BY <1>4, <3>1 DEF SeekIn
  <2>2. /\ to \in 1..(l + 1)
        /\ \A j \in 1..l : j < to => Blocks[it.block][j] < target
        /\ to # l + 1 => Blocks[it.block][to] >= target
    <3>1. CASE from = {}
      <4>1. to = l + 1 /\ \A j \in 1..l : ~(Blocks[it.block][j] >= target)
        BY <3>1
      <4> HIDE DEF to, from, l
      <4> QED BY <1>2, <4>1
    <3>2. CASE from # {}
      <4>1. \E i \in from : \A j \in from : i <= j
        <5>1. from \in SUBSET Nat
          BY <1>2
        <5> HIDE DEF from
        <5> QED BY <3>2, <5>1, LeastNumber
      <4>2. to \in from /\ \A j \in from : to <= j
        BY <3>2, <4>1
      <4> HIDE DEF to
      <4>3. to \in 1..l /\ Blocks[it.block][to] >= target
        BY <4>2
      <4>4. ASSUME NEW j \in 1..l, j < to PROVE Blocks[it.block][j] < target
        <5>1. j \notin from
          BY <1>2, <4>2, <4>3, <4>4
        <5>2. ~(Blocks[it.block][j] >= target)
          BY <5>1
        <5> QED BY <1>2, <5>2
      <4> HIDE DEF l, from
      <4> QED BY <1>2, <4>3, <4>4
    <3> QED BY <3>1, <3>2
  <2> HIDE DEF to, from, t
  <2>3. CASE it.bad # 0 /\ it.bad \in 1..to
    <3>1. t = [it EXCEPT !.at = 0, !.ok = FALSE]
      BY <2>1, <2>3 DEF Parsed
    <3>2. t = [block |-> it.block, at |-> 0, bad |-> it.bad, ok |-> FALSE]
      BY <3>1 DEF DataIts
    <3> QED BY <1>1, <1>2, <1>4, <3>2 DEF DataIts, t
  <2>4. CASE ~(it.bad # 0 /\ it.bad \in 1..to)
    <3> DEFINE a == IF to <= l THEN to ELSE 0
    <3>1. t = [it EXCEPT !.at = a]
      BY <2>1, <2>4 DEF Parsed
    <3>2. t = [block |-> it.block, at |-> a, bad |-> it.bad, ok |-> it.ok]
      BY <3>1 DEF DataIts
    <3> HIDE DEF l
    <3>3. a \in Nat /\ a <= l /\ (a # 0 => a = to /\ a # l + 1) /\ (a = 0 => to = l + 1)
      BY <1>2, <2>2
    <3> HIDE DEF a
    <3>4. t \in DataIts
      BY <1>1, <1>4, <3>2, <3>3 DEF DataIts, l
    <3>5. t.block = it.block /\ t.ok = it.ok /\ t.at = a
      BY <3>2
    <3>6. a = 0 => \A j \in 1..l : Blocks[it.block][j] < target
      BY <1>2, <2>2, <3>3
    <3> QED BY <2>2, <3>3, <3>4, <3>5, <3>6 DEF l, t
  <2> QED BY <2>3, <2>4
<1> QED BY <1>3, <1>4

LEMMA IndexMoves ==
  ASSUME NEW it \in IndexIts, NEW to \in Nat
  PROVE  LET t == Parsed(it, to, to, BlockCount) IN
         /\ t \in IndexIts /\ t.at \in {0, to}
         /\ t.ok => it.ok /\ t.at = IF to <= BlockCount THEN to ELSE 0
<1> DEFINE t == Parsed(it, to, to, BlockCount)
<1>1. /\ it.block = 0 /\ it.at \in Nat /\ it.bad \in Nat /\ it.ok \in BOOLEAN
      /\ it.at <= BlockCount /\ it.bad <= BlockCount /\ BlockCount \in Nat
  BY BlocksAre DEF IndexIts
<1>2. CASE it.bad # 0 /\ it.bad \in to..to
  <2>1. t = [block |-> 0, at |-> 0, bad |-> it.bad, ok |-> FALSE]
    <3>1. t = [it EXCEPT !.at = 0, !.ok = FALSE]
      BY <1>2 DEF Parsed
    <3> HIDE DEF t
    <3> QED BY <3>1 DEF IndexIts
  <2> HIDE DEF t
  <2> QED BY <1>1, <2>1 DEF IndexIts, t
<1>3. CASE ~(it.bad # 0 /\ it.bad \in to..to)
  <2> DEFINE a == IF to <= BlockCount THEN to ELSE 0
  <2>1. t = [block |-> 0, at |-> a, bad |-> it.bad, ok |-> it.ok]
    <3>1. t = [it EXCEPT !.at = a]
      BY <1>3 DEF Parsed
    <3> HIDE DEF t, a
    <3> QED BY <3>1 DEF IndexIts
  <2>2. a \in Nat /\ a <= BlockCount /\ a \in {0, to}
    BY <1>1
  <2> HIDE DEF t, a
  <2>3. t \in IndexIts
    BY <1>1, <2>1, <2>2 DEF IndexIts
  <2> QED BY <2>1, <2>2, <2>3 DEF t, a
<1> QED BY <1>2, <1>3

LEMMA IndexSeeks ==
  ASSUME NEW it \in IndexIts, NEW target \in Nat, NEW hit \in BOOLEAN
  PROVE  LET t == IndexSeek(it, target, hit) IN
         /\ t \in IndexIts /\ (t.ok => it.ok)
         /\ t.ok /\ t.at # 0 =>
              /\ Blocks[t.at][Len(Blocks[t.at])] >= target
              /\ \A c \in 1..BlockCount : c < t.at => Blocks[c][Len(Blocks[c])] < target
         /\ t.ok /\ t.at = 0 => \A c \in 1..BlockCount : Blocks[c][Len(Blocks[c])] < target
<1> DEFINE from == {b \in 1..BlockCount : Blocks[b][Len(Blocks[b])] >= target}
           to   == IF from = {} THEN BlockCount + 1 ELSE CHOOSE b \in from : \A c \in from : b <= c
           t    == IndexSeek(it, target, hit)
<1>1. BlockCount \in Nat /\ \A c \in 1..BlockCount : Blocks[c][Len(Blocks[c])] \in Nat
  <2>1. ASSUME NEW c \in 1..BlockCount PROVE Len(Blocks[c]) \in 1..Len(Blocks[c])
    BY BlocksAre
  <2> QED BY <2>1, BlocksAre
<1>2. /\ to \in 1..(BlockCount + 1)
      /\ \A c \in 1..BlockCount : c < to => Blocks[c][Len(Blocks[c])] < target
      /\ to # BlockCount + 1 => Blocks[to][Len(Blocks[to])] >= target
  <2>1. CASE from = {}
    <3>1. to = BlockCount + 1 /\ \A c \in 1..BlockCount : ~(Blocks[c][Len(Blocks[c])] >= target)
      BY <2>1
    <3> HIDE DEF to, from
    <3> QED BY <1>1, <3>1
  <2>2. CASE from # {}
    <3>1. \E i \in from : \A j \in from : i <= j
      <4>1. from \in SUBSET Nat
        BY <1>1
      <4> HIDE DEF from
      <4> QED BY <2>2, <4>1, LeastNumber
    <3>2. to \in from /\ \A j \in from : to <= j
      BY <2>2, <3>1
    <3> HIDE DEF to
    <3>3. to \in 1..BlockCount /\ Blocks[to][Len(Blocks[to])] >= target
      BY <3>2
    <3>4. ASSUME NEW c \in 1..BlockCount, c < to PROVE Blocks[c][Len(Blocks[c])] < target
      <4>1. c \notin from
        BY <1>1, <3>2, <3>3, <3>4
      <4>2. ~(Blocks[c][Len(Blocks[c])] >= target)
        BY <4>1
      <4> QED BY <1>1, <4>2
    <3> HIDE DEF from
    <3> QED BY <1>1, <3>3, <3>4
  <2> QED BY <2>1, <2>2
<1>3. t = IF hit /\ it.bad # 0 THEN [it EXCEPT !.at = 0, !.ok = FALSE]
          ELSE Parsed(it, to, to, BlockCount)
  BY DEF IndexSeek
<1> HIDE DEF to, from, t
<1>4. CASE hit /\ it.bad # 0
  <2>1. t = [it EXCEPT !.at = 0, !.ok = FALSE]
    BY <1>3, <1>4
  <2>2. t = [block |-> 0, at |-> 0, bad |-> it.bad, ok |-> FALSE]
    BY <2>1 DEF IndexIts
  <2>3. t \in IndexIts
    BY <1>1, <2>2 DEF IndexIts
  <2> QED BY <2>2, <2>3 DEF t
<1>5. CASE ~(hit /\ it.bad # 0)
  <2>1. t = Parsed(it, to, to, BlockCount)
    BY <1>3, <1>5
  <2>2. /\ t \in IndexIts /\ t.at \in {0, to}
        /\ t.ok => it.ok /\ t.at = IF to <= BlockCount THEN to ELSE 0
    BY <1>2, <2>1, IndexMoves
  <2>3. ASSUME t.ok, t.at = 0 PROVE \A c \in 1..BlockCount : Blocks[c][Len(Blocks[c])] < target
    <3>1. to = BlockCount + 1
      BY <1>1, <1>2, <2>2, <2>3
    <3> QED BY <1>1, <1>2, <3>1
  <2>4. t.ok /\ t.at # 0 => t.at = to /\ to # BlockCount + 1
    BY <1>1, <1>2, <2>2
  <2> QED BY <1>2, <2>2, <2>3, <2>4 DEF t
<1> QED BY <1>4, <1>5

-----------------------------------------------------------------------------
(* The states of the iterator over them: the data is a block's that the    *)
(* index is at, and there is none when the index is at none.               *)

Matched(s) == IF s.index.at = 0 THEN s.data = {}
              ELSE \E it \in DataIts : s.data = {it} /\ it.block = s.index.at

States == {s \in [index : IndexIts, data : SUBSET DataIts, status : BOOLEAN] : Matched(s)}

LEMMA StatesAre ==
  ASSUME NEW index \in IndexIts, NEW data \in SUBSET DataIts, NEW status \in BOOLEAN
  PROVE  LET s == [index |-> index, data |-> data, status |-> status] IN
         /\ s.index = index /\ s.data = data /\ s.status = status
         /\ index.at = 0 /\ data = {} => s \in States
         /\ \A it \in DataIts : data = {it} /\ it.block = index.at => s \in States
<1> DEFINE s == [index |-> index, data |-> data, status |-> status]
<1>1. s \in [index : IndexIts, data : SUBSET DataIts, status : BOOLEAN]
  OBVIOUS
<1>2. s.index = index /\ s.data = data /\ s.status = status
  OBVIOUS
<1> HIDE DEF s
<1>3. ASSUME NEW it \in DataIts, data = {it}, it.block = index.at PROVE s \in States
  <2>1. index.at # 0
    <3>1. it.block \in 1..BlockCount
      BY DEF DataIts
    <3> QED BY <1>3, <3>1
  <2> QED BY <1>1, <1>2, <1>3, <2>1 DEF States, Matched
<1>4. ASSUME index.at = 0, data = {} PROVE s \in States
  BY <1>1, <1>2, <1>4 DEF States, Matched
<1> QED BY <1>2, <1>3, <1>4 DEF s

LEMMA StateIs ==
  ASSUME NEW s \in States
  PROVE  /\ s = [index |-> s.index, data |-> s.data, status |-> s.status]
         /\ s.index \in IndexIts /\ s.data \in SUBSET DataIts /\ s.status \in BOOLEAN
         /\ s.index.at \in 0..BlockCount /\ StateOk(s) \in BOOLEAN
         /\ s.index.at = 0 => s.data = {} /\ ~DataValid(s)
         /\ s.index.at # 0 => \E it \in DataIts :
              /\ s.data = {it} /\ it.block = s.index.at
              /\ DataValid(s) <=> it.at # 0
              /\ KeyIn(s) = Blocks[it.block][it.at]
              /\ StateOk(s) <=> s.status /\ s.index.ok /\ it.ok
<1>1. /\ s = [index |-> s.index, data |-> s.data, status |-> s.status]
      /\ s.index \in IndexIts /\ s.data \in SUBSET DataIts /\ s.status \in BOOLEAN
  BY DEF States
<1>2. s.index.at \in 0..BlockCount
  BY <1>1, BlocksAre DEF IndexIts
<1>3. s.index.at = 0 => s.data = {} /\ ~DataValid(s)
  BY DEF States, Matched, DataValid
<1>4. ASSUME s.index.at # 0
      PROVE  \E it \in DataIts :
              /\ s.data = {it} /\ it.block = s.index.at
              /\ DataValid(s) <=> it.at # 0
              /\ KeyIn(s) = Blocks[it.block][it.at]
              /\ StateOk(s) <=> s.status /\ s.index.ok /\ it.ok
  <2>1. PICK it \in DataIts : s.data = {it} /\ it.block = s.index.at
    BY <1>4 DEF States, Matched
  <2>2. DataValid(s) <=> it.at # 0
    BY <2>1 DEF DataValid
  <2>3. KeyIn(s) = Blocks[it.block][it.at]
    <3>1. (CHOOSE x \in s.data : TRUE) = it
      BY <2>1
    <3> QED BY <3>1 DEF KeyIn
  <2>4. StateOk(s) <=> s.status /\ s.index.ok /\ it.ok
    BY <2>1 DEF StateOk
  <2> QED BY <2>1, <2>2, <2>3, <2>4
<1>5. StateOk(s) \in BOOLEAN
  BY <1>1 DEF StateOk, IndexIts, DataIts
<1> QED BY <1>1, <1>2, <1>3, <1>4, <1>5

(* What InitDataBlock makes of a state whose index has moved.              *)
LEMMA OpensBlock ==
  ASSUME NEW s \in States, NEW index \in IndexIts, NEW read \in Reads
  PROVE  LET t == InitDataBlock([s EXCEPT !.index = index], read) IN
         /\ t \in States /\ t.index = index
         /\ StateOk(t) => StateOk([s EXCEPT !.index = index])
         /\ StateOk(t) => s.status /\ index.ok /\ \A it \in s.data : it.ok
<1> DEFINE u == [s EXCEPT !.index = index]
           t == InitDataBlock(u, read)
           b == index.at
<1>1. /\ s.data \in SUBSET DataIts /\ s.status \in BOOLEAN /\ b \in 0..BlockCount
      /\ u = [index |-> index, data |-> s.data, status |-> s.status]
  <2>1. b \in 0..BlockCount
    BY BlocksAre DEF IndexIts
  <2> QED BY <2>1, StateIs
<1>2. u.index = index /\ u.data = s.data /\ u.status = s.status
  BY <1>1
<1>3. StateOk(u) <=> s.status /\ index.ok /\ \A it \in s.data : it.ok
  BY <1>2 DEF StateOk
<1> DEFINE before == s.status /\ \A it \in s.data : it.ok
<1>4. before \in BOOLEAN
  BY <1>1
<1>5. ASSUME NEW data \in SUBSET DataIts
      PROVE  SetDataIterator(u, data) = [index |-> index, data |-> data, status |-> before]
  <2>1. SetDataIterator(u, data) =
          [u EXCEPT !.data = data, !.status = u.status /\ \A it \in u.data : it.ok]
    BY DEF SetDataIterator
  <2>2. (u.status /\ \A it \in u.data : it.ok) = before
    BY <1>2
  <2>3. SetDataIterator(u, data) = [u EXCEPT !.data = data, !.status = before]
    BY <2>1, <2>2
  <2> HIDE DEF before
  <2> QED BY <1>1, <2>3
<1>6. t \in States /\ t.index = index /\ (StateOk(t) => StateOk(u))
  <2>1. CASE b = 0
    <3>1. t = [index |-> index, data |-> {}, status |-> before]
      BY <1>2, <1>5, <2>1 DEF InitDataBlock
    <3>2. t.status = before /\ t.index = index /\ t \in States
      <4> HIDE DEF before, t
      <4> QED BY <1>4, <2>1, <3>1, StatesAre
    <3>3. StateOk(t) => before /\ index.ok
      BY <3>2 DEF StateOk
    <3> QED BY <1>3, <3>2, <3>3
  <2>2. CASE b # 0 /\ \E it \in s.data : it.block = b
    <3>1. t = u
      BY <1>2, <2>2 DEF InitDataBlock
    <3>2. \E it \in DataIts : s.data = {it} /\ it.block = b
      BY <2>2, StateIs
    <3>3. u \in States
      BY <1>1, <3>2, StatesAre
    <3> HIDE DEF u
    <3> QED BY <1>2, <3>1, <3>3
  <2>3. CASE b # 0 /\ ~\E it \in s.data : it.block = b
    <3> DEFINE new == Iterator(b, read[b], read[b] # Unread)
    <3>1. b \in 1..BlockCount
      BY <1>1, <2>3
    <3>2. new \in DataIts /\ new.block = b
      BY <3>1, OpenedIs
    <3>3. t = SetDataIterator(u, {new})
      BY <1>2, <2>3 DEF InitDataBlock
    <3> HIDE DEF new
    <3>4. t = [index |-> index, data |-> {new}, status |-> before]
      BY <1>5, <3>2, <3>3
    <3>5. t.status = before /\ t.index = index /\ t \in States
      <4> HIDE DEF before, t
      <4> QED BY <1>4, <3>2, <3>4, StatesAre
    <3>6. StateOk(t) => before /\ index.ok
      BY <3>5 DEF StateOk
    <3> QED BY <1>3, <3>5, <3>6
  <2> QED BY <2>1, <2>2, <2>3
<1> QED BY <1>3, <1>6

(* The data iterator moves within its block.                               *)
LEMMA MovesData ==
  ASSUME NEW s \in States, NEW data, s.data = {} => data = {},
         \A it \in DataIts : s.data = {it} =>
           \E to \in DataIts : data = {to} /\ to.block = it.block /\ (to.ok => it.ok)
  PROVE  LET t == [s EXCEPT !.data = data] IN
         /\ t \in States /\ t.index = s.index /\ t.data = data
         /\ StateOk(t) => StateOk(s)
<1> DEFINE t == [s EXCEPT !.data = data]
<1>1. /\ t = [index |-> s.index, data |-> data, status |-> s.status]
      /\ s.index \in IndexIts /\ s.data \in SUBSET DataIts /\ s.status \in BOOLEAN
  BY StateIs
<1>2. t.index = s.index /\ t.data = data /\ t.status = s.status
  BY <1>1
<1> HIDE DEF t
<1>3. CASE s.index.at = 0
  <2>1. s.data = {} /\ data = {}
    BY <1>3, StateIs
  <2>2. t \in States
    BY <1>1, <1>3, <2>1, StatesAre
  <2>3. StateOk(t) => StateOk(s)
    BY <1>2, <2>1 DEF StateOk
  <2> QED BY <1>2, <2>2, <2>3 DEF t
<1>4. CASE s.index.at # 0
  <2>1. PICK it \in DataIts : s.data = {it} /\ it.block = s.index.at
    BY <1>4, StateIs
  <2>2. PICK to \in DataIts : data = {to} /\ to.block = it.block /\ (to.ok => it.ok)
    BY <2>1
  <2>3. data \in SUBSET DataIts
    BY <2>2
  <2>4. t \in States
    BY <1>1, <2>1, <2>2, <2>3, StatesAre
  <2>5. StateOk(t) => StateOk(s)
    BY <1>2, <2>1, <2>2 DEF StateOk
  <2> QED BY <1>2, <2>4, <2>5 DEF t
<1> QED BY <1>3, <1>4

-----------------------------------------------------------------------------
(* The loops *)

LEMMA DoneStays ==
  ASSUME NEW s \in States, s.index.at = 0
  PROVE  SetDataIterator(s, {}) = s
<1>1. /\ s = [index |-> s.index, data |-> s.data, status |-> s.status]
      /\ s.data = {} /\ s.status \in BOOLEAN
  BY StateIs
<1>2. (s.status /\ \A it \in s.data : it.ok) = s.status
  BY <1>1
<1>3. SetDataIterator(s, {}) = [s EXCEPT !.data = {}, !.status = s.status]
  BY <1>2 DEF SetDataIterator
<1> QED BY <1>1, <1>3

LEMMA ForwardStep ==
  ASSUME NEW s \in States, NEW read \in Reads
  PROVE  LET t == ForwardPass(s, read) IN
         /\ t \in States
         /\ StateOk(t) => StateOk(s)
         /\ DataValid(s) \/ s.index.at = 0 => t = s
         /\ ~DataValid(s) /\ s.index.at # 0 =>
              /\ t.index.at \in {0, s.index.at + 1}
              /\ StateOk(t) => IF DataValid(t) THEN KeyIn(t) = FirstAfter(s.index.at)
                               ELSE t.index.at = 0 /\ FirstAfter(s.index.at) = 0
<1> DEFINE t == ForwardPass(s, read)
<1>1. CASE DataValid(s)
  <2>1. t = s
    BY <1>1 DEF ForwardPass
  <2> HIDE DEF t
  <2> QED BY <1>1, <2>1 DEF t
<1>2. CASE ~DataValid(s) /\ s.index.at = 0
  <2>1. t = s
    BY <1>2, DoneStays DEF ForwardPass
  <2> HIDE DEF t
  <2> QED BY <1>2, <2>1 DEF t
<1>3. CASE ~DataValid(s) /\ s.index.at # 0
  <2> DEFINE a     == s.index.at
             index == Parsed(s.index, a + 1, a + 1, BlockCount)
             next  == InitDataBlock([s EXCEPT !.index = index], read)
             first == {FirstIn(it) : it \in next.data}
  <2>1. /\ s.index \in IndexIts /\ a \in 1..BlockCount /\ a + 1 \in Nat /\ BlockCount \in Nat
    BY <1>3, StateIs, BlocksAre
  <2>2. /\ index \in IndexIts /\ index.at \in {0, a + 1}
        /\ index.ok => s.index.ok /\ index.at = IF a + 1 <= BlockCount THEN a + 1 ELSE 0
    <3> HIDE DEF a
    <3> QED BY <2>1, IndexMoves DEF a
  <2>3. t = [next EXCEPT !.data = first]
    BY <1>3 DEF ForwardPass
  <2> HIDE DEF index
  <2>4. /\ next \in States /\ next.index = index
        /\ StateOk(next) => s.status /\ index.ok /\ \A it \in s.data : it.ok
    BY <2>2, OpensBlock
  <2> HIDE DEF next
  <2>5. /\ next.data = {} => first = {}
        /\ \A it \in DataIts : next.data = {it} => first = {FirstIn(it)}
    OBVIOUS
  <2> HIDE DEF first
  <2>6. ASSUME NEW it \in DataIts
        PROVE  /\ FirstIn(it) \in DataIts /\ FirstIn(it).block = it.block
               /\ FirstIn(it).ok => it.ok /\ FirstIn(it).at = 1
    BY MovesInBlock
  <2>7. t \in States /\ t.index = index /\ t.data = first /\ (StateOk(t) => StateOk(next))
    <3>1. \A it \in DataIts : next.data = {it} =>
            \E to \in DataIts : first = {to} /\ to.block = it.block /\ (to.ok => it.ok)
      BY <2>5, <2>6
    <3> HIDE DEF t
    <3> QED BY <2>3, <2>4, <2>5, <3>1, MovesData
  <2> HIDE DEF t
  <2>8. StateOk(t) => StateOk(s)
    BY <2>2, <2>4, <2>7 DEF StateOk
  <2>9. ASSUME StateOk(t)
        PROVE  IF DataValid(t) THEN KeyIn(t) = FirstAfter(a)
               ELSE t.index.at = 0 /\ FirstAfter(a) = 0
    <3>1. index.ok /\ index.at = IF a + 1 <= BlockCount THEN a + 1 ELSE 0
      BY <2>2, <2>4, <2>7, <2>9
    <3>2. CASE a + 1 <= BlockCount
      <4>1. index.at = a + 1 /\ index.at # 0 /\ a \in 1..(BlockCount - 1)
        <5> HIDE DEF a
        <5> QED BY <2>1, <3>1, <3>2
      <4>2. PICK it \in DataIts :
              /\ t.data = {it} /\ it.block = a + 1 /\ (DataValid(t) <=> it.at # 0)
              /\ KeyIn(t) = Blocks[it.block][it.at] /\ it.ok
        BY <2>7, <2>9, <4>1, StateIs
      <4>3. PICK old \in DataIts : next.data = {old} /\ old.block = a + 1
        BY <2>4, <4>1, StateIs
      <4>4. it = FirstIn(old)
        BY <2>5, <2>7, <4>2, <4>3
      <4>5. it.at = 1
        BY <2>6, <4>2, <4>4
      <4> QED BY <4>1, <4>2, <4>5 DEF FirstAfter
    <3>3. CASE ~(a + 1 <= BlockCount)
      <4>1. index.at = 0 /\ a \notin 1..(BlockCount - 1)
        <5> HIDE DEF a
        <5> QED BY <2>1, <3>1, <3>3
      <4>2. ~DataValid(t)
        BY <2>7, <4>1, StateIs
      <4> QED BY <2>7, <4>1, <4>2 DEF FirstAfter
    <3> QED BY <3>2, <3>3
  <2> QED BY <1>3, <2>2, <2>7, <2>8, <2>9 DEF t
<1> QED BY <1>1, <1>2, <1>3

LEMMA BackwardStep ==
  ASSUME NEW s \in States, NEW read \in Reads
  PROVE  LET t == BackwardPass(s, read) IN
         /\ t \in States
         /\ StateOk(t) => StateOk(s)
         /\ DataValid(s) \/ s.index.at = 0 => t = s
         /\ ~DataValid(s) /\ s.index.at # 0 =>
              /\ t.index.at \in {0, s.index.at - 1}
              /\ StateOk(t) => IF DataValid(t) THEN KeyIn(t) = LastBefore(s.index.at)
                               ELSE t.index.at = 0 /\ LastBefore(s.index.at) = 0
<1> DEFINE t == BackwardPass(s, read)
<1>1. CASE DataValid(s)
  <2>1. t = s
    BY <1>1 DEF BackwardPass
  <2> HIDE DEF t
  <2> QED BY <1>1, <2>1 DEF t
<1>2. CASE ~DataValid(s) /\ s.index.at = 0
  <2>1. t = s
    BY <1>2, DoneStays DEF BackwardPass
  <2> HIDE DEF t
  <2> QED BY <1>2, <2>1 DEF t
<1>3. CASE ~DataValid(s) /\ s.index.at # 0
  <2> DEFINE a     == s.index.at
             index == Parsed(s.index, a - 1, a - 1, BlockCount)
             next  == InitDataBlock([s EXCEPT !.index = index], read)
             last  == {LastIn(it) : it \in next.data}
  <2>1. /\ s.index \in IndexIts /\ a \in 1..BlockCount /\ a - 1 \in Nat /\ BlockCount \in Nat
    BY <1>3, StateIs, BlocksAre
  <2>2. /\ index \in IndexIts /\ index.at \in {0, a - 1}
        /\ index.ok => s.index.ok /\ index.at = a - 1
    <3>1. a - 1 <= BlockCount
      <4> HIDE DEF a
      <4> QED BY <2>1
    <3> HIDE DEF a
    <3> QED BY <2>1, <3>1, IndexMoves DEF a
  <2>3. t = [next EXCEPT !.data = last]
    BY <1>3 DEF BackwardPass
  <2> HIDE DEF index
  <2>4. /\ next \in States /\ next.index = index
        /\ StateOk(next) => s.status /\ index.ok /\ \A it \in s.data : it.ok
    BY <2>2, OpensBlock
  <2> HIDE DEF next
  <2>5. /\ next.data = {} => last = {}
        /\ \A it \in DataIts : next.data = {it} => last = {LastIn(it)}
    OBVIOUS
  <2> HIDE DEF last
  <2>6. ASSUME NEW it \in DataIts
        PROVE  /\ LastIn(it) \in DataIts /\ LastIn(it).block = it.block
               /\ LastIn(it).ok => it.ok /\ LastIn(it).at = Len(Blocks[it.block])
    BY MovesInBlock
  <2>7. t \in States /\ t.index = index /\ t.data = last /\ (StateOk(t) => StateOk(next))
    <3>1. \A it \in DataIts : next.data = {it} =>
            \E to \in DataIts : last = {to} /\ to.block = it.block /\ (to.ok => it.ok)
      BY <2>5, <2>6
    <3> HIDE DEF t
    <3> QED BY <2>3, <2>4, <2>5, <3>1, MovesData
  <2> HIDE DEF t
  <2>8. StateOk(t) => StateOk(s)
    BY <2>2, <2>4, <2>7 DEF StateOk
  <2>9. ASSUME StateOk(t)
        PROVE  IF DataValid(t) THEN KeyIn(t) = LastBefore(a)
               ELSE t.index.at = 0 /\ LastBefore(a) = 0
    <3>1. index.ok /\ index.at = a - 1
      BY <2>2, <2>4, <2>7, <2>9
    <3>2. CASE a # 1
      <4>1. index.at # 0 /\ a \in 2..BlockCount /\ a - 1 \in 1..BlockCount
        <5> HIDE DEF a
        <5> QED BY <2>1, <3>1, <3>2
      <4>2. PICK it \in DataIts :
              /\ t.data = {it} /\ it.block = a - 1 /\ (DataValid(t) <=> it.at # 0)
              /\ KeyIn(t) = Blocks[it.block][it.at] /\ it.ok
        BY <2>7, <2>9, <3>1, <4>1, StateIs
      <4>3. PICK old \in DataIts : next.data = {old} /\ old.block = a - 1
        BY <2>4, <3>1, <4>1, StateIs
      <4>4. it = LastIn(old)
        BY <2>5, <2>7, <4>2, <4>3
      <4>5. it.at = Len(Blocks[a - 1]) /\ it.at # 0
        BY <2>6, <4>1, <4>2, <4>3, <4>4, BlocksAre
      <4> QED BY <4>1, <4>2, <4>5 DEF LastBefore
    <3>3. CASE a = 1
      <4>1. index.at = 0 /\ a \notin 2..BlockCount
        <5> HIDE DEF a
        <5> QED BY <2>1, <3>1, <3>3
      <4>2. ~DataValid(t)
        BY <2>7, <4>1, StateIs
      <4> QED BY <2>7, <4>1, <4>2 DEF LastBefore
    <3> QED BY <3>2, <3>3
  <2> QED BY <1>3, <2>2, <2>7, <2>8, <2>9 DEF t
<1> QED BY <1>1, <1>2, <1>3

LEMMA Forward ==
  ASSUME NEW s \in States, NEW read \in Reads, NEW w,
         StateOk(s) => w = IF DataValid(s) THEN KeyIn(s) ELSE FirstAfter(s.index.at)
  PROVE  LET t == SkipEmptyDataBlocksForward(s, read) IN
         /\ t \in States /\ (DataValid(t) \/ t.index.at = 0)
         /\ StateOk(t) => StateOk(s) /\ w = IF DataValid(t) THEN KeyIn(t) ELSE 0
         /\ DataValid(s) => t = s
         /\ DataValid(t) /\ ~DataValid(s) => s.index.at # 0 /\ t.index.at > s.index.at
<1> DEFINE n    == BlockCount + 1
           pass == [v \in States |-> ForwardPass(v, read)]
           R(f) == f = [m \in 0..n |-> IF m = 0 THEN s ELSE ForwardPass(f[m - 1], read)]
           f    == CHOOSE f : R(f)
           t    == SkipEmptyDataBlocksForward(s, read)
           J(m, v) == /\ StateOk(v) => /\ StateOk(s)
                                       /\ w = IF DataValid(v) THEN KeyIn(v) ELSE FirstAfter(v.index.at)
                      /\ DataValid(s) => v = s
                      /\ DataValid(v) /\ ~DataValid(s) => s.index.at # 0 /\ v.index.at > s.index.at
                      /\ ~DataValid(v) /\ v.index.at # 0 =>
                           s.index.at # 0 /\ v.index.at >= s.index.at + m
           I    == {p \in Nat \X States : J(p[1], p[2])}
<1>1. n \in Nat /\ BlockCount \in Nat
  BY BlocksAre
<1>2. pass \in [States -> States]
  BY ForwardStep
<1>3. t = f[n]
  BY DEF SkipEmptyDataBlocksForward
<1>4. \E g : R(g)
  <2>1. PICK g \in [0..n -> States] : Passes(g, n, s, pass)
    <3> HIDE DEF n, pass
    <3> QED BY <1>1, <1>2, LoopExists
  <2>2. ASSUME NEW m \in 0..n
        PROVE  (IF m = 0 THEN s ELSE pass[g[m - 1]])
                 = (IF m = 0 THEN s ELSE ForwardPass(g[m - 1], read))
    <3>1. CASE m = 0
      BY <3>1
    <3>2. CASE m # 0
      <4>1. g[m - 1] \in States
        BY <1>1, <2>1, <3>2
      <4> QED BY <3>2, <4>1
    <3> QED BY <3>1, <3>2
  <2>3. R(g)
    <3> HIDE DEF n, pass
    <3> QED BY <2>1, <2>2 DEF Passes
  <2> HIDE DEF R
  <2> QED BY <2>3
<1>5. R(f)
  <2> HIDE DEF R
  <2> QED BY <1>4
<1>6. f[0] = s /\ \A m \in 0..(n - 1) : f[m] \in States => f[m + 1] = pass[f[m]]
  <2> HIDE DEF f
  <2>1. f[0] = s
    BY <1>1, <1>5
  <2>2. ASSUME NEW m \in 0..(n - 1), f[m] \in States PROVE f[m + 1] = pass[f[m]]
    <3>1. m + 1 \in 0..n /\ m + 1 # 0 /\ (m + 1) - 1 = m
      BY <1>1, <2>2
    <3>2. f[m + 1] = ForwardPass(f[m], read)
      <4> HIDE DEF n
      <4> QED BY <1>5, <3>1
    <3> QED BY <2>2, <3>2
  <2> QED BY <2>1, <2>2
<1>7. ASSUME NEW p, NEW m \in Nat, NEW v \in States, p = <<m, v>> PROVE p \in I <=> J(m, v)
  <2> HIDE DEF J
  <2> QED BY <1>7
<1>8. J(0, s)
  <2>1. s.index.at \in Nat
    BY StateIs
  <2> QED BY <2>1
<1>9. ASSUME NEW m \in Nat, NEW v \in States, J(m, v) PROVE J(m + 1, pass[v])
  <2> DEFINE u == ForwardPass(v, read)
  <2>1. pass[v] = u
    OBVIOUS
  <2>2. /\ u \in States /\ (StateOk(u) => StateOk(v))
        /\ DataValid(v) \/ v.index.at = 0 => u = v
        /\ ~DataValid(v) /\ v.index.at # 0 =>
             /\ u.index.at \in {0, v.index.at + 1}
             /\ StateOk(u) => IF DataValid(u) THEN KeyIn(u) = FirstAfter(v.index.at)
                              ELSE u.index.at = 0 /\ FirstAfter(v.index.at) = 0
    BY ForwardStep
  <2> HIDE DEF u, pass
  <2>3. s.index.at \in Nat /\ v.index.at \in Nat
    BY StateIs
  <2>4. CASE DataValid(v) \/ v.index.at = 0
    <3>1. u = v
      BY <2>2, <2>4
    <3>2. J(m + 1, v)
      BY <1>9, <2>4
    <3> HIDE DEF J
    <3> QED BY <2>1, <3>1, <3>2
  <2>5. CASE ~DataValid(v) /\ v.index.at # 0
    <3>1. ~DataValid(s) /\ s.index.at # 0 /\ v.index.at >= s.index.at + m
      BY <1>9, <2>5
    <3>2. StateOk(u) => /\ StateOk(s)
                        /\ w = IF DataValid(u) THEN KeyIn(u) ELSE FirstAfter(u.index.at)
      <4> SUFFICES ASSUME StateOk(u)
                   PROVE  StateOk(s) /\ w = IF DataValid(u) THEN KeyIn(u) ELSE FirstAfter(u.index.at)
        OBVIOUS
      <4>1. StateOk(s) /\ w = FirstAfter(v.index.at)
        BY <1>9, <2>2, <2>5
      <4>2. FirstAfter(0) = 0
        BY DEF FirstAfter
      <4> QED BY <2>2, <2>5, <4>1, <4>2
    <3>3. u.index.at \in {0, v.index.at + 1}
      BY <2>2, <2>5
    <3>4. DataValid(u) => u.index.at # 0
      BY <2>2, StateIs
    <3>5. J(m + 1, u)
      BY <2>3, <3>1, <3>2, <3>3, <3>4
    <3> HIDE DEF J
    <3> QED BY <2>1, <3>5
  <2> QED BY <2>4, <2>5
<1>10. f[n] \in States /\ J(n, f[n])
  <2>1. <<0, s>> \in I
    BY <1>7, <1>8
  <2>2. ASSUME NEW m \in 0..(n - 1), NEW v \in States, <<m, v>> \in I
        PROVE  <<m + 1, pass[v]>> \in I
    <3>1. m \in Nat /\ m + 1 \in Nat
      OBVIOUS
    <3>2. pass[v] \in States
      BY <1>2
    <3> HIDE DEF I, J, pass
    <3>3. J(m + 1, pass[v])
      BY <1>7, <1>9, <2>2, <3>1
    <3> QED BY <1>7, <3>1, <3>2, <3>3
  <2> HIDE DEF I, J, f, pass, n
  <2>3. f[n] \in States /\ <<n, f[n]>> \in I
    BY <1>1, <1>2, <1>6, <2>1, <2>2, LoopKeeps
  <2> QED BY <1>1, <1>7, <2>3
<1> HIDE DEF f, t
<1>11. t \in States /\ J(n, t)
  <2> HIDE DEF J, n
  <2> QED BY <1>3, <1>10
<1>12. DataValid(t) \/ t.index.at = 0
  <2>1. t.index.at \in 0..BlockCount /\ s.index.at \in Nat
    BY <1>11, StateIs
  <2> QED BY <1>1, <1>11, <2>1
<1>13. StateOk(t) => StateOk(s) /\ w = IF DataValid(t) THEN KeyIn(t) ELSE 0
  <2>1. FirstAfter(0) = 0
    BY DEF FirstAfter
  <2> QED BY <1>11, <1>12, <2>1
<1>14. /\ DataValid(s) => t = s
       /\ DataValid(t) /\ ~DataValid(s) => s.index.at # 0 /\ t.index.at > s.index.at
  BY <1>11
<1> QED BY <1>11, <1>12, <1>13, <1>14 DEF t

LEMMA Backward ==
  ASSUME NEW s \in States, NEW read \in Reads, NEW w,
         StateOk(s) => w = IF DataValid(s) THEN KeyIn(s) ELSE LastBefore(s.index.at)
  PROVE  LET t == SkipEmptyDataBlocksBackward(s, read) IN
         /\ t \in States /\ (DataValid(t) \/ t.index.at = 0)
         /\ StateOk(t) => StateOk(s) /\ w = IF DataValid(t) THEN KeyIn(t) ELSE 0
         /\ DataValid(s) => t = s
         /\ DataValid(t) /\ ~DataValid(s) => s.index.at # 0 /\ t.index.at < s.index.at
<1> DEFINE n    == BlockCount + 1
           pass == [v \in States |-> BackwardPass(v, read)]
           R(f) == f = [m \in 0..n |-> IF m = 0 THEN s ELSE BackwardPass(f[m - 1], read)]
           f    == CHOOSE f : R(f)
           t    == SkipEmptyDataBlocksBackward(s, read)
           J(m, v) == /\ StateOk(v) => /\ StateOk(s)
                                       /\ w = IF DataValid(v) THEN KeyIn(v) ELSE LastBefore(v.index.at)
                      /\ DataValid(s) => v = s
                      /\ DataValid(v) /\ ~DataValid(s) => s.index.at # 0 /\ v.index.at < s.index.at
                      /\ ~DataValid(v) /\ v.index.at # 0 =>
                           s.index.at # 0 /\ v.index.at <= s.index.at - m
           I    == {p \in Nat \X States : J(p[1], p[2])}
<1>1. n \in Nat /\ BlockCount \in Nat
  BY BlocksAre
<1>2. pass \in [States -> States]
  BY BackwardStep
<1>3. t = f[n]
  BY DEF SkipEmptyDataBlocksBackward
<1>4. \E g : R(g)
  <2>1. PICK g \in [0..n -> States] : Passes(g, n, s, pass)
    <3> HIDE DEF n, pass
    <3> QED BY <1>1, <1>2, LoopExists
  <2>2. ASSUME NEW m \in 0..n
        PROVE  (IF m = 0 THEN s ELSE pass[g[m - 1]])
                 = (IF m = 0 THEN s ELSE BackwardPass(g[m - 1], read))
    <3>1. CASE m = 0
      BY <3>1
    <3>2. CASE m # 0
      <4>1. g[m - 1] \in States
        BY <1>1, <2>1, <3>2
      <4> QED BY <3>2, <4>1
    <3> QED BY <3>1, <3>2
  <2>3. R(g)
    <3> HIDE DEF n, pass
    <3> QED BY <2>1, <2>2 DEF Passes
  <2> HIDE DEF R
  <2> QED BY <2>3
<1>5. R(f)
  <2> HIDE DEF R
  <2> QED BY <1>4
<1>6. f[0] = s /\ \A m \in 0..(n - 1) : f[m] \in States => f[m + 1] = pass[f[m]]
  <2> HIDE DEF f
  <2>1. f[0] = s
    BY <1>1, <1>5
  <2>2. ASSUME NEW m \in 0..(n - 1), f[m] \in States PROVE f[m + 1] = pass[f[m]]
    <3>1. m + 1 \in 0..n /\ m + 1 # 0 /\ (m + 1) - 1 = m
      BY <1>1, <2>2
    <3>2. f[m + 1] = BackwardPass(f[m], read)
      <4> HIDE DEF n
      <4> QED BY <1>5, <3>1
    <3> QED BY <2>2, <3>2
  <2> QED BY <2>1, <2>2
<1>7. ASSUME NEW p, NEW m \in Nat, NEW v \in States, p = <<m, v>> PROVE p \in I <=> J(m, v)
  <2> HIDE DEF J
  <2> QED BY <1>7
<1>8. J(0, s)
  <2>1. s.index.at \in Nat
    BY StateIs
  <2> QED BY <2>1
<1>9. ASSUME NEW m \in Nat, NEW v \in States, J(m, v) PROVE J(m + 1, pass[v])
  <2> DEFINE u == BackwardPass(v, read)
  <2>1. pass[v] = u
    OBVIOUS
  <2>2. /\ u \in States /\ (StateOk(u) => StateOk(v))
        /\ DataValid(v) \/ v.index.at = 0 => u = v
        /\ ~DataValid(v) /\ v.index.at # 0 =>
             /\ u.index.at \in {0, v.index.at - 1}
             /\ StateOk(u) => IF DataValid(u) THEN KeyIn(u) = LastBefore(v.index.at)
                              ELSE u.index.at = 0 /\ LastBefore(v.index.at) = 0
    BY BackwardStep
  <2> HIDE DEF u, pass
  <2>3. s.index.at \in Nat /\ v.index.at \in Nat
    BY StateIs
  <2>4. CASE DataValid(v) \/ v.index.at = 0
    <3>1. u = v
      BY <2>2, <2>4
    <3>2. J(m + 1, v)
      BY <1>9, <2>4
    <3> HIDE DEF J
    <3> QED BY <2>1, <3>1, <3>2
  <2>5. CASE ~DataValid(v) /\ v.index.at # 0
    <3>1. ~DataValid(s) /\ s.index.at # 0 /\ v.index.at <= s.index.at - m
      BY <1>9, <2>5
    <3>2. StateOk(u) => /\ StateOk(s)
                        /\ w = IF DataValid(u) THEN KeyIn(u) ELSE LastBefore(u.index.at)
      <4> SUFFICES ASSUME StateOk(u)
                   PROVE  StateOk(s) /\ w = IF DataValid(u) THEN KeyIn(u) ELSE LastBefore(u.index.at)
        OBVIOUS
      <4>1. StateOk(s) /\ w = LastBefore(v.index.at)
        BY <1>9, <2>2, <2>5
      <4>2. LastBefore(0) = 0
        BY DEF LastBefore
      <4> QED BY <2>2, <2>5, <4>1, <4>2
    <3>3. u.index.at \in {0, v.index.at - 1}
      BY <2>2, <2>5
    <3>4. DataValid(u) => u.index.at # 0
      BY <2>2, StateIs
    <3>5. J(m + 1, u)
      BY <2>3, <3>1, <3>2, <3>3, <3>4
    <3> HIDE DEF J
    <3> QED BY <2>1, <3>5
  <2> QED BY <2>4, <2>5
<1>10. f[n] \in States /\ J(n, f[n])
  <2>1. <<0, s>> \in I
    BY <1>7, <1>8
  <2>2. ASSUME NEW m \in 0..(n - 1), NEW v \in States, <<m, v>> \in I
        PROVE  <<m + 1, pass[v]>> \in I
    <3>1. m \in Nat /\ m + 1 \in Nat
      OBVIOUS
    <3>2. pass[v] \in States
      BY <1>2
    <3> HIDE DEF I, J, pass
    <3>3. J(m + 1, pass[v])
      BY <1>7, <1>9, <2>2, <3>1
    <3> QED BY <1>7, <3>1, <3>2, <3>3
  <2> HIDE DEF I, J, f, pass, n
  <2>3. f[n] \in States /\ <<n, f[n]>> \in I
    BY <1>1, <1>2, <1>6, <2>1, <2>2, LoopKeeps
  <2> QED BY <1>1, <1>7, <2>3
<1> HIDE DEF f, t
<1>11. t \in States /\ J(n, t)
  <2> HIDE DEF J, n
  <2> QED BY <1>3, <1>10
<1>12. DataValid(t) \/ t.index.at = 0
  <2>1. t.index.at \in 0..BlockCount /\ s.index.at \in 0..BlockCount
    BY <1>11, StateIs
  <2> QED BY <1>1, <1>11, <2>1
<1>13. StateOk(t) => StateOk(s) /\ w = IF DataValid(t) THEN KeyIn(t) ELSE 0
  <2>1. LastBefore(0) = 0
    BY DEF LastBefore
  <2> QED BY <1>11, <1>12, <2>1
<1>14. /\ DataValid(s) => t = s
       /\ DataValid(t) /\ ~DataValid(s) => s.index.at # 0 /\ t.index.at < s.index.at
  BY <1>11
<1> QED BY <1>11, <1>12, <1>13, <1>14 DEF t

-----------------------------------------------------------------------------
(* The calls *)

(* The iterator is in a state of the above; it is at an entry or at no     *)
(* block; while its status is ok it is where the walk is.                  *)
AtWalk == /\ Now \in States
          /\ Valid \/ index_iter_.at = 0
          /\ NothingSkipped

(* A status is not lost, and the entries that are visited ascend, descend. *)
CallKeeps == /\ ok' => ok
             /\ Valid' => /\ call' = "Next" => key' > key
                          /\ call' = "Prev" => key' < key

LEMMA BecomesIs ==
  ASSUME NEW t \in States, Becomes(t)
  PROVE  /\ Now' = t /\ index_iter_' = t.index /\ index_iter_'.at = t.index.at
         /\ ok' = StateOk(t) /\ Valid' = DataValid(t) /\ key' = KeyIn(t)
<1>1. Now' = t
  <2>1. t = [index |-> t.index, data |-> t.data, status |-> t.status]
    BY StateIs
  <2> QED BY <2>1 DEF Becomes, Now
<1> QED BY <1>1 DEF Becomes, ok, Valid, key, StateOk, DataValid, KeyIn

(* What a seek ends with, from what its loop is given.                     *)
LEMMA SeekEnds ==
  ASSUME AtWalk, NEW t \in States, Becomes(t), DataValid(t) \/ t.index.at = 0,
         StateOk(t) => StateOk(Now),
         call' = "Seek", StateOk(t) => walked' = IF DataValid(t) THEN KeyIn(t) ELSE 0
  PROVE  AtWalk' /\ CallKeeps
<1>1. /\ Now' = t /\ index_iter_'.at = t.index.at
      /\ ok' = StateOk(t) /\ Valid' = DataValid(t) /\ key' = KeyIn(t)
  BY BecomesIs
<1>2. NothingSkipped'
  BY <1>1 DEF NothingSkipped
<1>3. AtWalk'
  BY <1>1, <1>2 DEF AtWalk
<1>4. CallKeeps
  BY <1>1 DEF CallKeeps, ok
<1> QED BY <1>3, <1>4

LEMMA OpenedIn ==
  ASSUME AtWalk, NEW index \in IndexIts, NEW read \in Reads, index.ok => index_iter_.ok
  PROVE  /\ Opened(index, read) \in States /\ Opened(index, read).index = index
         /\ StateOk(Opened(index, read)) => StateOk(Now) /\ index.ok
<1>1. /\ Now \in States /\ Now.index = index_iter_
      /\ Opened(index, read) = InitDataBlock([Now EXCEPT !.index = index], read)
  BY DEF AtWalk, Now, Opened
<1> DEFINE s == Now
           o == Opened(index, read)
<1> HIDE DEF s, o
<1>2. s \in States /\ s.index = index_iter_ /\ o = InitDataBlock([s EXCEPT !.index = index], read)
  BY <1>1 DEF s, o
<1>3. /\ o \in States /\ o.index = index
      /\ StateOk(o) => s.status /\ index.ok /\ \A it \in s.data : it.ok
  BY <1>2, OpensBlock
<1>4. StateOk(o) => StateOk(s) /\ index.ok
  BY <1>2, <1>3 DEF StateOk
<1> QED BY <1>3, <1>4 DEF s, o

LEMMA SeekKeeps ==
  ASSUME AtWalk, NEW target \in Targets, BlocksSeek(target)
  PROVE  AtWalk' /\ CallKeeps
<1>1. PICK read \in Reads, hit \in BOOLEAN :
        LET s == Opened(IndexSeek(index_iter_, target, hit), read)
        IN  /\ Becomes(SkipEmptyDataBlocksForward(
                         [s EXCEPT !.data = {SeekIn(it, target) : it \in @}], read))
            /\ call' = "Seek" /\ walked' = LeastEntry({e \in BlockEntries : e >= target})
  BY DEF BlocksSeek
<1> DEFINE index == IndexSeek(index_iter_, target, hit)
           o     == Opened(index, read)
           data  == {SeekIn(it, target) : it \in o.data}
           s     == [o EXCEPT !.data = data]
           t     == SkipEmptyDataBlocksForward(s, read)
           w     == LeastEntry({e \in BlockEntries : e >= target})
<1>2. Becomes(t) /\ call' = "Seek" /\ walked' = w
  BY <1>1
<1>3. target \in Nat /\ index_iter_ \in IndexIts
  <2>1. Now \in States /\ Now.index = index_iter_
    BY DEF AtWalk, Now
  <2> QED BY <2>1, StateIs, BlocksAssumption DEF BlocksAssumption
<1>4. /\ index \in IndexIts /\ (index.ok => index_iter_.ok)
      /\ index.ok /\ index.at # 0 =>
           /\ Blocks[index.at][Len(Blocks[index.at])] >= target
           /\ \A c \in 1..BlockCount : c < index.at => Blocks[c][Len(Blocks[c])] < target
      /\ index.ok /\ index.at = 0 => \A c \in 1..BlockCount : Blocks[c][Len(Blocks[c])] < target
  BY <1>3, IndexSeeks
<1> HIDE DEF index
<1>5. o \in States /\ o.index = index /\ (StateOk(o) => StateOk(Now) /\ index.ok)
  BY <1>4, OpenedIn
<1> HIDE DEF o
<1>6. /\ o.data = {} => data = {}
      /\ \A it \in DataIts : o.data = {it} => data = {SeekIn(it, target)}
  OBVIOUS
<1> HIDE DEF data
<1>7. ASSUME NEW it \in DataIts
      PROVE  LET l == Len(Blocks[it.block])
                 to == SeekIn(it, target)
             IN  /\ to \in DataIts /\ to.block = it.block /\ (to.ok => it.ok)
                 /\ to.ok /\ to.at # 0 => /\ Blocks[it.block][to.at] >= target
                                          /\ \A j \in 1..l : j < to.at => Blocks[it.block][j] < target
                 /\ to.ok /\ to.at = 0 => \A j \in 1..l : Blocks[it.block][j] < target
  BY <1>3, SeeksInBlock
<1>8. s \in States /\ s.index = index /\ s.data = data /\ (StateOk(s) => StateOk(o))
  <2>1. \A it \in DataIts : o.data = {it} =>
          \E to \in DataIts : data = {to} /\ to.block = it.block /\ (to.ok => it.ok)
    BY <1>6, <1>7
  <2> HIDE DEF s
  <2> QED BY <1>5, <1>6, <2>1, MovesData DEF s
<1> HIDE DEF s
<1>9. ASSUME StateOk(s)
      PROVE  w = IF DataValid(s) THEN KeyIn(s) ELSE FirstAfter(s.index.at)
  <2>1. index.ok
    BY <1>5, <1>8, <1>9
  <2>2. CASE index.at = 0
    <3>1. w = 0
      BY <1>3, <1>4, <2>1, <2>2, NothingSought
    <3>2. ~DataValid(s)
      BY <1>8, <2>2, StateIs
    <3> HIDE DEF w
    <3> QED BY <1>8, <2>2, <3>1, <3>2 DEF FirstAfter
  <2>3. CASE index.at # 0
    <3> DEFINE b == index.at
               l == Len(Blocks[b])
    <3>1. PICK it \in DataIts :
            /\ s.data = {it} /\ it.block = b /\ (DataValid(s) <=> it.at # 0)
            /\ KeyIn(s) = Blocks[it.block][it.at] /\ it.ok
      BY <1>8, <1>9, <2>3, StateIs
    <3>2. PICK old \in DataIts : o.data = {old} /\ old.block = b
      BY <1>5, <2>3, StateIs
    <3>3. it = SeekIn(old, target)
      BY <1>6, <1>8, <3>1, <3>2
    <3>4. b \in 1..BlockCount /\ it.at \in Nat /\ it.at <= l
      BY <3>1, <3>2 DEF DataIts
    <3>5. l \in Nat \ {0} /\ \A j \in 1..l : Blocks[b][j] \in Nat
      BY <3>4, BlocksAre
    <3>6. it.at # 0
      <4>1. Blocks[b][l] >= target
        BY <1>4, <2>1, <2>3
      <4>2. it.at = 0 => \A j \in 1..l : Blocks[b][j] < target
        BY <1>7, <3>1, <3>2, <3>3
      <4>3. l \in 1..l
        BY <3>5
      <4>4. ~(Blocks[b][l] < target)
        BY <1>3, <3>5, <4>1, <4>3
      <4> QED BY <4>2, <4>3, <4>4
    <3>7. Blocks[b][it.at] >= target /\ \A j \in 1..l : j < it.at => Blocks[b][j] < target
      BY <1>7, <3>1, <3>2, <3>3, <3>6
    <3>8. it.at \in 1..l
      BY <3>4, <3>5, <3>6
    <3>9. \A c \in 1..BlockCount : c < b => Blocks[c][Len(Blocks[c])] < target
      BY <1>4, <2>1, <2>3
    <3>10. w = Blocks[b][it.at]
      <4> HIDE DEF b
      <4> QED BY <1>3, <3>4, <3>7, <3>8, <3>9, SoughtIs
    <3> HIDE DEF w
    <3> QED BY <3>1, <3>6, <3>10
  <2> QED BY <2>2, <2>3
<1> HIDE DEF w
<1>10. /\ t \in States /\ (DataValid(t) \/ t.index.at = 0)
       /\ StateOk(t) => StateOk(s) /\ w = IF DataValid(t) THEN KeyIn(t) ELSE 0
  BY <1>8, <1>9, Forward
<1> HIDE DEF t
<1> QED BY <1>2, <1>5, <1>8, <1>10, SeekEnds

LEMMA SeekToFirstKeeps ==
  ASSUME AtWalk, BlocksSeekToFirst
  PROVE  AtWalk' /\ CallKeeps
<1>1. PICK read \in Reads :
        LET s == Opened(Parsed(index_iter_, 1, 1, BlockCount), read)
        IN  /\ Becomes(SkipEmptyDataBlocksForward([s EXCEPT !.data = {FirstIn(it) : it \in @}], read))
            /\ call' = "Seek" /\ walked' = LeastEntry(BlockEntries)
  BY DEF BlocksSeekToFirst
<1> DEFINE index == Parsed(index_iter_, 1, 1, BlockCount)
           o     == Opened(index, read)
           data  == {FirstIn(it) : it \in o.data}
           s     == [o EXCEPT !.data = data]
           t     == SkipEmptyDataBlocksForward(s, read)
           w     == LeastEntry(BlockEntries)
<1>2. Becomes(t) /\ call' = "Seek" /\ walked' = w
  BY <1>1
<1>3. index_iter_ \in IndexIts
  <2>1. Now \in States /\ Now.index = index_iter_
    BY DEF AtWalk, Now
  <2> QED BY <2>1, StateIs
<1>4. /\ index \in IndexIts
      /\ index.ok => index_iter_.ok /\ index.at = IF 1 <= BlockCount THEN 1 ELSE 0
  BY <1>3, IndexMoves
<1> HIDE DEF index
<1>5. o \in States /\ o.index = index /\ (StateOk(o) => StateOk(Now) /\ index.ok)
  BY <1>4, OpenedIn
<1> HIDE DEF o
<1>6. /\ o.data = {} => data = {}
      /\ \A it \in DataIts : o.data = {it} => data = {FirstIn(it)}
  OBVIOUS
<1> HIDE DEF data
<1>7. ASSUME NEW it \in DataIts
      PROVE  /\ FirstIn(it) \in DataIts /\ FirstIn(it).block = it.block
             /\ FirstIn(it).ok => it.ok /\ FirstIn(it).at = 1
  BY MovesInBlock
<1>8. s \in States /\ s.index = index /\ s.data = data /\ (StateOk(s) => StateOk(o))
  <2>1. \A it \in DataIts : o.data = {it} =>
          \E to \in DataIts : data = {to} /\ to.block = it.block /\ (to.ok => it.ok)
    BY <1>6, <1>7
  <2> HIDE DEF s
  <2> QED BY <1>5, <1>6, <2>1, MovesData DEF s
<1> HIDE DEF s
<1>9. ASSUME StateOk(s)
      PROVE  w = IF DataValid(s) THEN KeyIn(s) ELSE FirstAfter(s.index.at)
  <2>1. index.at = IF 1 <= BlockCount THEN 1 ELSE 0
    BY <1>4, <1>5, <1>8, <1>9
  <2>2. CASE BlockCount = 0
    <3>1. index.at = 0 /\ w = 0
      BY <2>1, <2>2, OutermostAre
    <3>2. ~DataValid(s)
      BY <1>8, <3>1, StateIs
    <3> HIDE DEF w
    <3> QED BY <1>8, <3>1, <3>2 DEF FirstAfter
  <2>3. CASE BlockCount # 0
    <3>1. index.at = 1 /\ w = Blocks[1][1]
      BY <2>1, <2>3, OutermostAre, BlocksAre
    <3>2. PICK it \in DataIts :
            /\ s.data = {it} /\ it.block = 1 /\ (DataValid(s) <=> it.at # 0)
            /\ KeyIn(s) = Blocks[it.block][it.at] /\ it.ok
      BY <1>8, <1>9, <3>1, StateIs
    <3>3. PICK old \in DataIts : o.data = {old}
      BY <1>5, <3>1, StateIs
    <3>4. it = FirstIn(old)
      BY <1>6, <1>8, <3>2, <3>3
    <3>5. it.at = 1
      BY <1>7, <3>2, <3>4
    <3> HIDE DEF w
    <3> QED BY <3>1, <3>2, <3>5
  <2> QED BY <2>2, <2>3
<1> HIDE DEF w
<1>10. /\ t \in States /\ (DataValid(t) \/ t.index.at = 0)
       /\ StateOk(t) => StateOk(s) /\ w = IF DataValid(t) THEN KeyIn(t) ELSE 0
  BY <1>8, <1>9, Forward
<1> HIDE DEF t
<1> QED BY <1>2, <1>5, <1>8, <1>10, SeekEnds

LEMMA SeekToLastKeeps ==
  ASSUME AtWalk, BlocksSeekToLast
  PROVE  AtWalk' /\ CallKeeps
<1>1. PICK read \in Reads :
        LET s == Opened(Parsed(index_iter_, BlockCount, BlockCount, BlockCount), read)
        IN  /\ Becomes(SkipEmptyDataBlocksBackward([s EXCEPT !.data = {LastIn(it) : it \in @}], read))
            /\ call' = "Seek" /\ walked' = LastEntry(BlockEntries)
  BY DEF BlocksSeekToLast
<1> DEFINE index == Parsed(index_iter_, BlockCount, BlockCount, BlockCount)
           o     == Opened(index, read)
           data  == {LastIn(it) : it \in o.data}
           s     == [o EXCEPT !.data = data]
           t     == SkipEmptyDataBlocksBackward(s, read)
           w     == LastEntry(BlockEntries)
<1>2. Becomes(t) /\ call' = "Seek" /\ walked' = w
  BY <1>1
<1>3. index_iter_ \in IndexIts
  <2>1. Now \in States /\ Now.index = index_iter_
    BY DEF AtWalk, Now
  <2> QED BY <2>1, StateIs
<1>4. index \in IndexIts /\ (index.ok => index_iter_.ok /\ index.at = BlockCount)
  <2>1. BlockCount \in Nat /\ BlockCount <= BlockCount
    BY BlocksAre
  <2> QED BY <1>3, <2>1, IndexMoves
<1> HIDE DEF index
<1>5. o \in States /\ o.index = index /\ (StateOk(o) => StateOk(Now) /\ index.ok)
  BY <1>4, OpenedIn
<1> HIDE DEF o
<1>6. /\ o.data = {} => data = {}
      /\ \A it \in DataIts : o.data = {it} => data = {LastIn(it)}
  OBVIOUS
<1> HIDE DEF data
<1>7. ASSUME NEW it \in DataIts
      PROVE  /\ LastIn(it) \in DataIts /\ LastIn(it).block = it.block
             /\ LastIn(it).ok => it.ok /\ LastIn(it).at = Len(Blocks[it.block])
  BY MovesInBlock
<1>8. s \in States /\ s.index = index /\ s.data = data /\ (StateOk(s) => StateOk(o))
  <2>1. \A it \in DataIts : o.data = {it} =>
          \E to \in DataIts : data = {to} /\ to.block = it.block /\ (to.ok => it.ok)
    BY <1>6, <1>7
  <2> HIDE DEF s
  <2> QED BY <1>5, <1>6, <2>1, MovesData DEF s
<1> HIDE DEF s
<1>9. ASSUME StateOk(s)
      PROVE  w = IF DataValid(s) THEN KeyIn(s) ELSE LastBefore(s.index.at)
  <2>1. index.at = BlockCount
    BY <1>4, <1>5, <1>8, <1>9
  <2>2. CASE BlockCount = 0
    <3>1. index.at = 0 /\ w = 0
      BY <2>1, <2>2, OutermostAre
    <3>2. ~DataValid(s)
      BY <1>8, <3>1, StateIs
    <3> HIDE DEF w
    <3> QED BY <1>8, <3>1, <3>2 DEF LastBefore
  <2>3. CASE BlockCount # 0
    <3> DEFINE n == BlockCount
               l == Len(Blocks[n])
    <3>1. index.at # 0 /\ w = Blocks[n][l] /\ l # 0
      <4>1. n \in 1..n
        BY <2>3, BlocksAre
      <4> QED BY <2>1, <2>3, <4>1, OutermostAre, BlocksAre
    <3>2. PICK it \in DataIts :
            /\ s.data = {it} /\ it.block = n /\ (DataValid(s) <=> it.at # 0)
            /\ KeyIn(s) = Blocks[it.block][it.at] /\ it.ok
      BY <1>8, <1>9, <2>1, <3>1, StateIs
    <3>3. PICK old \in DataIts : o.data = {old} /\ old.block = n
      BY <1>5, <2>1, <3>1, StateIs
    <3>4. it = LastIn(old)
      BY <1>6, <1>8, <3>2, <3>3
    <3>5. it.at = l
      BY <1>7, <3>2, <3>3, <3>4
    <3> HIDE DEF w
    <3> QED BY <3>1, <3>2, <3>5
  <2> QED BY <2>2, <2>3
<1> HIDE DEF w
<1>10. /\ t \in States /\ (DataValid(t) \/ t.index.at = 0)
       /\ StateOk(t) => StateOk(s) /\ w = IF DataValid(t) THEN KeyIn(t) ELSE 0
  BY <1>8, <1>9, Backward
<1> HIDE DEF t
<1> QED BY <1>2, <1>5, <1>8, <1>10, SeekEnds

LEMMA NextKeeps ==
  ASSUME AtWalk, BlocksNext
  PROVE  AtWalk' /\ CallKeeps
<1>1. PICK read \in Reads :
        Becomes(SkipEmptyDataBlocksForward([Now EXCEPT !.data = {NextIn(it) : it \in @}], read))
  BY DEF BlocksNext
<1> DEFINE old  == Now
           data == {NextIn(it) : it \in old.data}
           s    == [old EXCEPT !.data = data]
           t    == SkipEmptyDataBlocksForward(s, read)
           w    == LeastEntry({e \in BlockEntries : e > walked})
<1>2. Becomes(t) /\ call' = "Next" /\ walked' = w
  BY <1>1 DEF BlocksNext
<1>3. /\ old \in States /\ old.index = index_iter_
      /\ DataValid(old) /\ (StateOk(old) => walked = KeyIn(old))
      /\ StateOk(old) = ok /\ KeyIn(old) = key
  BY DEF AtWalk, Now, NothingSkipped, BlocksNext, Valid, ok, key
<1> HIDE DEF old
<1> DEFINE b == old.index.at
<1>4. PICK it \in DataIts :
        /\ old.data = {it} /\ it.block = b /\ it.at # 0
        /\ KeyIn(old) = Blocks[b][it.at] /\ (StateOk(old) => it.ok)
  BY <1>3, StateIs
<1> DEFINE to == NextIn(it)
           l  == Len(Blocks[b])
<1>5. /\ to \in DataIts /\ to.block = b /\ (to.at # 0 => to.at = it.at + 1)
      /\ to.ok => it.ok /\ to.at = IF it.at < l THEN it.at + 1 ELSE 0
  BY <1>4, MovesInBlock
<1>6. data = {to}
  BY <1>4
<1> HIDE DEF data
<1>7. s \in States /\ s.index = old.index /\ s.data = {to} /\ (StateOk(s) => StateOk(old))
  <2>1. \A i \in DataIts : old.data = {i} =>
          \E j \in DataIts : data = {j} /\ j.block = i.block /\ (j.ok => i.ok)
    <3> HIDE DEF to
    <3> QED BY <1>4, <1>5, <1>6
  <2>2. old.data = {} => data = {}
    BY <1>4
  <2> HIDE DEF s, to
  <2>3. s \in States /\ s.index = old.index /\ s.data = data /\ (StateOk(s) => StateOk(old))
    BY <1>3, <2>1, <2>2, MovesData DEF s
  <2> QED BY <1>6, <2>3
<1>8. /\ b \in 1..BlockCount /\ l \in Nat \ {0} /\ it.at \in 1..l /\ (to.at # 0 => to.at \in 1..l)
      /\ \A j \in 1..l : Blocks[b][j] \in Nat
  <2>1. b \in 1..BlockCount /\ it.at \in Nat /\ it.at <= l
    BY <1>4 DEF DataIts
  <2>2. l \in Nat \ {0} /\ \A j \in 1..l : Blocks[b][j] \in Nat
    BY <2>1, BlocksAre
  <2>3. to.at \in Nat /\ to.at <= l
    <3> HIDE DEF to
    <3> QED BY <1>5 DEF DataIts
  <2> QED BY <1>4, <2>1, <2>2, <2>3
<1> HIDE DEF s, to
<1>9. /\ DataValid(s) <=> to.at # 0
      /\ KeyIn(s) = Blocks[b][to.at] /\ (StateOk(s) => to.ok)
  <2>1. s.index.at # 0
    BY <1>7, <1>8
  <2>2. PICK i \in DataIts : /\ s.data = {i} /\ (DataValid(s) <=> i.at # 0)
                             /\ i.block = s.index.at
                             /\ KeyIn(s) = Blocks[i.block][i.at] /\ (StateOk(s) => i.ok)
    BY <1>7, <2>1, StateIs
  <2>3. i = to
    BY <1>7, <2>2
  <2> QED BY <1>7, <2>2, <2>3
<1>10. ASSUME StateOk(s)
       PROVE  w = IF DataValid(s) THEN KeyIn(s) ELSE FirstAfter(s.index.at)
  <2>1. walked = Blocks[b][it.at]
    BY <1>3, <1>4, <1>7, <1>10
  <2>2. w = IF it.at < l THEN Blocks[b][it.at + 1] ELSE FirstAfter(b)
    <3> HIDE DEF b
    <3> QED BY <1>8, <2>1, SuccessorIs
  <2>3. to.at = IF it.at < l THEN it.at + 1 ELSE 0
    BY <1>5, <1>9, <1>10
  <2>4. CASE it.at < l
    <3>1. to.at = it.at + 1 /\ to.at # 0
      BY <1>8, <2>3, <2>4
    <3> QED BY <1>9, <2>2, <2>4, <3>1
  <2>5. CASE ~(it.at < l)
    BY <1>7, <1>9, <2>2, <2>3, <2>5
  <2> QED BY <2>4, <2>5
<1> HIDE DEF w
<1>11. /\ t \in States /\ (DataValid(t) \/ t.index.at = 0)
       /\ StateOk(t) => StateOk(s) /\ w = IF DataValid(t) THEN KeyIn(t) ELSE 0
       /\ DataValid(s) => t = s
       /\ DataValid(t) /\ ~DataValid(s) => s.index.at # 0 /\ t.index.at > s.index.at
  BY <1>7, <1>10, Forward
<1> HIDE DEF t
<1>12. /\ Now' = t /\ index_iter_'.at = t.index.at
       /\ ok' = StateOk(t) /\ Valid' = DataValid(t) /\ key' = KeyIn(t)
  BY <1>2, <1>11, BecomesIs
<1>13. AtWalk'
  <2>1. NothingSkipped'
    BY <1>2, <1>11, <1>12 DEF NothingSkipped
  <2> QED BY <1>11, <1>12, <2>1 DEF AtWalk
<1>14. ASSUME DataValid(t) PROVE KeyIn(t) > KeyIn(old)
  <2>1. CASE DataValid(s)
    <3>1. KeyIn(t) = Blocks[b][to.at] /\ to.at = it.at + 1 /\ to.at \in 1..l /\ it.at < to.at
      BY <1>5, <1>8, <1>9, <1>11, <2>1
    <3>2. Blocks[b][it.at] < Blocks[b][to.at]
      <4> HIDE DEF b
      <4> QED BY <1>8, <3>1, BlocksAre
    <3> QED BY <1>4, <1>8, <3>1, <3>2
  <2>2. CASE ~DataValid(s)
    <3> DEFINE c == t.index.at
    <3>1. b < c /\ c \in 1..BlockCount
      <4>1. c > b /\ c \in 0..BlockCount
        BY <1>7, <1>11, <1>14, <2>2, StateIs
      <4> HIDE DEF b, c
      <4> QED BY <1>8, <4>1
    <3>2. PICK i \in DataIts : i.block = c /\ i.at # 0 /\ KeyIn(t) = Blocks[c][i.at]
      BY <1>11, <1>14, StateIs
    <3>3. i.at \in 1..Len(Blocks[c]) /\ Len(Blocks[c]) \in Nat
      BY <3>1, <3>2, BlocksAre DEF DataIts
    <3>4. Blocks[b][it.at] < Blocks[c][i.at] /\ Blocks[c][i.at] \in Nat
      <4> HIDE DEF b, c
      <4> QED BY <1>8, <3>1, <3>3, BlocksAre
    <3> QED BY <1>4, <1>8, <3>2, <3>4
  <2> QED BY <2>1, <2>2
<1>15. ok' => ok
  BY <1>3, <1>7, <1>11, <1>12
<1>16. CallKeeps
  BY <1>2, <1>3, <1>12, <1>14, <1>15 DEF CallKeeps
<1> QED BY <1>13, <1>16

LEMMA PrevKeeps ==
  ASSUME AtWalk, BlocksPrev
  PROVE  AtWalk' /\ CallKeeps
<1>1. PICK read \in Reads :
        Becomes(SkipEmptyDataBlocksBackward([Now EXCEPT !.data = {PrevIn(it) : it \in @}], read))
  BY DEF BlocksPrev
<1> DEFINE old  == Now
           data == {PrevIn(it) : it \in old.data}
           s    == [old EXCEPT !.data = data]
           t    == SkipEmptyDataBlocksBackward(s, read)
           w    == LastEntry({e \in BlockEntries : e < walked})
<1>2. Becomes(t) /\ call' = "Prev" /\ walked' = w
  BY <1>1 DEF BlocksPrev
<1>3. /\ old \in States /\ old.index = index_iter_
      /\ DataValid(old) /\ (StateOk(old) => walked = KeyIn(old))
      /\ StateOk(old) = ok /\ KeyIn(old) = key
  BY DEF AtWalk, Now, NothingSkipped, BlocksPrev, Valid, ok, key
<1> HIDE DEF old
<1> DEFINE b == old.index.at
<1>4. PICK it \in DataIts :
        /\ old.data = {it} /\ it.block = b /\ it.at # 0
        /\ KeyIn(old) = Blocks[b][it.at] /\ (StateOk(old) => it.ok)
  BY <1>3, StateIs
<1> DEFINE to == PrevIn(it)
           l  == Len(Blocks[b])
<1>5. /\ to \in DataIts /\ to.block = b /\ (to.at # 0 => to.at = it.at - 1)
      /\ to.ok => it.ok /\ to.at = it.at - 1
  BY <1>4, MovesInBlock
<1>6. data = {to}
  BY <1>4
<1> HIDE DEF data
<1>7. s \in States /\ s.index = old.index /\ s.data = {to} /\ (StateOk(s) => StateOk(old))
  <2>1. \A i \in DataIts : old.data = {i} =>
          \E j \in DataIts : data = {j} /\ j.block = i.block /\ (j.ok => i.ok)
    <3> HIDE DEF to
    <3> QED BY <1>4, <1>5, <1>6
  <2>2. old.data = {} => data = {}
    BY <1>4
  <2> HIDE DEF s, to
  <2>3. s \in States /\ s.index = old.index /\ s.data = data /\ (StateOk(s) => StateOk(old))
    BY <1>3, <2>1, <2>2, MovesData DEF s
  <2> QED BY <1>6, <2>3
<1>8. /\ b \in 1..BlockCount /\ l \in Nat \ {0} /\ it.at \in 1..l /\ (to.at # 0 => to.at \in 1..l)
      /\ \A j \in 1..l : Blocks[b][j] \in Nat
  <2>1. b \in 1..BlockCount /\ it.at \in Nat /\ it.at <= l
    BY <1>4 DEF DataIts
  <2>2. l \in Nat \ {0} /\ \A j \in 1..l : Blocks[b][j] \in Nat
    BY <2>1, BlocksAre
  <2>3. to.at \in Nat /\ to.at <= l
    <3> HIDE DEF to
    <3> QED BY <1>5 DEF DataIts
  <2> QED BY <1>4, <2>1, <2>2, <2>3
<1> HIDE DEF s, to
<1>9. /\ DataValid(s) <=> to.at # 0
      /\ KeyIn(s) = Blocks[b][to.at] /\ (StateOk(s) => to.ok)
  <2>1. s.index.at # 0
    BY <1>7, <1>8
  <2>2. PICK i \in DataIts : /\ s.data = {i} /\ (DataValid(s) <=> i.at # 0)
                             /\ i.block = s.index.at
                             /\ KeyIn(s) = Blocks[i.block][i.at] /\ (StateOk(s) => i.ok)
    BY <1>7, <2>1, StateIs
  <2>3. i = to
    BY <1>7, <2>2
  <2> QED BY <1>7, <2>2, <2>3
<1>10. ASSUME StateOk(s)
       PROVE  w = IF DataValid(s) THEN KeyIn(s) ELSE LastBefore(s.index.at)
  <2>1. walked = Blocks[b][it.at]
    BY <1>3, <1>4, <1>7, <1>10
  <2>2. w = IF it.at > 1 THEN Blocks[b][it.at - 1] ELSE LastBefore(b)
    <3> HIDE DEF b
    <3> QED BY <1>8, <2>1, PredecessorIs
  <2>3. to.at = it.at - 1
    BY <1>5, <1>9, <1>10
  <2>4. CASE it.at > 1
    <3>1. to.at = it.at - 1 /\ to.at # 0
      BY <1>8, <2>3, <2>4
    <3> QED BY <1>9, <2>2, <2>4, <3>1
  <2>5. CASE ~(it.at > 1)
    <3>1. to.at = 0
      BY <1>8, <2>3, <2>5
    <3> QED BY <1>7, <1>9, <2>2, <2>5, <3>1
  <2> QED BY <2>4, <2>5
<1> HIDE DEF w
<1>11. /\ t \in States /\ (DataValid(t) \/ t.index.at = 0)
       /\ StateOk(t) => StateOk(s) /\ w = IF DataValid(t) THEN KeyIn(t) ELSE 0
       /\ DataValid(s) => t = s
       /\ DataValid(t) /\ ~DataValid(s) => s.index.at # 0 /\ t.index.at < s.index.at
  BY <1>7, <1>10, Backward
<1> HIDE DEF t
<1>12. /\ Now' = t /\ index_iter_'.at = t.index.at
       /\ ok' = StateOk(t) /\ Valid' = DataValid(t) /\ key' = KeyIn(t)
  BY <1>2, <1>11, BecomesIs
<1>13. AtWalk'
  <2>1. NothingSkipped'
    BY <1>2, <1>11, <1>12 DEF NothingSkipped
  <2> QED BY <1>11, <1>12, <2>1 DEF AtWalk
<1>14. ASSUME DataValid(t) PROVE KeyIn(t) < KeyIn(old)
  <2>1. CASE DataValid(s)
    <3>1. KeyIn(t) = Blocks[b][to.at] /\ to.at = it.at - 1 /\ to.at \in 1..l /\ to.at < it.at
      BY <1>5, <1>8, <1>9, <1>11, <2>1
    <3>2. Blocks[b][to.at] < Blocks[b][it.at]
      <4> HIDE DEF b
      <4> QED BY <1>8, <3>1, BlocksAre
    <3> QED BY <1>4, <1>8, <3>1, <3>2
  <2>2. CASE ~DataValid(s)
    <3> DEFINE c == t.index.at
    <3>1. c < b /\ c \in 1..BlockCount
      <4>1. c < b /\ c \in 0..BlockCount
        BY <1>7, <1>11, <1>14, <2>2, StateIs
      <4>2. c # 0
        BY <1>11, <1>14, StateIs
      <4> HIDE DEF b, c
      <4> QED BY <1>8, <4>1, <4>2
    <3>2. PICK i \in DataIts : i.block = c /\ i.at # 0 /\ KeyIn(t) = Blocks[c][i.at]
      BY <1>11, <1>14, StateIs
    <3>3. i.at \in 1..Len(Blocks[c]) /\ Len(Blocks[c]) \in Nat
      BY <3>1, <3>2, BlocksAre DEF DataIts
    <3>4. Blocks[c][i.at] < Blocks[b][it.at] /\ Blocks[c][i.at] \in Nat
      <4> HIDE DEF b, c
      <4> QED BY <1>8, <3>1, <3>3, BlocksAre
    <3> QED BY <1>4, <1>8, <3>2, <3>4
  <2> QED BY <2>1, <2>2
<1>15. ok' => ok
  BY <1>3, <1>7, <1>11, <1>12
<1>16. CallKeeps
  BY <1>2, <1>3, <1>12, <1>14, <1>15 DEF CallKeeps
<1> QED BY <1>13, <1>16

LEMMA WalkIsKept == SpecBlocks => []AtWalk
<1>1. InitBlocks => AtWalk
  <2> SUFFICES ASSUME InitBlocks PROVE AtWalk
    OBVIOUS
  <2>1. PICK bad \in 0..BlockCount : index_iter_ = Iterator(0, bad, TRUE)
    BY DEF InitBlocks
  <2>2. index_iter_ \in IndexIts /\ index_iter_.at = 0
    <3>1. index_iter_ = [block |-> 0, at |-> 0, bad |-> bad, ok |-> TRUE] /\ BlockCount \in Nat
      BY <2>1, BlocksAre DEF Iterator
    <3> QED BY <3>1 DEF IndexIts
  <2>3. Now = [index |-> index_iter_, data |-> {}, status |-> TRUE]
    BY DEF InitBlocks, Now
  <2>4. Now \in States /\ Now.data = {}
    BY <2>2, <2>3, StatesAre
  <2>5. ~Valid
    BY <2>4 DEF Valid, DataValid
  <2> QED BY <2>2, <2>4, <2>5 DEF InitBlocks, AtWalk, NothingSkipped
<1>2. ASSUME AtWalk, [NextBlocks]_blockVars PROVE AtWalk'
  <2>1. CASE UNCHANGED blockVars
    BY <1>2, <2>1 DEF blockVars, AtWalk, Now, Valid, DataValid, NothingSkipped, ok, StateOk, key, KeyIn
  <2>2. CASE NextBlocks
    BY <1>2, <2>2, SeekKeeps, SeekToFirstKeeps, SeekToLastKeeps, NextKeeps, PrevKeeps DEF NextBlocks
  <2> QED BY <1>2, <2>1, <2>2
<1> QED BY <1>1, <1>2, PTL DEF SpecBlocks

(* No entry is left out by an iterator whose status is ok (NothingSkipped),*)
(* for any blocks and any damage to them and to the index: by the invariant*)
(* that the iterator is at an entry or at no block.                        *)
THEOREM NothingIsSkipped == SpecBlocks => []NothingSkipped
<1>1. AtWalk => NothingSkipped
  BY DEF AtWalk
<1> QED BY <1>1, WalkIsKept, PTL

(* A status that is not ok stays so, and Next and Prev do not turn back    *)
(* (ErrorsStay): the loops only leave a block for one ahead of it.         *)
THEOREM ErrorsAreKept == SpecBlocks => ErrorsStay
<1>1. ASSUME AtWalk, [NextBlocks]_blockVars
      PROVE  /\ [ok' => ok]_blockVars
             /\ [Valid' => CASE call' = "Next" -> key' > key
                             [] call' = "Prev" -> key' < key
                             [] OTHER          -> TRUE]_blockVars
  <2>1. CASE UNCHANGED blockVars
    BY <2>1
  <2>2. CASE NextBlocks
    <3>1. CallKeeps
      BY <1>1, <2>2, SeekKeeps, SeekToFirstKeeps, SeekToLastKeeps, NextKeeps, PrevKeeps DEF NextBlocks
    <3>2. ok' => ok
      BY <3>1 DEF CallKeeps
    <3>3. ASSUME Valid'
          PROVE  CASE call' = "Next" -> key' > key
                   [] call' = "Prev" -> key' < key
                   [] OTHER          -> TRUE
      <4>1. /\ call' = "Next" => key' > key
            /\ call' = "Prev" => key' < key
        BY <3>1, <3>3 DEF CallKeeps
      <4> QED BY <4>1
    <3> QED BY <3>2, <3>3
  <2> QED BY <1>1, <2>1, <2>2
<1> QED BY <1>1, WalkIsKept, PTL DEF SpecBlocks, ErrorsStay, StatusStays, KeepsOrder
=============================================================================
