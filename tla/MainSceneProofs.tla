--------------------------- MODULE MainSceneProofs ---------------------------
(***************************************************************************)
(* The paged feed, for every database, page size and number of requests,   *)
(* and whether or not images arrive promptly: first what the operators of  *)
(* MainModels return and preserve, then the invariants of the scene.       *)
(***************************************************************************)
EXTENDS MainScene, SequenceTheorems, FiniteSetTheorems, TLAPS

-----------------------------------------------------------------------------
(* The database, its queries, and the list.                                *)

(* Keys are numbers above FIRST_KEY, so that none is a reserved key.        *)
LEMMA KeysAboveFirst ==
  \A k \in Keys : k \in Int /\ k > 1 /\ k # FIRST_KEY /\ k # EMPTY_KEY /\ k # NoKey
  BY ModelAssumption DEF ModelAssumption, FIRST_KEY, EMPTY_KEY, NoKey

(* A snapshot's enumeration is a sequence of exactly the entries, sorted.  *)
LEMMA OrderedByKeyIsSeq ==
  ASSUME NEW S \in SUBSET Keys, NEW s \in OrderedByKey(S)
  PROVE  /\ s \in Seq(S)
         /\ s \in Seq(Keys)
         /\ Len(s) = Cardinality(S)
         /\ \A i, j \in 1..Len(s) : i < j => s[i] < s[j]
         /\ \A i \in 1..Len(s) : s[i] \in S
         /\ \A k \in S : \E i \in 1..Len(s) : s[i] = k
<1>1. IsFiniteSet(S)
  BY ModelAssumption, FS_Subset DEF ModelAssumption
<1>2. Cardinality(S) \in Nat
  BY <1>1, FS_CardinalityType
<1>3. s \in [1..Cardinality(S) -> S]
  BY DEF OrderedByKey
<1>4. s \in Seq(S)
  BY <1>2, <1>3, SeqDef
<1>5. DOMAIN s = 1..Cardinality(S) /\ Len(s) = Cardinality(S)
  BY <1>2, <1>3, <1>4, LenProperties
<1>6. s \in Seq(Keys)
  BY <1>4, SeqMonotonic
<1>7. QED
  BY <1>3, <1>4, <1>5, <1>6 DEF OrderedByKey

(* A query returns entries of the database that are not below its cursor.  *)
LEMMA QueryPageInServer ==
  ASSUME NEW held \in SUBSET Keys, NEW cursor, NEW size
  PROVE  /\ QueryPage(held, cursor, size) \in SUBSET held
         /\ \A k \in QueryPage(held, cursor, size) : k >= cursor
  BY DEF QueryPage

(* A query returns a gapless stretch of the database from its cursor on.   *)
LEMMA QueryPageHasNoGap ==
  ASSUME NEW held \in SUBSET Keys, NEW cursor \in Cursor, NEW size \in Nat,
         NEW p \in QueryPage(held, cursor, size),
         NEW k \in held, cursor <= k, k < p
  PROVE  k \in QueryPage(held, cursor, size)
<1> DEFINE started == {j \in held : j >= cursor}
           below(n) == {j \in started : j < n}
<1>1. held \subseteq Nat /\ cursor \in Nat /\ IsFiniteSet(held)
  <2>1. IsFiniteSet(held)
    BY ModelAssumption, FS_Subset DEF ModelAssumption
  <2>2. held \subseteq Nat /\ cursor \in Nat
    BY ModelAssumption DEF ModelAssumption, Cursor, EMPTY_KEY, FIRST_KEY
  <2>3. QED
    BY <2>1, <2>2
<1>2. p \in started /\ k \in started /\ Cardinality(below(p)) < size
  BY <1>1 DEF QueryPage
<1>3. IsFiniteSet(below(p)) /\ below(k) \in SUBSET below(p)
  <2>1. below(p) \in SUBSET held
    OBVIOUS
  <2>2. \A j \in started : j < k => j < p
    BY <1>1, <1>2
  <2>3. below(k) \in SUBSET below(p)
    BY <2>2
  <2>4. QED
    BY <1>1, <2>1, <2>3, FS_Subset
<1>4. /\ Cardinality(below(k)) <= Cardinality(below(p))
      /\ Cardinality(below(k)) \in Nat /\ Cardinality(below(p)) \in Nat
  BY <1>3, FS_Subset, FS_CardinalityType
<1>5. Cardinality(below(k)) < size
  BY <1>2, <1>4
<1>6. QED
  BY <1>2, <1>5 DEF QueryPage

(* A cursor that is an entry of the database is the query's first result.  *)
LEMMA QueryPageHasCursor ==
  ASSUME NEW held \in SUBSET Keys, NEW cursor \in held, NEW size \in Nat \ {0}
  PROVE  cursor \in QueryPage(held, cursor, size)
<1> DEFINE started == {j \in held : j >= cursor}
<1>1. \A j \in held : j \in Int
  BY KeysAboveFirst
<1>2. {j \in started : j < cursor} = {}
  <2>1. \A j \in started : ~(j < cursor)
    BY <1>1
  <2>2. QED
    BY <2>1
<1>3. Cardinality({j \in started : j < cursor}) < size
  BY <1>2, FS_EmptySet
<1>4. QED
  BY <1>1, <1>3 DEF QueryPage

(* Dropping the first child of a snapshot drops the cursor's entry and no  *)
(* other, provided that the cursor is still in the database.               *)
LEMMA RemoveFirstDropsCursor ==
  ASSUME NEW held \in SUBSET Keys, NEW cursor \in {FIRST_KEY} \cup held,
         NEW children \in OrderedByKey(QueryPage(held, cursor, PAGE_SIZE))
  PROVE  /\ ~RemoveFirstTraps(children, cursor)
         /\ RemoveFirst(children, cursor) \in Seq(Keys)
         /\ LET objs == RemoveFirst(children, cursor)
            IN  {objs[i] : i \in 1..Len(objs)} =
                  {k \in QueryPage(held, cursor, PAGE_SIZE) : k # cursor}
<1> DEFINE Q == QueryPage(held, cursor, PAGE_SIZE)
           objs == RemoveFirst(children, cursor)
<1>1. Q \in SUBSET Keys /\ \A k \in Q : k \in Int /\ k # FIRST_KEY /\ k >= cursor
  BY QueryPageInServer, KeysAboveFirst
<1>2. /\ children \in Seq(Keys)
      /\ Len(children) \in Nat
      /\ \A i, j \in 1..Len(children) : i < j => children[i] < children[j]
      /\ \A i \in 1..Len(children) : children[i] \in Q
      /\ \A k \in Q : \E i \in 1..Len(children) : children[i] = k
  <2>1. Q \in SUBSET Keys /\ children \in OrderedByKey(Q)
    BY <1>1
  <2> HIDE DEF Q, objs
  <2>2. /\ children \in Seq(Keys)
        /\ \A i, j \in 1..Len(children) : i < j => children[i] < children[j]
        /\ \A i \in 1..Len(children) : children[i] \in Q
        /\ \A k \in Q : \E i \in 1..Len(children) : children[i] = k
    BY <2>1, OrderedByKeyIsSeq
  <2>3. Len(children) \in Nat
    BY <2>2, LenProperties
  <2> QED BY <2>2, <2>3
<1>3. CASE cursor = FIRST_KEY
  <2>1. objs = children /\ ~RemoveFirstTraps(children, cursor)
    BY <1>3 DEF RemoveFirst, RemoveFirstTraps
  <2>2. \A k \in Q : k # cursor
    BY <1>1, <1>3
  <2>3. {objs[i] : i \in 1..Len(objs)} = {k \in Q : k # cursor}
    <3> HIDE DEF Q, objs
    <3> QED BY <1>2, <2>1, <2>2
  <2>4. QED
    BY <1>2, <2>1, <2>3
<1>4. CASE cursor # FIRST_KEY
  <2>1. cursor \in Q
    BY <1>4, QueryPageHasCursor, ModelAssumption DEF ModelAssumption
  <2>2. children # <<>>
    BY <1>2, <2>1
  <2>3. children[1] = cursor /\ 1 \in 1..Len(children)
    <3>1. PICK c \in 1..Len(children) : children[c] = cursor
      BY <1>2, <2>1
    <3>2. children[1] \in Q /\ 1 \in 1..Len(children)
      BY <1>2, <3>1
    <3>3. c > 1 => children[1] < cursor
      BY <1>2, <3>1, <3>2
    <3>4. ~(c > 1)
      BY <1>1, <2>1, <3>2, <3>3
    <3>5. c = 1
      BY <1>2, <3>1, <3>4
    <3>6. QED
      BY <3>1, <3>2, <3>5
  <2>4. objs = Tail(children) /\ ~RemoveFirstTraps(children, cursor)
    BY <1>4, <2>2 DEF RemoveFirst, RemoveFirstTraps
  <2>5. /\ objs \in Seq(Keys)
        /\ Len(objs) = Len(children) - 1
        /\ \A i \in 1..Len(objs) : objs[i] = children[i + 1]
    BY <1>2, <2>2, <2>4, HeadTailProperties
  <2>6. ASSUME NEW i \in 1..Len(objs)
        PROVE  objs[i] \in Q /\ objs[i] # cursor
    <3>1. i + 1 \in 1..Len(children) /\ 1 < i + 1 /\ objs[i] = children[i + 1]
      BY <1>2, <2>5
    <3>2. children[1] < children[i + 1] /\ children[i + 1] \in Q
      BY <1>2, <2>3, <3>1
    <3>3. cursor < children[i + 1] /\ cursor \in Int /\ children[i + 1] \in Int
      BY <1>1, <2>1, <2>3, <3>2
    <3>4. QED
      BY <3>1, <3>2, <3>3
  <2>7. ASSUME NEW k \in Q, k # cursor
        PROVE  \E i \in 1..Len(objs) : objs[i] = k
    <3>1. PICK j \in 1..Len(children) : children[j] = k
      BY <1>2
    <3>2. j # 1
      BY <2>3, <2>7, <3>1
    <3>3. j - 1 \in 1..Len(objs) /\ objs[j - 1] = children[j]
      BY <1>2, <2>5, <3>2
    <3>4. QED
      BY <3>1, <3>3
  <2>8. QED
    <3> HIDE DEF Q, objs
    <3>1. {objs[i] : i \in 1..Len(objs)} = {k \in Q : k # cursor}
      BY <2>6, <2>7
    <3>2. QED
      BY <2>4, <2>5, <3>1 DEF Q, objs
<1>5. QED
  BY <1>3, <1>4

(* Where dropping the first child does not trap, it leaves a sequence.     *)
LEMMA RemoveFirstType ==
  ASSUME NEW S \in SUBSET Keys, NEW children \in OrderedByKey(S), NEW cursor,
         ~RemoveFirstTraps(children, cursor)
  PROVE  RemoveFirst(children, cursor) \in Seq(Keys)
  BY OrderedByKeyIsSeq, HeadTailProperties DEF RemoveFirst, RemoveFirstTraps

-----------------------------------------------------------------------------
(* The list built from a snapshot holds its decodable entries, as fresh    *)
(* rows, and nothing else.                                                 *)
LEMMA InitWithKeeps ==
  ASSUME NEW objs \in Seq(Keys), NEW rows \in InitWith(objs)
  PROVE  /\ rows \in Seq(Row)
         /\ \A i \in 1..Len(rows) : rows[i].key \in Keys /\ rows[i].data = {}
         /\ \A i, j \in 1..Len(rows) : i < j => rows[i].key < rows[j].key
         /\ KeysOf(rows) = {k \in {objs[i] : i \in 1..Len(objs)} : DisplayTypeOf[k] # "nil"}
<1> DEFINE kept == {objs[i] : i \in {j \in 1..Len(objs) : DisplayTypeOf[objs[j]] # "nil"}}
<1>1. kept \in SUBSET Keys
  BY LenProperties
<1>2. PICK s \in OrderedByKey(kept) : rows = [i \in 1..Len(s) |-> [key |-> s[i], data |-> {}]]
  BY DEF InitWith
<1>3. /\ s \in Seq(Keys) /\ Len(s) \in Nat
      /\ \A i, j \in 1..Len(s) : i < j => s[i] < s[j]
      /\ \A i \in 1..Len(s) : s[i] \in kept
      /\ \A k \in kept : \E i \in 1..Len(s) : s[i] = k
  <2> HIDE DEF kept
  <2> QED BY <1>1, OrderedByKeyIsSeq, LenProperties
<1>4. \A i \in 1..Len(s) : [key |-> s[i], data |-> {}] \in Row
  BY <1>1, <1>3 DEF Row
<1>5. rows \in [1..Len(s) -> Row]
  BY <1>2, <1>4
<1>6. rows \in Seq(Row)
  BY <1>3, <1>5, SeqDef
<1>7. Len(rows) = Len(s)
  BY <1>2, <1>3, <1>6, LenProperties
<1>8. \A i \in 1..Len(rows) : rows[i].key = s[i] /\ rows[i].data = {}
  BY <1>2, <1>7
<1>9. KeysOf(rows) = kept
  <2>1. \A k \in kept : k # NoKey
    BY <1>1, KeysAboveFirst
  <2>2. {rows[i].key : i \in 1..Len(rows)} = kept
    <3> HIDE DEF kept
    <3> QED BY <1>3, <1>7, <1>8
  <2>3. QED
    BY <2>1, <2>2 DEF KeysOf
<1>10. QED
  BY <1>1, <1>3, <1>6, <1>7, <1>8, <1>9

(* Downloads are of images of the list's own rows.                         *)
LEMMA SetImageDataType ==
  ASSUME NEW rows \in Seq(Row), \A i \in 1..Len(rows) : rows[i].key \in Keys
  PROVE  /\ SetImageData(rows) \in SUBSET Download
         /\ SetImageData(rows) # {} => rows # <<>>
<1>1. Len(rows) \in Nat
  BY LenProperties
<1>2. \A i \in 1..Len(rows) : ImagesOf[rows[i].key] \subseteq ImageFields
  BY ModelAssumption DEF ModelAssumption
<1>3. \A i \in 1..Len(rows) : i \in Nat \ {0}
  BY <1>1
<1>4. SetImageData(rows) \in SUBSET Download
  BY <1>2, <1>3 DEF SetImageData, Download
<1>5. rows = <<>> => SetImageData(rows) = {}
  BY EmptySeq DEF SetImageData
<1>6. QED
  BY <1>4, <1>5

(* A callback changes the data of one row at most, and no key.             *)
LEMMA UpdateKeepsKeys ==
  ASSUME NEW rows \in Seq(Row), NEW d \in Download, NEW loaded \in BOOLEAN
  PROVE  /\ Update(rows, d, loaded) \in Seq(Row)
         /\ Len(Update(rows, d, loaded)) = Len(rows)
         /\ \A i \in 1..Len(rows) : Update(rows, d, loaded)[i].key = rows[i].key
<1> DEFINE img == [owner |-> d.owner, field |-> d.field]
           row == [rows[d.idx] EXCEPT !.data = IF loaded THEN @ \cup {img} ELSE @ \ {img}]
<1>1. CASE d.idx > Len(rows)
  BY <1>1 DEF Update
<1>2. CASE ~(d.idx > Len(rows))
  <2>1. d.idx \in 1..Len(rows)
    BY <1>2, LenProperties DEF Download
  <2>2. rows[d.idx] \in Row
    BY <2>1, ElementOfSeq
  <2>3. img \in Image
    BY DEF Image, Download
  <2>4. row \in Row /\ row.key = rows[d.idx].key
    BY <2>2, <2>3 DEF Row
  <2>5. Update(rows, d, loaded) = [rows EXCEPT ![d.idx] = row]
    BY <1>2 DEF Update
  <2>6. QED
    <3> HIDE DEF row
    <3> QED BY <2>1, <2>4, <2>5, ExceptSeq
<1>3. QED
  BY <1>1, <1>2

(* Appending a page puts its keys after those that are there.              *)
LEMMA AppendKeys ==
  ASSUME NEW shown \in Seq(Row), NEW rows \in Seq(Row)
  PROVE  /\ AppendList(shown, rows) \in Seq(Row)
         /\ Len(AppendList(shown, rows)) = Len(shown) + Len(rows)
         /\ \A i \in 1..Len(shown) : AppendList(shown, rows)[i] = shown[i]
         /\ \A i \in 1..Len(rows) : AppendList(shown, rows)[Len(shown) + i] = rows[i]
         /\ KeysOf(AppendList(shown, rows)) = KeysOf(shown) \cup KeysOf(rows)
<1> DEFINE all == AppendList(shown, rows)
<1>1. /\ all \in Seq(Row)
      /\ Len(all) = Len(shown) + Len(rows)
      /\ \A i \in 1..(Len(shown) + Len(rows)) :
           all[i] = IF i <= Len(shown) THEN shown[i] ELSE rows[i - Len(shown)]
  BY ConcatProperties DEF AppendList
<1>2. Len(shown) \in Nat /\ Len(rows) \in Nat
  BY LenProperties
<1> HIDE DEF all
<1>3. \A i \in 1..Len(shown) : all[i] = shown[i]
  BY <1>1, <1>2
<1>4. ASSUME NEW i \in 1..Len(rows)
      PROVE  Len(shown) + i \in 1..Len(all) /\ all[Len(shown) + i] = rows[i]
  <2>1. Len(shown) + i \in 1..Len(all) /\ ~(Len(shown) + i <= Len(shown))
    BY <1>1, <1>2
  <2>2. (Len(shown) + i) - Len(shown) = i
    BY <1>2
  <2>3. QED
    BY <1>1, <2>1, <2>2
<1>5. {all[i].key : i \in 1..Len(all)} =
        {shown[i].key : i \in 1..Len(shown)} \cup {rows[i].key : i \in 1..Len(rows)}
  <2>1. ASSUME NEW i \in 1..Len(all)
        PROVE  \/ \E j \in 1..Len(shown) : all[i].key = shown[j].key
               \/ \E j \in 1..Len(rows) : all[i].key = rows[j].key
    <3>1. CASE i <= Len(shown)
      BY <1>1, <1>2, <3>1
    <3>2. CASE ~(i <= Len(shown))
      <4>1. i - Len(shown) \in 1..Len(rows)
        BY <1>1, <1>2, <3>2
      <4>2. QED
        BY <1>1, <3>2, <4>1
    <3>3. QED
      BY <3>1, <3>2
  <2>2. \A j \in 1..Len(shown) : \E i \in 1..Len(all) : all[i].key = shown[j].key
    BY <1>1, <1>2, <1>3
  <2>3. \A j \in 1..Len(rows) : \E i \in 1..Len(all) : all[i].key = rows[j].key
    BY <1>4
  <2> DEFINE new == {all[i].key : i \in 1..Len(all)}
             old == {shown[i].key : i \in 1..Len(shown)}
             found == {rows[i].key : i \in 1..Len(rows)}
  <2>4. ASSUME NEW k \in new
        PROVE  k \in old \cup found
    BY <2>1
  <2>5. ASSUME NEW k \in old \cup found
        PROVE  k \in new
    BY <2>2, <2>3
  <2>6. QED
    <3> HIDE DEF new, old, found
    <3>1. new = old \cup found
      BY <2>4, <2>5
    <3>2. QED
      BY <3>1 DEF new, old, found
<1>6. QED
  BY <1>1, <1>3, <1>4, <1>5 DEF KeysOf, all

(* insertOnce leaves the keys and the last row as they are, and a list     *)
(* whose first row alone can be keyless stays so, led by a notification.   *)
LEMMA InsertOnceKeys ==
  ASSUME NEW shown \in Seq(Row), shown # <<>>
  PROVE  /\ InsertOnce(shown) \in Seq(Row)
         /\ Len(InsertOnce(shown)) \in Nat \ {0}
         /\ KeysOf(InsertOnce(shown)) = KeysOf(shown)
         /\ InsertOnce(shown)[Len(InsertOnce(shown))] = shown[Len(shown)]
         /\ Category(InsertOnce(shown)[1]) = "noti"
         /\ (\A i \in 2..Len(shown) : shown[i].key # NoKey)
              => \A i \in 2..Len(InsertOnce(shown)) : InsertOnce(shown)[i].key # NoKey
<1>1. Len(shown) \in Nat \ {0}
  BY EmptySeq
<1>2. CASE Category(shown[1]) = "noti"
  <2>1. InsertOnce(shown) = shown
    BY <1>2 DEF InsertOnce
  <2>2. QED
    BY <1>1, <1>2, <2>1
<1>3. CASE Category(shown[1]) # "noti"
  <2> DEFINE new == InsertOnce(shown)
  <2>1. new = <<Header>> \o shown
    BY <1>3 DEF InsertOnce
  <2>2. Header \in Row /\ Header.key = NoKey
    BY DEF Header, Row
  <2>3. <<Header>> \in Seq(Row) /\ Len(<<Header>>) = 1 /\ <<Header>>[1] = Header
    BY <2>2
  <2>4. /\ new \in Seq(Row)
        /\ Len(new) = 1 + Len(shown)
        /\ \A i \in 1..(1 + Len(shown)) :
             new[i] = IF i <= 1 THEN <<Header>>[i] ELSE shown[i - 1]
    <3> HIDE DEF Header
    <3> QED BY <2>1, <2>3, ConcatProperties
  <2> HIDE DEF new
  <2>5. new[1] = Header
    BY <1>1, <2>3, <2>4
  <2>6. \A i \in 1..Len(shown) : new[i + 1] = shown[i]
    <3>1. \A i \in 1..Len(shown) :
            i + 1 \in 1..(1 + Len(shown)) /\ ~(i + 1 <= 1) /\ (i + 1) - 1 = i
      BY <1>1
    <3>2. QED
      BY <2>4, <3>1
  <2>7. \A i \in 2..Len(new) : i - 1 \in 1..Len(shown) /\ new[i] = shown[i - 1]
    <3>1. \A i \in 2..Len(new) :
            i - 1 \in 1..Len(shown) /\ i \in 1..(1 + Len(shown)) /\ ~(i <= 1)
      BY <1>1, <2>4
    <3>2. QED
      BY <2>4, <3>1
  <2>8. shown[1].key # NoKey
    BY <1>3 DEF Category
  <2>9. new[Len(new)] = shown[Len(shown)]
    <3>1. Len(new) \in 2..Len(new) /\ Len(new) - 1 = Len(shown)
      BY <1>1, <2>4
    <3>2. QED
      BY <2>7, <3>1
  <2>10. KeysOf(new) = KeysOf(shown)
    <3>1. ASSUME NEW k \in KeysOf(new)
          PROVE  k \in KeysOf(shown)
      <4>1. PICK i \in 1..Len(new) : new[i].key = k /\ k # NoKey
        BY DEF KeysOf
      <4>2. i # 1
        BY <2>2, <2>5, <4>1
      <4>3. i \in 2..Len(new)
        BY <1>1, <2>4, <4>2
      <4>4. QED
        BY <2>7, <4>1, <4>3 DEF KeysOf
    <3>2. ASSUME NEW k \in KeysOf(shown)
          PROVE  k \in KeysOf(new)
      <4>1. PICK i \in 1..Len(shown) : shown[i].key = k /\ k # NoKey
        BY DEF KeysOf
      <4>2. i + 1 \in 1..Len(new)
        BY <1>1, <2>4
      <4>3. QED
        BY <2>6, <4>1, <4>2 DEF KeysOf
    <3>3. QED
      BY <3>1, <3>2
  <2>11. Category(new[1]) = "noti"
    BY <2>2, <2>5 DEF Category
  <2>12. ASSUME \A i \in 2..Len(shown) : shown[i].key # NoKey
         PROVE  \A i \in 2..Len(new) : new[i].key # NoKey
    <3>1. \A i \in 1..Len(shown) : shown[i].key # NoKey
      BY <1>1, <2>8, <2>12
    <3>2. QED
      BY <2>7, <3>1
  <2>13. Len(new) \in Nat \ {0}
    BY <1>1, <2>4
  <2>14. QED
    BY <2>4, <2>9, <2>10, <2>11, <2>12, <2>13 DEF new
<1>4. QED
  BY <1>2, <1>3

(* The cursor taken after a page was appended is the page's last key.      *)
LEMMA LastKeyOfPage ==
  ASSUME NEW shown \in Seq(Row), NEW rows \in Seq(Row), rows # <<>>,
         \A i \in 1..Len(rows) : rows[i].key \in Keys
  PROVE  /\ ~LastKeyTraps(AppendList(shown, rows))
         /\ AppendList(shown, rows) # <<>>
         /\ LastKey(InsertOnce(AppendList(shown, rows))) \in KeysOf(rows)
         /\ LastKey(InsertOnce(AppendList(shown, rows))) \in Keys
<1> DEFINE all == AppendList(shown, rows)
<1>1. Len(rows) \in Nat \ {0} /\ Len(shown) \in Nat
  BY EmptySeq, LenProperties
<1>2. /\ all \in Seq(Row) /\ Len(all) = Len(shown) + Len(rows)
      /\ all[Len(shown) + Len(rows)] = rows[Len(rows)]
  <2>1. Len(rows) \in 1..Len(rows)
    BY <1>1
  <2>2. QED
    BY <2>1, AppendKeys
<1>3. all # <<>>
  BY <1>1, <1>2, EmptySeq
<1>4. rows[Len(rows)].key \in Keys /\ rows[Len(rows)].key # NoKey
  BY <1>1, KeysAboveFirst
<1>5. LastKey(InsertOnce(all)) = rows[Len(rows)].key
  <2> HIDE DEF all
  <2>1. InsertOnce(all)[Len(InsertOnce(all))] = all[Len(all)]
    BY <1>2, <1>3, InsertOnceKeys
  <2>2. QED
    BY <1>2, <1>4, <2>1 DEF LastKey
<1>6. rows[Len(rows)].key \in KeysOf(rows)
  BY <1>1, <1>4 DEF KeysOf
<1>7. QED
  BY <1>3, <1>4, <1>5, <1>6 DEF LastKeyTraps

-----------------------------------------------------------------------------
(* Type correctness.                                                       *)

LEMMA TypeInit == Init => TypeOK
<1> SUFFICES ASSUME Init PROVE TypeOK
  OBVIOUS
<1>1. <<>> \in Seq(Row)
  BY EmptySeq
<1>2. QED
  BY <1>1, SceneAssumption DEF Init, TypeOK, Cursor, SceneAssumption

(* The parts a request is made of keep their types when it is released.    *)
LEMMA TypeRelease ==
  ASSUME TypeOK, NEW r \in Requests, Release(r)
  PROVE  /\ phase' \in [Requests -> {"idle", "query", "page"}]
         /\ start' \in [Requests -> Cursor]
         /\ page' \in [Requests -> Seq(Row)]
         /\ downloads' \in [Requests -> SUBSET Download]
         /\ scheduled' \in [Requests -> Nat]
<1>1. <<>> \in Seq(Row) /\ FIRST_KEY \in Cursor /\ {} \in SUBSET Download /\ 0 \in Nat
  BY EmptySeq DEF Cursor
<1>2. QED
  BY <1>1 DEF TypeOK, Release

LEMMA TypeTrap ==
  ASSUME TypeOK, NEW reason \in {"removeFirst", "category", "index"}, Trap(reason)
  PROVE  TypeOK'
  BY DEF TypeOK, Trap, getListVars, sceneVars

LEMMA TypeGetList ==
  ASSUME TypeOK, NEW r \in Requests, GetList(r)
  PROVE  /\ phase' \in [Requests -> {"idle", "query", "page"}]
         /\ start' \in [Requests -> Cursor]
         /\ page' \in [Requests -> Seq(Row)]
         /\ downloads' \in [Requests -> SUBSET Download]
         /\ scheduled' \in [Requests -> Nat]
  BY DEF TypeOK, GetList

LEMMA TypeListSnapshot ==
  ASSUME TypeOK, NEW r \in Requests, ListSnapshot(r)
  PROVE  TypeOK'
<1> DEFINE Q == QueryPage(server, start[r], PAGE_SIZE)
<1>1. Q \in SUBSET Keys
  BY QueryPageInServer DEF TypeOK
<1>2. PICK children \in OrderedByKey(Q) :
        IF RemoveFirstTraps(children, start[r])
        THEN Trap("removeFirst")
        ELSE /\ MakeList(r, RemoveFirst(children, start[r]))
             /\ UNCHANGED <<server, sceneVars, viewLoaded, trap>>
  BY DEF ListSnapshot
<1>3. CASE RemoveFirstTraps(children, start[r])
  BY <1>2, <1>3, TypeTrap
<1>4. CASE ~RemoveFirstTraps(children, start[r])
  <2> DEFINE objs == RemoveFirst(children, start[r])
  <2>1. objs \in Seq(Keys)
    <3> HIDE DEF Q
    <3> QED BY <1>1, <1>4, RemoveFirstType
  <2>2. MakeList(r, objs) /\ UNCHANGED <<server, sceneVars, viewLoaded, trap>>
    BY <1>2, <1>4
  <2> HIDE DEF objs, Q
  <2>3. PICK rows \in InitWith(objs) :
          IF SetImageData(rows) = {} THEN Release(r)
          ELSE /\ phase' = [phase EXCEPT ![r] = "page"]
               /\ page' = [page EXCEPT ![r] = rows]
               /\ downloads' = [downloads EXCEPT ![r] = SetImageData(rows)]
               /\ UNCHANGED <<start, scheduled>>
    BY <2>2 DEF MakeList
  <2>4. rows \in Seq(Row) /\ SetImageData(rows) \in SUBSET Download
    BY <2>1, InitWithKeeps, SetImageDataType
  <2>5. CASE SetImageData(rows) = {}
    BY <2>2, <2>3, <2>5, TypeRelease DEF TypeOK, sceneVars
  <2>6. CASE SetImageData(rows) # {}
    BY <2>2, <2>3, <2>4, <2>6 DEF TypeOK, sceneVars
  <2>7. QED
    BY <2>5, <2>6
<1>5. QED
  BY <1>3, <1>4

LEMMA TypeImageData ==
  ASSUME TypeOK, NEW r \in Requests, NEW d \in downloads[r], NEW loaded \in BOOLEAN,
         ImageData(r, d, loaded)
  PROVE  TypeOK'
<1>1. d \in Download /\ page[r] \in Seq(Row)
  BY DEF TypeOK
<1>2. Update(page[r], d, loaded) \in Seq(Row)
  BY <1>1, UpdateKeepsKeys
<1>3. QED
  BY <1>1, <1>2 DEF TypeOK, ImageData, sceneVars, CancelPreviousAndPerform

(* A completion keeps the list a sequence of rows and takes a cursor.      *)
LEMMA TypeCompletion ==
  ASSUME TypeOK, NEW rows \in Seq(Row), Completion(rows),
         AppendList(list, rows) # <<>>
  PROVE  /\ list' \in Seq(Row) /\ lastKey' \in Cursor
         /\ getListDone' \in BOOLEAN /\ displayed' \in BOOLEAN /\ tableRows' \in Nat
<1> DEFINE presented == InsertOnce(AppendList(list, rows))
<1>1. presented \in Seq(Row) /\ Len(presented) \in Nat \ {0}
  BY AppendKeys, InsertOnceKeys DEF TypeOK
<1>2. presented[Len(presented)] \in Row
  <2> HIDE DEF presented
  <2>1. Len(presented) \in 1..Len(presented)
    BY <1>1
  <2>2. QED
    BY <1>1, <2>1, ElementOfSeq
<1>3. LastKey(presented) \in Cursor
  BY <1>2 DEF LastKey, Row, Cursor
<1>4. QED
  BY <1>1, <1>3 DEF Completion, Display

LEMMA TypeImageDownloadComplete ==
  ASSUME TypeOK, NEW r \in Requests, ImageDownloadComplete(r)
  PROVE  TypeOK'
<1> DEFINE appended == AppendList(list, page[r])
<1>1. CASE Trap("category") \/ Trap("index")
  BY <1>1, TypeTrap
<1>2. CASE ~(Trap("category") \/ Trap("index"))
  <2>1. /\ ~LastKeyTraps(appended)
        /\ Completion(page[r])
        /\ \/ Release(r)
           \/ /\ scheduled' = [scheduled EXCEPT ![r] = @ - 1]
              /\ UNCHANGED <<phase, start, page, downloads>>
        /\ UNCHANGED <<server, viewLoaded, trap>>
    BY <1>2 DEF ImageDownloadComplete
  <2>2. page[r] \in Seq(Row) /\ scheduled[r] > 0 /\ scheduled[r] \in Nat
    BY DEF TypeOK, ImageDownloadComplete
  <2>3. /\ list' \in Seq(Row) /\ lastKey' \in Cursor
        /\ getListDone' \in BOOLEAN /\ displayed' \in BOOLEAN /\ tableRows' \in Nat
    BY <2>1, <2>2, TypeCompletion DEF LastKeyTraps
  <2>4. CASE Release(r)
    BY <2>1, <2>3, <2>4, TypeRelease DEF TypeOK
  <2>5. CASE /\ scheduled' = [scheduled EXCEPT ![r] = @ - 1]
             /\ UNCHANGED <<phase, start, page, downloads>>
    <3>1. scheduled[r] - 1 \in Nat
      BY <2>2
    <3>2. QED
      BY <2>1, <2>3, <2>5, <3>1 DEF TypeOK
  <2>6. QED
    BY <2>1, <2>4, <2>5
<1>3. QED
  BY <1>1, <1>2

LEMMA TypeStep == TypeOK /\ [Next]_vars => TypeOK'
<1> SUFFICES ASSUME TypeOK, [Next]_vars PROVE TypeOK'
  OBVIOUS
<1>1. ASSUME NEW r \in Requests, ViewDidLoad(r) PROVE TypeOK'
  BY <1>1, TypeGetList DEF TypeOK, ViewDidLoad, sceneVars
<1>2. ASSUME NEW r \in Requests, ListSnapshot(r) PROVE TypeOK'
  BY <1>2, TypeListSnapshot
<1>3. ASSUME NEW r \in Requests, ListCancelled(r) PROVE TypeOK'
  BY <1>3, TypeRelease DEF TypeOK, ListCancelled, sceneVars
<1>4. ASSUME NEW r \in Requests, NEW d \in downloads[r], NEW loaded \in BOOLEAN,
             ImageData(r, d, loaded)
      PROVE  TypeOK'
  BY <1>4, TypeImageData
<1>5. ASSUME NEW r \in Requests, ImageDownloadComplete(r) PROVE TypeOK'
  BY <1>5, TypeImageDownloadComplete
<1>6. ASSUME NEW r \in Requests, NEW visibleRow \in 0..(tableRows - 1),
             NextPage(r, visibleRow)
      PROVE  TypeOK'
  BY <1>6, TypeGetList DEF TypeOK, NextPage
<1>7. ASSUME NEW k \in Keys, Publish(k) PROVE TypeOK'
  BY <1>7 DEF TypeOK, Publish, getListVars, sceneVars
<1>8. ASSUME NEW k \in Keys, Remove(k) PROVE TypeOK'
  BY <1>8 DEF TypeOK, Remove, getListVars, sceneVars
<1>9. CASE UNCHANGED vars
  BY <1>9 DEF TypeOK, vars, getListVars, sceneVars
<1>10. QED
  BY <1>1, <1>2, <1>3, <1>4, <1>5, <1>6, <1>7, <1>8, <1>9 DEF Next, Scroll

(* Every variable of the scene keeps to its values, in every behaviour.    *)
THEOREM TypeCorrect == Spec => []TypeOK
  BY TypeInit, TypeStep, PTL DEF Spec

-----------------------------------------------------------------------------
(* Requests hold rows, downloads and performs only while they are a page.  *)

LEMMA PagesInit == Init => PagesHaveRows
  BY EmptySeq DEF Init, PagesHaveRows

LEMMA PagesRelease ==
  ASSUME TypeOK, PagesHaveRows, NEW r \in Requests, Release(r)
  PROVE  PagesHaveRows'
<1>1. Len(<<>>) = 0
  OBVIOUS
<1>2. \A q \in Requests : q # r => /\ phase'[q] = phase[q] /\ page'[q] = page[q]
                                   /\ downloads'[q] = downloads[q]
                                   /\ scheduled'[q] = scheduled[q]
  BY DEF TypeOK, Release
<1>3. phase'[r] = "idle" /\ page'[r] = <<>> /\ downloads'[r] = {} /\ scheduled'[r] = 0
  BY DEF TypeOK, Release
<1>4. QED
  BY <1>1, <1>2, <1>3 DEF PagesHaveRows

LEMMA PagesGetList ==
  ASSUME TypeOK, PagesHaveRows, NEW r \in Requests, GetList(r)
  PROVE  PagesHaveRows'
<1>1. phase[r] = "idle"
  BY DEF GetList
<1>2. \A q \in Requests : phase'[q] = IF q = r THEN "query" ELSE phase[q]
  BY DEF TypeOK, GetList
<1>3. UNCHANGED <<page, downloads, scheduled>>
  BY DEF GetList
<1>4. QED
  BY <1>1, <1>2, <1>3 DEF PagesHaveRows

(* What a snapshot that does not trap does: the query's list is over, or   *)
(* becomes a page of decodable entries that were not shown as its cursor.  *)
LEMMA SnapshotMakesPage ==
  ASSUME TypeOK, PagesHaveRows, NEW r \in Requests, ListSnapshot(r),
         ~Trap("removeFirst")
  PROVE  /\ UNCHANGED <<server, sceneVars, viewLoaded, trap>>
         /\ phase[r] = "query"
         /\ \/ Release(r)
            \/ \E children \in OrderedByKey(QueryPage(server, start[r], PAGE_SIZE)) :
                 /\ ~RemoveFirstTraps(children, start[r])
                 /\ RemoveFirst(children, start[r]) \in Seq(Keys)
                 /\ \E rows \in InitWith(RemoveFirst(children, start[r])) :
                      /\ rows \in Seq(Row) /\ rows # <<>>
                      /\ \A i \in 1..Len(rows) : rows[i].key \in Keys
                      /\ phase' = [phase EXCEPT ![r] = "page"]
                      /\ page' = [page EXCEPT ![r] = rows]
                      /\ downloads' = [downloads EXCEPT ![r] = SetImageData(rows)]
                      /\ UNCHANGED <<start, scheduled>>
<1> DEFINE Q == QueryPage(server, start[r], PAGE_SIZE)
<1>1. Q \in SUBSET Keys
  BY QueryPageInServer DEF TypeOK
<1>2. PICK children \in OrderedByKey(Q) :
        /\ ~RemoveFirstTraps(children, start[r])
        /\ MakeList(r, RemoveFirst(children, start[r]))
        /\ UNCHANGED <<server, sceneVars, viewLoaded, trap>>
  BY DEF ListSnapshot
<1> DEFINE objs == RemoveFirst(children, start[r])
<1>3. objs \in Seq(Keys)
  <2> HIDE DEF Q
  <2> QED BY <1>1, <1>2, RemoveFirstType
<1>4. PICK rows \in InitWith(objs) :
        IF SetImageData(rows) = {} THEN Release(r)
        ELSE /\ phase' = [phase EXCEPT ![r] = "page"]
             /\ page' = [page EXCEPT ![r] = rows]
             /\ downloads' = [downloads EXCEPT ![r] = SetImageData(rows)]
             /\ UNCHANGED <<start, scheduled>>
  BY <1>2 DEF MakeList
<1>5. /\ rows \in Seq(Row)
      /\ \A i \in 1..Len(rows) : rows[i].key \in Keys
      /\ SetImageData(rows) # {} => rows # <<>>
  <2> HIDE DEF objs
  <2>1. rows \in Seq(Row) /\ \A i \in 1..Len(rows) : rows[i].key \in Keys
    BY <1>3, InitWithKeeps
  <2>2. QED
    BY <2>1, SetImageDataType
<1>6. phase[r] = "query"
  BY DEF ListSnapshot
<1>7. CASE SetImageData(rows) = {}
  BY <1>2, <1>4, <1>6, <1>7
<1>8. CASE SetImageData(rows) # {}
  BY <1>2, <1>3, <1>4, <1>5, <1>6, <1>8
<1>9. QED
  BY <1>7, <1>8

LEMMA PagesListSnapshot ==
  ASSUME TypeOK, PagesHaveRows, NEW r \in Requests, ListSnapshot(r)
  PROVE  PagesHaveRows'
<1>1. CASE Trap("removeFirst")
  BY <1>1 DEF PagesHaveRows, Trap, getListVars
<1>2. CASE ~Trap("removeFirst") /\ Release(r)
  BY <1>2, PagesRelease
<1>3. CASE ~Trap("removeFirst") /\ ~Release(r)
  <2>1. PICK rows \in Seq(Row) :
          /\ rows # <<>>
          /\ \A i \in 1..Len(rows) : rows[i].key \in Keys
          /\ phase' = [phase EXCEPT ![r] = "page"]
          /\ page' = [page EXCEPT ![r] = rows]
          /\ downloads' = [downloads EXCEPT ![r] = SetImageData(rows)]
          /\ UNCHANGED <<start, scheduled>>
    BY <1>3, SnapshotMakesPage
  <2>2. \A q \in Requests : q # r => /\ phase'[q] = phase[q] /\ page'[q] = page[q]
                                     /\ downloads'[q] = downloads[q]
                                     /\ scheduled'[q] = scheduled[q]
    BY <2>1 DEF TypeOK
  <2>3. phase'[r] = "page" /\ page'[r] = rows
    BY <2>1 DEF TypeOK
  <2>4. QED
    BY <2>1, <2>2, <2>3 DEF PagesHaveRows
<1>4. QED
  BY <1>1, <1>2, <1>3

(* A download's callback leaves its page's keys alone.                     *)
LEMMA ImageDataKeepsPages ==
  ASSUME TypeOK, NEW r \in Requests, NEW d \in downloads[r], NEW loaded \in BOOLEAN,
         ImageData(r, d, loaded)
  PROVE  \A q \in Requests :
           /\ Len(page'[q]) = Len(page[q])
           /\ \A i \in 1..Len(page[q]) : page'[q][i].key = page[q][i].key
<1>1. d \in Download /\ page[r] \in Seq(Row)
  BY DEF TypeOK
<1>2. page' = [page EXCEPT ![r] = Update(page[r], d, loaded)]
  BY DEF ImageData
<1>3. \A q \in Requests : page'[q] = IF q = r THEN Update(page[r], d, loaded) ELSE page[q]
  BY <1>2 DEF TypeOK
<1>4. QED
  BY <1>1, <1>3, UpdateKeepsKeys

LEMMA PagesImageData ==
  ASSUME TypeOK, PagesHaveRows, NEW r \in Requests, NEW d \in downloads[r],
         NEW loaded \in BOOLEAN, ImageData(r, d, loaded)
  PROVE  PagesHaveRows'
<1>1. phase[r] = "page" /\ phase' = phase
  BY DEF PagesHaveRows, ImageData
<1>2. \A q \in Requests : q # r => /\ downloads'[q] = downloads[q]
                                   /\ scheduled'[q] = scheduled[q]
  BY DEF TypeOK, ImageData
<1>3. \A q \in Requests : page[q] = <<>> <=> page'[q] = <<>>
  <2>1. \A q \in Requests : page[q] \in Seq(Row) /\ page'[q] \in Seq(Row)
    BY TypeImageData DEF TypeOK
  <2>2. \A q \in Requests : Len(page'[q]) = Len(page[q])
    BY ImageDataKeepsPages
  <2>3. \A q \in Requests : /\ page[q] = <<>> <=> Len(page[q]) = 0
                            /\ page'[q] = <<>> <=> Len(page'[q]) = 0
    BY <2>1, EmptySeq
  <2>4. QED
    BY <2>2, <2>3
<1>4. \A q \in Requests : \A i \in 1..Len(page'[q]) : page'[q][i].key \in Keys
  BY ImageDataKeepsPages DEF PagesHaveRows
<1>5. QED
  BY <1>1, <1>2, <1>3, <1>4 DEF PagesHaveRows

(* What the delayed perform does: a trap, or the completion of a page that *)
(* has rows, after which the request is over or waits for more images.     *)
LEMMA PerformCompletesPage ==
  ASSUME TypeOK, PagesHaveRows, NEW r \in Requests, ImageDownloadComplete(r)
  PROVE  /\ page[r] \in Seq(Row) /\ page[r] # <<>>
         /\ \A i \in 1..Len(page[r]) : page[r][i].key \in Keys
         /\ \/ Trap("category") /\ InsertTraps(AppendList(list, page[r]))
            \/ /\ Completion(page[r])
               /\ \/ Release(r)
                  \/ /\ scheduled' = [scheduled EXCEPT ![r] = @ - 1]
                     /\ UNCHANGED <<phase, start, page, downloads>>
               /\ UNCHANGED <<server, viewLoaded, trap>>
<1>1. scheduled[r] > 0 /\ scheduled[r] \in Nat
  BY DEF TypeOK, ImageDownloadComplete
<1>2. phase[r] = "page"
  BY <1>1 DEF PagesHaveRows
<1>3. /\ page[r] \in Seq(Row) /\ page[r] # <<>>
      /\ \A i \in 1..Len(page[r]) : page[r][i].key \in Keys
  BY <1>2 DEF TypeOK, PagesHaveRows
<1>4. ~LastKeyTraps(AppendList(list, page[r]))
  BY <1>3, LastKeyOfPage DEF TypeOK
<1>5. QED
  BY <1>3, <1>4 DEF ImageDownloadComplete

LEMMA PagesImageDownloadComplete ==
  ASSUME TypeOK, PagesHaveRows, NEW r \in Requests, ImageDownloadComplete(r)
  PROVE  PagesHaveRows'
<1>1. CASE Trap("category")
  BY <1>1 DEF PagesHaveRows, Trap, getListVars
<1>2. CASE Release(r)
  BY <1>2, PagesRelease
<1>3. CASE /\ scheduled' = [scheduled EXCEPT ![r] = @ - 1]
           /\ UNCHANGED <<phase, start, page, downloads>>
  <2>1. phase[r] = "page"
    BY DEF PagesHaveRows, TypeOK, ImageDownloadComplete
  <2>2. \A q \in Requests : q # r => scheduled'[q] = scheduled[q]
    BY <1>3 DEF TypeOK
  <2>3. QED
    BY <1>3, <2>1, <2>2 DEF PagesHaveRows
<1>4. QED
  BY <1>1, <1>2, <1>3, PerformCompletesPage

LEMMA PagesStep == TypeOK /\ PagesHaveRows /\ [Next]_vars => PagesHaveRows'
<1> SUFFICES ASSUME TypeOK, PagesHaveRows, [Next]_vars PROVE PagesHaveRows'
  OBVIOUS
<1>1. ASSUME NEW r \in Requests, ViewDidLoad(r) PROVE PagesHaveRows'
  BY <1>1, PagesGetList DEF ViewDidLoad
<1>2. ASSUME NEW r \in Requests, ListSnapshot(r) PROVE PagesHaveRows'
  BY <1>2, PagesListSnapshot
<1>3. ASSUME NEW r \in Requests, ListCancelled(r) PROVE PagesHaveRows'
  BY <1>3, PagesRelease DEF ListCancelled
<1>4. ASSUME NEW r \in Requests, NEW d \in downloads[r], NEW loaded \in BOOLEAN,
             ImageData(r, d, loaded)
      PROVE  PagesHaveRows'
  BY <1>4, PagesImageData
<1>5. ASSUME NEW r \in Requests, ImageDownloadComplete(r) PROVE PagesHaveRows'
  BY <1>5, PagesImageDownloadComplete
<1>6. ASSUME NEW r \in Requests, NEW visibleRow \in 0..(tableRows - 1),
             NextPage(r, visibleRow)
      PROVE  PagesHaveRows'
  BY <1>6, PagesGetList DEF NextPage
<1>7. ASSUME NEW k \in Keys, Publish(k) \/ Remove(k) PROVE PagesHaveRows'
  BY <1>7 DEF PagesHaveRows, Publish, Remove, getListVars
<1>8. CASE UNCHANGED vars
  BY <1>8 DEF PagesHaveRows, vars, getListVars
<1>9. QED
  BY <1>1, <1>2, <1>3, <1>4, <1>5, <1>6, <1>7, <1>8 DEF Next, Scroll

-----------------------------------------------------------------------------
(* The subscript [-1] and the notification row.                            *)

(* Only completions change the list and the cursor.                        *)
LEMMA ListChanges ==
  ASSUME TypeOK, PagesHaveRows, [Next]_vars
  PROVE  \/ UNCHANGED <<list, lastKey>>
         \/ \E r \in Requests : ImageDownloadComplete(r) /\ Completion(page[r])
<1>1. ASSUME NEW r \in Requests, ListSnapshot(r)
      PROVE  UNCHANGED <<list, lastKey>>
  BY <1>1, SnapshotMakesPage DEF Trap, sceneVars
<1>2. ASSUME NEW r \in Requests, ImageDownloadComplete(r)
      PROVE  UNCHANGED <<list, lastKey>> \/ Completion(page[r])
  BY <1>2, PerformCompletesPage DEF Trap, sceneVars
<1>3. QED
  BY <1>1, <1>2 DEF Next, Scroll, vars, sceneVars, ViewDidLoad, ListCancelled,
                    ImageData, NextPage, Publish, Remove

(* Of the traps, only two can be taken.                                    *)
LEMMA TrapChanges ==
  ASSUME TypeOK, PagesHaveRows, [Next]_vars
  PROVE  \/ trap' = trap
         \/ \E r \in Requests : ListSnapshot(r) /\ Trap("removeFirst")
         \/ \E r \in Requests : /\ ImageDownloadComplete(r) /\ Trap("category")
                                /\ InsertTraps(AppendList(list, page[r]))
<1>1. ASSUME NEW r \in Requests, ListSnapshot(r)
      PROVE  trap' = trap \/ Trap("removeFirst")
  BY <1>1, SnapshotMakesPage
<1>2. ASSUME NEW r \in Requests, ImageDownloadComplete(r)
      PROVE  \/ trap' = trap
             \/ Trap("category") /\ InsertTraps(AppendList(list, page[r]))
  BY <1>2, PerformCompletesPage
<1>3. QED
  BY <1>1, <1>2 DEF Next, Scroll, vars, ViewDidLoad, ListCancelled, ImageData,
                    NextPage, Publish, Remove

(* A completion always has a row to take the cursor from: the subscript    *)
(* [-1] of object(indexOf:) is never evaluated, even with entries removed  *)
(* from the database, failing downloads and cancelled queries.             *)
THEOREM IndexNeverTraps == Spec => []NoIndexTrap
<1>1. Init => NoIndexTrap
  BY DEF Init, NoIndexTrap
<1>2. TypeOK /\ PagesHaveRows /\ NoIndexTrap /\ [Next]_vars => NoIndexTrap'
  BY TrapChanges DEF NoIndexTrap, Trap
<1>3. QED
  BY <1>1, <1>2, TypeInit, TypeStep, PagesInit, PagesStep, PTL DEF Spec

LEMMA HeaderCompletion ==
  ASSUME TypeOK, OneHeader, NEW rows \in Seq(Row), rows # <<>>,
         \A i \in 1..Len(rows) : rows[i].key \in Keys,
         Completion(rows)
  PROVE  OneHeader'
<1> DEFINE appended == AppendList(list, rows)
<1>1. list \in Seq(Row) /\ Len(list) \in Nat /\ Len(rows) \in Nat
  BY LenProperties DEF TypeOK
<1>2. appended \in Seq(Row) /\ appended # <<>> /\ Len(appended) = Len(list) + Len(rows)
  BY <1>1, AppendKeys, LastKeyOfPage
<1>3. \A i \in 2..Len(appended) : appended[i].key # NoKey
  <2> SUFFICES ASSUME NEW i \in 2..Len(appended) PROVE appended[i].key # NoKey
    OBVIOUS
  <2>1. CASE i <= Len(list)
    <3>1. list # <<>> /\ i \in 2..Len(list) /\ i \in 1..Len(list)
      BY <1>1, <1>2, <2>1, EmptySeq
    <3>2. appended[i] = list[i]
      BY <1>1, <3>1, AppendKeys
    <3>3. QED
      BY <3>1, <3>2 DEF OneHeader
  <2>2. CASE ~(i <= Len(list))
    <3>1. i - Len(list) \in 1..Len(rows) /\ Len(list) + (i - Len(list)) = i
      BY <1>1, <1>2, <2>2
    <3>2. appended[i] = rows[i - Len(list)]
      BY <1>1, <3>1, AppendKeys
    <3>3. QED
      BY <3>1, <3>2, KeysAboveFirst
  <2>3. QED
    BY <2>1, <2>2
<1>4. list' = InsertOnce(appended)
  BY DEF Completion, Display
<1>5. QED
  <2> HIDE DEF appended
  <2> QED BY <1>2, <1>3, <1>4, InsertOnceKeys DEF OneHeader, Category

(* However often pages complete, and in whatever order, the list starts    *)
(* with a notification row and has no keyless row anywhere else.           *)
THEOREM HeaderIsUnique == Spec => []OneHeader
<1>1. Init => OneHeader
  BY DEF Init, OneHeader
<1>2. ASSUME TypeOK, PagesHaveRows, OneHeader, [Next]_vars
      PROVE  OneHeader'
  <2>1. CASE UNCHANGED <<list, lastKey>>
    BY <1>2, <2>1 DEF OneHeader, Category
  <2>2. ASSUME NEW r \in Requests, ImageDownloadComplete(r), Completion(page[r])
        PROVE  OneHeader'
    BY <1>2, <2>2, PerformCompletesPage, HeaderCompletion
  <2>3. QED
    BY <1>2, <2>1, <2>2, ListChanges
<1>3. QED
  BY <1>1, <1>2, TypeInit, TypeStep, PagesInit, PagesStep, PTL DEF Spec

-----------------------------------------------------------------------------
(* No entry is passed over, while none is removed.                         *)

LEMMA NoRowsNoKeys == KeysOf(<<>>) = {}
  BY EmptySeq DEF KeysOf

LEMMA CompletionKeys ==
  ASSUME TypeOK, PagesHaveRows, NEW r \in Requests,
         ImageDownloadComplete(r), Completion(page[r])
  PROVE  /\ KeysOf(list') = KeysOf(list) \cup KeysOf(page[r])
         /\ lastKey' \in KeysOf(page[r])
<1> DEFINE appended == AppendList(list, page[r])
<1>1. /\ page[r] \in Seq(Row) /\ page[r] # <<>> /\ list \in Seq(Row)
      /\ \A i \in 1..Len(page[r]) : page[r][i].key \in Keys
  BY PerformCompletesPage DEF TypeOK
<1>2. /\ appended \in Seq(Row) /\ appended # <<>>
      /\ KeysOf(appended) = KeysOf(list) \cup KeysOf(page[r])
  BY <1>1, AppendKeys, LastKeyOfPage
<1>3. list' = InsertOnce(appended) /\ lastKey' = LastKey(InsertOnce(appended))
  BY DEF Completion, Display
<1>4. LastKey(InsertOnce(appended)) \in KeysOf(page[r])
  BY <1>1, LastKeyOfPage
<1>5. KeysOf(InsertOnce(appended)) = KeysOf(appended)
  <2> HIDE DEF appended
  <2> QED BY <1>2, InsertOnceKeys
<1>6. QED
  BY <1>2, <1>3, <1>4, <1>5

(* The keys of the pages, and where they started, change as the request's  *)
(* list is built or released, and at no other time.                        *)
LEMMA ReleaseKeys ==
  ASSUME TypeOK, NEW r \in Requests, Release(r)
  PROVE  \A q \in Requests : /\ KeysOf(page'[q]) = IF q = r THEN {} ELSE KeysOf(page[q])
                             /\ start'[q] = IF q = r THEN FIRST_KEY ELSE start[q]
  BY NoRowsNoKeys DEF TypeOK, Release

LEMMA ImageDataKeys ==
  ASSUME TypeOK, NEW r \in Requests, NEW d \in downloads[r], NEW loaded \in BOOLEAN,
         ImageData(r, d, loaded)
  PROVE  \A q \in Requests : KeysOf(page'[q]) = KeysOf(page[q])
<1> SUFFICES ASSUME NEW q \in Requests PROVE KeysOf(page'[q]) = KeysOf(page[q])
  OBVIOUS
<1>1. /\ Len(page'[q]) = Len(page[q])
      /\ \A i \in 1..Len(page[q]) : page'[q][i].key = page[q][i].key
  BY ImageDataKeepsPages
<1>2. {page'[q][i].key : i \in 1..Len(page'[q])} = {page[q][i].key : i \in 1..Len(page[q])}
  BY <1>1
<1>3. QED
  BY <1>2 DEF KeysOf

(* A page built on a cursor that is in the database is a gapless stretch   *)
(* of the displayable entries after it.                                    *)
LEMMA NewPageHasNoGap ==
  ASSUME TypeOK, NEW lo \in {FIRST_KEY} \cup server,
         NEW children \in OrderedByKey(QueryPage(server, lo, PAGE_SIZE)),
         NEW rows \in InitWith(RemoveFirst(children, lo))
  PROVE  /\ KeysOf(rows) \subseteq server
         /\ \A p \in KeysOf(rows) : \A k \in server :
              DisplayTypeOf[k] # "nil" /\ lo < k /\ k < p => k \in KeysOf(rows)
<1> DEFINE Q == QueryPage(server, lo, PAGE_SIZE)
           objs == RemoveFirst(children, lo)
<1>1. server \in SUBSET Keys /\ lo \in Cursor /\ PAGE_SIZE \in Nat
  BY ModelAssumption DEF TypeOK, Cursor, ModelAssumption
<1>2. objs \in Seq(Keys) /\ {objs[i] : i \in 1..Len(objs)} = {k \in Q : k # lo}
  BY <1>1, RemoveFirstDropsCursor
<1>3. KeysOf(rows) = {k \in {objs[i] : i \in 1..Len(objs)} : DisplayTypeOf[k] # "nil"}
  <2> HIDE DEF objs
  <2> QED BY <1>2, InitWithKeeps DEF objs
<1>4. KeysOf(rows) = {k \in Q : k # lo /\ DisplayTypeOf[k] # "nil"}
  <2> HIDE DEF objs, Q
  <2> QED BY <1>2, <1>3
<1>5. Q \subseteq server
  BY <1>1, QueryPageInServer
<1>6. ASSUME NEW p \in KeysOf(rows), NEW k \in server,
             DisplayTypeOf[k] # "nil", lo < k, k < p
      PROVE  k \in KeysOf(rows)
  <2>1. p \in Q /\ k \in Int /\ lo \in Int
    BY <1>1, <1>4, KeysAboveFirst DEF FIRST_KEY
  <2>2. lo <= k /\ k # lo
    BY <1>6, <2>1
  <2>3. k \in Q
    BY <1>1, <1>6, <2>1, <2>2, QueryPageHasNoGap
  <2>4. QED
    BY <1>4, <1>6, <2>2, <2>3
<1>7. QED
  BY <1>4, <1>5, <1>6

(* FeedInv is about the database, the keys of the list and of the pages,   *)
(* the cursor and the cursors of the requests: this is all of it that a    *)
(* step must preserve, next to PagesHaveRows.                              *)
KeyInv == RowsInServer /\ CursorsShown /\ PagesHaveNoGap /\ NoGap

LEMMA KeyInvUnchanged ==
  ASSUME KeyInv, UNCHANGED <<server, list, lastKey>>,
         \A q \in Requests : /\ KeysOf(page'[q]) = KeysOf(page[q])
                             /\ start'[q] = start[q]
  PROVE  KeyInv'
<1>1. KeysOf(list') = KeysOf(list)
  OBVIOUS
<1>2. QED
  BY <1>1 DEF KeyInv, RowsInServer, CursorsShown, PagesHaveNoGap, NoGap

LEMMA KeyInvRelease ==
  ASSUME TypeOK, KeyInv, NEW r \in Requests, Release(r),
         UNCHANGED <<server, list, lastKey>>
  PROVE  KeyInv'
<1>1. KeysOf(list') = KeysOf(list)
  OBVIOUS
<1>2. QED
  BY <1>1, ReleaseKeys DEF KeyInv, RowsInServer, CursorsShown, PagesHaveNoGap, NoGap

LEMMA KeyInvGetList ==
  ASSUME TypeOK, PagesHaveRows, KeyInv, NEW r \in Requests, GetList(r),
         UNCHANGED <<server, list, lastKey>>
  PROVE  KeyInv'
<1>1. KeysOf(list') = KeysOf(list) /\ page' = page
  BY DEF GetList
<1>2. \A q \in Requests : start'[q] = IF q = r THEN lastKey ELSE start[q]
  BY DEF TypeOK, GetList
<1>3. KeysOf(page[r]) = {}
  BY NoRowsNoKeys DEF GetList, PagesHaveRows
<1>4. RowsInServer'
  BY <1>1 DEF KeyInv, RowsInServer
<1>5. CursorsShown'
  BY <1>1, <1>2 DEF KeyInv, CursorsShown
<1>6. PagesHaveNoGap'
  BY <1>1, <1>2, <1>3 DEF KeyInv, PagesHaveNoGap
<1>7. NoGap'
  BY <1>1 DEF KeyInv, NoGap
<1>8. QED
  BY <1>4, <1>5, <1>6, <1>7 DEF KeyInv

LEMMA KeyInvListSnapshot ==
  ASSUME TypeOK, PagesHaveRows, KeyInv, NEW r \in Requests, ListSnapshot(r)
  PROVE  KeyInv'
<1>1. CASE Trap("removeFirst")
  BY <1>1, KeyInvUnchanged DEF Trap, getListVars, sceneVars
<1>2. CASE ~Trap("removeFirst") /\ Release(r)
  BY <1>2, SnapshotMakesPage, KeyInvRelease DEF sceneVars
<1>3. CASE ~Trap("removeFirst") /\ ~Release(r)
  <2>1. UNCHANGED <<server, list, lastKey>>
    BY <1>3, SnapshotMakesPage DEF sceneVars
  <2>2. PICK children \in OrderedByKey(QueryPage(server, start[r], PAGE_SIZE)) :
          \E rows \in InitWith(RemoveFirst(children, start[r])) :
            page' = [page EXCEPT ![r] = rows] /\ UNCHANGED start
    BY <1>3, SnapshotMakesPage
  <2>3. PICK rows \in InitWith(RemoveFirst(children, start[r])) :
          page' = [page EXCEPT ![r] = rows] /\ UNCHANGED start
    BY <2>2
  <2>4. \A q \in Requests : page'[q] = IF q = r THEN rows ELSE page[q]
    BY <2>3 DEF TypeOK
  <2>5. start[r] \in {FIRST_KEY} \cup server
    BY DEF KeyInv, CursorsShown, RowsInServer
  <2>6. /\ KeysOf(rows) \subseteq server
        /\ \A p \in KeysOf(rows) : \A k \in server :
             DisplayTypeOf[k] # "nil" /\ start[r] < k /\ k < p => k \in KeysOf(rows)
    BY <2>5, NewPageHasNoGap
  <2>7. RowsInServer'
    BY <2>1, <2>4, <2>6 DEF KeyInv, RowsInServer
  <2>8. CursorsShown'
    BY <2>1, <2>3 DEF KeyInv, CursorsShown
  <2>9. PagesHaveNoGap'
    BY <2>1, <2>3, <2>4, <2>6 DEF KeyInv, PagesHaveNoGap
  <2>10. NoGap'
    BY <2>1 DEF KeyInv, NoGap
  <2>11. QED
    BY <2>7, <2>8, <2>9, <2>10 DEF KeyInv
<1>4. QED
  BY <1>1, <1>2, <1>3

LEMMA KeyInvImageDownloadComplete ==
  ASSUME TypeOK, PagesHaveRows, KeyInv, NEW r \in Requests, ImageDownloadComplete(r)
  PROVE  KeyInv'
<1>1. CASE Trap("category")
  BY <1>1, KeyInvUnchanged DEF Trap, getListVars, sceneVars
<1>2. CASE ~Trap("category")
  <2>1. /\ Completion(page[r]) /\ UNCHANGED server
        /\ Release(r) \/ UNCHANGED <<start, page>>
    BY <1>2, PerformCompletesPage
  <2>2. /\ KeysOf(list') = KeysOf(list) \cup KeysOf(page[r])
        /\ lastKey' \in KeysOf(page[r])
    BY <2>1, CompletionKeys
  <2>3. \A q \in Requests :
          \/ KeysOf(page'[q]) = KeysOf(page[q]) /\ start'[q] = start[q]
          \/ KeysOf(page'[q]) = {} /\ start'[q] = FIRST_KEY
    BY <2>1, ReleaseKeys
  <2>4. RowsInServer'
    BY <2>1, <2>2, <2>3 DEF KeyInv, RowsInServer
  <2>5. CursorsShown'
    BY <2>2, <2>3 DEF KeyInv, CursorsShown
  <2>6. PagesHaveNoGap'
    BY <2>1, <2>3 DEF KeyInv, PagesHaveNoGap
  <2>7. NoGap'
    <3> SUFFICES ASSUME NEW shown \in KeysOf(list'), NEW k \in server,
                        DisplayTypeOf[k] # "nil", k < shown
                 PROVE  k \in KeysOf(list')
      BY <2>1 DEF NoGap
    <3>1. CASE shown \in KeysOf(list)
      BY <2>2, <3>1 DEF KeyInv, NoGap
    <3>2. CASE shown \in KeysOf(page[r]) /\ start[r] < k
      BY <2>2, <3>2 DEF KeyInv, PagesHaveNoGap
    <3>3. CASE shown \in KeysOf(page[r]) /\ ~(start[r] < k)
      <4>1. k \in Keys /\ k \in Int /\ k > 1
        BY KeysAboveFirst DEF TypeOK
      <4>2. start[r] # FIRST_KEY
        BY <3>3, <4>1 DEF FIRST_KEY
      <4>3. start[r] \in KeysOf(list) /\ start[r] \in Int
        BY <4>2, KeysAboveFirst DEF KeyInv, CursorsShown, RowsInServer, TypeOK
      <4>4. k = start[r] \/ k < start[r]
        BY <3>3, <4>1, <4>3
      <4>5. QED
        BY <2>2, <4>3, <4>4 DEF KeyInv, NoGap
    <3>4. QED
      BY <2>2, <3>1, <3>2, <3>3
  <2>8. QED
    BY <2>4, <2>5, <2>6, <2>7 DEF KeyInv
<1>3. QED
  BY <1>1, <1>2

(* A new entry comes after all the shown ones, so it leaves no gap.        *)
LEMMA KeyInvPublish ==
  ASSUME TypeOK, KeyInv, NEW new \in Keys, Publish(new)
  PROVE  KeyInv'
<1>1. /\ server' = server \cup {new} /\ \A j \in server : j < new
      /\ UNCHANGED <<list, lastKey, page, start>>
  BY DEF Publish, getListVars, sceneVars
<1>2. ASSUME NEW shown \in server PROVE ~(new < shown)
  <2>1. shown < new /\ shown \in Int /\ new \in Int
    BY <1>1, KeysAboveFirst DEF TypeOK
  <2>2. QED
    BY <2>1
<1>3. RowsInServer' /\ CursorsShown'
  BY <1>1 DEF KeyInv, RowsInServer, CursorsShown
<1>4. PagesHaveNoGap'
  BY <1>1, <1>2 DEF KeyInv, RowsInServer, PagesHaveNoGap
<1>5. NoGap'
  BY <1>1, <1>2 DEF KeyInv, RowsInServer, NoGap
<1>6. QED
  BY <1>3, <1>4, <1>5 DEF KeyInv

LEMMA KeyInvStep ==
  ASSUME Removable = {}, TypeOK, PagesHaveRows, KeyInv, [Next]_vars
  PROVE  KeyInv'
<1>1. ASSUME NEW r \in Requests, ViewDidLoad(r) PROVE KeyInv'
  BY <1>1, KeyInvGetList DEF ViewDidLoad, sceneVars
<1>2. ASSUME NEW r \in Requests, ListSnapshot(r) PROVE KeyInv'
  BY <1>2, KeyInvListSnapshot
<1>3. ASSUME NEW r \in Requests, ListCancelled(r) PROVE KeyInv'
  BY <1>3, KeyInvRelease DEF ListCancelled, sceneVars
<1>4. ASSUME NEW r \in Requests, NEW d \in downloads[r], NEW loaded \in BOOLEAN,
             ImageData(r, d, loaded)
      PROVE  KeyInv'
  BY <1>4, ImageDataKeys, KeyInvUnchanged DEF ImageData, sceneVars
<1>5. ASSUME NEW r \in Requests, ImageDownloadComplete(r) PROVE KeyInv'
  BY <1>5, KeyInvImageDownloadComplete
<1>6. ASSUME NEW r \in Requests, NEW visibleRow \in 0..(tableRows - 1),
             NextPage(r, visibleRow)
      PROVE  KeyInv'
  BY <1>6, KeyInvGetList DEF NextPage
<1>7. ASSUME NEW k \in Keys, Publish(k) PROVE KeyInv'
  BY <1>7, KeyInvPublish
<1>8. ASSUME NEW k \in Keys, Remove(k) PROVE KeyInv'
  BY <1>8 DEF Remove
<1>9. CASE UNCHANGED vars
  BY <1>9, KeyInvUnchanged DEF vars, getListVars, sceneVars
<1>10. QED
  BY <1>1, <1>2, <1>3, <1>4, <1>5, <1>6, <1>7, <1>8, <1>9 DEF Next, Scroll

LEMMA KeyInvInit == Init => KeyInv
<1> SUFFICES ASSUME Init PROVE KeyInv
  OBVIOUS
<1>1. KeysOf(list) = {} /\ \A r \in Requests : KeysOf(page[r]) = {}
  BY NoRowsNoKeys DEF Init
<1>2. QED
  BY <1>1 DEF Init, KeyInv, RowsInServer, CursorsShown, PagesHaveNoGap, NoGap

(* The feed's inductive invariant holds as long as nothing is removed from *)
(* the database: whatever page completes when, and again, it is appended   *)
(* to a list that covers everything up to that page's cursor.              *)
THEOREM FeedInvariant ==
  ASSUME Removable = {}
  PROVE  Spec => []FeedInv
<1>1. TypeOK /\ PagesHaveRows /\ KeyInv /\ [Next]_vars => KeyInv'
  BY KeyInvStep
<1>2. PagesHaveRows /\ KeyInv => FeedInv
  BY DEF KeyInv, FeedInv
<1>3. QED
  BY <1>1, <1>2, TypeInit, TypeStep, PagesInit, PagesStep, KeyInvInit, PTL DEF Spec

(* Every displayable entry of the database that precedes a shown one is    *)
(* shown, whichever page completes first, again, or after a later one.     *)
THEOREM FeedHasNoGap ==
  ASSUME Removable = {}
  PROVE  Spec => []NoGap
<1>1. FeedInv => NoGap
  BY DEF FeedInv
<1>2. QED
  BY <1>1, FeedInvariant, PTL

-----------------------------------------------------------------------------
(* While none is removed, and every displayable one has a category, no     *)
(* handler traps.                                                          *)

(* The first row always has a category when all the entries have one.      *)
LEMMA FirstRowHasCategory ==
  ASSUME \A k \in Keys : CategoryOf[k] # "nil",
         NEW rows \in Seq(Row)
  PROVE  ~InsertTraps(rows)
<1> SUFFICES ASSUME rows # <<>> PROVE Category(rows[1]) # "nil"
  BY DEF InsertTraps
<1>1. 1 \in 1..Len(rows)
  BY EmptySeq
<1>2. rows[1] \in Row
  BY <1>1, ElementOfSeq
<1>3. rows[1].key \in Keys \cup {NoKey}
  BY <1>2 DEF Row
<1>4. QED
  BY <1>3 DEF Category

LEMMA SnapshotDoesNotTrap ==
  ASSUME TypeOK, KeyInv, NEW r \in Requests, ListSnapshot(r), Running
  PROVE  trap' = trap
<1>1. start[r] \in {FIRST_KEY} \cup server /\ server \in SUBSET Keys
  BY DEF TypeOK, KeyInv, CursorsShown, RowsInServer
<1>2. \A children \in OrderedByKey(QueryPage(server, start[r], PAGE_SIZE)) :
        ~RemoveFirstTraps(children, start[r])
  BY <1>1, RemoveFirstDropsCursor
<1>3. QED
  BY <1>2 DEF ListSnapshot

(* No handler traps: a page after the first finds its cursor's entry to    *)
(* drop, the first row has a category, and a completion has a last row.    *)
THEOREM SceneNeverTraps ==
  ASSUME Removable = {}, \A k \in Keys : CategoryOf[k] # "nil"
  PROVE  Spec => []NoTrap
<1>1. Init => NoTrap
  BY DEF Init, NoTrap
<1>2. ASSUME TypeOK, PagesHaveRows, KeyInv, NoTrap, [Next]_vars
      PROVE  NoTrap'
  <2>1. ASSUME NEW r \in Requests, ListSnapshot(r) PROVE trap' = trap
    BY <1>2, <2>1, SnapshotDoesNotTrap DEF Running, NoTrap
  <2>2. ASSUME NEW r \in Requests PROVE ~InsertTraps(AppendList(list, page[r]))
    BY <1>2, AppendKeys, FirstRowHasCategory DEF TypeOK
  <2>3. QED
    BY <1>2, <2>1, <2>2, TrapChanges DEF NoTrap
<1>3. TypeOK /\ PagesHaveRows /\ KeyInv /\ [Next]_vars => KeyInv'
  BY KeyInvStep
<1>4. QED
  BY <1>1, <1>2, <1>3, TypeInit, TypeStep, PagesInit, PagesStep, KeyInvInit, PTL DEF Spec

-----------------------------------------------------------------------------
(* The only way into the trap of removeFirst.                              *)

LEMMA EmptyQueryLostCursor ==
  ASSUME TypeOK, NEW r \in Requests, ListSnapshot(r), Trap("removeFirst"), Running
  PROVE  start[r] \notin server
<1> DEFINE Q == QueryPage(server, start[r], PAGE_SIZE)
<1>1. server \in SUBSET Keys /\ Q \in SUBSET Keys /\ PAGE_SIZE \in Nat \ {0}
  BY QueryPageInServer, ModelAssumption DEF TypeOK, ModelAssumption
<1>2. trap' # trap
  BY DEF Trap, Running
<1>3. PICK children \in OrderedByKey(Q) : RemoveFirstTraps(children, start[r])
  BY <1>2 DEF ListSnapshot
<1>4. Q = {}
  <2> HIDE DEF Q
  <2>1. children = <<>> /\ \A k \in Q : \E i \in 1..Len(children) : children[i] = k
    BY <1>1, <1>3, OrderedByKeyIsSeq DEF RemoveFirstTraps
  <2>2. Len(children) = 0
    BY <2>1, EmptySeq
  <2> QED BY <2>1, <2>2
<1> QED BY <1>1, <1>4, QueryPageHasCursor

(* removeFirst traps only when the entry a query starts at was removed     *)
(* from the database between its being shown and the snapshot              *)
(* (FBDatabase.listPagination drops the first child of every later page).  *)
THEOREM TrapTakesRemovedCursor == Spec => []TrapNeedsRemovedCursor
<1>1. Init => TrapNeedsRemovedCursor
  BY DEF Init, TrapNeedsRemovedCursor
<1>2. ASSUME TypeOK, PagesHaveRows, TrapNeedsRemovedCursor, [Next]_vars
      PROVE  TrapNeedsRemovedCursor'
  <2>1. CASE UNCHANGED vars
    BY <1>2, <2>1 DEF TrapNeedsRemovedCursor, vars, getListVars
  <2>2. CASE ~Running
    <3>1. CASE trap # "removeFirst"
      BY <1>2, <2>2, <3>1, TrapChanges DEF TrapNeedsRemovedCursor, Running, ListSnapshot,
         ImageDownloadComplete
    <3>2. CASE trap = "removeFirst"
      <4>1. PICK q \in Requests : phase[q] = "query" /\ start[q] \notin server
        BY <1>2, <3>2 DEF TrapNeedsRemovedCursor
      <4>2. ASSUME NEW r \in Requests, ViewDidLoad(r) PROVE TrapNeedsRemovedCursor'
        <5>1. r # q /\ UNCHANGED server
          BY <4>1, <4>2 DEF ViewDidLoad, GetList
        <5>2. phase'[q] = phase[q] /\ start'[q] = start[q]
          BY <4>2, <5>1, <1>2 DEF ViewDidLoad, GetList, TypeOK
        <5> QED BY <4>1, <5>1, <5>2 DEF TrapNeedsRemovedCursor
      <4> QED BY <1>2, <2>1, <2>2, <4>2 DEF Next, Scroll, ListSnapshot, ListCancelled, ImageData,
                 ImageDownloadComplete, NextPage, Publish, Remove
    <3> QED BY <3>1, <3>2
  <2>3. CASE Running
    <3>1. CASE trap' = trap
      BY <2>3, <3>1 DEF TrapNeedsRemovedCursor, Running
    <3>2. ASSUME NEW r \in Requests, ListSnapshot(r), Trap("removeFirst")
          PROVE  TrapNeedsRemovedCursor'
      <4>1. phase[r] = "query" /\ start[r] \notin server
        BY <1>2, <2>3, <3>2, EmptyQueryLostCursor DEF ListSnapshot
      <4>2. UNCHANGED <<server, phase, start>>
        BY <3>2 DEF Trap, getListVars
      <4> QED BY <4>1, <4>2 DEF TrapNeedsRemovedCursor
    <3>3. CASE Trap("category")
      BY <3>3 DEF Trap, TrapNeedsRemovedCursor
    <3> QED BY <1>2, <3>1, <3>2, <3>3, TrapChanges
  <2> QED BY <2>2, <2>3
<1> QED BY <1>1, <1>2, TypeInit, TypeStep, PagesInit, PagesStep, PTL DEF Spec

-----------------------------------------------------------------------------
(* What the user has seen stays.                                           *)

(* A completion puts the page's rows below the list's and at most the      *)
(* notification row above them.                                            *)
LEMMA CompletionRows ==
  ASSUME TypeOK, NEW rows \in Seq(Row), Completion(rows)
  PROVE  \E n \in {0, 1} :
           /\ Len(list') = n + Len(list) + Len(rows)
           /\ \A i \in 1..Len(list) : list'[n + i] = list[i]
           /\ \A i \in 1..Len(rows) : list'[n + Len(list) + i] = rows[i]
           /\ n = 1 => list'[1] = Header
<1> DEFINE appended == AppendList(list, rows)
<1>1. /\ list \in Seq(Row) /\ appended \in Seq(Row)
      /\ Len(list) \in Nat /\ Len(rows) \in Nat
      /\ Len(appended) = Len(list) + Len(rows)
      /\ \A i \in 1..Len(list) : appended[i] = list[i]
      /\ \A i \in 1..Len(rows) : appended[Len(list) + i] = rows[i]
  BY AppendKeys, LenProperties DEF TypeOK
<1>2. list' = InsertOnce(appended)
  BY DEF Completion, Display
<1> HIDE DEF appended
<1>3. CASE list' = appended
  BY <1>1, <1>3
<1>4. CASE list' = <<Header>> \o appended
  <2>0. <<Header>> \in Seq(Row) /\ Len(<<Header>>) = 1 /\ <<Header>>[1] = Header
    BY DEF Header, Row
  <2>1. Len(list') = 1 + Len(appended)
    BY <1>1, <1>4, <2>0, ConcatProperties
  <2>2. list'[1] = Header /\ \A i \in 1..Len(appended) : list'[1 + i] = appended[i]
    <3>1. list'[1] = Header
      BY <1>1, <1>4, <2>0, ConcatProperties
    <3>2. ASSUME NEW i \in 1..Len(appended) PROVE list'[1 + i] = appended[i]
      <4>1. 1 + i \in 1..(1 + Len(appended)) /\ ~(1 + i <= 1) /\ (1 + i) - 1 = i
        BY <1>1
      <4> QED BY <1>1, <1>4, <2>0, <4>1, ConcatProperties
    <3> QED BY <3>1, <3>2
  <2>3. \A i \in 1..Len(list) : i \in 1..Len(appended)
    BY <1>1
  <2>4. \A i \in 1..Len(rows) : /\ Len(list) + i \in 1..Len(appended)
                                /\ 1 + (Len(list) + i) = 1 + Len(list) + i
    BY <1>1
  <2> QED BY <1>1, <2>1, <2>2, <2>3, <2>4
<1> QED BY <1>2, <1>3, <1>4 DEF InsertOnce

(* Shown rows stay: a step only appends rows to the list or puts the       *)
(* notification row above them, whichever page completes when and again    *)
(* (append, insertOnce).                                                   *)
THEOREM RowsStay == Spec => RowsKept
<1>1. ASSUME TypeOK, PagesHaveRows, [Next]_vars PROVE [ListKept]_list
  <2>1. ASSUME NEW r \in Requests, ImageDownloadComplete(r), Completion(page[r]) PROVE ListKept
    <3>0. page[r] \in Seq(Row) /\ list \in Seq(Row) /\ Len(list) \in Nat /\ Len(page[r]) \in Nat
      BY <1>1, LenProperties DEF TypeOK
    <3>1. PICK n \in {0, 1} :
             /\ Len(list') = n + Len(list) + Len(page[r])
             /\ \A i \in 1..Len(list) : list'[n + i] = list[i]
             /\ n = 1 => list'[1] = Header
      BY <1>1, <2>1, <3>0, CompletionRows
    <3>2. CASE n = 0
      <4>1. <<>> \o list = list
        BY <3>0
      <4>2. Len(list) <= Len(list') /\ \A i \in 1..Len(list) : list'[i] = list[i]
        BY <3>0, <3>1, <3>2
      <4> QED BY <4>1, <4>2 DEF ListKept
    <3>3. CASE n = 1
      <4> DEFINE kept == <<Header>> \o list
      <4>1. /\ Len(kept) = 1 + Len(list) /\ kept[1] = Header
            /\ \A i \in 1..Len(list) : kept[1 + i] = list[i]
        BY <3>0
      <4>2. ASSUME NEW i \in 1..(1 + Len(list)) PROVE list'[i] = kept[i]
        <5>1. CASE i = 1
          BY <3>1, <3>3, <4>1, <5>1
        <5>2. CASE i # 1
          <6>1. i - 1 \in 1..Len(list) /\ 1 + (i - 1) = i
            BY <3>0, <5>2
          <6> QED BY <3>1, <3>3, <4>1, <6>1
        <5> QED BY <5>1, <5>2
      <4> HIDE DEF kept
      <4>0. Len(list') = 1 + Len(list) + Len(page[r])
        BY <3>1, <3>3
      <4>a. \A a, b \in Nat : 1 + a <= 1 + a + b
        OBVIOUS
      <4>b. 1 + Len(list) <= 1 + Len(list) + Len(page[r])
        BY <3>0, <4>a
      <4>3. 1 + Len(list) <= Len(list')
        BY <4>0, <4>b
      <4>4. Len(kept) <= Len(list')
        BY <4>1, <4>3
      <4> QED BY <4>1, <4>2, <4>4 DEF ListKept, kept
    <3> QED BY <3>2, <3>3
  <2> QED BY <1>1, <2>1, ListChanges
<1> QED BY <1>1, TypeInit, TypeStep, PagesInit, PagesStep, PTL DEF Spec, RowsKept

-----------------------------------------------------------------------------
(* The images of rows.                                                     *)

(* The data of rows was read from files their own entries name.            *)
Belongs(rows) ==
  \A i \in 1..Len(rows) : \A img \in rows[i].data :
    img.owner = rows[i].key /\ img.field \in ImagesOf[img.owner]

(* A download holds the index of its entry's row in its own page.          *)
FindsItsRow(d, rows) ==
  d.idx \in 1..Len(rows) /\ d.owner = rows[d.idx].key /\ d.field \in ImagesOf[d.owner]

ImagesInv ==
  /\ Belongs(list)
  /\ \A r \in Requests : /\ Belongs(page[r])
                         /\ \A d \in downloads[r] : FindsItsRow(d, page[r])

(* The datum a download brings.                                            *)
Datum(d) == [owner |-> d.owner, field |-> d.field]

(* Update assigns the datum to the row at the download's index.            *)
LEMMA UpdateRows ==
  ASSUME NEW rows \in Seq(Row), NEW d \in Download, NEW loaded \in BOOLEAN,
         d.idx \in 1..Len(rows)
  PROVE  /\ Update(rows, d, loaded)[d.idx].data \subseteq rows[d.idx].data \cup {Datum(d)}
         /\ rows[d.idx].data \ {Datum(d)} \subseteq Update(rows, d, loaded)[d.idx].data
         /\ loaded = TRUE => Datum(d) \in Update(rows, d, loaded)[d.idx].data
         /\ \A i \in 1..Len(rows) : i # d.idx => Update(rows, d, loaded)[i] = rows[i]
<1> DEFINE data == IF loaded THEN rows[d.idx].data \cup {Datum(d)}
                   ELSE rows[d.idx].data \ {Datum(d)}
           row == [rows[d.idx] EXCEPT !.data = data]
<1>1. Len(rows) \in Nat /\ ~(d.idx > Len(rows)) /\ DOMAIN rows = 1..Len(rows)
  BY LenProperties
<1>2. rows[d.idx] \in Row
  BY ElementOfSeq
<1>3. Update(rows, d, loaded) = [rows EXCEPT ![d.idx] = row]
  BY <1>1 DEF Update, Datum
<1>4. row.data = data
  <2> HIDE DEF data
  <2> QED BY <1>2 DEF Row
<1>5. [rows EXCEPT ![d.idx] = row][d.idx] = row
  BY <1>1
<1>6. \A i \in 1..Len(rows) : i # d.idx => [rows EXCEPT ![d.idx] = row][i] = rows[i]
  BY <1>1
<1>7. /\ data \subseteq rows[d.idx].data \cup {Datum(d)}
      /\ rows[d.idx].data \ {Datum(d)} \subseteq data
      /\ loaded = TRUE => Datum(d) \in data
  OBVIOUS
<1> HIDE DEF row, data
<1> QED BY <1>3, <1>4, <1>5, <1>6, <1>7

LEMMA BelongsUpdate ==
  ASSUME NEW rows \in Seq(Row), NEW d \in Download, NEW loaded \in BOOLEAN,
         Belongs(rows), FindsItsRow(d, rows)
  PROVE  Belongs(Update(rows, d, loaded))
<1> DEFINE new == Update(rows, d, loaded)
<1>1. /\ new[d.idx].data \subseteq rows[d.idx].data \cup {Datum(d)}
      /\ \A i \in 1..Len(rows) : i # d.idx => new[i] = rows[i]
  BY UpdateRows DEF FindsItsRow
<1>2. Len(new) = Len(rows) /\ \A i \in 1..Len(rows) : new[i].key = rows[i].key
  BY UpdateKeepsKeys
<1>3. Datum(d).owner = d.owner /\ Datum(d).field = d.field
  BY DEF Datum
<1> HIDE DEF new
<1>4. ASSUME NEW i \in 1..Len(new), NEW e \in new[i].data
      PROVE  e.owner = new[i].key /\ e.field \in ImagesOf[e.owner]
  <2>1. CASE i # d.idx
    BY <1>1, <1>2, <1>4, <2>1 DEF Belongs
  <2>2. CASE i = d.idx /\ e \in rows[i].data
    BY <1>2, <2>2 DEF Belongs
  <2>3. CASE i = d.idx /\ e = Datum(d)
    BY <1>2, <1>3, <2>3 DEF FindsItsRow
  <2> QED BY <1>1, <1>4, <2>1, <2>2, <2>3
<1> QED BY <1>4 DEF Belongs, new

(* The downloads that setImageData starts find their rows.                 *)
LEMMA DownloadsFind ==
  ASSUME NEW rows, NEW d \in SetImageData(rows)
  PROVE  FindsItsRow(d, rows)
  BY DEF SetImageData, FindsItsRow

LEMMA ImagesRelease ==
  ASSUME TypeOK, ImagesInv, NEW r \in Requests, Release(r), list' = list
  PROVE  ImagesInv'
<1>1. \A q \in Requests : q # r => page'[q] = page[q] /\ downloads'[q] = downloads[q]
  BY DEF TypeOK, Release
<1>2. page'[r] = <<>> /\ downloads'[r] = {}
  BY DEF TypeOK, Release
<1>3. Belongs(<<>>)
  BY EmptySeq DEF Belongs
<1> QED BY <1>1, <1>2, <1>3 DEF ImagesInv, Belongs

LEMMA ImagesImageData ==
  ASSUME TypeOK, ImagesInv, NEW r \in Requests, NEW d \in downloads[r],
         NEW loaded \in BOOLEAN, ImageData(r, d, loaded)
  PROVE  ImagesInv'
<1>1. d \in Download /\ page[r] \in Seq(Row) /\ FindsItsRow(d, page[r])
  BY DEF TypeOK, ImagesInv
<1>2. list' = list /\ \A q \in Requests : downloads'[q] \subseteq downloads[q]
  BY DEF ImageData, TypeOK, sceneVars
<1>3. \A q \in Requests : page'[q] = IF q = r THEN Update(page[r], d, loaded) ELSE page[q]
  BY DEF TypeOK, ImageData
<1>4. Belongs(Update(page[r], d, loaded))
  BY <1>1, BelongsUpdate DEF ImagesInv
<1>5. \A q \in Requests : /\ Len(page'[q]) = Len(page[q])
                          /\ \A i \in 1..Len(page[q]) : page'[q][i].key = page[q][i].key
  BY ImageDataKeepsPages
<1>6. \A q \in Requests : Belongs(page'[q])
  BY <1>3, <1>4 DEF ImagesInv
<1>7. ASSUME NEW q \in Requests, NEW e \in downloads'[q] PROVE FindsItsRow(e, page'[q])
  BY <1>2, <1>5 DEF ImagesInv, FindsItsRow
<1>8. Belongs(list')
  BY <1>2 DEF ImagesInv
<1> QED BY <1>6, <1>7, <1>8 DEF ImagesInv, Belongs

LEMMA ImagesSnapshot ==
  ASSUME TypeOK, PagesHaveRows, ImagesInv, NEW r \in Requests, ListSnapshot(r)
  PROVE  ImagesInv'
<1>1. CASE Trap("removeFirst")
  BY <1>1 DEF ImagesInv, Belongs, Trap, getListVars, sceneVars
<1>2. CASE ~Trap("removeFirst") /\ Release(r)
  BY <1>2, SnapshotMakesPage, ImagesRelease DEF sceneVars
<1>3. CASE ~Trap("removeFirst") /\ ~Release(r)
  <2>1. PICK children \in OrderedByKey(QueryPage(server, start[r], PAGE_SIZE)) :
          /\ RemoveFirst(children, start[r]) \in Seq(Keys)
          /\ \E rows \in InitWith(RemoveFirst(children, start[r])) :
               /\ page' = [page EXCEPT ![r] = rows]
               /\ downloads' = [downloads EXCEPT ![r] = SetImageData(rows)]
    BY <1>3, SnapshotMakesPage
  <2>2. PICK rows \in InitWith(RemoveFirst(children, start[r])) :
               /\ page' = [page EXCEPT ![r] = rows]
               /\ downloads' = [downloads EXCEPT ![r] = SetImageData(rows)]
    BY <2>1
  <2>3. \A i \in 1..Len(rows) : rows[i].data = {}
    BY <2>1, InitWithKeeps
  <2>4. Belongs(rows)
    BY <2>3 DEF Belongs
  <2>5. \A q \in Requests : /\ page'[q] = IF q = r THEN rows ELSE page[q]
                            /\ downloads'[q] = IF q = r THEN SetImageData(rows) ELSE downloads[q]
    BY <2>2 DEF TypeOK
  <2>6. \A q \in Requests : Belongs(page'[q])
    BY <2>4, <2>5 DEF ImagesInv
  <2>7. ASSUME NEW q \in Requests, NEW e \in downloads'[q] PROVE FindsItsRow(e, page'[q])
    BY <2>5, <2>7, DownloadsFind DEF ImagesInv
  <2>8. list' = list
    BY <1>3, SnapshotMakesPage DEF sceneVars
  <2> QED BY <2>6, <2>7, <2>8 DEF ImagesInv, Belongs
<1> QED BY <1>1, <1>2, <1>3

(* What the perform does, with the condition on which the page goes.       *)
LEMMA PerformEnds ==
  ASSUME TypeOK, PagesHaveRows, NEW r \in Requests, ImageDownloadComplete(r), ~Trap("category")
  PROVE  /\ Completion(page[r])
         /\ \/ Release(r) /\ downloads[r] = {}
            \/ UNCHANGED <<phase, start, page, downloads>> /\ \A q \in Requests \ {r} :
                                                                scheduled'[q] = scheduled[q]
<1>1. Completion(page[r]) /\ ~LastKeyTraps(AppendList(list, page[r]))
  BY PerformCompletesPage, LastKeyOfPage DEF TypeOK
<1>2. ~InsertTraps(AppendList(list, page[r]))
  BY <1>1 DEF ImageDownloadComplete
<1> QED BY <1>1, <1>2 DEF ImageDownloadComplete, TypeOK

LEMMA ImagesPerform ==
  ASSUME TypeOK, PagesHaveRows, ImagesInv, NEW r \in Requests, ImageDownloadComplete(r)
  PROVE  ImagesInv'
<1>1. CASE Trap("category")
  BY <1>1 DEF ImagesInv, Belongs, Trap, getListVars, sceneVars
<1>2. CASE ~Trap("category")
  <2>0. page[r] \in Seq(Row) /\ Len(list) \in Nat /\ Len(page[r]) \in Nat
    BY LenProperties DEF TypeOK
  <2>1. PICK n \in {0, 1} :
          /\ Len(list') = n + Len(list) + Len(page[r])
          /\ \A i \in 1..Len(list) : list'[n + i] = list[i]
          /\ \A i \in 1..Len(page[r]) : list'[n + Len(list) + i] = page[r][i]
          /\ n = 1 => list'[1] = Header
    BY <1>2, <2>0, PerformEnds, CompletionRows
  <2>2. Belongs(list')
    <3> SUFFICES ASSUME NEW i \in 1..Len(list'), NEW img \in list'[i].data
                 PROVE  img.owner = list'[i].key /\ img.field \in ImagesOf[img.owner]
      BY DEF Belongs
    <3>1. CASE n = 1 /\ i = 1
      BY <2>1, <3>1 DEF Header
    <3>2. CASE i - n \in 1..Len(list)
      <4>1. n + (i - n) = i
        OBVIOUS
      <4>2. list'[i] = list[i - n]
        BY <2>1, <3>2, <4>1
      <4> QED BY <3>2, <4>2 DEF ImagesInv, Belongs
    <3>3. CASE i - n - Len(list) \in 1..Len(page[r])
      <4>1. n + Len(list) + (i - n - Len(list)) = i
        BY <2>0
      <4>2. list'[i] = page[r][i - n - Len(list)]
        BY <2>1, <3>3, <4>1
      <4> QED BY <3>3, <4>2 DEF ImagesInv, Belongs
    <3>4. \/ n = 1 /\ i = 1
          \/ i - n \in 1..Len(list)
          \/ i - n - Len(list) \in 1..Len(page[r])
      <4>1. i \in 1..(n + Len(list) + Len(page[r]))
        BY <2>1
      <4>2. \A a, b \in Nat : \A m \in {0, 1} : \A j \in 1..(m + a + b) :
              (m = 1 /\ j = 1) \/ j - m \in 1..a \/ j - m - a \in 1..b
        OBVIOUS
      <4> QED BY <2>0, <4>1, <4>2
    <3> QED BY <3>1, <3>2, <3>3, <3>4
  <2>3. \A q \in Requests : /\ Belongs(page'[q])
                            /\ \A d \in downloads'[q] : FindsItsRow(d, page'[q])
    <3>1. CASE Release(r)
      <4>1. \A q \in Requests : q # r => page'[q] = page[q] /\ downloads'[q] = downloads[q]
        BY <3>1 DEF TypeOK, Release
      <4>2. page'[r] = <<>> /\ downloads'[r] = {}
        BY <3>1 DEF TypeOK, Release
      <4>3. Belongs(<<>>)
        BY EmptySeq DEF Belongs
      <4> QED BY <4>1, <4>2, <4>3 DEF ImagesInv
    <3>2. CASE UNCHANGED <<phase, start, page, downloads>>
      BY <3>2 DEF ImagesInv
    <3> QED BY <1>2, <3>1, <3>2, PerformEnds
  <2> QED BY <2>2, <2>3 DEF ImagesInv, Belongs
<1> QED BY <1>1, <1>2

LEMMA ImagesStep == TypeOK /\ PagesHaveRows /\ ImagesInv /\ [Next]_vars => ImagesInv'
<1> SUFFICES ASSUME TypeOK, PagesHaveRows, ImagesInv, [Next]_vars PROVE ImagesInv'
  OBVIOUS
<1>1. CASE UNCHANGED <<list, page, downloads>>
  BY <1>1 DEF ImagesInv, Belongs
<1>2. ASSUME NEW r \in Requests, ListSnapshot(r) PROVE ImagesInv'
  BY <1>2, ImagesSnapshot
<1>3. ASSUME NEW r \in Requests, ListCancelled(r) PROVE ImagesInv'
  BY <1>3, ImagesRelease DEF ListCancelled, sceneVars
<1>4. ASSUME NEW r \in Requests, NEW d \in downloads[r], NEW loaded \in BOOLEAN,
             ImageData(r, d, loaded)
      PROVE  ImagesInv'
  BY <1>4, ImagesImageData
<1>5. ASSUME NEW r \in Requests, ImageDownloadComplete(r) PROVE ImagesInv'
  BY <1>5, ImagesPerform
<1> QED BY <1>1, <1>2, <1>3, <1>4, <1>5
        DEF Next, Scroll, vars, getListVars, sceneVars, ViewDidLoad, NextPage, GetList, Publish, Remove

LEMMA ImagesInit == Init => ImagesInv
  BY EmptySeq DEF Init, ImagesInv, Belongs

(* The data a row shows was read from a file its own entry names, though a *)
(* download's closure holds an index computed while entries were dropped   *)
(* (setImageData, update(indexOf:block:)).                                 *)
THEOREM ImagesAreTheirs == Spec => []ImagesBelong
<1>1. ImagesInv => ImagesBelong
  BY DEF ImagesInv, ImagesBelong, Belongs
<1> QED BY <1>1, TypeInit, TypeStep, PagesInit, PagesStep, ImagesInit, ImagesStep, PTL DEF Spec

(* What the user has seen stays, on every row images of its own entry,     *)
(* whatever the order of answers, images and completions.                  *)
THEOREM ShownStays == Spec => ShownIsKept
  BY RowsStay, ImagesAreTheirs, PTL DEF ShownIsKept


-----------------------------------------------------------------------------
(* No image is lost, while none fails.                                     *)

Has(rows, k, f) ==
  \E i \in 1..Len(rows) : rows[i].key = k /\ [owner |-> k, field |-> f] \in rows[i].data

Pending(r, k, f) == \E d \in downloads[r] : d.owner = k /\ d.field = f

(* A page has the images of its entries, or will have them.                *)
PagesComplete ==
  \A r \in Requests : \A k \in KeysOf(page[r]) : \A f \in ImagesOf[k] :
    Pending(r, k, f) \/ Has(page[r], k, f)

KeptInv == PagesComplete /\ NoImageLost

(* A row with an image keeps it when another datum arrives.                *)
LEMMA HasAfterUpdate ==
  ASSUME NEW rows \in Seq(Row), NEW d \in Download, FindsItsRow(d, rows)
  PROVE  /\ Has(Update(rows, d, TRUE), d.owner, d.field)
         /\ \A k, f : Has(rows, k, f) => Has(Update(rows, d, TRUE), k, f)
<1> DEFINE new == Update(rows, d, TRUE)
<1>1. /\ rows[d.idx].data \ {Datum(d)} \subseteq new[d.idx].data
      /\ Datum(d) \in new[d.idx].data
      /\ \A i \in 1..Len(rows) : i # d.idx => new[i] = rows[i]
  BY UpdateRows DEF FindsItsRow
<1>2. Len(new) = Len(rows) /\ \A i \in 1..Len(rows) : new[i].key = rows[i].key
  BY UpdateKeepsKeys
<1>3. d.idx \in 1..Len(rows) /\ d.owner = rows[d.idx].key
  BY DEF FindsItsRow
<1> HIDE DEF new
<1>4. Has(new, d.owner, d.field)
  BY <1>1, <1>2, <1>3 DEF Has, Datum
<1>5. ASSUME NEW k, NEW f, Has(rows, k, f) PROVE Has(new, k, f)
  <2>1. PICK i \in 1..Len(rows) : rows[i].key = k /\ [owner |-> k, field |-> f] \in rows[i].data
    BY <1>5 DEF Has
  <2>2. [owner |-> k, field |-> f] \in new[i].data
    BY <1>1, <2>1
  <2> QED BY <1>2, <2>1, <2>2 DEF Has
<1> QED BY <1>4, <1>5 DEF new

(* What an arriving image does to what is pending.                         *)
LEMMA PendingAfterImage ==
  ASSUME TypeOK, ImagesInv, NEW r \in Requests, NEW d \in downloads[r], ImageData(r, d, TRUE)
  PROVE  /\ \A q \in Requests : \A k, f : Pending(q, k, f) =>
              Pending(q, k, f)' \/ (q = r /\ k = d.owner /\ f = d.field)
         /\ \A q \in Requests : \A k, f : Has(page[q], k, f) => Has(page'[q], k, f)
         /\ Has(page'[r], d.owner, d.field)
         /\ d.owner \in KeysOf(page[r])
<1>1. d \in Download /\ page[r] \in Seq(Row) /\ FindsItsRow(d, page[r])
  BY DEF TypeOK, ImagesInv
<1>2. \A q \in Requests : /\ page'[q] = IF q = r THEN Update(page[r], d, TRUE) ELSE page[q]
                          /\ downloads'[q] = IF q = r THEN downloads[r] \ {d} ELSE downloads[q]
  BY DEF ImageData, TypeOK
<1>3. \A q \in Requests : \A k, f : Pending(q, k, f) =>
        Pending(q, k, f)' \/ (q = r /\ k = d.owner /\ f = d.field)
  BY <1>2 DEF Pending
<1>a. /\ Has(Update(page[r], d, TRUE), d.owner, d.field)
      /\ \A k, f : Has(page[r], k, f) => Has(Update(page[r], d, TRUE), k, f)
  BY <1>1, HasAfterUpdate
<1>4. ASSUME NEW q \in Requests, NEW k, NEW f, Has(page[q], k, f) PROVE Has(page'[q], k, f)
  <2>1. CASE q = r
    <3>1. page'[q] = Update(page[r], d, TRUE)
      BY <1>2, <2>1
    <3> QED BY <1>a, <1>4, <2>1, <3>1
  <2>2. CASE q # r
    BY <1>2, <1>4, <2>2
  <2> QED BY <2>1, <2>2
<1>5. Has(page'[r], d.owner, d.field)
  <2>1. page'[r] = Update(page[r], d, TRUE)
    BY <1>2
  <2> QED BY <1>a, <2>1
<1>6. d.owner \in KeysOf(page[r])
  BY <1>1, KeysAboveFirst DEF FindsItsRow, KeysOf, Download
<1> QED BY <1>3, <1>4, <1>5, <1>6

LEMMA KeptImageData ==
  ASSUME TypeOK, PagesHaveRows, ImagesInv, KeptInv, NEW r \in Requests,
         NEW d \in downloads[r], ImageData(r, d, TRUE)
  PROVE  KeptInv'
<1>1. list' = list /\ \A q \in Requests : KeysOf(page'[q]) = KeysOf(page[q])
  BY ImageDataKeys DEF ImageData, sceneVars
<1>2. \A q \in Requests : /\ scheduled[q] > 0 => scheduled'[q] > 0
                          /\ scheduled'[r] > 0
  BY DEF ImageData, TypeOK, CancelPreviousAndPerform
<1>3. PagesComplete'
  <2> SUFFICES ASSUME NEW q \in Requests, NEW k \in KeysOf(page'[q]), NEW f \in ImagesOf[k]
               PROVE  Pending(q, k, f)' \/ Has(page'[q], k, f)
    BY DEF PagesComplete, Has
  <2>1. Pending(q, k, f) \/ Has(page[q], k, f)
    BY <1>1 DEF KeptInv, PagesComplete
  <2> QED BY <2>1, PendingAfterImage
<1>4. NoImageLost'
  <2> SUFFICES ASSUME NEW k \in KeysOf(list), NEW f \in ImagesOf[k]
               PROVE  \/ Has(list, k, f)
                      \/ \E q \in Requests : \/ Pending(q, k, f)'
                                             \/ k \in KeysOf(page'[q]) /\ scheduled'[q] > 0
    BY <1>1 DEF NoImageLost, Has, Pending
  <2>1. CASE Has(list, k, f)
    BY <2>1
  <2>2. ASSUME NEW q \in Requests, Pending(q, k, f)
        PROVE  Pending(q, k, f)' \/ (k \in KeysOf(page'[r]) /\ scheduled'[r] > 0)
    BY <1>1, <1>2, <2>2, PendingAfterImage
  <2>3. ASSUME NEW q \in Requests, k \in KeysOf(page[q]), scheduled[q] > 0
        PROVE  k \in KeysOf(page'[q]) /\ scheduled'[q] > 0
    BY <1>1, <1>2, <2>3
  <2>4. \/ Has(list, k, f)
        \/ \E q \in Requests : Pending(q, k, f) \/ (k \in KeysOf(page[q]) /\ scheduled[q] > 0)
    BY DEF KeptInv, NoImageLost, Has, Pending
  <2> QED BY <2>1, <2>2, <2>3, <2>4
<1> QED BY <1>3, <1>4 DEF KeptInv

(* A request that is released has nothing that is still needed.            *)
LEMMA KeptRelease ==
  ASSUME TypeOK, PagesHaveRows, KeptInv, NEW r \in Requests, phase[r] # "page", Release(r),
         list' = list
  PROVE  KeptInv'
<1>1. downloads[r] = {} /\ scheduled[r] = 0
  BY DEF PagesHaveRows
<1>2. \A q \in Requests : q # r => /\ page'[q] = page[q] /\ downloads'[q] = downloads[q]
                                   /\ scheduled'[q] = scheduled[q]
  BY DEF TypeOK, Release
<1>3. page'[r] = <<>> /\ KeysOf(page'[r]) = {}
  BY NoRowsNoKeys DEF TypeOK, Release
<1>4. PagesComplete'
  BY <1>2, <1>3 DEF KeptInv, PagesComplete, Pending, Has
<1>5. NoImageLost'
  <2> SUFFICES ASSUME NEW k \in KeysOf(list), NEW f \in ImagesOf[k]
               PROVE  \/ Has(list, k, f)
                      \/ \E q \in Requests : \/ Pending(q, k, f)'
                                             \/ k \in KeysOf(page'[q]) /\ scheduled'[q] > 0
    BY DEF NoImageLost, Has, Pending
  <2>1. \/ Has(list, k, f)
        \/ \E q \in Requests : Pending(q, k, f) \/ (k \in KeysOf(page[q]) /\ scheduled[q] > 0)
    BY DEF KeptInv, NoImageLost, Has, Pending
  <2>2. ASSUME NEW q \in Requests, Pending(q, k, f) PROVE Pending(q, k, f)'
    BY <1>1, <1>2, <2>2 DEF Pending
  <2>3. ASSUME NEW q \in Requests, k \in KeysOf(page[q]), scheduled[q] > 0
        PROVE  k \in KeysOf(page'[q]) /\ scheduled'[q] > 0
    BY <1>1, <1>2, <2>3
  <2> QED BY <2>1, <2>2, <2>3
<1> QED BY <1>4, <1>5 DEF KeptInv

LEMMA KeptSnapshot ==
  ASSUME TypeOK, PagesHaveRows, KeptInv, NEW r \in Requests, ListSnapshot(r)
  PROVE  KeptInv'
<1>1. CASE Trap("removeFirst")
  BY <1>1 DEF KeptInv, PagesComplete, NoImageLost, Pending, Has, Trap, getListVars, sceneVars
<1>2. CASE ~Trap("removeFirst") /\ Release(r)
  BY <1>2, SnapshotMakesPage, KeptRelease DEF sceneVars
<1>3. CASE ~Trap("removeFirst") /\ ~Release(r)
  <2>1. PICK rows \in Seq(Row) : /\ page' = [page EXCEPT ![r] = rows]
                                 /\ downloads' = [downloads EXCEPT ![r] = SetImageData(rows)]
                                 /\ UNCHANGED <<start, scheduled>>
    BY <1>3, SnapshotMakesPage
  <2>2. list' = list /\ phase[r] = "query"
    BY <1>3, SnapshotMakesPage DEF sceneVars
  <2>3. \A q \in Requests : /\ page'[q] = IF q = r THEN rows ELSE page[q]
                            /\ downloads'[q] = IF q = r THEN SetImageData(rows) ELSE downloads[q]
    BY <2>1 DEF TypeOK
  <2>4. downloads[r] = {} /\ scheduled[r] = 0
    BY <2>2 DEF PagesHaveRows
  <2>5. ASSUME NEW k \in KeysOf(rows), NEW f \in ImagesOf[k]
        PROVE  \E d \in SetImageData(rows) : d.owner = k /\ d.field = f
    <3>1. PICK i \in 1..Len(rows) : rows[i].key = k
      BY <2>5 DEF KeysOf
    <3> DEFINE D(j) == {[idx |-> j, owner |-> rows[j].key, field |-> g] : g \in ImagesOf[rows[j].key]}
    <3>2. [idx |-> i, owner |-> k, field |-> f] \in D(i)
      BY <3>1
    <3>3. [idx |-> i, owner |-> k, field |-> f] \in SetImageData(rows)
      BY <3>2 DEF SetImageData
    <3> QED BY <3>3
  <2>6. PagesComplete'
    BY <2>3, <2>5 DEF KeptInv, PagesComplete, Pending, Has
  <2>7. NoImageLost'
    <3> SUFFICES ASSUME NEW k \in KeysOf(list), NEW f \in ImagesOf[k]
                 PROVE  \/ Has(list, k, f)
                        \/ \E q \in Requests : \/ Pending(q, k, f)'
                                               \/ k \in KeysOf(page'[q]) /\ scheduled'[q] > 0
      BY <2>2 DEF NoImageLost, Has, Pending
    <3>1. \/ Has(list, k, f)
          \/ \E q \in Requests : Pending(q, k, f) \/ (k \in KeysOf(page[q]) /\ scheduled[q] > 0)
      BY DEF KeptInv, NoImageLost, Has, Pending
    <3>2. ASSUME NEW q \in Requests, Pending(q, k, f) PROVE Pending(q, k, f)'
      BY <2>3, <2>4, <3>2 DEF Pending
    <3>3. ASSUME NEW q \in Requests, k \in KeysOf(page[q]), scheduled[q] > 0
          PROVE  k \in KeysOf(page'[q]) /\ scheduled'[q] > 0
      BY <2>1, <2>3, <2>4, <3>3
    <3> QED BY <3>1, <3>2, <3>3
  <2> QED BY <2>6, <2>7 DEF KeptInv
<1> QED BY <1>1, <1>2, <1>3

(* A completion shows what its page has, and leaves what others have.      *)
LEMMA KeptPerform ==
  ASSUME TypeOK, PagesHaveRows, KeptInv, NEW r \in Requests, ImageDownloadComplete(r)
  PROVE  KeptInv'
<1>1. CASE Trap("category")
  BY <1>1 DEF KeptInv, PagesComplete, NoImageLost, Pending, Has, Trap, getListVars, sceneVars
<1>2. CASE ~Trap("category")
  <2>0. page[r] \in Seq(Row) /\ Len(list) \in Nat /\ Len(page[r]) \in Nat /\ Completion(page[r])
    BY <1>2, PerformEnds, LenProperties DEF TypeOK
  <2>1. PICK n \in {0, 1} :
          /\ Len(list') = n + Len(list) + Len(page[r])
          /\ \A i \in 1..Len(list) : list'[n + i] = list[i]
          /\ \A i \in 1..Len(page[r]) : list'[n + Len(list) + i] = page[r][i]
    BY <2>0, CompletionRows
  <2>a. \A a, b \in Nat : \A m \in {0, 1} :
          /\ \A j \in 1..a : m + j \in 1..(m + a + b)
          /\ \A j \in 1..b : m + a + j \in 1..(m + a + b)
    OBVIOUS
  <2>b. /\ \A j \in 1..Len(list) : n + j \in 1..Len(list')
        /\ \A j \in 1..Len(page[r]) : n + Len(list) + j \in 1..Len(list')
    BY <2>0, <2>1, <2>a
  <2>2. \A k, f : Has(list, k, f) \/ Has(page[r], k, f) => Has(list', k, f)
    BY <2>1, <2>b DEF Has
  <2>3. KeysOf(list') = KeysOf(list) \cup KeysOf(page[r])
    BY <2>0, CompletionKeys
  <2>4. \A q \in Requests : \A k, f : Pending(q, k, f) => Pending(q, k, f)'
    <3>1. CASE Release(r) /\ downloads[r] = {}
      <4>1. \A q \in Requests : q # r => downloads'[q] = downloads[q]
        BY <3>1 DEF TypeOK, Release
      <4> QED BY <3>1, <4>1 DEF Pending
    <3>2. CASE UNCHANGED <<phase, start, page, downloads>>
      BY <3>2 DEF Pending
    <3> QED BY <1>2, <3>1, <3>2, PerformEnds
  <2>5. \A q \in Requests : q # r => page'[q] = page[q] /\ scheduled'[q] = scheduled[q]
    <3>1. CASE Release(r)
      BY <3>1 DEF TypeOK, Release
    <3>2. CASE ~Release(r)
      BY <1>2, <3>2, PerformEnds
    <3> QED BY <3>1, <3>2
  <2>6. page'[r] = page[r] \/ page'[r] = <<>>
    BY <1>2, PerformEnds DEF TypeOK, Release
  <2>7. PagesComplete'
    <3> SUFFICES ASSUME NEW q \in Requests, NEW k \in KeysOf(page'[q]), NEW f \in ImagesOf[k]
                 PROVE  Pending(q, k, f)' \/ Has(page'[q], k, f)
      BY DEF PagesComplete, Has
    <3>1. page'[q] = page[q]
      BY <2>5, <2>6, NoRowsNoKeys
    <3>2. Pending(q, k, f) \/ Has(page[q], k, f)
      BY <3>1 DEF KeptInv, PagesComplete
    <3> QED BY <2>4, <3>1, <3>2
  <2>8. NoImageLost'
    <3> SUFFICES ASSUME NEW k \in KeysOf(list'), NEW f \in ImagesOf[k]
                 PROVE  \/ Has(list', k, f)
                        \/ \E q \in Requests : \/ Pending(q, k, f)'
                                               \/ k \in KeysOf(page'[q]) /\ scheduled'[q] > 0
      BY DEF NoImageLost, Has, Pending
    <3>1. CASE k \in KeysOf(page[r])
      <4>1. Pending(r, k, f) \/ Has(page[r], k, f)
        BY <3>1 DEF KeptInv, PagesComplete
      <4> QED BY <2>2, <2>4, <4>1
    <3>2. CASE k \in KeysOf(list) /\ k \notin KeysOf(page[r])
      <4>1. \/ Has(list, k, f)
            \/ \E q \in Requests : Pending(q, k, f) \/ (k \in KeysOf(page[q]) /\ scheduled[q] > 0)
        BY <3>2 DEF KeptInv, NoImageLost, Has, Pending
      <4>2. ASSUME NEW q \in Requests, k \in KeysOf(page[q]), scheduled[q] > 0
            PROVE  k \in KeysOf(page'[q]) /\ scheduled'[q] > 0
        BY <2>5, <3>2, <4>2
      <4> QED BY <2>2, <2>4, <4>1, <4>2
    <3> QED BY <2>3, <3>1, <3>2
  <2> QED BY <2>7, <2>8 DEF KeptInv
<1> QED BY <1>1, <1>2

LEMMA KeptStep ==
  ASSUME ~ImagesMayFail, TypeOK, PagesHaveRows, ImagesInv, KeptInv, [Next]_vars
  PROVE  KeptInv'
<1>1. CASE UNCHANGED <<list, page, downloads, scheduled>>
  BY <1>1 DEF KeptInv, PagesComplete, NoImageLost, Pending, Has
<1>2. ASSUME NEW r \in Requests, ListSnapshot(r) PROVE KeptInv'
  BY <1>2, KeptSnapshot
<1>3. ASSUME NEW r \in Requests, ListCancelled(r) PROVE KeptInv'
  BY <1>3, KeptRelease DEF ListCancelled, sceneVars
<1>4. ASSUME NEW r \in Requests, NEW d \in downloads[r], NEW loaded \in BOOLEAN,
             ImageData(r, d, loaded)
      PROVE  KeptInv'
  <2>1. loaded = TRUE
    BY <1>4 DEF ImageData
  <2> QED BY <1>4, <2>1, KeptImageData
<1>5. ASSUME NEW r \in Requests, ImageDownloadComplete(r) PROVE KeptInv'
  BY <1>5, KeptPerform
<1> QED BY <1>1, <1>2, <1>3, <1>4, <1>5
        DEF Next, Scroll, vars, getListVars, sceneVars, ViewDidLoad, NextPage, GetList, Publish, Remove

(* An image that arrives after its page was shown is not lost: every image *)
(* of a shown entry is in one of its rows, or is still being downloaded,   *)
(* or is in a page that will yet be shown again (imageDownloadComplete is  *)
(* scheduled anew by every image).                                         *)
THEOREM NoImageIsLost == ASSUME ~ImagesMayFail PROVE Spec => []NoImageLost
<1>1. Init => KeptInv
  BY NoRowsNoKeys DEF Init, KeptInv, PagesComplete, NoImageLost
<1>2. (TypeOK /\ PagesHaveRows /\ ImagesInv /\ KeptInv) /\ [Next]_vars
        => (TypeOK /\ PagesHaveRows /\ ImagesInv /\ KeptInv)'
  BY TypeStep, PagesStep, ImagesStep, KeptStep
<1>3. KeptInv => NoImageLost
  BY DEF KeptInv
<1> QED BY <1>1, <1>2, <1>3, TypeInit, PagesInit, ImagesInit, PTL DEF Spec

-----------------------------------------------------------------------------
(* While the images of a page are prompt, getListDone lets one request at  *)
(* a time be under way, and the feed only grows at its end.                *)

(* The guard is first opened by a completion, and no page completes twice. *)
SerialInv ==
  /\ OneRequestAtATime
  /\ ~viewLoaded => ~getListDone /\ \A r \in Requests : phase[r] = "idle"
  /\ \A r \in Requests : scheduled[r] <= 1

(* The rows of a page ascend from the cursor, which is the list's last key *)
(* for as long as the request is under way.                                *)
OrderInv ==
  /\ \A r \in Requests : \A i \in 1..Len(page[r]) :
       /\ start[r] < page[r][i].key
       /\ DisplayTypeOf[page[r][i].key] # "nil"
       /\ \A j \in 1..Len(page[r]) : i < j => page[r][i].key < page[r][j].key
  /\ \A r \in Requests : phase[r] # "idle" => start[r] = lastKey
  /\ \A i \in 1..Len(list) : list[i].key <= lastKey
  /\ IF list = <<>> THEN lastKey = FIRST_KEY ELSE list[Len(list)].key = lastKey
  /\ RowsInKeyOrder

(* A prompt page completes when all its images are there, and is over.     *)
LEMMA PromptEnds ==
  ASSUME PromptImages, TypeOK, PagesHaveRows, SerialInv, NEW r \in Requests,
         ImageDownloadComplete(r), ~Trap("category")
  PROVE  /\ Completion(page[r]) /\ Release(r)
         /\ getListDone' = TRUE /\ UNCHANGED <<server, viewLoaded, trap>>
<1>1. Completion(page[r]) /\ ~LastKeyTraps(AppendList(list, page[r]))
  BY PerformCompletesPage, LastKeyOfPage DEF TypeOK
<1>2. ~InsertTraps(AppendList(list, page[r]))
  BY <1>1 DEF ImageDownloadComplete
<1>3. downloads[r] = {} /\ scheduled[r] = 1
  BY DEF ImageDownloadComplete, SerialInv, TypeOK
<1>4. getListDone' = TRUE
  BY <1>1 DEF Completion, Display
<1> QED BY <1>1, <1>2, <1>3, <1>4 DEF ImageDownloadComplete

LEMMA SerialSame ==
  ASSUME SerialInv, UNCHANGED <<getListDone, viewLoaded>>,
         \A q \in Requests : phase'[q] # "idle" => phase[q] # "idle",
         \A q \in Requests : scheduled'[q] <= 1
  PROVE  SerialInv'
  BY DEF SerialInv, OneRequestAtATime

LEMMA SerialStep ==
  ASSUME PromptImages, TypeOK, PagesHaveRows, SerialInv, [Next]_vars
  PROVE  SerialInv'
<1>1. ASSUME NEW r \in Requests, ViewDidLoad(r) PROVE SerialInv'
  <2>1. \A q \in Requests : phase'[q] # "idle" => q = r
    BY <1>1 DEF ViewDidLoad, GetList, SerialInv, TypeOK
  <2> QED BY <1>1, <2>1 DEF ViewDidLoad, GetList, SerialInv, OneRequestAtATime, sceneVars
<1>2. ASSUME NEW r \in Requests, ListSnapshot(r) PROVE SerialInv'
  <2>1. CASE Trap("removeFirst")
    BY <2>1, SerialSame DEF SerialInv, Trap, getListVars, sceneVars
  <2>2. CASE ~Trap("removeFirst")
    <3>1. /\ UNCHANGED <<getListDone, viewLoaded>> /\ phase[r] = "query"
          /\ Release(r) \/ (phase' = [phase EXCEPT ![r] = "page"] /\ UNCHANGED scheduled)
      BY <1>2, <2>2, SnapshotMakesPage DEF sceneVars
    <3>2. \A q \in Requests : phase'[q] # "idle" => phase[q] # "idle"
      <4>1. CASE Release(r)
        BY <4>1 DEF Release, TypeOK
      <4>2. CASE phase' = [phase EXCEPT ![r] = "page"]
        BY <3>1, <4>2 DEF TypeOK
      <4> QED BY <3>1, <4>1, <4>2
    <3>3. \A q \in Requests : scheduled'[q] <= 1
      <4>1. CASE Release(r)
        BY <4>1 DEF Release, TypeOK, SerialInv
      <4>2. CASE UNCHANGED scheduled
        BY <4>2 DEF SerialInv
      <4> QED BY <3>1, <4>1, <4>2
    <3> QED BY <3>1, <3>2, <3>3, SerialSame
  <2> QED BY <2>1, <2>2
<1>3. ASSUME NEW r \in Requests, ListCancelled(r) PROVE SerialInv'
  <2>1. \A q \in Requests : /\ phase'[q] # "idle" => phase[q] # "idle"
                            /\ scheduled'[q] <= 1
    BY <1>3 DEF ListCancelled, Release, SerialInv, TypeOK
  <2> QED BY <1>3, <2>1, SerialSame DEF ListCancelled, sceneVars
<1>4. ASSUME NEW r \in Requests, NEW d \in downloads[r], NEW loaded \in BOOLEAN,
             ImageData(r, d, loaded)
      PROVE  SerialInv'
  <2>1. phase' = phase /\ \A q \in Requests : scheduled'[q] <= 1
    BY <1>4 DEF ImageData, SerialInv, TypeOK, CancelPreviousAndPerform
  <2> QED BY <1>4, <2>1, SerialSame DEF ImageData, sceneVars
<1>5. ASSUME NEW r \in Requests, ImageDownloadComplete(r) PROVE SerialInv'
  <2>1. CASE Trap("category")
    BY <2>1, SerialSame DEF SerialInv, Trap, getListVars, sceneVars
  <2>2. CASE ~Trap("category")
    <3>1. Release(r) /\ getListDone' = TRUE /\ UNCHANGED viewLoaded
      BY <1>5, <2>2, PromptEnds
    <3>2. phase[r] # "idle"
      BY <1>5, PerformCompletesPage DEF PagesHaveRows
    <3>3. \A q \in Requests : phase'[q] = "idle" /\ scheduled'[q] <= 1
      BY <3>1, <3>2 DEF Release, SerialInv, OneRequestAtATime, TypeOK
    <3>4. viewLoaded
      BY <3>2 DEF SerialInv
    <3> QED BY <3>1, <3>3, <3>4 DEF SerialInv, OneRequestAtATime
  <2> QED BY <2>1, <2>2
<1>6. ASSUME NEW r \in Requests, NEW visibleRow, NextPage(r, visibleRow) PROVE SerialInv'
  <2>1. \A q \in Requests : phase'[q] # "idle" => q = r
    BY <1>6 DEF NextPage, GetList, SerialInv, OneRequestAtATime, TypeOK
  <2>2. viewLoaded /\ UNCHANGED <<viewLoaded, scheduled>> /\ ~getListDone'
    BY <1>6 DEF NextPage, GetList, SerialInv
  <2> QED BY <2>1, <2>2 DEF SerialInv, OneRequestAtATime
<1>7. CASE UNCHANGED <<phase, scheduled, getListDone, viewLoaded>>
  BY <1>7, SerialSame DEF SerialInv
<1> QED BY <1>1, <1>2, <1>3, <1>4, <1>5, <1>6, <1>7
        DEF Next, Scroll, vars, getListVars, sceneVars, Publish, Remove

(* A page's request is one at a time and none while the guard is open      *)
(* (nextPage closes getListDone, displayGetList opens it).                 *)
THEOREM RequestsAreSerial == ASSUME PromptImages PROVE Spec => []OneRequestAtATime
<1>1. Init => SerialInv
  BY DEF Init, SerialInv, OneRequestAtATime
<1>2. TypeOK /\ PagesHaveRows /\ SerialInv /\ [Next]_vars => SerialInv'
  BY SerialStep
<1>3. SerialInv => OneRequestAtATime
  BY DEF SerialInv
<1> QED BY <1>1, <1>2, <1>3, TypeInit, TypeStep, PagesInit, PagesStep, PTL DEF Spec

(* A page's rows are displayable, ascend, and lie above the query's cursor *)
(* even when its entry was removed.                                        *)
LEMMA NewPageIsOrdered ==
  ASSUME TypeOK, NEW lo \in Cursor, PAGE_SIZE \in Nat \ {0},
         NEW children \in OrderedByKey(QueryPage(server, lo, PAGE_SIZE)),
         ~RemoveFirstTraps(children, lo),
         NEW rows \in InitWith(RemoveFirst(children, lo))
  PROVE  \A i \in 1..Len(rows) :
           /\ lo < rows[i].key
           /\ DisplayTypeOf[rows[i].key] # "nil"
           /\ \A j \in 1..Len(rows) : i < j => rows[i].key < rows[j].key
<1> DEFINE Q == QueryPage(server, lo, PAGE_SIZE)
           objs == RemoveFirst(children, lo)
<1>1. Q \in SUBSET Keys /\ \A k \in Q : k \in Int /\ k > FIRST_KEY /\ k >= lo
  BY QueryPageInServer, KeysAboveFirst DEF TypeOK, FIRST_KEY
<1>2. /\ children \in Seq(Keys) /\ Len(children) \in Nat
      /\ \A i, j \in 1..Len(children) : i < j => children[i] < children[j]
      /\ \A i \in 1..Len(children) : children[i] \in Q
  <2>1. Q \in SUBSET Keys /\ children \in OrderedByKey(Q)
    BY <1>1
  <2> HIDE DEF Q
  <2> QED BY <2>1, OrderedByKeyIsSeq, LenProperties
<1>3. objs \in Seq(Keys)
  <2>1. Q \in SUBSET Keys /\ children \in OrderedByKey(Q)
    BY <1>1
  <2> HIDE DEF Q
  <2> QED BY <2>1, RemoveFirstType
<1>4. ASSUME NEW i \in 1..Len(objs) PROVE lo < objs[i]
  <2>1. CASE lo = FIRST_KEY
    BY <1>1, <1>2, <2>1 DEF RemoveFirst
  <2>2. CASE lo # FIRST_KEY
    <3>1. children # <<>> /\ objs = Tail(children)
      BY <2>2 DEF RemoveFirst, RemoveFirstTraps
    <3>2. Len(objs) = Len(children) - 1 /\ objs[i] = children[i + 1]
      BY <1>2, <3>1, HeadTailProperties
    <3>3. 1 \in 1..Len(children) /\ i + 1 \in 1..Len(children) /\ 1 < i + 1
      BY <1>2, <3>2
    <3>4. children[1] < children[i + 1] /\ children[1] \in Q /\ children[i + 1] \in Q
      BY <1>2, <3>3
    <3>5. lo \in Int
      BY KeysAboveFirst DEF Cursor, EMPTY_KEY, FIRST_KEY
    <3>6. children[1] \in Int /\ children[1] >= lo /\ children[i + 1] \in Int
      BY <1>1, <3>4
    <3> QED BY <3>2, <3>4, <3>5, <3>6
  <2> QED BY <2>1, <2>2
<1>5. /\ \A i \in 1..Len(rows) : rows[i].key \in Keys
      /\ \A i, j \in 1..Len(rows) : i < j => rows[i].key < rows[j].key
      /\ KeysOf(rows) = {k \in {objs[i] : i \in 1..Len(objs)} : DisplayTypeOf[k] # "nil"}
  <2> HIDE DEF objs
  <2>1. rows \in InitWith(objs)
    BY DEF objs
  <2> QED BY <1>3, <2>1, InitWithKeeps
<1>6. ASSUME NEW i \in 1..Len(rows)
      PROVE  lo < rows[i].key /\ DisplayTypeOf[rows[i].key] # "nil"
  <2>1. rows[i].key \in KeysOf(rows)
    BY <1>5, KeysAboveFirst DEF KeysOf
  <2> HIDE DEF objs
  <2> QED BY <1>4, <1>5, <2>1
<1> QED BY <1>5, <1>6

(* The part of OrderInv about one request.                                 *)
RequestOrdered(r) ==
  /\ \A i \in 1..Len(page[r]) :
       /\ start[r] < page[r][i].key
       /\ DisplayTypeOf[page[r][i].key] # "nil"
       /\ \A j \in 1..Len(page[r]) : i < j => page[r][i].key < page[r][j].key
  /\ phase[r] # "idle" => start[r] = lastKey

LEMMA OrderSame ==
  ASSUME OrderInv, UNCHANGED <<list, lastKey>>, \A q \in Requests : RequestOrdered(q)'
  PROVE  OrderInv'
  BY DEF OrderInv, RequestOrdered, RowsInKeyOrder

LEMMA OrderEmptyPage ==
  ASSUME TypeOK, OrderInv, NEW r \in Requests, page'[r] = <<>>,
         phase'[r] # "idle" => start'[r] = lastKey',
         UNCHANGED <<list, lastKey>>,
         \A q \in Requests : q # r => /\ page'[q] = page[q] /\ start'[q] = start[q]
                                      /\ phase'[q] = phase[q]
  PROVE  OrderInv'
<1>1. RequestOrdered(r)'
  BY EmptySeq DEF RequestOrdered
<1>2. \A q \in Requests : q # r => RequestOrdered(q)'
  BY DEF OrderInv, RequestOrdered
<1> QED BY <1>1, <1>2, OrderSame

LEMMA OrderRelease ==
  ASSUME TypeOK, OrderInv, NEW r \in Requests, Release(r), UNCHANGED <<list, lastKey>>
  PROVE  OrderInv'
<1>1. /\ page'[r] = <<>> /\ phase'[r] = "idle"
      /\ \A q \in Requests : q # r => /\ page'[q] = page[q] /\ start'[q] = start[q]
                                      /\ phase'[q] = phase[q]
  BY DEF Release, TypeOK
<1> QED BY <1>1, OrderEmptyPage

LEMMA OrderGetList ==
  ASSUME TypeOK, PagesHaveRows, OrderInv, NEW r \in Requests, GetList(r),
         UNCHANGED <<list, lastKey>>
  PROVE  OrderInv'
<1>1. page[r] = <<>> /\ page' = page
  BY DEF GetList, PagesHaveRows
<1>2. /\ start'[r] = lastKey
      /\ \A q \in Requests : q # r => start'[q] = start[q] /\ phase'[q] = phase[q]
  BY DEF GetList, TypeOK
<1> QED BY <1>1, <1>2, OrderEmptyPage

LEMMA OrderSnapshot ==
  ASSUME TypeOK, PagesHaveRows, OrderInv, NEW r \in Requests, ListSnapshot(r)
  PROVE  OrderInv'
<1>1. CASE Trap("removeFirst")
  BY <1>1, OrderSame DEF OrderInv, RequestOrdered, Trap, getListVars, sceneVars
<1>2. CASE ~Trap("removeFirst") /\ Release(r)
  BY <1>2, SnapshotMakesPage, OrderRelease DEF sceneVars
<1>3. CASE ~Trap("removeFirst") /\ ~Release(r)
  <2>1. UNCHANGED <<list, lastKey>> /\ phase[r] = "query"
    BY <1>3, SnapshotMakesPage DEF sceneVars
  <2>2. PICK children \in OrderedByKey(QueryPage(server, start[r], PAGE_SIZE)) :
          /\ ~RemoveFirstTraps(children, start[r])
          /\ \E rows \in InitWith(RemoveFirst(children, start[r])) :
               /\ phase' = [phase EXCEPT ![r] = "page"]
               /\ page' = [page EXCEPT ![r] = rows] /\ UNCHANGED start
    BY <1>3, SnapshotMakesPage
  <2>3. PICK rows \in InitWith(RemoveFirst(children, start[r])) :
          /\ phase' = [phase EXCEPT ![r] = "page"]
          /\ page' = [page EXCEPT ![r] = rows] /\ UNCHANGED start
    BY <2>2
  <2>4. start[r] \in Cursor /\ PAGE_SIZE \in Nat \ {0}
    BY ModelAssumption DEF TypeOK, ModelAssumption
  <2>5. \A i \in 1..Len(rows) :
           /\ start[r] < rows[i].key
           /\ DisplayTypeOf[rows[i].key] # "nil"
           /\ \A j \in 1..Len(rows) : i < j => rows[i].key < rows[j].key
    BY <2>2, <2>4, NewPageIsOrdered
  <2>6. /\ page'[r] = rows /\ start' = start /\ lastKey' = lastKey
        /\ \A q \in Requests : q # r => page'[q] = page[q] /\ phase'[q] = phase[q]
    BY <2>1, <2>3 DEF TypeOK
  <2>7. RequestOrdered(r)'
    BY <2>1, <2>5, <2>6 DEF RequestOrdered, OrderInv
  <2>8. \A q \in Requests : q # r => RequestOrdered(q)'
    BY <2>6 DEF RequestOrdered, OrderInv
  <2> QED BY <2>1, <2>7, <2>8, OrderSame
<1> QED BY <1>1, <1>2, <1>3

LEMMA OrderImageData ==
  ASSUME TypeOK, OrderInv, NEW r \in Requests, NEW d \in downloads[r], NEW loaded \in BOOLEAN,
         ImageData(r, d, loaded)
  PROVE  OrderInv'
<1>1. UNCHANGED <<list, lastKey, start, phase>>
  BY DEF ImageData, sceneVars
<1>2. ASSUME NEW q \in Requests PROVE RequestOrdered(q)'
  <2>1. /\ Len(page'[q]) = Len(page[q])
        /\ \A i \in 1..Len(page[q]) : page'[q][i].key = page[q][i].key
    BY ImageDataKeepsPages
  <2> QED BY <1>1, <2>1 DEF RequestOrdered, OrderInv
<1> QED BY <1>1, <1>2, OrderSame

(* A list extended by a page that lies above it.                           *)
LEMMA OrderCompletion ==
  ASSUME TypeOK, PagesHaveRows, OrderInv, NEW r \in Requests,
         ImageDownloadComplete(r), Completion(page[r])
  PROVE  /\ lastKey' = page[r][Len(page[r])].key
         /\ list' # <<>> /\ list'[Len(list')].key = lastKey'
         /\ \A i \in 1..Len(list') : list'[i].key <= lastKey'
         /\ RowsInKeyOrder'
<1> DEFINE rows == page[r]
<1>1. /\ rows \in Seq(Row) /\ rows # <<>> /\ \A i \in 1..Len(rows) : rows[i].key \in Keys
      /\ phase[r] # "idle" /\ start[r] = lastKey
  BY PerformCompletesPage DEF PagesHaveRows, OrderInv
<1>2. Len(list) \in Nat /\ Len(rows) \in Nat \ {0} /\ list \in Seq(Row)
  BY <1>1, EmptySeq, LenProperties DEF TypeOK
<1>3. PICK n \in {0, 1} :
        /\ Len(list') = n + Len(list) + Len(rows)
        /\ \A i \in 1..Len(list) : list'[n + i] = list[i]
        /\ \A i \in 1..Len(rows) : list'[n + Len(list) + i] = rows[i]
        /\ n = 1 => list'[1] = Header
  BY <1>1, CompletionRows
<1> HIDE DEF rows
<1>4. list'[Len(list')] = rows[Len(rows)] /\ rows[Len(rows)].key \in Keys /\ list' # <<>>
  <2>1. Len(rows) \in 1..Len(rows)
    BY <1>2
  <2>2. Len(list') # 0
    BY <1>2, <1>3
  <2> QED BY <1>1, <1>3, <2>1, <2>2, EmptySeq
<1>5. lastKey' = rows[Len(rows)].key
  BY <1>4, KeysAboveFirst DEF Completion, Display, LastKey, rows
<1>6. /\ \A i \in 1..Len(rows) : rows[i].key \in Int
      /\ \A i \in 1..Len(list) : list[i].key \in Int
      /\ lastKey \in Int
  <2>1. \A i \in 1..Len(list) : list[i] \in Row
    BY <1>2, ElementOfSeq
  <2>2. \A i \in 1..Len(list) : list[i].key \in Keys \cup {NoKey}
    BY <2>1 DEF Row
  <2>3. \A k \in Keys \cup {NoKey} : k \in Int
    BY KeysAboveFirst DEF NoKey
  <2>4. lastKey \in Int
    BY KeysAboveFirst DEF TypeOK, Cursor, EMPTY_KEY, FIRST_KEY
  <2> QED BY <1>1, <2>2, <2>3, <2>4
<1>7. /\ \A i \in 1..Len(rows) : /\ lastKey < rows[i].key
                                 /\ \A j \in 1..Len(rows) : i < j => rows[i].key < rows[j].key
      /\ \A i \in 1..Len(list) : list[i].key <= lastKey
      /\ RowsInKeyOrder
  BY <1>1 DEF OrderInv, rows
<1>8. \A i \in 1..Len(list') : \/ i = 1 /\ n = 1
                               \/ i - n \in 1..Len(list)
                               \/ i - n - Len(list) \in 1..Len(rows)
  BY <1>2, <1>3
<1>9. \A i \in 1..Len(list') :
        /\ i - n \in 1..Len(list) => list'[i] = list[i - n]
        /\ i - n - Len(list) \in 1..Len(rows) => list'[i] = rows[i - n - Len(list)]
  <2>1. ASSUME NEW i \in 1..Len(list'), i - n \in 1..Len(list) PROVE list'[i] = list[i - n]
    <3>1. n + (i - n) = i
      BY <1>2, <1>3
    <3> QED BY <1>3, <2>1, <3>1
  <2>2. ASSUME NEW i \in 1..Len(list'), i - n - Len(list) \in 1..Len(rows)
        PROVE  list'[i] = rows[i - n - Len(list)]
    <3>1. n + Len(list) + (i - n - Len(list)) = i
      BY <1>2, <1>3
    <3> QED BY <1>3, <2>2, <3>1
  <2> QED BY <2>1, <2>2
<1>10. \A i \in 1..Len(rows) : rows[i].key <= rows[Len(rows)].key
  <2>1. ASSUME NEW i \in 1..Len(rows) PROVE rows[i].key <= rows[Len(rows)].key
    <3>1. Len(rows) \in 1..Len(rows) /\ (i = Len(rows) \/ i < Len(rows))
      BY <1>2
    <3> QED BY <1>6, <1>7, <3>1
  <2> QED BY <2>1
<1>11. ASSUME NEW i \in 1..Len(list') PROVE list'[i].key <= lastKey'
  <2>1. CASE i = 1 /\ n = 1
    BY <1>3, <1>4, <1>5, <2>1, KeysAboveFirst DEF Header, NoKey
  <2>2. CASE i - n \in 1..Len(list)
    <3>1. Len(rows) \in 1..Len(rows)
      BY <1>2
    <3> QED BY <1>5, <1>6, <1>7, <1>9, <2>2, <3>1
  <2>3. CASE i - n - Len(list) \in 1..Len(rows)
    BY <1>5, <1>9, <1>10, <2>3
  <2> QED BY <1>8, <2>1, <2>2, <2>3
<1>12. ASSUME NEW i \in 1..Len(list'), NEW j \in 1..Len(list'), i < j, list'[i].key # NoKey
       PROVE  list'[i].key < list'[j].key
  <2>1. ~(i = 1 /\ n = 1) /\ ~(j = 1 /\ n = 1)
    BY <1>2, <1>3, <1>12 DEF Header
  <2>2. CASE i - n \in 1..Len(list) /\ j - n \in 1..Len(list)
    <3>1. i - n < j - n
      BY <1>12
    <3> QED BY <1>7, <1>9, <1>12, <2>2, <3>1 DEF RowsInKeyOrder
  <2>3. CASE i - n \in 1..Len(list) /\ j - n - Len(list) \in 1..Len(rows)
    BY <1>6, <1>7, <1>9, <2>3
  <2>4. CASE i - n - Len(list) \in 1..Len(rows) /\ j - n - Len(list) \in 1..Len(rows)
    <3>1. i - n - Len(list) < j - n - Len(list)
      BY <1>2, <1>12
    <3> QED BY <1>7, <1>9, <2>4, <3>1
  <2>5. ~(i - n - Len(list) \in 1..Len(rows) /\ j - n \in 1..Len(list))
    BY <1>2, <1>12
  <2> QED BY <1>8, <2>1, <2>2, <2>3, <2>4, <2>5
<1>13. RowsInKeyOrder'
  BY <1>12 DEF RowsInKeyOrder
<1> QED BY <1>4, <1>5, <1>11, <1>13 DEF rows

LEMMA OrderPerform ==
  ASSUME PromptImages, TypeOK, PagesHaveRows, SerialInv, OrderInv, NEW r \in Requests,
         ImageDownloadComplete(r)
  PROVE  OrderInv'
<1>1. CASE Trap("category")
  BY <1>1, OrderSame DEF OrderInv, RequestOrdered, Trap, getListVars, sceneVars
<1>2. CASE ~Trap("category")
  <2>1. Completion(page[r]) /\ Release(r)
    BY <1>2, PromptEnds
  <2>2. phase[r] # "idle"
    BY PerformCompletesPage DEF PagesHaveRows
  <2>3. \A q \in Requests : phase'[q] = "idle" /\ page'[q] = <<>>
    BY <2>1, <2>2 DEF Release, SerialInv, OneRequestAtATime, TypeOK, PagesHaveRows
  <2>4. \A q \in Requests : Len(page'[q]) = 0
    BY <2>3, EmptySeq
  <2> QED BY <2>1, <2>3, <2>4, OrderCompletion DEF OrderInv
<1> QED BY <1>1, <1>2

LEMMA OrderStep ==
  ASSUME PromptImages, TypeOK, PagesHaveRows, SerialInv, OrderInv, [Next]_vars
  PROVE  OrderInv'
<1>1. CASE UNCHANGED <<list, lastKey, phase, start, page>>
  BY <1>1, OrderSame DEF OrderInv, RequestOrdered
<1>2. ASSUME NEW r \in Requests, GetList(r), UNCHANGED <<list, lastKey>> PROVE OrderInv'
  BY <1>2, OrderGetList
<1>3. ASSUME NEW r \in Requests, ListSnapshot(r) PROVE OrderInv'
  BY <1>3, OrderSnapshot
<1>4. ASSUME NEW r \in Requests, ListCancelled(r) PROVE OrderInv'
  BY <1>4, OrderRelease DEF ListCancelled, sceneVars
<1>5. ASSUME NEW r \in Requests, NEW d \in downloads[r], NEW loaded \in BOOLEAN,
             ImageData(r, d, loaded)
      PROVE  OrderInv'
  BY <1>5, OrderImageData
<1>6. ASSUME NEW r \in Requests, ImageDownloadComplete(r) PROVE OrderInv'
  BY <1>6, OrderPerform
<1> QED BY <1>1, <1>2, <1>3, <1>4, <1>5, <1>6
        DEF Next, Scroll, vars, getListVars, sceneVars, ViewDidLoad, NextPage, Publish, Remove

LEMMA OrderInit == Init => OrderInv
  BY EmptySeq DEF Init, OrderInv, RowsInKeyOrder

(* The rows ascend by key, so that no entry is shown twice: each page is   *)
(* appended to the list whose last key its query started at                *)
(* (listPagination, append, object(indexOf: count - 1)).                   *)
THEOREM RowsAscend == ASSUME PromptImages PROVE Spec => []RowsInKeyOrder
<1>1. TypeOK /\ PagesHaveRows /\ SerialInv /\ OrderInv /\ [Next]_vars => SerialInv' /\ OrderInv'
  BY SerialStep, OrderStep
<1>2. OrderInv => RowsInKeyOrder
  BY DEF OrderInv
<1>3. Init => SerialInv
  BY DEF Init, SerialInv, OneRequestAtATime
<1> QED BY <1>1, <1>2, <1>3, OrderInit, TypeInit, TypeStep, PagesInit, PagesStep, PTL DEF Spec

-----------------------------------------------------------------------------
(* While images are prompt and nothing is removed, the scene implements    *)
(* the ordered feed.                                                       *)

Ordered == INSTANCE OrderedFeed
             WITH Displayable <- {k \in Keys : DisplayTypeOf[k] # "nil"},
                  feed <- FeedOf(list)

Skipped(rows) == IF rows # <<>> /\ rows[1].key = NoKey THEN 1 ELSE 0

LEMMA FeedOfRows ==
  ASSUME NEW rows \in Seq(Row)
  PROVE  /\ Skipped(rows) \in {0, 1} /\ Skipped(rows) <= Len(rows)
         /\ Len(FeedOf(rows)) = Len(rows) - Skipped(rows)
         /\ \A i \in 1..(Len(rows) - Skipped(rows)) :
              FeedOf(rows)[i] = rows[i + Skipped(rows)].key
         /\ FeedOf(rows) \in Seq(Keys \cup {NoKey})
<1> DEFINE s == Skipped(rows)
<1>1. Len(rows) \in Nat /\ (rows # <<>> => Len(rows) # 0)
  BY EmptySeq, LenProperties
<1>2. s \in {0, 1} /\ s <= Len(rows)
  BY <1>1 DEF Skipped
<1>3. FeedOf(rows) = [i \in 1..(Len(rows) - s) |-> rows[i + s].key]
  BY DEF FeedOf, Skipped
<1> HIDE DEF s
<1>4. \A i \in 1..(Len(rows) - s) : i + s \in 1..Len(rows)
  BY <1>1, <1>2
<1>5. \A i \in 1..Len(rows) : rows[i].key \in Keys \cup {NoKey}
  <2>1. \A i \in 1..Len(rows) : rows[i] \in Row
    BY ElementOfSeq
  <2> QED BY <2>1 DEF Row
<1>6. FeedOf(rows) \in [1..(Len(rows) - s) -> Keys \cup {NoKey}] /\ Len(rows) - s \in Nat
  BY <1>1, <1>2, <1>3, <1>4, <1>5
<1>7. FeedOf(rows) \in Seq(Keys \cup {NoKey})
  BY <1>6, SeqDef
<1>8. DOMAIN FeedOf(rows) = 1..(Len(rows) - s)
  BY <1>3
<1>9. Len(FeedOf(rows)) = Len(rows) - s
  BY <1>6, <1>7, <1>8, LenProperties
<1> QED BY <1>2, <1>3, <1>7, <1>9 DEF s

(* The notification row is only put above an empty list's first page.      *)
LEMMA FeedGrows ==
  ASSUME TypeOK, PagesHaveRows, OneHeader, NEW r \in Requests,
         ImageDownloadComplete(r), Completion(page[r])
  PROVE  /\ Len(FeedOf(list')) = Len(FeedOf(list)) + Len(page[r])
         /\ Len(FeedOf(list)) \in Nat /\ Len(page[r]) \in Nat \ {0}
         /\ \A i \in 1..Len(FeedOf(list)) : FeedOf(list')[i] = FeedOf(list)[i]
         /\ \A i \in 1..Len(page[r]) : FeedOf(list')[Len(FeedOf(list)) + i] = page[r][i].key
<1> DEFINE rows == page[r]
           s == Skipped(list)
           t == Skipped(list')
<1>1. /\ rows \in Seq(Row) /\ rows # <<>> /\ \A i \in 1..Len(rows) : rows[i].key \in Keys
  BY PerformCompletesPage
<1>2. /\ Len(list) \in Nat /\ Len(rows) \in Nat \ {0} /\ list \in Seq(Row)
      /\ list # <<>> => Len(list) # 0
  BY <1>1, EmptySeq, LenProperties DEF TypeOK
<1>3. PICK n \in {0, 1} :
        /\ Len(list') = n + Len(list) + Len(rows)
        /\ \A i \in 1..Len(list) : list'[n + i] = list[i]
        /\ \A i \in 1..Len(rows) : list'[n + Len(list) + i] = rows[i]
        /\ n = 1 => list'[1] = Header
  BY <1>1, CompletionRows
<1>4. list' \in Seq(Row)
  BY <1>1, AppendKeys, LastKeyOfPage, InsertOnceKeys DEF TypeOK, Completion, Display
<1> HIDE DEF rows
<1>5. list' # <<>> /\ 1 \in 1..Len(rows)
  BY <1>2, <1>3
<1>s. s \in {0, 1} /\ s <= Len(list)
  BY <1>2, FeedOfRows
<1>8. t = n + s
  <2>1. CASE list = <<>>
    <3>1. s = 0 /\ Len(list) = 0
      BY <2>1 DEF Skipped
    <3>2. n = 0 => list'[1] = rows[1] /\ rows[1].key # NoKey
      BY <1>1, <1>3, <1>5, <3>1, KeysAboveFirst DEF rows
    <3>3. t = n
      BY <1>3, <1>5, <3>2 DEF Skipped, Header
    <3> QED BY <3>1, <3>3
  <2>2. CASE list # <<>>
    <3>1. 1 \in 1..Len(list) /\ Category(list[1]) = "noti"
      BY <1>2, <2>2 DEF OneHeader
    <3>2. AppendList(list, rows)[1] = list[1] /\ Len(AppendList(list, rows)) = Len(list) + Len(rows)
      BY <1>1, <1>2, <3>1, AppendKeys DEF rows
    <3>3. list' = AppendList(list, rows)
      BY <3>1, <3>2 DEF Completion, Display, InsertOnce, rows
    <3>4. n = 0
      BY <1>2, <1>3, <3>2, <3>3
    <3>5. list'[1] = list[1]
      BY <3>2, <3>3
    <3>6. t = s
      BY <1>5, <2>2, <3>5 DEF Skipped
    <3> QED BY <3>4, <3>6, <1>s
  <2> QED BY <2>1, <2>2
<1>9. /\ s \in {0, 1} /\ s <= Len(list)
      /\ Len(FeedOf(list)) = Len(list) - s
      /\ \A i \in 1..(Len(list) - s) : FeedOf(list)[i] = list[i + s].key
  BY <1>2, FeedOfRows
<1>10. /\ Len(FeedOf(list')) = Len(list') - t
       /\ \A i \in 1..(Len(list') - t) : FeedOf(list')[i] = list'[i + t].key
  BY <1>4, FeedOfRows
<1> HIDE DEF s, t
<1>11. Len(FeedOf(list')) = Len(FeedOf(list)) + Len(rows)
  BY <1>2, <1>3, <1>8, <1>9, <1>10
<1>12. ASSUME NEW i \in 1..Len(FeedOf(list)) PROVE FeedOf(list')[i] = FeedOf(list)[i]
  <2>1. i \in 1..(Len(list') - t) /\ i + s \in 1..Len(list) /\ i + t = n + (i + s)
    BY <1>2, <1>3, <1>8, <1>9
  <2> QED BY <1>3, <1>9, <1>10, <2>1
<1>13. ASSUME NEW i \in 1..Len(rows)
       PROVE  FeedOf(list')[Len(FeedOf(list)) + i] = rows[i].key
  <2>1. /\ Len(FeedOf(list)) + i \in 1..(Len(list') - t)
        /\ (Len(FeedOf(list)) + i) + t = n + Len(list) + i
    BY <1>2, <1>3, <1>8, <1>9
  <2> QED BY <1>3, <1>10, <2>1
<1> QED BY <1>2, <1>9, <1>11, <1>12, <1>13 DEF rows

(* The last key of the feed is the cursor, once there is one.              *)
LEMMA LastIsCursor ==
  ASSUME TypeOK, OrderInv
  PROVE  \A k \in Keys : Ordered!Last < k <=> lastKey < k
<1>1. /\ Skipped(list) \in {0, 1} /\ Skipped(list) <= Len(list)
      /\ Len(FeedOf(list)) = Len(list) - Skipped(list)
      /\ \A i \in 1..(Len(list) - Skipped(list)) : FeedOf(list)[i] = list[i + Skipped(list)].key
      /\ FeedOf(list) \in Seq(Keys \cup {NoKey})
  BY FeedOfRows DEF TypeOK
<1>2. Len(list) \in Nat /\ (list # <<>> => Len(list) # 0)
  BY EmptySeq, LenProperties DEF TypeOK
<1>3. CASE list = <<>>
  <2>1. lastKey = FIRST_KEY /\ FeedOf(list) = <<>>
    <3>1. lastKey = FIRST_KEY /\ Len(FeedOf(list)) = 0
      BY <1>1, <1>3 DEF OrderInv, Skipped
    <3> QED BY <1>1, <3>1, EmptySeq
  <2>2. Ordered!Last = 0
    BY <2>1 DEF Ordered!Last
  <2> QED BY <2>1, <2>2, KeysAboveFirst DEF FIRST_KEY
<1>4. CASE list # <<>>
  <2>1. list[Len(list)].key = lastKey /\ lastKey # NoKey
    BY <1>4, KeysAboveFirst DEF OrderInv, TypeOK, Cursor, EMPTY_KEY, FIRST_KEY, NoKey
  <2>2. ~(Skipped(list) = 1 /\ Len(list) = 1)
    BY <1>4, <2>1 DEF Skipped
  <2>3. Len(list) - Skipped(list) \in 1..(Len(list) - Skipped(list))
    <3>1. \A a \in Nat : \A m \in {0, 1} :
            a # 0 /\ ~(m = 1 /\ a = 1) => a - m \in 1..(a - m)
      OBVIOUS
    <3> QED BY <1>1, <1>2, <1>4, <2>2, <3>1
  <2>4. FeedOf(list)[Len(FeedOf(list))] = lastKey
    <3>1. (Len(list) - Skipped(list)) + Skipped(list) = Len(list)
      BY <1>1, <1>2
    <3> QED BY <1>1, <2>1, <2>3, <3>1
  <2>5. FeedOf(list) # <<>>
    <3>1. Len(FeedOf(list)) # 0
      BY <1>1, <2>3
    <3> QED BY <3>1
  <2> QED BY <2>4, <2>5 DEF Ordered!Last
<1> QED BY <1>3, <1>4

(* A completion extends the feed by the very next displayable entries.     *)
LEMMA CompletionExtends ==
  ASSUME TypeOK, PagesHaveRows, OneHeader, KeyInv, OrderInv, NEW r \in Requests,
         ImageDownloadComplete(r), Completion(page[r]), UNCHANGED server
  PROVE  Ordered!Extend
<1> DEFINE rows == page[r]
           before == FeedOf(list)
           after == FeedOf(list')
           more == {after[i] : i \in (Len(before) + 1)..Len(after)}
           displayable == {k \in Keys : DisplayTypeOf[k] # "nil"}
<1>1. /\ rows \in Seq(Row) /\ \A i \in 1..Len(rows) : rows[i].key \in Keys
      /\ phase[r] = "page" /\ start[r] = lastKey
  BY PerformCompletesPage DEF PagesHaveRows, OrderInv
<1>2. /\ Len(after) = Len(before) + Len(rows)
      /\ Len(before) \in Nat /\ Len(rows) \in Nat \ {0}
      /\ \A i \in 1..Len(before) : after[i] = before[i]
      /\ \A i \in 1..Len(rows) : after[Len(before) + i] = rows[i].key
  BY FeedGrows
<1>3. \A i \in 1..Len(rows) :
        /\ lastKey < rows[i].key
        /\ DisplayTypeOf[rows[i].key] # "nil"
        /\ \A j \in 1..Len(rows) : i < j => rows[i].key < rows[j].key
  BY <1>1 DEF OrderInv
<1>4. /\ KeysOf(rows) \subseteq server
      /\ \A p \in KeysOf(rows) : \A k \in server :
           DisplayTypeOf[k] # "nil" /\ lastKey < k /\ k < p => k \in KeysOf(rows)
  BY <1>1 DEF KeyInv, RowsInServer, PagesHaveNoGap
<1>5. KeysOf(rows) = {rows[i].key : i \in 1..Len(rows)}
  BY <1>1, KeysAboveFirst DEF KeysOf
<1> HIDE DEF rows, before, after
<1>6. \A i \in (Len(before) + 1)..Len(after) :
        i - Len(before) \in 1..Len(rows) /\ after[i] = rows[i - Len(before)].key
  <2>1. ASSUME NEW i \in (Len(before) + 1)..Len(after)
        PROVE  i - Len(before) \in 1..Len(rows) /\ after[i] = rows[i - Len(before)].key
    <3>1. i - Len(before) \in 1..Len(rows) /\ Len(before) + (i - Len(before)) = i
      BY <1>2
    <3> QED BY <1>2, <3>1
  <2> QED BY <2>1
<1>7. more = KeysOf(rows)
  <2>1. \A i \in 1..Len(rows) : Len(before) + i \in (Len(before) + 1)..Len(after)
    BY <1>2
  <2> QED BY <1>2, <1>5, <1>6, <2>1
<1>8. after[Len(after)] = rows[Len(rows)].key /\ Len(rows) \in 1..Len(rows)
  BY <1>2
<1>9. \A k \in Keys : Ordered!Last < k <=> lastKey < k
  BY LastIsCursor
<1>10. more = {k \in server \cap displayable : Ordered!Last < k /\ k <= after[Len(after)]}
  <2>1. ASSUME NEW k \in KeysOf(rows)
        PROVE  /\ k \in server /\ k \in displayable /\ Ordered!Last < k
               /\ k <= after[Len(after)]
    <3>1. PICK i \in 1..Len(rows) : rows[i].key = k
      BY <1>5
    <3>2. k \in Keys /\ rows[Len(rows)].key \in Keys /\ (i < Len(rows) \/ i = Len(rows))
      BY <1>1, <1>2, <1>8, <3>1 DEF rows
    <3>3. k <= rows[Len(rows)].key
      BY <1>3, <1>8, <3>1, <3>2, KeysAboveFirst
    <3> QED BY <1>3, <1>4, <1>8, <1>9, <3>1, <3>2, <3>3
  <2>2. ASSUME NEW k \in server \cap displayable, Ordered!Last < k, k <= after[Len(after)]
        PROVE  k \in KeysOf(rows)
    <3>1. rows[Len(rows)].key \in KeysOf(rows) /\ rows[Len(rows)].key \in Keys
      BY <1>1, <1>5, <1>8 DEF rows
    <3>2. lastKey < k /\ (k = rows[Len(rows)].key \/ k < rows[Len(rows)].key)
      BY <1>8, <1>9, <2>2, <3>1, KeysAboveFirst
    <3> QED BY <1>4, <2>2, <3>1, <3>2
  <2> HIDE DEF more, displayable
  <2> QED BY <1>7, <2>1, <2>2
<1>11. \A i \in (Len(before) + 1)..(Len(after) - 1) : after[i] < after[i + 1]
  <2>1. ASSUME NEW i \in (Len(before) + 1)..(Len(after) - 1) PROVE after[i] < after[i + 1]
    <3>1. /\ i \in (Len(before) + 1)..Len(after) /\ i + 1 \in (Len(before) + 1)..Len(after)
          /\ i - Len(before) < (i + 1) - Len(before)
      BY <1>2
    <3> QED BY <1>3, <1>6, <3>1
  <2> QED BY <2>1
<1>12. Len(after) > Len(before)
  BY <1>2
<1> QED BY <1>2, <1>10, <1>11, <1>12 DEF Ordered!Extend, before, after

(* The scene implements the ordered feed: what it shows is always a growing *)
(* prefix, without repetition, of the displayable entries.                 *)
THEOREM FeedIsOrdered ==
  ASSUME PromptImages, Removable = {}
  PROVE  Spec => Ordered!Spec
<1>1. Init => Ordered!Init
  <2> SUFFICES ASSUME Init PROVE Ordered!Init
    OBVIOUS
  <2>1. list = <<>> /\ server \subseteq Keys
    BY DEF Init
  <2>2. <<>> \in Seq(Row) /\ Len(<<>>) = 0 /\ Skipped(<<>>) = 0
    BY DEF Skipped
  <2>3. FeedOf(list) = <<>>
    <3>1. /\ Len(FeedOf(list)) = Len(list) - Skipped(list)
          /\ FeedOf(list) \in Seq(Keys \cup {NoKey})
      BY <2>1, <2>2, FeedOfRows
    <3> QED BY <2>1, <2>2, <3>1, EmptySeq
  <2> QED BY <2>1, <2>3 DEF Ordered!Init
<1>2. ASSUME TypeOK, PagesHaveRows, OneHeader, KeyInv, SerialInv, OrderInv, [Next]_vars
      PROVE  [Ordered!Next]_<<server, FeedOf(list)>>
  <2>1. CASE UNCHANGED <<server, list>>
    BY <2>1
  <2>2. ASSUME NEW r \in Requests, ListSnapshot(r) PROVE UNCHANGED <<server, list>>
    BY <1>2, <2>2, SnapshotMakesPage DEF Trap, sceneVars
  <2>3. ASSUME NEW r \in Requests, ImageDownloadComplete(r)
        PROVE  UNCHANGED <<server, list>> \/ Ordered!Extend
    <3>1. CASE Trap("category")
      BY <3>1 DEF Trap, sceneVars
    <3>2. CASE ~Trap("category")
      <4>1. Completion(page[r]) /\ UNCHANGED server
        BY <1>2, <2>3, <3>2, PromptEnds
      <4> QED BY <1>2, <2>3, <4>1, CompletionExtends
    <3> QED BY <3>1, <3>2
  <2>4. ASSUME NEW k \in Keys, Publish(k) PROVE Ordered!Publish
    BY <2>4 DEF Publish, Ordered!Publish, sceneVars
  <2>5. ASSUME NEW k \in Keys, Remove(k) PROVE FALSE
    BY <2>5 DEF Remove
  <2> QED BY <1>2, <2>1, <2>2, <2>3, <2>4, <2>5
          DEF Next, Scroll, vars, sceneVars, ViewDidLoad, NextPage, GetList, ListCancelled, ImageData,
              Ordered!Next
<1>3. TypeOK /\ PagesHaveRows /\ SerialInv /\ OrderInv /\ KeyInv /\ [Next]_vars
        => SerialInv' /\ OrderInv' /\ KeyInv'
  BY SerialStep, OrderStep, KeyInvStep
<1>4. Init => SerialInv
  BY DEF Init, SerialInv, OneRequestAtATime
<1>5. Spec => []OneHeader
  BY HeaderIsUnique
<1> QED BY <1>1, <1>2, <1>3, <1>4, <1>5, OrderInit, KeyInvInit, TypeInit, TypeStep, PagesInit,
           PagesStep, PTL DEF Spec, Ordered!Spec
==============================================================================
