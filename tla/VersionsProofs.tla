--------------------------- MODULE VersionsProofs ---------------------------
(***************************************************************************)
(* What the operators of Versions compute, for any number of keys, levels  *)
(* and files: orders and sorted sequences, the search among the files of a *)
(* level, the files that overlap a range, and the outputs of a compaction. *)
(***************************************************************************)
EXTENDS Versions, FiniteSetTheorems, SequenceTheorems, WellFoundedInduction, TLAPS

-----------------------------------------------------------------------------
(* Numbers, orders and recursion *)

LEMMA LeastNumber ==
  ASSUME NEW S \in SUBSET Nat, S # {}
  PROVE  \E k \in S : \A m \in S : k <= m
<1> DEFINE R == OpToRel(<, Nat)
<1>1. IsWellFoundedOn(R, Nat)
  BY NatLessThanWellFounded
<1>2. PICK k \in S : \A m \in S : ~ (<<m, k>> \in R)
  <2> HIDE DEF R
  <2> QED BY <1>1, WFMin
<1>3. ASSUME NEW m \in S PROVE k <= m
  <2>1. <<m, k>> \notin {ss \in Nat \X Nat : ss[1] < ss[2]}
    BY <1>2 DEF OpToRel
  <2> QED BY <2>1
<1> QED BY <1>3

(* R is a strict total order of S.                                         *)
StrictOrder(R, S) ==
  /\ \A a \in S : <<a, a>> \notin R
  /\ \A a, b, c \in S : <<a, b>> \in R /\ <<b, c>> \in R => <<a, c>> \in R
  /\ \A a, b \in S : a # b => <<a, b>> \in R \/ <<b, a>> \in R

(* The elements of S before e; and s is S numbered by how many these are.  *)
Under(R, S, e) == {f \in S : <<f, e>> \in R}
Numbers(s, R, S) ==
  /\ s = [i \in 1..Cardinality(S) |-> s[i]]
  /\ \A i \in 1..Cardinality(S) :
       (\E e \in S : Cardinality(Under(R, S, e)) = i - 1)
         => s[i] \in S /\ Cardinality(Under(R, S, s[i])) = i - 1

LEMMA UnderGrows ==
  ASSUME NEW S, IsFiniteSet(S), NEW R, StrictOrder(R, S)
  PROVE  /\ \A a \in S : /\ IsFiniteSet(Under(R, S, a))
                         /\ Cardinality(Under(R, S, a)) \in 0..(Cardinality(S) - 1)
         /\ \A a, b \in S : <<a, b>> \in R =>
              Cardinality(Under(R, S, a)) < Cardinality(Under(R, S, b))
<1> DEFINE B(n) == Under(R, S, n)
           N    == Cardinality(S)
<1>1. N \in Nat
  BY FS_CardinalityType
<1>2. \A n \in S : IsFiniteSet(B(n)) /\ Cardinality(B(n)) \in Nat
  <2> TAKE n \in S
  <2>1. B(n) \in SUBSET S
    BY DEF Under
  <2>2. IsFiniteSet(B(n))
    BY <2>1, FS_Subset
  <2> QED BY <2>2, FS_CardinalityType
<1>3. ASSUME NEW n \in S PROVE Cardinality(B(n)) \in 0..(N - 1)
  <2>1. IsFiniteSet(S \ {n}) /\ Cardinality(S \ {n}) = N - 1
    BY FS_RemoveElement
  <2>2. B(n) \in SUBSET (S \ {n})
    BY DEF Under, StrictOrder
  <2>3. Cardinality(B(n)) <= N - 1
    BY <2>1, <2>2, FS_Subset
  <2> QED BY <1>1, <1>2, <2>3
<1>4. ASSUME NEW n \in S, NEW k \in S, <<n, k>> \in R
      PROVE  Cardinality(B(n)) < Cardinality(B(k))
  <2>1. n \notin B(n) /\ B(n) \cup {n} \in SUBSET B(k)
    BY <1>4 DEF Under, StrictOrder
  <2>2. Cardinality(B(n) \cup {n}) = Cardinality(B(n)) + 1
    BY <1>2, <2>1, FS_AddElement
  <2>3. Cardinality(B(n) \cup {n}) <= Cardinality(B(k))
    BY <1>2, <2>1, FS_Subset
  <2> QED BY <1>2, <2>2, <2>3
<1> QED BY <1>2, <1>3, <1>4

(* A finite set that is not empty has a first element.                     *)
LEMMA FirstOfOrder ==
  ASSUME NEW S, IsFiniteSet(S), S # {}, NEW R, StrictOrder(R, S)
  PROVE  \E e \in S : \A f \in S : f # e => <<e, f>> \in R
<1> DEFINE C(e)  == Cardinality(Under(R, S, e))
           ranks == {C(e) : e \in S}
<1>1. \A e \in S : C(e) \in Nat
  BY UnderGrows, FS_CardinalityType
<1>2. ranks \in SUBSET Nat /\ ranks # {}
  BY <1>1
<1>3. PICK k \in ranks : \A m \in ranks : k <= m
  <2> HIDE DEF ranks
  <2> QED BY <1>2, LeastNumber
<1>4. PICK e \in S : C(e) = k
  BY <1>3
<1>5. ASSUME NEW f \in S, <<f, e>> \in R PROVE FALSE
  <2>1. C(f) < C(e)
    BY <1>5, UnderGrows
  <2>2. C(e) <= C(f)
    BY <1>3, <1>4
  <2> QED BY <1>1, <2>1, <2>2
<1> QED BY <1>5 DEF StrictOrder

(* Numbering a finite set by its order leaves none out and follows it.     *)
LEMMA NumberedIs ==
  ASSUME NEW S, IsFiniteSet(S), NEW R, StrictOrder(R, S), NEW s, Numbers(s, R, S)
  PROVE  /\ s \in [1..Cardinality(S) -> S]
         /\ \A e \in S : \E i \in 1..Cardinality(S) : s[i] = e
         /\ \A i, j \in 1..Cardinality(S) : i < j => <<s[i], s[j]>> \in R
<1> DEFINE N    == Cardinality(S)
           C(e) == Cardinality(Under(R, S, e))
           rank == [e \in S |-> C(e) + 1]
<1>1. N \in Nat
  BY FS_CardinalityType
<1>2. \A e \in S : C(e) \in 0..(N - 1)
  BY UnderGrows
<1>3. \A a, b \in S : <<a, b>> \in R => C(a) < C(b)
  BY UnderGrows
<1> HIDE DEF C, N
<1>4. \A a, b \in S : rank[a] = rank[b] => a = b
  <2> SUFFICES ASSUME NEW a \in S, NEW b \in S, rank[a] = rank[b], a # b PROVE FALSE
    OBVIOUS
  <2>1. C(a) = C(b)
    BY <1>1, <1>2
  <2>2. <<a, b>> \in R \/ <<b, a>> \in R
    BY DEF StrictOrder
  <2> QED BY <1>1, <1>2, <1>3, <2>1, <2>2
<1>5. rank \in [S -> 1..N]
  BY <1>1, <1>2
<1>6. rank \in Injection(S, 1..N)
  BY <1>4, <1>5 DEF Injection, IsInjective
<1>7. IsFiniteSet(1..N) /\ Cardinality(1..N) = N
  BY <1>1, FS_Interval
<1>8. rank \in Surjection(S, 1..N)
  BY <1>6, <1>7, FS_Injection DEF N
<1>9. ASSUME NEW i \in 1..N
      PROVE  s[i] \in S /\ C(s[i]) = i - 1
  <2>1. PICK e \in S : rank[e] = i
    BY <1>8 DEF Surjection
  <2>2. C(e) = i - 1
    BY <1>1, <1>2, <2>1
  <2> QED BY <2>2 DEF Numbers, C, N
<1>10. s \in [1..N -> S]
  BY <1>9 DEF Numbers, N
<1>11. \A e \in S : \E i \in 1..N : s[i] = e
  <2> TAKE e \in S
  <2>1. rank[e] \in 1..N /\ rank[e] - 1 = C(e)
    BY <1>1, <1>2, <1>5
  <2>2. s[rank[e]] \in S /\ C(s[rank[e]]) = C(e)
    BY <1>9, <2>1
  <2>3. rank[s[rank[e]]] = rank[e]
    BY <2>2
  <2> QED BY <1>4, <2>1, <2>2, <2>3
<1>12. ASSUME NEW i \in 1..N, NEW j \in 1..N, i < j
       PROVE  <<s[i], s[j]>> \in R
  <2>1. s[i] \in S /\ s[j] \in S /\ C(s[i]) < C(s[j])
    BY <1>1, <1>9, <1>12
  <2>2. s[i] # s[j] /\ ~(C(s[j]) < C(s[i]))
    BY <1>1, <1>2, <2>1
  <2>3. <<s[j], s[i]>> \notin R
    BY <1>3, <2>1, <2>2
  <2> QED BY <2>1, <2>2, <2>3 DEF StrictOrder
<1> QED BY <1>10, <1>11, <1>12 DEF N

(* A recursion exists when each of its steps comes closer to a base: the   *)
(* value at x is a[x] in the base, and else the step st from that at nx[x].*)
Descends(D, V, N, r, Base, a, nx, st) ==
  /\ N \in Nat /\ r \in [D -> 0..N]
  /\ Base \in SUBSET D /\ a \in [Base -> V]
  /\ \A x \in D \ Base : nx[x] \in D /\ r[nx[x]] < r[x]
  /\ \A x \in D \ Base, v \in V : st[<<x, v>>] \in V

LEMMA RecursionExists ==
  ASSUME NEW D, NEW V, NEW N, NEW r, NEW Base, NEW a, NEW nx, NEW st,
         Descends(D, V, N, r, Base, a, nx, st)
  PROVE  \E f \in [D -> V] :
           f = [x \in D |-> IF x \in Base THEN a[x] ELSE st[<<x, f[nx[x]]>>]]
<1> DEFINE E(n)  == {x \in D : r[x] < n}
           Q(f, n) == /\ f \in [E(n) -> V]
                      /\ \A x \in E(n) :
                           f[x] = IF x \in Base THEN a[x] ELSE st[<<x, f[nx[x]]>>]
           Bad == {n \in Nat : \A f : ~Q(f, n)}
<1>0. /\ N \in Nat /\ r \in [D -> 0..N]
      /\ Base \in SUBSET D /\ a \in [Base -> V]
      /\ \A x \in D \ Base : nx[x] \in D /\ r[nx[x]] < r[x]
      /\ \A x \in D \ Base, v \in V : st[<<x, v>>] \in V
  BY DEF Descends
<1>1. \A x \in D : r[x] \in 0..N
  BY <1>0
<1>2. Bad = {}
  <2> SUFFICES ASSUME Bad # {} PROVE FALSE
    OBVIOUS
  <2>1. PICK k \in Bad : \A m \in Bad : k <= m
    <3>1. Bad \in SUBSET Nat
      OBVIOUS
    <3> HIDE DEF Bad
    <3> QED BY <3>1, LeastNumber
  <2>2. k # 0
    <3>1. E(0) = {}
      BY <1>1
    <3>2. Q([x \in {} |-> x], 0)
      BY <3>1
    <3> HIDE DEF Q
    <3> QED BY <2>1, <3>2
  <2>3. k - 1 \in Nat /\ k - 1 \notin Bad
    <3>1. k \in Nat /\ k - 1 < k /\ k - 1 \in Nat
      BY <2>1, <2>2
    <3> HIDE DEF Bad
    <3> QED BY <2>1, <3>1
  <2>4. PICK f : Q(f, k - 1)
    BY <2>3
  <2> DEFINE g == [x \in E(k) |-> IF x \in Base THEN a[x] ELSE st[<<x, f[nx[x]]>>]]
  <2>5. ASSUME NEW x \in E(k), x \notin Base PROVE nx[x] \in E(k - 1) /\ nx[x] \in E(k)
    <3>1. x \in D \ Base /\ r[x] < k /\ k \in Nat
      BY <2>1, <2>5
    <3>2. nx[x] \in D /\ r[nx[x]] < r[x] /\ r[nx[x]] \in Int /\ r[x] \in Int
      BY <1>0, <1>1, <3>1
    <3>3. r[nx[x]] < k - 1 /\ r[nx[x]] < k
      BY <3>1, <3>2
    <3> QED BY <3>2, <3>3
  <2>6. ASSUME NEW x \in E(k - 1) PROVE x \in E(k) /\ f[x] = g[x]
    <3>1. x \in D /\ r[x] \in Int /\ r[x] < k - 1 /\ k \in Nat
      BY <1>1, <2>1
    <3>2. x \in E(k)
      BY <3>1
    <3> QED BY <2>4, <3>2
  <2>7. ASSUME NEW x \in E(k)
        PROVE  g[x] \in V /\ g[x] = IF x \in Base THEN a[x] ELSE st[<<x, g[nx[x]]>>]
    <3>1. CASE x \in Base
      BY <1>0, <3>1
    <3>2. CASE x \notin Base
      <4>1. nx[x] \in E(k - 1) /\ f[nx[x]] = g[nx[x]] /\ f[nx[x]] \in V
        BY <2>4, <2>5, <2>6, <3>2
      <4>2. x \in D \ Base
        BY <3>2
      <4> QED BY <1>0, <3>2, <4>1, <4>2
    <3> QED BY <3>1, <3>2
  <2>8. Q(g, k)
    <3>1. g = [x \in E(k) |-> g[x]]
      OBVIOUS
    <3> HIDE DEF g, E
    <3> QED BY <2>7, <3>1
  <2> QED BY <2>1, <2>8
<1>3. N + 1 \in Nat /\ N + 1 \notin Bad
  <2>1. N + 1 \in Nat
    BY <1>0
  <2> HIDE DEF Bad
  <2> QED BY <1>2, <2>1
<1>4. PICK f : Q(f, N + 1)
  BY <1>3
<1>5. E(N + 1) = D
  BY <1>0, <1>1
<1>6. f = [x \in D |-> f[x]] /\ f \in [D -> V]
  BY <1>4, <1>5
<1>7. \A x \in D : f[x] = IF x \in Base THEN a[x] ELSE st[<<x, f[nx[x]]>>]
  BY <1>4, <1>5
<1> HIDE DEF E, Q
<1> QED BY <1>6, <1>7

(* A recursion that counts up to n from a in V, with steps that stay in V: *)
(* there is such a function, and its values are all in V.                  *)
Climbs(n, V, a, st) ==
  n \in Nat /\ a \in V /\ \A i \in 1..n, v \in V : st[<<i, v>>] \in V

Recurs(g, n, a, st) == g = [i \in 0..n |-> IF i = 0 THEN a ELSE st[<<i, g[i - 1]>>]]

LEMMA Climbing ==
  ASSUME NEW n, NEW V, NEW a, NEW st, Climbs(n, V, a, st)
  PROVE  /\ \E g : Recurs(g, n, a, st)
         /\ \A g : Recurs(g, n, a, st) => g \in [0..n -> V]
<1> DEFINE D    == 0..n
           r    == [i \in D |-> i]
           Base == {0}
           b    == [i \in Base |-> a]
           nx   == [i \in D |-> i - 1]
<1>1. n \in Nat /\ a \in V /\ \A i \in 1..n, v \in V : st[<<i, v>>] \in V
  BY DEF Climbs
<1>2. Descends(D, V, n, r, Base, b, nx, st)
  <2>1. r \in [D -> 0..n] /\ Base \in SUBSET D /\ b \in [Base -> V]
    BY <1>1
  <2>2. \A i \in D \ Base : i \in 1..n /\ nx[i] \in D /\ r[nx[i]] < r[i]
    BY <1>1
  <2> HIDE DEF D, r, Base, b, nx
  <2> QED BY <1>1, <2>1, <2>2 DEF Descends
<1>3. \E g : g = [i \in D |-> IF i = 0 THEN a ELSE st[<<i, g[i - 1]>>]]
  <2> HIDE DEF r, Base, b, nx, D
  <2>1. PICK g \in [D -> V] :
          g = [x \in D |-> IF x \in Base THEN b[x] ELSE st[<<x, g[nx[x]]>>]]
    BY <1>2, RecursionExists
  <2>2. ASSUME NEW i \in D PROVE g[i] = IF i = 0 THEN a ELSE st[<<i, g[i - 1]>>]
    <3>1. i = 0 => i \in Base /\ b[i] = a
      BY DEF Base, b
    <3>2. i # 0 => i \notin Base /\ nx[i] = i - 1
      BY DEF Base, nx
    <3> QED BY <2>1, <3>1, <3>2
  <2>3. g = [i \in D |-> g[i]]
    BY <2>1
  <2>4. g = [i \in D |-> IF i = 0 THEN a ELSE st[<<i, g[i - 1]>>]]
    BY <2>2, <2>3
  <2> QED BY <2>4
<1>4. ASSUME NEW g, g = [i \in D |-> IF i = 0 THEN a ELSE st[<<i, g[i - 1]>>]]
      PROVE  g \in [D -> V]
  <2> DEFINE Bad == {i \in D : g[i] \notin V}
  <2>1. Bad = {}
    <3> SUFFICES ASSUME Bad # {} PROVE FALSE
      OBVIOUS
    <3>1. PICK i \in Bad : \A j \in Bad : i <= j
      <4>1. Bad \in SUBSET Nat /\ Bad # {}
        BY <1>1
      <4> HIDE DEF Bad
      <4> QED BY <4>1, LeastNumber
    <3>2. i \in D /\ g[i] \notin V /\ g[i] = IF i = 0 THEN a ELSE st[<<i, g[i - 1]>>]
      BY <1>4, <3>1
    <3>3. i # 0
      BY <1>1, <3>2
    <3>4. i \in 1..n /\ i - 1 \in D /\ i - 1 < i /\ ~(i <= i - 1)
      BY <1>1, <3>2, <3>3
    <3>5. g[i - 1] \in V
      BY <3>1, <3>4
    <3> QED BY <1>1, <3>2, <3>3, <3>4, <3>5
  <2>2. g = [i \in D |-> g[i]]
    BY <1>4
  <2> QED BY <2>1, <2>2
<1> QED BY <1>3, <1>4 DEF Recurs

-----------------------------------------------------------------------------
(* Entries and files *)

Entry == [key : UserKeys, tag : Nat]
File  == {f \in [number : Nat, entries : SUBSET Entry] :
            f.entries # {} /\ IsFiniteSet(f.entries)}

BeforeOf(S)   == {p \in S \X S : Before(p[1], p[2])}
AfterOf(S)    == {p \in S \X S : Before(p[2], p[1])}
SmallestOf(F) == {p \in F \X F : BySmallestKey(p[1], p[2])}

LEMMA BeforeIsOrder ==
  /\ \A d \in Entry : ~Before(d, d)
  /\ \A d, e, f \in Entry : Before(d, e) /\ Before(e, f) => Before(d, f)
  /\ \A d, e \in Entry : d # e => Before(d, e) \/ Before(e, d)
<1>1. \A d \in Entry : ~Before(d, d)
  BY DEF Entry, UserKeys, Before
<1>2. \A d, e, f \in Entry : Before(d, e) /\ Before(e, f) => Before(d, f)
  BY KeyMaxAssumption DEF KeyMaxAssumption, Entry, UserKeys, Before
<1>3. \A d, e \in Entry : d # e => Before(d, e) \/ Before(e, d)
  BY KeyMaxAssumption DEF KeyMaxAssumption, Entry, UserKeys, Before
<1> QED BY <1>1, <1>2, <1>3

LEMMA EntriesOrdered ==
  ASSUME NEW S \in SUBSET Entry
  PROVE  StrictOrder(BeforeOf(S), S) /\ StrictOrder(AfterOf(S), S)
<1>1. \A d, e \in S : /\ <<d, e>> \in BeforeOf(S) <=> Before(d, e)
                      /\ <<d, e>> \in AfterOf(S) <=> Before(e, d)
  BY DEF BeforeOf, AfterOf
<1>2. /\ \A d \in S : ~Before(d, d)
      /\ \A d, e, f \in S : Before(d, e) /\ Before(e, f) => Before(d, f)
      /\ \A d, e \in S : d # e => Before(d, e) \/ Before(e, d)
  BY BeforeIsOrder
<1> HIDE DEF BeforeOf, AfterOf
<1> QED BY <1>1, <1>2 DEF StrictOrder

(* The first and the last of finitely many entries.                        *)
LEMMA FirstIs ==
  ASSUME NEW S \in SUBSET Entry, IsFiniteSet(S), S # {}
  PROVE  /\ First(S) \in S /\ \A e \in S : e # First(S) => Before(First(S), e)
         /\ LastKey(S) \in S /\ \A e \in S : e # LastKey(S) => Before(e, LastKey(S))
<1>1. PICK a \in S : \A f \in S : f # a => <<a, f>> \in BeforeOf(S)
  BY EntriesOrdered, FirstOfOrder
<1>2. PICK b \in S : \A f \in S : f # b => <<b, f>> \in AfterOf(S)
  BY EntriesOrdered, FirstOfOrder
<1>3. \A f \in S : ~Before(f, a) /\ ~Before(b, f)
  BY <1>1, <1>2, BeforeIsOrder DEF BeforeOf, AfterOf
<1>4. First(S) \in S /\ \A f \in S : ~Before(f, First(S))
  BY <1>3 DEF First
<1>5. LastKey(S) \in S /\ \A f \in S : ~Before(LastKey(S), f)
  BY <1>3 DEF LastKey
<1> QED BY <1>4, <1>5, BeforeIsOrder

LEMMA SequenceIs ==
  ASSUME NEW S, NEW n \in Nat, NEW s \in [1..n -> S]
  PROVE  s \in Seq(S) /\ Len(s) = n /\ DOMAIN s = 1..n
<1>1. s \in Seq(S)
  OBVIOUS
<1>2. Len(s) \in Nat /\ 1..Len(s) = 1..n
  BY <1>1, LenProperties
<1>3. n > Len(s) => n \in 1..n /\ n \notin 1..Len(s)
  BY <1>2
<1>4. Len(s) > n => Len(s) \in 1..Len(s) /\ Len(s) \notin 1..n
  BY <1>2
<1> QED BY <1>1, <1>2, <1>3, <1>4

(* Entries in their order, one after another.                              *)
LEMMA EntriesSorted ==
  ASSUME NEW S \in SUBSET Entry, IsFiniteSet(S)
  PROVE  LET s == Sorted(S, Before)
         IN  /\ s \in Seq(S) /\ Len(s) = Cardinality(S)
             /\ \A e \in S : \E i \in DOMAIN s : s[i] = e
             /\ \A i, j \in DOMAIN s : i < j => Before(s[i], s[j])
<1> DEFINE s == Sorted(S, Before)
<1>1. \A e \in S : {f \in S : Before(f, e)} = Under(BeforeOf(S), S, e)
  BY DEF Under, BeforeOf
<1>2. Numbers(s, BeforeOf(S), S)
  <2>1. s = [i \in 1..Cardinality(S) |-> s[i]]
    <3> DEFINE c(i) == CHOOSE d \in S : Cardinality({f \in S : Before(f, d)}) = i - 1
    <3>1. s = [i \in 1..Cardinality(S) |-> c(i)]
      BY DEF Sorted
    <3> HIDE DEF s, c
    <3> QED BY <3>1
  <2>2. ASSUME NEW i \in 1..Cardinality(S),
               NEW e \in S, Cardinality(Under(BeforeOf(S), S, e)) = i - 1
        PROVE  s[i] \in S /\ Cardinality(Under(BeforeOf(S), S, s[i])) = i - 1
    <3>1. s[i] = CHOOSE d \in S : Cardinality({f \in S : Before(f, d)}) = i - 1
      BY DEF Sorted
    <3>2. Cardinality({f \in S : Before(f, e)}) = i - 1
      BY <1>1, <2>2
    <3> HIDE DEF s
    <3>3. s[i] \in S /\ Cardinality({f \in S : Before(f, s[i])}) = i - 1
      BY <3>1, <3>2
    <3> QED BY <1>1, <3>3
  <2> QED BY <2>1, <2>2 DEF Numbers
<1>3. /\ s \in [1..Cardinality(S) -> S]
      /\ \A e \in S : \E i \in 1..Cardinality(S) : s[i] = e
      /\ \A i, j \in 1..Cardinality(S) : i < j => <<s[i], s[j]>> \in BeforeOf(S)
  <2> HIDE DEF s
  <2> QED BY <1>2, EntriesOrdered, NumberedIs
<1>4. Cardinality(S) \in Nat
  BY FS_CardinalityType
<1> HIDE DEF s
<1>5. s \in Seq(S) /\ Len(s) = Cardinality(S) /\ DOMAIN s = 1..Cardinality(S)
  BY <1>3, <1>4, SequenceIs
<1>6. \A i, j \in DOMAIN s : i < j => Before(s[i], s[j])
  BY <1>3, <1>5 DEF BeforeOf
<1> QED BY <1>3, <1>5, <1>6 DEF s

(* A file's bounds are entries of it, and around all of them.              *)
LEMMA BoundsOfFile ==
  ASSUME NEW f \in File
  PROVE  /\ Smallest(f) \in f.entries /\ Largest(f) \in f.entries
         /\ Smallest(f) \in Entry /\ Largest(f) \in Entry
         /\ \A e \in f.entries : /\ e \in Entry
                                 /\ e = Smallest(f) \/ Before(Smallest(f), e)
                                 /\ e = Largest(f) \/ Before(e, Largest(f))
                                 /\ Smallest(f).key <= e.key /\ e.key <= Largest(f).key
<1>1. f.entries \in SUBSET Entry /\ IsFiniteSet(f.entries) /\ f.entries # {}
  BY DEF File
<1>2. /\ Smallest(f) \in f.entries
      /\ \A e \in f.entries : e # Smallest(f) => Before(Smallest(f), e)
      /\ Largest(f) \in f.entries
      /\ \A e \in f.entries : e # Largest(f) => Before(e, Largest(f))
  BY <1>1, FirstIs DEF Smallest, Largest
<1>3. \A d, e \in Entry : d = e \/ Before(d, e) => d.key <= e.key
  BY KeyMaxAssumption DEF KeyMaxAssumption, Entry, UserKeys, Before
<1> QED BY <1>1, <1>2, <1>3

(* Files with numbers of their own, in the order of their smallest keys.   *)
LEMMA FilesOrdered ==
  ASSUME NEW F \in SUBSET File, \A f, g \in F : f # g => f.number # g.number
  PROVE  StrictOrder(SmallestOf(F), F)
<1>1. \A f \in F : Smallest(f) \in Entry /\ f.number \in Nat
  BY BoundsOfFile DEF File
<1>2. \A f, g \in F : <<f, g>> \in SmallestOf(F) <=> BySmallestKey(f, g)
  BY DEF SmallestOf
<1>3. \A f \in F : ~BySmallestKey(f, f)
  BY <1>1, BeforeIsOrder DEF BySmallestKey
<1>4. ASSUME NEW f \in F, NEW g \in F, NEW h \in F, BySmallestKey(f, g), BySmallestKey(g, h)
      PROVE  BySmallestKey(f, h)
  <2>1. /\ Smallest(f) \in Entry /\ Smallest(g) \in Entry /\ Smallest(h) \in Entry
        /\ f.number \in Nat /\ g.number \in Nat /\ h.number \in Nat
    BY <1>1
  <2>2. Before(Smallest(f), Smallest(g)) /\ Before(Smallest(g), Smallest(h))
          => Before(Smallest(f), Smallest(h))
    BY <2>1, BeforeIsOrder
  <2>3. f.number < g.number /\ g.number < h.number => f.number < h.number
    BY <2>1
  <2> QED BY <1>4, <2>2, <2>3 DEF BySmallestKey
<1>5. ASSUME NEW f \in F, NEW g \in F, f # g
      PROVE  BySmallestKey(f, g) \/ BySmallestKey(g, f)
  <2>1. f.number < g.number \/ g.number < f.number
    BY <1>1, <1>5
  <2>2. Smallest(f) # Smallest(g) =>
          Before(Smallest(f), Smallest(g)) \/ Before(Smallest(g), Smallest(f))
    BY <1>1, BeforeIsOrder
  <2> QED BY <2>1, <2>2 DEF BySmallestKey
<1> HIDE DEF SmallestOf, BySmallestKey
<1> QED BY <1>2, <1>3, <1>4, <1>5 DEF StrictOrder

SortedBySmallest(fs) == \A i, j \in DOMAIN fs : i < j => BySmallestKey(fs[i], fs[j])

LEMMA FilesSorted ==
  ASSUME NEW F \in SUBSET File, IsFiniteSet(F),
         \A f, g \in F : f # g => f.number # g.number
  PROVE  LET s == Sorted(F, BySmallestKey)
         IN  s \in Seq(F) /\ FilesIn(s) = F /\ SortedBySmallest(s)
<1> DEFINE s == Sorted(F, BySmallestKey)
<1>1. \A e \in F : {f \in F : BySmallestKey(f, e)} = Under(SmallestOf(F), F, e)
  BY DEF Under, SmallestOf
<1>2. Numbers(s, SmallestOf(F), F)
  <2>1. s = [i \in 1..Cardinality(F) |-> s[i]]
    <3> DEFINE c(i) == CHOOSE d \in F : Cardinality({f \in F : BySmallestKey(f, d)}) = i - 1
    <3>1. s = [i \in 1..Cardinality(F) |-> c(i)]
      BY DEF Sorted
    <3> HIDE DEF s, c
    <3> QED BY <3>1
  <2>2. ASSUME NEW i \in 1..Cardinality(F),
               NEW e \in F, Cardinality(Under(SmallestOf(F), F, e)) = i - 1
        PROVE  s[i] \in F /\ Cardinality(Under(SmallestOf(F), F, s[i])) = i - 1
    <3>1. s[i] = CHOOSE d \in F : Cardinality({f \in F : BySmallestKey(f, d)}) = i - 1
      BY DEF Sorted
    <3>2. Cardinality({f \in F : BySmallestKey(f, e)}) = i - 1
      BY <1>1, <2>2
    <3> HIDE DEF s
    <3>3. s[i] \in F /\ Cardinality({f \in F : BySmallestKey(f, s[i])}) = i - 1
      BY <3>1, <3>2
    <3> QED BY <1>1, <3>3
  <2> QED BY <2>1, <2>2 DEF Numbers
<1>3. /\ s \in [1..Cardinality(F) -> F]
      /\ \A e \in F : \E i \in 1..Cardinality(F) : s[i] = e
      /\ \A i, j \in 1..Cardinality(F) : i < j => <<s[i], s[j]>> \in SmallestOf(F)
  <2> HIDE DEF s
  <2> QED BY <1>2, FilesOrdered, NumberedIs
<1>4. Cardinality(F) \in Nat
  BY FS_CardinalityType
<1> HIDE DEF s
<1>5. s \in Seq(F) /\ DOMAIN s = 1..Cardinality(F)
  BY <1>3, <1>4, SequenceIs
<1>6. SortedBySmallest(s)
  BY <1>3, <1>5 DEF SmallestOf, SortedBySmallest
<1>7. FilesIn(s) = F
  BY <1>3, <1>5 DEF FilesIn
<1> QED BY <1>5, <1>6, <1>7 DEF s

(* Numbers from the least to the greatest.                                 *)
LEMMA NumbersSorted ==
  ASSUME NEW T \in SUBSET Nat, IsFiniteSet(T)
  PROVE  LET s == Sorted(T, Ascending)
         IN  /\ s \in Seq(T) /\ Len(s) = Cardinality(T)
             /\ \A e \in T : \E i \in DOMAIN s : s[i] = e
             /\ \A i, j \in DOMAIN s : i < j => s[i] < s[j]
<1> DEFINE s == Sorted(T, Ascending)
           R == {p \in T \X T : Ascending(p[1], p[2])}
<1>1. \A e \in T : {f \in T : Ascending(f, e)} = Under(R, T, e)
  BY DEF Under
<1>2. Numbers(s, R, T)
  <2>1. s = [i \in 1..Cardinality(T) |-> s[i]]
    <3> DEFINE c(i) == CHOOSE d \in T : Cardinality({f \in T : Ascending(f, d)}) = i - 1
    <3>1. s = [i \in 1..Cardinality(T) |-> c(i)]
      BY DEF Sorted
    <3> HIDE DEF s, c
    <3> QED BY <3>1
  <2>2. ASSUME NEW i \in 1..Cardinality(T),
               NEW e \in T, Cardinality(Under(R, T, e)) = i - 1
        PROVE  s[i] \in T /\ Cardinality(Under(R, T, s[i])) = i - 1
    <3>1. s[i] = CHOOSE d \in T : Cardinality({f \in T : Ascending(f, d)}) = i - 1
      BY DEF Sorted
    <3>2. Cardinality({f \in T : Ascending(f, e)}) = i - 1
      BY <1>1, <2>2
    <3> HIDE DEF s
    <3>3. s[i] \in T /\ Cardinality({f \in T : Ascending(f, s[i])}) = i - 1
      BY <3>1, <3>2
    <3> QED BY <1>1, <3>3
  <2> QED BY <2>1, <2>2 DEF Numbers
<1>3. \A i, j \in T : <<i, j>> \in R <=> i < j
  BY DEF Ascending
<1>4. StrictOrder(R, T)
  <2> HIDE DEF R
  <2> QED BY <1>3 DEF StrictOrder
<1>5. /\ s \in [1..Cardinality(T) -> T]
      /\ \A e \in T : \E i \in 1..Cardinality(T) : s[i] = e
      /\ \A i, j \in 1..Cardinality(T) : i < j => <<s[i], s[j]>> \in R
  <2> HIDE DEF s, R
  <2> QED BY <1>2, <1>4, NumberedIs
<1>6. Cardinality(T) \in Nat
  BY FS_CardinalityType
<1> HIDE DEF s, R
<1>7. s \in Seq(T) /\ Len(s) = Cardinality(T) /\ DOMAIN s = 1..Cardinality(T)
  BY <1>5, <1>6, SequenceIs
<1>8. \A i, j \in DOMAIN s : i < j => s[i] < s[j]
  BY <1>3, <1>5, <1>7
<1> QED BY <1>5, <1>7, <1>8 DEF s

-----------------------------------------------------------------------------
(* The files of a level that overlap a range *)

(* The files of a sequence that overlap a range, in their order, and as    *)
(* many as there are places with such a file.                              *)
LEMMA FilesInRangeIs ==
  ASSUME NEW fs \in Seq(File), NEW range
  PROVE  LET hits == {i \in DOMAIN fs : Overlaps(fs[i], range[1], range[2])}
             s    == FilesInRange(fs, range)
         IN  /\ s \in Seq(File) /\ Len(s) = Cardinality(hits) /\ IsFiniteSet(hits)
             /\ FilesIn(s) = {f \in FilesIn(fs) : Overlaps(f, range[1], range[2])}
<1> DEFINE hits == {i \in DOMAIN fs : Overlaps(fs[i], range[1], range[2])}
           h    == Sorted(hits, Ascending)
           s    == FilesInRange(fs, range)
<1>1. hits \in SUBSET Nat /\ IsFiniteSet(hits) /\ \A i \in hits : fs[i] \in File
  <2>1. Len(fs) \in Nat /\ DOMAIN fs = 1..Len(fs)
    BY LenProperties
  <2>2. IsFiniteSet(1..Len(fs))
    BY <2>1, FS_Interval
  <2>3. hits \in SUBSET (1..Len(fs))
    BY <2>1
  <2> QED BY <2>1, <2>2, <2>3, FS_Subset
<1>2. s = [i \in DOMAIN h |-> fs[h[i]]]
  BY DEF FilesInRange
<1>3. /\ h \in Seq(hits) /\ Len(h) = Cardinality(hits)
      /\ \A e \in hits : \E i \in DOMAIN h : h[i] = e
  <2> HIDE DEF hits
  <2> QED BY <1>1, NumbersSorted
<1> HIDE DEF h
<1>4. Len(h) \in Nat /\ DOMAIN h = 1..Len(h) /\ \A i \in DOMAIN h : h[i] \in hits
  BY <1>3, LenProperties, ElementOfSeq
<1> HIDE DEF s
<1>5. s \in [1..Len(h) -> File]
  BY <1>1, <1>2, <1>4
<1>6. s \in Seq(File) /\ Len(s) = Cardinality(hits) /\ DOMAIN s = DOMAIN h
  BY <1>3, <1>4, <1>5, SequenceIs
<1>7. FilesIn(s) = {fs[i] : i \in hits}
  <2>1. ASSUME NEW i \in DOMAIN s PROVE s[i] \in {fs[j] : j \in hits}
    BY <1>2, <1>4, <1>6
  <2>2. ASSUME NEW j \in hits PROVE fs[j] \in FilesIn(s)
    <3>1. PICK i \in DOMAIN h : h[i] = j
      BY <1>3
    <3> QED BY <1>2, <1>6, <3>1 DEF FilesIn
  <2> HIDE DEF hits
  <2> QED BY <2>1, <2>2 DEF FilesIn
<1>8. FilesIn(s) = {f \in FilesIn(fs) : Overlaps(f, range[1], range[2])}
  BY <1>7 DEF FilesIn
<1> QED BY <1>1, <1>6, <1>8 DEF s

(* The binary search finds the border between the files that end before ik *)
(* and the others, where none of the others comes before one of those.     *)
LEMMA FindFileIs ==
  ASSUME NEW fs \in Seq(File), NEW ik,
         \A i, j \in DOMAIN fs :
           i < j /\ Before(Largest(fs[j]), ik) => Before(Largest(fs[i]), ik)
  PROVE  /\ FindFile(fs, ik) \in 1..(Len(fs) + 1)
         /\ \A i \in DOMAIN fs : i < FindFile(fs, ik) <=> Before(Largest(fs[i]), ik)
<1> DEFINE n == Len(fs)
           V == 1..(n + 1)
           D == V \X V
           B(i) == Before(Largest(fs[i]), ik)
           mid(s) == (s[1] + s[2]) \div 2
           G(g) == g = [s \in D |-> IF s[1] >= s[2] THEN s[2]
                                    ELSE IF B(mid(s)) THEN g[<<mid(s) + 1, s[2]>>]
                                    ELSE g[<<s[1], mid(s)>>]]
           g == CHOOSE f : G(f)
           next(s) == IF B(mid(s)) THEN <<mid(s) + 1, s[2]>> ELSE <<s[1], mid(s)>>
<1>1. n \in Nat /\ DOMAIN fs = 1..n
  BY LenProperties
<1>2. FindFile(fs, ik) = g[<<1, n + 1>>]
  BY DEF FindFile
<1> HIDE DEF B, n
<1>3. ASSUME NEW s \in D, s[1] < s[2]
      PROVE  /\ mid(s) \in 1..n /\ mid(s) \in V /\ mid(s) + 1 \in V
             /\ s[1] <= mid(s) /\ mid(s) < s[2]
  BY <1>1, <1>3
<1>4. \E f : G(f)
  <2> DEFINE r    == [s \in D |-> IF s[1] >= s[2] THEN 0 ELSE s[2] - s[1]]
             Base == {s \in D : s[1] >= s[2]}
             a    == [s \in Base |-> s[2]]
             nx   == [s \in D |-> next(s)]
             st   == [p \in D \X V |-> p[2]]
  <2>1. r \in [D -> 0..n]
    BY <1>1
  <2>2. Base \in SUBSET D /\ a \in [Base -> V]
    OBVIOUS
  <2>3. \A s \in D \ Base : nx[s] \in D /\ r[nx[s]] < r[s]
    <3> SUFFICES ASSUME NEW s \in D \ Base PROVE nx[s] \in D /\ r[nx[s]] < r[s]
      OBVIOUS
    <3>1. s \in D /\ s[1] < s[2] /\ s[1] \in Nat /\ s[2] \in Nat
      BY <1>1
    <3>2. next(s) \in D /\ nx[s] = next(s) /\ next(s)[2] - next(s)[1] < s[2] - s[1]
          /\ next(s)[1] \in Nat /\ next(s)[2] \in Nat
      <4> HIDE DEF mid
      <4> QED BY <1>1, <1>3, <3>1
    <3>3. r[s] = s[2] - s[1] /\ r[next(s)] \in {0, next(s)[2] - next(s)[1]}
      <4> HIDE DEF next
      <4> QED BY <1>1, <3>1, <3>2
    <3> HIDE DEF next, r, nx
    <3> QED BY <3>1, <3>2, <3>3
  <2>4. \A s \in D \ Base, v \in V : st[<<s, v>>] \in V /\ st[<<s, v>>] = v
    OBVIOUS
  <2> HIDE DEF r, Base, a, nx, st, V, D
  <2>5. PICK f \in [D -> V] :
          f = [s \in D |-> IF s \in Base THEN a[s] ELSE st[<<s, f[nx[s]]>>]]
    <3>1. Descends(D, V, n, r, Base, a, nx, st)
      BY <1>1, <2>1, <2>2, <2>3, <2>4 DEF Descends
    <3> QED BY <3>1, RecursionExists
  <2>6. ASSUME NEW s \in D
        PROVE  f[s] = IF s[1] >= s[2] THEN s[2]
                      ELSE IF B(mid(s)) THEN f[<<mid(s) + 1, s[2]>>]
                      ELSE f[<<s[1], mid(s)>>]
    <3>1. CASE s[1] >= s[2]
      <4>1. s \in Base /\ a[s] = s[2]
        BY <3>1 DEF Base, a
      <4> QED BY <2>5, <3>1, <4>1
    <3>2. CASE ~ (s[1] >= s[2])
      <4>1. s \in D \ Base /\ nx[s] = next(s)
        BY <3>2 DEF Base, nx
      <4>2. f[nx[s]] \in V
        BY <2>3, <2>5, <4>1
      <4>3. f[s] = f[next(s)]
        BY <2>4, <2>5, <4>1, <4>2
      <4> QED BY <3>2, <4>3
    <3> QED BY <3>1, <3>2
  <2>7. f = [s \in D |-> f[s]]
    BY <2>5
  <2> HIDE DEF mid
  <2> QED BY <2>6, <2>7
<1>5. G(g)
  <2> HIDE DEF G
  <2> QED BY <1>4
<1> HIDE DEF g
<1>6. ASSUME NEW s \in D
      PROVE  g[s] = IF s[1] >= s[2] THEN s[2] ELSE g[next(s)]
  <2> HIDE DEF mid, V
  <2> QED BY <1>5
<1> HIDE DEF G
<1> DEFINE Around(s) == /\ s[1] <= s[2]
                        /\ \A i \in 1..n : i < s[1] => B(i)
                        /\ \A i \in 1..n : i >= s[2] => ~B(i)
           Found(i)  == i \in V /\ \A j \in 1..n : j < i <=> B(j)
           Bad == {d \in Nat : \E s \in D : Around(s) /\ s[2] - s[1] = d /\ ~Found(g[s])}
<1>7. Bad = {}
  <2> SUFFICES ASSUME Bad # {} PROVE FALSE
    OBVIOUS
  <2>1. PICK d \in Bad : \A e \in Bad : d <= e
    <3>1. Bad \in SUBSET Nat
      OBVIOUS
    <3> HIDE DEF Bad
    <3> QED BY <3>1, LeastNumber
  <2>2. PICK s \in D : Around(s) /\ s[2] - s[1] = d /\ ~Found(g[s])
    BY <2>1
  <2>3. s[1] \in Nat /\ s[2] \in V /\ s[2] \in Nat /\ s[1] \in V
    <3> HIDE DEF Around, Found, Bad, B, next, mid, V
    <3>1. s[1] \in V /\ s[2] \in V
      OBVIOUS
    <3> HIDE DEF D
    <3>2. \A i \in V : i \in Nat
      BY <1>1 DEF V
    <3> QED BY <3>1, <3>2
  <2> HIDE DEF B, mid
  <2>4. CASE s[1] = s[2]
    <3>1. g[s] = s[2]
      <4> HIDE DEF next, D
      <4> QED BY <1>6, <2>3, <2>4
    <3> QED BY <1>1, <2>2, <2>3, <2>4, <3>1
  <2>5. CASE s[1] # s[2]
    <3>1. s[1] < s[2]
      BY <2>2, <2>3, <2>5
    <3>2. g[s] = g[next(s)]
      <4> HIDE DEF next, D
      <4> QED BY <1>1, <1>6, <2>3, <3>1
    <3>3. /\ mid(s) \in 1..n /\ mid(s) \in V /\ mid(s) + 1 \in V
          /\ s[1] <= mid(s) /\ mid(s) < s[2]
      BY <1>3, <3>1
    <3> HIDE DEF mid
    <3>4. next(s) \in D /\ next(s)[1] \in Nat /\ next(s)[2] \in Nat
      <4>1. next(s) = <<mid(s) + 1, s[2]>> \/ next(s) = <<s[1], mid(s)>>
        OBVIOUS
      <4> HIDE DEF next, V, Bad, Found, Around
      <4> QED BY <1>1, <2>3, <3>3, <4>1
    <3>5. Around(next(s)) /\ next(s)[2] - next(s)[1] < s[2] - s[1]
      <4>1. CASE B(mid(s))
        <5>1. ASSUME NEW i \in 1..n, i < mid(s) + 1 PROVE B(i)
          <6>1. i = mid(s) \/ i < mid(s)
            <7> HIDE DEF next, V, D, Bad, Found, Around, B
            <7> QED BY <1>1, <3>3, <5>1
          <6> QED BY <1>1, <3>3, <4>1, <6>1 DEF B
        <5>2. next(s) = <<mid(s) + 1, s[2]>>
          BY <4>1
        <5>3. mid(s) + 1 <= s[2] /\ s[2] - (mid(s) + 1) < s[2] - s[1]
          <6> HIDE DEF next, V, D, Bad, Found, Around, B
          <6> QED BY <1>1, <2>3, <3>3
        <5>4. \A i \in 1..n : i >= s[2] => ~B(i)
          BY <2>2
        <5> HIDE DEF next, B, Bad, Found, D
        <5>5. next(s)[1] = mid(s) + 1 /\ next(s)[2] = s[2]
          BY <5>2
        <5> QED BY <5>1, <5>3, <5>4, <5>5
      <4>2. CASE ~B(mid(s))
        <5>1. ASSUME NEW i \in 1..n, i >= mid(s) PROVE ~B(i)
          <6>1. i = mid(s) \/ mid(s) < i
            <7> HIDE DEF next, V, D, Bad, Found, Around, B
            <7> QED BY <1>1, <3>3, <5>1
          <6> QED BY <1>1, <3>3, <4>2, <6>1 DEF B
        <5>2. next(s) = <<s[1], mid(s)>>
          BY <4>2
        <5>3. s[1] <= mid(s) /\ mid(s) - s[1] < s[2] - s[1]
          <6> HIDE DEF next, V, D, Bad, Found, Around, B
          <6> QED BY <1>1, <2>3, <3>3
        <5>4. \A i \in 1..n : i < s[1] => B(i)
          BY <2>2
        <5> HIDE DEF next, B, Bad, Found, D
        <5>5. next(s)[1] = s[1] /\ next(s)[2] = mid(s)
          BY <5>2
        <5> QED BY <5>1, <5>3, <5>4, <5>5
      <4> QED BY <4>1, <4>2
    <3> DEFINE e == next(s)[2] - next(s)[1]
    <3>6. e \in Nat /\ e < d
      <4>1. s[2] - s[1] = d /\ next(s)[1] <= next(s)[2] /\ e < s[2] - s[1]
        BY <2>2, <3>5
      <4> HIDE DEF next, V, D, Bad, Found, Around, B
      <4> QED BY <3>4, <4>1
    <3>7. e \in Bad
      <4> HIDE DEF next, Found
      <4> QED BY <2>2, <3>2, <3>4, <3>5, <3>6
    <3> HIDE DEF e, Bad
    <3> QED BY <2>1, <3>6, <3>7
  <2> QED BY <2>4, <2>5
<1>8. Found(g[<<1, n + 1>>])
  <2> DEFINE s == <<1, n + 1>>
  <2>1. s \in D /\ Around(s) /\ s[2] - s[1] = n /\ n \in Nat
    BY <1>1
  <2> HIDE DEF Around, Found, s, D
  <2>2. Found(g[s])
    BY <1>7, <2>1
  <2> QED BY <2>2 DEF s
<1> QED BY <1>1, <1>2, <1>8 DEF B, n

(* Key k is between the bounds of f; all keys of a range are in files of F.*)
InRange(k, f)     == Smallest(f).key <= k /\ k <= Largest(f).key
Spanned(range, F) == \A k \in range[1]..range[2] : \E f \in F : InRange(k, f)

Bounds == 0..AfterAll
Ranges == Bounds \X Bounds

(* What the search of level 0 makes of a range: R reaches at least as far, *)
(* no file that overlaps R reaches further, and the growth left no gaps.   *)
GrowsTo(fs, range, R) ==
  /\ R \in Ranges /\ R[1] <= range[1] /\ range[2] <= R[2]
  /\ Wider(fs, R) = {}
  /\ \A F : FilesIn(fs) \subseteq F /\ Spanned(range, F) => Spanned(R, F)

(* One step of that growth.                                                *)
LEMMA GrownOnce ==
  ASSUME NEW fs \in Seq(File), NEW range \in Ranges, Wider(fs, range) # {}
  PROVE  LET next == Grown(fs[Min(Wider(fs, range))], range)
         IN  /\ next \in Ranges /\ next[1] <= range[1] /\ range[2] <= next[2]
             /\ next[1] - next[2] < range[1] - range[2]
             /\ \A F : FilesIn(fs) \subseteq F /\ Spanned(range, F) => Spanned(next, F)
<1> DEFINE W    == Wider(fs, range)
           f    == fs[Min(W)]
           next == Grown(f, range)
<1>1. W \in SUBSET Nat /\ \A i \in W : fs[i] \in File /\ fs[i] \in FilesIn(fs)
  <2>1. Len(fs) \in Nat /\ DOMAIN fs = 1..Len(fs)
    BY LenProperties
  <2>2. \A i \in DOMAIN fs : fs[i] \in File /\ fs[i] \in FilesIn(fs)
    BY <2>1, ElementOfSeq DEF FilesIn
  <2> QED BY <2>1, <2>2 DEF Wider
<1>2. Min(W) \in W
  <2>1. PICK k \in W : \A m \in W : k <= m
    <3>1. W # {}
      OBVIOUS
    <3> HIDE DEF W
    <3> QED BY <1>1, <3>1, LeastNumber
  <2> HIDE DEF W
  <2> QED BY <1>1, <2>1 DEF Min
<1>3. f \in File /\ f \in FilesIn(fs)
  BY <1>1, <1>2
<1>4. /\ Overlaps(f, range[1], range[2])
      /\ Smallest(f).key < range[1] \/ Largest(f).key > range[2]
  BY <1>2 DEF Wider
<1> HIDE DEF W, f
<1>5. Smallest(f).key \in UserKeys /\ Largest(f).key \in UserKeys
  BY <1>3, BoundsOfFile DEF Entry
<1>6. UserKeys \subseteq Bounds /\ Bounds \subseteq Int
  BY KeyMaxAssumption DEF KeyMaxAssumption, UserKeys, Bounds, AfterAll
<1>7. /\ range[1] \in Bounds /\ range[2] \in Bounds
      /\ range[1] \in Int /\ range[2] \in Int
      /\ Smallest(f).key \in Int /\ Largest(f).key \in Int
  BY <1>5, <1>6 DEF Ranges
<1>8. range[1] <= Largest(f).key /\ Smallest(f).key <= range[2]
  BY <1>4, <1>7 DEF Overlaps, AfterFile, BeforeFile
<1>9. /\ next \in Ranges /\ next[1] \in Int /\ next[2] \in Int
      /\ next[1] <= range[1] /\ range[2] <= next[2]
      /\ next[1] - next[2] < range[1] - range[2]
  <2>1. CASE Smallest(f).key < range[1]
    <3>1. next = <<Smallest(f).key, range[2]>>
      BY <2>1 DEF Grown
    <3> HIDE DEF next
    <3> QED BY <1>5, <1>6, <1>7, <2>1, <3>1 DEF Ranges
  <2>2. CASE ~(Smallest(f).key < range[1])
    <3>1. next = <<range[1], Largest(f).key>> /\ Largest(f).key > range[2]
      BY <1>4, <2>2 DEF Grown
    <3> HIDE DEF next
    <3> QED BY <1>5, <1>6, <1>7, <2>2, <3>1 DEF Ranges
  <2> QED BY <2>1, <2>2
<1>10. ASSUME NEW F, FilesIn(fs) \subseteq F, Spanned(range, F) PROVE Spanned(next, F)
  <2> SUFFICES ASSUME NEW k \in next[1]..next[2] PROVE \E g \in F : InRange(k, g)
    BY DEF Spanned
  <2>1. k \in Int /\ next[1] <= k /\ k <= next[2]
    <3> HIDE DEF next
    <3> QED BY <1>9
  <2>2. CASE k \in range[1]..range[2]
    BY <1>10, <2>2 DEF Spanned
  <2>3. CASE k \notin range[1]..range[2]
    <3>1. CASE Smallest(f).key < range[1]
      <4>1. next = <<Smallest(f).key, range[2]>>
        BY <3>1 DEF Grown
      <4> HIDE DEF next
      <4>2. InRange(k, f)
        BY <1>7, <1>8, <2>1, <2>3, <3>1, <4>1 DEF InRange
      <4> QED BY <1>3, <1>10, <4>2
    <3>2. CASE ~(Smallest(f).key < range[1])
      <4>1. next = <<range[1], Largest(f).key>>
        BY <3>2 DEF Grown
      <4> HIDE DEF next
      <4>2. InRange(k, f)
        BY <1>7, <1>8, <2>1, <2>3, <3>2, <4>1 DEF InRange
      <4> QED BY <1>3, <1>10, <4>2
    <3> QED BY <3>1, <3>2
  <2> QED BY <2>2, <2>3
<1> QED BY <1>9, <1>10 DEF W, f

LEMMA SearchedRangeIs ==
  ASSUME NEW level \in Levels, NEW fs \in Seq(File), NEW begin \in Bounds, NEW end \in Bounds
  PROVE  LET R == SearchedRange(level, fs, begin, end)
         IN  /\ level > 0 => R = <<begin, end>>
             /\ level = 0 => GrowsTo(fs, <<begin, end>>, R)
<1> DEFINE Done(x) == level > 0 \/ Wider(fs, x) = {}
           next(x) == Grown(fs[Min(Wider(fs, x))], x)
           G(g) == g = [range \in (0..AfterAll) \X (0..AfterAll) |->
                          IF level > 0 \/ Wider(fs, range) = {} THEN range
                          ELSE g[Grown(fs[Min(Wider(fs, range))], range)]]
           g == CHOOSE f : G(f)
           c == <<begin, end>>
           down(x) == AfterAll + x[1] - x[2]
           Top == 2 * AfterAll
<1>1. SearchedRange(level, fs, begin, end) = g[c]
  BY DEF SearchedRange
<1>2. AfterAll \in Nat /\ Top \in Nat /\ \A x \in Ranges : down(x) \in 0..Top
  BY KeyMaxAssumption DEF KeyMaxAssumption, AfterAll, Ranges, Bounds
<1>3. ASSUME NEW x \in Ranges, ~Done(x)
      PROVE  next(x) \in Ranges /\ down(next(x)) < down(x)
  <2>1. next(x) \in Ranges /\ next(x)[1] - next(x)[2] < x[1] - x[2]
    BY <1>3, GrownOnce
  <2> HIDE DEF next
  <2> QED BY <1>2, <2>1 DEF Ranges, Bounds
<1>4. \E f : G(f)
  <2> DEFINE r    == [x \in Ranges |-> down(x)]
             Base == {x \in Ranges : Done(x)}
             a    == [x \in Base |-> x]
             nx   == [x \in Ranges |-> next(x)]
             st   == [p \in Ranges \X Ranges |-> p[2]]
  <2>1. r \in [Ranges -> 0..Top]
    BY <1>2
  <2>2. Base \in SUBSET Ranges /\ a \in [Base -> Ranges]
    OBVIOUS
  <2>3. \A x \in Ranges \ Base : nx[x] \in Ranges /\ r[nx[x]] < r[x]
    <3> HIDE DEF Done, next, down
    <3> QED BY <1>3
  <2>4. \A x \in Ranges \ Base, v \in Ranges : st[<<x, v>>] \in Ranges /\ st[<<x, v>>] = v
    OBVIOUS
  <2> HIDE DEF r, Base, a, nx, st
  <2>5. PICK f \in [Ranges -> Ranges] :
          f = [x \in Ranges |-> IF x \in Base THEN a[x] ELSE st[<<x, f[nx[x]]>>]]
    <3>1. Descends(Ranges, Ranges, Top, r, Base, a, nx, st)
      BY <1>2, <2>1, <2>2, <2>3, <2>4 DEF Descends
    <3> HIDE DEF Top
    <3> QED BY <3>1, RecursionExists
  <2>6. ASSUME NEW x \in Ranges
        PROVE  f[x] = IF Done(x) THEN x ELSE f[next(x)]
    <3> HIDE DEF Done, next
    <3>1. CASE Done(x)
      <4>1. x \in Base /\ a[x] = x
        BY <3>1 DEF Base, a
      <4> QED BY <2>5, <3>1, <4>1
    <3>2. CASE ~Done(x)
      <4>1. x \in Ranges \ Base /\ nx[x] = next(x)
        BY <3>2 DEF Base, nx
      <4>2. f[nx[x]] \in Ranges
        BY <2>3, <2>5, <4>1
      <4>3. f[x] = st[<<x, f[nx[x]]>>]
        BY <2>5, <4>1
      <4>4. f[x] = f[next(x)]
        BY <2>4, <4>1, <4>2, <4>3
      <4> QED BY <3>2, <4>4
    <3> QED BY <3>1, <3>2
  <2>7. f = [x \in Ranges |-> f[x]]
    BY <2>5
  <2>8. f = [x \in Ranges |-> IF Done(x) THEN x ELSE f[next(x)]]
    <3> HIDE DEF Done, next
    <3> QED BY <2>6, <2>7
  <2> QED BY <2>8 DEF Ranges, Bounds
<1>5. G(g)
  <2> HIDE DEF G
  <2> QED BY <1>4
<1> HIDE DEF g
<1>6. g = [x \in Ranges |-> IF Done(x) THEN x ELSE g[next(x)]]
  BY <1>5 DEF Ranges, Bounds
<1> HIDE DEF G
<1>7. ASSUME NEW x \in Ranges PROVE g[x] = IF Done(x) THEN x ELSE g[next(x)]
  <2> HIDE DEF Done, next
  <2> QED BY <1>6
<1>8. c \in Ranges
  BY DEF Ranges
<1>9. CASE level > 0
  BY <1>1, <1>7, <1>8, <1>9
<1>10. CASE level = 0
  <2> DEFINE Bad == {d \in Nat : \E x \in Ranges : down(x) = d /\ ~GrowsTo(fs, x, g[x])}
  <2>1. Bad = {}
    <3> SUFFICES ASSUME Bad # {} PROVE FALSE
      OBVIOUS
    <3>1. PICK d \in Bad : \A e \in Bad : d <= e
      <4>1. Bad \in SUBSET Nat /\ Bad # {}
        OBVIOUS
      <4> HIDE DEF Bad
      <4> QED BY <4>1, LeastNumber
    <3>2. PICK x \in Ranges : down(x) = d /\ ~GrowsTo(fs, x, g[x])
      BY <3>1
    <3>3. CASE Done(x)
      <4>1. g[x] = x /\ Wider(fs, x) = {}
        BY <1>7, <1>10, <3>3
      <4>2. x[1] \in Int /\ x[2] \in Int
        BY <1>2 DEF Ranges, Bounds
      <4> QED BY <3>2, <4>1, <4>2 DEF GrowsTo
    <3>4. CASE ~Done(x)
      <4> DEFINE y == next(x)
      <4>1. g[x] = g[y]
        BY <1>7, <3>4
      <4>2. y \in Ranges /\ down(y) < down(x) /\ down(y) \in Nat
        BY <1>2, <1>3, <3>4
      <4>3. /\ y[1] <= x[1] /\ x[2] <= y[2]
            /\ \A F : FilesIn(fs) \subseteq F /\ Spanned(x, F) => Spanned(y, F)
        BY <3>4, GrownOnce
      <4> HIDE DEF y
      <4>4. down(y) \notin Bad
        <5>1. down(x) \in Nat
          BY <1>2
        <5> HIDE DEF Bad, down
        <5> QED BY <3>1, <3>2, <4>2, <5>1
      <4>5. GrowsTo(fs, y, g[y])
        BY <4>2, <4>4
      <4>6. GrowsTo(fs, x, g[y])
        <5>1. x[1] \in Int /\ x[2] \in Int /\ y[1] \in Int /\ y[2] \in Int
          BY <4>2 DEF Ranges, Bounds
        <5>2. /\ g[y] \in Ranges /\ g[y][1] <= y[1] /\ y[2] <= g[y][2]
              /\ g[y][1] \in Int /\ g[y][2] \in Int
          BY <4>5 DEF GrowsTo, Ranges, Bounds
        <5> QED BY <4>3, <4>5, <5>1, <5>2 DEF GrowsTo
      <4> QED BY <3>2, <4>1, <4>6
    <3> QED BY <3>3, <3>4
  <2>2. down(c) \in Nat
    BY <1>2, <1>8
  <2>3. GrowsTo(fs, c, g[c])
    BY <1>8, <2>1, <2>2
  <2> QED BY <1>1, <1>10, <2>3
<1>11. level \in Nat
  BY LevelAssumption DEF LevelAssumption, Levels
<1> QED BY <1>9, <1>10, <1>11

-----------------------------------------------------------------------------
(* Sequences of files, and their bounds *)

LEMMA FilesInIs ==
  ASSUME NEW fs \in Seq(File)
  PROVE  /\ FilesIn(fs) \in SUBSET File
         /\ IsFiniteSet(FilesIn(fs)) /\ Cardinality(FilesIn(fs)) \in 0..Len(fs)
         /\ FilesIn(fs) = {} <=> fs = <<>>
         /\ FilesIn(fs) = {} <=> Len(fs) = 0
         /\ \A i \in DOMAIN fs : fs[i] \in FilesIn(fs) /\ fs[i] \in File
<1>1. Len(fs) \in Nat /\ DOMAIN fs = 1..Len(fs) /\ fs \in [1..Len(fs) -> File]
  BY LenProperties
<1>2. fs \in [1..Len(fs) -> FilesIn(fs)]
  BY <1>1 DEF FilesIn
<1>3. fs \in Surjection(1..Len(fs), FilesIn(fs))
  BY <1>1, <1>2 DEF FilesIn, Surjection
<1>4. IsFiniteSet(1..Len(fs)) /\ Cardinality(1..Len(fs)) = Len(fs)
  BY <1>1, FS_Interval
<1>5. IsFiniteSet(FilesIn(fs)) /\ Cardinality(FilesIn(fs)) <= Len(fs)
  BY <1>3, <1>4, FS_Surjection
<1>6. Cardinality(FilesIn(fs)) \in Nat
  BY <1>5, FS_CardinalityType
<1>7. FilesIn(fs) = {} <=> Len(fs) = 0
  BY <1>1, <1>2 DEF FilesIn
<1>8. fs = <<>> <=> Len(fs) = 0
  BY <1>1, EmptySeq, SeqEqual
<1>9. FilesIn(fs) \in SUBSET File /\ \A i \in DOMAIN fs : fs[i] \in FilesIn(fs) /\ fs[i] \in File
  BY <1>1 DEF FilesIn
<1>10. Cardinality(FilesIn(fs)) \in 0..Len(fs)
  BY <1>1, <1>5, <1>6
<1> QED BY <1>5, <1>7, <1>8, <1>9, <1>10

LEMMA FilesInTogether ==
  ASSUME NEW fs \in Seq(File), NEW gs \in Seq(File)
  PROVE  fs \o gs \in Seq(File) /\ FilesIn(fs \o gs) = FilesIn(fs) \cup FilesIn(gs)
<1> DEFINE m == Len(fs)
           n == Len(gs)
           s == fs \o gs
<1>1. /\ m \in Nat /\ n \in Nat /\ DOMAIN fs = 1..m /\ DOMAIN gs = 1..n
      /\ s \in Seq(File) /\ DOMAIN s = 1..(m + n)
      /\ \A i \in 1..(m + n) : s[i] = IF i <= m THEN fs[i] ELSE gs[i - m]
  BY LenProperties, ConcatProperties
<1> HIDE DEF m, n, s
<1>2. \A i \in 1..m : i \in 1..(m + n) /\ s[i] = fs[i]
  BY <1>1
<1>3. \A i \in 1..n : i + m \in 1..(m + n) /\ s[i + m] = gs[i]
  BY <1>1
<1>4. \A i \in 1..(m + n) : (i \in 1..m /\ s[i] = fs[i]) \/ (i - m \in 1..n /\ s[i] = gs[i - m])
  BY <1>1
<1>5. FilesIn(s) = FilesIn(fs) \cup FilesIn(gs)
  <2>1. \A x : x \in FilesIn(s) <=> \E i \in 1..(m + n) : x = s[i]
    BY <1>1 DEF FilesIn
  <2>2. \A x : x \in FilesIn(fs) <=> \E i \in 1..m : x = fs[i]
    BY <1>1 DEF FilesIn
  <2>3. \A x : x \in FilesIn(gs) <=> \E i \in 1..n : x = gs[i]
    BY <1>1 DEF FilesIn
  <2>4. ASSUME NEW x \in FilesIn(s) PROVE x \in FilesIn(fs) \cup FilesIn(gs)
    BY <1>4, <2>1, <2>2, <2>3
  <2>5. ASSUME NEW x \in FilesIn(fs) \cup FilesIn(gs) PROVE x \in FilesIn(s)
    BY <1>2, <1>3, <2>1, <2>2, <2>3
  <2> QED BY <2>4, <2>5
<1> QED BY <1>1, <1>5 DEF s

LEMMA FilesInOne ==
  ASSUME NEW f \in File
  PROVE  <<f>> \in Seq(File) /\ FilesIn(<<f>>) = {f} /\ Len(<<f>>) = 1
<1>1. <<f>> \in Seq(File) /\ Len(<<f>>) = 1 /\ <<f>>[1] = f /\ DOMAIN <<f>> = {1}
  OBVIOUS
<1> QED BY <1>1 DEF FilesIn

LEMMA FilesInLonger ==
  ASSUME NEW fs \in Seq(File), NEW f \in File
  PROVE  Append(fs, f) \in Seq(File) /\ FilesIn(Append(fs, f)) = FilesIn(fs) \cup {f}
<1>1. Append(fs, f) = fs \o <<f>>
  OBVIOUS
<1> QED BY <1>1, FilesInOne, FilesInTogether

(* The range of files begins and ends with entries of theirs, and all of   *)
(* their entries lie in it.                                                *)
LEMMA RangeOfIs ==
  ASSUME NEW fs \in Seq(File), fs # <<>>
  PROVE  LET r == RangeOf(fs)
         IN  /\ r.smallest \in Entry /\ r.largest \in Entry
             /\ \E f \in FilesIn(fs) : r.smallest = Smallest(f)
             /\ \E f \in FilesIn(fs) : r.largest = Largest(f)
             /\ \A f \in FilesIn(fs) :
                  /\ r.smallest = Smallest(f) \/ Before(r.smallest, Smallest(f))
                  /\ r.largest = Largest(f) \/ Before(Largest(f), r.largest)
                  /\ r.smallest.key <= Smallest(f).key /\ Largest(f).key <= r.largest.key
<1> DEFINE F   == FilesIn(fs)
           all == UNION {f.entries : f \in F}
           r   == RangeOf(fs)
<1>1. F \in SUBSET File /\ IsFiniteSet(F) /\ F # {}
  BY FilesInIs
<1>2. r.smallest = First(all) /\ r.largest = LastKey(all)
  BY DEF RangeOf
<1> HIDE DEF F, r
<1>3. all \in SUBSET Entry /\ IsFiniteSet(all) /\ all # {}
  <2> DEFINE E == {f.entries : f \in F}
             e == [f \in F |-> f.entries]
  <2>1. e \in Surjection(F, E)
    BY DEF Surjection
  <2>2. IsFiniteSet(E)
    BY <1>1, <2>1, FS_Surjection
  <2>3. \A S \in E : IsFiniteSet(S) /\ S \in SUBSET Entry /\ S # {}
    BY <1>1 DEF File
  <2>4. IsFiniteSet(UNION E)
    <3> HIDE DEF E
    <3> QED BY <2>2, <2>3, FS_UNION
  <2>5. UNION E \in SUBSET Entry
    BY <2>3
  <2>6. PICK f \in F : f.entries # {}
    BY <1>1 DEF File
  <2>7. UNION E # {}
    BY <2>6
  <2> QED BY <2>4, <2>5, <2>7
<1>4. /\ r.smallest \in all /\ \A e \in all : e # r.smallest => Before(r.smallest, e)
      /\ r.largest \in all /\ \A e \in all : e # r.largest => Before(e, r.largest)
  <2> HIDE DEF all
  <2> QED BY <1>2, <1>3, FirstIs
<1>5. \A f \in F : Smallest(f) \in all /\ Largest(f) \in all
  BY <1>1, BoundsOfFile
<1>6. ASSUME NEW f \in F
      PROVE  /\ r.smallest = Smallest(f) \/ Before(r.smallest, Smallest(f))
             /\ r.largest = Largest(f) \/ Before(Largest(f), r.largest)
             /\ r.smallest.key <= Smallest(f).key /\ Largest(f).key <= r.largest.key
  <2>1. /\ r.smallest = Smallest(f) \/ Before(r.smallest, Smallest(f))
        /\ r.largest = Largest(f) \/ Before(Largest(f), r.largest)
    BY <1>4, <1>5
  <2>2. r.smallest \in Entry /\ r.largest \in Entry /\ Smallest(f) \in Entry /\ Largest(f) \in Entry
    BY <1>3, <1>4, <1>5
  <2>3. \A d, e \in Entry : d = e \/ Before(d, e) => d.key <= e.key
    BY KeyMaxAssumption DEF KeyMaxAssumption, Entry, UserKeys, Before
  <2> QED BY <2>1, <2>2, <2>3
<1>7. \E f \in F : r.smallest = Smallest(f)
  <2>1. PICK f \in F : r.smallest \in f.entries
    BY <1>4
  <2>2. r.smallest = Smallest(f) \/ Before(Smallest(f), r.smallest)
    BY <1>1, <2>1, BoundsOfFile
  <2>3. r.smallest \in Entry /\ Smallest(f) \in Entry
    BY <1>3, <1>4, <1>5
  <2> QED BY <1>6, <2>2, <2>3, BeforeIsOrder
<1>8. \E f \in F : r.largest = Largest(f)
  <2>1. PICK f \in F : r.largest \in f.entries
    BY <1>4
  <2>2. r.largest = Largest(f) \/ Before(r.largest, Largest(f))
    BY <1>1, <2>1, BoundsOfFile
  <2>3. r.largest \in Entry /\ Largest(f) \in Entry
    BY <1>3, <1>4, <1>5
  <2> QED BY <1>6, <2>2, <2>3, BeforeIsOrder
<1>9. r.smallest \in Entry /\ r.largest \in Entry
  BY <1>3, <1>4
<1> QED BY <1>6, <1>7, <1>8, <1>9 DEF F, r

-----------------------------------------------------------------------------
(* Versions *)

(* All entries of f come before all of g; one of the two comes first.      *)
Whole(f, g) == \A d \in f.entries, e \in g.entries : Before(d, e)
Apart(f, g) == Whole(f, g) \/ Whole(g, f)

(* The levels are sorted, and disjoint but for level 0.                    *)
Orderly(v) ==
  \A level \in Levels :
    /\ v[level] \in Seq(File)
    /\ SortedBySmallest(v[level])
    /\ level > 0 => \A f, g \in FilesIn(v[level]) : f # g => Apart(f, g)

Outside(f, range) == Largest(f).key < range[1] \/ Smallest(f).key > range[2]

LEMMA WholeIs ==
  ASSUME NEW f \in File, NEW g \in File
  PROVE  /\ Whole(f, g) <=> Before(Largest(f), Smallest(g))
         /\ Largest(f).key < Smallest(g).key => Whole(f, g)
         /\ Whole(f, g) => /\ Largest(f).key <= Smallest(g).key
                           /\ Before(Smallest(f), Smallest(g))
                           /\ Before(Largest(f), Largest(g))
                           /\ ~Whole(g, f)
<1>1. /\ Smallest(f) \in f.entries /\ Largest(f) \in f.entries
      /\ Smallest(g) \in g.entries /\ Largest(g) \in g.entries
      /\ Smallest(f) \in Entry /\ Largest(f) \in Entry
      /\ Smallest(g) \in Entry /\ Largest(g) \in Entry
  BY BoundsOfFile
<1>2. \A d \in f.entries : d \in Entry /\ (d = Largest(f) \/ Before(d, Largest(f)))
  BY BoundsOfFile
<1>3. \A e \in g.entries : e \in Entry /\ (e = Smallest(g) \/ Before(Smallest(g), e))
  BY BoundsOfFile
<1>4. Smallest(f) = Largest(f) \/ Before(Smallest(f), Largest(f))
  BY <1>1, <1>2
<1>5. Smallest(g) = Largest(g) \/ Before(Smallest(g), Largest(g))
  BY <1>1, <1>3
<1>6. Before(Largest(f), Smallest(g)) => Whole(f, g)
  <2> SUFFICES ASSUME Before(Largest(f), Smallest(g)), NEW d \in f.entries, NEW e \in g.entries
               PROVE  Before(d, e)
    BY DEF Whole
  <2>1. Before(d, Smallest(g))
    BY <1>1, <1>2, BeforeIsOrder
  <2> QED BY <1>1, <1>2, <1>3, <2>1, BeforeIsOrder
<1>7. Whole(f, g) => Before(Largest(f), Smallest(g))
  BY <1>1 DEF Whole
<1>8. \A d, e \in Entry : /\ d.key < e.key => Before(d, e)
                          /\ Before(d, e) => d.key <= e.key
  BY KeyMaxAssumption DEF KeyMaxAssumption, Entry, UserKeys, Before
<1>9. ASSUME Before(Largest(f), Smallest(g))
      PROVE  /\ Before(Smallest(f), Smallest(g)) /\ Before(Largest(f), Largest(g))
             /\ ~Whole(g, f)
  <2>1. Before(Smallest(f), Smallest(g)) /\ Before(Largest(f), Largest(g))
    BY <1>1, <1>4, <1>5, <1>9, BeforeIsOrder
  <2>2. ASSUME Whole(g, f) PROVE FALSE
    <3>1. Before(Smallest(g), Largest(f))
      BY <1>1, <2>2 DEF Whole
    <3> QED BY <1>1, <1>9, <3>1, BeforeIsOrder
  <2> QED BY <2>1, <2>2
<1> QED BY <1>1, <1>6, <1>7, <1>8, <1>9

(* Below level 0 files follow each other.                                  *)
LEMMA LevelInOrder ==
  ASSUME NEW v, Orderly(v), NEW level \in Levels, level > 0,
         NEW i \in DOMAIN v[level], NEW j \in DOMAIN v[level], i < j
  PROVE  Whole(v[level][i], v[level][j])
<1> DEFINE f == v[level][i]
           g == v[level][j]
<1>1. /\ v[level] \in Seq(File) /\ SortedBySmallest(v[level])
      /\ \A x, y \in FilesIn(v[level]) : x # y => Apart(x, y)
  BY DEF Orderly
<1>2. f \in File /\ g \in File /\ f \in FilesIn(v[level]) /\ g \in FilesIn(v[level])
  BY <1>1, FilesInIs
<1>3. BySmallestKey(f, g)
  BY <1>1 DEF SortedBySmallest
<1> HIDE DEF f, g
<1>4. /\ Smallest(f) \in Entry /\ Smallest(g) \in Entry
      /\ f.number \in Nat /\ g.number \in Nat
  BY <1>2, BoundsOfFile DEF File
<1>5. f # g
  BY <1>3, <1>4, BeforeIsOrder DEF BySmallestKey
<1>6. ASSUME Whole(g, f) PROVE FALSE
  <2>1. Before(Smallest(g), Smallest(f))
    BY <1>2, <1>6, WholeIs
  <2> QED BY <1>3, <1>4, <2>1, BeforeIsOrder DEF BySmallestKey
<1> QED BY <1>1, <1>2, <1>5, <1>6 DEF Apart, f, g

(* A level that is found not to overlap a range has no file in it.         *)
LEMMA NoOverlap ==
  ASSUME NEW v, Orderly(v), NEW level \in Levels, NEW begin \in UserKeys, NEW end \in UserKeys,
         \A f \in FilesIn(v[level]) : \A e \in f.entries : e.tag <= 2 * kMaxSequenceNumber + 1,
         ~OverlapInLevel(v, level, begin, end)
  PROVE  \A f \in FilesIn(v[level]) : Outside(f, <<begin, end>>)
<1> DEFINE fs == v[level]
           ik == LookupKey(begin, kMaxSequenceNumber)
           i  == FindFile(fs, ik)
<1>1. fs \in Seq(File) /\ Len(fs) \in Nat /\ DOMAIN fs = 1..Len(fs)
  BY LenProperties DEF Orderly
<1>2. \A j \in DOMAIN fs : fs[j] \in File /\ fs[j] \in FilesIn(fs)
  BY <1>1, FilesInIs
<1>3. /\ UserKeys \subseteq Int
      /\ \A f \in File : Smallest(f).key \in UserKeys /\ Largest(f).key \in UserKeys
      /\ \A f \in File : Smallest(f).key <= Largest(f).key
      /\ \A f \in File : Smallest(f) \in Entry /\ Largest(f) \in Entry
      /\ \A f \in File : Largest(f) \in f.entries
  BY BoundsOfFile DEF Entry, UserKeys
<1>4. CASE ~(level > 0)
  <2>1. \A f \in FilesIn(fs) : ~(~AfterFile(begin, f) /\ ~BeforeFile(end, f))
    BY <1>4 DEF OverlapInLevel, SomeFileOverlapsRange
  <2> QED BY <1>3, <2>1 DEF AfterFile, BeforeFile, Outside
<1>5. CASE level > 0
  <2>1. begin # BeforeAll
    BY DEF UserKeys, BeforeAll
  <2>2. ~(i <= Len(fs) /\ ~BeforeFile(end, fs[i]))
    BY <1>5, <2>1 DEF OverlapInLevel, SomeFileOverlapsRange
  <2>3. ik.key = begin /\ ik.tag = 2 * kMaxSequenceNumber + 1
    BY DEF LookupKey, InternalKey, PackSequenceAndType, kValueTypeForSeek, kTypeValue
  <2>4. kMaxSequenceNumber \in Nat
    BY SequenceAssumption DEF SequenceAssumption
  <2> HIDE DEF ik
  <2>5. ASSUME NEW j \in DOMAIN fs, NEW k \in DOMAIN fs, j < k, Before(Largest(fs[k]), ik)
        PROVE  Before(Largest(fs[j]), ik)
    <3>1. Before(Largest(fs[j]), Largest(fs[k]))
      BY <1>2, <1>5, <2>5, LevelInOrder, WholeIs
    <3>2. Largest(fs[j]) \in Entry /\ Largest(fs[k]) \in Entry
      BY <1>2, <1>3
    <3>3. ik.key \in Int /\ ik.tag \in Int
      BY <1>3, <2>3, <2>4
    <3>4. /\ Largest(fs[j]).key \in Int /\ Largest(fs[j]).tag \in Int
          /\ Largest(fs[k]).key \in Int /\ Largest(fs[k]).tag \in Int
      BY <3>2 DEF Entry, UserKeys
    <3> HIDE DEF fs
    <3> QED BY <2>5, <3>1, <3>3, <3>4 DEF Before
  <2>6. /\ i \in 1..(Len(fs) + 1)
        /\ \A j \in DOMAIN fs : j < i <=> Before(Largest(fs[j]), ik)
    BY <1>1, <2>5, FindFileIs
  <2> HIDE DEF i, fs
  <2>7. ASSUME NEW j \in DOMAIN fs, j < i PROVE Largest(fs[j]).key < begin
    <3>1. Before(Largest(fs[j]), ik)
      BY <2>6, <2>7
    <3>2. Largest(fs[j]).tag <= 2 * kMaxSequenceNumber + 1 /\ Largest(fs[j]).tag \in Int
      BY <1>2, <1>3 DEF fs, Entry
    <3> QED BY <2>3, <2>4, <3>1, <3>2 DEF Before
  <2>8. ASSUME NEW j \in DOMAIN fs, ~(j < i) PROVE Smallest(fs[j]).key > end
    <3>1. i \in DOMAIN fs /\ (i = j \/ i < j)
      BY <1>1, <2>6, <2>8
    <3>2. end < Smallest(fs[i]).key
      BY <1>1, <2>2, <3>1 DEF BeforeFile
    <3>3. i < j => Largest(fs[i]).key <= Smallest(fs[j]).key
      BY <1>2, <1>5, <3>1, LevelInOrder, WholeIs DEF fs
    <3>4. Smallest(fs[i]).key <= Largest(fs[i]).key
      BY <1>2, <1>3, <3>1
    <3>5. /\ Smallest(fs[i]).key \in Int /\ Largest(fs[i]).key \in Int
          /\ Smallest(fs[j]).key \in Int /\ end \in Int
      BY <1>2, <1>3, <3>1
    <3> QED BY <3>1, <3>2, <3>3, <3>4, <3>5
  <2> QED BY <2>7, <2>8 DEF FilesIn, Outside, fs
<1> QED BY <1>4, <1>5

(* The files of a level that a range leads to: those not outside R.        *)
ChosenFrom(fs, level, range, R, F) ==
  /\ R \in Ranges /\ R[1] <= range[1] /\ range[2] <= R[2]
  /\ F = {f \in FilesIn(fs) : ~Outside(f, R)}
  /\ level > 0 => R = range
  /\ level = 0 => \A f \in F : R[1] <= Smallest(f).key /\ Largest(f).key <= R[2]
  /\ \A G : FilesIn(fs) \subseteq G /\ Spanned(range, G) => Spanned(R, G)

LEMMA OverlappingInputsAre ==
  ASSUME NEW v, Orderly(v), NEW level \in Levels, NEW begin \in Bounds, NEW end \in Bounds
  PROVE  LET s == GetOverlappingInputs(v, level, begin, end)
             R == SearchedRange(level, v[level], begin, end)
         IN  /\ s \in Seq(File)
             /\ ChosenFrom(v[level], level, <<begin, end>>, R, FilesIn(s))
<1> DEFINE fs == v[level]
           s  == GetOverlappingInputs(v, level, begin, end)
           R  == SearchedRange(level, fs, begin, end)
           c  == <<begin, end>>
<1>1. fs \in Seq(File)
  BY DEF Orderly
<1>2. level > 0 => R = c
  BY <1>1, SearchedRangeIs
<1>3. level = 0 => GrowsTo(fs, c, R)
  BY <1>1, SearchedRangeIs
<1>4. level \in Nat /\ Bounds \subseteq Int
  BY LevelAssumption DEF LevelAssumption, Levels, Bounds
<1>5. s = FilesInRange(fs, R)
  BY DEF GetOverlappingInputs
<1> HIDE DEF s, R, fs
<1>6. s \in Seq(File) /\ FilesIn(s) = {f \in FilesIn(fs) : Overlaps(f, R[1], R[2])}
  BY <1>1, <1>5, FilesInRangeIs
<1>7. /\ R \in Ranges /\ R[1] <= c[1] /\ c[2] <= R[2] /\ R[1] \in Int /\ R[2] \in Int
      /\ \A G : FilesIn(fs) \subseteq G /\ Spanned(c, G) => Spanned(R, G)
  <2>1. CASE level > 0
    BY <1>2, <1>4, <2>1 DEF Ranges
  <2>2. CASE level = 0
    <3>1. R \in Ranges
      BY <1>3, <2>2 DEF GrowsTo
    <3> QED BY <1>3, <1>4, <2>2, <3>1 DEF GrowsTo, Ranges
  <2> QED BY <1>4, <2>1, <2>2
<1>8. \A f \in FilesIn(fs) : Smallest(f).key \in Int /\ Largest(f).key \in Int
  BY <1>1, FilesInIs, BoundsOfFile DEF Entry, UserKeys
<1>9. FilesIn(s) = {f \in FilesIn(fs) : ~Outside(f, R)}
  BY <1>6, <1>7, <1>8 DEF Overlaps, AfterFile, BeforeFile, Outside
<1>10. ASSUME level = 0, NEW f \in FilesIn(s)
       PROVE  R[1] <= Smallest(f).key /\ Largest(f).key <= R[2]
  <2>1. PICK k \in DOMAIN fs : fs[k] = f
    BY <1>6 DEF FilesIn
  <2>2. k \notin Wider(fs, R)
    BY <1>3, <1>10 DEF GrowsTo
  <2>3. Overlaps(f, R[1], R[2]) /\ f \in FilesIn(fs)
    BY <1>6
  <2>4. ~(Smallest(f).key < R[1] \/ Largest(f).key > R[2])
    BY <2>1, <2>2, <2>3 DEF Wider
  <2> QED BY <1>7, <1>8, <2>3, <2>4
<1> QED BY <1>2, <1>6, <1>7, <1>9, <1>10 DEF ChosenFrom, s, R, fs

-----------------------------------------------------------------------------
(* The inputs of a compaction *)

Newer(S, T) == \A d \in S, e \in T : d.key = e.key => e.tag < d.tag
Strangers(f, g) == \A d \in f.entries, e \in g.entries : d.key # e.key

(* Each user key between two files of F is in the range of a file of F.    *)
Hulled(F) == \A f, g \in F : \A k \in UserKeys :
               Smallest(f).key <= k /\ k <= Largest(g).key => \E h \in F : InRange(k, h)

(* The files of fs that are not in F do not lie between files of F; in     *)
(* level 0 their user keys are outside the range of F.                     *)
LeftOut(level, fs, F) ==
  \A g \in FilesIn(fs) \ F :
    IF level > 0 THEN (\A f \in F : Whole(g, f)) \/ (\A f \in F : Whole(f, g))
    ELSE \A f, h \in F : Largest(g).key < Smallest(f).key \/ Smallest(g).key > Largest(h).key

LEMMA WholeChain ==
  ASSUME NEW f \in File, NEW g \in File, NEW h \in File, Whole(f, g), Whole(g, h)
  PROVE  Whole(f, h)
<1>1. /\ Before(Largest(f), Smallest(g)) /\ Before(Smallest(g), Smallest(h))
      /\ Largest(f) \in Entry /\ Smallest(g) \in Entry /\ Smallest(h) \in Entry
  BY WholeIs, BoundsOfFile
<1>2. Before(Largest(f), Smallest(h))
  BY <1>1, BeforeIsOrder
<1> QED BY <1>2, WholeIs

LEMMA BoundaryStep ==
  ASSUME NEW v, Orderly(v), NEW level \in Levels,
         NEW now \in Seq(File), now # <<>>, FilesIn(now) \subseteq FilesIn(v[level]),
         LeftOut(level, v[level], FilesIn(now)), Continuing(v[level], now) # {}
  PROVE  LET f == FirstFile(Continuing(v[level], now))
             F == FilesIn(now)
         IN  /\ f \in FilesIn(v[level]) \ F /\ f \in File /\ level > 0
             /\ LeftOut(level, v[level], F \cup {f})
             /\ \A X \in SUBSET File : Hulled(F \cup X) => Hulled(F \cup {f} \cup X)
<1> DEFINE C   == Continuing(v[level], now)
           f   == FirstFile(C)
           F   == FilesIn(now)
           A   == FilesIn(v[level])
           top == RangeOf(now).largest
<1>1. /\ A \in SUBSET File /\ IsFiniteSet(A) /\ F \in SUBSET File /\ F \subseteq A
      /\ level > 0 => \A g, h \in A : g # h => Apart(g, h)
  BY FilesInIs DEF Orderly
<1>2. C = {g \in A : Before(top, Smallest(g)) /\ Smallest(g).key = top.key} /\ C # {}
  BY DEF Continuing
<1>3. PICK h \in F : top = Largest(h)
  BY RangeOfIs
<1>4. \A g \in F : top = Largest(g) \/ Before(Largest(g), top)
  BY RangeOfIs
<1>5. \A g \in A : g \notin F =>
        IF level > 0 THEN (\A x \in F : Whole(g, x)) \/ (\A x \in F : Whole(x, g))
        ELSE \A x, y \in F : Largest(g).key < Smallest(x).key \/ Smallest(g).key > Largest(y).key
  BY DEF LeftOut
<1> HIDE DEF C, F, A, top
<1>6. /\ \A g \in File : /\ Smallest(g) \in Entry /\ Largest(g) \in Entry
                         /\ Smallest(g).key \in UserKeys /\ Largest(g).key \in UserKeys
                         /\ Smallest(g).key <= Largest(g).key
                         /\ Smallest(g) = Largest(g) \/ Before(Smallest(g), Largest(g))
      /\ UserKeys \subseteq Int
  BY BoundsOfFile DEF Entry, UserKeys
<1>7. \A d, e \in Entry : Before(d, e) => d.key <= e.key
  BY KeyMaxAssumption DEF KeyMaxAssumption, Entry, UserKeys, Before
<1>8. ASSUME NEW c \in C PROVE c \notin F
  <2> SUFFICES ASSUME c \in F PROVE FALSE
    OBVIOUS
  <2>1. Before(top, Smallest(c)) /\ (top = Largest(c) \/ Before(Largest(c), top))
    BY <1>2, <1>4
  <2>2. c \in File /\ top \in Entry
    BY <1>1, <1>2, <1>3, <1>6
  <2> QED BY <1>6, <2>1, <2>2, BeforeIsOrder
<1>9. level > 0
  <2> SUFFICES ASSUME ~(level > 0) PROVE FALSE
    OBVIOUS
  <2>1. PICK c \in C : TRUE
    BY <1>2
  <2>2. Largest(c).key < Smallest(h).key \/ Smallest(c).key > Largest(h).key
    BY <1>2, <1>5, <1>8
  <2>3. c \in File /\ h \in File /\ Smallest(c).key = Largest(h).key
    BY <1>1, <1>2, <1>3
  <2>4. /\ Smallest(c).key \in Int /\ Largest(c).key \in Int
        /\ Smallest(h).key \in Int /\ Largest(h).key \in Int
        /\ Smallest(c).key <= Largest(c).key /\ Smallest(h).key <= Largest(h).key
    BY <1>6, <2>3
  <2> QED BY <2>2, <2>3, <2>4
<1>10. f \in C /\ \A g \in C : ~Before(Smallest(g), Smallest(f))
  <2> DEFINE R == {p \in C \X C : Before(Smallest(p[1]), Smallest(p[2]))}
  <2>1. C \in SUBSET A /\ IsFiniteSet(C) /\ C \in SUBSET File
    BY <1>1, <1>2, FS_Subset
  <2>2. \A g, x \in C : <<g, x>> \in R <=> Before(Smallest(g), Smallest(x))
    OBVIOUS
  <2>3. \A g, x \in C : g # x =>
          Before(Smallest(g), Smallest(x)) \/ Before(Smallest(x), Smallest(g))
    BY <1>1, <1>9, <2>1, WholeIs DEF Apart
  <2>4. \A g \in C : Smallest(g) \in Entry
    BY <1>6, <2>1
  <2> HIDE DEF R
  <2>5. StrictOrder(R, C)
    BY <2>2, <2>3, <2>4, BeforeIsOrder DEF StrictOrder
  <2>6. PICK g \in C : \A x \in C : x # g => <<g, x>> \in R
    <3>1. C # {}
      BY <1>2
    <3> QED BY <2>1, <2>5, <3>1, FirstOfOrder
  <2>7. \A x \in C : ~Before(Smallest(x), Smallest(g))
    BY <2>2, <2>4, <2>6, BeforeIsOrder
  <2> QED BY <2>7 DEF FirstFile
<1> HIDE DEF f
<1>11. /\ f \in A /\ f \notin F /\ f \in File /\ h \in File
       /\ Before(top, Smallest(f)) /\ Smallest(f).key = top.key
  BY <1>1, <1>2, <1>8, <1>10
<1>12. Whole(h, f)
  BY <1>3, <1>11, WholeIs
<1>13. LeftOut(level, v[level], F \cup {f})
  <2> SUFFICES ASSUME NEW g \in A, g \notin F, g # f
               PROVE  \/ \A x \in F \cup {f} : Whole(g, x)
                      \/ \A x \in F \cup {f} : Whole(x, g)
    BY <1>9 DEF LeftOut, A
  <2>1. g \in File
    BY <1>1
  <2>2. CASE \A x \in F : Whole(g, x)
    BY <1>11, <1>12, <2>1, <2>2, WholeChain
  <2>3. CASE \A x \in F : Whole(x, g)
    <3>1. ASSUME Whole(g, f) PROVE FALSE
      <4>1. Before(Smallest(g), Smallest(f)) /\ Before(top, Smallest(g))
        BY <1>3, <1>11, <2>1, <2>3, <3>1, WholeIs
      <4>2. top.key <= Smallest(g).key /\ Smallest(g).key <= Smallest(f).key
        BY <1>3, <1>6, <1>7, <1>11, <2>1, <4>1
      <4>3. Smallest(g).key = top.key
        <5>1. Smallest(g).key \in Int /\ Smallest(f).key \in Int
          BY <1>6, <1>11, <2>1
        <5> QED BY <1>11, <4>2, <5>1
      <4> QED BY <1>2, <1>10, <4>1, <4>3
    <3>2. Whole(f, g)
      BY <1>1, <1>9, <1>11, <3>1 DEF Apart
    <3> QED BY <2>3, <3>2
  <2> QED BY <1>5, <1>9, <2>2, <2>3
<1>14. ASSUME NEW X \in SUBSET File, Hulled(F \cup X) PROVE Hulled(F \cup {f} \cup X)
  <2> SUFFICES ASSUME NEW a \in F \cup {f} \cup X, NEW b \in F \cup {f} \cup X,
                      NEW k \in UserKeys, Smallest(a).key <= k, k <= Largest(b).key
               PROVE  \E x \in F \cup {f} \cup X : InRange(k, x)
    BY DEF Hulled
  <2>1. \A x, y \in F \cup X : Smallest(x).key <= k /\ k <= Largest(y).key
          => \E z \in F \cup X : InRange(k, z)
    BY <1>14 DEF Hulled
  <2>2. /\ k \in Int /\ Smallest(f).key \in Int /\ Largest(f).key \in Int
        /\ Smallest(h).key \in Int /\ Smallest(h).key <= Largest(h).key
        /\ Largest(h).key = Smallest(f).key
    BY <1>3, <1>6, <1>11
  <2>3. CASE a # f /\ b # f
    BY <2>1, <2>3
  <2>4. CASE a = f /\ b # f
    <3>1. Smallest(h).key <= k
      BY <2>2, <2>4
    <3> QED BY <2>1, <2>4, <3>1
  <2>5. CASE b = f
    <3>1. CASE Smallest(f).key <= k
      BY <2>5, <3>1 DEF InRange
    <3>2. CASE ~(Smallest(f).key <= k)
      <4>1. k <= Largest(h).key /\ a # f
        BY <2>2, <3>2
      <4> QED BY <2>1, <4>1
    <3> QED BY <3>1, <3>2
  <2> QED BY <2>3, <2>4, <2>5
<1> QED BY <1>9, <1>11, <1>13, <1>14 DEF C, F, A, f

(* Adding the files that continue a user key leaves no gaps, and leaves in *)
(* the level only files newer than the inputs.                             *)
LEMMA AddBoundaryInputsIs ==
  ASSUME NEW v, Orderly(v), NEW level \in Levels,
         NEW inputs \in Seq(File), inputs # <<>>, FilesIn(inputs) \subseteq FilesIn(v[level]),
         LeftOut(level, v[level], FilesIn(inputs))
  PROVE  LET s == AddBoundaryInputs(v[level], inputs)
             F == FilesIn(s)
         IN  /\ s \in Seq(File) /\ s # <<>>
             /\ FilesIn(inputs) \subseteq F /\ F \subseteq FilesIn(v[level])
             /\ \A g \in FilesIn(v[level]) \ F, f \in F : Newer(g.entries, f.entries)
             /\ \A X \in SUBSET File : Hulled(FilesIn(inputs) \cup X) => Hulled(F \cup X)
<1> DEFINE fs == v[level]
           N  == Len(fs)
           A  == FilesIn(fs)
           I  == FilesIn(inputs)
           V  == {s \in Seq(File) :
                    /\ s # <<>> /\ I \subseteq FilesIn(s) /\ FilesIn(s) \subseteq A
                    /\ LeftOut(level, fs, FilesIn(s))
                    /\ \A X \in SUBSET File : Hulled(I \cup X) => Hulled(FilesIn(s) \cup X)}
           C(s) == Continuing(fs, s)
           step(s) == IF C(s) = {} THEN s ELSE Append(s, FirstFile(C(s)))
           st == [p \in (1..N) \X V |-> step(p[2])]
           G(g) == g = [n \in 0..N |-> IF n = 0 THEN inputs
                                       ELSE IF C(g[n - 1]) = {} THEN g[n - 1]
                                       ELSE Append(g[n - 1], FirstFile(C(g[n - 1])))]
           g == CHOOSE h : G(h)
<1>1. fs \in Seq(File) /\ N \in Nat /\ A \in SUBSET File /\ IsFiniteSet(A) /\ Cardinality(A) \in 0..N
  BY LenProperties, FilesInIs DEF Orderly
<1>2. AddBoundaryInputs(fs, inputs) = g[N]
  BY DEF AddBoundaryInputs
<1>3. inputs \in V
  OBVIOUS
<1>4. ASSUME NEW s \in V
      PROVE  /\ step(s) \in V
             /\ C(s) # {} => \E f \in A : f \notin FilesIn(s) /\ FilesIn(step(s)) = FilesIn(s) \cup {f}
  <2>1. CASE C(s) = {}
    BY <2>1
  <2>2. CASE C(s) # {}
    <3> DEFINE f == FirstFile(C(s))
    <3>1. /\ f \in A /\ f \notin FilesIn(s) /\ f \in File
          /\ LeftOut(level, fs, FilesIn(s) \cup {f})
          /\ \A X \in SUBSET File :
               Hulled(FilesIn(s) \cup X) => Hulled(FilesIn(s) \cup {f} \cup X)
      BY <2>2, BoundaryStep
    <3> HIDE DEF f
    <3>2. /\ Append(s, f) \in Seq(File)
          /\ FilesIn(Append(s, f)) = FilesIn(s) \cup {f}
      BY <3>1, FilesInLonger
    <3>3. Append(s, f) # <<>>
      BY <3>2, FilesInIs
    <3>4. step(s) = Append(s, f)
      BY <2>2 DEF f
    <3> HIDE DEF step
    <3> QED BY <3>1, <3>2, <3>3, <3>4
  <2> QED BY <2>1, <2>2
<1> HIDE DEF V
<1>5. ASSUME NEW h
      PROVE  G(h) <=> h = [n \in 0..N |-> IF n = 0 THEN inputs ELSE step(h[n - 1])]
  OBVIOUS
<1> HIDE DEF G, C
<1>6. ASSUME NEW n \in 1..N, NEW s \in V PROVE st[<<n, s>>] = step(s)
  <2> HIDE DEF step
  <2> QED OBVIOUS
<1>7. Climbs(N, V, inputs, st)
  <2> HIDE DEF st, step
  <2> QED BY <1>1, <1>3, <1>4, <1>6 DEF Climbs
<1> HIDE DEF step
<1>8. ASSUME NEW h \in [0..N -> V]
      PROVE  [n \in 0..N |-> IF n = 0 THEN inputs ELSE st[<<n, h[n - 1]>>]]
               = [n \in 0..N |-> IF n = 0 THEN inputs ELSE step(h[n - 1])]
  <2>1. ASSUME NEW n \in 0..N, n # 0 PROVE st[<<n, h[n - 1]>>] = step(h[n - 1])
    <3>1. n \in 1..N /\ n - 1 \in 0..N
      BY <1>1, <2>1
    <3>2. h[n - 1] \in V
      BY <3>1
    <3> HIDE DEF st
    <3> QED BY <1>6, <3>1, <3>2
  <2> HIDE DEF st
  <2> QED BY <2>1
<1> HIDE DEF st
<1>9. \E h : G(h)
  <2>1. PICK h : Recurs(h, N, inputs, st)
    BY <1>7, Climbing
  <2>2. h \in [0..N -> V]
    BY <1>7, <2>1, Climbing
  <2>3. h = [n \in 0..N |-> IF n = 0 THEN inputs ELSE step(h[n - 1])]
    BY <1>8, <2>1, <2>2 DEF Recurs
  <2>4. G(h)
    BY <1>5, <2>3
  <2> QED BY <2>4
<1>10. G(g)
  BY <1>9
<1> HIDE DEF g
<1>11. \A n \in 0..N : g[n] = IF n = 0 THEN inputs ELSE step(g[n - 1])
  BY <1>5, <1>10
<1>12. \A n \in 0..N : g[n] \in V
  <2> DEFINE Bad == {n \in 0..N : g[n] \notin V}
  <2> SUFFICES ASSUME Bad # {} PROVE FALSE
    OBVIOUS
  <2>1. PICK n \in Bad : \A m \in Bad : n <= m
    <3>1. Bad \in SUBSET Nat /\ Bad # {}
      BY <1>1
    <3> HIDE DEF Bad
    <3> QED BY <3>1, LeastNumber
  <2>2. n \in 0..N /\ n # 0
    BY <1>3, <1>11, <2>1
  <2>3. n - 1 \in 0..N /\ ~(n <= n - 1)
    BY <1>1, <2>2
  <2>4. g[n - 1] \in V
    BY <2>1, <2>3
  <2> QED BY <1>4, <1>11, <2>1, <2>2, <2>4
<1>13. \A s \in V : FilesIn(s) \in SUBSET A /\ FilesIn(s) # {} /\ s \in Seq(File)
  BY FilesInIs DEF V
<1> DEFINE size(n) == Cardinality(FilesIn(g[n]))
<1>14. \A n \in 0..N : /\ IsFiniteSet(FilesIn(g[n])) /\ size(n) \in Nat /\ size(n) <= Cardinality(A)
                       /\ size(n) # 0
  <2> TAKE n \in 0..N
  <2>1. FilesIn(g[n]) \in SUBSET A /\ FilesIn(g[n]) # {}
    BY <1>12, <1>13
  <2> QED BY <1>1, <2>1, FS_Subset, FS_CardinalityType, FS_EmptySet
<1>15. \A n \in 0..N : C(g[n]) = {} \/ size(n) >= n + 1
  <2> DEFINE Bad == {n \in 0..N : ~(C(g[n]) = {} \/ size(n) >= n + 1)}
  <2> SUFFICES ASSUME Bad # {} PROVE FALSE
    OBVIOUS
  <2>1. PICK n \in Bad : \A m \in Bad : n <= m
    <3>1. Bad \in SUBSET (0..N) /\ 0..N \in SUBSET Nat
      BY <1>1
    <3>2. Bad # {}
      OBVIOUS
    <3> HIDE DEF Bad
    <3> QED BY <3>1, <3>2, LeastNumber
  <2>2. n \in 0..N /\ C(g[n]) # {} /\ ~(size(n) >= n + 1)
    BY <2>1
  <2>3. n # 0
    BY <1>1, <1>14, <2>2
  <2>4. n - 1 \in 0..N /\ ~(n <= n - 1)
    BY <1>1, <2>2, <2>3
  <2>5. C(g[n - 1]) = {} \/ size(n - 1) >= n
    <3>1. n - 1 \notin Bad
      BY <2>1, <2>4
    <3> HIDE DEF size
    <3> QED BY <1>1, <2>2, <2>4, <3>1
  <2>6. g[n] = step(g[n - 1])
    BY <1>11, <2>2, <2>3
  <2>7. CASE C(g[n - 1]) = {}
    <3>1. g[n] = g[n - 1]
      BY <2>6, <2>7 DEF step
    <3> QED BY <2>2, <2>7, <3>1
  <2>8. CASE C(g[n - 1]) # {}
    <3>1. PICK f \in A : f \notin FilesIn(g[n - 1]) /\ FilesIn(g[n]) = FilesIn(g[n - 1]) \cup {f}
      BY <1>4, <1>12, <2>4, <2>6, <2>8
    <3>2. size(n) = size(n - 1) + 1
      BY <1>14, <2>4, <3>1, FS_AddElement
    <3>3. size(n - 1) >= n /\ ~(size(n) >= n + 1)
      BY <2>2, <2>5, <2>8
    <3>4. size(n - 1) \in Nat /\ n \in Nat
      <4>1. n \in Nat
        BY <1>1, <2>2
      <4> HIDE DEF size, Bad, C
      <4> QED BY <1>14, <2>4, <4>1
    <3> HIDE DEF size, Bad, C
    <3> QED BY <3>2, <3>3, <3>4
  <2> QED BY <2>7, <2>8
<1>16. C(g[N]) = {}
  <2>1. N \in 0..N /\ ~(size(N) >= N + 1)
    BY <1>1, <1>14
  <2> QED BY <1>15, <2>1
<1> DEFINE s == g[N]
           F == FilesIn(s)
<1>17. s \in V
  BY <1>1, <1>12
<1>18. ASSUME NEW x \in A \ F, NEW f \in F PROVE Newer(x.entries, f.entries)
  <2> SUFFICES ASSUME NEW d \in x.entries, NEW e \in f.entries, d.key = e.key
               PROVE  e.tag < d.tag
    BY DEF Newer
  <2>1. x \in File /\ f \in File /\ s \in Seq(File) /\ s # <<>> /\ LeftOut(level, fs, F)
    BY <1>1, <1>13, <1>17 DEF V
  <2>2. /\ d \in Entry /\ e \in Entry
        /\ Smallest(x).key <= d.key /\ d.key <= Largest(x).key
        /\ Smallest(f).key <= e.key /\ e.key <= Largest(f).key
        /\ Smallest(x) \in Entry /\ Largest(x) \in Entry
        /\ Smallest(f) \in Entry /\ Largest(f) \in Entry
    BY <2>1, BoundsOfFile
  <2>3. CASE ~(level > 0)
    <3>1. Largest(x).key < Smallest(f).key \/ Smallest(x).key > Largest(f).key
      BY <2>1, <2>3 DEF LeftOut
    <3> QED BY <2>2, <3>1 DEF Entry, UserKeys
  <2>4. CASE level > 0
    <3>1. CASE Whole(x, f)
      <4>1. Before(d, e)
        BY <3>1 DEF Whole
      <4> QED BY <2>2, <4>1 DEF Before, Entry, UserKeys
    <3>2. CASE \A y \in F : Whole(y, x)
      <4> DEFINE top == RangeOf(s).largest
      <4>1. PICK h \in F : top = Largest(h)
        BY <2>1, RangeOfIs
      <4>2. top.key >= Largest(f).key
        BY <2>1, RangeOfIs
      <4>3. h \in File /\ top \in Entry
        BY <1>1, <1>13, <1>17, <4>1, BoundsOfFile
      <4>4. Before(top, Smallest(x)) /\ top.key <= Smallest(x).key
        BY <2>1, <3>2, <4>1, <4>3, WholeIs
      <4> HIDE DEF top
      <4>5. Smallest(x).key = top.key
        BY <2>2, <4>2, <4>3, <4>4 DEF Entry, UserKeys
      <4>6. x \in C(s)
        BY <4>4, <4>5 DEF C, Continuing, top
      <4> QED BY <1>16, <4>6
    <3> QED BY <2>1, <2>4, <3>1, <3>2 DEF LeftOut
  <2> QED BY <2>3, <2>4
<1> QED BY <1>2, <1>17, <1>18 DEF V

(* The files of a level over the range of others: what they leave out lies *)
(* to one side of them, and they leave no gaps.                            *)
LEMMA FilesOverIs ==
  ASSUME NEW v, Orderly(v), NEW level \in Levels, NEW fs \in Seq(File), fs # <<>>
  PROVE  LET s == FilesOver(v, level, fs)
             S == FilesIn(s)
             I == FilesIn(fs)
         IN  /\ s \in Seq(File) /\ S \subseteq FilesIn(v[level])
             /\ I \cap FilesIn(v[level]) \subseteq S
             /\ LeftOut(level, v[level], S)
             /\ level > 0 => \A g \in FilesIn(v[level]) \ S :
                               \/ \A f \in I \cup S : Whole(g, f)
                               \/ \A f \in I \cup S : Whole(f, g)
             /\ level > 0 => \A g \in FilesIn(v[level]) \ S : \A f \in I : Strangers(f, g)
             /\ Hulled(I) => Hulled(I \cup S)
<1> DEFINE s == FilesOver(v, level, fs)
           S == FilesIn(s)
           I == FilesIn(fs)
           A == FilesIn(v[level])
           r == RangeOf(fs)
           b == r.smallest.key
           e == r.largest.key
           R == SearchedRange(level, v[level], b, e)
<1>1. /\ r.smallest \in Entry /\ r.largest \in Entry
      /\ \E f \in I : r.smallest = Smallest(f)
      /\ \E f \in I : r.largest = Largest(f)
      /\ \A f \in I : b <= Smallest(f).key /\ Largest(f).key <= e
  BY RangeOfIs
<1>2. I \in SUBSET File /\ A \in SUBSET File
  BY FilesInIs DEF Orderly
<1>3. b \in Bounds /\ e \in Bounds /\ b \in UserKeys /\ e \in UserKeys
  BY <1>1, KeyMaxAssumption DEF KeyMaxAssumption, Entry, UserKeys, Bounds, AfterAll
<1>4. s = GetOverlappingInputs(v, level, b, e)
  BY DEF FilesOver, OverlapsOfRange
<1> HIDE DEF r
<1>5. s \in Seq(File) /\ ChosenFrom(v[level], level, <<b, e>>, R, S)
  BY <1>3, <1>4, OverlappingInputsAre
<1> HIDE DEF s, R, I, A, S, b, e
<1>6. /\ R[1] \in Int /\ R[2] \in Int /\ b \in Int /\ e \in Int
      /\ R[1] <= b /\ e <= R[2]
      /\ S = {f \in A : ~Outside(f, R)}
      /\ level > 0 => R = <<b, e>>
      /\ level = 0 => \A f \in S : R[1] <= Smallest(f).key /\ Largest(f).key <= R[2]
      /\ \A G : A \subseteq G /\ Spanned(<<b, e>>, G) => Spanned(R, G)
  BY <1>3, <1>5 DEF ChosenFrom, Ranges, Bounds, A, UserKeys
<1>7. /\ \A f \in File : /\ Smallest(f).key \in Int /\ Largest(f).key \in Int
                         /\ Smallest(f).key <= Largest(f).key
      /\ level \in Nat
  <2>1. \A f \in File : /\ Smallest(f).key \in Int /\ Largest(f).key \in Int
                        /\ Smallest(f).key <= Largest(f).key
    <3> SUFFICES ASSUME NEW f \in File
                 PROVE  /\ Smallest(f).key \in Int /\ Largest(f).key \in Int
                        /\ Smallest(f).key <= Largest(f).key
      OBVIOUS
    <3>1. Smallest(f) \in Entry /\ Largest(f) \in Entry /\ Smallest(f).key <= Largest(f).key
      BY BoundsOfFile
    <3> QED BY <3>1 DEF Entry, UserKeys
  <2>2. level \in Nat
    BY LevelAssumption DEF LevelAssumption, Levels
  <2> QED BY <2>1, <2>2
<1>8. ASSUME NEW f \in I, f \in A PROVE f \in S
  <2>1. b <= Smallest(f).key /\ Largest(f).key <= e /\ f \in File
    BY <1>1, <1>2 DEF b, e
  <2>2. /\ Smallest(f).key \in Int /\ Largest(f).key \in Int
        /\ Smallest(f).key <= Largest(f).key
    BY <1>7, <2>1
  <2>3. ~Outside(f, R)
    BY <1>6, <2>1, <2>2 DEF Outside
  <2> QED BY <1>6, <1>8, <2>3
<1>9. ASSUME level > 0, NEW g \in A \ S
      PROVE  (\A f \in I \cup S : Whole(g, f)) \/ (\A f \in I \cup S : Whole(f, g))
  <2>1. R = <<b, e>> /\ Outside(g, R) /\ g \in File
    BY <1>2, <1>6, <1>9
  <2>2. /\ Smallest(g).key \in Int /\ Largest(g).key \in Int /\ Smallest(g).key <= Largest(g).key
    BY <1>7, <2>1
  <2>3. \A f \in S : f \in A /\ f # g /\ Apart(f, g) /\ Largest(f).key >= b /\ Smallest(f).key <= e
    <3> SUFFICES ASSUME NEW f \in S
                 PROVE  f \in A /\ f # g /\ Apart(f, g) /\ Largest(f).key >= b /\ Smallest(f).key <= e
      OBVIOUS
    <3>1. f \in A /\ f # g /\ ~Outside(f, R) /\ f \in File
      BY <1>2, <1>6, <1>9
    <3>2. Apart(f, g)
      BY <1>9, <3>1 DEF Orderly, A
    <3>3. Smallest(f).key \in Int /\ Largest(f).key \in Int
      BY <1>7, <3>1
    <3> QED BY <1>6, <2>1, <3>1, <3>2, <3>3 DEF Outside
  <2>4. CASE Largest(g).key < b
    <3>1. ASSUME NEW f \in I PROVE Whole(g, f)
      <4>1. b <= Smallest(f).key /\ f \in File
        BY <1>1, <1>2 DEF b
      <4>2. Smallest(f).key \in Int
        BY <1>7, <4>1
      <4>3. Largest(g).key < Smallest(f).key
        BY <1>6, <2>2, <2>4, <4>1, <4>2
      <4> QED BY <2>1, <4>1, <4>3, WholeIs
    <3>2. ASSUME NEW f \in S PROVE Whole(g, f)
      <4>1. f \in File /\ Apart(f, g) /\ Largest(f).key >= b
        BY <1>2, <2>3
      <4>2. Whole(f, g) => Largest(f).key <= Smallest(g).key
        BY <2>1, <4>1, WholeIs
      <4>3. Largest(f).key \in Int
        BY <1>7, <4>1
      <4> QED BY <1>6, <2>2, <2>4, <4>1, <4>2, <4>3 DEF Apart
    <3> QED BY <3>1, <3>2
  <2>5. CASE Smallest(g).key > e
    <3>1. ASSUME NEW f \in I PROVE Whole(f, g)
      <4>1. Largest(f).key <= e /\ f \in File
        BY <1>1, <1>2 DEF e
      <4>2. Largest(f).key \in Int
        BY <1>7, <4>1
      <4>3. Largest(f).key < Smallest(g).key
        BY <1>6, <2>2, <2>5, <4>1, <4>2
      <4> QED BY <2>1, <4>1, <4>3, WholeIs
    <3>2. ASSUME NEW f \in S PROVE Whole(f, g)
      <4>1. f \in File /\ Apart(f, g) /\ Smallest(f).key <= e
        BY <1>2, <2>3
      <4>2. Whole(g, f) => Largest(g).key <= Smallest(f).key
        BY <2>1, <4>1, WholeIs
      <4>3. Smallest(f).key \in Int
        BY <1>7, <4>1
      <4> QED BY <1>6, <2>2, <2>5, <4>1, <4>2, <4>3 DEF Apart
    <3> QED BY <3>1, <3>2
  <2> QED BY <2>1, <2>4, <2>5 DEF Outside
<1>13. ASSUME level > 0, NEW g \in A \ S, NEW f \in I
       PROVE  Strangers(f, g)
  <2>1. Outside(g, <<b, e>>) /\ g \in File /\ f \in File
    BY <1>2, <1>6, <1>13
  <2>2. b <= Smallest(f).key /\ Largest(f).key <= e
    BY <1>1 DEF b, e
  <2>3. /\ \A d \in f.entries : b <= d.key /\ d.key <= e /\ d.key \in Int
        /\ \A d \in g.entries : /\ Smallest(g).key <= d.key /\ d.key <= Largest(g).key
                                 /\ d.key \in Int
    <3>1. \A h \in File : \A d \in h.entries :
            d.key \in Int /\ Smallest(h).key <= d.key /\ d.key <= Largest(h).key
      BY BoundsOfFile DEF Entry, UserKeys
    <3>2. \A h \in File : Smallest(h).key \in Int /\ Largest(h).key \in Int
      BY <1>7
    <3> QED BY <1>6, <2>1, <2>2, <3>1, <3>2
  <2>4. Smallest(g).key \in Int /\ Largest(g).key \in Int
    BY <1>7, <2>1
  <2> QED BY <1>6, <2>1, <2>3, <2>4 DEF Strangers, Outside
<1>10. LeftOut(level, v[level], S)
  <2> SUFFICES ASSUME NEW g \in A \ S
               PROVE  IF level > 0 THEN (\A f \in S : Whole(g, f)) \/ (\A f \in S : Whole(f, g))
                      ELSE \A f, h \in S : Largest(g).key < Smallest(f).key
                                           \/ Smallest(g).key > Largest(h).key
    BY DEF LeftOut, A
  <2>1. CASE level > 0
    BY <1>9, <2>1
  <2>2. CASE ~(level > 0)
    <3> SUFFICES ASSUME NEW f \in S, NEW h \in S
                 PROVE  Largest(g).key < Smallest(f).key \/ Smallest(g).key > Largest(h).key
      BY <2>2
    <3>1. R[1] <= Smallest(f).key /\ Largest(h).key <= R[2] /\ Outside(g, R)
      BY <1>6, <1>7, <2>2
    <3>2. f \in File /\ g \in File /\ h \in File
      BY <1>2, <1>6
    <3>3. /\ Smallest(f).key \in Int /\ Largest(h).key \in Int
          /\ Smallest(g).key \in Int /\ Largest(g).key \in Int
      BY <1>7, <3>2
    <3> QED BY <1>6, <3>1, <3>3 DEF Outside
  <2> QED BY <2>1, <2>2
<1>11. ASSUME Hulled(I) PROVE Hulled(I \cup S)
  <2>1. Spanned(<<b, e>>, I \cup A)
    <3> SUFFICES ASSUME NEW k \in b..e PROVE \E f \in I \cup A : InRange(k, f)
      BY DEF Spanned
    <3>1. PICK f \in I, g \in I : b = Smallest(f).key /\ e = Largest(g).key
      BY <1>1 DEF b, e
    <3>2. k \in UserKeys /\ Smallest(f).key <= k /\ k <= Largest(g).key
      <4>1. k \in Int /\ b <= k /\ k <= e
        BY <1>6
      <4>2. k \in UserKeys
        BY <1>3, <4>1, KeyMaxAssumption DEF KeyMaxAssumption, UserKeys
      <4> QED BY <3>1, <4>1, <4>2
    <3> QED BY <1>11, <3>2 DEF Hulled
  <2>2. Spanned(R, I \cup A)
    BY <1>6, <2>1
  <2> SUFFICES ASSUME NEW f \in I \cup S, NEW g \in I \cup S, NEW k \in UserKeys,
                      Smallest(f).key <= k, k <= Largest(g).key
               PROVE  \E h \in I \cup S : InRange(k, h)
    BY DEF Hulled
  <2>3. f \in File /\ g \in File /\ k \in Int
    BY <1>2, <1>6 DEF UserKeys
  <2>4. /\ Smallest(f).key \in Int /\ Largest(f).key \in Int
        /\ Smallest(g).key \in Int /\ Largest(g).key \in Int
        /\ Smallest(f).key <= Largest(f).key /\ Smallest(g).key <= Largest(g).key
    BY <1>7, <2>3
  <2>5. CASE k < R[1]
    <3>1. f \notin I
      <4>1. f \in I => b <= Smallest(f).key
        BY <1>1 DEF b
      <4> QED BY <1>6, <2>3, <2>4, <2>5, <4>1
    <3>2. ~Outside(f, R)
      BY <1>6, <3>1
    <3>3. InRange(k, f)
      BY <1>6, <2>3, <2>4, <2>5, <3>2 DEF Outside, InRange
    <3> QED BY <3>3
  <2>6. CASE k > R[2]
    <3>1. g \notin I
      <4>1. g \in I => Largest(g).key <= e
        BY <1>1 DEF e
      <4> QED BY <1>6, <2>3, <2>4, <2>6, <4>1
    <3>2. ~Outside(g, R)
      BY <1>6, <3>1
    <3>3. InRange(k, g)
      BY <1>6, <2>3, <2>4, <2>6, <3>2 DEF Outside, InRange
    <3> QED BY <3>3
  <2>7. CASE ~(k < R[1]) /\ ~(k > R[2])
    <3>1. k \in R[1]..R[2]
      BY <1>6, <2>3, <2>7
    <3>2. PICK h \in I \cup A : InRange(k, h)
      BY <2>2, <3>1 DEF Spanned
    <3>3. h \in File
      BY <1>2
    <3>4. Smallest(h).key \in Int /\ Largest(h).key \in Int
      BY <1>7, <3>3
    <3>5. ~Outside(h, R)
      BY <1>6, <2>3, <2>7, <3>2, <3>4 DEF InRange, Outside
    <3> QED BY <1>6, <3>2, <3>5
  <2> QED BY <2>5, <2>6, <2>7
<1>12. S \subseteq A
  BY <1>6
<1> QED BY <1>5, <1>8, <1>9, <1>10, <1>11, <1>12, <1>13 DEF s, S, I, A

(* Two ranges of which one lies in the other, with as many files in each.  *)
LEMMA SameLength ==
  ASSUME NEW fs \in Seq(File), NEW r1 \in Ranges, NEW r2 \in Ranges,
         r2[1] <= r1[1], r1[2] <= r2[2],
         Len(FilesInRange(fs, r1)) = Len(FilesInRange(fs, r2))
  PROVE  FilesIn(FilesInRange(fs, r1)) = FilesIn(FilesInRange(fs, r2))
<1> DEFINE hits(r) == {i \in DOMAIN fs : Overlaps(fs[i], r[1], r[2])}
<1>1. /\ IsFiniteSet(hits(r1)) /\ IsFiniteSet(hits(r2))
      /\ Cardinality(hits(r1)) = Cardinality(hits(r2))
      /\ FilesIn(FilesInRange(fs, r1)) = {f \in FilesIn(fs) : Overlaps(f, r1[1], r1[2])}
      /\ FilesIn(FilesInRange(fs, r2)) = {f \in FilesIn(fs) : Overlaps(f, r2[1], r2[2])}
  BY FilesInRangeIs
<1>2. r1[1] \in Int /\ r1[2] \in Int /\ r2[1] \in Int /\ r2[2] \in Int
  BY DEF Ranges, Bounds
<1>3. ASSUME NEW i \in hits(r1) PROVE i \in hits(r2)
  <2>1. i \in DOMAIN fs /\ fs[i] \in File
    BY FilesInIs
  <2>2. Smallest(fs[i]).key \in Int /\ Largest(fs[i]).key \in Int
    <3>1. Smallest(fs[i]) \in Entry /\ Largest(fs[i]) \in Entry
      BY <2>1, BoundsOfFile
    <3> QED BY <3>1 DEF Entry, UserKeys
  <2>3. Overlaps(fs[i], r1[1], r1[2])
    OBVIOUS
  <2>4. Overlaps(fs[i], r2[1], r2[2])
    BY <1>2, <2>2, <2>3 DEF Overlaps, AfterFile, BeforeFile
  <2> QED BY <2>1, <2>4
<1>4. hits(r1) = hits(r2)
  <2> HIDE DEF hits
  <2> QED BY <1>1, <1>3, FS_Subset
<1>5. \A i \in DOMAIN fs : Overlaps(fs[i], r1[1], r1[2]) <=> Overlaps(fs[i], r2[1], r2[2])
  BY <1>4
<1> HIDE DEF hits
<1> QED BY <1>1, <1>5 DEF FilesIn

(* What a compaction may rely on: its inputs have no gaps, the files left  *)
(* in their level are newer, those left in the next lie to one side, and   *)
(* have none of the user keys that come down.                              *)
SoundInputs(v, level, inputs) ==
  LET I == FilesIn(inputs[1])
      J == FilesIn(inputs[2])
  IN  /\ inputs[1] \in Seq(File) /\ inputs[1] # <<>> /\ inputs[2] \in Seq(File)
      /\ I \subseteq FilesIn(v[level]) /\ J \subseteq FilesIn(v[level + 1])
      /\ \A g \in FilesIn(v[level]) \ I, f \in I : Newer(g.entries, f.entries)
      /\ Hulled(I \cup J)
      /\ \A g \in FilesIn(v[level + 1]) \ J :
           (\A f \in I \cup J : Whole(g, f)) \/ (\A f \in I \cup J : Whole(f, g))
      /\ \A g \in FilesIn(v[level + 1]) \ J, f \in I : Strangers(f, g)

Sound(v, c) == /\ c.level \in 0..(kNumLevels - 2) /\ c.grandparents \in Seq(File)
               /\ SoundInputs(v, c.level, <<c.inputs0, c.inputs1>>)

LEMMA SetupOtherInputsIs ==
  ASSUME NEW v, Orderly(v), NEW level \in 0..(kNumLevels - 2),
         NEW chosen \in Seq(File), chosen # <<>>, FilesIn(chosen) \subseteq FilesIn(v[level]),
         LeftOut(level, v[level], FilesIn(chosen)), Hulled(FilesIn(chosen))
  PROVE  Sound(v, SetupOtherInputs(v, level, chosen)) /\ SetupOtherInputs(v, level, chosen).level = level
<1> DEFINE in0  == AddBoundaryInputs(v[level], chosen)
           in1  == FilesOver(v, level + 1, in0)
           both == in0 \o in1
           over == FilesOver(v, level, both)
           w0   == AddBoundaryInputs(v[level], over)
           w1   == FilesOver(v, level + 1, w0)
           A    == FilesIn(v[level])
           B    == FilesIn(v[level + 1])
           c    == SetupOtherInputs(v, level, chosen)
<1>1. level \in Levels /\ level + 1 \in Levels /\ level + 1 > 0
  BY LevelAssumption DEF LevelAssumption, Levels
<1>2. /\ <<c.inputs0, c.inputs1>> \in {<<in0, in1>>, <<w0, w1>>}
      /\ <<c.inputs0, c.inputs1>> # <<in0, in1>> => Len(w1) = Len(in1)
      /\ c.level = level
      /\ c.grandparents \in {<<>>, FilesOver(v, level + 2, c.inputs0 \o c.inputs1)}
      /\ c.grandparents # <<>> => level + 2 < kNumLevels
  BY DEF SetupOtherInputs, ExpandedCompaction, CompactionOf, Expanded, Widened, WithNextLevel
<1> HIDE DEF c
<1>3. /\ in0 \in Seq(File) /\ in0 # <<>> /\ FilesIn(in0) \subseteq A
      /\ \A g \in A \ FilesIn(in0), f \in FilesIn(in0) : Newer(g.entries, f.entries)
      /\ Hulled(FilesIn(in0))
  <2>1. /\ in0 \in Seq(File) /\ in0 # <<>> /\ FilesIn(in0) \subseteq A
        /\ \A g \in A \ FilesIn(in0), f \in FilesIn(in0) : Newer(g.entries, f.entries)
        /\ \A X \in SUBSET File : Hulled(FilesIn(chosen) \cup X) => Hulled(FilesIn(in0) \cup X)
    BY <1>1, AddBoundaryInputsIs
  <2>2. {} \in SUBSET File /\ FilesIn(chosen) \cup {} = FilesIn(chosen)
        /\ FilesIn(in0) \cup {} = FilesIn(in0)
    OBVIOUS
  <2> HIDE DEF in0
  <2>3. Hulled(FilesIn(chosen) \cup {}) => Hulled(FilesIn(in0) \cup {})
    BY <2>1, <2>2
  <2> QED BY <2>1, <2>2, <2>3
<1> HIDE DEF in0
<1>4. /\ in1 \in Seq(File) /\ FilesIn(in1) \subseteq B
      /\ \A g \in B \ FilesIn(in1) :
           \/ \A f \in FilesIn(in0) \cup FilesIn(in1) : Whole(g, f)
           \/ \A f \in FilesIn(in0) \cup FilesIn(in1) : Whole(f, g)
      /\ \A g \in B \ FilesIn(in1) : \A f \in FilesIn(in0) : Strangers(f, g)
      /\ Hulled(FilesIn(in0) \cup FilesIn(in1))
  BY <1>1, <1>3, FilesOverIs
<1>5. SoundInputs(v, level, <<in0, in1>>)
  <2> HIDE DEF in1
  <2> QED BY <1>3, <1>4 DEF SoundInputs
<1>6. ASSUME Len(w1) = Len(in1) PROVE SoundInputs(v, level, <<w0, w1>>)
  <2> DEFINE r1 == RangeOf(in0)
             r2 == RangeOf(w0)
             p1 == <<r1.smallest.key, r1.largest.key>>
             p2 == <<r2.smallest.key, r2.largest.key>>
  <2>1. in1 = FilesInRange(v[level + 1], p1)
    <3>1. in1 = FilesInRange(v[level + 1], SearchedRange(level + 1, v[level + 1],
                                             r1.smallest.key, r1.largest.key))
      BY DEF FilesOver, OverlapsOfRange, GetOverlappingInputs
    <3>2. r1.smallest \in Entry /\ r1.largest \in Entry
      BY <1>3, RangeOfIs
    <3>3. r1.smallest.key \in Bounds /\ r1.largest.key \in Bounds
      BY <3>2, KeyMaxAssumption DEF KeyMaxAssumption, Entry, UserKeys, Bounds, AfterAll
    <3>4. v[level + 1] \in Seq(File)
      BY <1>1 DEF Orderly
    <3> HIDE DEF r1, in1
    <3>5. SearchedRange(level + 1, v[level + 1], r1.smallest.key, r1.largest.key) = p1
      BY <1>1, <3>3, <3>4, SearchedRangeIs
    <3> QED BY <3>1, <3>5
  <2>2. /\ both \in Seq(File) /\ FilesIn(both) = FilesIn(in0) \cup FilesIn(in1) /\ both # <<>>
        /\ Hulled(FilesIn(both))
    <3> HIDE DEF in1
    <3>1. both \in Seq(File) /\ FilesIn(both) = FilesIn(in0) \cup FilesIn(in1)
      BY <1>3, <1>4, FilesInTogether
    <3>2. FilesIn(in0) # {}
      BY <1>3, FilesInIs
    <3> QED BY <1>4, <3>1, <3>2, FilesInIs
  <2> HIDE DEF both, in1
  <2>3. /\ over \in Seq(File) /\ FilesIn(over) \subseteq A
        /\ FilesIn(both) \cap A \subseteq FilesIn(over)
        /\ LeftOut(level, v[level], FilesIn(over))
        /\ Hulled(FilesIn(both) \cup FilesIn(over))
    BY <1>1, <2>2, FilesOverIs
  <2>4. FilesIn(in0) \subseteq FilesIn(over) /\ over # <<>>
    <3>1. FilesIn(in0) # {} /\ FilesIn(in0) \subseteq FilesIn(over)
      BY <1>3, <2>2, <2>3, FilesInIs
    <3> QED BY <2>3, <3>1, FilesInIs
  <2>5. Hulled(FilesIn(over) \cup FilesIn(in1))
    <3>1. FilesIn(both) \cup FilesIn(over) = FilesIn(over) \cup FilesIn(in1)
      BY <2>2, <2>4
    <3> QED BY <2>3, <3>1
  <2> HIDE DEF over
  <2>6. /\ w0 \in Seq(File) /\ w0 # <<>> /\ FilesIn(w0) \subseteq A
        /\ FilesIn(over) \subseteq FilesIn(w0)
        /\ \A g \in A \ FilesIn(w0), f \in FilesIn(w0) : Newer(g.entries, f.entries)
        /\ Hulled(FilesIn(w0) \cup FilesIn(in1))
    <3>1. /\ w0 \in Seq(File) /\ w0 # <<>> /\ FilesIn(w0) \subseteq A
          /\ FilesIn(over) \subseteq FilesIn(w0)
          /\ \A g \in A \ FilesIn(w0), f \in FilesIn(w0) : Newer(g.entries, f.entries)
          /\ \A X \in SUBSET File : Hulled(FilesIn(over) \cup X) => Hulled(FilesIn(w0) \cup X)
      BY <1>1, <2>3, <2>4, AddBoundaryInputsIs
    <3>2. FilesIn(in1) \in SUBSET File
      BY <1>4, FilesInIs
    <3> HIDE DEF w0
    <3> QED BY <2>5, <3>1, <3>2
  <2> HIDE DEF w0
  <2>7. /\ w1 \in Seq(File) /\ FilesIn(w1) \subseteq B
        /\ \A g \in B \ FilesIn(w1) :
             \/ \A f \in FilesIn(w0) \cup FilesIn(w1) : Whole(g, f)
             \/ \A f \in FilesIn(w0) \cup FilesIn(w1) : Whole(f, g)
        /\ \A g \in B \ FilesIn(w1) : \A f \in FilesIn(w0) : Strangers(f, g)
    BY <1>1, <2>6, FilesOverIs
  <2>8. w1 = FilesInRange(v[level + 1], p2)
    <3>1. w1 = FilesInRange(v[level + 1], SearchedRange(level + 1, v[level + 1],
                                            r2.smallest.key, r2.largest.key))
      BY DEF FilesOver, OverlapsOfRange, GetOverlappingInputs
    <3>2. r2.smallest \in Entry /\ r2.largest \in Entry
      BY <2>6, RangeOfIs
    <3>3. r2.smallest.key \in Bounds /\ r2.largest.key \in Bounds
      BY <3>2, KeyMaxAssumption DEF KeyMaxAssumption, Entry, UserKeys, Bounds, AfterAll
    <3>4. v[level + 1] \in Seq(File)
      BY <1>1 DEF Orderly
    <3> HIDE DEF r2, w1
    <3>5. SearchedRange(level + 1, v[level + 1], r2.smallest.key, r2.largest.key) = p2
      BY <1>1, <3>3, <3>4, SearchedRangeIs
    <3> QED BY <3>1, <3>5
  <2>9. p2[1] <= p1[1] /\ p1[2] <= p2[2] /\ p1 \in Ranges /\ p2 \in Ranges
    <3>1. PICK f \in FilesIn(in0), g \in FilesIn(in0) :
            r1.smallest = Smallest(f) /\ r1.largest = Largest(g)
      BY <1>3, RangeOfIs
    <3>2. f \in FilesIn(w0) /\ g \in FilesIn(w0)
      BY <2>4, <2>6
    <3>3. r2.smallest.key <= r1.smallest.key /\ r1.largest.key <= r2.largest.key
      BY <2>6, <3>1, <3>2, RangeOfIs
    <3>4. /\ r1.smallest \in Entry /\ r1.largest \in Entry
          /\ r2.smallest \in Entry /\ r2.largest \in Entry
      BY <1>3, <2>6, RangeOfIs
    <3>5. \A e \in Entry : e.key \in Bounds
      BY KeyMaxAssumption DEF KeyMaxAssumption, Entry, UserKeys, Bounds, AfterAll
    <3> HIDE DEF r1, r2
    <3> QED BY <3>3, <3>4, <3>5 DEF Ranges
  <2> HIDE DEF p1, p2, w1
  <2>10. FilesIn(w1) = FilesIn(in1)
    <3>1. v[level + 1] \in Seq(File)
      BY <1>1 DEF Orderly
    <3> QED BY <1>6, <2>1, <2>8, <2>9, <3>1, SameLength
  <2> QED BY <2>6, <2>7, <2>10 DEF SoundInputs
<1> HIDE DEF in1, w0, w1
<1>7. SoundInputs(v, level, <<c.inputs0, c.inputs1>>)
  BY <1>2, <1>5, <1>6
<1>8. c.grandparents \in Seq(File)
  <2> DEFINE two == c.inputs0 \o c.inputs1
             m   == level + 2
             gp  == FilesOver(v, m, two)
  <2>1. /\ two \in Seq(File) /\ FilesIn(c.inputs0) # {}
        /\ FilesIn(two) = FilesIn(c.inputs0) \cup FilesIn(c.inputs1)
    BY <1>7, FilesInTogether, FilesInIs DEF SoundInputs
  <2>2. two # <<>>
    BY <2>1, FilesInIs
  <2> HIDE DEF two
  <2>3. ASSUME level + 2 < kNumLevels PROVE gp \in Seq(File)
    <3>1. m \in Levels
      BY <1>1, <2>3, LevelAssumption DEF LevelAssumption, Levels
    <3> HIDE DEF m
    <3> QED BY <2>1, <2>2, <3>1, FilesOverIs
  <2>4. c.grandparents \in {<<>>, gp}
    BY <1>2 DEF two
  <2> HIDE DEF gp
  <2>5. <<>> \in Seq(File)
    BY EmptySeq
  <2> QED BY <1>2, <2>3, <2>4, <2>5
<1> QED BY <1>2, <1>7, <1>8 DEF Sound, c

(* One file of a level below the last, with those that must go with it.    *)
LEMMA CompactFileIs ==
  ASSUME NEW v, Orderly(v), NEW x, x.level \in 0..(kNumLevels - 2),
         x.file \in FilesIn(v[x.level])
  PROVE  Sound(v, CompactFile(v, x)) /\ CompactFile(v, x).level = x.level
<1> DEFINE f == x.file
           l == x.level
           s == FilesOver(v, 0, <<f>>)
<1>1. l \in Levels /\ 0 \in Levels /\ l \in Nat
  BY LevelAssumption DEF LevelAssumption, Levels
<1>2. v[l] \in Seq(File) /\ f \in File
  BY <1>1, FilesInIs DEF Orderly
<1>3. <<f>> \in Seq(File) /\ FilesIn(<<f>>) = {f} /\ <<f>> # <<>>
  BY <1>2, FilesInOne
<1>4. Hulled({f})
  BY DEF Hulled, InRange
<1> DEFINE one == <<f>>
           c   == CompactFile(v, x)
<1> HIDE DEF one
<1>5. CASE l > 0
  <2>1. c = SetupOtherInputs(v, l, one)
    BY <1>5 DEF CompactFile, one
  <2>2. LeftOut(l, v[l], {f})
    BY <1>1, <1>5 DEF LeftOut, Orderly, Apart
  <2>3. one \in Seq(File) /\ FilesIn(one) = {f} /\ one # <<>>
    BY <1>3 DEF one
  <2>4. FilesIn(one) \subseteq FilesIn(v[l]) /\ l \in 0..(kNumLevels - 2)
    BY <2>3
  <2> HIDE DEF c, f, l
  <2>5. Sound(v, c) /\ c.level = l
    BY <1>4, <2>1, <2>2, <2>3, <2>4, SetupOtherInputsIs
  <2> QED BY <2>5 DEF c, l
<1>6. CASE ~(l > 0)
  <2>1. l = 0 /\ c = SetupOtherInputs(v, l, s)
    BY <1>1, <1>6 DEF CompactFile
  <2>2. /\ s \in Seq(File) /\ FilesIn(s) \subseteq FilesIn(v[l])
        /\ {f} \cap FilesIn(v[l]) \subseteq FilesIn(s)
        /\ LeftOut(l, v[l], FilesIn(s))
        /\ Hulled({f} \cup FilesIn(s))
    <3>1. one \in Seq(File) /\ FilesIn(one) = {f} /\ one # <<>> /\ s = FilesOver(v, 0, one)
      BY <1>3 DEF one
    <3> HIDE DEF s, f, l
    <3>2. /\ s \in Seq(File) /\ FilesIn(s) \subseteq FilesIn(v[0])
          /\ FilesIn(one) \cap FilesIn(v[0]) \subseteq FilesIn(s)
          /\ LeftOut(0, v[0], FilesIn(s))
          /\ Hulled(FilesIn(one)) => Hulled(FilesIn(one) \cup FilesIn(s))
      BY <1>1, <3>1, FilesOverIs
    <3> QED BY <1>4, <2>1, <3>1, <3>2
  <2> HIDE DEF s
  <2>3. f \in FilesIn(s) /\ {f} \cup FilesIn(s) = FilesIn(s)
    BY <2>2
  <2>4. s # <<>>
    BY <2>2, <2>3, FilesInIs
  <2>5. l \in 0..(kNumLevels - 2)
    OBVIOUS
  <2> HIDE DEF c, f, l
  <2>6. Sound(v, c) /\ c.level = l
    BY <2>1, <2>2, <2>3, <2>4, <2>5, SetupOtherInputsIs
  <2> QED BY <2>6 DEF c, l
<1> QED BY <1>5, <1>6

-----------------------------------------------------------------------------
(* The level to compact *)

LEMMA TotalFileSizeIs ==
  ASSUME NEW fs \in Seq(File)
  PROVE  TotalFileSize(fs) \in Nat /\ (fs = <<>> => TotalFileSize(fs) = 0)
<1> DEFINE n == Len(fs)
           G(g) == g = [i \in 0..n |-> IF i = 0 THEN 0 ELSE g[i - 1] + FileSize(fs[i])]
           g == CHOOSE h : G(h)
           st == [p \in (1..n) \X Nat |-> p[2] + FileSize(fs[p[1]])]
<1>1. n \in Nat /\ (fs = <<>> => n = 0)
  BY LenProperties, FilesInIs
<1>2. TotalFileSize(fs) = g[n]
  BY DEF TotalFileSize
<1>3. \A i \in 1..n : FileSize(fs[i]) \in Nat
  <2> TAKE i \in 1..n
  <2>1. fs[i] \in File
    BY ElementOfSeq
  <2> QED BY <2>1, FS_CardinalityType DEF File, FileSize
<1> HIDE DEF n
<1>4. \A i \in 1..n, m \in Nat : st[<<i, m>>] = m + FileSize(fs[i]) /\ m + FileSize(fs[i]) \in Nat
  BY <1>3
<1> HIDE DEF st
<1> DEFINE V    == Nat
           zero == 0
<1>5. Climbs(n, V, zero, st)
  BY <1>1, <1>4 DEF Climbs
<1> HIDE DEF V, zero, G, g
<1>6. PICK h : Recurs(h, n, zero, st)
  BY <1>5, Climbing
<1>7. h \in [0..n -> V]
  BY <1>5, <1>6, Climbing
<1>8. ASSUME NEW i \in 0..n
      PROVE  h[i] = IF i = 0 THEN 0 ELSE h[i - 1] + FileSize(fs[i])
  <2>1. i # 0 => i \in 1..n /\ i - 1 \in 0..n
    BY <1>1
  <2>2. i # 0 => h[i - 1] \in Nat
    BY <1>7, <2>1 DEF V
  <2> QED BY <1>4, <1>6, <2>1, <2>2 DEF zero, Recurs
<1>9. G(h)
  <2>1. h = [i \in 0..n |-> h[i]]
    BY <1>7
  <2> QED BY <1>8, <2>1 DEF G
<1>10. G(g)
  BY <1>9 DEF g
<1>11. \A i \in 0..n : g[i] = IF i = 0 THEN 0 ELSE g[i - 1] + FileSize(fs[i])
  BY <1>10 DEF G
<1>12. \A i \in 0..n : g[i] \in Nat
  <2> DEFINE Bad == {i \in 0..n : g[i] \notin Nat}
  <2> SUFFICES ASSUME Bad # {} PROVE FALSE
    OBVIOUS
  <2>1. PICK i \in Bad : \A j \in Bad : i <= j
    <3>1. Bad \in SUBSET Nat /\ Bad # {}
      BY <1>1
    <3> HIDE DEF Bad
    <3> QED BY <3>1, LeastNumber
  <2>2. i \in 0..n /\ i # 0 /\ g[i] \notin Nat
    BY <1>11, <2>1
  <2>3. i \in 1..n /\ i - 1 \in 0..n /\ ~(i <= i - 1)
    BY <1>1, <2>2
  <2>4. g[i - 1] \in Nat
    BY <2>1, <2>3
  <2> QED BY <1>3, <1>11, <2>2, <2>3, <2>4
<1> QED BY <1>1, <1>2, <1>11, <1>12

LEMMA Cancel ==
  ASSUME NEW x \in Int, NEW y \in Int, NEW z \in Nat \ {0}
  PROVE  x <= y <=> x * z <= y * z
<1>1. (y - x) * z = y * z - x * z /\ y * z \in Int /\ x * z \in Int
  OBVIOUS
<1>2. x <= y => (y - x) * z >= 0
  OBVIOUS
<1>3. ~(x <= y) => (y - x) * z < 0
  OBVIOUS
<1> QED BY <1>1, <1>2, <1>3

(* Fractions compared by the cross products of their terms.                *)
LEMMA Fractions ==
  ASSUME NEW a \in Nat, NEW b \in Nat \ {0}, NEW c \in Nat, NEW d \in Nat \ {0},
         NEW e \in Nat, NEW f \in Nat \ {0}, a * d >= c * b, c * f >= e * d
  PROVE  /\ a * f >= e * b
         /\ a * d > c * b \/ c * f > e * d => a * f > e * b
<1>1. /\ a * d \in Int /\ c * b \in Int /\ c * f \in Int /\ e * d \in Int
      /\ a * f \in Int /\ e * b \in Int
  OBVIOUS
<1>2. (c * b) * f <= (a * d) * f /\ (e * d) * b <= (c * f) * b
  BY <1>1, Cancel
<1>3. a * d > c * b => ~((a * d) * f <= (c * b) * f)
  BY <1>1, Cancel
<1>4. c * f > e * d => ~((c * f) * b <= (e * d) * b)
  BY <1>1, Cancel
<1>5. /\ (a * d) * f = (a * f) * d /\ (e * d) * b = (e * b) * d /\ (c * b) * f = (c * f) * b
      /\ (a * f) * d \in Int /\ (e * b) * d \in Int /\ (c * f) * b \in Int
  OBVIOUS
<1>6. (e * b) * d <= (a * f) * d
  BY <1>2, <1>5
<1>7. a * d > c * b \/ c * f > e * d => ~((a * f) * d <= (e * b) * d)
  BY <1>2, <1>3, <1>4, <1>5
<1>8. e * b <= a * f
  BY <1>1, <1>6, Cancel
<1>9. ~((a * f) * d <= (e * b) * d) => ~(a * f <= e * b)
  BY <1>1, Cancel
<1> QED BY <1>1, <1>7, <1>8, <1>9

(* There is a level with the highest score, and one that is due for its    *)
(* size has a file.                                                        *)
LEMMA CompactionLevelIs ==
  ASSUME NEW v, Orderly(v)
  PROVE  /\ CompactionLevel(v) \in 0..(kNumLevels - 2)
         /\ SizeCompaction(v) => v[CompactionLevel(v)] # <<>>
<1> DEFINE S == 0..(kNumLevels - 2)
           num(l) == Score(v, l)[1]
           den(l) == Score(v, l)[2]
           l0 == CompactionLevel(v)
           Best(l) == \A m \in S : /\ AtLeast(Score(v, l), Score(v, m))
                                   /\ m < l => ~AtLeast(Score(v, m), Score(v, l))
           R == {p \in S \X S : \/ num(p[1]) * den(p[2]) > num(p[2]) * den(p[1])
                                \/ /\ num(p[1]) * den(p[2]) = num(p[2]) * den(p[1])
                                   /\ p[1] < p[2]}
<1>1. kNumLevels \in Nat /\ kNumLevels >= 3 /\ S \subseteq Levels /\ S \subseteq Int
  BY LevelAssumption DEF LevelAssumption, Levels
<1>2. \A l \in S : /\ num(l) \in Nat /\ den(l) \in Nat \ {0}
                   /\ v[l] = <<>> => num(l) = 0
  <2> SUFFICES ASSUME NEW l \in S
               PROVE  /\ num(l) \in Nat /\ den(l) \in Nat \ {0}
                      /\ v[l] = <<>> => num(l) = 0
    OBVIOUS
  <2>1. v[l] \in Seq(File)
    BY <1>1 DEF Orderly
  <2>2. CASE l = 0
    <3>1. num(l) = Len(v[l]) /\ den(l) = kL0_CompactionTrigger
      BY <2>2 DEF Score
    <3> QED BY <2>1, <3>1, FilesInIs, LenProperties, TriggerAssumption DEF TriggerAssumption
  <2>3. CASE l # 0
    <3>1. num(l) = TotalFileSize(v[l]) /\ den(l) = MaxBytesForLevel[l]
      BY <2>3 DEF Score
    <3>2. MaxBytesForLevel[l] \in Nat \ {0}
      BY <1>1, BytesAssumption DEF BytesAssumption, Levels
    <3> QED BY <2>1, <3>1, <3>2, TotalFileSizeIs
  <2> QED BY <2>2, <2>3
<1>3. \A l, m \in S : AtLeast(Score(v, l), Score(v, m)) <=> num(l) * den(m) >= num(m) * den(l)
  BY DEF AtLeast
<1>4. l0 = CHOOSE l \in S : Best(l)
  BY DEF CompactionLevel
<1>5. SizeCompaction(v) <=> num(l0) * 1 >= 1 * den(l0)
  BY DEF SizeCompaction, AtLeast
<1> HIDE DEF S, num, den, l0
<1>6. \A l, m \in S : num(l) * den(m) \in Int
  <2> TAKE l \in S
  <2> TAKE m \in S
  <2> QED BY <1>2
<1>7. \A l, m \in S : <<l, m>> \in R <=> \/ num(l) * den(m) > num(m) * den(l)
                                         \/ num(l) * den(m) = num(m) * den(l) /\ l < m
  OBVIOUS
<1>8. StrictOrder(R, S)
  <2> HIDE DEF R
  <2>1. \A l \in S : <<l, l>> \notin R
    BY <1>1, <1>6, <1>7
  <2>2. ASSUME NEW l \in S, NEW m \in S, NEW n \in S, <<l, m>> \in R, <<m, n>> \in R
        PROVE  <<l, n>> \in R
    <3>1. num(l) * den(m) >= num(m) * den(l) /\ num(m) * den(n) >= num(n) * den(m)
      BY <1>6, <1>7, <2>2
    <3>2. /\ num(l) * den(n) >= num(n) * den(l)
          /\ num(l) * den(m) > num(m) * den(l) \/ num(m) * den(n) > num(n) * den(m)
               => num(l) * den(n) > num(n) * den(l)
      BY <1>2, <3>1, Fractions
    <3>3. l < m /\ m < n => l < n
      BY <1>1
    <3> QED BY <1>6, <1>7, <2>2, <3>2, <3>3
  <2>3. ASSUME NEW l \in S, NEW m \in S, l # m PROVE <<l, m>> \in R \/ <<m, l>> \in R
    <3>1. l < m \/ m < l
      BY <1>1, <2>3
    <3> QED BY <1>6, <1>7, <3>1
  <2> QED BY <2>1, <2>2, <2>3 DEF StrictOrder
<1>9. IsFiniteSet(S) /\ S # {}
  <2>1. 0 \in S
    BY <1>1 DEF S
  <2>2. kNumLevels - 2 \in Int /\ 0 \in Int
    BY LevelAssumption DEF LevelAssumption
  <2>3. IsFiniteSet(0..(kNumLevels - 2))
    BY <2>2, FS_Interval
  <2> QED BY <2>1, <2>3 DEF S
<1>10. PICK l \in S : \A m \in S : m # l => <<l, m>> \in R
  <2> HIDE DEF R
  <2> QED BY <1>8, <1>9, FirstOfOrder
<1>11. ASSUME NEW m \in S
       PROVE  /\ AtLeast(Score(v, l), Score(v, m))
              /\ m < l => ~AtLeast(Score(v, m), Score(v, l))
  <2>1. CASE m = l
    BY <1>1, <1>3, <1>6, <2>1
  <2>2. CASE m # l
    <3>1. <<l, m>> \in R
      BY <1>10, <2>2
    <3> HIDE DEF R
    <3>2. l \in Int /\ m \in Int
      BY <1>1
    <3> QED BY <1>3, <1>6, <1>7, <3>1, <3>2
  <2> QED BY <2>1, <2>2
<1>12. Best(l)
  BY <1>11
<1>13. l0 \in S
  <2> HIDE DEF Best
  <2> QED BY <1>4, <1>12
<1>14. SizeCompaction(v) => num(l0) # 0
  BY <1>2, <1>5, <1>13
<1>15. SizeCompaction(v) => v[l0] # <<>>
  BY <1>2, <1>13, <1>14
<1> QED BY <1>13, <1>15 DEF S, l0

LEMMA NextFileIs ==
  ASSUME NEW fs \in Seq(File), fs # <<>>, NEW pointer
  PROVE  NextFile(fs, pointer) \in FilesIn(fs)
<1> DEFINE later == {i \in DOMAIN fs : \A p \in pointer : Before(p, Largest(fs[i]))}
<1>1. NextFile(fs, pointer) = fs[IF later = {} THEN 1 ELSE Min(later)]
  BY DEF NextFile
<1>2. DOMAIN fs = 1..Len(fs) /\ Len(fs) \in Nat /\ Len(fs) # 0 /\ later \subseteq DOMAIN fs
  BY LenProperties, FilesInIs
<1> HIDE DEF later
<1>3. later # {} => Min(later) \in later
  <2> SUFFICES ASSUME later # {} PROVE Min(later) \in later
    OBVIOUS
  <2>1. later \in SUBSET Nat
    BY <1>2
  <2>2. \E k \in later : \A m \in later : k <= m
    BY <2>1, LeastNumber
  <2> QED BY <2>2 DEF Min
<1>4. (IF later = {} THEN 1 ELSE Min(later)) \in DOMAIN fs
  BY <1>2, <1>3
<1> QED BY <1>1, <1>4, FilesInIs

(* What the background thread picks, by size or for a file's seeks.        *)
LEMMA PickCompactionIs ==
  ASSUME NEW v, Orderly(v), NEW pointers, NEW seek,
         NeedsCompaction(v, seek),
         \A x \in seek : x.level \in 0..(kNumLevels - 2) /\ x.file \in FilesIn(v[x.level])
  PROVE  Sound(v, PickCompaction(v, pointers, seek))
<1> DEFINE l == CompactionLevel(v)
           x == FileToCompact(v, l, pointers, seek)
<1>1. l \in 0..(kNumLevels - 2) /\ (SizeCompaction(v) => v[l] # <<>>)
  BY CompactionLevelIs
<1>2. PickCompaction(v, pointers, seek) = CompactFile(v, x)
  BY DEF PickCompaction
<1>3. x.level \in 0..(kNumLevels - 2) /\ x.file \in FilesIn(v[x.level])
  <2>1. CASE SizeCompaction(v)
    <3>1. x = [level |-> l, file |-> NextFile(v[l], pointers[l])]
      BY <2>1 DEF FileToCompact
    <3>2. v[l] \in Seq(File)
      BY <1>1, LevelAssumption DEF LevelAssumption, Levels, Orderly
    <3> HIDE DEF x, l
    <3>3. NextFile(v[l], pointers[l]) \in FilesIn(v[l])
      BY <1>1, <2>1, <3>2, NextFileIs
    <3> QED BY <1>1, <3>1, <3>3
  <2>2. CASE ~SizeCompaction(v)
    <3>1. x = CHOOSE y \in seek : TRUE
      BY <2>2 DEF FileToCompact
    <3>2. seek # {}
      BY <2>2 DEF NeedsCompaction
    <3> HIDE DEF x
    <3> QED BY <3>1, <3>2
  <2> QED BY <2>1, <2>2
<1> HIDE DEF x
<1> QED BY <1>2, <1>3, CompactFileIs

(* The level a flushed memtable goes to, and no level up to it overlaps it.*)
LEMMA PickLevelIs ==
  ASSUME NEW v, Orderly(v), NEW begin \in UserKeys, NEW end \in UserKeys,
         \A level \in Levels : \A f \in FilesIn(v[level]) : \A e \in f.entries :
           e.tag <= 2 * kMaxSequenceNumber + 1
  PROVE  LET p == PickLevelForMemTableOutput(v, begin, end)
         IN  /\ p \in Levels
             /\ p > 0 => \A level \in Levels : level <= p =>
                           \A f \in FilesIn(v[level]) : Outside(f, <<begin, end>>)
<1> DEFINE p    == PickLevelForMemTableOutput(v, begin, end)
           stop == {level \in 0..kMaxMemCompactLevel : StopsAt(v, level, begin, end)}
<1>1. /\ kMaxMemCompactLevel \in Levels /\ 0 \in Levels /\ Levels \subseteq Nat
      /\ 0..kMaxMemCompactLevel \subseteq Levels
  BY LevelAssumption, MemLevelAssumption DEF LevelAssumption, MemLevelAssumption, Levels
<1>2. CASE OverlapInLevel(v, 0, begin, end)
  BY <1>1, <1>2 DEF PickLevelForMemTableOutput
<1>3. CASE ~OverlapInLevel(v, 0, begin, end)
  <2>1. p = Min(stop)
    BY <1>3 DEF PickLevelForMemTableOutput
  <2>2. kMaxMemCompactLevel \in stop /\ stop \in SUBSET (0..kMaxMemCompactLevel)
    BY <1>1 DEF StopsAt
  <2>3. ASSUME NEW level \in 0..kMaxMemCompactLevel, level \notin stop
        PROVE  ~OverlapInLevel(v, level + 1, begin, end)
    BY <2>3 DEF StopsAt
  <2> HIDE DEF p, stop
  <2>4. p \in stop /\ \A m \in stop : p <= m
    <3>1. stop \in SUBSET Nat /\ stop # {}
      BY <1>1, <2>2
    <3>2. \E k \in stop : \A m \in stop : k <= m
      BY <3>1, LeastNumber
    <3> QED BY <2>1, <3>2 DEF Min
  <2>5. p \in Levels
    BY <1>1, <2>2, <2>4
  <2>6. ASSUME NEW level \in Levels, level <= p PROVE ~OverlapInLevel(v, level, begin, end)
    <3>1. CASE level = 0
      BY <1>3, <3>1
    <3>2. CASE level # 0
      <4>1. level - 1 \in 0..kMaxMemCompactLevel /\ level - 1 \notin stop /\ level - 1 + 1 = level
        BY <1>1, <2>2, <2>4, <2>6, <3>2
      <4>2. ~OverlapInLevel(v, level - 1 + 1, begin, end)
        BY <2>3, <4>1
      <4> QED BY <4>1, <4>2
    <3> QED BY <3>1, <3>2
  <2> QED BY <2>5, <2>6, NoOverlap DEF p
<1> QED BY <1>2, <1>3

-----------------------------------------------------------------------------
(* Version edits *)

KeptIn(v, edit, level) ==
  {f \in FilesIn(v[level]) : ~\E d \in edit.deleted : d.level = level /\ d.number = f.number}
AddedTo(edit, level) == {a.file : a \in {x \in edit.added : x.level = level}}

(* The files of a level after an edit: those kept and those added.         *)
LEMMA ApplyIs ==
  ASSUME NEW v, NEW edit, NEW level \in Levels, v[level] \in Seq(File),
         AddedTo(edit, level) \in SUBSET File, IsFiniteSet(AddedTo(edit, level)),
         \A f, g \in KeptIn(v, edit, level) \cup AddedTo(edit, level) :
           f # g => f.number # g.number
  PROVE  LET s == Apply(v, edit)[level]
         IN  /\ s \in Seq(File) /\ SortedBySmallest(s)
             /\ FilesIn(s) = KeptIn(v, edit, level) \cup AddedTo(edit, level)
<1> DEFINE F    == KeptIn(v, edit, level) \cup AddedTo(edit, level)
           gone == {d.number : d \in {x \in edit.deleted : x.level = level}}
           s    == Apply(v, edit)[level]
           t    == Sorted(F, BySmallestKey)
<1>1. KeptIn(v, edit, level) = {f \in FilesIn(v[level]) : f.number \notin gone}
  BY DEF KeptIn
<1>2. s = t
  BY <1>1 DEF Apply, AddedTo
<1> HIDE DEF s, t
<1>3. F \in SUBSET File /\ IsFiniteSet(F)
  <2>1. FilesIn(v[level]) \in SUBSET File /\ IsFiniteSet(FilesIn(v[level]))
    BY FilesInIs
  <2>2. KeptIn(v, edit, level) \subseteq FilesIn(v[level])
    BY DEF KeptIn
  <2>3. IsFiniteSet(KeptIn(v, edit, level))
    BY <2>1, <2>2, FS_Subset
  <2> QED BY <2>1, <2>2, <2>3, FS_Union
<1> HIDE DEF F
<1>4. t \in Seq(F) /\ FilesIn(t) = F /\ SortedBySmallest(t)
  <2>1. \A f, g \in F : f # g => f.number # g.number
    BY DEF F
  <2> QED BY <1>3, <2>1, FilesSorted DEF t
<1>5. t \in Seq(File)
  BY <1>3, <1>4, SeqMonotonic
<1> QED BY <1>2, <1>4, <1>5 DEF F, s

-----------------------------------------------------------------------------
(* The outputs of a compaction *)

Progress(S) == [done : Seq(SUBSET S), open : SUBSET S, passed : Nat, overlapped : Nat]

AllBefore(S, T) == \A d \in S, e \in T : Before(d, e)
HeldBy(out) == out.open \cup UNION {out.done[a] : a \in DOMAIN out.done}

(* The files written hold something and follow one another.                *)
InRow(s) == /\ \A a \in DOMAIN s : s[a] # {}
            /\ \A a, b \in DOMAIN s : a < b => AllBefore(s[a], s[b])
Lined(out) == InRow(out.done) /\ \A a \in DOMAIN out.done : AllBefore(out.done[a], out.open)

LEMMA CloseOutputIs ==
  ASSUME NEW S, NEW out \in Progress(S)
  PROVE  /\ CloseOutput(out) \in Progress(S) /\ CloseOutput(out).open = {}
         /\ HeldBy(CloseOutput(out)) = HeldBy(out)
         /\ Lined(out) => Lined(CloseOutput(out))
<1>1. CASE out.open = {}
  BY <1>1 DEF CloseOutput
<1>2. CASE out.open # {}
  <2> DEFINE s   == out.done
             t   == Append(s, out.open)
             new == CloseOutput(out)
  <2>1. s \in Seq(SUBSET S) /\ out.open \in SUBSET S
    BY DEF Progress
  <2>2. new = [out EXCEPT !.done = t, !.open = {}]
    BY <1>2 DEF CloseOutput
  <2> HIDE DEF new
  <2>3. /\ t \in Seq(SUBSET S) /\ Len(t) = Len(s) + 1 /\ DOMAIN s = 1..Len(s)
        /\ DOMAIN t = 1..(Len(s) + 1) /\ Len(s) \in Nat
        /\ t[Len(s) + 1] = out.open /\ \A a \in DOMAIN s : t[a] = s[a]
    <3>1. t \in Seq(SUBSET S) /\ Len(t) = Len(s) + 1 /\ t[Len(s) + 1] = out.open
          /\ \A a \in 1..Len(s) : t[a] = s[a]
      BY <2>1, AppendProperties
    <3>2. DOMAIN s = 1..Len(s) /\ DOMAIN t = 1..Len(t) /\ Len(s) \in Nat
      BY <2>1, <3>1, LenProperties
    <3> QED BY <3>1, <3>2
  <2> HIDE DEF t, s
  <2>4. /\ new \in Progress(S) /\ new.done = t /\ new.open = {}
    BY <2>2, <2>3 DEF Progress
  <2>5. HeldBy(new) = HeldBy(out)
    <3>1. DOMAIN t = DOMAIN s \cup {Len(s) + 1}
      BY <2>3
    <3>2. UNION {t[a] : a \in DOMAIN t} = out.open \cup UNION {s[a] : a \in DOMAIN s}
      BY <2>3, <3>1
    <3> QED BY <2>4, <3>2 DEF HeldBy, s
  <2>6. ASSUME Lined(out) PROVE Lined(new)
    <3>1. ASSUME NEW a \in DOMAIN t PROVE t[a] # {}
      <4>1. a \in DOMAIN s \/ a = Len(s) + 1
        BY <2>3
      <4> QED BY <1>2, <2>3, <2>6, <4>1 DEF Lined, InRow, s
    <3>2. ASSUME NEW a \in DOMAIN t, NEW b \in DOMAIN t, a < b PROVE AllBefore(t[a], t[b])
      <4>1. a \in DOMAIN s /\ (b \in DOMAIN s \/ b = Len(s) + 1)
        BY <2>3, <3>2
      <4> QED BY <2>3, <2>6, <3>2, <4>1 DEF Lined, InRow, s
    <3>3. \A a \in DOMAIN t : AllBefore(t[a], {})
      BY DEF AllBefore
    <3> QED BY <2>4, <3>1, <3>2, <3>3 DEF Lined, InRow
  <2> QED BY <2>4, <2>5, <2>6 DEF new
<1> QED BY <1>1, <1>2

(* One entry of the input, written or dropped, comes after what is held.   *)
LEMMA AddEntryIs ==
  ASSUME NEW S, NEW out \in Progress(S), NEW e \in S, NEW dropped \in BOOLEAN
  PROVE  LET new == AddEntry(out, e, dropped)
         IN  /\ new \in Progress(S)
             /\ HeldBy(new) = IF dropped THEN HeldBy(out) ELSE HeldBy(out) \cup {e}
             /\ Lined(out) /\ AllBefore(HeldBy(out), {e}) => Lined(new)
<1> DEFINE wide == [out EXCEPT !.open = @ \cup {e}]
           new  == AddEntry(out, e, dropped)
<1>1. wide \in Progress(S) /\ wide.done = out.done /\ wide.open = out.open \cup {e}
  BY DEF Progress
<1>2. new = IF dropped THEN out
            ELSE IF Cardinality(wide.open) >= MaxFileSize THEN CloseOutput(wide) ELSE wide
  BY DEF AddEntry, CloseFull
<1> HIDE DEF wide, new
<1>3. HeldBy(wide) = HeldBy(out) \cup {e}
  BY <1>1 DEF HeldBy
<1>4. ASSUME Lined(out), AllBefore(HeldBy(out), {e}) PROVE Lined(wide)
  <2>1. \A a \in DOMAIN out.done : AllBefore(out.done[a], wide.open)
    BY <1>1, <1>4 DEF Lined, AllBefore, HeldBy
  <2> QED BY <1>1, <1>4, <2>1 DEF Lined
<1>5. /\ CloseOutput(wide) \in Progress(S) /\ HeldBy(CloseOutput(wide)) = HeldBy(wide)
      /\ Lined(wide) => Lined(CloseOutput(wide))
  BY <1>1, CloseOutputIs
<1> QED BY <1>1, <1>2, <1>3, <1>4, <1>5 DEF new

(* The overlap with the grandparents may close an output before its time.  *)
LEMMA StopBeforeIs ==
  ASSUME NEW S, NEW out \in Progress(S), NEW gp \in Seq(File),
         NEW passed \in 0..Len(gp), NEW seen_key \in BOOLEAN
  PROVE  LET new == StopBefore(CountOverlap(out, gp, passed, seen_key))
         IN  /\ new \in Progress(S) /\ HeldBy(new) = HeldBy(out)
             /\ Lined(out) => Lined(new)
<1> DEFINE more == TotalFileSize(SubSeq(gp, out.passed + 1, passed))
           mid  == CountOverlap(out, gp, passed, seen_key)
           new  == StopBefore(mid)
<1>1. more \in Nat
  <2>1. Len(gp) \in Nat /\ out.passed \in Nat
    BY LenProperties DEF Progress
  <2>2. SubSeq(gp, out.passed + 1, passed) \in Seq(File)
    BY <2>1, SubSeqProperties
  <2> QED BY <2>2, TotalFileSizeIs
<1>2. passed \in Nat
  BY LenProperties
<1> HIDE DEF more
<1>3. mid \in Progress(S) /\ mid.done = out.done /\ mid.open = out.open
  <2> DEFINE sum == out.overlapped + more
             o   == IF seen_key THEN sum ELSE 0
  <2>1. o \in Nat
    BY <1>1 DEF Progress
  <2>2. mid = [out EXCEPT !.passed = passed, !.overlapped = o]
    BY DEF CountOverlap, more
  <2> HIDE DEF o, mid
  <2> QED BY <1>2, <2>1, <2>2 DEF Progress
<1>4. new \in {mid, [CloseOutput(mid) EXCEPT !.overlapped = 0]}
  BY DEF StopBefore
<1> HIDE DEF mid, new
<1>5. HeldBy(mid) = HeldBy(out) /\ (Lined(out) => Lined(mid))
  BY <1>3 DEF HeldBy, Lined
<1>6. /\ CloseOutput(mid) \in Progress(S) /\ HeldBy(CloseOutput(mid)) = HeldBy(mid)
      /\ Lined(mid) => Lined(CloseOutput(mid))
  BY <1>3, CloseOutputIs
<1>7. ASSUME NEW o \in Progress(S)
      PROVE  LET p == [o EXCEPT !.overlapped = 0]
             IN  p \in Progress(S) /\ HeldBy(p) = HeldBy(o) /\ (Lined(o) => Lined(p))
  <2> DEFINE p == [o EXCEPT !.overlapped = 0]
  <2>1. p \in Progress(S) /\ p.done = o.done /\ p.open = o.open
    BY DEF Progress
  <2> HIDE DEF p
  <2> QED BY <2>1 DEF HeldBy, Lined, p
<1> QED BY <1>3, <1>4, <1>5, <1>6, <1>7 DEF new, mid

(* What the loop writes: the entries that are not dropped, in files that   *)
(* follow one another.                                                     *)
Written(c, v, snapshot, input) ==
  {input[i] : i \in {j \in DOMAIN input : ~Drop(input, j, c.level, v, snapshot)}}

LEMMA LoopIs ==
  ASSUME NEW S \in SUBSET Entry, NEW input \in Seq(S), NEW c, NEW v, NEW snapshot,
         c.grandparents \in Seq(File),
         \A i, j \in DOMAIN input : i < j => Before(input[i], input[j])
  PROVE  LET outs == CompactionLoop(c, v, snapshot, input)
         IN  /\ outs \in Seq(SUBSET S) /\ InRow(outs)
             /\ UNION {outs[a] : a \in DOMAIN outs} = Written(c, v, snapshot, input)
<1> DEFINE n         == Len(input)
           gp        == c.grandparents
           passed(i) == Cardinality({f \in FilesIn(gp) : Before(Largest(f), input[i])})
           drop(i)   == Drop(input, i, c.level, v, snapshot)
           zero      == [done |-> <<>>, open |-> {}, passed |-> 0, overlapped |-> 0]
           next(o, i) == AddEntry(StopBefore(CountOverlap(o, gp, passed(i), i > 1)),
                                  input[i], drop(i))
           G(g)      == g = [i \in 0..n |-> IF i = 0 THEN zero ELSE next(g[i - 1], i)]
           g         == CHOOSE h : G(h)
           V         == Progress(S)
           st        == [p \in (1..n) \X V |-> next(p[2], p[1])]
           outs      == CompactionLoop(c, v, snapshot, input)
           held(i)   == {input[j] : j \in {k \in 1..i : ~drop(k)}}
<1>1. n \in Nat /\ DOMAIN input = 1..n /\ \A i \in 1..n : input[i] \in S /\ input[i] \in Entry
  BY LenProperties, ElementOfSeq
<1>2. outs = CloseOutput(g[n]).done
  BY DEF CompactionLoop
<1>3. \A i \in 1..n : passed(i) \in 0..Len(gp) /\ drop(i) \in BOOLEAN
  <2> TAKE i \in 1..n
  <2>1. {f \in FilesIn(gp) : Before(Largest(f), input[i])} \subseteq FilesIn(gp)
    OBVIOUS
  <2>2. /\ IsFiniteSet(FilesIn(gp)) /\ Cardinality(FilesIn(gp)) \in 0..Len(gp)
        /\ Len(gp) \in Nat
    BY FilesInIs, LenProperties
  <2>3. passed(i) \in Nat /\ passed(i) <= Cardinality(FilesIn(gp))
    BY <2>1, <2>2, FS_Subset, FS_CardinalityType
  <2>4. drop(i) \in BOOLEAN
    BY DEF Drop
  <2> HIDE DEF passed, drop
  <2> QED BY <2>2, <2>3, <2>4
<1>4. zero \in V /\ Lined(zero) /\ HeldBy(zero) = {}
  <2>1. <<>> \in Seq(SUBSET S) /\ DOMAIN <<>> = {}
    BY EmptySeq
  <2> QED BY <2>1 DEF Progress, Lined, InRow, HeldBy
<1> HIDE DEF n, passed, drop, zero, outs
<1>5. ASSUME NEW i \in 1..n, NEW o \in V
      PROVE  /\ next(o, i) \in V
             /\ HeldBy(next(o, i)) = IF drop(i) THEN HeldBy(o) ELSE HeldBy(o) \cup {input[i]}
             /\ Lined(o) /\ AllBefore(HeldBy(o), {input[i]}) => Lined(next(o, i))
  <2> DEFINE mid == StopBefore(CountOverlap(o, gp, passed(i), i > 1))
             new == AddEntry(mid, input[i], drop(i))
             seen == i > 1
  <2>1. gp \in Seq(File) /\ passed(i) \in 0..Len(gp) /\ seen \in BOOLEAN /\ o \in Progress(S)
    BY <1>3
  <2>2. mid = StopBefore(CountOverlap(o, gp, passed(i), seen))
    OBVIOUS
  <2> HIDE DEF seen, mid, gp
  <2>3. mid \in Progress(S) /\ HeldBy(mid) = HeldBy(o) /\ (Lined(o) => Lined(mid))
    BY <2>1, <2>2, StopBeforeIs
  <2>4. /\ new \in Progress(S)
        /\ HeldBy(new) = IF drop(i) THEN HeldBy(mid) ELSE HeldBy(mid) \cup {input[i]}
        /\ Lined(mid) /\ AllBefore(HeldBy(mid), {input[i]}) => Lined(new)
    <3> DEFINE e == input[i]
               d == drop(i)
    <3>1. e \in S /\ d \in BOOLEAN /\ new = AddEntry(mid, e, d)
      BY <1>1, <1>3
    <3> HIDE DEF e, d, new
    <3>2. mid \in Progress(S)
      BY <2>3
    <3>3. /\ AddEntry(mid, e, d) \in Progress(S)
          /\ HeldBy(AddEntry(mid, e, d)) = IF d THEN HeldBy(mid) ELSE HeldBy(mid) \cup {e}
          /\ Lined(mid) /\ AllBefore(HeldBy(mid), {e}) => Lined(AddEntry(mid, e, d))
      BY ONLY <3>1, <3>2, AddEntryIs
    <3> QED BY <3>1, <3>3 DEF e, d
  <2>5. next(o, i) = new
    BY DEF mid
  <2> HIDE DEF new, next
  <2> QED BY <2>3, <2>4, <2>5
<1> HIDE DEF next, V
<1>6. \A i \in 1..n, o \in V : st[<<i, o>>] = next(o, i) /\ next(o, i) \in V
  BY <1>5
<1> HIDE DEF st
<1>7. Climbs(n, V, zero, st)
  BY <1>1, <1>4, <1>6 DEF Climbs
<1> HIDE DEF G, g
<1>8. PICK h : Recurs(h, n, zero, st)
  BY <1>7, Climbing
<1>9. h \in [0..n -> V]
  BY <1>7, <1>8, Climbing
<1>10. ASSUME NEW i \in 0..n
       PROVE  h[i] = IF i = 0 THEN zero ELSE next(h[i - 1], i)
  <2>1. i # 0 => i \in 1..n /\ i - 1 \in 0..n
    BY <1>1
  <2>2. i # 0 => h[i - 1] \in V
    BY <1>9, <2>1
  <2> QED BY <1>6, <1>8, <2>1, <2>2 DEF Recurs
<1>11. G(h)
  <2>1. h = [i \in 0..n |-> h[i]]
    BY <1>9
  <2> QED BY <1>10, <2>1 DEF G
<1>12. G(g)
  BY <1>11 DEF g
<1>13. \A i \in 0..n : g[i] = IF i = 0 THEN zero ELSE next(g[i - 1], i)
  BY <1>12 DEF G
<1> DEFINE Fine(i) == g[i] \in V /\ Lined(g[i]) /\ HeldBy(g[i]) = held(i)
<1>14. \A i \in 0..n : Fine(i)
  <2> DEFINE Bad == {i \in 0..n : ~Fine(i)}
  <2> SUFFICES ASSUME Bad # {} PROVE FALSE
    OBVIOUS
  <2>1. PICK i \in Bad : \A j \in Bad : i <= j
    <3>1. Bad \subseteq 0..n
      OBVIOUS
    <3> HIDE DEF Bad
    <3>2. Bad \in SUBSET Nat /\ Bad # {}
      BY <1>1, <3>1
    <3> QED BY <3>2, LeastNumber
  <2>2. i \in 0..n /\ ~Fine(i)
    BY <2>1
  <2>3. i # 0
    <3>1. i = 0 => held(i) = {} /\ g[i] = zero
      BY <1>1, <1>13
    <3> QED BY <1>4, <2>2, <3>1
  <2>4. i \in 1..n /\ i - 1 \in 0..n /\ ~(i <= i - 1)
    BY <1>1, <2>2, <2>3
  <2>5. Fine(i - 1)
    BY <2>1, <2>4
  <2> DEFINE o == g[i - 1]
  <2>6. g[i] = next(o, i)
    BY <1>13, <2>2, <2>3
  <2>7. o \in V /\ Lined(o) /\ HeldBy(o) = held(i - 1)
    BY <2>5
  <2> HIDE DEF o
  <2>8. AllBefore(held(i - 1), {input[i]})
    <3>1. \A j \in 1..(i - 1) : j \in 1..n /\ j < i
      BY <1>1, <2>4
    <3> QED BY <1>1, <2>4, <3>1 DEF AllBefore
  <2>9. held(i) = IF drop(i) THEN held(i - 1) ELSE held(i - 1) \cup {input[i]}
    <3>1. \A k : k \in 1..i <=> (k \in 1..(i - 1) \/ k = i)
      BY <1>1, <2>4
    <3> HIDE DEF held
    <3>2. CASE drop(i)
      BY <3>1, <3>2 DEF held
    <3>3. CASE ~drop(i)
      BY <3>1, <3>3 DEF held
    <3> QED BY <3>2, <3>3
  <2> HIDE DEF held
  <2>10. Fine(i)
    BY <1>5, <2>4, <2>6, <2>7, <2>8, <2>9
  <2> QED BY <2>2, <2>10
<1>15. /\ CloseOutput(g[n]).done \in Seq(SUBSET S) /\ Lined(CloseOutput(g[n]))
       /\ HeldBy(CloseOutput(g[n])) = held(n) /\ CloseOutput(g[n]).open = {}
  <2> DEFINE o == g[n]
             p == CloseOutput(o)
  <2>1. o \in V /\ Lined(o) /\ HeldBy(o) = held(n)
    BY <1>1, <1>14
  <2> HIDE DEF o, held
  <2>2. p \in Progress(S) /\ Lined(p) /\ HeldBy(p) = held(n) /\ p.open = {}
    BY <2>1, CloseOutputIs DEF V
  <2>3. p.done \in Seq(SUBSET S)
    BY <2>2 DEF Progress
  <2> QED BY <2>2, <2>3 DEF o
<1>16. held(n) = Written(c, v, snapshot, input)
  BY <1>1 DEF Written, drop
<1> DEFINE last == CloseOutput(g[n])
<1>17. outs = last.done /\ last.open = {} /\ InRow(last.done) /\ HeldBy(last) = held(n)
  BY <1>2, <1>15 DEF Lined
<1>18. outs \in Seq(SUBSET S)
  BY <1>2, <1>15
<1> HIDE DEF last, held
<1>19. UNION {outs[a] : a \in DOMAIN outs} = held(n)
  BY <1>17 DEF HeldBy
<1> QED BY <1>16, <1>17, <1>18, <1>19 DEF outs

(* The same of the work on a compaction's inputs.                          *)
Compacted(c) == UNION {f.entries : f \in FilesIn(c.inputs0 \o c.inputs1)}

LEMMA OutputsAre ==
  ASSUME NEW c, c.inputs0 \in Seq(File), c.inputs1 \in Seq(File),
         c.grandparents \in Seq(File), NEW v, NEW snapshot
  PROVE  LET outs  == CompactionOutputs(c, v, snapshot)
             input == Sorted(Compacted(c), Before)
         IN  /\ outs \in Seq(SUBSET Compacted(c)) /\ InRow(outs)
             /\ UNION {outs[a] : a \in DOMAIN outs} = Written(c, v, snapshot, input)
             /\ IsFiniteSet(Compacted(c)) /\ Compacted(c) \in SUBSET Entry
<1> DEFINE S     == Compacted(c)
           input == Sorted(S, Before)
           fs    == c.inputs0 \o c.inputs1
<1>1. fs \in Seq(File)
  BY FilesInTogether
<1>2. IsFiniteSet(S) /\ S \in SUBSET Entry
  <2>1. IsFiniteSet(FilesIn(fs)) /\ FilesIn(fs) \in SUBSET File
    BY <1>1, FilesInIs
  <2> DEFINE F == FilesIn(fs)
             E == {f.entries : f \in F}
             e == [f \in F |-> f.entries]
  <2>2. e \in Surjection(F, E)
    BY DEF Surjection
  <2>3. IsFiniteSet(E) /\ \A T \in E : IsFiniteSet(T) /\ T \subseteq Entry
    <3>1. IsFiniteSet(F)
      BY <2>1
    <3> HIDE DEF F, e
    <3>2. IsFiniteSet(E)
      BY <2>2, <3>1, FS_Surjection
    <3>3. \A T \in E : IsFiniteSet(T) /\ T \subseteq Entry
      BY <2>1 DEF F, File
    <3> HIDE DEF E
    <3> QED BY <3>2, <3>3
  <2>4. S = UNION E
    BY DEF Compacted
  <2> HIDE DEF E
  <2> QED BY <2>3, <2>4, FS_UNION
<1>3. CompactionOutputs(c, v, snapshot) = CompactionLoop(c, v, snapshot, input)
  BY DEF CompactionOutputs, Compacted
<1> HIDE DEF S
<1>4. input \in Seq(S) /\ \A i, j \in DOMAIN input : i < j => Before(input[i], input[j])
  BY <1>2, EntriesSorted
<1> HIDE DEF input
<1>5. LET outs == CompactionLoop(c, v, snapshot, input)
      IN  /\ outs \in Seq(SUBSET S) /\ InRow(outs)
          /\ UNION {outs[a] : a \in DOMAIN outs} = Written(c, v, snapshot, input)
  BY <1>2, <1>4, LoopIs
<1> QED BY <1>2, <1>3, <1>5 DEF S, input

-----------------------------------------------------------------------------
(* Reading *)

(* The entries of ik's user key that a reader at ik may see, and the one   *)
(* it should find.                                                         *)
Visible(S, ik) == {e \in S : e.key = ik.key /\ e.tag <= ik.tag}
FoundIn(S, ik, R) ==
  \/ Visible(S, ik) = {} /\ R = {}
  \/ \E e \in Visible(S, ik) : R = {e} /\ \A d \in Visible(S, ik) : d.tag <= e.tag

LEMMA FoundOnce ==
  ASSUME NEW S \in SUBSET Entry, NEW ik, NEW R, NEW T, FoundIn(S, ik, R), FoundIn(S, ik, T)
  PROVE  R = T
<1>1. CASE Visible(S, ik) = {}
  BY <1>1 DEF FoundIn
<1>2. CASE Visible(S, ik) # {}
  <2>1. PICK d \in Visible(S, ik) : R = {d} /\ \A x \in Visible(S, ik) : x.tag <= d.tag
    BY <1>2 DEF FoundIn
  <2>2. PICK e \in Visible(S, ik) : T = {e} /\ \A x \in Visible(S, ik) : x.tag <= e.tag
    BY <1>2 DEF FoundIn
  <2>3. d \in Entry /\ e \in Entry /\ d.key = e.key
    BY DEF Visible
  <2>4. d.tag \in Nat /\ e.tag \in Nat /\ d.tag <= e.tag /\ e.tag <= d.tag
    BY <2>1, <2>2, <2>3 DEF Entry
  <2>5. d = e
    BY <2>3, <2>4 DEF Entry
  <2> QED BY <2>1, <2>2, <2>5
<1> QED BY <1>1, <1>2

LEMMA SeekEntryIs ==
  ASSUME NEW S \in SUBSET Entry, IsFiniteSet(S), NEW ik \in Entry
  PROVE  FoundIn(S, ik, SeekEntry(S, ik))
<1> DEFINE from == {e \in S : ~Before(e, ik)}
           m    == First(from)
<1>1. SeekEntry(S, ik) = IF from = {} THEN {} ELSE {e \in {m} : e.key = ik.key}
  BY DEF SeekEntry
<1>2. from \in SUBSET Entry /\ IsFiniteSet(from)
  BY FS_Subset
<1>3. ik.key \in Int /\ ik.tag \in Int /\ \A e \in S : e.key \in Int /\ e.tag \in Int
  BY DEF Entry, UserKeys
<1>4. Visible(S, ik) \subseteq from
  BY <1>3 DEF Visible, Before
<1>5. \A e \in from : e \in S /\ (e.key > ik.key \/ (e.key = ik.key /\ e.tag <= ik.tag))
  BY <1>3 DEF Before
<1> HIDE DEF from
<1>6. CASE from = {}
  BY <1>1, <1>4, <1>6 DEF FoundIn
<1>7. CASE from # {}
  <2>1. m \in from /\ \A e \in from : e # m => Before(m, e)
    BY <1>2, <1>7, FirstIs
  <2> HIDE DEF m
  <2>2. CASE m.key = ik.key
    <3>1. m \in Visible(S, ik)
      BY <1>3, <1>5, <2>1, <2>2 DEF Visible
    <3>2. \A d \in Visible(S, ik) : d.tag <= m.tag
      BY <1>3, <1>4, <1>5, <2>1, <2>2 DEF Visible, Before
    <3>3. SeekEntry(S, ik) = {m}
      BY <1>1, <1>7, <2>2
    <3> QED BY <3>1, <3>2, <3>3 DEF FoundIn
  <2>3. CASE m.key # ik.key
    <3>1. SeekEntry(S, ik) = {}
      BY <1>1, <1>7, <2>3
    <3>2. Visible(S, ik) = {}
      <4>1. ASSUME NEW d \in Visible(S, ik) PROVE FALSE
        <5>1. d \in from /\ d.key = ik.key /\ d \in S /\ m \in S /\ d # m
          BY <1>4, <2>1, <2>3, <1>5 DEF Visible
        <5>2. d.key < m.key
          BY <1>3, <1>5, <2>1, <2>3, <5>1
        <5>3. Before(m, d)
          BY <2>1, <5>1
        <5> QED BY <1>3, <5>1, <5>2, <5>3 DEF Before
      <4> QED BY <4>1
    <3> QED BY <3>1, <3>2 DEF FoundIn
  <2> QED BY <2>2, <2>3
<1> QED BY <1>6, <1>7

(* What a lookup reads of a level below 0: nothing, or one file.           *)
AtLevel(v, ik, level) ==
  LET i == FindFile(v[level], ik)
  IN  IF i > Len(v[level]) \/ ik.key < Smallest(v[level][i]).key THEN <<>>
      ELSE <<[level |-> level, file |-> v[level][i]]>>

LEMMA AtLevelIs ==
  ASSUME NEW v, Orderly(v), NEW ik \in Entry, NEW level \in Levels, level > 0
  PROVE  /\ \/ AtLevel(v, ik, level) = <<>>
            \/ \E f \in FilesIn(v[level]) :
                 AtLevel(v, ik, level) = <<[level |-> level, file |-> f]>>
         /\ \A f \in FilesIn(v[level]) : \A e \in Visible(f.entries, ik) :
              \E g \in FilesIn(v[level]) :
                /\ AtLevel(v, ik, level) = <<[level |-> level, file |-> g]>>
                /\ \E d \in Visible(g.entries, ik) : d.tag >= e.tag
<1> DEFINE fs == v[level]
           n  == Len(fs)
           p  == FindFile(fs, ik)
<1>1. /\ fs \in Seq(File) /\ n \in Nat /\ DOMAIN fs = 1..n
      /\ \A i \in 1..n : fs[i] \in File /\ fs[i] \in FilesIn(fs)
  BY LenProperties, ElementOfSeq DEF Orderly, FilesIn
<1>2. \A i, j \in DOMAIN fs : i < j => Whole(fs[i], fs[j])
  BY LevelInOrder
<1>3. p \in 1..(n + 1) /\ \A i \in DOMAIN fs : i < p <=> Before(Largest(fs[i]), ik)
  <2>1. \A i, j \in DOMAIN fs : i < j /\ Before(Largest(fs[j]), ik) => Before(Largest(fs[i]), ik)
    <3> SUFFICES ASSUME NEW i \in DOMAIN fs, NEW j \in DOMAIN fs, i < j,
                        Before(Largest(fs[j]), ik)
                 PROVE  Before(Largest(fs[i]), ik)
      OBVIOUS
    <3>1. fs[i] \in File /\ fs[j] \in File /\ Whole(fs[i], fs[j])
      BY <1>1, <1>2
    <3>2. Before(Largest(fs[i]), Largest(fs[j]))
      BY <3>1, WholeIs
    <3>3. Largest(fs[i]) \in Entry /\ Largest(fs[j]) \in Entry
      BY <3>1, BoundsOfFile
    <3> QED BY <3>2, <3>3, BeforeIsOrder
  <2> HIDE DEF fs
  <2> QED BY <1>1, <2>1, FindFileIs
<1>4. AtLevel(v, ik, level) = IF p > n \/ ik.key < Smallest(fs[p]).key THEN <<>>
                              ELSE <<[level |-> level, file |-> fs[p]]>>
  BY DEF AtLevel
<1>5. ik.key \in Int /\ ik.tag \in Int
  BY DEF Entry, UserKeys
<1>6. \A e \in Entry : e.key \in Int /\ e.tag \in Int
  BY DEF Entry, UserKeys
<1> HIDE DEF fs, n, p
<1>7. p > n \/ (p \in 1..n /\ fs[p] \in FilesIn(fs))
  BY <1>1, <1>3
<1>8. ASSUME NEW f \in FilesIn(fs), NEW e \in Visible(f.entries, ik)
      PROVE  \E g \in FilesIn(fs) : /\ AtLevel(v, ik, level) = <<[level |-> level, file |-> g]>>
                                    /\ \E d \in Visible(g.entries, ik) : d.tag >= e.tag
  <2>1. PICK j \in 1..n : fs[j] = f
    BY <1>1 DEF FilesIn
  <2>2. f \in File /\ e \in f.entries /\ e \in Entry /\ e.key = ik.key /\ e.tag <= ik.tag
    BY <1>1, <2>1 DEF Visible, File
  <2>3. Largest(f) \in Entry /\ (e = Largest(f) \/ Before(e, Largest(f)))
    BY <2>2, BoundsOfFile
  <2>4. ~Before(Largest(f), ik)
    BY <1>5, <1>6, <2>2, <2>3 DEF Before
  <2>5. p <= j /\ p \in 1..n
    BY <1>1, <1>3, <2>1, <2>4
  <2> DEFINE g == fs[p]
             d == Largest(g)
  <2>6. g \in File /\ g \in FilesIn(fs) /\ d \in Entry /\ d \in g.entries /\ Smallest(g) \in Entry
        /\ ~Before(d, ik)
    <3>1. ~(p < p) /\ p \in DOMAIN fs
      BY <1>1, <2>5
    <3> QED BY <1>1, <1>3, <2>5, <3>1, BoundsOfFile
  <2>7. CASE p = j
    <3>1. Smallest(g).key <= e.key
      BY <2>1, <2>2, <2>7, BoundsOfFile
    <3>2. AtLevel(v, ik, level) = <<[level |-> level, file |-> g]>>
      BY <1>1, <1>4, <1>5, <1>6, <2>2, <2>5, <2>6, <3>1
    <3>3. e \in Visible(g.entries, ik) /\ e.tag >= e.tag
      BY <1>6, <2>1, <2>2, <2>7 DEF Visible
    <3> QED BY <2>6, <3>2, <3>3
  <2>8. CASE p # j
    <3>1. Whole(g, f)
      BY <1>1, <1>2, <2>1, <2>5, <2>8
    <3>2. Before(d, e) /\ Smallest(g).key <= d.key
      BY <2>2, <2>6, <3>1, BoundsOfFile DEF Whole
    <3> HIDE DEF d, g
    <3>3. d.key \in Int /\ d.tag \in Int /\ e.key \in Int /\ e.tag \in Int /\ Smallest(g).key \in Int
      BY <1>6, <2>2, <2>6
    <3>4. d.key = ik.key /\ d.tag <= ik.tag /\ d.tag >= e.tag
      BY <1>5, <2>2, <2>6, <3>2, <3>3 DEF Before
    <3>5. AtLevel(v, ik, level) = <<[level |-> level, file |-> g]>>
      BY <1>1, <1>4, <1>5, <2>5, <3>2, <3>3, <3>4 DEF g
    <3>6. d \in Visible(g.entries, ik)
      BY <2>6, <3>4 DEF Visible
    <3> QED BY <2>6, <3>4, <3>5, <3>6
  <2> QED BY <2>7, <2>8
<1>9. \/ AtLevel(v, ik, level) = <<>>
      \/ \E f \in FilesIn(fs) : AtLevel(v, ik, level) = <<[level |-> level, file |-> f]>>
  BY <1>4, <1>7
<1> QED BY <1>8, <1>9 DEF fs

Places == [level : Levels, file : File]

(* The places of a sequence are from level l on, one level after another;  *)
(* and it holds what a reader at ik may look for from level l on.          *)
Row(s, v, l) ==
  /\ s \in Seq(Places)
  /\ \A i \in DOMAIN s : s[i].level >= l /\ s[i].file \in FilesIn(v[s[i].level])
  /\ \A i, j \in DOMAIN s : i < j => s[i].level < s[j].level

Leads(s, ik, m, e) ==
  \E i \in DOMAIN s : /\ s[i].level = m
                      /\ \E d \in Visible(s[i].file.entries, ik) : d.tag >= e.tag
LeadsFrom(s, v, ik, l) ==
  \A m \in Levels : m >= l =>
    \A f \in FilesIn(v[m]) : \A e \in Visible(f.entries, ik) : Leads(s, ik, m, e)

LEMMA RowGrows ==
  ASSUME NEW v, Orderly(v), NEW ik \in Entry, NEW l \in Levels, l > 0,
         NEW s, Row(s, v, l + 1), LeadsFrom(s, v, ik, l + 1)
  PROVE  /\ Row(AtLevel(v, ik, l) \o s, v, l) /\ LeadsFrom(AtLevel(v, ik, l) \o s, v, ik, l)
<1> DEFINE a == AtLevel(v, ik, l)
           t == a \o s
<1>1. l \in Int /\ Levels \subseteq Int /\ s \in Seq(Places)
  BY LevelAssumption DEF LevelAssumption, Levels, Row
<1>2. /\ \/ a = <<>>
         \/ \E f \in FilesIn(v[l]) : a = <<[level |-> l, file |-> f]>>
      /\ \A f \in FilesIn(v[l]) : \A e \in Visible(f.entries, ik) :
           \E g \in FilesIn(v[l]) : /\ a = <<[level |-> l, file |-> g]>>
                                    /\ \E d \in Visible(g.entries, ik) : d.tag >= e.tag
  BY AtLevelIs
<1> HIDE DEF a
<1>3. CASE a = <<>>
  <2>1. t = s
    BY <1>1, <1>3, ConcatEmptySeq
  <2>2. Row(t, v, l)
    <3>1. \A i \in DOMAIN s : s[i].level \in Int
      <4>1. DOMAIN s = 1..Len(s) /\ \A i \in 1..Len(s) : s[i] \in Places
        BY <1>1, LenProperties, ElementOfSeq
      <4> QED BY <1>1, <4>1 DEF Places
    <3>2. \A i \in DOMAIN s : s[i].level >= l
      BY <1>1, <3>1 DEF Row
    <3> QED BY <2>1, <3>2 DEF Row
  <2>3. LeadsFrom(t, v, ik, l)
    <3> SUFFICES ASSUME NEW m \in Levels, m >= l, NEW f \in FilesIn(v[m]),
                        NEW e \in Visible(f.entries, ik)
                 PROVE  Leads(t, ik, m, e)
      BY DEF LeadsFrom
    <3>1. m # l
      BY <1>2, <1>3
    <3>2. m >= l + 1
      BY <1>1, <3>1
    <3> QED BY <2>1, <3>2 DEF LeadsFrom
  <2> QED BY <2>2, <2>3 DEF a
<1>4. ASSUME NEW f \in FilesIn(v[l]), a = <<[level |-> l, file |-> f]>>
      PROVE  Row(t, v, l) /\ LeadsFrom(t, v, ik, l)
  <2> DEFINE x == [level |-> l, file |-> f]
             n == Len(s)
  <2>1. x \in Places /\ x.level = l /\ x.file = f
    BY FilesInIs DEF Orderly, Places
  <2>2. n \in Nat /\ DOMAIN s = 1..n /\ \A i \in 1..n : s[i] \in Places
    BY <1>1, LenProperties, ElementOfSeq
  <2>3. /\ t \in Seq(Places) /\ DOMAIN t = 1..(n + 1)
        /\ t[1] = x /\ \A i \in 1..n : t[i + 1] = s[i]
    <3>1. a \in Seq(Places) /\ Len(a) = 1 /\ a[1] = x
      BY <1>4, <2>1
    <3> HIDE DEF x
    <3>2. /\ t \in Seq(Places) /\ Len(t) = 1 + n
          /\ \A i \in 1..(1 + n) : t[i] = IF i <= 1 THEN a[i] ELSE s[i - 1]
      <4>1. /\ t \in Seq(Places) /\ Len(t) = Len(a) + Len(s)
            /\ \A i \in 1..(Len(a) + Len(s)) :
                 t[i] = IF i <= Len(a) THEN a[i] ELSE s[i - Len(a)]
        BY <1>1, <3>1, ConcatProperties
      <4> HIDE DEF t
      <4> QED BY <3>1, <4>1
    <3> HIDE DEF t, n
    <3>3. DOMAIN t = 1..(n + 1)
      BY <2>2, <3>2, LenProperties
    <3>4. \A i \in 1..n : i + 1 \in 1..(1 + n) /\ ~(i + 1 <= 1) /\ i + 1 - 1 = i
      BY <2>2
    <3>5. \A i \in 1..n : t[i + 1] = s[i]
      BY <3>2, <3>4
    <3> QED BY <2>2, <3>1, <3>2, <3>3, <3>5
  <2> HIDE DEF t, x, n
  <2>4. \A i \in 1..(n + 1) : i = 1 \/ (i - 1 \in 1..n /\ t[i] = s[i - 1])
    <3> TAKE i \in 1..(n + 1)
    <3>1. i # 1 => i - 1 \in 1..n /\ i - 1 + 1 = i
      BY <2>2
    <3> QED BY <2>3, <3>1
  <2>5. \A i \in 1..n : s[i].level \in Int /\ s[i].level >= l + 1
    BY <1>1, <2>2 DEF Row, Places
  <2>6. Row(t, v, l)
    <3>1. ASSUME NEW i \in DOMAIN t
          PROVE  t[i].level >= l /\ t[i].file \in FilesIn(v[t[i].level])
      <4>1. CASE i = 1
        BY <1>1, <2>1, <2>3, <4>1
      <4>2. CASE i # 1
        <5>1. i - 1 \in 1..n /\ t[i] = s[i - 1]
          BY <2>3, <2>4, <4>2
        <5> QED BY <1>1, <2>2, <2>5, <5>1 DEF Row
      <4> QED BY <4>1, <4>2
    <3>2. ASSUME NEW i \in DOMAIN t, NEW j \in DOMAIN t, i < j PROVE t[i].level < t[j].level
      <4>1. j - 1 \in 1..n /\ t[j] = s[j - 1]
        BY <2>2, <2>3, <2>4, <3>2
      <4>2. CASE i = 1
        BY <1>1, <2>1, <2>3, <2>5, <4>1, <4>2
      <4>3. CASE i # 1
        <5>1. i - 1 \in 1..n /\ t[i] = s[i - 1] /\ i - 1 < j - 1
          BY <2>2, <2>3, <2>4, <3>2, <4>3
        <5> QED BY <2>2, <4>1, <5>1 DEF Row
      <4> QED BY <4>2, <4>3
    <3> QED BY <2>3, <3>1, <3>2 DEF Row
  <2>7. LeadsFrom(t, v, ik, l)
    <3> SUFFICES ASSUME NEW m \in Levels, m >= l, NEW h \in FilesIn(v[m]),
                        NEW e \in Visible(h.entries, ik)
                 PROVE  Leads(t, ik, m, e)
      BY DEF LeadsFrom
    <3>1. CASE m = l
      <4>1. PICK g \in FilesIn(v[l]) : /\ a = <<[level |-> l, file |-> g]>>
                                       /\ \E d \in Visible(g.entries, ik) : d.tag >= e.tag
        BY <1>2, <3>1
      <4>2. x.file = g
        BY <1>4, <2>1, <4>1 DEF x
      <4>3. 1 \in DOMAIN t
        BY <2>2, <2>3
      <4> QED BY <2>1, <2>3, <3>1, <4>1, <4>2, <4>3 DEF Leads
    <3>2. CASE m # l
      <4>1. m >= l + 1
        BY <1>1, <3>2
      <4>2. PICK i \in 1..n : /\ s[i].level = m
                              /\ \E d \in Visible(s[i].file.entries, ik) : d.tag >= e.tag
        BY <2>2, <4>1 DEF LeadsFrom, Leads
      <4>3. i + 1 \in DOMAIN t /\ t[i + 1] = s[i]
        BY <2>2, <2>3
      <4> QED BY <4>2, <4>3 DEF Leads
    <3> QED BY <3>1, <3>2
  <2> QED BY <2>6, <2>7
<1> QED BY <1>2, <1>3, <1>4 DEF a

(* The recursion over the levels below 0.                                  *)
FromLevels(h, at, n) ==
  h = [level \in 1..n |-> IF level = n THEN <<>> ELSE at[level] \o h[level + 1]]

LEMMA FromIs ==
  ASSUME NEW v, Orderly(v), NEW ik \in Entry, NEW at,
         \A level \in 1..(kNumLevels - 1) : at[level] = AtLevel(v, ik, level)
  PROVE  /\ \E h : FromLevels(h, at, kNumLevels)
         /\ \A h : FromLevels(h, at, kNumLevels) => Row(h[1], v, 1) /\ LeadsFrom(h[1], v, ik, 1)
<1> DEFINE n    == kNumLevels
           D    == 1..n
           V    == Seq(Places)
           rk   == [l \in D |-> n - l]
           Base == {n}
           b    == [l \in Base |-> <<>>]
           nx   == [l \in D |-> l + 1]
           st   == [p \in (1..(n - 1)) \X V |-> at[p[1]] \o p[2]]
           none == <<>>
<1>1. /\ n \in Nat /\ n >= 3 /\ Levels = 0..(n - 1) /\ 1 \in D /\ n \in D
      /\ \A l \in 1..(n - 1) : l \in Levels /\ l > 0 /\ l \in D /\ l + 1 \in D /\ l # n
      /\ \A l \in D : l # n => l \in 1..(n - 1)
  BY LevelAssumption DEF LevelAssumption, Levels
<1> HIDE DEF n
<1>2. \A l \in 1..(n - 1) : at[l] \in V
  <2> TAKE l \in 1..(n - 1)
  <2>1. \/ AtLevel(v, ik, l) = <<>>
        \/ \E f \in FilesIn(v[l]) : AtLevel(v, ik, l) = <<[level |-> l, file |-> f]>>
    BY <1>1, AtLevelIs
  <2>2. <<>> \in Seq(Places)
    BY EmptySeq
  <2>3. ASSUME NEW f \in FilesIn(v[l]) PROVE <<[level |-> l, file |-> f]>> \in Seq(Places)
    <3>1. f \in File
      BY <1>1, FilesInIs DEF Orderly
    <3>2. [level |-> l, file |-> f] \in Places
      BY <1>1, <3>1 DEF Places
    <3> QED BY <3>2
  <2> QED BY <2>1, <2>2, <2>3 DEF n
<1>3. \A l \in 1..(n - 1), s \in V : st[<<l, s>>] = at[l] \o s /\ at[l] \o s \in V
  BY <1>2, ConcatProperties
<1>4. Descends(D, V, n, rk, Base, b, nx, st)
  <2>1. rk \in [D -> 0..n] /\ Base \in SUBSET D
    BY <1>1
  <2>2. b \in [Base -> V]
    BY EmptySeq
  <2>3. \A l \in D \ Base : l \in 1..(n - 1) /\ nx[l] \in D /\ rk[nx[l]] < rk[l]
    BY <1>1
  <2>4. n \in Nat
    BY <1>1
  <2> HIDE DEF D, V, rk, Base, b, nx, st
  <2> QED BY <1>3, <2>1, <2>2, <2>3, <2>4 DEF Descends
<1> HIDE DEF V, st, rk
<1>5. \E h : FromLevels(h, at, n)
  <2> HIDE DEF Base, b, nx, D
  <2>1. PICK h \in [D -> V] :
          h = [x \in D |-> IF x \in Base THEN b[x] ELSE st[<<x, h[nx[x]]>>]]
    BY <1>4, RecursionExists
  <2>2. ASSUME NEW l \in D PROVE h[l] = IF l = n THEN <<>> ELSE at[l] \o h[l + 1]
    <3>1. l = n => l \in Base /\ b[l] = <<>>
      BY DEF Base, b
    <3>2. l # n => l \notin Base /\ nx[l] = l + 1 /\ l \in 1..(n - 1) /\ l + 1 \in D
      BY <1>1 DEF Base, nx, D
    <3>3. l # n => h[l + 1] \in V
      BY <2>1, <3>2
    <3>4. h[l] = IF l \in Base THEN b[l] ELSE st[<<l, h[nx[l]]>>]
      BY <2>1
    <3>5. CASE l = n
      BY <3>1, <3>4, <3>5
    <3>6. CASE l # n
      <4>1. h[l] = st[<<l, h[l + 1]>>]
        BY <3>2, <3>4, <3>6
      <4> QED BY <1>3, <3>2, <3>3, <3>6, <4>1
    <3> QED BY <3>5, <3>6
  <2>3. h = [l \in D |-> h[l]]
    BY <2>1
  <2>4. h = [l \in D |-> IF l = n THEN <<>> ELSE at[l] \o h[l + 1]]
    BY <2>2, <2>3
  <2> QED BY <2>4 DEF FromLevels, D
<1>6. ASSUME NEW h, FromLevels(h, at, n)
      PROVE  Row(h[1], v, 1) /\ LeadsFrom(h[1], v, ik, 1)
  <2> DEFINE Fine(l) == Row(h[l], v, l) /\ LeadsFrom(h[l], v, ik, l)
             Bad     == {k \in 0..(n - 1) : ~Fine(n - k)}
  <2>1. \A l \in D : h[l] = IF l = n THEN none ELSE at[l] \o h[l + 1]
    BY <1>6 DEF FromLevels
  <2>2. Fine(n)
    <3>1. h[n] = <<>>
      BY <1>1, <2>1
    <3>2. <<>> \in Seq(Places) /\ DOMAIN <<>> = {}
      BY EmptySeq
    <3>3. \A m \in Levels : ~(m >= n)
      BY <1>1
    <3> QED BY <3>1, <3>2, <3>3 DEF Row, LeadsFrom
  <2>3. ASSUME NEW l \in 1..(n - 1), Fine(l + 1) PROVE Fine(l)
    <3>1. h[l] = AtLevel(v, ik, l) \o h[l + 1]
      BY <1>1, <2>1 DEF n
    <3>2. Row(h[l + 1], v, l + 1) /\ LeadsFrom(h[l + 1], v, ik, l + 1) /\ l \in Levels /\ l > 0
      BY <1>1, <2>3
    <3> QED BY <3>1, <3>2, RowGrows
  <2>4. Bad = {}
    <3> SUFFICES ASSUME Bad # {} PROVE FALSE
      OBVIOUS
    <3>1. PICK k \in Bad : \A m \in Bad : k <= m
      <4>1. Bad \subseteq 0..(n - 1)
        OBVIOUS
      <4> HIDE DEF Bad
      <4>2. Bad \in SUBSET Nat /\ Bad # {}
        BY <1>1, <4>1
      <4> QED BY <4>2, LeastNumber
    <3>2. k \in 0..(n - 1) /\ ~Fine(n - k)
      BY <3>1
    <3>3. k # 0
      <4>1. k = 0 => n - k = n
        BY <1>1
      <4> HIDE DEF Fine
      <4> QED BY <2>2, <3>2, <4>1
    <3>4. k - 1 \in 0..(n - 1) /\ ~(k <= k - 1) /\ n - k \in 1..(n - 1) /\ n - (k - 1) = n - k + 1
      BY <1>1, <3>2, <3>3
    <3>5. k - 1 \notin Bad
      BY <3>1, <3>4
    <3> HIDE DEF Fine
    <3>6. Fine(n - k + 1)
      BY <3>4, <3>5
    <3> QED BY <2>3, <3>2, <3>4, <3>6
  <2>5. n - 1 \in 0..(n - 1) /\ n - (n - 1) = 1
    BY <1>1
  <2>6. Fine(n - (n - 1))
    <3> HIDE DEF Fine
    <3> QED BY <2>4, <2>5
  <2> QED BY <2>5, <2>6
<1> QED BY <1>5, <1>6 DEF n

AllFiles(v) == UNION {FilesIn(v[level]) : level \in Levels}

(* A version whose entries are in place.                                   *)
Stacked(v) ==
  /\ \A l, m \in Levels : l < m =>
       \A f \in FilesIn(v[l]), g \in FilesIn(v[m]) : Newer(f.entries, g.entries)
  /\ \A f, g \in FilesIn(v[0]) : f.number < g.number => Newer(g.entries, f.entries)

Settled(v) == /\ Orderly(v)
              /\ Stacked(v)
              /\ \A f, g \in AllFiles(v) : f.number = g.number => f = g

(* Places in the order in which newer entries come before older ones.      *)
Searched(s, v) ==
  /\ s \in Seq(Places)
  /\ \A i \in DOMAIN s : s[i].file \in FilesIn(v[s[i].level])
  /\ \A i, j \in DOMAIN s : i < j =>
       \/ s[i].level < s[j].level
       \/ s[i].level = 0 /\ s[j].level = 0 /\ s[i].file.number > s[j].file.number

LEMMA FilesToSearchIs ==
  ASSUME NEW v, Settled(v), NEW ik \in Entry
  PROVE  LET s == FilesToSearch(v, ik)
         IN  Searched(s, v) /\ LeadsFrom(s, v, ik, 0)
<1> DEFINE hits == {f \in FilesIn(v[0]) : ik.key >= Smallest(f).key /\ ik.key <= Largest(f).key}
           at(l) == LET i == FindFile(v[l], ik)
                    IN  IF i > Len(v[l]) \/ ik.key < Smallest(v[l][i]).key THEN <<>>
                        ELSE <<[level |-> l, file |-> v[l][i]]>>
           G(h)  == h = [level \in 1..kNumLevels |->
                           IF level = kNumLevels THEN <<>> ELSE at(level) \o h[level + 1]]
           h     == CHOOSE x : G(x)
           news  == Sorted(hits, NewestFirst)
           top   == [i \in DOMAIN news |-> [level |-> 0, file |-> news[i]]]
           rest  == h[1]
           s     == FilesToSearch(v, ik)
           R     == {p \in hits \X hits : NewestFirst(p[1], p[2])}
           k     == Cardinality(hits)
<1>1. s = top \o rest
  BY DEF FilesToSearch
<1>2. Row(rest, v, 1) /\ LeadsFrom(rest, v, ik, 1)
  <2> DEFINE a == [l \in 1..(kNumLevels - 1) |-> AtLevel(v, ik, l)]
  <2>1. \A l : at(l) = AtLevel(v, ik, l)
    BY DEF AtLevel
  <2> HIDE DEF at
  <2>2. \A l \in 1..kNumLevels : l # kNumLevels => l \in 1..(kNumLevels - 1) /\ at(l) = a[l]
    BY <2>1, LevelAssumption DEF LevelAssumption
  <2> HIDE DEF a
  <2>3. \A x : FromLevels(x, a, kNumLevels) <=> G(x)
    <3> SUFFICES ASSUME NEW x PROVE FromLevels(x, a, kNumLevels) <=> G(x)
      OBVIOUS
    <3>1. \A l \in 1..kNumLevels :
            (IF l = kNumLevels THEN <<>> ELSE a[l] \o x[l + 1])
              = (IF l = kNumLevels THEN <<>> ELSE at(l) \o x[l + 1])
      BY <2>2
    <3> QED BY <3>1 DEF FromLevels
  <2>4. /\ \E x : FromLevels(x, a, kNumLevels)
        /\ \A x : FromLevels(x, a, kNumLevels) => Row(x[1], v, 1) /\ LeadsFrom(x[1], v, ik, 1)
    <3>1. \A l \in 1..(kNumLevels - 1) : a[l] = AtLevel(v, ik, l)
      BY DEF a
    <3> QED BY <3>1, FromIs DEF Settled
  <2> HIDE DEF G, h
  <2>5. G(h)
    BY <2>3, <2>4 DEF h
  <2>6. FromLevels(h, a, kNumLevels)
    BY <2>3, <2>5
  <2> QED BY <2>4, <2>6
<1> HIDE DEF s, rest, h, G, at
<1>3. /\ 0 \in Levels /\ Levels \subseteq Int /\ FilesIn(v[0]) \in SUBSET File
      /\ IsFiniteSet(FilesIn(v[0]))
      /\ \A f, g \in FilesIn(v[0]) : f # g => f.number # g.number
  <2>1. 0 \in Levels /\ Levels \subseteq Int
    BY LevelAssumption DEF LevelAssumption, Levels
  <2>2. FilesIn(v[0]) \in SUBSET File /\ IsFiniteSet(FilesIn(v[0]))
    BY <2>1, FilesInIs DEF Settled, Orderly
  <2> QED BY <2>1, <2>2 DEF Settled, AllFiles
<1>4. hits \in SUBSET File /\ IsFiniteSet(hits) /\ hits \subseteq FilesIn(v[0])
      /\ \A f \in FilesIn(v[0]) : ik.key >= Smallest(f).key /\ ik.key <= Largest(f).key => f \in hits
  BY <1>3, FS_Subset
<1> HIDE DEF hits
<1>5. Numbers(news, R, hits)
  <2>1. news = [i \in 1..k |-> news[i]]
    <3> DEFINE c(i) == CHOOSE d \in hits : Cardinality({f \in hits : NewestFirst(f, d)}) = i - 1
    <3>1. news = [i \in 1..k |-> c(i)]
      BY DEF Sorted
    <3> HIDE DEF news, c
    <3> QED BY <3>1
  <2>2. \A e \in hits : {f \in hits : NewestFirst(f, e)} = Under(R, hits, e)
    BY DEF Under
  <2>3. ASSUME NEW i \in 1..k, NEW e \in hits, Cardinality(Under(R, hits, e)) = i - 1
        PROVE  news[i] \in hits /\ Cardinality(Under(R, hits, news[i])) = i - 1
    <3>1. news[i] = CHOOSE d \in hits : Cardinality({f \in hits : NewestFirst(f, d)}) = i - 1
      BY DEF Sorted
    <3>2. Cardinality({f \in hits : NewestFirst(f, e)}) = i - 1
      BY <2>2, <2>3
    <3> HIDE DEF news
    <3>3. news[i] \in hits /\ Cardinality({f \in hits : NewestFirst(f, news[i])}) = i - 1
      BY <3>1, <3>2
    <3> QED BY <2>2, <3>3
  <2> QED BY <2>1, <2>3 DEF Numbers
<1>6. StrictOrder(R, hits)
  <2>1. \A f \in hits : f.number \in Nat
    BY <1>4 DEF File
  <2>2. \A f, g \in hits : f # g => f.number # g.number
    BY <1>3, <1>4
  <2>3. \A f, g \in hits : <<f, g>> \in R <=> f.number > g.number
    BY DEF NewestFirst
  <2> HIDE DEF R
  <2> QED BY <2>1, <2>2, <2>3 DEF StrictOrder
<1>7. /\ news \in [1..k -> hits] /\ \A e \in hits : \E i \in 1..k : news[i] = e
      /\ \A i, j \in 1..k : i < j => news[i].number > news[j].number
  <2>1. \A f, g \in hits : <<f, g>> \in R => f.number > g.number
    BY DEF NewestFirst
  <2>2. /\ news \in [1..k -> hits] /\ \A e \in hits : \E i \in 1..k : news[i] = e
        /\ \A i, j \in 1..k : i < j => <<news[i], news[j]>> \in R
    <3> HIDE DEF news, R
    <3> QED BY <1>4, <1>5, <1>6, NumberedIs
  <2> HIDE DEF news, R
  <2> QED BY <2>1, <2>2
<1>8. k \in Nat
  BY <1>4, FS_CardinalityType
<1> HIDE DEF news, k, R
<1>9. /\ top \in Seq(Places) /\ Len(top) = k
      /\ \A i \in 1..k : top[i].level = 0 /\ top[i].file = news[i] /\ news[i] \in hits
  <2>1. DOMAIN news = 1..k
    BY <1>7
  <2>2. top \in [1..k -> Places]
    BY <1>3, <1>4, <1>7, <2>1 DEF Places
  <2>3. \A i \in 1..k : top[i].level = 0 /\ top[i].file = news[i] /\ news[i] \in hits
    BY <1>7, <2>1
  <2> HIDE DEF top
  <2> QED BY <1>8, <2>2, <2>3, SequenceIs
<1> HIDE DEF top
<1> DEFINE n == Len(rest)
<1>10. rest \in Seq(Places) /\ n \in Nat /\ DOMAIN rest = 1..n
       /\ \A i \in 1..n : rest[i] \in Places /\ rest[i].level \in Int /\ rest[i].level >= 1
  <2>1. rest \in Seq(Places)
    BY <1>2 DEF Row
  <2>2. n \in Nat /\ DOMAIN rest = 1..n /\ \A i \in 1..n : rest[i] \in Places
    BY <2>1, LenProperties, ElementOfSeq
  <2> HIDE DEF n
  <2> QED BY <1>2, <1>3, <2>1, <2>2 DEF Row, Places
<1>11. /\ s \in Seq(Places) /\ DOMAIN s = 1..(k + n)
       /\ \A i \in 1..(k + n) : s[i] = IF i <= k THEN top[i] ELSE rest[i - k]
  <2>1. /\ s \in Seq(Places) /\ Len(s) = Len(top) + n
        /\ \A i \in 1..(Len(top) + n) : s[i] = IF i <= Len(top) THEN top[i] ELSE rest[i - Len(top)]
    BY <1>1, <1>9, <1>10, ConcatProperties
  <2> QED BY <1>9, <2>1, LenProperties
<1> HIDE DEF n
<1>12. \A i \in 1..(k + n) : \/ i <= k /\ i \in 1..k /\ s[i] = top[i]
                             \/ i > k /\ i - k \in 1..n /\ s[i] = rest[i - k]
  BY <1>8, <1>10, <1>11
<1>13. Searched(s, v)
  <2>1. ASSUME NEW i \in DOMAIN s PROVE s[i].file \in FilesIn(v[s[i].level])
    <3>1. CASE i <= k /\ i \in 1..k /\ s[i] = top[i]
      BY <1>4, <1>9, <3>1
    <3>2. CASE i > k /\ i - k \in 1..n /\ s[i] = rest[i - k]
      BY <1>2, <1>10, <3>2 DEF Row
    <3> QED BY <1>11, <1>12, <3>1, <3>2
  <2>2. ASSUME NEW i \in DOMAIN s, NEW j \in DOMAIN s, i < j
        PROVE  \/ s[i].level < s[j].level
               \/ s[i].level = 0 /\ s[j].level = 0 /\ s[i].file.number > s[j].file.number
    <3>1. CASE i <= k /\ j <= k
      BY <1>7, <1>8, <1>9, <1>11, <1>12, <2>2, <3>1
    <3>2. CASE i <= k /\ j > k
      <4>1. s[i].level = 0 /\ s[j] = rest[j - k] /\ j - k \in 1..n
        BY <1>8, <1>9, <1>11, <1>12, <3>2
      <4>2. s[j].level >= 1 /\ s[j].level \in Int
        BY <1>10, <4>1
      <4> QED BY <4>1, <4>2
    <3>3. CASE i > k /\ j > k
      <4>1. s[i] = rest[i - k] /\ s[j] = rest[j - k] /\ i - k \in 1..n /\ j - k \in 1..n /\ i - k < j - k
        BY <1>8, <1>11, <1>12, <2>2, <3>3
      <4> QED BY <1>2, <1>10, <4>1 DEF Row
    <3> QED BY <1>8, <1>10, <1>11, <2>2, <3>1, <3>2, <3>3
  <2> QED BY <1>11, <2>1, <2>2 DEF Searched
<1>14. LeadsFrom(s, v, ik, 0)
  <2> SUFFICES ASSUME NEW m \in Levels, NEW f \in FilesIn(v[m]), NEW e \in Visible(f.entries, ik)
               PROVE  Leads(s, ik, m, e)
    BY DEF LeadsFrom
  <2>1. CASE m = 0
    <3>1. f \in File /\ e \in f.entries /\ e \in Entry /\ e.key = ik.key
      BY <1>3, <2>1 DEF Visible, File
    <3>2. f \in hits
      BY <1>4, <2>1, <3>1, BoundsOfFile
    <3>3. PICK i \in 1..k : news[i] = f
      BY <1>7, <3>2
    <3>4. i \in DOMAIN s /\ s[i].level = 0 /\ s[i].file = f
      BY <1>8, <1>9, <1>10, <1>11, <3>3
    <3>5. e.tag >= e.tag
      BY <3>1 DEF Entry
    <3> QED BY <2>1, <3>4, <3>5 DEF Leads
  <2>2. CASE m # 0
    <3>1. m >= 1
      BY <2>2, LevelAssumption DEF LevelAssumption, Levels
    <3>2. PICK i \in 1..n : /\ rest[i].level = m
                            /\ \E d \in Visible(rest[i].file.entries, ik) : d.tag >= e.tag
      BY <1>2, <1>10, <3>1 DEF LeadsFrom, Leads
    <3>3. i + k \in DOMAIN s /\ s[i + k] = rest[i]
      <4> DEFINE j == i + k
      <4>1. j \in 1..(k + n) /\ ~(j <= k) /\ j - k = i
        BY <1>8, <1>10
      <4> HIDE DEF j
      <4>2. s[j] = rest[j - k]
        BY <1>11, <4>1
      <4> QED BY <1>11, <4>1, <4>2 DEF j
    <3> QED BY <3>2, <3>3 DEF Leads
  <2> QED BY <2>1, <2>2
<1> QED BY <1>13, <1>14 DEF s

EntriesIn(v) == UNION {f.entries : f \in AllFiles(v)}

(* A lookup finds the newest entry of the version that its reader may see, *)
(* and charges a seek to a file that is not in the last level.             *)
LEMMA VersionGetIs ==
  ASSUME NEW v, Settled(v), NEW ik \in Entry
  PROVE  LET got == VersionGet(v, ik)
         IN  /\ FoundIn(EntriesIn(v), ik, got.entry)
             /\ \A x \in got.charged : /\ x.level \in 0..(kNumLevels - 2)
                                       /\ x.file \in FilesIn(v[x.level])
<1> DEFINE list == FilesToSearch(v, ik)
           n    == Len(list)
           see(i) == SeekEntry(list[i].file.entries, ik)
           hits == {i \in DOMAIN list : see(i) # {}}
           hit  == CHOOSE i \in hits : \A j \in hits : i <= j
           read == IF hits = {} THEN n ELSE hit
           got  == VersionGet(v, ik)
           E    == EntriesIn(v)
<1>1. /\ got.entry = IF hits = {} THEN {} ELSE see(hit)
      /\ got.charged = IF read > 1 THEN {list[1]} ELSE {}
  BY DEF VersionGet
<1> HIDE DEF got
<1>2. Searched(list, v) /\ LeadsFrom(list, v, ik, 0)
  BY FilesToSearchIs
<1> HIDE DEF list
<1>3. n \in Nat /\ DOMAIN list = 1..n /\ \A i \in 1..n : list[i] \in Places
  BY <1>2, LenProperties, ElementOfSeq DEF Searched
<1>4. Levels \subseteq Int /\ \A l \in Levels : l >= 0 /\ l <= kNumLevels - 1
  BY LevelAssumption DEF LevelAssumption, Levels
<1>5. ASSUME NEW i \in 1..n
      PROVE  /\ list[i].level \in Levels /\ list[i].file \in File
             /\ list[i].file \in FilesIn(v[list[i].level])
             /\ FoundIn(list[i].file.entries, ik, see(i))
             /\ list[i].file.entries \subseteq E
  <2>1. list[i].level \in Levels /\ list[i].file \in File /\ list[i].file \in FilesIn(v[list[i].level])
    BY <1>2, <1>3 DEF Searched, Places
  <2>2. list[i].file.entries \in SUBSET Entry /\ IsFiniteSet(list[i].file.entries)
    BY <2>1 DEF File
  <2>3. list[i].file.entries \subseteq E
    BY <2>1 DEF EntriesIn, AllFiles
  <2> QED BY <2>1, <2>2, <2>3, SeekEntryIs
<1> HIDE DEF see, n
<1>6. \A e \in Visible(E, ik) :
        \E i \in 1..n : \E d \in Visible(list[i].file.entries, ik) : d.tag >= e.tag
  <2> SUFFICES ASSUME NEW e \in Visible(E, ik)
               PROVE  \E i \in 1..n : \E d \in Visible(list[i].file.entries, ik) : d.tag >= e.tag
    OBVIOUS
  <2>0. PICK m \in Levels : \E f \in FilesIn(v[m]) : e \in f.entries
    BY DEF Visible, EntriesIn, AllFiles
  <2>1. PICK f \in FilesIn(v[m]) : e \in f.entries
    BY <2>0
  <2>2. e \in Visible(f.entries, ik) /\ m >= 0
    BY <1>4, <2>1 DEF Visible
  <2> QED BY <1>2, <1>3, <2>1, <2>2 DEF LeadsFrom, Leads
<1>7. \A i, j \in 1..n : i < j => Newer(list[i].file.entries, list[j].file.entries)
  <2> SUFFICES ASSUME NEW i \in 1..n, NEW j \in 1..n, i < j
               PROVE  Newer(list[i].file.entries, list[j].file.entries)
    OBVIOUS
  <2>1. \/ list[i].level < list[j].level
        \/ list[i].level = 0 /\ list[j].level = 0 /\ list[i].file.number > list[j].file.number
    BY <1>2, <1>3 DEF Searched
  <2>2. list[i].file.number \in Nat /\ list[j].file.number \in Nat
    BY <1>5 DEF File
  <2> QED BY <1>5, <2>1, <2>2 DEF Settled, Stacked
<1>8. FoundIn(E, ik, got.entry)
  <2>1. CASE hits = {}
    <3>1. \A i \in 1..n : Visible(list[i].file.entries, ik) = {}
      BY <1>3, <1>5, <2>1 DEF FoundIn
    <3>2. Visible(E, ik) = {}
      BY <1>6, <3>1
    <3> QED BY <1>1, <2>1, <3>2 DEF FoundIn
  <2>2. CASE hits # {}
    <3>1. hit \in hits /\ \A j \in hits : hit <= j
      <4>1. hits \subseteq 1..n
        BY <1>3
      <4>2. hits \in SUBSET Nat
        BY <1>3, <4>1
      <4> HIDE DEF hits
      <4>3. \E i \in hits : \A j \in hits : i <= j
        BY <2>2, <4>2, LeastNumber
      <4> QED BY <4>3
    <3>2. hit \in 1..n /\ see(hit) # {}
      BY <1>3, <3>1
    <3> HIDE DEF hit
    <3>3. PICK e \in Visible(list[hit].file.entries, ik) :
            see(hit) = {e} /\ \A d \in Visible(list[hit].file.entries, ik) : d.tag <= e.tag
      BY <1>5, <3>2 DEF FoundIn
    <3>4. e \in Visible(E, ik) /\ e \in Entry
      BY <1>5, <3>2 DEF Visible, File
    <3>5. ASSUME NEW d \in Visible(E, ik) PROVE d.tag <= e.tag
      <4>1. PICK i \in 1..n : \E x \in Visible(list[i].file.entries, ik) : x.tag >= d.tag
        BY <1>6
      <4>2. PICK x \in Visible(list[i].file.entries, ik) : x.tag >= d.tag
        BY <4>1
      <4>3. x \in Entry /\ d \in Entry /\ x.key = e.key
        <5>1. E \subseteq Entry
          <6>1. \A l \in Levels : FilesIn(v[l]) \in SUBSET File
            BY FilesInIs DEF Settled, Orderly
          <6>2. \A f \in AllFiles(v) : f.entries \subseteq Entry
            BY <6>1 DEF AllFiles, File
          <6> QED BY <6>2 DEF EntriesIn
        <5>2. list[i].file.entries \subseteq Entry
          BY <1>5 DEF File
        <5> HIDE DEF E
        <5> QED BY <5>1, <5>2 DEF Visible
      <4>4. i \in hits
        BY <1>3, <1>5, <4>2 DEF FoundIn
      <4>5. hit <= i
        BY <3>1, <4>4
      <4>6. CASE hit = i
        BY <3>3, <3>4, <4>2, <4>3, <4>6 DEF Entry
      <4>7. CASE hit # i
        <5>1. hit < i
          BY <1>3, <3>2, <4>5, <4>7
        <5>2. Newer(list[hit].file.entries, list[i].file.entries)
          BY <1>7, <3>2, <5>1
        <5>3. x.tag < e.tag
          BY <4>2, <4>3, <5>2 DEF Newer, Visible
        <5> QED BY <3>4, <4>2, <4>3, <5>3 DEF Entry
      <4> QED BY <4>6, <4>7
    <3>6. got.entry = {e}
      BY <1>1, <2>2, <3>3
    <3> QED BY <3>4, <3>5, <3>6 DEF FoundIn
  <2> QED BY <2>1, <2>2
<1>9. ASSUME NEW x \in got.charged
      PROVE  x.level \in 0..(kNumLevels - 2) /\ x.file \in FilesIn(v[x.level])
  <2>1. x = list[1] /\ read > 1
    BY <1>1, <1>9
  <2>2. read \in 0..n
    <3>1. CASE hits = {}
      BY <1>3, <3>1
    <3>2. CASE hits # {}
      <4>1. hits \subseteq 1..n /\ hits \in SUBSET Nat
        BY <1>3
      <4> HIDE DEF hits
      <4>2. \E i \in hits : \A j \in hits : i <= j
        BY <3>2, <4>1, LeastNumber
      <4>3. hit \in hits
        BY <4>2
      <4>4. read = hit
        BY <3>2
      <4>5. read \in 1..n
        BY <4>1, <4>3, <4>4
      <4> HIDE DEF read
      <4> QED BY <1>3, <4>5
    <3> QED BY <3>1, <3>2
  <2>3. 1 \in 1..n /\ 2 \in 1..n
    BY <1>3, <2>1, <2>2
  <2>4. \/ list[1].level < list[2].level
        \/ list[1].level = 0 /\ list[2].level = 0
    BY <1>2, <1>3, <2>3 DEF Searched
  <2>5. list[1].level \in Levels /\ list[2].level \in Levels /\ kNumLevels \in Nat /\ kNumLevels >= 3
    BY <1>5, <2>3, LevelAssumption DEF LevelAssumption
  <2>6. list[1].level \in 0..(kNumLevels - 2)
    BY <2>4, <2>5 DEF Levels
  <2> QED BY <1>5, <2>1, <2>3, <2>6
<1> QED BY <1>8, <1>9 DEF got
=============================================================================
