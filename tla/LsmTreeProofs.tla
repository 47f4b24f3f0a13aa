--------------------------- MODULE LsmTreeProofs ---------------------------
(***************************************************************************)
(* What holds of the tree at any size, where no caller asks for compactions*)
(* (ManualRequests = {}, as in the app): the places of the entries, the    *)
(* order of the files, and what the readers see.                           *)
(***************************************************************************)
EXTENDS LsmTree, VersionsProofs

(* The files an edit adds go to one level and fit in there, and between    *)
(* the levels above and below.                                             *)
FitsWith(v, edit, t, f) ==
  /\ f \in File
  /\ \A l \in Levels : \A g \in KeptIn(v, edit, l) :
       /\ g.number # f.number
       /\ l < t => Newer(g.entries, f.entries)
       /\ l > t => Newer(f.entries, g.entries)
       /\ l = t => IF t > 0 THEN Apart(g, f)
                   ELSE g.number < f.number /\ Newer(f.entries, g.entries)

Fits(v, edit, t) ==
  /\ IsFiniteSet(edit.added)
  /\ \A x \in edit.added : x.level = t /\ FitsWith(v, edit, t, x.file)
  /\ \A x, y \in edit.added : x.file # y.file =>
       t > 0 /\ x.file.number # y.file.number /\ Apart(x.file, y.file)

-----------------------------------------------------------------------------
(* Installing an edit *)

LEMMA LevelsAre ==
  /\ Levels \subseteq Nat /\ 0 \in Levels /\ 1 \in Levels
  /\ \A l \in 0..(kNumLevels - 2) : l \in Levels /\ l + 1 \in Levels /\ l + 1 > 0 /\ l < l + 1
BY LevelAssumption DEF LevelAssumption, Levels

LEMMA NewerIsStrict ==
  ASSUME NEW f \in File, NEW g \in File, Newer(f.entries, g.entries)
  PROVE  f # g /\ f.entries \cap g.entries = {}
<1>1. ASSUME NEW d \in f.entries, d \in g.entries PROVE FALSE
  <2>1. d.tag < d.tag /\ d.tag \in Nat
    BY <1>1 DEF Newer, File, Entry
  <2> QED BY <2>1
<1> QED BY <1>1 DEF File

LEMMA ApartIsStrict ==
  ASSUME NEW f \in File, NEW g \in File, Apart(f, g)
  PROVE  f # g /\ f.entries \cap g.entries = {}
<1>1. ASSUME NEW d \in f.entries, d \in g.entries PROVE FALSE
  <2>1. Before(d, d) /\ d \in Entry
    BY <1>1 DEF Apart, Whole, File
  <2> QED BY <2>1, BeforeIsOrder
<1> QED BY <1>1 DEF File

(* A file is in one level.                                                 *)
LEMMA OneLevel ==
  ASSUME NEW v, Settled(v), NEW l \in Levels, NEW m \in Levels, NEW f,
         f \in FilesIn(v[l]), f \in FilesIn(v[m])
  PROVE  l = m /\ f \in File
<1>1. f \in File
  BY FilesInIs DEF Settled, Orderly
<1>2. l < m => Newer(f.entries, f.entries)
  BY DEF Settled, Stacked
<1>3. m < l => Newer(f.entries, f.entries)
  BY DEF Settled, Stacked
<1>4. l \in Nat /\ m \in Nat
  BY LevelsAre
<1> QED BY <1>1, <1>2, <1>3, <1>4, NewerIsStrict

LEMMA FilesOfTree ==
  ASSUME NEW v, Settled(v)
  PROVE  /\ AllFiles(v) \in SUBSET File
         /\ \A f \in AllFiles(v) : f \in File /\ f.number \in Nat
         /\ \A l \in Levels : FilesIn(v[l]) \subseteq AllFiles(v)
<1>1. \A l \in Levels : FilesIn(v[l]) \in SUBSET File
  BY FilesInIs DEF Settled, Orderly
<1>2. AllFiles(v) \in SUBSET File
  BY <1>1 DEF AllFiles
<1>3. \A l \in Levels : FilesIn(v[l]) \subseteq AllFiles(v)
  BY DEF AllFiles
<1> QED BY <1>2, <1>3 DEF File

LEMMA InstalledIs ==
  ASSUME NEW v, Settled(v), NEW edit, NEW t \in Levels, Fits(v, edit, t)
  PROVE  /\ Settled(Apply(v, edit))
         /\ \A l \in Levels : FilesIn(Apply(v, edit)[l]) =
              KeptIn(v, edit, l) \cup (IF l = t THEN {x.file : x \in edit.added} ELSE {})
<1> DEFINE new     == Apply(v, edit)
           F       == {x.file : x \in edit.added}
           K(l)    == KeptIn(v, edit, l)
           T(l)    == K(l) \cup AddedTo(edit, l)
<1>1. /\ F \in SUBSET File /\ IsFiniteSet(F)
      /\ \A f \in F : FitsWith(v, edit, t, f)
      /\ \A f, g \in F : f # g => t > 0 /\ f.number # g.number /\ Apart(f, g)
      /\ \A l \in Levels : AddedTo(edit, l) = IF l = t THEN F ELSE {}
  <2> DEFINE A  == edit.added
             of == [x \in A |-> x.file]
  <2>1. \A x \in A : x.level = t /\ FitsWith(v, edit, t, x.file)
    BY DEF Fits
  <2>2. of \in Surjection(A, F)
    BY DEF Surjection
  <2>3. IsFiniteSet(A)
    BY DEF Fits
  <2>4. \A f, g \in F : f # g => t > 0 /\ f.number # g.number /\ Apart(f, g)
    BY DEF Fits
  <2>5. \A l \in Levels : AddedTo(edit, l) = IF l = t THEN F ELSE {}
    BY <2>1 DEF AddedTo
  <2>6. F \in SUBSET File /\ \A f \in F : FitsWith(v, edit, t, f)
    BY <2>1 DEF FitsWith
  <2> HIDE DEF A, of, F
  <2>7. IsFiniteSet(F)
    BY <2>2, <2>3, FS_Surjection
  <2> QED BY <2>4, <2>5, <2>6, <2>7
<1> HIDE DEF F
<1>2. \A l \in Levels : K(l) \subseteq FilesIn(v[l])
  BY DEF KeptIn
<1>3. \A l \in Levels : \A f, g \in T(l) : f # g => f.number # g.number
  <2> SUFFICES ASSUME NEW l \in Levels, NEW f \in T(l), NEW g \in T(l), f.number = g.number
               PROVE  f = g
    OBVIOUS
  <2>1. CASE f \in K(l) /\ g \in K(l)
    BY <1>2, <2>1 DEF Settled, AllFiles
  <2>2. CASE f \in F /\ g \in F
    BY <1>1, <2>2
  <2>3. CASE f \in K(l) /\ g \in F
    BY <1>1, <2>3 DEF FitsWith
  <2>4. CASE f \in F /\ g \in K(l)
    BY <1>1, <2>4 DEF FitsWith
  <2> QED BY <1>1, <2>1, <2>2, <2>3, <2>4
<1>4. ASSUME NEW l \in Levels
      PROVE  new[l] \in Seq(File) /\ SortedBySmallest(new[l]) /\ FilesIn(new[l]) = T(l)
  <2>1. v[l] \in Seq(File)
    BY DEF Settled, Orderly
  <2>2. AddedTo(edit, l) \in SUBSET File /\ IsFiniteSet(AddedTo(edit, l))
    BY <1>1, FS_EmptySet
  <2> HIDE DEF new
  <2>3. LET s == Apply(v, edit)[l]
        IN  /\ s \in Seq(File) /\ SortedBySmallest(s)
            /\ FilesIn(s) = KeptIn(v, edit, l) \cup AddedTo(edit, l)
    BY <1>3, <2>1, <2>2, ApplyIs
  <2> QED BY <2>3 DEF new
<1> HIDE DEF new
<1>5. \A l \in Levels : \A f \in T(l) : f \in K(l) \/ (f \in F /\ l = t)
  BY <1>1
<1> HIDE DEF K, T
<1>6. Orderly(new)
  <2> SUFFICES ASSUME NEW l \in Levels, l > 0, NEW f \in T(l), NEW g \in T(l), f # g
               PROVE  Apart(f, g)
    BY <1>4 DEF Orderly
  <2>1. CASE f \in K(l) /\ g \in K(l)
    BY <1>2, <2>1 DEF Settled, Orderly
  <2>2. CASE f \in F /\ g \in F
    BY <1>1, <2>2
  <2>3. CASE f \in K(l) /\ g \in F /\ l = t
    BY <1>1, <2>3 DEF FitsWith, K
  <2>4. CASE f \in F /\ g \in K(l) /\ l = t
    <3>1. Apart(g, f)
      BY <1>1, <2>4 DEF FitsWith, K
    <3> QED BY <3>1 DEF Apart
  <2> QED BY <1>5, <2>1, <2>2, <2>3, <2>4
<1>7. ASSUME NEW l \in Levels, NEW m \in Levels, l < m, NEW f \in T(l), NEW g \in T(m)
      PROVE  Newer(f.entries, g.entries)
  <2>1. CASE f \in K(l) /\ g \in K(m)
    BY <1>2, <1>7, <2>1 DEF Settled, Stacked
  <2>2. CASE f \in F /\ g \in F /\ l = m
    BY <1>7, <2>2, LevelsAre
  <2>3. CASE f \in K(l) /\ g \in F /\ m = t
    BY <1>1, <1>7, <2>3 DEF FitsWith, K
  <2>4. CASE f \in F /\ g \in K(m) /\ l = t
    BY <1>1, <1>7, <2>4 DEF FitsWith, K
  <2> QED BY <1>5, <2>1, <2>2, <2>3, <2>4
<1>8. ASSUME NEW f \in T(0), NEW g \in T(0), f.number < g.number
      PROVE  Newer(g.entries, f.entries)
  <2>0. 0 \in Levels /\ \A h \in File : h.number \in Nat
    BY LevelsAre DEF File
  <2>1. CASE f \in K(0) /\ g \in K(0)
    BY <1>2, <1>8, <2>0, <2>1 DEF Settled, Stacked
  <2>2. CASE f \in F /\ g \in F /\ t = 0
    BY <1>1, <1>8, <2>0, <2>2
  <2>3. CASE f \in K(0) /\ g \in F /\ t = 0
    BY <1>1, <2>0, <2>3 DEF FitsWith, K
  <2>4. CASE f \in F /\ g \in K(0) /\ t = 0
    <3>1. g.number < f.number
      BY <1>1, <2>0, <2>4 DEF FitsWith, K
    <3>2. f.number \in Nat /\ g.number \in Nat
      <4>1. f \in File /\ g \in File
        BY <1>1, <1>2, <2>0, <2>4, FilesInIs DEF Settled, Orderly
      <4> QED BY <2>0, <4>1
    <3> QED BY <1>8, <3>1, <3>2
  <2> QED BY <1>5, <2>0, <2>1, <2>2, <2>3, <2>4
<1>9. ASSUME NEW f \in AllFiles(new), NEW g \in AllFiles(new), f.number = g.number
      PROVE  f = g
  <2>1. PICK l \in Levels, m \in Levels : f \in T(l) /\ g \in T(m)
    BY <1>4 DEF AllFiles
  <2>2. CASE f \in K(l) /\ g \in K(m)
    BY <1>2, <1>9, <2>2 DEF Settled, AllFiles
  <2>3. CASE f \in F /\ g \in F
    BY <1>1, <1>9, <2>3
  <2>4. CASE f \in K(l) /\ g \in F
    BY <1>1, <1>9, <2>4 DEF FitsWith, K
  <2>5. CASE f \in F /\ g \in K(m)
    BY <1>1, <1>9, <2>5 DEF FitsWith, K
  <2> QED BY <1>5, <2>1, <2>2, <2>3, <2>4, <2>5
<1>10. Settled(new)
  BY <1>4, <1>6, <1>7, <1>8, <1>9, LevelsAre DEF Settled, Stacked
<1> QED BY <1>1, <1>4, <1>10 DEF new, F, K, T

-----------------------------------------------------------------------------
(* Flushing a memtable *)

Ends(f) == <<Smallest(f).key, Largest(f).key>>

LEMMA KeysOfFile ==
  ASSUME NEW f \in File
  PROVE  /\ Smallest(f).key \in UserKeys /\ Largest(f).key \in UserKeys /\ UserKeys \subseteq Int
         /\ Smallest(f).key <= Largest(f).key
         /\ \A e \in f.entries : /\ e \in Entry /\ e.key \in Int /\ e.tag \in Int
                                 /\ Smallest(f).key <= e.key /\ e.key <= Largest(f).key
BY BoundsOfFile DEF Entry, UserKeys

LEMMA OutsideIs ==
  ASSUME NEW f \in File, NEW g \in File, Outside(g, Ends(f))
  PROVE  /\ Strangers(f, g) /\ Strangers(g, f)
         /\ Apart(g, f) /\ Apart(f, g)
         /\ Newer(f.entries, g.entries) /\ Newer(g.entries, f.entries)
<1>1. Largest(g).key < Smallest(f).key \/ Largest(f).key < Smallest(g).key
  BY KeysOfFile DEF Outside, Ends
<1>2. \A d \in f.entries, e \in g.entries : d.key # e.key
  BY <1>1, KeysOfFile
<1>3. Whole(g, f) \/ Whole(f, g)
  BY <1>1, WholeIs
<1> QED BY <1>2, <1>3 DEF Strangers, Apart, Newer

FlushEdit(p, f) == [deleted |-> {}, added |-> {[level |-> p, file |-> f]}]

LEMMA FlushFits ==
  ASSUME NEW v, Settled(v), NEW f \in File,
         \A g \in AllFiles(v) : g.number < f.number /\ Newer(f.entries, g.entries),
         \A g \in AllFiles(v) : \A e \in g.entries : e.tag <= 2 * kMaxSequenceNumber + 1
  PROVE  LET p == PickLevelForMemTableOutput(v, Smallest(f).key, Largest(f).key)
             e == FlushEdit(p, f)
         IN  /\ p \in Levels /\ Fits(v, e, p)
             /\ {x.file : x \in e.added} = {f}
             /\ \A l \in Levels : KeptIn(v, e, l) = FilesIn(v[l])
             /\ p > 0 => \A l \in Levels : l <= p =>
                           \A g \in FilesIn(v[l]) : Outside(g, Ends(f))
<1> DEFINE p == PickLevelForMemTableOutput(v, Smallest(f).key, Largest(f).key)
           e == FlushEdit(p, f)
<1>1. \A l \in Levels : \A g \in FilesIn(v[l]) :
        /\ g \in File /\ g.number \in Nat
        /\ g.number < f.number /\ Newer(f.entries, g.entries)
        /\ \A d \in g.entries : d.tag <= 2 * kMaxSequenceNumber + 1
  <2> SUFFICES ASSUME NEW l \in Levels, NEW g \in FilesIn(v[l])
               PROVE  /\ g \in File /\ g.number \in Nat
                      /\ g.number < f.number /\ Newer(f.entries, g.entries)
                      /\ \A d \in g.entries : d.tag <= 2 * kMaxSequenceNumber + 1
    OBVIOUS
  <2>1. g \in File
    BY FilesInIs DEF Settled, Orderly
  <2>2. g \in AllFiles(v)
    BY DEF AllFiles
  <2> QED BY <2>1, <2>2 DEF File
<1>2. /\ p \in Levels
      /\ p > 0 => \A l \in Levels : l <= p => \A g \in FilesIn(v[l]) : Outside(g, Ends(f))
  <2>1. Orderly(v) /\ Smallest(f).key \in UserKeys /\ Largest(f).key \in UserKeys
    BY KeysOfFile DEF Settled
  <2> QED BY <1>1, <2>1, PickLevelIs DEF Ends
<1> HIDE DEF p
<1>3. /\ e.deleted = {} /\ e.added = {[level |-> p, file |-> f]}
      /\ \A x \in e.added : x.level = p /\ x.file = f
  BY DEF FlushEdit
<1> HIDE DEF e
<1>4. \A l \in Levels : KeptIn(v, e, l) = FilesIn(v[l])
  BY <1>3 DEF KeptIn
<1>5. FitsWith(v, e, p, f)
  <2> SUFFICES ASSUME NEW l \in Levels, NEW g \in FilesIn(v[l])
               PROVE  /\ g.number # f.number
                      /\ l < p => Newer(g.entries, f.entries)
                      /\ l > p => Newer(f.entries, g.entries)
                      /\ l = p => IF p > 0 THEN Apart(g, f)
                                  ELSE g.number < f.number /\ Newer(f.entries, g.entries)
    BY <1>4 DEF FitsWith
  <2>1. /\ g \in File /\ g.number < f.number /\ g.number \in Nat /\ f.number \in Nat
        /\ Newer(f.entries, g.entries)
    BY <1>1 DEF File
  <2>2. l \in Nat /\ p \in Nat
    BY <1>2, LevelsAre
  <2>3. l <= p /\ p > 0 => Newer(g.entries, f.entries) /\ Apart(g, f)
    BY <1>2, <2>1, OutsideIs
  <2> QED BY <2>1, <2>2, <2>3
<1>6. Fits(v, e, p)
  <2>1. IsFiniteSet(e.added)
    BY <1>3, FS_Singleton
  <2> QED BY <1>3, <1>5, <2>1 DEF Fits
<1>7. {x.file : x \in e.added} = {f}
  BY <1>3
<1> QED BY <1>2, <1>4, <1>6, <1>7 DEF e, p

-----------------------------------------------------------------------------
(* Compacting *)

InputsOf(c) == FilesIn(c.inputs0) \cup FilesIn(c.inputs1)

(* The files of a level that go when the compaction is installed.          *)
GoneFrom(c, l) == IF l = c.level THEN FilesIn(c.inputs0)
                  ELSE IF l = c.level + 1 THEN FilesIn(c.inputs1) ELSE {}

LEMMA SoundIs ==
  ASSUME NEW v, Settled(v), NEW c, Sound(v, c)
  PROVE  /\ c.level \in Levels /\ c.level + 1 \in Levels /\ c.level \in Nat
         /\ c.inputs0 \in Seq(File) /\ c.inputs1 \in Seq(File) /\ c.inputs0 # <<>>
         /\ FilesIn(c.inputs0) \subseteq FilesIn(v[c.level])
         /\ FilesIn(c.inputs1) \subseteq FilesIn(v[c.level + 1])
         /\ FilesIn(c.inputs0) # {}
         /\ \A l \in Levels : GoneFrom(c, l) \subseteq FilesIn(v[l])
         /\ InputsOf(c) \in SUBSET File
         /\ Compacted(c) = UNION {f.entries : f \in InputsOf(c)}
<1>1. c.level \in 0..(kNumLevels - 2) /\ SoundInputs(v, c.level, <<c.inputs0, c.inputs1>>)
  BY DEF Sound
<1>2. /\ c.inputs0 \in Seq(File) /\ c.inputs1 \in Seq(File) /\ c.inputs0 # <<>>
      /\ FilesIn(c.inputs0) \subseteq FilesIn(v[c.level])
      /\ FilesIn(c.inputs1) \subseteq FilesIn(v[c.level + 1])
  BY <1>1 DEF SoundInputs
<1>3. c.level \in Levels /\ c.level + 1 \in Levels /\ c.level \in Nat
  BY <1>1, LevelsAre
<1>4. FilesIn(c.inputs0) # {} /\ InputsOf(c) \in SUBSET File
  BY <1>2, FilesInIs DEF InputsOf
<1>5. Compacted(c) = UNION {f.entries : f \in InputsOf(c)}
  BY <1>2, FilesInTogether DEF InputsOf, Compacted
<1>6. \A l \in Levels : GoneFrom(c, l) \subseteq FilesIn(v[l])
  BY <1>2 DEF GoneFrom
<1> QED BY <1>2, <1>3, <1>4, <1>5, <1>6

LEMMA DeletionsAre ==
  ASSUME NEW v, Settled(v), NEW c, Sound(v, c), NEW edit, edit.deleted = InputDeletions(c),
         NEW l \in Levels
  PROVE  KeptIn(v, edit, l) = FilesIn(v[l]) \ GoneFrom(c, l)
<1>1. /\ \A d \in edit.deleted :
           \/ \E f \in FilesIn(c.inputs0) : d.level = c.level /\ d.number = f.number
           \/ \E f \in FilesIn(c.inputs1) : d.level = c.level + 1 /\ d.number = f.number
      /\ \A f \in FilesIn(c.inputs0) : \E d \in edit.deleted : d.level = c.level /\ d.number = f.number
      /\ \A f \in FilesIn(c.inputs1) :
           \E d \in edit.deleted : d.level = c.level + 1 /\ d.number = f.number
  <2> DEFINE D0 == {[level |-> c.level, number |-> f.number] : f \in FilesIn(c.inputs0)}
             D1 == {[level |-> c.level + 1, number |-> f.number] : f \in FilesIn(c.inputs1)}
  <2>1. edit.deleted = D0 \cup D1
    BY DEF InputDeletions
  <2>2. \A d \in D0 : \E f \in FilesIn(c.inputs0) : d.level = c.level /\ d.number = f.number
    OBVIOUS
  <2>3. \A d \in D1 : \E f \in FilesIn(c.inputs1) : d.level = c.level + 1 /\ d.number = f.number
    OBVIOUS
  <2>4. ASSUME NEW f \in FilesIn(c.inputs0)
        PROVE  \E d \in D0 : d.level = c.level /\ d.number = f.number
    <3> DEFINE d == [level |-> c.level, number |-> f.number]
    <3>1. d \in D0 /\ d.level = c.level /\ d.number = f.number
      OBVIOUS
    <3> QED BY <3>1
  <2>5. ASSUME NEW f \in FilesIn(c.inputs1)
        PROVE  \E d \in D1 : d.level = c.level + 1 /\ d.number = f.number
    <3> DEFINE d == [level |-> c.level + 1, number |-> f.number]
    <3>1. d \in D1 /\ d.level = c.level + 1 /\ d.number = f.number
      OBVIOUS
    <3> QED BY <3>1
  <2> HIDE DEF D0, D1
  <2> QED BY <2>1, <2>2, <2>3, <2>4, <2>5
<1>2. c.level # c.level + 1
  BY SoundIs
<1>3. ASSUME NEW g \in FilesIn(v[l])
      PROVE  (\E d \in edit.deleted : d.level = l /\ d.number = g.number) <=> g \in GoneFrom(c, l)
  <2>1. ASSUME NEW f \in GoneFrom(c, l), f.number = g.number PROVE f = g
    BY <1>3, <2>1, SoundIs DEF Settled, AllFiles
  <2>2. ASSUME NEW d \in edit.deleted, d.level = l, d.number = g.number PROVE g \in GoneFrom(c, l)
    <3>1. PICK f \in GoneFrom(c, l) : f.number = d.number
      BY <1>1, <1>2, <2>2 DEF GoneFrom
    <3> QED BY <2>1, <2>2, <3>1
  <2>3. ASSUME g \in GoneFrom(c, l) PROVE \E d \in edit.deleted : d.level = l /\ d.number = g.number
    BY <1>1, <2>3 DEF GoneFrom
  <2> QED BY <2>2, <2>3
<1> QED BY <1>3 DEF KeptIn

(* A file made of entries of the inputs fits where the outputs go.         *)
LEMMA RewriteFits ==
  ASSUME NEW v, Settled(v), NEW c, Sound(v, c), NEW edit, edit.deleted = InputDeletions(c),
         NEW f \in File, f.entries \subseteq Compacted(c),
         \A l \in Levels : \A g \in KeptIn(v, edit, l) : g.number # f.number
  PROVE  FitsWith(v, edit, c.level + 1, f)
<1> DEFINE L == c.level
           I == FilesIn(c.inputs0)
           J == FilesIn(c.inputs1)
<1>1. /\ L \in Levels /\ L + 1 \in Levels /\ L \in Nat
      /\ I \subseteq FilesIn(v[L]) /\ J \subseteq FilesIn(v[L + 1])
      /\ \A e \in f.entries : \E h \in I \cup J : e \in h.entries
  <2>1. Compacted(c) = UNION {h.entries : h \in I \cup J}
    BY SoundIs DEF InputsOf
  <2>2. /\ L \in Levels /\ L + 1 \in Levels /\ L \in Nat
        /\ I \subseteq FilesIn(v[L]) /\ J \subseteq FilesIn(v[L + 1])
    BY SoundIs
  <2> HIDE DEF I, J
  <2>3. \A e \in f.entries : \E h \in I \cup J : e \in h.entries
    BY <2>1
  <2> QED BY <2>2, <2>3
<1>2. /\ \A g \in FilesIn(v[L]) \ I, h \in I : Newer(g.entries, h.entries)
      /\ \A g \in FilesIn(v[L + 1]) \ J :
           (\A h \in I \cup J : Whole(g, h)) \/ (\A h \in I \cup J : Whole(h, g))
  BY DEF Sound, SoundInputs
<1>3. \A l \in Levels : KeptIn(v, edit, l) = FilesIn(v[l]) \ GoneFrom(c, l)
  BY DeletionsAre
<1> HIDE DEF I, J
<1> SUFFICES ASSUME NEW l \in Levels, NEW g \in FilesIn(v[l]) \ GoneFrom(c, l)
             PROVE  /\ l < L + 1 => Newer(g.entries, f.entries)
                    /\ l > L + 1 => Newer(f.entries, g.entries)
                    /\ l = L + 1 => Apart(g, f)
  BY <1>1, <1>3 DEF FitsWith
<1>4. l \in Nat
  BY LevelsAre
<1>5. CASE l < L + 1
  <2>1. \A h \in J : Newer(g.entries, h.entries)
    BY <1>1, <1>4, <1>5 DEF Settled, Stacked
  <2>2. \A h \in I : Newer(g.entries, h.entries)
    <3>1. CASE l = L
      BY <1>2, <3>1 DEF GoneFrom, I
    <3>2. CASE l < L
      BY <1>1, <3>2 DEF Settled, Stacked
    <3> QED BY <1>1, <1>4, <1>5, <3>1, <3>2
  <2>3. Newer(g.entries, f.entries)
    BY <1>1, <2>1, <2>2 DEF Newer
  <2> QED BY <1>1, <1>4, <1>5, <2>3
<1>6. CASE l > L + 1
  <2>1. \A h \in I \cup J : Newer(h.entries, g.entries)
    BY <1>1, <1>4, <1>6 DEF Settled, Stacked
  <2>2. Newer(f.entries, g.entries)
    BY <1>1, <2>1 DEF Newer
  <2> QED BY <1>1, <1>4, <1>6, <2>2
<1>7. CASE l = L + 1
  <2>1. (\A h \in I \cup J : Whole(g, h)) \/ (\A h \in I \cup J : Whole(h, g))
    BY <1>1, <1>2, <1>7 DEF GoneFrom, J
  <2>2. Whole(g, f) \/ Whole(f, g)
    BY <1>1, <2>1 DEF Whole
  <2> QED BY <1>1, <1>7, <2>2 DEF Apart
<1> QED BY <1>1, <1>4, <1>5, <1>6, <1>7

MoveEdit(c) ==
  [deleted |-> {[level |-> c.level, number |-> c.inputs0[1].number]},
   added   |-> {[level |-> c.level + 1, file |-> c.inputs0[1]]}]

(* A file that nothing below overlaps moves down a level.                  *)
LEMMA MoveFits ==
  ASSUME NEW v, Settled(v), NEW c, Sound(v, c), IsTrivialMove(c)
  PROVE  LET e == MoveEdit(c)
         IN  /\ Fits(v, e, c.level + 1) /\ e.deleted = InputDeletions(c)
             /\ {x.file : x \in e.added} = InputsOf(c)
<1> DEFINE e == MoveEdit(c)
           f == c.inputs0[1]
<1>1. /\ FilesIn(c.inputs0) = {f} /\ FilesIn(c.inputs1) = {} /\ f \in File
  <2>1. /\ c.inputs0 \in Seq(File) /\ c.inputs1 \in Seq(File)
        /\ Len(c.inputs0) = 1 /\ Len(c.inputs1) = 0
    BY SoundIs DEF IsTrivialMove
  <2>2. DOMAIN c.inputs0 = 1..1 /\ f \in File
    BY <2>1, LenProperties, ElementOfSeq
  <2>3. FilesIn(c.inputs0) = {f}
    BY <2>2 DEF FilesIn
  <2> QED BY <2>1, <2>2, <2>3, FilesInIs
<1>2. /\ e.deleted = InputDeletions(c)
      /\ e.added = {[level |-> c.level + 1, file |-> f]}
      /\ \A x \in e.added : x.level = c.level + 1 /\ x.file = f
  BY <1>1 DEF MoveEdit, InputDeletions
<1> HIDE DEF e
<1>3. ASSUME NEW l \in Levels, NEW g \in KeptIn(v, e, l) PROVE g.number # f.number
  <2>1. g \in FilesIn(v[l]) /\ g \notin GoneFrom(c, l)
    BY <1>2, DeletionsAre
  <2>2. f \in FilesIn(v[c.level]) /\ c.level \in Levels
    BY <1>1, SoundIs
  <2>3. g.number = f.number => g = f
    BY <2>1, <2>2 DEF Settled, AllFiles
  <2>4. g = f => l = c.level
    BY <2>1, <2>2, OneLevel
  <2> QED BY <1>1, <2>1, <2>3, <2>4 DEF GoneFrom
<1>4. f.entries \subseteq Compacted(c)
  <2>1. Compacted(c) = UNION {h.entries : h \in InputsOf(c)} /\ f \in InputsOf(c)
    BY <1>1, SoundIs DEF InputsOf
  <2> QED BY <2>1
<1>5. FitsWith(v, e, c.level + 1, f)
  BY <1>1, <1>2, <1>3, <1>4, RewriteFits
<1>6. IsFiniteSet(e.added)
  BY <1>2, FS_Singleton
<1>7. Fits(v, e, c.level + 1)
  BY <1>2, <1>5, <1>6 DEF Fits
<1>8. {x.file : x \in e.added} = InputsOf(c)
  BY <1>1, <1>2 DEF InputsOf
<1> QED BY <1>2, <1>7, <1>8 DEF e

OutputFiles(n, outs) == {FileOf(n + i - 1, outs[i]) : i \in DOMAIN outs}
OutputsEdit(c, n, outs) ==
  [deleted |-> InputDeletions(c),
   added   |-> {[level |-> c.level + 1, file |-> FileOf(n + i - 1, outs[i])] : i \in DOMAIN outs}]

(* The outputs take the place of the inputs.                               *)
LEMMA OutputsFit ==
  ASSUME NEW v, Settled(v), NEW c, Sound(v, c), NEW n \in Nat,
         \A f \in AllFiles(v) : f.number < n,
         NEW outs \in Seq(SUBSET Compacted(c)), InRow(outs),
         Compacted(c) \in SUBSET Entry, IsFiniteSet(Compacted(c))
  PROVE  LET e == OutputsEdit(c, n, outs)
         IN  /\ Fits(v, e, c.level + 1)
             /\ {x.file : x \in e.added} = OutputFiles(n, outs)
             /\ \A f \in OutputFiles(n, outs) : /\ f \in File /\ f.entries \subseteq Compacted(c)
                                                /\ f.number \in n..(n + Len(outs) - 1)
<1> DEFINE e      == OutputsEdit(c, n, outs)
           S      == Compacted(c)
           out(i) == FileOf(n + i - 1, outs[i])
           A      == {[level |-> c.level + 1, file |-> out(i)] : i \in DOMAIN outs}
<1>1. e.deleted = InputDeletions(c) /\ e.added = A
  BY DEF OutputsEdit
<1>2. Len(outs) \in Nat /\ DOMAIN outs = 1..Len(outs)
  BY LenProperties
<1>3. \A i \in DOMAIN outs : /\ out(i) \in File /\ out(i).entries = outs[i]
                             /\ out(i).number = n + i - 1 /\ outs[i] \subseteq S
  <2> TAKE i \in DOMAIN outs
  <2>1. outs[i] \in SUBSET S /\ outs[i] # {} /\ i \in Nat /\ i >= 1
    BY <1>2, ElementOfSeq DEF InRow
  <2>2. IsFiniteSet(outs[i])
    BY <2>1, FS_Subset
  <2>3. n + i - 1 \in Nat
    BY <2>1
  <2> QED BY <2>1, <2>2, <2>3 DEF FileOf, File
<1> HIDE DEF e, S, out
<1>4. \A x \in A : \E i \in DOMAIN outs : x.level = c.level + 1 /\ x.file = out(i)
  OBVIOUS
<1>5. IsFiniteSet(A)
  <2> DEFINE D   == DOMAIN outs
             mk  == [i \in D |-> [level |-> c.level + 1, file |-> out(i)]]
  <2>1. mk \in Surjection(D, A)
    BY DEF Surjection
  <2>2. IsFiniteSet(D)
    BY <1>2, FS_Interval
  <2> HIDE DEF D, mk, A
  <2> QED BY <2>1, <2>2, FS_Surjection
<1>6. {x.file : x \in A} = OutputFiles(n, outs)
  <2>1. \A i \in DOMAIN outs : [level |-> c.level + 1, file |-> out(i)] \in A
                               /\ [level |-> c.level + 1, file |-> out(i)].file = out(i)
    OBVIOUS
  <2>2. OutputFiles(n, outs) = {out(i) : i \in DOMAIN outs}
    BY DEF OutputFiles, out
  <2> HIDE DEF A
  <2> QED BY <1>4, <2>1, <2>2
<1> HIDE DEF A
<1>7. ASSUME NEW i \in DOMAIN outs PROVE FitsWith(v, e, c.level + 1, out(i))
  <2>1. out(i) \in File /\ out(i).entries \subseteq Compacted(c) /\ out(i).number >= n
        /\ out(i).number \in Nat
    BY <1>2, <1>3 DEF S, File
  <2>2. \A l \in Levels : \A g \in KeptIn(v, e, l) : g.number # out(i).number
    <3> SUFFICES ASSUME NEW l \in Levels, NEW g \in KeptIn(v, e, l)
                 PROVE  g.number # out(i).number
      OBVIOUS
    <3>1. g \in FilesIn(v[l]) /\ g \in File
      BY FilesInIs DEF KeptIn, Settled, Orderly
    <3>2. g.number < n /\ g.number \in Nat
      BY <3>1 DEF AllFiles, File
    <3> QED BY <2>1, <3>2
  <2> QED BY <1>1, <2>1, <2>2, RewriteFits
<1>8. ASSUME NEW x \in A, NEW y \in A, x.file # y.file
      PROVE  c.level + 1 > 0 /\ x.file.number # y.file.number /\ Apart(x.file, y.file)
  <2>1. PICK i \in DOMAIN outs, j \in DOMAIN outs : x.file = out(i) /\ y.file = out(j)
    BY <1>4
  <2>2. i < j \/ j < i
    BY <1>2, <1>8, <2>1
  <2>3. i < j => Whole(out(i), out(j))
    BY <1>3, <2>1 DEF InRow, AllBefore, Whole
  <2>4. j < i => Whole(out(j), out(i))
    BY <1>3, <2>1 DEF InRow, AllBefore, Whole
  <2>5. out(i).number # out(j).number
    BY <1>2, <1>3, <2>2
  <2>6. c.level + 1 > 0
    BY SoundIs
  <2> QED BY <2>1, <2>2, <2>3, <2>4, <2>5, <2>6 DEF Apart
<1>9. Fits(v, e, c.level + 1)
  BY <1>1, <1>4, <1>5, <1>7, <1>8 DEF Fits
<1>10. \A f \in OutputFiles(n, outs) : /\ f \in File /\ f.entries \subseteq S
                                       /\ f.number \in n..(n + Len(outs) - 1)
  <2>1. OutputFiles(n, outs) = {out(i) : i \in DOMAIN outs}
    BY DEF OutputFiles, out
  <2>2. \A i \in DOMAIN outs : n + i - 1 \in n..(n + Len(outs) - 1)
    BY <1>2
  <2> QED BY <1>3, <2>1, <2>2
<1> QED BY <1>1, <1>6, <1>9, <1>10 DEF e, S

LEMMA SoundMeans ==
  ASSUME NEW v, NEW c
  PROVE  Sound(v, c) <=>
           LET I == FilesIn(c.inputs0)
               J == FilesIn(c.inputs1)
           IN  /\ c.level \in 0..(kNumLevels - 2) /\ c.grandparents \in Seq(File)
               /\ c.inputs0 \in Seq(File) /\ c.inputs0 # <<>> /\ c.inputs1 \in Seq(File)
               /\ I \subseteq FilesIn(v[c.level]) /\ J \subseteq FilesIn(v[c.level + 1])
               /\ \A g \in FilesIn(v[c.level]) \ I, f \in I : Newer(g.entries, f.entries)
               /\ Hulled(I \cup J)
               /\ \A g \in FilesIn(v[c.level + 1]) \ J :
                    (\A f \in I \cup J : Whole(g, f)) \/ (\A f \in I \cup J : Whole(f, g))
               /\ \A g \in FilesIn(v[c.level + 1]) \ J, f \in I : Strangers(f, g)
<1> DEFINE p == <<c.inputs0, c.inputs1>>
<1>1. p[1] = c.inputs0 /\ p[2] = c.inputs1
  OBVIOUS
<1>2. Sound(v, c) <=> /\ c.level \in 0..(kNumLevels - 2) /\ c.grandparents \in Seq(File)
                      /\ SoundInputs(v, c.level, p)
  BY DEF Sound
<1> HIDE DEF p
<1> QED BY <1>1, <1>2 DEF SoundInputs

(* A memtable flushed meanwhile leaves the inputs of a compaction sound.   *)
LEMMA SoundStays ==
  ASSUME NEW v, Settled(v), NEW c, Sound(v, c), NEW f \in File, NEW t \in Levels,
         \A g \in AllFiles(v) : Newer(f.entries, g.entries),
         t > 0 => \A l \in Levels : l <= t => \A g \in FilesIn(v[l]) : Outside(g, Ends(f)),
         NEW w, \A l \in Levels : FilesIn(w[l]) = FilesIn(v[l]) \cup (IF l = t THEN {f} ELSE {})
  PROVE  Sound(w, c)
<1> DEFINE L == c.level
           I == FilesIn(c.inputs0)
           J == FilesIn(c.inputs1)
<1>1. /\ L \in Levels /\ L + 1 \in Levels /\ L \in Nat /\ I # {}
      /\ I \subseteq FilesIn(v[L]) /\ J \subseteq FilesIn(v[L + 1])
      /\ I \cup J \subseteq File
  BY SoundIs DEF InputsOf
<1>2. /\ c.level \in 0..(kNumLevels - 2) /\ c.grandparents \in Seq(File)
      /\ c.inputs0 \in Seq(File) /\ c.inputs0 # <<>> /\ c.inputs1 \in Seq(File)
      /\ \A g \in FilesIn(v[L]) \ I, h \in I : Newer(g.entries, h.entries)
      /\ Hulled(I \cup J)
      /\ \A g \in FilesIn(v[L + 1]) \ J :
           (\A h \in I \cup J : Whole(g, h)) \/ (\A h \in I \cup J : Whole(h, g))
      /\ \A g \in FilesIn(v[L + 1]) \ J, h \in I : Strangers(h, g)
  BY SoundMeans
<1> HIDE DEF I, J
<1>3. \A h \in I : Newer(f.entries, h.entries)
  BY <1>1 DEF AllFiles
<1>4. ASSUME t = L + 1
      PROVE  /\ (\A h \in I \cup J : Whole(f, h)) \/ (\A h \in I \cup J : Whole(h, f))
             /\ \A h \in I : Strangers(h, f)
  <2>1. \A h \in I \cup J : h \in File /\ Outside(h, Ends(f))
    BY <1>1, <1>4
  <2>2. \A h \in I : Strangers(h, f)
    BY <2>1, OutsideIs
  <2>3. ASSUME NEW h1 \in I \cup J, NEW h2 \in I \cup J, ~Whole(f, h1), ~Whole(h2, f)
        PROVE  FALSE
    <3> DEFINE k == Smallest(f).key
    <3>1. /\ k \in UserKeys /\ k \in Int /\ Largest(f).key \in Int /\ k <= Largest(f).key
          /\ \A h \in File : /\ Smallest(h).key \in Int /\ Largest(h).key \in Int
                             /\ Smallest(h).key <= Largest(h).key
      BY KeysOfFile
    <3>2. Smallest(h2).key > Largest(f).key /\ Largest(h1).key < k
      <4>1. ~(Largest(f).key < Smallest(h1).key) /\ ~(Largest(h2).key < k)
        BY <2>1, <2>3, WholeIs
      <4> QED BY <2>1, <3>1, <4>1 DEF Outside, Ends
    <3>3. h1 \in File /\ h2 \in File
      BY <2>1
    <3>4. k + 0 \in UserKeys /\ Smallest(h1).key <= k /\ k <= Largest(h2).key
      BY <3>1, <3>2, <3>3
    <3>5. PICK h \in I \cup J : InRange(k, h)
      BY <1>2, <3>1, <3>4 DEF Hulled
    <3>6. Outside(h, Ends(f)) /\ h \in File
      BY <2>1
    <3> QED BY <3>1, <3>5, <3>6 DEF Outside, Ends, InRange
  <2> QED BY <2>2, <2>3
<1>5. \A g \in FilesIn(w[L]) \ I, h \in I : Newer(g.entries, h.entries)
  BY <1>1, <1>2, <1>3
<1>6. /\ \A g \in FilesIn(w[L + 1]) \ J :
           (\A h \in I \cup J : Whole(g, h)) \/ (\A h \in I \cup J : Whole(h, g))
      /\ \A g \in FilesIn(w[L + 1]) \ J, h \in I : Strangers(h, g)
  BY <1>1, <1>2, <1>4
<1>7. I \subseteq FilesIn(w[L]) /\ J \subseteq FilesIn(w[L + 1])
  BY <1>1
<1> QED BY <1>2, <1>5, <1>6, <1>7, SoundMeans DEF I, J

-----------------------------------------------------------------------------
(* The inductive invariant *)

EntriesUpTo(s) == [key : UserKeys, tag : 0..(2 * s + 1)]

MemtablesAre ==
  /\ last_sequence \in 0..MaxWrites
  /\ mem \in SUBSET EntriesUpTo(last_sequence) /\ IsFiniteSet(mem)
  /\ imm \in SUBSET EntriesUpTo(last_sequence) /\ IsFiniteSet(imm)
  /\ Newer(mem, imm)

FilesAre ==
  /\ next_file_number \in Nat \ {0}
  /\ Settled(current)
  /\ \A f \in AllFiles(current) :
       /\ f.number < next_file_number
       /\ f.entries \subseteq EntriesUpTo(last_sequence)
       /\ Newer(mem, f.entries) /\ Newer(imm, f.entries)

WorkIs ==
  /\ manual = {}
  /\ \A x \in file_to_compact : /\ x.level \in 0..(kNumLevels - 2)
                                /\ x.file \in FilesIn(current[x.level])
  /\ \A w \in compaction : Sound(current, w.c) /\ w.by = {}

TreeInv == MemtablesAre /\ FilesAre /\ WorkIs

LEMMA EntriesUpToGrow ==
  ASSUME NEW s \in Nat
  PROVE  /\ EntriesUpTo(s) \subseteq Entry /\ EntriesUpTo(s) \subseteq EntriesUpTo(s + 1)
         /\ s <= MaxWrites => \A e \in EntriesUpTo(s) : e.tag <= 2 * kMaxSequenceNumber + 1
<1>1. EntriesUpTo(s) \subseteq Entry /\ EntriesUpTo(s) \subseteq EntriesUpTo(s + 1)
  BY DEF EntriesUpTo, Entry
<1>2. MaxWrites \in Nat /\ MaxWrites <= kMaxSequenceNumber /\ kMaxSequenceNumber \in Nat
  BY WritesAssumption, SequenceAssumption DEF WritesAssumption, SequenceAssumption
<1> QED BY <1>1, <1>2 DEF EntriesUpTo

LEMMA InitTree == Init => TreeInv
<1> SUFFICES ASSUME Init PROVE TreeInv
  OBVIOUS
<1>1. \A l \in Levels : current[l] = <<>>
  BY DEF Init, NewVersion
<1>2. \A l \in Levels : FilesIn(current[l]) = {} /\ current[l] \in Seq(File)
  <2>1. <<>> \in Seq(File)
    BY EmptySeq
  <2> QED BY <1>1, <2>1, FilesInIs
<1>3. AllFiles(current) = {}
  BY <1>2 DEF AllFiles
<1>4. Settled(current)
  <2>1. Orderly(current)
    BY <1>1, <1>2 DEF Orderly, SortedBySmallest
  <2> QED BY <1>2, <1>3, <2>1, LevelsAre DEF Settled, Stacked
<1>5. MemtablesAre
  BY FS_EmptySet, WritesAssumption DEF WritesAssumption, MemtablesAre, Init, Newer
<1>6. FilesAre /\ WorkIs
  BY <1>3, <1>4 DEF FilesAre, WorkIs, Init
<1> QED BY <1>5, <1>6 DEF TreeInv

LEMMA WriteTree ==
  ASSUME TreeInv, NEW k \in UserKeys, NEW type \in WriteTypes, Write(k, type)
  PROVE  TreeInv'
<1> DEFINE s == last_sequence
           e == InternalKey(k, s + 1, type)
<1>1. /\ s \in Nat /\ s < MaxWrites /\ s + 1 \in 0..MaxWrites /\ last_sequence' = s + 1
      /\ mem' = mem \cup {e}
      /\ UNCHANGED <<imm, current, file_to_compact, next_file_number, compaction, manual>>
  BY WritesAssumption DEF WritesAssumption, TreeInv, MemtablesAre, Write
<1>2. e \in EntriesUpTo(s + 1) /\ \A d \in EntriesUpTo(s) : d.tag < e.tag
  <2>1. type \in {0, 1}
    BY WritesAssumption DEF WritesAssumption, kTypeDeletion, kTypeValue
  <2>2. e = [key |-> k, tag |-> 2 * (s + 1) + type]
    BY DEF InternalKey, PackSequenceAndType
  <2> HIDE DEF e
  <2> QED BY <1>1, <2>1, <2>2 DEF EntriesUpTo
<1> HIDE DEF e
<1>3. EntriesUpTo(s) \subseteq EntriesUpTo(s + 1)
  BY <1>1, EntriesUpToGrow
<1>4. \A S \in SUBSET EntriesUpTo(s) : Newer(mem, S) => Newer(mem \cup {e}, S)
  BY <1>2 DEF Newer
<1>5. MemtablesAre'
  <2>1. IsFiniteSet(mem \cup {e})
    BY FS_AddElement DEF TreeInv, MemtablesAre
  <2> QED BY <1>1, <1>2, <1>3, <1>4, <2>1 DEF TreeInv, MemtablesAre
<1>6. FilesAre'
  BY <1>1, <1>3, <1>4 DEF TreeInv, FilesAre
<1>7. WorkIs'
  BY <1>1 DEF TreeInv, WorkIs
<1> QED BY <1>5, <1>6, <1>7 DEF TreeInv

LEMMA SwitchTree == TreeInv /\ SwitchMemTable => TreeInv'
<1> SUFFICES ASSUME TreeInv, SwitchMemTable PROVE TreeInv'
  OBVIOUS
<1>1. /\ imm' = mem /\ mem' = {}
      /\ UNCHANGED <<last_sequence, current, file_to_compact, next_file_number, compaction, manual>>
  BY DEF SwitchMemTable
<1>2. MemtablesAre'
  BY <1>1, FS_EmptySet DEF TreeInv, MemtablesAre, Newer
<1>3. FilesAre'
  BY <1>1 DEF TreeInv, FilesAre, Newer
<1>4. WorkIs'
  BY <1>1 DEF TreeInv, WorkIs
<1> QED BY <1>2, <1>3, <1>4 DEF TreeInv

(* A Get that reads without the mutex will charge a file of the version it *)
(* took, whichever version is current by then.                             *)
ReadersAre ==
  \A g \in getting : /\ g.charged.level \in 0..(kNumLevels - 2)
                     /\ g.charged.file \in FilesIn(g.version[g.charged.level])

LEMMA GetFromFilesTree ==
  ASSUME TreeInv, ReadersAre, NEW k \in UserKeys, GetFromFiles(k)
  PROVE  ReadersAre'
<1> DEFINE ik == LookupKey(k, last_sequence)
<1>1. PICK x \in VersionGet(current, ik).charged :
        getting' = getting \cup {[charged |-> x, version |-> current]}
  BY DEF GetFromFiles
<1>2. ik \in Entry
  BY WritesAssumption DEF WritesAssumption, LookupKey, InternalKey, PackSequenceAndType,
     kValueTypeForSeek, kTypeValue, Entry, TreeInv, MemtablesAre
<1> HIDE DEF ik
<1>3. x.level \in 0..(kNumLevels - 2) /\ x.file \in FilesIn(current[x.level])
  BY <1>1, <1>2, VersionGetIs DEF TreeInv, FilesAre
<1>4. ASSUME NEW g \in getting'
      PROVE  /\ g.charged.level \in 0..(kNumLevels - 2)
             /\ g.charged.file \in FilesIn(g.version[g.charged.level])
  <2>1. CASE g \in getting
    BY <2>1 DEF ReadersAre
  <2>2. CASE g = [charged |-> x, version |-> current]
    BY <1>3, <2>2
  <2> QED BY <1>1, <1>4, <2>1, <2>2
<1> QED BY <1>4 DEF ReadersAre

LEMMA UpdateStatsTree ==
  ASSUME TreeInv, ReadersAre, NEW g \in getting, UpdateStats(g)
  PROVE  TreeInv'
<1> DEFINE x == g.charged
<1>1. /\ file_to_compact' = file_to_compact \/ (file_to_compact' = {x} /\ g.version = current)
      /\ UNCHANGED <<mem, imm, last_sequence, current, next_file_number, compaction, manual>>
  BY DEF UpdateStats
<1>2. x.level \in 0..(kNumLevels - 2) /\ x.file \in FilesIn(g.version[x.level])
  BY DEF ReadersAre
<1> HIDE DEF x
<1>3. WorkIs'
  BY <1>1, <1>2 DEF TreeInv, WorkIs
<1>4. MemtablesAre' /\ FilesAre'
  BY <1>1 DEF TreeInv, MemtablesAre, FilesAre
<1> QED BY <1>3, <1>4 DEF TreeInv

(* A flush adds the file of the memtable to a level, as deep as no level   *)
(* up to there has the range of its keys.                                  *)
Flushed(v, new, p, f) ==
  /\ p \in Levels /\ f \in File
  /\ \A l \in Levels : FilesIn(new[l]) = FilesIn(v[l]) \cup (IF l = p THEN {f} ELSE {})
  /\ p > 0 => \A l \in Levels : l <= p => \A g \in FilesIn(v[l]) : Outside(g, Ends(f))

LEMMA FlushIs ==
  ASSUME TreeInv, CompactMemTable
  PROVE  \E p, f :
           /\ Settled(current') /\ Flushed(current, current', p, f)
           /\ f.entries = imm /\ f.number = next_file_number
<1> DEFINE n == next_file_number
           f == FileOf(n, imm)
           p == PickLevelForMemTableOutput(current, Smallest(f).key, Largest(f).key)
           e == FlushEdit(p, f)
<1>1. /\ current' = Apply(current, e) /\ file_to_compact' = {}
      /\ next_file_number' = n + 1 /\ imm' = {} /\ imm # {}
      /\ UNCHANGED <<mem, last_sequence, compaction, manual>>
  BY DEF CompactMemTable, Install, FlushEdit
<1>2. last_sequence \in Nat /\ last_sequence <= MaxWrites
  BY WritesAssumption DEF WritesAssumption, TreeInv, MemtablesAre
<1>3. f \in File /\ f.number = n /\ f.entries = imm /\ n \in Nat
  <2>1. imm \in SUBSET Entry /\ IsFiniteSet(imm) /\ n \in Nat
    BY <1>2, EntriesUpToGrow DEF TreeInv, MemtablesAre, FilesAre
  <2> QED BY <1>1, <2>1 DEF FileOf, File
<1>4. Settled(current) /\ \A g \in AllFiles(current) : g.number < n /\ Newer(imm, g.entries)
  BY DEF TreeInv, FilesAre
<1>5. \A g \in AllFiles(current) : \A d \in g.entries : d.tag <= 2 * kMaxSequenceNumber + 1
  BY <1>2, EntriesUpToGrow DEF TreeInv, FilesAre
<1> HIDE DEF f
<1>6. /\ p \in Levels /\ Fits(current, e, p) /\ {x.file : x \in e.added} = {f}
      /\ \A l \in Levels : KeptIn(current, e, l) = FilesIn(current[l])
      /\ p > 0 => \A l \in Levels : l <= p => \A g \in FilesIn(current[l]) : Outside(g, Ends(f))
  BY <1>3, <1>4, <1>5, FlushFits
<1> HIDE DEF p, e
<1>7. /\ Settled(current')
      /\ \A l \in Levels : FilesIn(current'[l]) =
           FilesIn(current[l]) \cup (IF l = p THEN {f} ELSE {})
  BY <1>1, <1>4, <1>6, InstalledIs
<1> QED BY <1>1, <1>3, <1>6, <1>7 DEF Flushed

LEMMA FlushTree == TreeInv /\ CompactMemTable => TreeInv'
<1> SUFFICES ASSUME TreeInv, CompactMemTable PROVE TreeInv'
  OBVIOUS
<1> DEFINE n == next_file_number
<1>1. PICK p, f : /\ Settled(current') /\ Flushed(current, current', p, f)
                  /\ f.entries = imm /\ f.number = n
  BY FlushIs
<1>2. /\ file_to_compact' = {} /\ next_file_number' = n + 1 /\ imm' = {} /\ imm # {}
      /\ UNCHANGED <<mem, last_sequence, compaction, manual>>
  BY DEF CompactMemTable, Install
<1>3. /\ p \in Levels /\ f \in File
      /\ \A l \in Levels : FilesIn(current'[l]) =
           FilesIn(current[l]) \cup (IF l = p THEN {f} ELSE {})
      /\ p > 0 => \A l \in Levels : l <= p => \A g \in FilesIn(current[l]) : Outside(g, Ends(f))
  BY <1>1 DEF Flushed
<1>4. /\ Settled(current) /\ n \in Nat
      /\ \A g \in AllFiles(current) : g.number < n /\ Newer(imm, g.entries)
  BY DEF TreeInv, FilesAre
<1>5. \A g \in AllFiles(current') : g \in AllFiles(current) \/ g = f
  BY <1>3 DEF AllFiles
<1>6. MemtablesAre'
  BY <1>2, FS_EmptySet DEF TreeInv, MemtablesAre, Newer
<1>7. FilesAre'
  <2>1. n + 1 \in Nat \ {0} /\ n < n + 1 /\ \A g \in AllFiles(current) : g.number < n + 1
    <3>1. \A g \in AllFiles(current) : g.number \in Nat
      BY <1>4, FilesOfTree
    <3> QED BY <1>4, <3>1
  <2>2. Newer(mem, imm) /\ \A S : Newer({}, S)
    BY DEF TreeInv, MemtablesAre, Newer
  <2>3. imm \subseteq EntriesUpTo(last_sequence)
    BY DEF TreeInv, MemtablesAre
  <2>4. \A g \in AllFiles(current) : /\ g.entries \subseteq EntriesUpTo(last_sequence)
                                     /\ Newer(mem, g.entries)
    BY DEF TreeInv, FilesAre
  <2> QED BY <1>1, <1>2, <1>5, <2>1, <2>2, <2>3, <2>4 DEF FilesAre
<1>8. WorkIs'
  <2>1. ASSUME NEW w \in compaction PROVE Sound(current', w.c)
    <3> DEFINE c == w.c
    <3>1. Sound(current, c)
      BY DEF TreeInv, WorkIs
    <3>2. \A g \in AllFiles(current) : Newer(f.entries, g.entries)
      BY <1>1, <1>4
    <3>3. PICK new : new = current'
      OBVIOUS
    <3>4. \A l \in Levels : FilesIn(new[l]) = FilesIn(current[l]) \cup (IF l = p THEN {f} ELSE {})
      BY <1>3, <3>3
    <3>5. /\ p \in Levels /\ f \in File /\ Settled(current)
          /\ p > 0 => \A l \in Levels : l <= p =>
               \A g \in FilesIn(current[l]) : Outside(g, Ends(f))
      BY <1>3, <1>4
    <3> HIDE DEF c
    <3>6. Sound(new, c)
      BY ONLY <3>1, <3>2, <3>4, <3>5, SoundStays
    <3> QED BY <3>3, <3>6 DEF c
  <2> QED BY <1>2, <2>1 DEF TreeInv, WorkIs
<1> QED BY <1>6, <1>7, <1>8 DEF TreeInv

(* What a compaction installs leaves the tree as it should be.             *)
LEMMA InstalledTree ==
  ASSUME TreeInv, NEW c, Sound(current, c), NEW e, Fits(current, e, c.level + 1),
         e.deleted = InputDeletions(c), current' = Apply(current, e),
         next_file_number' \in Nat, next_file_number <= next_file_number',
         \A x \in e.added : /\ x.file.entries \subseteq Compacted(c)
                            /\ x.file.number \in Nat /\ x.file.number < next_file_number',
         UNCHANGED <<mem, imm, last_sequence>>
  PROVE  MemtablesAre' /\ FilesAre'
<1> DEFINE L == c.level + 1
           F == {x.file : x \in e.added}
<1>1. Settled(current) /\ L \in Levels
  BY SoundIs DEF TreeInv, FilesAre
<1>2. /\ Settled(current')
      /\ \A l \in Levels : FilesIn(current'[l]) =
           KeptIn(current, e, l) \cup (IF l = L THEN F ELSE {})
  <2>1. Fits(current, e, L)
    OBVIOUS
  <2> HIDE DEF L
  <2>2. /\ Settled(Apply(current, e))
        /\ \A l \in Levels : FilesIn(Apply(current, e)[l]) =
             KeptIn(current, e, l) \cup (IF l = L THEN {x.file : x \in e.added} ELSE {})
    BY ONLY <1>1, <2>1, InstalledIs
  <2> QED BY <2>2
<1>3. \A f \in F : f.entries \subseteq Compacted(c) /\ f.number < next_file_number'
  OBVIOUS
<1> HIDE DEF F
<1>4. \A g \in AllFiles(current') : g \in AllFiles(current) \/ g \in F
  BY <1>2 DEF AllFiles, KeptIn
<1>5. \A d \in Compacted(c) : \E h \in AllFiles(current) : d \in h.entries
  <2>1. /\ FilesIn(c.inputs0) \subseteq AllFiles(current)
        /\ FilesIn(c.inputs1) \subseteq AllFiles(current)
    BY <1>1, SoundIs, FilesOfTree
  <2>2. InputsOf(c) \subseteq AllFiles(current)
    BY <2>1 DEF InputsOf
  <2> QED BY <1>1, <2>2, SoundIs
<1>6. \A h \in AllFiles(current) : /\ h.entries \subseteq EntriesUpTo(last_sequence)
                                   /\ Newer(mem, h.entries) /\ Newer(imm, h.entries)
                                   /\ h.number < next_file_number
  BY DEF TreeInv, FilesAre
<1>7. /\ Compacted(c) \subseteq EntriesUpTo(last_sequence)
      /\ Newer(mem, Compacted(c)) /\ Newer(imm, Compacted(c))
  BY <1>5, <1>6 DEF Newer
<1>8. \A g \in F : /\ g.entries \subseteq EntriesUpTo(last_sequence)
                   /\ Newer(mem, g.entries) /\ Newer(imm, g.entries)
  BY <1>3, <1>7 DEF Newer
<1>9. \A h \in AllFiles(current) : h.number < next_file_number'
  <2>1. \A h \in AllFiles(current) : h.number \in Nat
    BY <1>1, FilesOfTree
  <2> QED BY <1>6, <2>1 DEF TreeInv, FilesAre
<1>10. next_file_number' \in Nat \ {0}
  BY DEF TreeInv, FilesAre
<1>11. FilesAre'
  BY <1>2, <1>3, <1>4, <1>6, <1>8, <1>9, <1>10 DEF FilesAre
<1> QED BY <1>11 DEF TreeInv, MemtablesAre

LEMMA BackgroundTree == TreeInv /\ BackgroundCompaction => TreeInv'
<1> SUFFICES ASSUME TreeInv, BackgroundCompaction PROVE TreeInv'
  OBVIOUS
<1> DEFINE picked == PickCompaction(current, compact_pointer, file_to_compact)
<1>1. manual = {} /\ Registered = {}
  BY DEF TreeInv, WorkIs, Registered
<1>2. Settled(current) /\ Sound(current, picked)
  <2>1. NeedsCompaction(current, file_to_compact)
    BY <1>1 DEF BackgroundCompaction
  <2> QED BY <2>1, PickCompactionIs DEF TreeInv, FilesAre, WorkIs, Settled
<1> HIDE DEF picked
<1>3. /\ StartCompaction(picked)
      /\ UNCHANGED <<mem, imm, last_sequence, next_file_number>>
  <2>1. Chosen = {picked}
    BY <1>1 DEF Chosen, picked
  <2> QED BY <2>1 DEF BackgroundCompaction, StartChosen
<1>4. CASE IsTrivialMove(picked)
  <2> DEFINE e == MoveEdit(picked)
  <2>1. /\ current' = Apply(current, e) /\ file_to_compact' = {}
        /\ UNCHANGED <<compaction, manual>>
    BY <1>1, <1>3, <1>4 DEF StartCompaction, Install, MoveEdit
  <2>2. /\ Fits(current, e, picked.level + 1) /\ e.deleted = InputDeletions(picked)
        /\ {x.file : x \in e.added} = InputsOf(picked)
    BY <1>2, <1>4, MoveFits
  <2> HIDE DEF e
  <2>3. \A x \in e.added : /\ x.file.entries \subseteq Compacted(picked)
                           /\ x.file.number \in Nat /\ x.file.number < next_file_number
    <3>1. InputsOf(picked) \subseteq File /\ InputsOf(picked) \subseteq AllFiles(current)
      <4>1. /\ FilesIn(picked.inputs0) \subseteq AllFiles(current)
            /\ FilesIn(picked.inputs1) \subseteq AllFiles(current)
        BY <1>2, SoundIs, FilesOfTree
      <4>2. InputsOf(picked) \subseteq AllFiles(current)
        BY <4>1 DEF InputsOf
      <4> QED BY <1>2, <4>2, FilesOfTree
    <3>2. \A h \in InputsOf(picked) : /\ h.entries \subseteq Compacted(picked)
                                      /\ h.number \in Nat /\ h.number < next_file_number
      <4>1. \A h \in InputsOf(picked) : h.entries \subseteq Compacted(picked)
        BY <1>2, SoundIs
      <4>2. \A h \in AllFiles(current) : h.number < next_file_number
        BY DEF TreeInv, FilesAre
      <4> QED BY <3>1, <4>1, <4>2 DEF File
    <3>3. \A x \in e.added : x.file \in InputsOf(picked)
      BY <2>2
    <3> QED BY <3>2, <3>3
  <2>4. next_file_number' = next_file_number /\ next_file_number \in Nat
    BY <1>3 DEF TreeInv, FilesAre
  <2>5. MemtablesAre' /\ FilesAre'
    BY <1>2, <1>3, <2>1, <2>2, <2>3, <2>4, InstalledTree
  <2>6. compaction = {}
    BY DEF BackgroundCompaction
  <2>7. WorkIs'
    BY <1>1, <2>1, <2>6 DEF WorkIs
  <2> QED BY <2>5, <2>7 DEF TreeInv
<1>5. CASE ~IsTrivialMove(picked)
  <2>1. /\ \A w \in compaction' : w.c = picked /\ w.by = {}
        /\ UNCHANGED <<current, file_to_compact, manual>>
    BY <1>1, <1>3, <1>5 DEF StartCompaction
  <2>2. MemtablesAre' /\ FilesAre'
    BY <1>3, <2>1 DEF TreeInv, MemtablesAre, FilesAre
  <2>3. WorkIs'
    BY <1>2, <2>1 DEF TreeInv, WorkIs
  <2> QED BY <2>2, <2>3 DEF TreeInv
<1> QED BY <1>4, <1>5

LEMMA InstallTree == TreeInv /\ InstallCompactionResults => TreeInv'
<1> SUFFICES ASSUME TreeInv, NEW w \in compaction,
                    InstallOutputs(w.c, CompactionOutputs(w.c, w.version, w.snapshot)),
                    manual' = IF w.by = {} THEN manual ELSE {ManualRest(m, w.c) : m \in w.by},
                    compaction' = {},
                    UNCHANGED <<mem, imm, last_sequence, seeks, getting, compact_pointer, snapshots>>
             PROVE  TreeInv'
  BY DEF InstallCompactionResults
<1> DEFINE c    == w.c
           n    == next_file_number
           outs == CompactionOutputs(c, w.version, w.snapshot)
           e    == OutputsEdit(c, n, outs)
<1>1. Settled(current) /\ Sound(current, c) /\ w.by = {} /\ manual = {} /\ n \in Nat
  BY DEF TreeInv, FilesAre, WorkIs
<1>2. /\ outs \in Seq(SUBSET Compacted(c)) /\ InRow(outs)
      /\ IsFiniteSet(Compacted(c)) /\ Compacted(c) \in SUBSET Entry
  <2>1. c.inputs0 \in Seq(File) /\ c.inputs1 \in Seq(File) /\ c.grandparents \in Seq(File)
    BY <1>1, SoundMeans
  <2> QED BY <2>1, OutputsAre
<1>3. /\ current' = Apply(current, e) /\ file_to_compact' = {}
      /\ next_file_number' = n + Len(outs)
  BY DEF InstallOutputs, Install, OutputsEdit
<1>4. e.deleted = InputDeletions(c)
  BY DEF OutputsEdit
<1> HIDE DEF outs
<1>5. /\ Fits(current, e, c.level + 1)
      /\ {x.file : x \in e.added} = OutputFiles(n, outs)
      /\ \A f \in OutputFiles(n, outs) : /\ f \in File /\ f.entries \subseteq Compacted(c)
                                         /\ f.number \in n..(n + Len(outs) - 1)
  <2>1. \A f \in AllFiles(current) : f.number < n
    BY DEF TreeInv, FilesAre
  <2> QED BY <1>1, <1>2, <2>1, OutputsFit
<1> HIDE DEF e
<1>6. Len(outs) \in Nat
  BY <1>2, LenProperties
<1>7. \A x \in e.added : /\ x.file.entries \subseteq Compacted(c)
                         /\ x.file.number \in Nat /\ x.file.number < n + Len(outs)
  <2>1. \A x \in e.added : x.file \in OutputFiles(n, outs)
    BY <1>5
  <2> QED BY <1>1, <1>5, <1>6, <2>1
<1>8. n + Len(outs) \in Nat /\ n <= n + Len(outs)
  BY <1>1, <1>6
<1>9. MemtablesAre' /\ FilesAre'
  BY <1>1, <1>3, <1>4, <1>5, <1>7, <1>8, InstalledTree
<1>10. WorkIs'
  BY <1>1, <1>3 DEF WorkIs
<1> QED BY <1>9, <1>10 DEF TreeInv

LEMMA NextTree == ManualRequests = {} /\ TreeInv /\ ReadersAre /\ [Next]_vars => TreeInv'
<1> SUFFICES ASSUME ManualRequests = {}, TreeInv, ReadersAre, [Next]_vars PROVE TreeInv'
  OBVIOUS
<1>1. CASE \E k \in UserKeys, type \in WriteTypes : Write(k, type)
  BY <1>1, WriteTree
<1>2. CASE SwitchMemTable
  BY <1>2, SwitchTree
<1>3. ASSUME UNCHANGED <<mem, imm, last_sequence, current, file_to_compact,
                         next_file_number, compaction, manual>>
      PROVE  TreeInv'
  <2>1. MemtablesAre'
    BY <1>3 DEF TreeInv, MemtablesAre
  <2>2. FilesAre'
    BY <1>3 DEF TreeInv, FilesAre
  <2>3. WorkIs'
    BY <1>3 DEF TreeInv, WorkIs
  <2> QED BY <2>1, <2>2, <2>3 DEF TreeInv
<1>4. CASE GetSnapshot
  BY <1>3, <1>4 DEF GetSnapshot
<1>5. CASE \E i \in DOMAIN snapshots : ReleaseSnapshot(i)
  BY <1>3, <1>5 DEF ReleaseSnapshot
<1>6. CASE \E k \in UserKeys : GetFromFiles(k)
  BY <1>3, <1>6 DEF GetFromFiles
<1>14. CASE \E g \in getting : UpdateStats(g)
  BY <1>14, UpdateStatsTree
<1>7. ~(\E request \in ManualRequests : RequestCompactRange(request))
  OBVIOUS
<1>8. ~(\E m \in manual : RequestCompactRange([m EXCEPT !.registered = TRUE]))
  BY DEF TreeInv, WorkIs
<1>9. CASE CompactMemTable
  BY <1>9, FlushTree
<1>10. CASE BackgroundCompaction
  BY <1>10, BackgroundTree
<1>11. CASE InstallCompactionResults
  BY <1>11, InstallTree
<1>12. CASE Observe
  BY <1>3, <1>12 DEF Observe
<1>13. CASE UNCHANGED vars
  BY <1>3, <1>13 DEF vars
<1> QED BY <1>1, <1>2, <1>4, <1>5, <1>6, <1>7, <1>8, <1>9, <1>10, <1>11, <1>12, <1>13, <1>14
        DEF Next, Step

LEMMA NextReaders == ManualRequests = {} /\ TreeInv /\ ReadersAre /\ [Next]_vars => ReadersAre'
<1> SUFFICES ASSUME ManualRequests = {}, TreeInv, ReadersAre, [Next]_vars PROVE ReadersAre'
  OBVIOUS
<1>1. ASSUME getting' \subseteq getting PROVE ReadersAre'
  BY <1>1 DEF ReadersAre
<1>2. CASE \E k \in UserKeys : GetFromFiles(k)
  BY <1>2, GetFromFilesTree
<1>3. CASE \E g \in getting : UpdateStats(g)
  <2>1. getting' \subseteq getting
    BY <1>3 DEF UpdateStats
  <2> QED BY <1>1, <2>1
<1>4. ~(\E m \in manual : RequestCompactRange([m EXCEPT !.registered = TRUE]))
  BY DEF TreeInv, WorkIs
<1>5. CASE \/ \E k \in UserKeys, type \in WriteTypes : Write(k, type)
           \/ SwitchMemTable \/ GetSnapshot \/ \E i \in DOMAIN snapshots : ReleaseSnapshot(i)
           \/ CompactMemTable \/ BackgroundCompaction \/ InstallCompactionResults
           \/ Observe \/ UNCHANGED vars
  <2>1. getting' = getting
    BY <1>5 DEF Write, SwitchMemTable, GetSnapshot, ReleaseSnapshot, CompactMemTable,
       BackgroundCompaction, InstallCompactionResults, Observe, vars
  <2> QED BY <1>1, <2>1
<1> QED BY <1>2, <1>3, <1>4, <1>5 DEF Next, Step

LEMMA TreeAndReaders == ManualRequests = {} => (Spec => [](TreeInv /\ ReadersAre))
<1> SUFFICES ASSUME ManualRequests = {} PROVE Spec => [](TreeInv /\ ReadersAre)
  OBVIOUS
<1>1. Init => TreeInv /\ ReadersAre
  BY InitTree DEF Init, ReadersAre
<1>2. TreeInv /\ ReadersAre /\ [Next]_vars => TreeInv' /\ ReadersAre'
  BY NextTree, NextReaders
<1> QED BY <1>1, <1>2, PTL DEF Spec

(* The invariant of the tree, for trees of any size whose compactions are  *)
(* the ones DBImpl chooses itself: each file is a set of entries within    *)
(* the numbers handed out so far; the levels are sorted and disjoint; of   *)
(* two entries of a key the newer is higher; and a compaction under way    *)
(* reads files of the current version whatever was flushed meanwhile.      *)
THEOREM TreeIsSound == ManualRequests = {} => (Spec => []TreeInv)
BY TreeAndReaders, PTL

LEMMA ApartMeans ==
  ASSUME TreeInv
  PROVE  EntriesInPlace
<1>1. /\ Settled(current) /\ Newer(mem, imm)
      /\ mem \in SUBSET Entry /\ imm \in SUBSET Entry
      /\ \A f \in AllFiles(current) : Newer(mem, f.entries) /\ Newer(imm, f.entries)
  BY WritesAssumption, EntriesUpToGrow DEF WritesAssumption, TreeInv, MemtablesAre, FilesAre
<1>2. Files = AllFiles(current)
  BY DEF Files, AllFiles
<1>3. \A S \in SUBSET Entry : \A T : Newer(S, T) => S \cap T = {}
  BY DEF Newer, Entry
<1>4. \A f \in AllFiles(current) : f \in File /\ f.number \in Nat /\ f.entries \in SUBSET Entry
  BY <1>1, FilesOfTree DEF File
<1>5. ASSUME NEW f \in AllFiles(current), NEW g \in AllFiles(current), f # g
      PROVE  f.entries \cap g.entries = {} /\ f.number # g.number
  <2>1. PICK l \in Levels : f \in FilesIn(current[l])
    BY DEF AllFiles
  <2>2. PICK m \in Levels : g \in FilesIn(current[m])
    BY DEF AllFiles
  <2>3. f.number # g.number
    BY <1>1, <1>5 DEF Settled
  <2>4. l \in Nat /\ m \in Nat /\ f.number \in Nat /\ g.number \in Nat
    BY <1>4, LevelsAre
  <2>5. CASE l # m
    <3>1. Newer(f.entries, g.entries) \/ Newer(g.entries, f.entries)
      BY <1>1, <2>1, <2>2, <2>4, <2>5 DEF Settled, Stacked
    <3> QED BY <1>3, <1>4, <2>3, <3>1
  <2>6. CASE l = m /\ l > 0
    <3>1. Apart(f, g)
      BY <1>1, <1>5, <2>1, <2>2, <2>6 DEF Settled, Orderly
    <3> QED BY <1>4, <2>3, <3>1, ApartIsStrict
  <2>7. CASE l = 0 /\ m = 0
    <3>1. Newer(f.entries, g.entries) \/ Newer(g.entries, f.entries)
      BY <1>1, <2>1, <2>2, <2>3, <2>4, <2>7 DEF Settled, Stacked
    <3> QED BY <1>3, <1>4, <2>3, <3>1
  <2> QED BY <2>4, <2>5, <2>6, <2>7
<1>6. NothingTwice
  <2>1. mem \cap imm = {}
    BY <1>1, <1>3
  <2>2. \A f \in AllFiles(current) : f.entries \cap mem = {} /\ f.entries \cap imm = {}
    BY <1>1, <1>3
  <2> QED BY <1>2, <1>5, <2>1, <2>2 DEF NothingTwice
<1>7. NewerIsHigher
  <2>1. \A f, g \in FilesIn(current[0]) : f.number < g.number => Newer(g.entries, f.entries)
    BY <1>1 DEF Settled, Stacked
  <2>2. ASSUME NEW l \in Levels, NEW m \in Levels, l < m,
               NEW f \in FilesIn(current[l]), NEW g \in FilesIn(current[m])
        PROVE  Newer(f.entries, g.entries)
    BY <1>1, <2>2 DEF Settled, Stacked
  <2> QED BY <1>1, <1>2, <2>1, <2>2 DEF NewerIsHigher, Newer
<1> QED BY <1>6, <1>7 DEF EntriesInPlace

(* No entry is in two places, and a lookup that stops at the first entry   *)
(* of a key it meets, from the memtables downwards, has met the newest.    *)
THEOREM EveryEntryInPlace == ManualRequests = {} => (Spec => []EntriesInPlace)
<1>1. TreeInv => EntriesInPlace
  BY ApartMeans
<1> QED BY <1>1, TreeIsSound, PTL

LEMMA OrderlyMeans ==
  ASSUME TreeInv
  PROVE  FilesInOrder
<1>1. SeekFileIsCurrent
  BY DEF SeekFileIsCurrent, TreeInv, WorkIs
<1>2. ASSUME NEW l \in Levels, l # 0, NEW i \in 1..(Len(current[l]) - 1)
      PROVE  Before(Largest(current[l][i]), Smallest(current[l][i + 1]))
  <2> DEFINE fs == current[l]
  <2>1. /\ fs \in Seq(File) /\ SortedBySmallest(fs)
        /\ \A f, g \in FilesIn(fs) : f # g => Apart(f, g)
    <3>1. l \in Nat
      BY LevelsAre
    <3> QED BY <1>2, <3>1 DEF TreeInv, FilesAre, Settled, Orderly
  <2>2. Len(fs) \in Nat /\ DOMAIN fs = 1..Len(fs)
    BY <2>1, LenProperties
  <2> HIDE DEF fs
  <2>3. i \in DOMAIN fs /\ i + 1 \in DOMAIN fs /\ i < i + 1
    BY <1>2, <2>2 DEF fs
  <2> DEFINE f == fs[i]
             g == fs[i + 1]
  <2>4. f \in File /\ g \in File /\ f \in FilesIn(fs) /\ g \in FilesIn(fs)
    BY <2>1, <2>3, FilesInIs
  <2>5. BySmallestKey(f, g)
    BY <2>1, <2>3 DEF SortedBySmallest
  <2> HIDE DEF f, g
  <2>6. /\ Smallest(f) \in Entry /\ Smallest(g) \in Entry
        /\ f.number \in Nat /\ g.number \in Nat
    BY <2>4, BoundsOfFile DEF File
  <2>7. f # g
    BY <2>5, <2>6, BeforeIsOrder DEF BySmallestKey
  <2>8. ~Whole(g, f)
    <3>1. ~Before(Smallest(g), Smallest(f))
      BY <2>5, <2>6, BeforeIsOrder DEF BySmallestKey
    <3> QED BY <2>4, <3>1, WholeIs
  <2>9. Before(Largest(f), Smallest(g))
    BY <2>1, <2>4, <2>7, <2>8, WholeIs DEF Apart
  <2> QED BY <2>9 DEF f, g, fs
<1>3. LevelsAreDisjoint
  BY <1>2 DEF LevelsAreDisjoint
<1> QED BY <1>1, <1>3 DEF FilesInOrder

(* The check of Builder::MaybeAddFile never fails, for all the memtables   *)
(* flushed into a level while it is compacted; and the file whose seeks    *)
(* are used up is where the next compaction looks for it.                  *)
THEOREM FilesStayInOrder == ManualRequests = {} => (Spec => []FilesInOrder)
<1>1. TreeInv => FilesInOrder
  BY OrderlyMeans
<1> QED BY <1>1, TreeIsSound, PTL

-----------------------------------------------------------------------------
(* What a reader gets *)

(* What a read of k at a snapshot returns when the entries are S: the      *)
(* number of the newest write it may see, or 0 where that is a deletion or *)
(* there is none.                                                          *)
ValueOf(e) == IF TypeOf(e) = kTypeValue THEN SequenceOf(e) ELSE 0
Reads(S, k, snapshot, n) ==
  LET V == Visible(S, LookupKey(k, snapshot))
  IN  \/ V = {} /\ n = 0
      \/ \E e \in V : /\ \A d \in V : d.tag <= e.tag
                      /\ n = ValueOf(e)

LEMMA LookupKeyIs ==
  ASSUME NEW k \in UserKeys, NEW s \in Nat
  PROVE  /\ LookupKey(k, s) \in Entry
         /\ LookupKey(k, s).key = k /\ LookupKey(k, s).tag = 2 * s + 1
BY DEF LookupKey, InternalKey, PackSequenceAndType, kValueTypeForSeek, kTypeValue, Entry

LEMMA ReadsOnce ==
  ASSUME NEW S \in SUBSET Entry, NEW k, NEW s, NEW m, NEW n, Reads(S, k, s, m), Reads(S, k, s, n)
  PROVE  m = n
<1> DEFINE V == Visible(S, LookupKey(k, s))
<1>1. \/ V = {} /\ m = 0
      \/ \E e \in V : (\A d \in V : d.tag <= e.tag) /\ m = ValueOf(e)
  BY DEF Reads
<1>2. \/ V = {} /\ n = 0
      \/ \E e \in V : (\A d \in V : d.tag <= e.tag) /\ n = ValueOf(e)
  BY DEF Reads
<1>3. \A d, e \in V : d.tag <= e.tag /\ e.tag <= d.tag => d = e
  BY DEF Visible, Entry
<1> HIDE DEF V
<1> QED BY <1>1, <1>2, <1>3

(* A lookup that looks at S before T, when S is the newer of the two.      *)
LEMMA FoundInBoth ==
  ASSUME NEW S \in SUBSET Entry, NEW T \in SUBSET Entry, Newer(S, T),
         NEW ik, NEW R, NEW Q, FoundIn(S, ik, R), FoundIn(T, ik, Q)
  PROVE  FoundIn(S \cup T, ik, IF R # {} THEN R ELSE Q)
<1>1. Visible(S \cup T, ik) = Visible(S, ik) \cup Visible(T, ik)
  BY DEF Visible
<1>2. CASE R = {}
  BY <1>1, <1>2 DEF FoundIn
<1>3. CASE R # {}
  <2>1. PICK e \in Visible(S, ik) : R = {e} /\ \A d \in Visible(S, ik) : d.tag <= e.tag
    BY <1>3 DEF FoundIn
  <2>2. \A d \in Visible(T, ik) : d.tag <= e.tag
    BY DEF Visible, Newer, Entry
  <2> QED BY <1>1, <1>3, <2>1, <2>2 DEF FoundIn
<1> QED BY <1>2, <1>3

Entries == mem \cup imm \cup EntriesIn(current)

LEMMA EntriesAre ==
  ASSUME TreeInv
  PROVE  /\ last_sequence \in Nat
         /\ mem \in SUBSET Entry /\ imm \in SUBSET Entry /\ EntriesIn(current) \in SUBSET Entry
         /\ Entries \in SUBSET Entry /\ Entries \subseteq EntriesUpTo(last_sequence)
         /\ Newer(mem, imm \cup EntriesIn(current)) /\ Newer(imm, EntriesIn(current))
         /\ \A e \in Entries : e.tag <= 2 * last_sequence + 1
<1>1. last_sequence \in Nat /\ EntriesUpTo(last_sequence) \subseteq Entry
  BY WritesAssumption, EntriesUpToGrow DEF WritesAssumption, TreeInv, MemtablesAre
<1>2. /\ mem \subseteq EntriesUpTo(last_sequence) /\ imm \subseteq EntriesUpTo(last_sequence)
      /\ Newer(mem, imm)
      /\ \A f \in AllFiles(current) : /\ f.entries \subseteq EntriesUpTo(last_sequence)
                                      /\ Newer(mem, f.entries) /\ Newer(imm, f.entries)
  BY DEF TreeInv, MemtablesAre, FilesAre
<1>3. \A e \in EntriesIn(current) : \E f \in AllFiles(current) : e \in f.entries
  BY DEF EntriesIn
<1>4. /\ EntriesIn(current) \subseteq EntriesUpTo(last_sequence)
      /\ Newer(mem, EntriesIn(current)) /\ Newer(imm, EntriesIn(current))
  BY <1>2, <1>3 DEF Newer
<1>5. Newer(mem, imm \cup EntriesIn(current))
  BY <1>2, <1>4 DEF Newer
<1>6. \A e \in EntriesUpTo(last_sequence) : e.tag <= 2 * last_sequence + 1
  BY <1>1 DEF EntriesUpTo
<1> QED BY <1>1, <1>2, <1>4, <1>5, <1>6 DEF Entries

(* A lookup, and what readers get, by what the memtables and the version   *)
(* hold.                                                                   *)
LookupIn(m, i, v, k, s) ==
  LET ik   == LookupKey(k, s)
      here == SeekEntry(m, ik)
      full == SeekEntry(i, ik)
  IN  IF here # {} THEN here ELSE IF full # {} THEN full
      ELSE VersionGet(v, ik).entry
GetIn(m, i, v, k, s) ==
  LET found == {e \in LookupIn(m, i, v, k, s) : TypeOf(e) = kTypeValue}
  IN  IF found = {} THEN 0 ELSE SequenceOf(First(found))
ViewIn(m, i, v, s) == [k \in UserKeys |-> GetIn(m, i, v, k, s)]
ReadingsIn(m, i, v, n, ss) ==
  [writes |-> n,
   latest |-> ViewIn(m, i, v, n),
   views  |-> [j \in DOMAIN ss |-> ViewIn(m, i, v, ss[j])]]

LEMMA ReadingsAre ==
  /\ \A s : View(s) = ViewIn(mem, imm, current, s)
  /\ Readings = ReadingsIn(mem, imm, current, last_sequence, snapshots)
  /\ Readings' = ReadingsIn(mem', imm', current', last_sequence', snapshots')
<1>1. \A s : View(s) = ViewIn(mem, imm, current, s)
  BY DEF View, ViewIn, Get, GetIn, Lookup, LookupIn
<1>2. Readings = ReadingsIn(mem, imm, current, last_sequence, snapshots)
  BY DEF Readings, ReadingsIn, View, ViewIn, Get, GetIn, Lookup, LookupIn
<1>3. Readings' = ReadingsIn(mem', imm', current', last_sequence', snapshots')
  BY DEF Readings, ReadingsIn, View, ViewIn, Get, GetIn, Lookup, LookupIn
<1> QED BY <1>1, <1>2, <1>3

StoredIn(m, i, v) == m \cup i \cup EntriesIn(v)

InPlace(m, i, v) ==
  /\ m \in SUBSET Entry /\ IsFiniteSet(m) /\ i \in SUBSET Entry /\ IsFiniteSet(i)
  /\ Settled(v) /\ EntriesIn(v) \in SUBSET Entry
  /\ Newer(m, i \cup EntriesIn(v)) /\ Newer(i, EntriesIn(v))

LEMMA TreeInPlace ==
  TreeInv => InPlace(mem, imm, current) /\ Entries = StoredIn(mem, imm, current)
BY EntriesAre DEF InPlace, Entries, StoredIn, TreeInv, MemtablesAre, FilesAre

(* Get returns what there is to read, in the memtables and in the files.   *)
LEMMA GetIs ==
  ASSUME NEW m, NEW i, NEW v, InPlace(m, i, v), NEW k \in UserKeys, NEW s \in Nat
  PROVE  Reads(StoredIn(m, i, v), k, s, GetIn(m, i, v, k, s))
<1> DEFINE ik   == LookupKey(k, s)
           here == SeekEntry(m, ik)
           full == SeekEntry(i, ik)
           file == VersionGet(v, ik).entry
           both == IF full # {} THEN full ELSE file
           R    == IF here # {} THEN here ELSE both
           E    == i \cup EntriesIn(v)
           S    == StoredIn(m, i, v)
           got  == GetIn(m, i, v, k, s)
<1>1. ik \in Entry
  BY LookupKeyIs
<1>2. LookupIn(m, i, v, k, s) = R
  BY DEF LookupIn
<1>3. /\ m \in SUBSET Entry /\ i \in SUBSET Entry /\ EntriesIn(v) \in SUBSET Entry
      /\ E \in SUBSET Entry /\ Newer(m, E) /\ Newer(i, EntriesIn(v)) /\ S = m \cup E
  BY DEF InPlace, StoredIn
<1> HIDE DEF ik, S
<1>4. FoundIn(m, ik, here) /\ FoundIn(i, ik, full) /\ FoundIn(EntriesIn(v), ik, file)
  <2>1. IsFiniteSet(m) /\ IsFiniteSet(i) /\ Settled(v)
    BY DEF InPlace
  <2> QED BY <1>1, <1>3, <2>1, SeekEntryIs, VersionGetIs
<1> HIDE DEF here, full, file
<1>5. FoundIn(E, ik, both)
  BY <1>3, <1>4, FoundInBoth
<1> HIDE DEF both, E
<1>6. FoundIn(S, ik, R)
  BY <1>3, <1>4, <1>5, FoundInBoth
<1> HIDE DEF R
<1> DEFINE V     == Visible(S, ik)
           found == {e \in R : TypeOf(e) = kTypeValue}
<1>7. got = IF found = {} THEN 0 ELSE SequenceOf(First(found))
  BY <1>2 DEF GetIn
<1>8. V \subseteq Entry
  BY <1>3 DEF Visible
<1>9. (V = {} /\ R = {}) \/ \E e \in V : R = {e} /\ \A d \in V : d.tag <= e.tag
  BY <1>6 DEF FoundIn
<1>10. Reads(S, k, s, got) <=>
         \/ V = {} /\ got = 0
         \/ \E e \in V : (\A d \in V : d.tag <= e.tag) /\ got = ValueOf(e)
  BY DEF Reads, ik
<1> HIDE DEF V, got
<1>11. ASSUME V = {}, R = {} PROVE Reads(S, k, s, got)
  BY <1>7, <1>10, <1>11
<1>12. ASSUME \E e \in V : R = {e} /\ \A d \in V : d.tag <= e.tag
       PROVE  Reads(S, k, s, got)
  <2>1. PICK e \in V : R = {e} /\ \A d \in V : d.tag <= e.tag
    BY <1>12
  <2>2. CASE TypeOf(e) = kTypeValue
    <3>1. found = {e}
      BY <2>1, <2>2
    <3>2. First(found) = e
      <4>1. e \in Entry /\ IsFiniteSet({e})
        BY <1>8, FS_Singleton
      <4> HIDE DEF found
      <4> QED BY <3>1, <4>1, FirstIs
    <3> HIDE DEF found
    <3> QED BY <1>7, <1>10, <2>1, <2>2, <3>1, <3>2 DEF ValueOf
  <2>3. CASE TypeOf(e) # kTypeValue
    <3>1. found = {}
      BY <2>1, <2>3
    <3> HIDE DEF found
    <3> QED BY <1>7, <1>10, <2>1, <2>3, <3>1 DEF ValueOf
  <2> QED BY <2>2, <2>3
<1>13. Reads(S, k, s, got)
  BY <1>9, <1>11, <1>12
<1> QED BY <1>13 DEF S, got

(* Readers at a snapshot get the same of two states in which there is the  *)
(* same to read.                                                           *)
LEMMA SameView ==
  ASSUME NEW m, NEW i, NEW v, InPlace(m, i, v), NEW m2, NEW i2, NEW v2, InPlace(m2, i2, v2),
         NEW s \in Nat,
         \A k \in UserKeys : \A n :
           Reads(StoredIn(m, i, v), k, s, n) => Reads(StoredIn(m2, i2, v2), k, s, n)
  PROVE  ViewIn(m2, i2, v2, s) = ViewIn(m, i, v, s)
<1> SUFFICES ASSUME NEW k \in UserKeys PROVE GetIn(m2, i2, v2, k, s) = GetIn(m, i, v, k, s)
  BY DEF ViewIn
<1> DEFINE S == StoredIn(m2, i2, v2)
           a == GetIn(m2, i2, v2, k, s)
           b == GetIn(m, i, v, k, s)
<1>1. Reads(S, k, s, a)
  BY GetIs
<1>2. Reads(S, k, s, b)
  BY GetIs
<1>3. S \in SUBSET Entry
  BY DEF InPlace, StoredIn
<1> HIDE DEF S, a, b
<1>4. a = b
  BY <1>1, <1>2, <1>3, ReadsOnce
<1> QED BY <1>4 DEF a, b

(* A read does not change when entries go that are hidden by newer ones,   *)
(* and deletions that have nothing older left to hide.                     *)
LEMMA ReadsKept ==
  ASSUME NEW S \in SUBSET Entry, NEW T \in SUBSET S, NEW k, NEW s, NEW n, Reads(S, k, s, n),
         LET V == Visible(S, LookupKey(k, s))
         IN  \A d \in V : d \notin T =>
               \/ \E e \in V : d.tag < e.tag
               \/ TypeOf(d) # kTypeValue /\ \A e \in V : e.tag < d.tag => e \notin T
  PROVE  Reads(T, k, s, n)
<1> DEFINE V == Visible(S, LookupKey(k, s))
           W == Visible(T, LookupKey(k, s))
<1>1. /\ \A e \in V : e.tag \in Nat
      /\ \A d, e \in V : d.tag <= e.tag /\ e.tag <= d.tag => d = e
      /\ \A e : e \in W <=> e \in V /\ e \in T
  BY DEF Visible, Entry
<1>2. \A d \in V : d \notin T => \/ \E e \in V : d.tag < e.tag
                                 \/ TypeOf(d) # kTypeValue /\ \A e \in V : e.tag < d.tag => e \notin T
  OBVIOUS
<1>3. \/ V = {} /\ n = 0
      \/ \E e \in V : (\A d \in V : d.tag <= e.tag) /\ n = ValueOf(e)
  BY DEF Reads
<1>4. Reads(T, k, s, n) <=>
        \/ W = {} /\ n = 0
        \/ \E e \in W : (\A d \in W : d.tag <= e.tag) /\ n = ValueOf(e)
  BY DEF Reads
<1> HIDE DEF V, W
<1>5. CASE V = {} /\ n = 0
  BY <1>1, <1>4, <1>5
<1>6. ASSUME NEW e \in V, \A d \in V : d.tag <= e.tag, n = ValueOf(e)
      PROVE  Reads(T, k, s, n)
  <2>1. CASE e \in T
    BY <1>1, <1>4, <1>6, <2>1
  <2>2. CASE e \notin T
    <3>1. TypeOf(e) # kTypeValue /\ \A d \in V : d.tag < e.tag => d \notin T
      BY <1>1, <1>2, <1>6, <2>2
    <3>2. \A d \in V : d \in T => d.tag < e.tag
      BY <1>1, <1>6, <2>2
    <3>3. W = {}
      BY <1>1, <3>1, <3>2
    <3> QED BY <1>4, <1>6, <3>1, <3>3 DEF ValueOf
  <2> QED BY <2>1, <2>2
<1> QED BY <1>3, <1>5, <1>6

-----------------------------------------------------------------------------
(* What compactions do to reads *)

SnapshotsAre ==
  /\ snapshots \in Seq(Nat)
  /\ \A i \in DOMAIN snapshots : snapshots[i] <= last_sequence
  /\ \A i, j \in DOMAIN snapshots : i <= j => snapshots[i] <= snapshots[j]

(* Every snapshot there is, or will be, is at or after the one by which a  *)
(* compaction drops entries; and where a file has come below the output's  *)
(* level since it began, none of the keys it works on is in that file.     *)
InputsAre ==
  \A w \in compaction :
    /\ w.snapshot \in Nat /\ w.snapshot <= last_sequence
    /\ \A i \in DOMAIN snapshots : w.snapshot <= snapshots[i]
    /\ \A l \in Levels : l > w.c.level + 1 => \A g \in FilesIn(current[l]) :
         g \in FilesIn(w.version[l]) \/ \A f \in InputsOf(w.c) : Strangers(f, g)

StoreInv == TreeInv /\ SnapshotsAre /\ InputsAre

LEMMA Without ==
  ASSUME NEW S, NEW s \in Seq(S), NEW i \in DOMAIN s
  PROVE  LET t == SubSeq(s, 1, i - 1) \o SubSeq(s, i + 1, Len(s))
         IN  /\ t \in Seq(S) /\ Len(t) = Len(s) - 1
             /\ \A j \in 1..(Len(s) - 1) : t[j] = s[IF j < i THEN j ELSE j + 1]
<1> DEFINE n == Len(s)
           a == SubSeq(s, 1, i - 1)
           b == SubSeq(s, i + 1, n)
<1>1. n \in Nat /\ DOMAIN s = 1..n /\ i \in 1..n
  BY LenProperties
<1> HIDE DEF n
<1>2. \A j \in 1..n : s[j] \in S
  BY <1>1, ElementOfSeq
<1>3. /\ a \in Seq(S) /\ Len(a) = i - 1 /\ \A j \in 1..(i - 1) : a[j] = s[j]
  <2>1. \A j \in 1..(i - 1) : s[j] \in S
    BY <1>1, <1>2
  <2>2. i - 1 \in Int /\ 1 \in Int
    BY <1>1
  <2>3. /\ a \in Seq(S) /\ Len(a) = (IF 1 <= i - 1 THEN i - 1 - 1 + 1 ELSE 0)
        /\ \A j \in 1..(i - 1 - 1 + 1) : a[j] = s[1 + j - 1]
    BY <2>1, <2>2, SubSeqProperties
  <2> HIDE DEF a
  <2> QED BY <1>1, <2>3
<1>4. /\ b \in Seq(S) /\ Len(b) = n - i /\ \A j \in 1..(n - i) : b[j] = s[i + j]
  <2>1. \A j \in (i + 1)..n : s[j] \in S
    BY <1>1, <1>2
  <2>2. i + 1 \in Int /\ n \in Int
    BY <1>1
  <2>3. /\ b \in Seq(S) /\ Len(b) = (IF i + 1 <= n THEN n - (i + 1) + 1 ELSE 0)
        /\ \A j \in 1..(n - (i + 1) + 1) : b[j] = s[(i + 1) + j - 1]
    BY <2>1, <2>2, SubSeqProperties
  <2> HIDE DEF b
  <2>4. Len(b) = n - i
    BY <1>1, <2>3
  <2>5. ASSUME NEW j \in 1..(n - i) PROVE b[j] = s[i + j]
    <3>1. j \in 1..(n - (i + 1) + 1) /\ (i + 1) + j - 1 = i + j
      BY <1>1
    <3> QED BY <2>3, <3>1
  <2> QED BY <2>3, <2>4, <2>5
<1> HIDE DEF a, b
<1>5. /\ a \o b \in Seq(S) /\ Len(a \o b) = Len(a) + Len(b)
      /\ \A j \in 1..(Len(a) + Len(b)) :
           (a \o b)[j] = IF j <= Len(a) THEN a[j] ELSE b[j - Len(a)]
  BY <1>3, <1>4, ConcatProperties
<1>6. ASSUME NEW j \in 1..(n - 1) PROVE (a \o b)[j] = s[IF j < i THEN j ELSE j + 1]
  <2>1. j \in 1..(Len(a) + Len(b)) /\ (j <= Len(a) <=> j < i) /\ j \in Int
    BY <1>1, <1>3, <1>4
  <2>2. CASE j < i
    <3>1. j \in 1..(i - 1)
      BY <1>1, <2>2
    <3> QED BY <1>3, <1>5, <2>1, <2>2, <3>1
  <2>3. CASE ~(j < i)
    <3>1. j - (i - 1) \in 1..(n - i) /\ i + (j - (i - 1)) = j + 1
      BY <1>1, <2>1, <2>3
    <3>2. (a \o b)[j] = b[j - (i - 1)]
      BY <1>3, <1>5, <2>1, <2>3
    <3>3. b[j - (i - 1)] = s[j + 1]
      BY <1>4, <3>1
    <3> QED BY <2>3, <3>2, <3>3
  <2> QED BY <2>2, <2>3
<1>7. a \o b \in Seq(S) /\ Len(a \o b) = n - 1
  BY <1>1, <1>3, <1>4, <1>5
<1> QED BY <1>6, <1>7 DEF a, b, n

(* Files replaced by others made of their entries.                         *)
LEMMA Replaced ==
  ASSUME NEW v, Settled(v), NEW c, Sound(v, c), NEW edit, edit.deleted = InputDeletions(c),
         Fits(v, edit, c.level + 1)
  PROVE  LET new == Apply(v, edit)
             F   == {x.file : x \in edit.added}
         IN  /\ AllFiles(new) = (AllFiles(v) \ InputsOf(c)) \cup F
             /\ \A l \in Levels : FilesIn(new[l]) =
                  (FilesIn(v[l]) \ InputsOf(c)) \cup (IF l = c.level + 1 THEN F ELSE {})
<1> DEFINE F   == {x.file : x \in edit.added}
           L   == c.level + 1
           new == Apply(v, edit)
<1>1. L \in Levels /\ \A l \in Levels : GoneFrom(c, l) \subseteq InputsOf(c)
  BY SoundIs DEF GoneFrom, InputsOf
<1>2. \A l \in Levels : FilesIn(new[l]) = KeptIn(v, edit, l) \cup (IF l = L THEN F ELSE {})
  <2>1. Fits(v, edit, L)
    OBVIOUS
  <2> HIDE DEF L
  <2> QED BY <1>1, <2>1, InstalledIs
<1>3. \A l \in Levels : KeptIn(v, edit, l) = FilesIn(v[l]) \ GoneFrom(c, l)
  BY DeletionsAre
<1>4. ASSUME NEW l \in Levels, NEW f \in FilesIn(v[l]), f \in InputsOf(c)
      PROVE  f \in GoneFrom(c, l)
  <2>1. CASE f \in FilesIn(c.inputs0)
    <3>1. f \in FilesIn(v[c.level]) /\ c.level \in Levels
      BY <2>1, SoundIs
    <3>2. l = c.level
      BY <1>4, <3>1, OneLevel
    <3> QED BY <2>1, <3>2 DEF GoneFrom
  <2>2. CASE f \in FilesIn(c.inputs1)
    <3>1. f \in FilesIn(v[L]) /\ L \in Levels /\ L # c.level
      BY <2>2, SoundIs
    <3> HIDE DEF L
    <3>2. l = L
      BY <1>4, <3>1, OneLevel
    <3> QED BY <2>2, <3>1, <3>2 DEF GoneFrom, L
  <2> QED BY <1>4, <2>1, <2>2 DEF InputsOf
<1> HIDE DEF F, new, L
<1>5. \A l \in Levels : FilesIn(new[l]) =
        (FilesIn(v[l]) \ InputsOf(c)) \cup (IF l = L THEN F ELSE {})
  <2> TAKE l \in Levels
  <2>1. FilesIn(v[l]) \ GoneFrom(c, l) = FilesIn(v[l]) \ InputsOf(c)
    BY <1>1, <1>4
  <2> QED BY <1>2, <1>3, <2>1
<1>6. AllFiles(new) = (AllFiles(v) \ InputsOf(c)) \cup F
  BY <1>1, <1>5 DEF AllFiles
<1> QED BY <1>5, <1>6 DEF F, new, L

(* An entry a compaction does not write is hidden by a newer one of its    *)
(* inputs at the oldest snapshot, or it is a deletion none of whose older  *)
(* entries is written either, at a key no deeper level of the version has. *)
(* When no input is newer than the oldest snapshot, one entry of a key is  *)
(* written at most.                                                        *)
LEMMA DroppedIs ==
  ASSUME NEW c, IsFiniteSet(Compacted(c)), Compacted(c) \in SUBSET Entry,
         NEW v, NEW snapshot \in Nat
  PROVE  LET W == Written(c, v, snapshot, Sorted(Compacted(c), Before))
         IN  /\ W \subseteq Compacted(c)
             /\ \A d \in Compacted(c) : d \notin W =>
                  \/ \E e \in Compacted(c) : /\ e.key = d.key /\ d.tag < e.tag
                                             /\ SequenceOf(e) <= snapshot
                  \/ /\ TypeOf(d) = kTypeDeletion
                     /\ IsBaseLevelForKey(v, c.level, d.key)
                     /\ \A e \in Compacted(c) : e.key = d.key /\ e.tag < d.tag => e \notin W
             /\ (\A d \in Compacted(c) : SequenceOf(d) <= snapshot) =>
                  \A d, e \in W : d.key = e.key => d = e
<1> DEFINE S       == Compacted(c)
           input   == Sorted(S, Before)
           drop(i) == Drop(input, i, c.level, v, snapshot)
           W       == Written(c, v, snapshot, input)
<1>1. /\ input \in Seq(S)
      /\ \A e \in S : \E i \in DOMAIN input : input[i] = e
      /\ \A i, j \in DOMAIN input : i < j => Before(input[i], input[j])
  BY EntriesSorted
<1> HIDE DEF input
<1>2. /\ \A i \in DOMAIN input : input[i] \in S /\ i \in Nat /\ i >= 1
      /\ \A i \in DOMAIN input : i > 1 => i - 1 \in DOMAIN input
      /\ \A j \in DOMAIN input : \A i \in 1..j : i \in DOMAIN input
  <2>1. Len(input) \in Nat /\ DOMAIN input = 1..Len(input)
    BY <1>1, LenProperties
  <2> QED BY <1>1, <2>1, ElementOfSeq
<1>3. \A e \in S : e \in Entry /\ e.key \in Int /\ e.tag \in Nat
  BY DEF Entry, UserKeys
<1> HIDE DEF S
<1>4. \A e : e \in W <=> \E i \in DOMAIN input : e = input[i] /\ ~drop(i)
  BY DEF Written
<1>5. \A i \in DOMAIN input :
        drop(i) <=> \/ /\ i > 1
                       /\ input[i - 1].key = input[i].key
                       /\ SequenceOf(input[i - 1]) <= snapshot
                    \/ /\ TypeOf(input[i]) = kTypeDeletion
                       /\ SequenceOf(input[i]) <= snapshot
                       /\ IsBaseLevelForKey(v, c.level, input[i].key)
  BY DEF Drop
<1> HIDE DEF W, drop
<1>6. W \subseteq S
  BY <1>2, <1>4
<1>7. ASSUME NEW d \in S, d \notin W
      PROVE  \/ \E e \in S : e.key = d.key /\ d.tag < e.tag /\ SequenceOf(e) <= snapshot
             \/ /\ TypeOf(d) = kTypeDeletion
                /\ IsBaseLevelForKey(v, c.level, d.key)
                /\ \A e \in S : e.key = d.key /\ e.tag < d.tag => e \notin W
  <2>1. PICK i \in DOMAIN input : input[i] = d
    BY <1>1
  <2>2. drop(i)
    BY <1>4, <1>7, <2>1
  <2>3. CASE i > 1 /\ input[i - 1].key = d.key /\ SequenceOf(input[i - 1]) <= snapshot
    <3> DEFINE e == input[i - 1]
    <3>1. i - 1 \in DOMAIN input /\ e \in S /\ i - 1 < i
      BY <1>2, <2>3
    <3>2. Before(e, d)
      BY <1>1, <2>1, <3>1
    <3>3. d.tag < e.tag
      BY <1>3, <2>3, <3>1, <3>2 DEF Before
    <3> QED BY <2>3, <3>1, <3>3
  <2>4. CASE /\ TypeOf(d) = kTypeDeletion
             /\ SequenceOf(d) <= snapshot
             /\ IsBaseLevelForKey(v, c.level, d.key)
    <3>1. ASSUME NEW e \in S, e.key = d.key, e.tag < d.tag, e \in W PROVE FALSE
      <4>1. PICK j \in DOMAIN input : e = input[j] /\ ~drop(j)
        BY <1>4, <3>1
      <4>2. i \in Nat /\ j \in Nat /\ i < j
        <5>1. ~Before(e, d) /\ e # d
          BY <1>3, <3>1 DEF Before
        <5> QED BY <1>1, <1>2, <2>1, <4>1, <5>1
      <4> DEFINE h == input[j - 1]
      <4>3. /\ j - 1 \in DOMAIN input /\ h \in S /\ i <= j - 1 /\ j - 1 < j /\ j > 1
            /\ j - 1 \in Nat
        BY <1>2, <4>2
      <4>4. Before(h, e)
        BY <1>1, <4>1, <4>3
      <4>5. h = d \/ Before(d, h)
        <5>1. i = j - 1 \/ i < j - 1
          BY <4>2, <4>3
        <5> QED BY <1>1, <2>1, <4>3, <5>1
      <4> HIDE DEF h
      <4>6. h.key = d.key /\ h.tag <= d.tag
        BY <1>3, <3>1, <4>3, <4>4, <4>5 DEF Before
      <4>7. SequenceOf(h) <= snapshot
        <5> DEFINE a == h.tag
                   b == d.tag
        <5>1. a \in Nat /\ b \in Nat /\ a <= b
          BY <1>3, <4>3, <4>6
        <5>2. b \div 2 <= snapshot
          BY <2>4 DEF SequenceOf
        <5> HIDE DEF a, b
        <5>3. a \div 2 <= snapshot
          BY <5>1, <5>2
        <5> QED BY <5>3 DEF SequenceOf, a
      <4> QED BY <1>5, <3>1, <4>1, <4>3, <4>6, <4>7 DEF h
    <3> QED BY <2>4, <3>1
  <2> QED BY <1>5, <2>1, <2>2, <2>3, <2>4
<1>8. ASSUME \A d \in S : SequenceOf(d) <= snapshot, NEW d \in W, NEW e \in W, d.key = e.key
      PROVE  d = e
  <2>1. PICK i \in DOMAIN input : d = input[i] /\ ~drop(i)
    BY <1>4
  <2>2. PICK j \in DOMAIN input : e = input[j] /\ ~drop(j)
    BY <1>4
  <2>3. ASSUME NEW a \in DOMAIN input, NEW b \in DOMAIN input, a < b,
               input[a].key = input[b].key
        PROVE  drop(b)
    <3> DEFINE h == input[b - 1]
               x == input[a]
               y == input[b]
    <3>1. b > 1 /\ b - 1 \in DOMAIN input /\ b - 1 < b /\ b - 1 \in Nat /\ a \in Nat /\ a <= b - 1
      BY <1>2, <2>3
    <3>2. h \in S /\ x \in S /\ y \in S /\ Before(h, y)
      BY <1>1, <1>2, <3>1
    <3>3. x = h \/ Before(x, h)
      <4>1. a = b - 1 \/ a < b - 1
        BY <3>1
      <4> QED BY <1>1, <3>1, <4>1
    <3>4. x.key = y.key
      BY <2>3
    <3> HIDE DEF h, x, y
    <3>5. h.key = y.key
      BY <1>3, <3>2, <3>3, <3>4 DEF Before
    <3>6. SequenceOf(h) <= snapshot
      BY <1>8, <3>2
    <3> QED BY <1>5, <3>1, <3>5, <3>6 DEF h, y
  <2>4. i < j \/ j < i \/ i = j
    BY <1>2
  <2> QED BY <1>8, <2>1, <2>2, <2>3, <2>4
<1> QED BY <1>6, <1>7, <1>8 DEF S, W, input

LEMMA StaysStore ==
  ASSUME SnapshotsAre, InputsAre, last_sequence \in Nat, last_sequence' \in Nat,
         last_sequence <= last_sequence', UNCHANGED <<current, compaction, snapshots>>
  PROVE  SnapshotsAre' /\ InputsAre'
<1>1. \A i \in DOMAIN snapshots : snapshots[i] \in Nat
  BY ElementOfSeq DEF SnapshotsAre
<1>2. SnapshotsAre'
  BY <1>1 DEF SnapshotsAre
<1>3. InputsAre'
  BY DEF InputsAre
<1> QED BY <1>2, <1>3

LEMMA GetSnapshotStore ==
  ASSUME SnapshotsAre, InputsAre, last_sequence \in Nat, GetSnapshot
  PROVE  SnapshotsAre' /\ InputsAre'
<1> DEFINE s == snapshots
           n == Len(s)
           t == Append(s, last_sequence)
<1>1. snapshots' = t /\ UNCHANGED <<last_sequence, current, compaction>>
  BY DEF GetSnapshot
<1>2. /\ s \in Seq(Nat) /\ n \in Nat /\ DOMAIN s = 1..n
      /\ \A i \in 1..n : s[i] \in Nat /\ s[i] <= last_sequence
      /\ \A i, j \in 1..n : i <= j => s[i] <= s[j]
  BY LenProperties, ElementOfSeq DEF SnapshotsAre
<1>3. /\ t \in Seq(Nat) /\ DOMAIN t = 1..(n + 1)
      /\ \A i \in 1..n : t[i] = s[i]
      /\ t[n + 1] = last_sequence
  BY <1>2, AppendProperties, LenProperties
<1> HIDE DEF s, n, t
<1>4. \A i \in 1..(n + 1) : i \in 1..n \/ i = n + 1
  BY <1>2
<1>5. SnapshotsAre'
  <2>1. \A i \in 1..(n + 1) : t[i] \in Nat /\ t[i] <= last_sequence
    BY <1>2, <1>3, <1>4
  <2>2. ASSUME NEW i \in 1..(n + 1), NEW j \in 1..(n + 1), i <= j PROVE t[i] <= t[j]
    <3>1. CASE j = n + 1
      BY <1>3, <2>1, <3>1
    <3>2. CASE j \in 1..n
      <4>1. i \in 1..n
        BY <1>2, <2>2, <3>2
      <4> QED BY <1>2, <1>3, <2>2, <3>2, <4>1
    <3> QED BY <1>4, <3>1, <3>2
  <2> QED BY <1>1, <1>3, <2>1, <2>2 DEF SnapshotsAre
<1>6. \A w \in compaction : w.snapshot <= last_sequence /\ \A i \in 1..n : w.snapshot <= s[i]
  BY <1>2 DEF InputsAre, s
<1>7. \A w \in compaction : \A i \in DOMAIN t : w.snapshot <= t[i]
  BY <1>3, <1>4, <1>6
<1>8. InputsAre'
  BY <1>1, <1>7 DEF InputsAre
<1> QED BY <1>5, <1>8

LEMMA ReleaseStore ==
  ASSUME SnapshotsAre, InputsAre, NEW i \in DOMAIN snapshots, ReleaseSnapshot(i)
  PROVE  SnapshotsAre' /\ InputsAre'
<1> DEFINE s == snapshots
           n == Len(s)
           t == SubSeq(s, 1, i - 1) \o SubSeq(s, i + 1, Len(s))
<1>1. snapshots' = t /\ UNCHANGED <<last_sequence, current, compaction>>
  BY DEF ReleaseSnapshot
<1>2. s \in Seq(Nat) /\ n \in Nat /\ DOMAIN s = 1..n /\ i \in 1..n
  BY LenProperties DEF SnapshotsAre
<1>3. t \in Seq(Nat) /\ DOMAIN t = 1..(n - 1)
      /\ \A j \in 1..(n - 1) : t[j] = s[IF j < i THEN j ELSE j + 1]
  <2>1. t \in Seq(Nat) /\ Len(t) = n - 1
        /\ \A j \in 1..(n - 1) : t[j] = s[IF j < i THEN j ELSE j + 1]
    BY <1>2, Without
  <2> HIDE DEF t, n
  <2> QED BY <2>1, LenProperties
<1>4. /\ \A j \in 1..n : s[j] <= last_sequence
      /\ \A j, k \in 1..n : j <= k => s[j] <= s[k]
      /\ \A w \in compaction : \A j \in 1..n : w.snapshot <= s[j]
  BY <1>2 DEF SnapshotsAre, InputsAre
<1> HIDE DEF s, n, t
<1>5. /\ \A j \in 1..(n - 1) : (IF j < i THEN j ELSE j + 1) \in 1..n
      /\ \A j, k \in 1..(n - 1) : j <= k =>
           (IF j < i THEN j ELSE j + 1) <= (IF k < i THEN k ELSE k + 1)
  BY <1>2
<1>6. SnapshotsAre'
  <2>1. \A j \in 1..(n - 1) : t[j] <= last_sequence
    BY <1>3, <1>4, <1>5
  <2>2. \A j, k \in 1..(n - 1) : j <= k => t[j] <= t[k]
    BY <1>3, <1>4, <1>5
  <2> QED BY <1>1, <1>3, <2>1, <2>2 DEF SnapshotsAre
<1>7. \A w \in compaction : \A j \in DOMAIN t : w.snapshot <= t[j]
  BY <1>3, <1>4, <1>5
<1>8. InputsAre'
  BY <1>1, <1>7 DEF InputsAre
<1> QED BY <1>6, <1>8

LEMMA FlushStore ==
  ASSUME StoreInv, CompactMemTable
  PROVE  SnapshotsAre' /\ InputsAre'
<1>1. PICK p, f : Flushed(current, current', p, f)
  BY FlushIs DEF StoreInv
<1>2. UNCHANGED <<last_sequence, snapshots, compaction>>
  BY DEF CompactMemTable
<1>3. ASSUME NEW w \in compaction, NEW l \in Levels, l > w.c.level + 1,
             NEW g \in FilesIn(current'[l])
      PROVE  g \in FilesIn(w.version[l]) \/ \A h \in InputsOf(w.c) : Strangers(h, g)
  <2> DEFINE c == w.c
  <2>1. Settled(current) /\ Sound(current, c) /\ l > c.level + 1
    BY <1>3 DEF StoreInv, TreeInv, FilesAre, WorkIs
  <2>2. CASE g \in FilesIn(current[l])
    BY <1>3, <2>2 DEF StoreInv, InputsAre
  <2>3. CASE g = f /\ l = p
    <3> HIDE DEF c
    <3>1. /\ c.level \in Levels /\ c.level + 1 \in Levels
          /\ FilesIn(c.inputs0) \subseteq FilesIn(current[c.level])
          /\ FilesIn(c.inputs1) \subseteq FilesIn(current[c.level + 1])
          /\ InputsOf(c) \in SUBSET File
      BY <2>1, SoundIs
    <3>2. c.level <= p /\ c.level + 1 <= p /\ p > 0
      BY <2>1, <2>3, <3>1, LevelsAre
    <3>3. f \in File /\ \A m \in Levels : m <= p => \A h \in FilesIn(current[m]) : Outside(h, Ends(f))
      BY <1>1, <3>2 DEF Flushed
    <3>4. \A h \in InputsOf(c) : h \in File /\ Outside(h, Ends(f))
      BY <3>1, <3>2, <3>3 DEF InputsOf
    <3>5. \A h \in InputsOf(c) : Strangers(h, f)
      BY <3>3, <3>4, OutsideIs
    <3> QED BY <2>3, <3>5 DEF c
  <2> QED BY <1>1, <1>3, <2>2, <2>3 DEF Flushed
<1>4. SnapshotsAre'
  BY <1>2 DEF StoreInv, SnapshotsAre
<1>5. \A w \in compaction : /\ w.snapshot \in Nat /\ w.snapshot <= last_sequence
                            /\ \A i \in DOMAIN snapshots : w.snapshot <= snapshots[i]
  BY DEF StoreInv, InputsAre
<1>6. \A w \in compaction, l \in Levels : l > w.c.level + 1 => \A g \in FilesIn(current'[l]) :
        g \in FilesIn(w.version[l]) \/ \A h \in InputsOf(w.c) : Strangers(h, g)
  BY <1>3
<1>7. InputsAre'
  BY <1>2, <1>5, <1>6 DEF InputsAre
<1> QED BY <1>4, <1>7

LEMMA BackgroundStore ==
  ASSUME StoreInv, BackgroundCompaction
  PROVE  SnapshotsAre' /\ InputsAre'
<1>1. UNCHANGED <<last_sequence, snapshots>> /\ compaction = {}
  BY DEF BackgroundCompaction
<1>2. SnapshotsAre'
  BY <1>1 DEF StoreInv, SnapshotsAre
<1>3. \A w \in compaction' : w.version = current /\ current' = current /\ w.snapshot = SmallestSnapshot
  <2>1. CASE NothingToCompact
    BY <1>1, <2>1 DEF NothingToCompact
  <2>2. ASSUME NEW c, StartCompaction(c)
        PROVE  \A w \in compaction' :
                 w.version = current /\ current' = current /\ w.snapshot = SmallestSnapshot
    <3>1. CASE Registered = {} /\ IsTrivialMove(c)
      BY <1>1, <2>2, <3>1 DEF StartCompaction
    <3>2. CASE ~(Registered = {} /\ IsTrivialMove(c))
      BY <2>2, <3>2 DEF StartCompaction
    <3> QED BY <3>1, <3>2
  <2> QED BY <2>1, <2>2 DEF BackgroundCompaction, StartChosen
<1>4. /\ SmallestSnapshot \in Nat /\ SmallestSnapshot <= last_sequence
      /\ \A i \in DOMAIN snapshots : SmallestSnapshot <= snapshots[i]
  <2>1. last_sequence \in Nat
    BY EntriesAre DEF StoreInv
  <2>2. snapshots \in Seq(Nat)
    BY DEF StoreInv, SnapshotsAre
  <2>3. CASE snapshots = <<>>
    BY <2>1, <2>3 DEF SmallestSnapshot
  <2>4. CASE snapshots # <<>>
    <3>1. 1 \in DOMAIN snapshots /\ \A i \in DOMAIN snapshots : 1 <= i
      BY <2>2, <2>4, LenProperties, EmptySeq
    <3>2. snapshots[1] \in Nat
      BY <2>2, <3>1, ElementOfSeq
    <3> QED BY <2>4, <3>1, <3>2 DEF SmallestSnapshot, StoreInv, SnapshotsAre
  <2> QED BY <2>3, <2>4
<1>5. InputsAre'
  BY <1>1, <1>3, <1>4 DEF InputsAre
<1> QED BY <1>2, <1>5

LEMMA InstallStore ==
  ASSUME StoreInv, InstallCompactionResults
  PROVE  SnapshotsAre' /\ InputsAre'
<1>1. compaction' = {} /\ UNCHANGED <<last_sequence, snapshots>>
  BY DEF InstallCompactionResults
<1> QED BY <1>1 DEF StoreInv, SnapshotsAre, InputsAre

LEMMA NextStore == ManualRequests = {} /\ ReadersAre /\ StoreInv /\ [Next]_vars => StoreInv'
<1> SUFFICES ASSUME ManualRequests = {}, ReadersAre, StoreInv, [Next]_vars PROVE StoreInv'
  OBVIOUS
<1>1. TreeInv /\ SnapshotsAre /\ InputsAre /\ last_sequence \in Nat
  BY EntriesAre DEF StoreInv
<1>2. TreeInv'
  BY <1>1, NextTree
<1>3. SnapshotsAre' /\ InputsAre'
  <2>1. ASSUME UNCHANGED <<current, compaction, snapshots>>,
               last_sequence' = last_sequence \/ last_sequence' = last_sequence + 1
        PROVE  SnapshotsAre' /\ InputsAre'
    <3>1. last_sequence' \in Nat /\ last_sequence <= last_sequence'
      BY <1>1, <2>1
    <3> QED BY <1>1, <2>1, <3>1, StaysStore
  <2>2. ASSUME NEW k \in UserKeys, NEW type \in WriteTypes, Write(k, type)
        PROVE  SnapshotsAre' /\ InputsAre'
    BY <2>1, <2>2 DEF Write
  <2>3. CASE SwitchMemTable
    BY <2>1, <2>3 DEF SwitchMemTable
  <2>4. CASE GetSnapshot
    BY <1>1, <2>4, GetSnapshotStore
  <2>5. ASSUME NEW i \in DOMAIN snapshots, ReleaseSnapshot(i)
        PROVE  SnapshotsAre' /\ InputsAre'
    BY <1>1, <2>5, ReleaseStore
  <2>6. ASSUME NEW k \in UserKeys, GetFromFiles(k)
        PROVE  SnapshotsAre' /\ InputsAre'
    BY <2>1, <2>6 DEF GetFromFiles
  <2>13. ASSUME NEW g \in getting, UpdateStats(g)
         PROVE  SnapshotsAre' /\ InputsAre'
    BY <2>1, <2>13 DEF UpdateStats
  <2>7. ~\E m \in manual : RequestCompactRange([m EXCEPT !.registered = TRUE])
    BY <1>1 DEF TreeInv, WorkIs
  <2>8. CASE CompactMemTable
    BY <2>8, FlushStore
  <2>9. CASE BackgroundCompaction
    BY <2>9, BackgroundStore
  <2>10. CASE InstallCompactionResults
    BY <2>10, InstallStore
  <2>11. CASE Observe
    BY <2>1, <2>11 DEF Observe
  <2>12. CASE UNCHANGED vars
    BY <2>1, <2>12 DEF vars
  <2> QED BY <2>2, <2>3, <2>4, <2>5, <2>6, <2>7, <2>8, <2>9, <2>10, <2>11, <2>12, <2>13
          DEF Next, Step
<1> QED BY <1>1, <1>2, <1>3 DEF StoreInv

-----------------------------------------------------------------------------
(* What a step does to what readers get *)

(* What readers get from one state to the next: nothing new, or what one   *)
(* step of the abstract store does.                                        *)
StoreStep(r, q) ==
  \/ q.writes = r.writes /\ q.latest = r.latest /\ q.views = r.views
  \/ /\ q.writes = r.writes + 1 /\ q.views = r.views
     /\ \E k \in UserKeys : \E x \in {q.writes, 0} : q.latest = [r.latest EXCEPT ![k] = x]
  \/ /\ q.writes = r.writes /\ q.latest = r.latest
     /\ q.views = Append(r.views, r.latest)
  \/ /\ q.writes = r.writes /\ q.latest = r.latest
     /\ \E i \in DOMAIN r.views :
          q.views = SubSeq(r.views, 1, i - 1) \o SubSeq(r.views, i + 1, Len(r.views))

LEMMA SameReadings ==
  ASSUME NEW m, NEW i, NEW v, NEW m2, NEW i2, NEW v2, NEW n \in Nat, NEW ss \in Seq(Nat),
         \A s \in Nat : s = n \/ (\E j \in DOMAIN ss : s = ss[j]) =>
           ViewIn(m2, i2, v2, s) = ViewIn(m, i, v, s)
  PROVE  ReadingsIn(m2, i2, v2, n, ss) = ReadingsIn(m, i, v, n, ss)
<1>1. ViewIn(m2, i2, v2, n) = ViewIn(m, i, v, n)
  OBVIOUS
<1>2. \A j \in DOMAIN ss : ss[j] \in Nat
  BY ElementOfSeq
<1>3. \A j \in DOMAIN ss : ViewIn(m2, i2, v2, ss[j]) = ViewIn(m, i, v, ss[j])
  BY <1>2
<1> QED BY <1>1, <1>3 DEF ReadingsIn

(* What snapshots show is one view after the other, as they are kept.      *)
Shown(F, ss) == [j \in DOMAIN ss |-> F[ss[j]]]

LEMMA ShownIs ==
  ASSUME NEW F, NEW ss \in Seq(Nat), NEW n \in Nat
  PROVE  /\ Shown(F, Append(ss, n)) = Append(Shown(F, ss), F[n])
         /\ DOMAIN Shown(F, ss) = DOMAIN ss
         /\ \A i \in DOMAIN ss :
              Shown(F, SubSeq(ss, 1, i - 1) \o SubSeq(ss, i + 1, Len(ss))) =
                LET t == Shown(F, ss)
                IN  SubSeq(t, 1, i - 1) \o SubSeq(t, i + 1, Len(t))
<1> DEFINE T == {F[s] : s \in Nat}
           t == Shown(F, ss)
           c == Len(ss)
<1>1. c \in Nat /\ DOMAIN ss = 1..c /\ \A j \in 1..c : ss[j] \in Nat
  BY LenProperties, ElementOfSeq
<1>2. t \in Seq(T) /\ Len(t) = c /\ DOMAIN t = 1..c /\ \A j \in 1..c : t[j] = F[ss[j]]
  <2>1. t = [j \in 1..c |-> F[ss[j]]]
    BY <1>1 DEF Shown
  <2>2. t \in [1..c -> T]
    BY <1>1, <2>1
  <2> HIDE DEF t, T, c
  <2>3. t \in Seq(T)
    BY <1>1, <2>2, SeqDef
  <2> QED BY <1>1, <2>1, <2>2, <2>3, LenProperties
<1> HIDE DEF t, T
<1>3. Shown(F, Append(ss, n)) = Append(t, F[n])
  <2> DEFINE a == Append(ss, n)
             b == Append(t, F[n])
  <2>1. a \in Seq(Nat) /\ Len(a) = c + 1 /\ a[c + 1] = n /\ \A j \in 1..c : a[j] = ss[j]
    BY AppendProperties, <1>1
  <2>2. F[n] \in T
    BY DEF T
  <2>3. b \in Seq(T) /\ Len(b) = c + 1 /\ b[c + 1] = F[n] /\ \A j \in 1..c : b[j] = t[j]
    BY <1>2, <2>2, AppendProperties
  <2> HIDE DEF a, b, c
  <2>4. DOMAIN a = 1..(c + 1) /\ DOMAIN b = 1..(c + 1)
    BY <2>1, <2>3, LenProperties
  <2>5. b = [j \in 1..(c + 1) |-> b[j]]
    <3>1. b \in [1..(c + 1) -> T]
      BY <2>3, LenProperties
    <3> QED BY <3>1
  <2>6. \A j \in 1..(c + 1) : F[a[j]] = b[j]
    <3>1. \A j \in 1..(c + 1) : j \in 1..c \/ j = c + 1
      BY <1>1
    <3> QED BY <1>2, <2>1, <2>3, <3>1
  <2>7. Shown(F, a) = [j \in 1..(c + 1) |-> F[a[j]]]
    BY <2>4 DEF Shown
  <2>8. Shown(F, a) = b
    BY <2>5, <2>6, <2>7
  <2> QED BY <2>8 DEF a, b
<1>4. ASSUME NEW i \in DOMAIN ss
      PROVE  Shown(F, SubSeq(ss, 1, i - 1) \o SubSeq(ss, i + 1, Len(ss))) =
               SubSeq(t, 1, i - 1) \o SubSeq(t, i + 1, Len(t))
  <2> DEFINE a == SubSeq(ss, 1, i - 1) \o SubSeq(ss, i + 1, Len(ss))
             b == SubSeq(t, 1, i - 1) \o SubSeq(t, i + 1, Len(t))
  <2>1. a \in Seq(Nat) /\ Len(a) = c - 1 /\ \A j \in 1..(c - 1) : a[j] = ss[IF j < i THEN j ELSE j + 1]
    BY Without
  <2>2. i \in DOMAIN t
    BY <1>1, <1>2
  <2>3. b \in Seq(T) /\ Len(b) = c - 1 /\ \A j \in 1..(c - 1) : b[j] = t[IF j < i THEN j ELSE j + 1]
    <3>1. b \in Seq(T) /\ Len(b) = Len(t) - 1
          /\ \A j \in 1..(Len(t) - 1) : b[j] = t[IF j < i THEN j ELSE j + 1]
      BY <1>2, <2>2, Without
    <3> HIDE DEF b, c
    <3> QED BY <1>2, <3>1
  <2> HIDE DEF a, b, c
  <2>4. DOMAIN a = 1..(c - 1) /\ DOMAIN b = 1..(c - 1)
    BY <2>1, <2>3, LenProperties
  <2>5. b = [j \in 1..(c - 1) |-> b[j]]
    <3>1. b \in [1..(c - 1) -> T]
      BY <2>3, LenProperties
    <3> QED BY <3>1
  <2>6. \A j \in 1..(c - 1) : F[a[j]] = b[j]
    <3>1. \A j \in 1..(c - 1) : (IF j < i THEN j ELSE j + 1) \in 1..c
      BY <1>1
    <3> QED BY <1>2, <2>1, <2>3, <3>1
  <2>7. Shown(F, a) = [j \in 1..(c - 1) |-> F[a[j]]]
    BY <2>4 DEF Shown
  <2>8. Shown(F, a) = b
    BY <2>5, <2>6, <2>7
  <2> QED BY <2>8 DEF a, b
<1> QED BY <1>1, <1>2, <1>3, <1>4 DEF t

LEMMA ReadingsShow ==
  ASSUME NEW m, NEW i, NEW v, NEW n, NEW ss \in Seq(Nat)
  PROVE  ReadingsIn(m, i, v, n, ss) =
           [writes |-> n, latest |-> ViewIn(m, i, v, n),
            views |-> Shown([s \in Nat |-> ViewIn(m, i, v, s)], ss)]
<1>1. \A j \in DOMAIN ss : ss[j] \in Nat
  BY ElementOfSeq
<1> QED BY <1>1 DEF ReadingsIn, Shown

LEMMA PlacedNow ==
  TreeInv => /\ InPlace(mem, imm, current) /\ last_sequence \in Nat
             /\ \A e \in StoredIn(mem, imm, current) : e \in Entry /\ e.tag <= 2 * last_sequence + 1
BY TreeInPlace, EntriesAre

LEMMA PlacedNext == TreeInv' => InPlace(mem', imm', current')
<1>1. (TreeInv => InPlace(mem, imm, current))'
  BY PlacedNow, PTL
<1> QED BY <1>1 DEF InPlace

(* A step that neither writes nor takes or releases snapshots is not seen  *)
(* when there is the same to read at each of the snapshots.                *)
LEMMA Unseen ==
  ASSUME StoreInv, StoreInv', UNCHANGED <<last_sequence, snapshots>>,
         \A s \in Nat : s = last_sequence \/ (\E j \in DOMAIN snapshots : s = snapshots[j]) =>
           \A k \in UserKeys : \A n : Reads(StoredIn(mem, imm, current), k, s, n) =>
                                      Reads(StoredIn(mem', imm', current'), k, s, n)
  PROVE  Readings' = Readings
<1>1. /\ InPlace(mem, imm, current) /\ InPlace(mem', imm', current')
      /\ last_sequence \in Nat /\ snapshots \in Seq(Nat)
  BY PlacedNow, PlacedNext DEF StoreInv, SnapshotsAre
<1>2. ASSUME NEW s \in Nat, s = last_sequence \/ \E j \in DOMAIN snapshots : s = snapshots[j]
      PROVE  ViewIn(mem', imm', current', s) = ViewIn(mem, imm, current, s)
  BY <1>1, <1>2, SameView
<1>3. ReadingsIn(mem', imm', current', last_sequence, snapshots) =
        ReadingsIn(mem, imm, current, last_sequence, snapshots)
  BY <1>1, <1>2, SameReadings
<1> QED BY <1>3, ReadingsAre

LEMMA SwitchUnseen ==
  ASSUME StoreInv, StoreInv', SwitchMemTable
  PROVE  Readings' = Readings
<1>1. StoredIn(mem', imm', current') = StoredIn(mem, imm, current)
  BY DEF SwitchMemTable, StoredIn
<1> QED BY <1>1, Unseen DEF SwitchMemTable

LEMMA FlushKeeps ==
  ASSUME TreeInv, CompactMemTable
  PROVE  StoredIn(mem', imm', current') = StoredIn(mem, imm, current)
<1>1. PICK p, f : Flushed(current, current', p, f) /\ f.entries = imm
  BY FlushIs
<1>2. imm' = {} /\ UNCHANGED mem
  BY DEF CompactMemTable
<1>3. AllFiles(current') = AllFiles(current) \cup {f}
  BY <1>1 DEF Flushed, AllFiles
<1>4. EntriesIn(current') = EntriesIn(current) \cup imm
  BY <1>1, <1>3 DEF EntriesIn
<1> QED BY <1>2, <1>4 DEF StoredIn

LEMMA FlushUnseen ==
  ASSUME StoreInv, StoreInv', CompactMemTable
  PROVE  Readings' = Readings
<1>1. UNCHANGED <<last_sequence, snapshots>>
  BY DEF CompactMemTable
<1> QED BY <1>1, FlushKeeps, Unseen DEF StoreInv

LEMMA BackgroundKeeps ==
  ASSUME TreeInv, BackgroundCompaction
  PROVE  StoredIn(mem', imm', current') = StoredIn(mem, imm, current)
<1> DEFINE c == PickCompaction(current, compact_pointer, file_to_compact)
<1>1. manual = {} /\ Registered = {}
  BY DEF TreeInv, WorkIs, Registered
<1>2. Settled(current) /\ Sound(current, c)
  <2>1. NeedsCompaction(current, file_to_compact)
    BY <1>1 DEF BackgroundCompaction
  <2> QED BY <2>1, PickCompactionIs DEF TreeInv, FilesAre, WorkIs, Settled
<1> HIDE DEF c
<1>3. StartCompaction(c) /\ UNCHANGED <<mem, imm>>
  <2>1. Chosen = {c}
    BY <1>1 DEF Chosen, c
  <2> QED BY <2>1 DEF BackgroundCompaction, StartChosen
<1>4. CASE IsTrivialMove(c)
  <2> DEFINE e == MoveEdit(c)
  <2>1. current' = Apply(current, e)
    BY <1>1, <1>3, <1>4 DEF StartCompaction, Install, MoveEdit
  <2>2. /\ Fits(current, e, c.level + 1) /\ e.deleted = InputDeletions(c)
        /\ {x.file : x \in e.added} = InputsOf(c)
    BY <1>2, <1>4, MoveFits
  <2> HIDE DEF e
  <2>3. AllFiles(Apply(current, e)) = (AllFiles(current) \ InputsOf(c)) \cup InputsOf(c)
    BY <1>2, <2>2, Replaced
  <2>4. InputsOf(c) \subseteq AllFiles(current)
    <3>1. /\ FilesIn(c.inputs0) \subseteq AllFiles(current)
          /\ FilesIn(c.inputs1) \subseteq AllFiles(current)
      BY <1>2, SoundIs, FilesOfTree
    <3> QED BY <3>1 DEF InputsOf
  <2>5. AllFiles(current') = AllFiles(current)
    BY <2>1, <2>3, <2>4
  <2> QED BY <1>3, <2>5 DEF StoredIn, EntriesIn
<1>5. CASE ~IsTrivialMove(c)
  <2>1. current' = current
    BY <1>3, <1>5 DEF StartCompaction
  <2> QED BY <1>3, <2>1
<1> QED BY <1>4, <1>5

LEMMA BackgroundUnseen ==
  ASSUME StoreInv, StoreInv', BackgroundCompaction
  PROVE  Readings' = Readings
<1>1. UNCHANGED <<last_sequence, snapshots>>
  BY DEF BackgroundCompaction
<1> QED BY <1>1, BackgroundKeeps, Unseen DEF StoreInv

LEMMA GetSnapshotSeen ==
  ASSUME StoreInv, GetSnapshot
  PROVE  StoreStep(Readings, Readings')
<1> DEFINE F == [s \in Nat |-> ViewIn(mem, imm, current, s)]
           n == last_sequence
<1>1. snapshots' = Append(snapshots, n) /\ UNCHANGED <<mem, imm, current, last_sequence>>
  BY DEF GetSnapshot
<1>2. n \in Nat /\ snapshots \in Seq(Nat)
  BY PlacedNow DEF StoreInv, SnapshotsAre
<1>3. Append(snapshots, n) \in Seq(Nat)
  BY <1>2, AppendProperties
<1>4. Readings = [writes |-> n, latest |-> F[n], views |-> Shown(F, snapshots)]
  BY <1>2, ReadingsAre, ReadingsShow
<1>5. Readings' = [writes |-> n, latest |-> F[n], views |-> Shown(F, Append(snapshots, n))]
  BY <1>1, <1>2, <1>3, ReadingsAre, ReadingsShow
<1> HIDE DEF F, n
<1>6. Shown(F, Append(snapshots, n)) = Append(Shown(F, snapshots), F[n])
  BY <1>2, ShownIs
<1> QED BY <1>4, <1>5, <1>6 DEF StoreStep

LEMMA ReleaseSeen ==
  ASSUME StoreInv, NEW i \in DOMAIN snapshots, ReleaseSnapshot(i)
  PROVE  StoreStep(Readings, Readings')
<1> DEFINE F == [s \in Nat |-> ViewIn(mem, imm, current, s)]
           n == last_sequence
           t == SubSeq(snapshots, 1, i - 1) \o SubSeq(snapshots, i + 1, Len(snapshots))
           v == Shown(F, snapshots)
<1>1. snapshots' = t /\ UNCHANGED <<mem, imm, current, last_sequence>>
  BY DEF ReleaseSnapshot
<1>2. n \in Nat /\ snapshots \in Seq(Nat)
  BY PlacedNow DEF StoreInv, SnapshotsAre
<1>3. t \in Seq(Nat)
  BY <1>2, Without
<1>4. Readings = [writes |-> n, latest |-> F[n], views |-> v]
  BY <1>2, ReadingsAre, ReadingsShow
<1>5. Readings' = [writes |-> n, latest |-> F[n], views |-> Shown(F, t)]
  BY <1>1, <1>2, <1>3, ReadingsAre, ReadingsShow
<1> HIDE DEF F, n
<1>6. i \in DOMAIN v /\ Shown(F, t) = SubSeq(v, 1, i - 1) \o SubSeq(v, i + 1, Len(v))
  BY <1>2, ShownIs
<1> HIDE DEF v, t
<1> QED BY <1>4, <1>5, <1>6 DEF StoreStep

(* One more entry, newer than all others: snapshots show what they did,    *)
(* and now its key reads as it says.                                       *)
LEMMA JoinedIs ==
  ASSUME NEW S \in SUBSET Entry, NEW n \in Nat, \A d \in S : d.tag <= 2 * n + 1,
         NEW e \in Entry, e.tag \in {2 * (n + 1), 2 * (n + 1) + 1}
  PROVE  /\ \A k \in UserKeys, s \in 0..n : \A x :
              Reads(S, k, s, x) => Reads(S \cup {e}, k, s, x)
         /\ \A k \in UserKeys : \A x : k # e.key /\ Reads(S, k, n, x) => Reads(S \cup {e}, k, n + 1, x)
         /\ Reads(S \cup {e}, e.key, n + 1, ValueOf(e))
         /\ ValueOf(e) \in {n + 1, 0}
<1> DEFINE T == S \cup {e}
<1>1. \A k \in UserKeys, s \in Nat : \A d : d \in Visible(S, LookupKey(k, s)) <=>
        d \in S /\ d.key = k /\ d.tag <= 2 * s + 1
  BY LookupKeyIs DEF Visible
<1>2. \A k \in UserKeys, s \in Nat : \A d : d \in Visible(T, LookupKey(k, s)) <=>
        (d \in S \/ d = e) /\ d.key = k /\ d.tag <= 2 * s + 1
  BY LookupKeyIs DEF Visible
<1>3. \A d \in S : d.tag \in Nat /\ d.tag < e.tag
  BY DEF Entry
<1> HIDE DEF T
<1>4. e.tag \in Nat /\ e.key \in UserKeys
  BY DEF Entry
<1>5. ASSUME NEW k \in UserKeys, NEW s \in 0..n, NEW x, Reads(S, k, s, x)
      PROVE  Reads(T, k, s, x)
  <2>1. s \in Nat /\ ~(e.tag <= 2 * s + 1)
    BY <1>4
  <2> DEFINE A == Visible(S, LookupKey(k, s))
             B == Visible(T, LookupKey(k, s))
  <2>2. /\ \A d : d \in A <=> d \in S /\ d.key = k /\ d.tag <= 2 * s + 1
        /\ \A d : d \in B <=> (d \in S \/ d = e) /\ d.key = k /\ d.tag <= 2 * s + 1
    BY <1>1, <1>2, <2>1
  <2> HIDE DEF A, B
  <2>3. B = A
    BY <2>1, <2>2
  <2> QED BY <1>5, <2>3 DEF Reads, A, B
<1>6. ASSUME NEW k \in UserKeys, NEW x, k # e.key, Reads(S, k, n, x)
      PROVE  Reads(T, k, n + 1, x)
  <2>1. n + 1 \in Nat /\ \A d \in S : d.tag <= 2 * n + 1 /\ d.tag <= 2 * (n + 1) + 1
    BY <1>3
  <2> DEFINE A == Visible(S, LookupKey(k, n))
             B == Visible(T, LookupKey(k, n + 1))
  <2>2. /\ \A d : d \in A <=> d \in S /\ d.key = k /\ d.tag <= 2 * n + 1
        /\ \A d : d \in B <=> (d \in S \/ d = e) /\ d.key = k /\ d.tag <= 2 * (n + 1) + 1
    BY <1>1, <1>2, <2>1
  <2> HIDE DEF A, B
  <2>3. B = A
    BY <1>6, <2>1, <2>2
  <2> QED BY <1>6, <2>3 DEF Reads, A, B
<1>7. Reads(T, e.key, n + 1, ValueOf(e))
  <2> DEFINE V == Visible(T, LookupKey(e.key, n + 1))
  <2>1. n + 1 \in Nat /\ e.tag <= 2 * (n + 1) + 1
    BY <1>4
  <2>2. \A d : d \in V <=> (d \in S \/ d = e) /\ d.key = e.key /\ d.tag <= 2 * (n + 1) + 1
    BY <1>2, <1>4, <2>1
  <2> HIDE DEF V
  <2>3. e \in V /\ \A d \in V : d.tag <= e.tag
    BY <1>3, <1>4, <2>1, <2>2
  <2> QED BY <2>3 DEF Reads, V
<1>8. ValueOf(e) \in {n + 1, 0}
  BY <1>4 DEF ValueOf, SequenceOf, TypeOf, kTypeValue
<1> QED BY <1>5, <1>6, <1>7, <1>8 DEF T

LEMMA WriteSeen ==
  ASSUME StoreInv, TreeInv', NEW k \in UserKeys, NEW type \in WriteTypes, Write(k, type)
  PROVE  StoreStep(Readings, Readings')
<1> DEFINE n == last_sequence
           e == InternalKey(k, n + 1, type)
           S == StoredIn(mem, imm, current)
           T == StoredIn(mem', imm', current')
           a == ViewIn(mem, imm, current, n)
           b == ViewIn(mem', imm', current', n + 1)
           F == [s \in Nat |-> ViewIn(mem, imm, current, s)]
           G == [s \in Nat |-> ViewIn(mem', imm', current', s)]
<1>1. /\ mem' = mem \cup {e} /\ last_sequence' = n + 1
      /\ UNCHANGED <<imm, current, snapshots>>
  BY DEF Write
<1>2. /\ InPlace(mem, imm, current) /\ InPlace(mem', imm', current') /\ n \in Nat
      /\ S \in SUBSET Entry /\ \A d \in S : d.tag <= 2 * n + 1
  BY PlacedNow, PlacedNext DEF StoreInv
<1>3. T = S \cup {e}
  BY <1>1 DEF StoredIn
<1>4. e \in Entry /\ e.key = k /\ e.tag \in {2 * (n + 1), 2 * (n + 1) + 1}
  <2>1. type \in {0, 1}
    BY WritesAssumption DEF WritesAssumption, kTypeDeletion, kTypeValue
  <2>2. e = [key |-> k, tag |-> 2 * (n + 1) + type]
    BY DEF InternalKey, PackSequenceAndType
  <2> HIDE DEF e, S, T
  <2> QED BY <1>2, <2>1, <2>2 DEF Entry
<1> HIDE DEF e, S, T, n
<1>5. /\ \A j \in UserKeys, s \in 0..n : \A x : Reads(S, j, s, x) => Reads(T, j, s, x)
      /\ \A j \in UserKeys : \A x : j # k /\ Reads(S, j, n, x) => Reads(T, j, n + 1, x)
      /\ Reads(T, k, n + 1, ValueOf(e)) /\ ValueOf(e) \in {n + 1, 0}
  BY <1>2, <1>3, <1>4, JoinedIs
<1>6. T \in SUBSET Entry /\ n + 1 \in Nat
  BY <1>2, <1>3, <1>4
<1>7. \A s \in 0..n : ViewIn(mem', imm', current', s) = ViewIn(mem, imm, current, s)
  <2> TAKE s \in 0..n
  <2>1. s \in Nat
    BY <1>2
  <2>2. \A j \in UserKeys : \A x :
          Reads(StoredIn(mem, imm, current), j, s, x) => Reads(StoredIn(mem', imm', current'), j, s, x)
    BY <1>5 DEF S, T
  <2> QED BY <1>2, <2>1, <2>2, SameView
<1>8. \A j \in UserKeys : b[j] = IF j = k THEN ValueOf(e) ELSE a[j]
  <2> TAKE j \in UserKeys
  <2> DEFINE p == GetIn(mem', imm', current', j, n + 1)
             q == GetIn(mem, imm, current, j, n)
  <2>1. b[j] = p /\ a[j] = q
    BY DEF ViewIn
  <2>2. Reads(T, j, n + 1, p)
    BY <1>2, <1>6, GetIs DEF T
  <2>3. Reads(S, j, n, q)
    BY <1>2, GetIs DEF S
  <2> HIDE DEF a, b, p, q
  <2>4. CASE j = k
    <3>1. p = ValueOf(e)
      BY <1>5, <1>6, <2>2, <2>4, ReadsOnce
    <3> QED BY <2>1, <2>4, <3>1
  <2>5. CASE j # k
    <3>1. Reads(T, j, n + 1, q)
      BY <1>5, <2>3, <2>5
    <3>2. p = q
      BY <1>6, <2>2, <3>1, ReadsOnce
    <3> QED BY <2>1, <2>5, <3>2
  <2> QED BY <2>4, <2>5
<1>9. b = [a EXCEPT ![k] = ValueOf(e)]
  <2>1. a = [j \in UserKeys |-> a[j]] /\ b = [j \in UserKeys |-> b[j]]
    BY DEF ViewIn
  <2> HIDE DEF a, b
  <2> QED BY <1>8, <2>1
<1>10. Shown(G, snapshots) = Shown(F, snapshots)
  <2>1. \A i \in DOMAIN snapshots : snapshots[i] \in 0..n /\ snapshots[i] \in Nat
    BY ElementOfSeq DEF StoreInv, SnapshotsAre, n
  <2>2. \A i \in DOMAIN snapshots : G[snapshots[i]] = F[snapshots[i]]
    BY <1>7, <2>1
  <2> HIDE DEF F, G
  <2> QED BY <2>2 DEF Shown
<1>11. snapshots \in Seq(Nat) /\ snapshots' = snapshots
  BY <1>1 DEF StoreInv, SnapshotsAre
<1>12. Readings = [writes |-> n, latest |-> a, views |-> Shown(F, snapshots)]
  BY <1>11, ReadingsAre, ReadingsShow DEF n
<1>13. Readings' = [writes |-> n + 1, latest |-> b, views |-> Shown(G, snapshots)]
  <2>1. Readings' = ReadingsIn(mem', imm', current', n + 1, snapshots)
    BY <1>1, <1>11, ReadingsAre DEF n
  <2>2. PICK m2, i2, v2 : m2 = mem' /\ i2 = imm' /\ v2 = current'
    OBVIOUS
  <2>3. ReadingsIn(m2, i2, v2, n + 1, snapshots) =
          [writes |-> n + 1, latest |-> ViewIn(m2, i2, v2, n + 1),
           views |-> Shown([s \in Nat |-> ViewIn(m2, i2, v2, s)], snapshots)]
    BY <1>11, ReadingsShow
  <2> QED BY <2>1, <2>2, <2>3
<1> HIDE DEF a, b, F, G
<1> QED BY <1>5, <1>9, <1>10, <1>12, <1>13 DEF StoreStep

-----------------------------------------------------------------------------
(* What a compaction leaves of the entries *)

(* The entries of files other than the inputs of c.                        *)
Untouched(v, c) == UNION {f.entries : f \in AllFiles(v) \ InputsOf(c)}

(* What a compaction under way will write.                                 *)
WrittenBy(w) == Written(w.c, w.version, w.snapshot, Sorted(Compacted(w.c), Before))

LEMMA InstallLeaves ==
  ASSUME TreeInv, InstallCompactionResults
  PROVE  \E w \in compaction :
           /\ EntriesIn(current') = Untouched(current, w.c) \cup WrittenBy(w)
           /\ \E outs \in Seq(SUBSET WrittenBy(w)) :
                /\ InRow(outs)
                /\ \A l \in Levels : FilesIn(current'[l]) =
                     (FilesIn(current[l]) \ InputsOf(w.c)) \cup
                     (IF l = w.c.level + 1 THEN OutputFiles(next_file_number, outs) ELSE {})
           /\ compaction' = {} /\ UNCHANGED <<mem, imm, last_sequence, snapshots>>
<1>1. PICK w \in compaction :
        /\ InstallOutputs(w.c, CompactionOutputs(w.c, w.version, w.snapshot))
        /\ compaction' = {} /\ UNCHANGED <<mem, imm, last_sequence, snapshots>>
  BY DEF InstallCompactionResults
<1> DEFINE c    == w.c
           n    == next_file_number
           outs == CompactionOutputs(c, w.version, w.snapshot)
           e    == OutputsEdit(c, n, outs)
           W    == Written(c, w.version, w.snapshot, Sorted(Compacted(c), Before))
<1>2. Settled(current) /\ Sound(current, c) /\ n \in Nat
  BY DEF TreeInv, FilesAre, WorkIs
<1>3. /\ outs \in Seq(SUBSET Compacted(c)) /\ InRow(outs)
      /\ UNION {outs[a] : a \in DOMAIN outs} = W
      /\ IsFiniteSet(Compacted(c)) /\ Compacted(c) \in SUBSET Entry
  <2>1. c.inputs0 \in Seq(File) /\ c.inputs1 \in Seq(File) /\ c.grandparents \in Seq(File)
    BY <1>2, SoundMeans
  <2> QED BY <2>1, OutputsAre
<1>4. current' = Apply(current, e) /\ e.deleted = InputDeletions(c)
  BY <1>1 DEF InstallOutputs, Install, OutputsEdit
<1>5. WrittenBy(w) = W
  BY DEF WrittenBy
<1> HIDE DEF outs, W
<1>6. Fits(current, e, c.level + 1) /\ {x.file : x \in e.added} = OutputFiles(n, outs)
  <2>1. \A f \in AllFiles(current) : f.number < n
    BY DEF TreeInv, FilesAre
  <2>2. LET edit == OutputsEdit(c, n, outs)
        IN  Fits(current, edit, c.level + 1) /\ {x.file : x \in edit.added} = OutputFiles(n, outs)
    <3> HIDE DEF c, n
    <3>1. /\ Settled(current) /\ Sound(current, c) /\ n \in Nat
          /\ outs \in Seq(SUBSET Compacted(c)) /\ InRow(outs)
          /\ IsFiniteSet(Compacted(c)) /\ Compacted(c) \in SUBSET Entry
      BY <1>2, <1>3
    <3> QED BY ONLY <2>1, <3>1, OutputsFit
  <2> QED BY <2>2
<1> HIDE DEF e
<1>7. /\ AllFiles(current') = (AllFiles(current) \ InputsOf(c)) \cup OutputFiles(n, outs)
      /\ \A l \in Levels : FilesIn(current'[l]) =
           (FilesIn(current[l]) \ InputsOf(c)) \cup
           (IF l = c.level + 1 THEN OutputFiles(n, outs) ELSE {})
  BY <1>2, <1>4, <1>6, Replaced
<1>8. UNION {f.entries : f \in OutputFiles(n, outs)} = W
  <2> DEFINE out(a) == FileOf(n + a - 1, outs[a])
  <2>1. \A a \in DOMAIN outs : out(a).entries = outs[a]
    BY DEF FileOf
  <2> HIDE DEF out
  <2>2. OutputFiles(n, outs) = {out(a) : a \in DOMAIN outs}
    BY DEF OutputFiles, out
  <2> QED BY <1>3, <2>1, <2>2
<1>9. EntriesIn(current') = Untouched(current, c) \cup W
  BY <1>7, <1>8 DEF EntriesIn, Untouched
<1>10. outs \in Seq(SUBSET W)
  <2>1. Len(outs) \in Nat /\ DOMAIN outs = 1..Len(outs) /\ outs = [a \in DOMAIN outs |-> outs[a]]
    BY <1>3, LenProperties
  <2>2. \A a \in DOMAIN outs : outs[a] \in SUBSET W
    BY <1>3
  <2>3. outs \in [1..Len(outs) -> SUBSET W]
    BY <2>1, <2>2
  <2> QED BY <2>1, <2>3, SeqDef
<1> QED BY <1>1, <1>3, <1>5, <1>7, <1>9, <1>10 DEF c, n

LEMMA InstallDrops ==
  ASSUME StoreInv, InstallCompactionResults
  PROVE  StoredIn(mem', imm', current') \subseteq StoredIn(mem, imm, current)
<1>1. PICK w \in compaction : /\ EntriesIn(current') = Untouched(current, w.c) \cup WrittenBy(w)
                              /\ UNCHANGED <<mem, imm>>
  BY InstallLeaves DEF StoreInv
<1> DEFINE c == w.c
<1>2. Settled(current) /\ Sound(current, c) /\ w.snapshot \in Nat
  BY DEF StoreInv, TreeInv, FilesAre, WorkIs, InputsAre
<1>3. /\ c.inputs0 \in Seq(File) /\ c.inputs1 \in Seq(File) /\ c.grandparents \in Seq(File)
      /\ c.level \in Levels /\ c.level + 1 \in Levels
      /\ FilesIn(c.inputs0) \subseteq FilesIn(current[c.level])
      /\ FilesIn(c.inputs1) \subseteq FilesIn(current[c.level + 1])
      /\ Compacted(c) = UNION {f.entries : f \in InputsOf(c)}
  BY <1>2, SoundIs, SoundMeans
<1>4. IsFiniteSet(Compacted(c)) /\ Compacted(c) \in SUBSET Entry
  BY <1>3, OutputsAre
<1>5. WrittenBy(w) \subseteq Compacted(c)
  BY <1>2, <1>4, DroppedIs DEF WrittenBy
<1>6. InputsOf(c) \subseteq AllFiles(current)
  BY <1>3 DEF InputsOf, AllFiles
<1>7. Compacted(c) \subseteq EntriesIn(current) /\ Untouched(current, c) \subseteq EntriesIn(current)
  BY <1>3, <1>6 DEF EntriesIn, Untouched
<1> QED BY <1>1, <1>5, <1>7 DEF StoredIn

(* Of the level a compaction writes to, the files it takes and those it    *)
(* leaves share no user key.  The code sees to this for the upper level    *)
(* only (AddBoundaryInputs); where snapshots have split the versions of a  *)
(* key over two files it need not hold, and entries may come back.         *)
KeysTakenWhole ==
  \A w \in compaction :
    LET taken == FilesIn(w.c.inputs1)
        left  == FilesIn(current[w.c.level + 1]) \ taken
    IN  \A f \in taken, g \in left : \A d \in f.entries, e \in g.entries : d.key # e.key

(* A deletion that a compaction drops has no older entry left to hide.     *)
LEMMA NothingReappears ==
  ASSUME StoreInv, KeysTakenWhole, NEW w \in compaction,
         NEW d \in Compacted(w.c), IsBaseLevelForKey(w.version, w.c.level, d.key),
         NEW e, e \in mem \/ e \in imm \/ e \in Untouched(current, w.c), e.key = d.key
  PROVE  ~(e.tag < d.tag)
<1> DEFINE c == w.c
           L == c.level + 1
<1>1. Settled(current) /\ Sound(current, c)
  BY DEF StoreInv, TreeInv, FilesAre, WorkIs
<1>2. /\ c.level \in Levels /\ c.level \in Nat /\ L \in Levels
      /\ FilesIn(c.inputs0) \subseteq FilesIn(current[c.level])
      /\ FilesIn(c.inputs1) \subseteq FilesIn(current[L])
      /\ InputsOf(c) \in SUBSET File /\ Compacted(c) = UNION {f.entries : f \in InputsOf(c)}
  BY <1>1, SoundIs
<1>3. PICK f \in InputsOf(c) : d \in f.entries
  BY <1>2
<1>4. /\ \A g \in FilesIn(current[c.level]) \ FilesIn(c.inputs0), h \in FilesIn(c.inputs0) :
           Newer(g.entries, h.entries)
      /\ \A g \in FilesIn(current[L]) \ FilesIn(c.inputs1), h \in FilesIn(c.inputs0) : Strangers(h, g)
  BY <1>1, SoundMeans
<1>5. f \in AllFiles(current) /\ d \in Entry /\ d.tag \in Nat
  BY <1>2, <1>3 DEF InputsOf, AllFiles, File, Entry
<1>6. ASSUME NEW S, e \in S, Newer(S, f.entries) PROVE ~(e.tag < d.tag)
  <2>1. d.tag < e.tag
    BY <1>3, <1>6 DEF Newer
  <2>2. e.tag \in Nat
    <3>1. e \in mem \/ e \in imm \/ e \in EntriesIn(current)
      BY DEF Untouched, EntriesIn
    <3>2. e \in Entry
      BY <3>1, EntriesAre DEF StoreInv
    <3> QED BY <3>2 DEF Entry
  <2> QED BY <1>5, <2>1, <2>2
<1>7. CASE e \in mem \/ e \in imm
  <2>1. Newer(mem, f.entries) /\ Newer(imm, f.entries)
    BY <1>5 DEF StoreInv, TreeInv, FilesAre
  <2> QED BY <1>6, <1>7, <2>1
<1>8. CASE e \in Untouched(current, c)
  <2>1. PICK g \in AllFiles(current) : g \notin InputsOf(c) /\ e \in g.entries
    BY <1>8 DEF Untouched
  <2>2. PICK l \in Levels : g \in FilesIn(current[l])
    BY <2>1 DEF AllFiles
  <2>3. l \in Nat /\ l <= kNumLevels - 1
    BY LevelAssumption DEF LevelAssumption, Levels
  <2>4. g \notin FilesIn(c.inputs0) /\ g \notin FilesIn(c.inputs1)
    BY <2>1 DEF InputsOf
  <2>5. ~Strangers(f, g) /\ ~Strangers(g, f)
    BY <1>3, <2>1 DEF Strangers
  <2>6. CASE l > L
    <3>1. g \in FilesIn(w.version[l])
      BY <1>3, <2>2, <2>5, <2>6 DEF StoreInv, InputsAre
    <3>2. InRange(e.key, g)
      <4>1. g \in File
        BY <1>1, <2>1, FilesOfTree
      <4> QED BY <2>1, <4>1, KeysOfFile DEF InRange
    <3>3. l \in (c.level + 2)..(kNumLevels - 1)
      BY <1>2, <2>3, <2>6
    <3> QED BY <3>1, <3>2, <3>3 DEF IsBaseLevelForKey, InRange
  <2>7. CASE f \in FilesIn(c.inputs0)
    <3>1. l < c.level => Newer(g.entries, f.entries)
      BY <1>1, <1>2, <2>2, <2>7 DEF Settled, Stacked
    <3>2. l = c.level => Newer(g.entries, f.entries)
      BY <1>4, <2>2, <2>4, <2>7
    <3>3. l # L
      BY <1>4, <2>2, <2>4, <2>5, <2>7
    <3>4. l < c.level \/ l = c.level \/ l = L \/ l > L
      BY <1>2, <2>3
    <3> QED BY <1>6, <2>1, <2>6, <3>1, <3>2, <3>3, <3>4
  <2>8. CASE f \in FilesIn(c.inputs1)
    <3>1. l < L => Newer(g.entries, f.entries)
      BY <1>1, <1>2, <2>2, <2>8 DEF Settled, Stacked
    <3>2. l # L
      BY <1>3, <2>1, <2>2, <2>4, <2>8 DEF KeysTakenWhole
    <3>3. l < L \/ l = L \/ l > L
      BY <1>2, <2>3
    <3> QED BY <1>6, <2>1, <2>6, <3>1, <3>2, <3>3
  <2> QED BY <1>3, <2>7, <2>8 DEF InputsOf
<1> QED BY <1>7, <1>8

ValuesOnly == \A e \in Entries : TypeOf(e) = kTypeValue

(* The results of a compaction read as its inputs did.                     *)
LEMMA InstallUnseen ==
  ASSUME StoreInv, StoreInv', KeysTakenWhole \/ ValuesOnly, InstallCompactionResults
  PROVE  Readings' = Readings
<1> DEFINE S == StoredIn(mem, imm, current)
           T == StoredIn(mem', imm', current')
<1>1. PICK w \in compaction : /\ EntriesIn(current') = Untouched(current, w.c) \cup WrittenBy(w)
                              /\ UNCHANGED <<mem, imm, last_sequence, snapshots>>
  BY InstallLeaves DEF StoreInv
<1> DEFINE c == w.c
           W == WrittenBy(w)
           C == Compacted(c)
           U == Untouched(current, c)
<1>2. /\ Settled(current) /\ Sound(current, c) /\ w.snapshot \in Nat
      /\ S \in SUBSET Entry /\ S = Entries
  BY TreeInPlace, EntriesAre DEF StoreInv, TreeInv, FilesAre, WorkIs, InputsAre
<1>3. /\ C \in SUBSET Entry /\ W \subseteq C
      /\ \A d \in C : d \notin W =>
           \/ \E e \in C : e.key = d.key /\ d.tag < e.tag /\ SequenceOf(e) <= w.snapshot
           \/ /\ TypeOf(d) = kTypeDeletion
              /\ IsBaseLevelForKey(w.version, c.level, d.key)
              /\ \A e \in C : e.key = d.key /\ e.tag < d.tag => e \notin W
  <2>1. c.inputs0 \in Seq(File) /\ c.inputs1 \in Seq(File) /\ c.grandparents \in Seq(File)
    BY <1>2, SoundMeans
  <2>2. IsFiniteSet(C) /\ C \in SUBSET Entry
    BY <2>1, OutputsAre
  <2> QED BY <1>2, <2>2, DroppedIs DEF WrittenBy
<1>4. EntriesIn(current) = U \cup C
  <2>1. C = UNION {f.entries : f \in InputsOf(c)}
    BY <1>2, SoundIs
  <2>2. InputsOf(c) \subseteq AllFiles(current)
    <3>1. /\ FilesIn(c.inputs0) \subseteq AllFiles(current)
          /\ FilesIn(c.inputs1) \subseteq AllFiles(current)
      BY <1>2, SoundIs, FilesOfTree
    <3> QED BY <3>1 DEF InputsOf
  <2> HIDE DEF C
  <2> QED BY <2>1, <2>2 DEF EntriesIn, Untouched
<1>5. /\ \A e : e \in S <=> e \in mem \/ e \in imm \/ e \in U \/ e \in C
      /\ \A e : e \in T <=> e \in mem \/ e \in imm \/ e \in U \/ e \in W
  BY <1>1, <1>4 DEF StoredIn
<1>6. ASSUME NEW d \in C, TypeOf(d) = kTypeDeletion,
             IsBaseLevelForKey(w.version, c.level, d.key),
             NEW e, e \in mem \/ e \in imm \/ e \in U, e.key = d.key
      PROVE  ~(e.tag < d.tag)
  <2>1. ~ValuesOnly
    <3>1. d \in Entries
      BY <1>2, <1>5
    <3> QED BY <1>6, <3>1 DEF ValuesOnly, kTypeValue, kTypeDeletion
  <2>2. KeysTakenWhole
    BY <2>1
  <2> QED BY <1>6, <2>2, NothingReappears
<1> HIDE DEF S, T, W, C, U, c
<1>7. ASSUME NEW s \in Nat, w.snapshot <= s, NEW k \in UserKeys, NEW n, Reads(S, k, s, n)
      PROVE  Reads(T, k, s, n)
  <2> DEFINE V == Visible(S, LookupKey(k, s))
  <2>1. \A d : d \in V <=> d \in S /\ d.key = k /\ d.tag <= 2 * s + 1
    BY LookupKeyIs DEF Visible
  <2> HIDE DEF V
  <2>2. ASSUME NEW d \in V, d \notin T
        PROVE  \/ \E e \in V : d.tag < e.tag
               \/ TypeOf(d) # kTypeValue /\ \A e \in V : e.tag < d.tag => e \notin T
    <3>1. d \in C /\ d \notin W /\ d.key = k
      BY <1>5, <2>1, <2>2
    <3>2. ASSUME NEW e \in C, e.key = d.key, d.tag < e.tag, SequenceOf(e) <= w.snapshot
          PROVE  e \in V
      <4>1. e \in S /\ e.tag \in Nat /\ e.tag \div 2 <= w.snapshot
        BY <1>2, <1>5, <3>2 DEF SequenceOf, Entry
      <4>2. e.tag <= 2 * w.snapshot + 1
        BY <1>2, <4>1
      <4>3. e.tag <= 2 * s + 1
        BY <1>2, <1>7, <4>1, <4>2
      <4> QED BY <2>1, <3>1, <3>2, <4>1, <4>3
    <3>3. ASSUME TypeOf(d) = kTypeDeletion, IsBaseLevelForKey(w.version, c.level, d.key),
                 \A e \in C : e.key = d.key /\ e.tag < d.tag => e \notin W,
                 NEW e \in V, e.tag < d.tag
          PROVE  e \notin T
      <4>1. e.key = d.key /\ e \in S
        BY <2>1, <3>1
      <4>2. ~(e \in mem \/ e \in imm \/ e \in U)
        BY <1>6, <3>1, <3>3, <4>1
      <4>3. e \notin W
        BY <1>3, <3>3, <4>1
      <4> QED BY <1>5, <4>2, <4>3
    <3>4. TypeOf(d) = kTypeDeletion => TypeOf(d) # kTypeValue
      BY DEF kTypeDeletion, kTypeValue
    <3> QED BY <1>3, <3>1, <3>2, <3>3, <3>4
  <2>3. T \in SUBSET S
    BY <1>3, <1>5
  <2> QED BY <1>2, <1>7, <2>2, <2>3, ReadsKept DEF V
<1>8. \A s \in Nat : s = last_sequence \/ (\E j \in DOMAIN snapshots : s = snapshots[j]) =>
        w.snapshot <= s
  BY DEF StoreInv, InputsAre
<1>9. \A s \in Nat : s = last_sequence \/ (\E j \in DOMAIN snapshots : s = snapshots[j]) =>
        \A k \in UserKeys : \A n : Reads(S, k, s, n) => Reads(T, k, s, n)
  BY <1>7, <1>8
<1> QED BY <1>1, <1>9, Unseen DEF S, T

-----------------------------------------------------------------------------
(* The refinement *)

(* What readers will get next is one step of the abstract store, or none,  *)
(* from what they got before the last step.                                *)
ReadingsFollow == StoreStep(reads, Readings)

LEMMA InitReadings == Init => ReadingsFollow
<1> SUFFICES ASSUME Init PROVE ReadingsFollow
  OBVIOUS
<1>1. TreeInv /\ mem = {} /\ imm = {} /\ last_sequence = 0 /\ snapshots = <<>>
  BY InitTree DEF Init
<1>2. AllFiles(current) = {}
  <2>1. \A l \in Levels : FilesIn(current[l]) = {}
    BY DEF Init, NewVersion, FilesIn
  <2> QED BY <2>1 DEF AllFiles
<1>3. InPlace(mem, imm, current) /\ StoredIn(mem, imm, current) = {}
  BY <1>1, <1>2, PlacedNow DEF StoredIn, EntriesIn
<1>4. ASSUME NEW k \in UserKeys PROVE GetIn(mem, imm, current, k, 0) = 0
  <2>1. Reads({}, k, 0, GetIn(mem, imm, current, k, 0))
    BY <1>3, GetIs
  <2> QED BY <2>1 DEF Reads, Visible
<1>5. ViewIn(mem, imm, current, 0) = [k \in UserKeys |-> 0]
  BY <1>4 DEF ViewIn
<1>6. Readings = ReadingsIn(mem, imm, current, 0, <<>>)
  BY <1>1, ReadingsAre
<1>7. /\ Readings.writes = 0 /\ Readings.latest = [k \in UserKeys |-> 0]
      /\ Readings.views = [j \in DOMAIN <<>> |-> ViewIn(mem, imm, current, <<>>[j])]
  BY <1>5, <1>6 DEF ReadingsIn
<1>8. Readings.views = <<>>
  BY <1>7
<1> QED BY <1>7, <1>8 DEF Init, ReadingsFollow, StoreStep

LEMMA NextReadings ==
  ASSUME ManualRequests = {}, StoreInv, StoreInv', KeysTakenWhole \/ ValuesOnly,
         ReadingsFollow, [Next]_vars
  PROVE  ReadingsFollow'
<1>1. CASE UNCHANGED vars
  <2>1. Readings' = Readings /\ reads' = reads
    BY <1>1, ReadingsAre DEF vars
  <2> QED BY <2>1 DEF ReadingsFollow
<1>2. CASE Next
  <2>1. reads' = Readings
    BY <1>2 DEF Next
  <2>2. StoreStep(Readings, Readings')
    <3>1. Readings' = Readings => StoreStep(Readings, Readings')
      BY DEF StoreStep
    <3>2. ASSUME NEW k \in UserKeys, NEW type \in WriteTypes, Write(k, type)
          PROVE  StoreStep(Readings, Readings')
      BY <3>2, WriteSeen DEF StoreInv
    <3>3. CASE SwitchMemTable
      BY <3>1, <3>3, SwitchUnseen
    <3>4. CASE GetSnapshot
      BY <3>4, GetSnapshotSeen
    <3>5. ASSUME NEW i \in DOMAIN snapshots, ReleaseSnapshot(i)
          PROVE  StoreStep(Readings, Readings')
      BY <3>5, ReleaseSeen
    <3>6. ASSUME UNCHANGED <<mem, imm, current, last_sequence, snapshots>>
          PROVE  StoreStep(Readings, Readings')
      <4>1. Readings' = Readings
        BY <3>6, ReadingsAre
      <4> QED BY <3>1, <4>1
    <3>7. ASSUME NEW k \in UserKeys, GetFromFiles(k)
          PROVE  StoreStep(Readings, Readings')
      BY <3>6, <3>7 DEF GetFromFiles
    <3>13. ASSUME NEW g \in getting, UpdateStats(g)
           PROVE  StoreStep(Readings, Readings')
      BY <3>6, <3>13 DEF UpdateStats
    <3>8. ~\E m \in manual : RequestCompactRange([m EXCEPT !.registered = TRUE])
      BY DEF StoreInv, TreeInv, WorkIs
    <3>9. CASE CompactMemTable
      BY <3>1, <3>9, FlushUnseen
    <3>10. CASE BackgroundCompaction
      BY <3>1, <3>10, BackgroundUnseen
    <3>11. CASE InstallCompactionResults
      BY <3>1, <3>11, InstallUnseen
    <3>12. CASE Observe
      BY <3>6, <3>12 DEF Observe
    <3> QED BY <1>2, <3>2, <3>3, <3>4, <3>5, <3>7, <3>8, <3>9, <3>10, <3>11, <3>12, <3>13
            DEF Next, Step
  <2> QED BY <2>1, <2>2 DEF ReadingsFollow
<1> QED BY <1>1, <1>2

LEMMA StoreInit == Init => Store!Init
BY DEF Init, Store!Init

LEMMA StoreNext == ReadingsFollow /\ [Next]_vars => [Store!Next]_Store!vars
<1> SUFFICES ASSUME ReadingsFollow, [Next]_vars PROVE [Store!Next]_Store!vars
  OBVIOUS
<1>1. CASE UNCHANGED vars
  BY <1>1 DEF vars, Store!vars
<1>2. CASE Next
  <2>1. StoreStep(reads, reads')
    BY <1>2 DEF Next, ReadingsFollow
  <2>2. CASE reads'.writes = reads.writes /\ reads'.latest = reads.latest /\ reads'.views = reads.views
    BY <2>2 DEF Store!vars
  <2>3. CASE /\ reads'.writes = reads.writes + 1 /\ reads'.views = reads.views
             /\ \E k \in UserKeys : \E x \in {reads'.writes, 0} :
                  reads'.latest = [reads.latest EXCEPT ![k] = x]
    BY <2>3 DEF Store!Next, Store!Write
  <2>4. CASE /\ reads'.writes = reads.writes /\ reads'.latest = reads.latest
             /\ reads'.views = Append(reads.views, reads.latest)
    BY <2>4 DEF Store!Next, Store!GetSnapshot
  <2>5. CASE /\ reads'.writes = reads.writes /\ reads'.latest = reads.latest
             /\ \E i \in DOMAIN reads.views :
                  reads'.views = SubSeq(reads.views, 1, i - 1)
                                 \o SubSeq(reads.views, i + 1, Len(reads.views))
    BY <2>5 DEF Store!Next, Store!ReleaseSnapshot
  <2> QED BY <2>1, <2>2, <2>3, <2>4, <2>5 DEF StoreStep
<1> QED BY <1>1, <1>2

LEMMA InitStore == Init => StoreInv
<1> SUFFICES ASSUME Init PROVE StoreInv
  OBVIOUS
<1>1. <<>> \in Seq(Nat) /\ DOMAIN <<>> = {}
  BY EmptySeq
<1>2. SnapshotsAre /\ InputsAre
  BY <1>1 DEF Init, SnapshotsAre, InputsAre
<1> QED BY <1>2, InitTree DEF StoreInv

-----------------------------------------------------------------------------
(* Without snapshots *)

(* Where no caller holds a snapshot a compaction keeps one version of a    *)
(* key, so that below level 0 a key is in one file of a level only.        *)
OneFilePerKey ==
  /\ snapshots = <<>>
  /\ \A l \in Levels : l > 0 =>
       \A f, g \in FilesIn(current[l]) : f # g => Strangers(f, g)
  /\ \A w \in compaction : \A d \in Compacted(w.c) : SequenceOf(d) <= w.snapshot

LEMMA WholeThen ==
  ASSUME TreeInv, OneFilePerKey
  PROVE  KeysTakenWhole
<1> SUFFICES ASSUME NEW w \in compaction, NEW f \in FilesIn(w.c.inputs1),
                    NEW g \in FilesIn(current[w.c.level + 1]), g \notin FilesIn(w.c.inputs1)
             PROVE  \A d \in f.entries, e \in g.entries : d.key # e.key
  BY DEF KeysTakenWhole
<1> DEFINE c == w.c
           L == c.level + 1
<1>1. Settled(current) /\ Sound(current, c)
  BY DEF TreeInv, FilesAre, WorkIs
<1>2. L \in Levels /\ L > 0 /\ FilesIn(c.inputs1) \subseteq FilesIn(current[L])
  <2> HIDE DEF c
  <2>1. /\ c.level + 1 \in Levels /\ c.level \in Nat
        /\ FilesIn(c.inputs1) \subseteq FilesIn(current[c.level + 1])
    BY <1>1, SoundIs
  <2> QED BY <2>1
<1>3. f \in FilesIn(current[L]) /\ g \in FilesIn(current[L]) /\ f # g
  BY <1>2
<1> HIDE DEF L
<1>4. Strangers(f, g)
  BY <1>2, <1>3 DEF OneFilePerKey
<1> QED BY <1>4 DEF Strangers

LEMMA FlushKeys ==
  ASSUME TreeInv, OneFilePerKey, CompactMemTable
  PROVE  OneFilePerKey'
<1>1. PICK p, f : Flushed(current, current', p, f)
  BY FlushIs
<1>2. UNCHANGED <<snapshots, compaction>>
  BY DEF CompactMemTable
<1>3. ASSUME NEW l \in Levels, l > 0, NEW g \in FilesIn(current'[l]),
             NEW h \in FilesIn(current'[l]), g # h
      PROVE  Strangers(g, h)
  <2>1. \A x \in FilesIn(current[l]) : x \in File
    BY FilesOfTree DEF TreeInv, FilesAre
  <2>2. CASE g \in FilesIn(current[l]) /\ h \in FilesIn(current[l])
    BY <1>3, <2>2 DEF OneFilePerKey
  <2>3. ASSUME l = p, NEW x \in FilesIn(current[l])
        PROVE  Strangers(x, f) /\ Strangers(f, x)
    <3>1. Outside(x, Ends(f)) /\ f \in File /\ x \in File
      <4>1. l <= p
        BY <2>3, LevelsAre
      <4> QED BY <1>1, <1>3, <2>1, <2>3, <4>1 DEF Flushed
    <3> QED BY <3>1, OutsideIs
  <2>4. FilesIn(current'[l]) = FilesIn(current[l]) \cup (IF l = p THEN {f} ELSE {})
    BY <1>1 DEF Flushed
  <2> QED BY <1>3, <2>2, <2>3, <2>4
<1> QED BY <1>2, <1>3 DEF OneFilePerKey

LEMMA BackgroundKeys ==
  ASSUME TreeInv, OneFilePerKey, BackgroundCompaction
  PROVE  OneFilePerKey'
<1> DEFINE c == PickCompaction(current, compact_pointer, file_to_compact)
           L == c.level + 1
<1>1. manual = {} /\ Registered = {}
  BY DEF TreeInv, WorkIs, Registered
<1>2. Settled(current) /\ Sound(current, c)
  <2>1. NeedsCompaction(current, file_to_compact)
    BY <1>1 DEF BackgroundCompaction
  <2> QED BY <2>1, PickCompactionIs DEF TreeInv, FilesAre, WorkIs, Settled
<1>3. /\ StartCompaction(c) /\ compaction = {}
      /\ UNCHANGED <<last_sequence, snapshots>>
  <2>1. Chosen = {c}
    BY <1>1 DEF Chosen
  <2> HIDE DEF c
  <2> QED BY <2>1 DEF BackgroundCompaction, StartChosen
<1> HIDE DEF c
<1>4. CASE IsTrivialMove(c)
  <2> DEFINE e == MoveEdit(c)
  <2>1. current' = Apply(current, e) /\ compaction' = {}
    BY <1>1, <1>3, <1>4 DEF StartCompaction, Install, MoveEdit
  <2>2. /\ Fits(current, e, c.level + 1) /\ e.deleted = InputDeletions(c)
        /\ {x.file : x \in e.added} = InputsOf(c)
    BY <1>2, <1>4, MoveFits
  <2> HIDE DEF e
  <2>3. \A l \in Levels : FilesIn(current'[l]) =
          (FilesIn(current[l]) \ InputsOf(c)) \cup (IF l = L THEN InputsOf(c) ELSE {})
    BY <1>2, <2>1, <2>2, Replaced
  <2>4. /\ \E f : InputsOf(c) = {f} /\ f \in FilesIn(c.inputs0)
        /\ FilesIn(c.inputs1) = {}
    <3>1. /\ c.inputs0 \in Seq(File) /\ c.inputs1 \in Seq(File)
          /\ Len(c.inputs0) = 1 /\ Len(c.inputs1) = 0
      BY <1>2, <1>4, SoundIs DEF IsTrivialMove
    <3>2. DOMAIN c.inputs0 = 1..1 /\ DOMAIN c.inputs1 = 1..0
      BY <3>1, LenProperties
    <3>3. FilesIn(c.inputs0) = {c.inputs0[1]} /\ FilesIn(c.inputs1) = {}
      BY <3>2 DEF FilesIn
    <3> QED BY <3>3 DEF InputsOf
  <2>5. PICK f \in FilesIn(c.inputs0) : InputsOf(c) = {f}
    BY <2>4
  <2>6. \A g \in FilesIn(current[L]) : Strangers(f, g) /\ Strangers(g, f)
    <3>1. \A g \in FilesIn(current[L]) : Strangers(f, g)
      BY <1>2, <2>4, SoundMeans
    <3> QED BY <3>1 DEF Strangers
  <2>7. ASSUME NEW l \in Levels, l > 0, NEW g \in FilesIn(current'[l]),
               NEW h \in FilesIn(current'[l]), g # h
        PROVE  Strangers(g, h)
    <3>1. CASE g \in FilesIn(current[l]) /\ h \in FilesIn(current[l])
      BY <2>7, <3>1 DEF OneFilePerKey
    <3> HIDE DEF L
    <3> QED BY <2>3, <2>5, <2>6, <2>7, <3>1
  <2> QED BY <1>3, <2>1, <2>7 DEF OneFilePerKey
<1>5. CASE ~IsTrivialMove(c)
  <2>1. /\ current' = current
        /\ \A w \in compaction' : w.c = c /\ w.snapshot = last_sequence
    BY <1>1, <1>3, <1>5 DEF StartCompaction, OneFilePerKey, SmallestSnapshot
  <2>2. \A d \in Compacted(c) : SequenceOf(d) <= last_sequence
    <3> TAKE d \in Compacted(c)
    <3>1. InputsOf(c) \subseteq AllFiles(current)
      <4>1. /\ c.level \in Levels /\ c.level + 1 \in Levels
            /\ FilesIn(c.inputs0) \subseteq FilesIn(current[c.level])
            /\ FilesIn(c.inputs1) \subseteq FilesIn(current[c.level + 1])
        BY <1>2, SoundIs
      <4>2. \A l \in Levels : FilesIn(current[l]) \subseteq AllFiles(current)
        BY DEF AllFiles
      <4> HIDE DEF L
      <4> QED BY <4>1, <4>2 DEF InputsOf
    <3>2. d \in EntriesIn(current)
      BY <1>2, <3>1, SoundIs DEF EntriesIn
    <3>3. d \in Entries
      BY <3>2 DEF Entries
    <3>4. d.tag \in Nat /\ d.tag <= 2 * last_sequence + 1 /\ last_sequence \in Nat
      BY <3>3, EntriesAre DEF Entry
    <3>5. d.tag \div 2 <= last_sequence
      BY <3>4
    <3> QED BY <3>5 DEF SequenceOf
  <2> QED BY <1>3, <2>1, <2>2 DEF OneFilePerKey
<1> QED BY <1>4, <1>5

LEMMA InstallKeys ==
  ASSUME StoreInv, OneFilePerKey, InstallCompactionResults
  PROVE  OneFilePerKey'
<1>1. PICK w \in compaction :
        /\ \E outs \in Seq(SUBSET WrittenBy(w)) :
             /\ InRow(outs)
             /\ \A l \in Levels : FilesIn(current'[l]) =
                  (FilesIn(current[l]) \ InputsOf(w.c)) \cup
                  (IF l = w.c.level + 1 THEN OutputFiles(next_file_number, outs) ELSE {})
        /\ compaction' = {} /\ UNCHANGED snapshots
  BY InstallLeaves DEF StoreInv
<1> DEFINE c == w.c
           L == c.level + 1
           n == next_file_number
           W == WrittenBy(w)
           C == Compacted(c)
<1>2. PICK outs \in Seq(SUBSET W) :
        /\ InRow(outs)
        /\ \A l \in Levels : FilesIn(current'[l]) =
             (FilesIn(current[l]) \ InputsOf(c)) \cup
             (IF l = L THEN OutputFiles(n, outs) ELSE {})
  BY <1>1
<1>3. Settled(current) /\ Sound(current, c) /\ w.snapshot \in Nat
  BY DEF StoreInv, TreeInv, FilesAre, WorkIs, InputsAre
<1>4. /\ C \in SUBSET Entry /\ W \subseteq C
      /\ \A d, e \in W : d.key = e.key => d = e
  <2>1. c.inputs0 \in Seq(File) /\ c.inputs1 \in Seq(File) /\ c.grandparents \in Seq(File)
    BY <1>3, SoundMeans
  <2>2. IsFiniteSet(C) /\ C \in SUBSET Entry
    BY <2>1, OutputsAre
  <2>3. \A d \in C : SequenceOf(d) <= w.snapshot
    BY DEF OneFilePerKey
  <2> QED BY <1>3, <2>2, <2>3, DroppedIs DEF WrittenBy
<1>5. \A d \in C : \E f \in InputsOf(c) : d \in f.entries
  BY <1>3, SoundIs
<1>6. /\ L \in Levels /\ L > 0
      /\ FilesIn(c.inputs1) \subseteq FilesIn(current[L])
      /\ \A g \in FilesIn(current[L]) \ FilesIn(c.inputs1), f \in FilesIn(c.inputs0) : Strangers(f, g)
  <2> HIDE DEF c
  <2>1. /\ c.level + 1 \in Levels /\ c.level \in Nat
        /\ FilesIn(c.inputs1) \subseteq FilesIn(current[c.level + 1])
    BY <1>3, SoundIs
  <2>2. \A g \in FilesIn(current[c.level + 1]) \ FilesIn(c.inputs1), f \in FilesIn(c.inputs0) :
          Strangers(f, g)
    BY <1>3, SoundMeans
  <2> QED BY <2>1, <2>2
<1> HIDE DEF c, L, W, C
<1>7. ASSUME NEW f \in OutputFiles(n, outs) PROVE f.entries \subseteq W
  <2>1. PICK a \in DOMAIN outs : f = FileOf(n + a - 1, outs[a])
    BY DEF OutputFiles
  <2>2. outs[a] \in SUBSET W
    BY LenProperties, ElementOfSeq
  <2> QED BY <2>1, <2>2 DEF FileOf
<1>8. ASSUME NEW f \in OutputFiles(n, outs), NEW g \in OutputFiles(n, outs), f # g
      PROVE  Strangers(f, g)
  <2>1. PICK a \in DOMAIN outs : f = FileOf(n + a - 1, outs[a])
    BY DEF OutputFiles
  <2>2. PICK b \in DOMAIN outs : g = FileOf(n + b - 1, outs[b])
    BY DEF OutputFiles
  <2>3. a < b \/ b < a
    <3>1. a \in Nat /\ b \in Nat /\ a # b
      BY <1>8, <2>1, <2>2, LenProperties
    <3> QED BY <3>1
  <2>4. AllBefore(outs[a], outs[b]) \/ AllBefore(outs[b], outs[a])
    BY <1>2, <2>3 DEF InRow
  <2>5. f.entries = outs[a] /\ g.entries = outs[b]
    BY <2>1, <2>2 DEF FileOf
  <2>6. ASSUME NEW d \in f.entries, NEW e \in g.entries, d.key = e.key PROVE FALSE
    <3>1. d \in W /\ e \in W
      BY <1>7
    <3>2. d = e /\ d \in Entry
      BY <1>4, <2>6, <3>1
    <3>3. Before(d, d)
      BY <2>4, <2>5, <3>2 DEF AllBefore
    <3> QED BY <3>2, <3>3, BeforeIsOrder
  <2> QED BY <2>6 DEF Strangers
<1>9. ASSUME NEW f \in OutputFiles(n, outs), NEW g \in FilesIn(current[L]), g \notin InputsOf(c)
      PROVE  Strangers(f, g) /\ Strangers(g, f)
  <2>1. ASSUME NEW d \in f.entries, NEW e \in g.entries, d.key = e.key PROVE FALSE
    <3>1. d \in C
      BY <1>4, <1>7
    <3>2. PICK h \in InputsOf(c) : d \in h.entries
      BY <1>5, <3>1
    <3>3. g \notin FilesIn(c.inputs0) /\ g \notin FilesIn(c.inputs1)
      BY <1>9 DEF InputsOf
    <3>4. CASE h \in FilesIn(c.inputs0)
      BY <1>6, <2>1, <3>2, <3>3, <3>4 DEF Strangers
    <3>5. CASE h \in FilesIn(c.inputs1)
      <4>1. Strangers(h, g)
        BY <1>6, <3>3, <3>5 DEF OneFilePerKey
      <4> QED BY <2>1, <3>2, <4>1 DEF Strangers
    <3> QED BY <3>2, <3>4, <3>5 DEF InputsOf
  <2> QED BY <2>1 DEF Strangers
<1>10. ASSUME NEW l \in Levels, l > 0, NEW f \in FilesIn(current'[l]),
              NEW g \in FilesIn(current'[l]), f # g
       PROVE  Strangers(f, g)
  <2>1. CASE f \in FilesIn(current[l]) /\ g \in FilesIn(current[l])
    BY <1>10, <2>1 DEF OneFilePerKey
  <2> QED BY <1>2, <1>8, <1>9, <1>10, <2>1
<1> QED BY <1>1, <1>10 DEF OneFilePerKey

LEMMA NextKeys ==
  ASSUME ManualRequests = {}, MaxSnapshots = 0, StoreInv, OneFilePerKey, [Next]_vars
  PROVE  OneFilePerKey'
<1>1. ASSUME UNCHANGED <<current, compaction, snapshots>> PROVE OneFilePerKey'
  BY <1>1 DEF OneFilePerKey
<1>2. ASSUME NEW k \in UserKeys, NEW type \in WriteTypes, Write(k, type)
      PROVE  OneFilePerKey'
  BY <1>1, <1>2 DEF Write
<1>3. CASE SwitchMemTable
  BY <1>1, <1>3 DEF SwitchMemTable
<1>4. snapshots = <<>> /\ ~GetSnapshot
  BY DEF OneFilePerKey, GetSnapshot
<1>5. DOMAIN snapshots = {}
  BY <1>4, EmptySeq
<1>6. ASSUME NEW k \in UserKeys, GetFromFiles(k) PROVE OneFilePerKey'
  BY <1>1, <1>6 DEF GetFromFiles
<1>13. ASSUME NEW g \in getting, UpdateStats(g) PROVE OneFilePerKey'
  BY <1>1, <1>13 DEF UpdateStats
<1>7. ~\E m \in manual : RequestCompactRange([m EXCEPT !.registered = TRUE])
  BY DEF StoreInv, TreeInv, WorkIs
<1>8. CASE CompactMemTable
  BY <1>8, FlushKeys DEF StoreInv
<1>9. CASE BackgroundCompaction
  BY <1>9, BackgroundKeys DEF StoreInv
<1>10. CASE InstallCompactionResults
  BY <1>10, InstallKeys
<1>11. CASE Observe
  BY <1>1, <1>11 DEF Observe
<1>12. CASE UNCHANGED vars
  BY <1>1, <1>12 DEF vars
<1> QED BY <1>2, <1>3, <1>4, <1>5, <1>6, <1>7, <1>8, <1>9, <1>10, <1>11, <1>12, <1>13
        DEF Next, Step

LEMMA NextValues ==
  ASSUME ManualRequests = {}, kTypeDeletion \notin WriteTypes, StoreInv, ValuesOnly, [Next]_vars
  PROVE  ValuesOnly'
<1> DEFINE S == StoredIn(mem, imm, current)
           T == StoredIn(mem', imm', current')
<1>1. Entries' = T /\ Entries = S
  BY DEF Entries, StoredIn
<1>2. \A e \in S : TypeOf(e) = kTypeValue
  BY <1>1 DEF ValuesOnly
<1> HIDE DEF S, T
<1>3. ASSUME T \subseteq S PROVE ValuesOnly'
  <2>1. \A e \in T : TypeOf(e) = kTypeValue
    BY <1>2, <1>3
  <2> QED BY <1>1, <2>1 DEF ValuesOnly
<1>4. ASSUME UNCHANGED <<mem, imm, current>> PROVE ValuesOnly'
  <2>1. T = S
    BY <1>4 DEF S, T
  <2> QED BY <1>3, <2>1
<1>5. ASSUME NEW k \in UserKeys, NEW type \in WriteTypes, Write(k, type)
      PROVE  ValuesOnly'
  <2> DEFINE e == InternalKey(k, last_sequence + 1, type)
  <2>1. T = S \cup {e}
    BY <1>5 DEF Write, S, T, StoredIn
  <2>2. type = 1 /\ last_sequence \in Nat
    BY EntriesAre, WritesAssumption
       DEF WritesAssumption, StoreInv, kTypeDeletion, kTypeValue
  <2>3. TypeOf(e) = kTypeValue
    BY <2>2 DEF TypeOf, InternalKey, PackSequenceAndType, kTypeValue
  <2> HIDE DEF e
  <2>4. \A d \in T : TypeOf(d) = kTypeValue
    BY <1>2, <2>1, <2>3
  <2> QED BY <1>1, <2>4 DEF ValuesOnly
<1>6. CASE SwitchMemTable
  <2>1. T = S
    BY <1>6 DEF SwitchMemTable, S, T, StoredIn
  <2> QED BY <1>3, <2>1
<1>7. CASE GetSnapshot
  BY <1>4, <1>7 DEF GetSnapshot
<1>8. ASSUME NEW i \in DOMAIN snapshots, ReleaseSnapshot(i) PROVE ValuesOnly'
  BY <1>4, <1>8 DEF ReleaseSnapshot
<1>9. ASSUME NEW k \in UserKeys, GetFromFiles(k) PROVE ValuesOnly'
  BY <1>4, <1>9 DEF GetFromFiles
<1>16. ASSUME NEW g \in getting, UpdateStats(g) PROVE ValuesOnly'
  BY <1>4, <1>16 DEF UpdateStats
<1>10. ~\E m \in manual : RequestCompactRange([m EXCEPT !.registered = TRUE])
  BY DEF StoreInv, TreeInv, WorkIs
<1>11. CASE CompactMemTable
  BY <1>3, <1>11, FlushKeeps DEF StoreInv, S, T
<1>12. CASE BackgroundCompaction
  BY <1>3, <1>12, BackgroundKeeps DEF StoreInv, S, T
<1>13. CASE InstallCompactionResults
  BY <1>3, <1>13, InstallDrops DEF StoreInv, S, T
<1>14. CASE Observe
  BY <1>4, <1>14 DEF Observe
<1>15. CASE UNCHANGED vars
  BY <1>4, <1>15 DEF vars
<1> QED BY <1>5, <1>6, <1>7, <1>8, <1>9, <1>10, <1>11, <1>12, <1>13, <1>14, <1>15, <1>16
        DEF Next, Step

-----------------------------------------------------------------------------
(* What readers see *)

(* Snapshots are in the order of the writes, every one of them at or after *)
(* the one a compaction drops entries by, and where a file has come below  *)
(* a compaction since it began, the file has none of its keys.             *)
THEOREM StoreIsSound == ManualRequests = {} => (Spec => []StoreInv)
<1> SUFFICES ASSUME ManualRequests = {} PROVE Spec => []StoreInv
  OBVIOUS
<1>1. Init => StoreInv
  BY InitStore
<1>2. ReadersAre /\ StoreInv /\ [Next]_vars => StoreInv'
  BY NextStore
<1> QED BY <1>1, <1>2, TreeAndReaders, PTL DEF Spec

LEMMA InitKeys == Init => OneFilePerKey
<1>1. ASSUME Init PROVE \A l \in Levels : FilesIn(current[l]) = {}
  BY <1>1 DEF Init, NewVersion, FilesIn
<1> QED BY <1>1 DEF Init, OneFilePerKey

LEMMA InitValues == Init => ValuesOnly
<1> SUFFICES ASSUME Init PROVE ValuesOnly
  OBVIOUS
<1>1. \A l \in Levels : FilesIn(current[l]) = {}
  BY DEF Init, NewVersion, FilesIn
<1>2. Entries = {}
  BY <1>1 DEF Init, Entries, EntriesIn, AllFiles
<1> QED BY <1>2 DEF ValuesOnly

LEMMA AloneFollows ==
  ManualRequests = {} /\ (MaxSnapshots = 0 \/ kTypeDeletion \notin WriteTypes) =>
    (Spec => [](StoreInv /\ ReadingsFollow))
<1> SUFFICES ASSUME ManualRequests = {}, MaxSnapshots = 0 \/ kTypeDeletion \notin WriteTypes
             PROVE  Spec => [](StoreInv /\ ReadingsFollow)
  OBVIOUS
<1>1. Spec => []StoreInv
  BY StoreIsSound
<1>2. Init => ReadingsFollow
  BY InitReadings
<1>3. CASE MaxSnapshots = 0
  <2>1. Init => OneFilePerKey
    BY InitKeys
  <2>2. StoreInv /\ OneFilePerKey /\ [Next]_vars => OneFilePerKey'
    BY <1>3, NextKeys
  <2>3. StoreInv /\ StoreInv' /\ OneFilePerKey /\ ReadingsFollow /\ [Next]_vars => ReadingsFollow'
    BY WholeThen, NextReadings DEF StoreInv
  <2> QED BY <1>1, <1>2, <2>1, <2>2, <2>3, PTL DEF Spec
<1>4. CASE kTypeDeletion \notin WriteTypes
  <2>1. Init => ValuesOnly
    BY InitValues
  <2>2. StoreInv /\ ValuesOnly /\ [Next]_vars => ValuesOnly'
    BY <1>4, NextValues
  <2>3. StoreInv /\ StoreInv' /\ ValuesOnly /\ ReadingsFollow /\ [Next]_vars => ReadingsFollow'
    BY NextReadings
  <2> QED BY <1>1, <1>2, <2>1, <2>2, <2>3, PTL DEF Spec
<1> QED BY <1>3, <1>4

(* Flushes, moves, merges and dropped entries show to no reader, now or at *)
(* a snapshot, wherever no caller holds a snapshot, as in the app, and     *)
(* wherever nothing is deleted, whatever the snapshots: the tree then      *)
(* implements the abstract store.                                          *)
THEOREM TreeImplementsStore ==
  ManualRequests = {} /\ (MaxSnapshots = 0 \/ kTypeDeletion \notin WriteTypes) =>
    (Spec => ImplementsSnapshotStore)
<1> SUFFICES ASSUME ManualRequests = {}, MaxSnapshots = 0 \/ kTypeDeletion \notin WriteTypes
             PROVE  Spec => ImplementsSnapshotStore
  OBVIOUS
<1>1. Spec => [](StoreInv /\ ReadingsFollow)
  BY AloneFollows
<1>2. Init => Store!Init
  BY StoreInit
<1>3. ReadingsFollow /\ [Next]_vars => [Store!Next]_Store!vars
  BY StoreNext
<1> QED BY <1>1, <1>2, <1>3, PTL DEF Spec, ImplementsSnapshotStore, Store!Spec

LEMMA FollowingStays ==
  ASSUME StoreInv, ReadingsFollow
  PROVE  DeletedStaysAway
<1>1. Readings.writes = last_sequence /\ Readings.latest = View(last_sequence)
  BY DEF Readings
<1>2. last_sequence \in Nat
  BY EntriesAre DEF StoreInv
<1> QED BY <1>1, <1>2 DEF ReadingsFollow, StoreStep, DeletedStaysAway

(* There, too, no deleted entry comes back: what the run on a history with *)
(* a snapshot and deletions refutes holds where one of the two is missing. *)
THEOREM DeletedStaysAwayAlone ==
  ManualRequests = {} /\ (MaxSnapshots = 0 \/ kTypeDeletion \notin WriteTypes) =>
    (Spec => []DeletedStaysAway)
<1>1. StoreInv /\ ReadingsFollow => DeletedStaysAway
  BY FollowingStays
<1> QED BY <1>1, AloneFollows, PTL

-----------------------------------------------------------------------------
(* Snapshots and deletions *)

(* What a step may make of reads: values stay, at every number they can be *)
(* made at before and after it.                                            *)
ValuesKept ==
  \A s \in ReadableAt \cap ReadableAt', k \in UserKeys : \A n :
    n # 0 /\ Reads(StoredIn(mem, imm, current), k, s, n) =>
      Reads(StoredIn(mem', imm', current'), k, s, n)

LEMMA GetIsNow ==
  /\ \A k, s : Get(k, s) = GetIn(mem, imm, current, k, s)
  /\ \A k, s : Get(k, s)' = GetIn(mem', imm', current', k, s)
BY DEF Get, GetIn, Lookup, LookupIn

LEMMA ReadableIs ==
  ASSUME StoreInv
  PROVE  /\ last_sequence \in Nat
         /\ \A s \in ReadableAt : s \in 0..last_sequence
<1>1. last_sequence \in Nat
  BY EntriesAre DEF StoreInv
<1>2. \A i \in DOMAIN snapshots : snapshots[i] \in Nat /\ snapshots[i] <= last_sequence
  BY ElementOfSeq DEF StoreInv, SnapshotsAre
<1> QED BY <1>1, <1>2 DEF ReadableAt

LEMMA SameKept ==
  ASSUME StoredIn(mem', imm', current') = StoredIn(mem, imm, current)
  PROVE  ValuesKept
BY DEF ValuesKept

LEMMA WriteKept ==
  ASSUME StoreInv, NEW k \in UserKeys, NEW type \in WriteTypes, Write(k, type)
  PROVE  ValuesKept
<1> DEFINE n == last_sequence
           e == InternalKey(k, n + 1, type)
           S == StoredIn(mem, imm, current)
           T == StoredIn(mem', imm', current')
<1>1. mem' = mem \cup {e} /\ UNCHANGED <<imm, current>>
  BY DEF Write
<1>2. n \in Nat /\ S \in SUBSET Entry /\ \A d \in S : d.tag <= 2 * n + 1
  BY PlacedNow DEF StoreInv
<1>3. T = S \cup {e}
  BY <1>1 DEF StoredIn
<1>4. e \in Entry /\ e.tag \in {2 * (n + 1), 2 * (n + 1) + 1}
  <2>1. type \in {0, 1}
    BY WritesAssumption DEF WritesAssumption, kTypeDeletion, kTypeValue
  <2>2. e = [key |-> k, tag |-> 2 * (n + 1) + type]
    BY DEF InternalKey, PackSequenceAndType
  <2> HIDE DEF e, S, T
  <2> QED BY <1>2, <2>1, <2>2 DEF Entry
<1>5. \A s \in ReadableAt : s \in 0..n
  BY ReadableIs
<1> HIDE DEF e, S, T, n
<1>6. \A j \in UserKeys, s \in 0..n : \A x : Reads(S, j, s, x) => Reads(T, j, s, x)
  BY <1>2, <1>3, <1>4, JoinedIs
<1> QED BY <1>5, <1>6 DEF ValuesKept, S, T

(* What a reader might see and a compaction drops has a newer entry that   *)
(* the reader sees, or is a deletion.                                      *)
LEMMA DroppedUnseen ==
  ASSUME StoreInv, InstallCompactionResults, NEW s \in ReadableAt, NEW k \in UserKeys,
         NEW d \in Visible(StoredIn(mem, imm, current), LookupKey(k, s)),
         d \notin StoredIn(mem', imm', current')
  PROVE  \/ \E e \in Visible(StoredIn(mem, imm, current), LookupKey(k, s)) : d.tag < e.tag
         \/ TypeOf(d) = kTypeDeletion
<1> DEFINE S == StoredIn(mem, imm, current)
           T == StoredIn(mem', imm', current')
           V == Visible(S, LookupKey(k, s))
<1>1. PICK w \in compaction : /\ EntriesIn(current') = Untouched(current, w.c) \cup WrittenBy(w)
                              /\ UNCHANGED <<mem, imm>>
  BY InstallLeaves DEF StoreInv
<1> DEFINE c == w.c
           W == WrittenBy(w)
           C == Compacted(c)
           U == Untouched(current, c)
<1>2. /\ Settled(current) /\ Sound(current, c) /\ w.snapshot \in Nat /\ w.snapshot <= s
      /\ s \in Nat
  <2>1. Settled(current) /\ Sound(current, c) /\ w.snapshot \in Nat /\ w.snapshot <= s
    BY DEF StoreInv, TreeInv, FilesAre, WorkIs, InputsAre, ReadableAt
  <2> QED BY <2>1, ReadableIs
<1>3. /\ C \in SUBSET Entry
      /\ \A b \in C : b \notin W =>
           \/ \E e \in C : e.key = b.key /\ b.tag < e.tag /\ SequenceOf(e) <= w.snapshot
           \/ TypeOf(b) = kTypeDeletion
  <2>1. c.inputs0 \in Seq(File) /\ c.inputs1 \in Seq(File) /\ c.grandparents \in Seq(File)
    BY <1>2, SoundMeans
  <2>2. IsFiniteSet(C) /\ C \in SUBSET Entry
    BY <2>1, OutputsAre
  <2> QED BY <1>2, <2>2, DroppedIs DEF WrittenBy
<1>4. EntriesIn(current) = U \cup C
  <2>1. C = UNION {f.entries : f \in InputsOf(c)}
    BY <1>2, SoundIs
  <2>2. InputsOf(c) \subseteq AllFiles(current)
    <3>1. /\ FilesIn(c.inputs0) \subseteq AllFiles(current)
          /\ FilesIn(c.inputs1) \subseteq AllFiles(current)
      BY <1>2, SoundIs, FilesOfTree
    <3> QED BY <3>1 DEF InputsOf
  <2> HIDE DEF C
  <2> QED BY <2>1, <2>2 DEF EntriesIn, Untouched
<1>5. /\ \A e : e \in S <=> e \in mem \/ e \in imm \/ e \in U \/ e \in C
      /\ \A e : e \in T <=> e \in mem \/ e \in imm \/ e \in U \/ e \in W
  BY <1>1, <1>4 DEF StoredIn
<1>6. \A e : e \in V <=> e \in S /\ e.key = k /\ e.tag <= 2 * s + 1
  BY <1>2, LookupKeyIs DEF Visible
<1>7. d \in V /\ d \notin T
  OBVIOUS
<1> HIDE DEF S, T, V, W, C, U, c
<1>8. d \in C /\ d \notin W /\ d.key = k
  BY <1>5, <1>6, <1>7
<1>9. ASSUME NEW e \in C, e.key = d.key, d.tag < e.tag, SequenceOf(e) <= w.snapshot
      PROVE  e \in V
  <2>1. e \in S /\ e.tag \in Nat /\ e.tag \div 2 <= w.snapshot
    BY <1>3, <1>5, <1>9 DEF SequenceOf, Entry
  <2>2. e.tag <= 2 * w.snapshot + 1
    BY <1>2, <2>1
  <2>3. e.tag <= 2 * s + 1
    BY <1>2, <2>1, <2>2
  <2> QED BY <1>6, <1>8, <1>9, <2>1, <2>3
<1> QED BY <1>3, <1>8, <1>9 DEF V, S

LEMMA InstallKept ==
  ASSUME StoreInv, InstallCompactionResults
  PROVE  ValuesKept
<1> DEFINE S == StoredIn(mem, imm, current)
           T == StoredIn(mem', imm', current')
<1>1. T \subseteq S /\ S \in SUBSET Entry
  BY InstallDrops, TreeInPlace, EntriesAre DEF StoreInv
<1>2. ASSUME NEW s \in ReadableAt, NEW k \in UserKeys, NEW n, n # 0, Reads(S, k, s, n)
      PROVE  Reads(T, k, s, n)
  <2> DEFINE V == Visible(S, LookupKey(k, s))
             X == Visible(T, LookupKey(k, s))
  <2>1. PICK e \in V : (\A d \in V : d.tag <= e.tag) /\ n = ValueOf(e)
    BY <1>2 DEF Reads
  <2>2. TypeOf(e) # kTypeDeletion
    BY <1>2, <2>1 DEF ValueOf, kTypeDeletion, kTypeValue
  <2>3. \A d \in V : e.tag \in Nat /\ d.tag \in Nat
    BY <1>1 DEF Visible, Entry
  <2>4. e \in T
    <3>1. SUFFICES ASSUME e \notin T PROVE FALSE
      OBVIOUS
    <3>2. \/ \E d \in V : e.tag < d.tag
          \/ TypeOf(e) = kTypeDeletion
      BY <3>1, DroppedUnseen
    <3> QED BY <2>1, <2>2, <2>3, <3>2
  <2>5. \A d : d \in X => d \in V
    BY <1>1 DEF Visible
  <2>6. e \in X
    BY <2>4 DEF Visible
  <2> HIDE DEF V, X
  <2>7. e \in X /\ (\A d \in X : d.tag <= e.tag) /\ n = ValueOf(e)
    BY <2>1, <2>5, <2>6
  <2> QED BY <2>7 DEF Reads, X
<1> QED BY <1>2 DEF ValuesKept

LEMMA StepKept ==
  ASSUME ManualRequests = {}, StoreInv, Step \/ Observe
  PROVE  ValuesKept
<1>1. ASSUME UNCHANGED <<mem, imm, current>> PROVE ValuesKept
  BY <1>1, SameKept
<1>2. ASSUME NEW k \in UserKeys, NEW type \in WriteTypes, Write(k, type) PROVE ValuesKept
  BY <1>2, WriteKept
<1>3. CASE SwitchMemTable
  <2>1. StoredIn(mem', imm', current') = StoredIn(mem, imm, current)
    BY <1>3 DEF SwitchMemTable, StoredIn
  <2> QED BY <2>1, SameKept
<1>4. CASE GetSnapshot \/ Observe
  BY <1>1, <1>4 DEF GetSnapshot, Observe
<1>9. ASSUME NEW i \in DOMAIN snapshots, ReleaseSnapshot(i) PROVE ValuesKept
  BY <1>1, <1>9 DEF ReleaseSnapshot
<1>10. ASSUME NEW k \in UserKeys, GetFromFiles(k) PROVE ValuesKept
  BY <1>1, <1>10 DEF GetFromFiles
<1>11. ASSUME NEW g \in getting, UpdateStats(g) PROVE ValuesKept
  BY <1>1, <1>11 DEF UpdateStats
<1>5. ~\E m \in manual : RequestCompactRange([m EXCEPT !.registered = TRUE])
  BY DEF StoreInv, TreeInv, WorkIs
<1>6. CASE CompactMemTable
  BY <1>6, FlushKeeps, SameKept DEF StoreInv
<1>7. CASE BackgroundCompaction
  BY <1>7, BackgroundKeeps, SameKept DEF StoreInv
<1>8. CASE InstallCompactionResults
  BY <1>8, InstallKept
<1> QED BY <1>2, <1>3, <1>4, <1>5, <1>6, <1>7, <1>8, <1>9, <1>10, <1>11 DEF Step

LEMMA NextValuesStay ==
  ASSUME ManualRequests = {}, StoreInv, StoreInv', ValuesStay, [Next]_vars
  PROVE  ValuesStay'
<1>1. CASE UNCHANGED vars
  <2>1. /\ \A k, s : Get(k, s)' = Get(k, s)
        /\ seen' = seen /\ ReadableAt' = ReadableAt
    BY <1>1, GetIsNow DEF vars, ReadableAt
  <2> QED BY <2>1 DEF ValuesStay
<1>2. CASE Next
  <2>1. ValuesKept /\ seen' = Sights
    BY <1>2, StepKept DEF Next
  <2>2. ASSUME NEW s \in DOMAIN seen' \cap ReadableAt', NEW k \in UserKeys, seen'[s][k] # 0
        PROVE  Get(k, s)' = seen'[s][k]
    <3> DEFINE n == GetIn(mem, imm, current, k, s)
               m == GetIn(mem', imm', current', k, s)
               T == StoredIn(mem', imm', current')
    <3>1. s \in ReadableAt /\ s \in ReadableAt' /\ seen'[s][k] = n /\ s \in Nat
      <4>1. DOMAIN seen' = ReadableAt /\ seen'[s][k] = Get(k, s)
        BY <2>1, <2>2 DEF Sights, View
      <4> QED BY <2>2, <4>1, GetIsNow, ReadableIs
    <3>2. InPlace(mem, imm, current) /\ InPlace(mem', imm', current')
      BY PlacedNow, PlacedNext DEF StoreInv
    <3>3. Reads(StoredIn(mem, imm, current), k, s, n)
      BY <3>1, <3>2, GetIs
    <3>4. Reads(T, k, s, m)
      BY <3>1, <3>2, GetIs
    <3>5. Get(k, s)' = m
      BY GetIsNow
    <3>6. T \in SUBSET Entry
      BY <3>2 DEF InPlace, StoredIn
    <3>7. n # 0
      BY <2>2, <3>1
    <3> HIDE DEF n, m
    <3>8. Reads(T, k, s, n)
      BY <2>1, <3>1, <3>3, <3>7 DEF ValuesKept
    <3> HIDE DEF T
    <3>9. m = n
      BY <3>4, <3>6, <3>8, ReadsOnce
    <3> QED BY <3>1, <3>5, <3>9
  <2> QED BY <2>2 DEF ValuesStay
<1> QED BY <1>1, <1>2

(* Whatever is flushed, moved, merged and dropped, with snapshots and      *)
(* deletions in any number: no value is lost, and none gives way to an     *)
(* older one, now or at a snapshot.  Where TreeImplementsStore ends, all   *)
(* that can go wrong is that a deletion loses its effect.                  *)
THEOREM ValuesAlwaysStay == ManualRequests = {} => (Spec => []ValuesStay)
<1> SUFFICES ASSUME ManualRequests = {} PROVE Spec => []ValuesStay
  OBVIOUS
<1>1. Init => ValuesStay
  BY DEF Init, ValuesStay
<1>2. StoreInv /\ StoreInv' /\ ValuesStay /\ [Next]_vars => ValuesStay'
  BY NextValuesStay
<1> QED BY <1>1, <1>2, StoreIsSound, PTL DEF Spec
=============================================================================
