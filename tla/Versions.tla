------------------------------ MODULE Versions ------------------------------
(***************************************************************************)
(* Table files, the levels of a version, and the choice of what to compact *)
(* (db/version_set.cc).  A version maps each level to the sequence of its  *)
(* files; a file is its number and its set of entries, and its size is the *)
(* number of its entries.  Smallest and largest are the first and the last *)
(* entry, as WriteLevel0Table and the compaction record them.              *)
(***************************************************************************)
EXTENDS InternalKeys, FiniteSetsExt

CONSTANTS kNumLevels,              \* levels 0 .. kNumLevels - 1
          kL0_CompactionTrigger,   \* level-0 files that start a compaction
          kMaxMemCompactLevel,     \* deepest level a memtable is pushed to
          MaxFileSize,             \* entries of a compaction's output file
          MaxGrandParentOverlapBytes,
          ExpandedCompactionByteSizeLimit,
          MaxBytesForLevel         \* per level: entries before it is too big

ASSUME LevelAssumption == kNumLevels \in Nat /\ kNumLevels >= 3
ASSUME TriggerAssumption == kL0_CompactionTrigger \in Nat \ {0}
ASSUME MemLevelAssumption == kMaxMemCompactLevel \in 0..(kNumLevels - 1)
ASSUME BytesAssumption == MaxBytesForLevel \in [0..(kNumLevels - 1) -> Nat \ {0}]

Levels == 0..(kNumLevels - 1)

Smallest(f) == First(f.entries)
Largest(f)  == LastKey(f.entries)
FileSize(f) == Cardinality(f.entries)
FilesIn(fs) == {fs[i] : i \in DOMAIN fs}

TotalFileSize(fs) ==
  LET sum[i \in 0..Len(fs)] == IF i = 0 THEN 0 ELSE sum[i - 1] + FileSize(fs[i])
  IN  sum[Len(fs)]

NewVersion == [level \in Levels |-> <<>>]

(* The place of the first file whose largest key is at or after ik, by the *)
(* binary search of the code; one past the end when there is none.         *)
FindFile(fs, ik) ==
  LET n == Len(fs)
      search[s \in (1..(n + 1)) \X (1..(n + 1))] ==
        LET mid == (s[1] + s[2]) \div 2
        IN  IF s[1] >= s[2] THEN s[2]
            ELSE IF Before(Largest(fs[mid]), ik) THEN search[<<mid + 1, s[2]>>]
            ELSE search[<<s[1], mid>>]
  IN  search[<<1, n + 1>>]

AfterFile(begin, f) == begin > Largest(f).key
BeforeFile(end, f)  == end < Smallest(f).key

(* Does a file overlap the user keys begin..end?  Where the files are      *)
(* disjoint and sorted only the first candidate is looked at.              *)
SomeFileOverlapsRange(disjoint, fs, begin, end) ==
  IF ~disjoint
  THEN \E f \in FilesIn(fs) : ~AfterFile(begin, f) /\ ~BeforeFile(end, f)
  ELSE LET i == IF begin = BeforeAll THEN 1
                ELSE FindFile(fs, LookupKey(begin, kMaxSequenceNumber))
       IN  i <= Len(fs) /\ ~BeforeFile(end, fs[i])

OverlapInLevel(v, level, begin, end) ==
  SomeFileOverlapsRange(level > 0, v[level], begin, end)

Overlaps(f, begin, end) == ~AfterFile(begin, f) /\ ~BeforeFile(end, f)

(* The range after a file of level 0 that reaches further was found in it: *)
(* the search begins anew with the range grown to that end of the file.    *)
Grown(f, range) ==
  IF Smallest(f).key < range[1] THEN <<Smallest(f).key, range[2]>>
  ELSE <<range[1], Largest(f).key>>

Wider(fs, range) ==
  {i \in DOMAIN fs : /\ Overlaps(fs[i], range[1], range[2])
                     /\ \/ Smallest(fs[i]).key < range[1]
                        \/ Largest(fs[i]).key > range[2]}

SearchedRange(level, fs, begin, end) ==
  LET grown[range \in (0..AfterAll) \X (0..AfterAll)] ==
        IF level > 0 \/ Wider(fs, range) = {} THEN range
        ELSE grown[Grown(fs[Min(Wider(fs, range))], range)]
  IN  grown[<<begin, end>>]

Ascending(i, j) == i < j
FilesInRange(fs, range) ==
  LET hits == Sorted({i \in DOMAIN fs : Overlaps(fs[i], range[1], range[2])},
                     Ascending)
  IN  [i \in DOMAIN hits |-> fs[hits[i]]]

(* All files of a level that overlap begin..end.                           *)
GetOverlappingInputs(v, level, begin, end) ==
  FilesInRange(v[level], SearchedRange(level, v[level], begin, end))

(* A memtable with these user keys goes no deeper than this level.         *)
StopsAt(v, level, begin, end) ==
  \/ level >= kMaxMemCompactLevel
  \/ OverlapInLevel(v, level + 1, begin, end)
  \/ /\ level + 2 < kNumLevels
     /\ TotalFileSize(GetOverlappingInputs(v, level + 2, begin, end))
          > MaxGrandParentOverlapBytes

(* The level a flushed memtable with these user keys goes to.              *)
PickLevelForMemTableOutput(v, begin, end) ==
  IF OverlapInLevel(v, 0, begin, end) THEN 0
  ELSE Min({level \in 0..kMaxMemCompactLevel : StopsAt(v, level, begin, end)})

-----------------------------------------------------------------------------
(* Reading *)

NewestFirst(f, g) == f.number > g.number

(* The files a lookup reads, in order, while it finds nothing.             *)
FilesToSearch(v, ik) ==
  LET hits0 == {f \in FilesIn(v[0]) : /\ ik.key >= Smallest(f).key
                                      /\ ik.key <= Largest(f).key}
      At(level) ==
        LET i == FindFile(v[level], ik)
        IN  IF i > Len(v[level]) \/ ik.key < Smallest(v[level][i]).key THEN <<>>
            ELSE <<[level |-> level, file |-> v[level][i]]>>
      from[level \in 1..kNumLevels] ==
        IF level = kNumLevels THEN <<>> ELSE At(level) \o from[level + 1]
      newest == Sorted(hits0, NewestFirst)
  IN  [i \in DOMAIN newest |-> [level |-> 0, file |-> newest[i]]] \o from[1]

(* Version::Get: the entry found, at most one, and the file to charge for  *)
(* a seek that another file had to follow.                                 *)
VersionGet(v, ik) ==
  LET list == FilesToSearch(v, ik)
      hits == {i \in DOMAIN list : SeekEntry(list[i].file.entries, ik) # {}}
      hit  == CHOOSE i \in hits : \A j \in hits : i <= j
      read == IF hits = {} THEN Len(list) ELSE hit
  IN  [entry   |-> IF hits = {} THEN {} ELSE SeekEntry(list[hit].file.entries, ik),
       charged |-> IF read > 1 THEN {list[1]} ELSE {}]

-----------------------------------------------------------------------------
(* Version edits *)

BySmallestKey(f, g) == \/ Before(Smallest(f), Smallest(g))
                       \/ Smallest(f) = Smallest(g) /\ f.number < g.number

(* Builder::Apply and SaveTo: an edit deletes files of levels by number    *)
(* and adds files; a file both deleted and added to a level is added.      *)
Apply(v, edit) ==
  [level \in Levels |->
     LET added == {a.file : a \in {x \in edit.added : x.level = level}}
         gone  == {d.number : d \in {x \in edit.deleted : x.level = level}}
     IN  Sorted({f \in FilesIn(v[level]) : f.number \notin gone} \cup added,
                BySmallestKey)]

(* The level with the highest score, the lowest such, and its score as a   *)
(* fraction (Finalize).                                                    *)
Score(v, level) ==
  IF level = 0 THEN <<Len(v[0]), kL0_CompactionTrigger>>
  ELSE <<TotalFileSize(v[level]), MaxBytesForLevel[level]>>

AtLeast(s, t) == s[1] * t[2] >= t[1] * s[2]

CompactionLevel(v) ==
  CHOOSE l \in 0..(kNumLevels - 2) :
    \A m \in 0..(kNumLevels - 2) :
      AtLeast(Score(v, l), Score(v, m)) /\ (m < l => ~AtLeast(Score(v, m), Score(v, l)))

SizeCompaction(v) == AtLeast(Score(v, CompactionLevel(v)), <<1, 1>>)

NeedsCompaction(v, file_to_compact) == SizeCompaction(v) \/ file_to_compact # {}

-----------------------------------------------------------------------------
(* Choosing the inputs of a compaction *)

RangeOf(fs) ==
  LET all == UNION {f.entries : f \in FilesIn(fs)}
  IN  [smallest |-> First(all), largest |-> LastKey(all)]

(* Mistake: the files chosen are compacted without those that continue them.*)
NoBoundaryInputs(fs, inputs) == inputs

(* Files that continue the versions of the user key at which the inputs    *)
(* end: left behind, they would hide what moves below them.                *)
Continuing(fs, inputs) ==
  LET top == RangeOf(inputs).largest
  IN  {f \in FilesIn(fs) : Before(top, Smallest(f)) /\ Smallest(f).key = top.key}

FirstFile(files) ==
  CHOOSE f \in files : \A g \in files : ~Before(Smallest(g), Smallest(f))

AddBoundaryInputs(fs, inputs) ==
  LET rounds[n \in 0..Len(fs)] ==
        IF n = 0 THEN inputs
        ELSE LET now  == rounds[n - 1]
                 next == Continuing(fs, now)
             IN  IF next = {} THEN now ELSE Append(now, FirstFile(next))
  IN  IF inputs = <<>> THEN inputs ELSE rounds[Len(fs)]

(* The files of a level that overlap the range of fs.                      *)
OverlapsOfRange(v, level, range) ==
  GetOverlappingInputs(v, level, range.smallest.key, range.largest.key)
FilesOver(v, level, fs) == OverlapsOfRange(v, level, RangeOf(fs))

(* Inputs are a pair: files of a level and those of the next below them.   *)
WithNextLevel(v, level, inputs0) == <<inputs0, FilesOver(v, level + 1, inputs0)>>

Widened(v, level, inputs) ==
  WithNextLevel(v, level,
    AddBoundaryInputs(v[level], FilesOver(v, level, inputs[1] \o inputs[2])))

(* The inputs may grow in the level when no more of the next comes along.  *)
Expanded(inputs, wide) ==
  IF /\ inputs[2] # <<>>
     /\ Len(wide[1]) > Len(inputs[1])
     /\ TotalFileSize(inputs[2]) + TotalFileSize(wide[1]) < ExpandedCompactionByteSizeLimit
     /\ Len(wide[2]) = Len(inputs[2])
  THEN wide ELSE inputs

CompactionOf(v, level, inputs) ==
  [level |-> level, inputs0 |-> inputs[1], inputs1 |-> inputs[2],
   largest |-> RangeOf(inputs[1]).largest,
   grandparents |-> IF level + 2 < kNumLevels
                    THEN FilesOver(v, level + 2, inputs[1] \o inputs[2])
                    ELSE <<>>]

ExpandedCompaction(v, level, inputs) ==
  CompactionOf(v, level, Expanded(inputs, Widened(v, level, inputs)))

SetupOtherInputs(v, level, chosen) ==
  ExpandedCompaction(v, level, WithNextLevel(v, level, AddBoundaryInputs(v[level], chosen)))

(* The first file of a level after its compaction pointer, or the first.   *)
NextFile(fs, pointer) ==
  LET later == {i \in DOMAIN fs : \A p \in pointer : Before(p, Largest(fs[i]))}
  IN  fs[IF later = {} THEN 1 ELSE Min(later)]

(* The file to compact is chosen by size, or else for its seeks.           *)
FileToCompact(v, level, compact_pointer, file_to_compact) ==
  IF SizeCompaction(v)
  THEN [level |-> level, file |-> NextFile(v[level], compact_pointer[level])]
  ELSE CHOOSE x \in file_to_compact : TRUE

CompactFile(v, x) ==
  SetupOtherInputs(v, x.level,
    IF x.level > 0 THEN <<x.file>> ELSE FilesOver(v, 0, <<x.file>>))

PickCompaction(v, compact_pointer, file_to_compact) ==
  CompactFile(v, FileToCompact(v, CompactionLevel(v), compact_pointer, file_to_compact))

(* The files up to the one with which the limit on sizes is reached.       *)
UpToLimit(fs) ==
  LET enough == {i \in DOMAIN fs : TotalFileSize(SubSeq(fs, 1, i)) >= MaxFileSize}
  IN  IF enough = {} THEN fs ELSE SubSeq(fs, 1, Min(enough))

CompactInputs(v, level, inputs) ==
  IF inputs = <<>> THEN {}
  ELSE {SetupOtherInputs(v, level, IF level = 0 THEN inputs ELSE UpToLimit(inputs))}

(* The manual choice for begin..end; empty when no file overlaps it.       *)
CompactRange(v, level, begin, end) ==
  CompactInputs(v, level, GetOverlappingInputs(v, level, begin, end))

IsTrivialMove(c) == /\ Len(c.inputs0) = 1
                    /\ Len(c.inputs1) = 0
                    /\ TotalFileSize(c.grandparents) <= MaxGrandParentOverlapBytes

-----------------------------------------------------------------------------
(* The work of a compaction *)

(* Mistake: the level right below the output's is passed over.             *)
IsBaseLevelFurtherDown(v, level, k) ==
  \A l \in (level + 3)..(kNumLevels - 1) : \A f \in FilesIn(v[l]) :
    ~(Smallest(f).key <= k /\ k <= Largest(f).key)

(* No level below the output's has a file in whose range k falls; v is the *)
(* version the inputs were chosen from.                                    *)
IsBaseLevelForKey(v, level, k) ==
  \A l \in (level + 2)..(kNumLevels - 1) : \A f \in FilesIn(v[l]) :
    ~(Smallest(f).key <= k /\ k <= Largest(f).key)

(* Mistake: snapshots are ignored.                                         *)
DropDespiteSnapshot(input, i, level, v, smallest_snapshot) ==
  i > 1 /\ input[i - 1].key = input[i].key

(* Entry i of the sorted input is not written: an entry of the same key at *)
(* or before the oldest snapshot hides it, or it is a deletion that hides  *)
(* nothing any more.                                                       *)
Drop(input, i, level, v, smallest_snapshot) ==
  \/ /\ i > 1
     /\ input[i - 1].key = input[i].key
     /\ SequenceOf(input[i - 1]) <= smallest_snapshot
  \/ /\ TypeOf(input[i]) = kTypeDeletion
     /\ SequenceOf(input[i]) <= smallest_snapshot
     /\ IsBaseLevelForKey(v, level, input[i].key)

(* The output files: those done, the open one, and for the open one the    *)
(* grandparents before the last key and the sizes of those it passed.      *)
CloseOutput(out) ==
  IF out.open = {} THEN out ELSE [out EXCEPT !.done = Append(@, out.open), !.open = {}]

(* ShouldStopBefore: e, which comes after passed of the grandparents gp.   *)
CountOverlap(out, gp, passed, seen_key) ==
  [out EXCEPT !.passed     = passed,
              !.overlapped = IF seen_key THEN @ + TotalFileSize(SubSeq(gp, out.passed + 1, passed))
                             ELSE 0]
StopBefore(out) ==
  IF out.overlapped > MaxGrandParentOverlapBytes
  THEN [CloseOutput(out) EXCEPT !.overlapped = 0] ELSE out

CloseFull(out) == IF Cardinality(out.open) >= MaxFileSize THEN CloseOutput(out) ELSE out
AddEntry(out, e, dropped) ==
  IF dropped THEN out ELSE CloseFull([out EXCEPT !.open = @ \cup {e}])

(* The loop of DoCompactionWork: the output files' entries, in order.      *)
CompactionLoop(c, v, smallest_snapshot, input) ==
  LET passed(i) == Cardinality({f \in FilesIn(c.grandparents) : Before(Largest(f), input[i])})
      out[i \in 0..Len(input)] ==
        IF i = 0 THEN [done |-> <<>>, open |-> {}, passed |-> 0, overlapped |-> 0]
        ELSE AddEntry(StopBefore(CountOverlap(out[i - 1], c.grandparents, passed(i), i > 1)),
                      input[i], Drop(input, i, c.level, v, smallest_snapshot))
  IN  CloseOutput(out[Len(input)]).done

CompactionOutputs(c, v, smallest_snapshot) ==
  CompactionLoop(c, v, smallest_snapshot,
    Sorted(UNION {f.entries : f \in FilesIn(c.inputs0 \o c.inputs1)}, Before))
=============================================================================
