------------------------------ MODULE LsmTree ------------------------------
(***************************************************************************)
(* The data of an open database (DBImpl, db/db_impl.cc): the memtables, the*)
(* current version, snapshots, and the background thread that flushes and  *)
(* compacts while writers go on.  Nothing fails here: errors and restarts  *)
(* are in Recovery, the writers' queue is in WriteQueue.                   *)
(*                                                                         *)
(* The background thread alone installs versions.  Its compaction reads    *)
(* the files of the version it started from without the mutex, and stops   *)
(* at each key for a full memtable; what it writes depends on the inputs   *)
(* and on the oldest snapshot at its start alone, so it is computed when   *)
(* it is installed, with any number of other steps in between.             *)
(***************************************************************************)
EXTENDS Versions

CONSTANTS WriteBufferSize,         \* entries that fill a memtable
          kL0_StopWritesTrigger,   \* level-0 files that stop writers
          AllowedSeeks,            \* seeks a file may cause before it is compacted
          MaxWrites,               \* bound on the writes
          MaxSnapshots,            \* bound on the live snapshots
          MaxReaders,              \* bound on the Gets reading files at a time
          WriteTypes,              \* bound on the types written
          ManualRequests           \* bound on what callers compact by hand

ASSUME WritesAssumption == /\ MaxWrites \in 0..kMaxSequenceNumber
                           /\ WriteTypes \subseteq {kTypeDeletion, kTypeValue}

VARIABLES mem, imm,          \* sets of entries; {} for no immutable memtable
          last_sequence,
          current,           \* the files of the current version
          file_to_compact,   \* its file whose seeks are used up, or {}
          seeks,             \* seeks charged, by file number
          getting,           \* Gets that read without the mutex, and their charge
          compact_pointer,   \* per level, {} or the key to go on after
          next_file_number,
          snapshots,         \* sequence numbers, oldest first
          compaction,        \* {} or what the background thread compacts
          manual,            \* {} or what is left of a caller's compaction
          reads,             \* what reads returned before the last step
          seen               \* the same by the numbers they were made at

vars == <<mem, imm, last_sequence, current, file_to_compact, seeks, getting,
          compact_pointer, next_file_number, snapshots, compaction, manual,
          reads, seen>>

FileOf(number, entries) == [number |-> number, entries |-> entries]

Init ==
  /\ mem = {} /\ imm = {}
  /\ last_sequence = 0
  /\ current = NewVersion
  /\ file_to_compact = {}
  /\ seeks = <<>> /\ getting = {}
  /\ compact_pointer = [level \in Levels |-> {}]
  /\ next_file_number = 1
  /\ snapshots = <<>>
  /\ compaction = {}
  /\ manual = {}
  /\ reads = [writes |-> 0, latest |-> [k \in UserKeys |-> 0], views |-> <<>>]
  /\ seen = [s \in {0} |-> [k \in UserKeys |-> 0]]

-----------------------------------------------------------------------------
(* The callers *)

(* One entry joins the memtable, which has room (MakeRoomForWrite).        *)
Write(k, type) ==
  /\ last_sequence < MaxWrites
  /\ Cardinality(mem) < WriteBufferSize
  /\ mem' = mem \cup {InternalKey(k, last_sequence + 1, type)}
  /\ last_sequence' = last_sequence + 1
  /\ UNCHANGED <<imm, current, file_to_compact, seeks, getting, compact_pointer,
                 next_file_number, snapshots, compaction, manual>>

(* A writer finds the memtable full, the other one flushed and level 0 not *)
(* overfull: it switches memtables.                                        *)
SwitchMemTable ==
  /\ Cardinality(mem) >= WriteBufferSize
  /\ imm = {}
  /\ Len(current[0]) < kL0_StopWritesTrigger
  /\ imm' = mem /\ mem' = {}
  /\ UNCHANGED <<last_sequence, current, file_to_compact, seeks, getting,
                 compact_pointer, next_file_number, snapshots, compaction, manual>>

GetSnapshot ==
  /\ Len(snapshots) < MaxSnapshots
  /\ snapshots' = Append(snapshots, last_sequence)
  /\ UNCHANGED <<mem, imm, last_sequence, current, file_to_compact, seeks,
                 getting, compact_pointer, next_file_number, compaction, manual>>

ReleaseSnapshot(i) ==
  /\ snapshots' = SubSeq(snapshots, 1, i - 1) \o SubSeq(snapshots, i + 1, Len(snapshots))
  /\ UNCHANGED <<mem, imm, last_sequence, current, file_to_compact, seeks,
                 getting, compact_pointer, next_file_number, compaction, manual>>

(* DBImpl::Get: the entry of k visible at a snapshot, at most one.         *)
Lookup(k, snapshot) ==
  LET ik   == LookupKey(k, snapshot)
      here == SeekEntry(mem, ik)
      full == SeekEntry(imm, ik)
  IN  IF here # {} THEN here ELSE IF full # {} THEN full
      ELSE VersionGet(current, ik).entry

(* What the caller gets: the number of the write, or 0 for NotFound.       *)
Get(k, snapshot) ==
  LET found == {e \in Lookup(k, snapshot) : TypeOf(e) = kTypeValue}
  IN  IF found = {} THEN 0 ELSE SequenceOf(First(found))

View(snapshot) == [k \in UserKeys |-> Get(k, snapshot)]
Readings == [writes |-> last_sequence,
             latest |-> View(last_sequence),
             views  |-> [i \in DOMAIN snapshots |-> View(snapshots[i])]]

ReadableAt == {last_sequence} \cup {snapshots[i] : i \in DOMAIN snapshots}
Sights     == [s \in ReadableAt |-> View(s)]

(* A Get that misses the memtables and reads a second file of the version  *)
(* it took will charge a seek to the first.  It reads without the mutex,   *)
(* but what it finds is settled when it begins: later entries are not for  *)
(* its snapshot, and it holds the memtables and the version.               *)
GetFromFiles(k) ==
  LET ik == LookupKey(k, last_sequence)
  IN  /\ Cardinality(getting) < MaxReaders
      /\ SeekEntry(mem, ik) = {} /\ SeekEntry(imm, ik) = {}
      /\ \E x \in VersionGet(current, ik).charged :
           getting' = getting \cup {[charged |-> x, version |-> current]}
      /\ UNCHANGED <<mem, imm, last_sequence, current, file_to_compact, seeks,
                     compact_pointer, next_file_number, snapshots, compaction, manual>>

(* The seeks of a file when one more is charged, as far as they matter.    *)
ChargedOnceMore(n) ==
  LET before == IF n \in DOMAIN seeks THEN seeks[n] ELSE 0
  IN  IF before >= AllowedSeeks THEN before ELSE before + 1

(* Version::UpdateStats, back under the mutex: versions share the counter  *)
(* of a file as long as it stays in its level, and the version that was    *)
(* read notes the file, be it the current one still or not.                *)
UpdateStats(g) ==
  LET x    == g.charged
      used == ChargedOnceMore(x.file.number)
  IN  /\ seeks' = IF x.file \in FilesIn(current[x.level])
                  THEN [m \in DOMAIN seeks \cup {x.file.number} |->
                          IF m = x.file.number THEN used ELSE seeks[m]]
                  ELSE seeks
      /\ file_to_compact' = IF /\ used >= AllowedSeeks /\ file_to_compact = {}
                               /\ g.version = current
                            THEN {x} ELSE file_to_compact
      /\ getting' = getting \ {g}
      /\ UNCHANGED <<mem, imm, last_sequence, current, compact_pointer,
                     next_file_number, snapshots, compaction, manual>>

(* TEST_CompactRange registers a manual compaction of one level (the       *)
(* public CompactRange does so for one level after the other), and again   *)
(* after each round that leaves a part of it to do.                        *)
RequestCompactRange(request) ==
  /\ \/ manual = {}
     \/ \E m \in manual : ~m.registered /\ request = [m EXCEPT !.registered = TRUE]
  /\ manual' = {request}
  /\ UNCHANGED <<mem, imm, last_sequence, current, file_to_compact, seeks,
                 getting, compact_pointer, next_file_number, snapshots, compaction>>

-----------------------------------------------------------------------------
(* The background thread *)

(* Mistake: the new version keeps the old one's file to compact.           *)
InstallKeepingSeeks(edit) == current' = Apply(current, edit) /\ UNCHANGED file_to_compact

(* LogAndApply: the version that the edit makes becomes current.           *)
Install(edit) == current' = Apply(current, edit) /\ file_to_compact' = {}

CompactMemTable ==
  /\ imm # {}
  /\ LET f     == FileOf(next_file_number, imm)
         level == PickLevelForMemTableOutput(current, Smallest(f).key, Largest(f).key)
     IN  Install([deleted |-> {}, added |-> {[level |-> level, file |-> f]}])
  /\ next_file_number' = next_file_number + 1
  /\ imm' = {}
  /\ UNCHANGED <<mem, last_sequence, seeks, getting, compact_pointer, snapshots,
                 compaction, manual>>

SmallestSnapshot == IF snapshots = <<>> THEN last_sequence ELSE snapshots[1]

(* The part of a manual compaction that is left when c is done.            *)
ManualRest(m, c) == [m EXCEPT !.begin = Largest(c.inputs0[Len(c.inputs0)]).key,
                              !.registered = FALSE]

Registered == {m \in manual : m.registered}

Chosen ==
  IF Registered = {} THEN {PickCompaction(current, compact_pointer, file_to_compact)}
  ELSE UNION {CompactRange(current, m.level, m.begin, m.end) : m \in Registered}

(* A single file moves down at once, where its seeks count anew, or the    *)
(* work on the inputs starts.                                              *)
StartCompaction(c) ==
  /\ compact_pointer' = [compact_pointer EXCEPT ![c.level] = {c.largest}]
  /\ UNCHANGED manual
  /\ IF Registered = {} /\ IsTrivialMove(c)
     THEN /\ Install([deleted |-> {[level |-> c.level, number |-> c.inputs0[1].number]},
                      added   |-> {[level |-> c.level + 1, file |-> c.inputs0[1]]}])
          /\ seeks' = [n \in DOMAIN seeks \ {c.inputs0[1].number} |-> seeks[n]]
          /\ UNCHANGED compaction
     ELSE /\ compaction' = {[c        |-> c,
                             by       |-> Registered,
                             version  |-> current,
                             snapshot |-> SmallestSnapshot]}
          /\ UNCHANGED <<current, file_to_compact, seeks>>

NothingToCompact ==
  /\ manual' = {}
  /\ UNCHANGED <<current, file_to_compact, seeks, compact_pointer, compaction>>

StartChosen(chosen) ==
  \/ chosen = {} /\ NothingToCompact
  \/ \E c \in chosen : StartCompaction(c)

(* BackgroundCompaction without a memtable to flush.                       *)
BackgroundCompaction ==
  /\ compaction = {} /\ imm = {}
  /\ Registered # {} \/ NeedsCompaction(current, file_to_compact)
  /\ StartChosen(Chosen)
  /\ UNCHANGED <<mem, imm, last_sequence, getting, next_file_number, snapshots>>

(* Compaction::AddInputDeletions.                                          *)
InputDeletions(c) ==
  {[level |-> c.level, number |-> f.number] : f \in FilesIn(c.inputs0)}
  \cup {[level |-> c.level + 1, number |-> f.number] : f \in FilesIn(c.inputs1)}

InstallOutputs(c, outs) ==
  /\ Install([deleted |-> InputDeletions(c),
              added   |-> {[level |-> c.level + 1,
                            file  |-> FileOf(next_file_number + i - 1, outs[i])]
                             : i \in DOMAIN outs}])
  /\ next_file_number' = next_file_number + Len(outs)

(* The end of DoCompactionWork and of a manual compaction's round.         *)
InstallCompactionResults ==
  \E w \in compaction :
    /\ InstallOutputs(w.c, CompactionOutputs(w.c, w.version, w.snapshot))
    /\ manual' = IF w.by = {} THEN manual ELSE {ManualRest(m, w.c) : m \in w.by}
    /\ compaction' = {}
    /\ UNCHANGED <<mem, imm, last_sequence, seeks, getting, compact_pointer, snapshots>>

Step ==
  \/ \E k \in UserKeys, type \in WriteTypes : Write(k, type)
  \/ SwitchMemTable
  \/ GetSnapshot
  \/ \E i \in DOMAIN snapshots : ReleaseSnapshot(i)
  \/ \E k \in UserKeys : GetFromFiles(k)
  \/ \E g \in getting : UpdateStats(g)
  \/ \E request \in ManualRequests : RequestCompactRange(request)
  \/ \E m \in manual : RequestCompactRange([m EXCEPT !.registered = TRUE])
  \/ CompactMemTable
  \/ BackgroundCompaction
  \/ InstallCompactionResults

(* Readers may come before any step, and when nothing else happens.        *)
Observe == UNCHANGED <<mem, imm, last_sequence, current, file_to_compact, seeks, getting,
                       compact_pointer, next_file_number, snapshots, compaction,
                       manual>>

Next == (Step \/ Observe) /\ reads' = Readings /\ seen' = Sights

Spec == Init /\ [][Next]_vars

-----------------------------------------------------------------------------
(* Properties *)

Files == UNION {FilesIn(current[level]) : level \in Levels}

(* Where no snapshot is held (MaxSnapshots = 0) or nothing is deleted      *)
(* (WriteTypes without kTypeDeletion), every reader, now and at each       *)
(* snapshot, sees the map of the abstract store: flushing, moving, merging *)
(* and dropping entries shows nowhere.  With both it does not hold, as     *)
(* DeletedStaysAway says; what holds then is ValuesStay.                   *)
Store == INSTANCE SnapshotStore
           WITH Keys   <- UserKeys,
                writes <- reads.writes,
                latest <- reads.latest,
                views  <- reads.views

ImplementsSnapshotStore == Store!Spec

(* A deleted entry stays away, and nothing else comes or goes either:      *)
(* between two states of the same writes each key reads the same.          *)
(* (db.h:69: Delete removes the database entry, if any, for the key.)      *)
DeletedStaysAway ==
  reads.writes = last_sequence => View(last_sequence) = reads.latest

(* With snapshots and deletions too, a value that was there to read before *)
(* the last step, then or at a snapshot that is kept, still is, whatever   *)
(* the step of whichever caller or of the background thread: compactions   *)
(* may drop deletions too early, but no value is lost and no older one     *)
(* takes its place (DBImpl::DoCompactionWork, last_sequence_for_key).      *)
ValuesStay ==
  \A s \in DOMAIN seen \cap ReadableAt, k \in UserKeys :
    seen[s][k] # 0 => Get(k, s) = seen[s][k]

(* Below level 0 the files of a level are sorted and their ranges disjoint *)
(* (the check of Builder::SaveTo and MaybeAddFile), whatever was flushed   *)
(* into the level while it was compacted.                                  *)
LevelsAreDisjoint ==
  \A level \in Levels \ {0} : \A i \in 1..(Len(current[level]) - 1) :
    Before(Largest(current[level][i]), Smallest(current[level][i + 1]))

(* "entries never hop across levels" (Version::Get): of the entries of one *)
(* user key, those in a higher place are newer than those below it.        *)
NewerIsHigher ==
  LET Older(S, T) == \A e \in S, f \in T : e.key = f.key => e.tag < f.tag
      At(level)   == UNION {f.entries : f \in FilesIn(current[level])}
  IN  /\ Older(imm, mem)
      /\ \A f \in Files : Older(f.entries, imm) /\ Older(f.entries, mem)
      /\ \A f, g \in FilesIn(current[0]) : f.number < g.number => Older(f.entries, g.entries)
      /\ \A l, m \in Levels : l < m => Older(At(m), At(l))

(* An entry is in one place only, and a file in one level only.            *)
NothingTwice ==
  /\ mem \cap imm = {}
  /\ \A f, g \in Files : f # g => f.entries \cap g.entries = {} /\ f.number # g.number
  /\ \A f \in Files : f.entries \cap (mem \cup imm) = {}

(* Every entry is in one place, below the newer ones of its key.           *)
EntriesInPlace == NewerIsHigher /\ NothingTwice

(* When nobody else compacts, the file whose seeks are used up is a file   *)
(* of the current version at the level noted with it.                      *)
SeekFileIsCurrent ==
  \A x \in file_to_compact : x.file \in FilesIn(current[x.level])

(* The files a lookup or the next compaction goes for are where they are   *)
(* looked for.                                                             *)
FilesInOrder == LevelsAreDisjoint /\ SeekFileIsCurrent
=============================================================================
