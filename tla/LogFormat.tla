----------------------------- MODULE LogFormat ------------------------------
(***************************************************************************)
(* The format of log files and manifests (db/log_writer.cc, log_reader.cc):*)
(* records cut into fragments that do not cross blocks, and the reader that*)
(* finds them again, from any offset, after a crash or in a damaged file.  *)
(*                                                                         *)
(* A byte of the file is known by the fragment it belongs to (its record   *)
(* and its number in it) and its place there; the first kHeaderSize places *)
(* are the header.  A checksum matches when header and data are bytes of   *)
(* one fragment, each in its place and none of them damaged.               *)
(***************************************************************************)
EXTENDS Integers, Sequences, FiniteSets

CONSTANTS kBlockSize, kHeaderSize,
          Sizes,         \* bound on the sizes of records
          MaxRecords, MaxFlips,
          MaxTears,      \* crashes that cut the file short
          Reopens,       \* is a file that was cut short appended to
          MaxFailures    \* appends that fail

ASSUME BlockAssumption == /\ kHeaderSize \in Nat \ {0}
                          /\ kBlockSize \in Nat /\ kBlockSize > kHeaderSize

VARIABLES file,          \* the bytes
          frags,         \* type and length by fragment
          records,       \* for each record, where it starts and ends, and whether
                         \* AddRecord returned an error
          block_offset_, \* the writer's place in its block, or Closed
          damaged,       \* offsets of damaged bytes
          tears,
          sound          \* how much of the file no crash or error has touched

vars == <<file, frags, records, block_offset_, damaged, tears, sound>>

Closed == -1
Zero   == [f |-> <<0, 0>>, at |-> 0]

kFullType == 1  kFirstType == 2  kMiddleType == 3  kLastType == 4
kEof == 5       kBadRecord == 6

Init == /\ file = <<>> /\ frags = <<>> /\ records = <<>>
        /\ block_offset_ = 0
        /\ damaged = {} /\ tears = 0 /\ sound = 0

-----------------------------------------------------------------------------
(* Writer *)

MaxFragments == 3    \* of a record whose append fails

Least(m, n) == IF m <= n THEN m ELSE n

(* EmitPhysicalRecord: header and data of fragment f.                      *)
Emitted(f, length) == [i \in 1..(kHeaderSize + length) |-> [f |-> f, at |-> i - 1]]

Zeros(n) == [i \in 1..n |-> Zero]

(* Mistake: a header may begin where only a part of it fits.               *)
NeedsNewBlockLate(leftover) == leftover < 1

NeedsNewBlock(leftover) == leftover < kHeaderSize

(* AddRecord: the file, the fragments and the offset after at most most    *)
(* fragments of record id, which goes on while it has something left.      *)
Fragmented(id, size, most) ==
  LET first == [bytes |-> file, frags |-> frags, offset |-> block_offset_, left |-> size,
                start |-> Len(file), last |-> 0]
      Next1(s, n) ==
        LET leftover == kBlockSize - s.offset
            trailer  == IF NeedsNewBlock(leftover) THEN leftover ELSE 0
            offset   == IF NeedsNewBlock(leftover) THEN 0 ELSE s.offset
            avail    == kBlockSize - offset - kHeaderSize
            length   == Least(s.left, avail)
            end      == s.left = length
            type     == CASE n = 1 /\ end -> kFullType [] n = 1 /\ ~end -> kFirstType
                          [] n > 1 /\ end -> kLastType [] OTHER -> kMiddleType
            f        == <<id, n>>
        IN  [bytes  |-> s.bytes \o Zeros(trailer) \o Emitted(f, length),
             frags  |-> [g \in DOMAIN s.frags \cup {f} |->
                           IF g = f THEN [type |-> type, length |-> length] ELSE s.frags[g]],
             offset |-> offset + kHeaderSize + length,
             left   |-> s.left - length,
             start  |-> IF n = 1 THEN s.start + trailer ELSE s.start,
             last   |-> trailer + kHeaderSize + length]
      after[n \in 0..most] ==
        IF n = 0 THEN first
        ELSE LET s == after[n - 1] IN IF n > 1 /\ s.left = 0 THEN s ELSE Next1(s, n)
  IN  after[most]

Failures == Cardinality({id \in DOMAIN records : records[id].failed})

Untouched == tears = 0 /\ Failures = 0

AddRecord(size) ==
  /\ block_offset_ # Closed /\ Len(records) < MaxRecords
  /\ LET s == Fragmented(Len(records) + 1, size, size + 2)
     IN  /\ file' = s.bytes /\ frags' = s.frags /\ block_offset_' = s.offset
         /\ records' = Append(records, [start |-> s.start, end |-> Len(s.bytes),
                                        failed |-> FALSE])
         /\ sound' = IF Untouched THEN Len(s.bytes) ELSE sound
  /\ UNCHANGED <<damaged, tears>>

(* Fragment n cannot be written: missing bytes of it, and of the trailer   *)
(* before it, never reach the file; the offset moves on all the same.      *)
AddRecordFails(size, n, missing) ==
  /\ block_offset_ # Closed /\ Len(records) < MaxRecords
  /\ Failures < MaxFailures
  /\ LET s == Fragmented(Len(records) + 1, size, n)
     IN  /\ n = 1 \/ Fragmented(Len(records) + 1, size, n - 1).left > 0
         /\ missing <= s.last
         /\ file' = SubSeq(s.bytes, 1, Len(s.bytes) - missing)
         /\ frags' = s.frags /\ block_offset_' = s.offset
         /\ records' = Append(records, [start |-> s.start, end |-> Len(s.bytes),
                                        failed |-> TRUE])
  /\ UNCHANGED <<damaged, tears, sound>>

(* A crash keeps the first n bytes.                                        *)
Tear(n) ==
  /\ tears < MaxTears /\ tears' = tears + 1
  /\ file' = SubSeq(file, 1, n)
  /\ block_offset_' = Closed
  /\ sound' = Least(sound, n)
  /\ UNCHANGED <<frags, records, damaged>>

(* A Writer for the file as it is (reuse_logs).                            *)
Reopen ==
  /\ Reopens /\ block_offset_ = Closed
  /\ block_offset_' = Len(file) % kBlockSize
  /\ UNCHANGED <<file, frags, records, damaged, tears, sound>>

Flip(i) ==
  /\ Cardinality(damaged) < MaxFlips
  /\ damaged' = damaged \cup {i}
  /\ UNCHANGED <<file, frags, records, block_offset_, tears, sound>>

Next == \/ \E size \in Sizes : AddRecord(size)
        \/ \E size \in Sizes, n \in 1..MaxFragments, missing \in 1..(2 * kBlockSize) :
             AddRecordFails(size, n, missing)
        \/ \E n \in 0..Len(file) : Tear(n)
        \/ Reopen
        \/ \E i \in DOMAIN file : Flip(i)

Spec == Init /\ [][Next]_vars

-----------------------------------------------------------------------------
(* Reader: its buffer is the bytes after from up to to, where the next     *)
(* block begins (end_of_buffer_offset_).                                   *)

(* A fragment whose header is whole and undamaged at offset o.             *)
WholeHeader(o) == LET f == file[o + 1].f
                  IN  /\ f \in DOMAIN frags
                      /\ \A i \in 1..kHeaderSize :
                           file[o + i] = [f |-> f, at |-> i - 1] /\ o + i \notin damaged

GoodChecksum(o) == LET f == file[o + 1].f
                   IN  \A i \in (kHeaderSize + 1)..(kHeaderSize + frags[f].length) :
                         file[o + i] = [f |-> f, at |-> i - 1] /\ o + i \notin damaged

Short(r) == r.to - r.from < kHeaderSize

(* The next block is read when the rest of this one is no header.          *)
Filled(r) ==
  LET to == Least(r.to + kBlockSize, Len(file))
  IN  IF ~Short(r) \/ r.eof THEN r
      ELSE [r EXCEPT !.from = r.to, !.to = to, !.eof = to - r.to < kBlockSize]

(* What is returned for the fragment at r, and the reader after it.        *)
PhysicalRecord(r, initial_offset) ==
  LET none  == [r EXCEPT !.from = r.to]
      frag  == frags[file[r.from + 1].f]
      after == [r EXCEPT !.from = @ + kHeaderSize + frag.length]
      Result(type, f, reader, drop) == [type |-> type, f |-> f, r |-> reader, drop |-> drop]
  IN  IF Short(r) THEN Result(kEof, <<>>, none, FALSE)
      ELSE IF ~WholeHeader(r.from)
           THEN Result(kBadRecord, <<>>, none, file[r.from + 1] # Zero)
      ELSE IF kHeaderSize + frag.length > r.to - r.from
           THEN Result(IF r.eof THEN kEof ELSE kBadRecord, <<>>, none, ~r.eof)
      ELSE IF ~GoodChecksum(r.from) THEN Result(kBadRecord, <<>>, none, TRUE)
      ELSE IF r.from < initial_offset THEN Result(kBadRecord, <<>>, after, FALSE)
      ELSE Result(frag.type, file[r.from + 1].f, after, FALSE)

(* The rest of a block may be followed by an empty one.                    *)
ReadPhysicalRecord(r, initial_offset) ==
  PhysicalRecord(Filled(Filled(r)), initial_offset)

(* SkipToInitialBlock: the block in which an offset, or what follows its   *)
(* trailer, lies.                                                          *)
InitialBlock(initial_offset) ==
  LET in_block == initial_offset % kBlockSize
      start    == initial_offset - in_block
  IN  IF in_block > kBlockSize - (kHeaderSize - 1) THEN start + kBlockSize ELSE start

(* Mistake: the start of a record outlives a bad fragment of it.           *)
KeptScratch(s) == s

(* ReadRecord at a bad fragment.                                           *)
DroppedScratch(s) == [s EXCEPT !.scratch = <<>>, !.fragmented = FALSE]

Dropped(s, yes) == [s EXCEPT !.drops = IF yes THEN @ + 1 ELSE @]

Returned(s, record) == [s EXCEPT !.out = Append(@, record), !.scratch = <<>>,
                                 !.fragmented = FALSE]

(* ReadRecord, from one physical record p to the next.                     *)
ReadRecord(s, p) ==
  LET t == Dropped([s EXCEPT !.r = p.r], p.drop)
      u == [t EXCEPT !.resyncing = FALSE]
      lost == s.fragmented /\ \E i \in DOMAIN s.scratch : frags[s.scratch[i]].length > 0
  IN  CASE s.resyncing /\ p.type = kMiddleType -> t
        [] s.resyncing /\ p.type = kLastType   -> u
        [] OTHER ->
           CASE p.type = kFullType   -> Returned(Dropped(u, lost), <<p.f>>)
             [] p.type = kFirstType  -> [Dropped(u, lost) EXCEPT !.scratch = <<p.f>>,
                                                                 !.fragmented = TRUE]
             [] p.type = kMiddleType -> IF s.fragmented
                                        THEN [u EXCEPT !.scratch = Append(@, p.f)]
                                        ELSE Dropped(u, TRUE)
             [] p.type = kLastType   -> IF s.fragmented
                                        THEN Returned(u, Append(s.scratch, p.f))
                                        ELSE Dropped(u, TRUE)
             [] p.type = kEof        -> [u EXCEPT !.done = TRUE]
             [] p.type = kBadRecord  -> DroppedScratch(Dropped(u, s.fragmented))

(* ReadRecord, called until it finds no more: the records it returns, each *)
(* the sequence of its fragments, and the number of reported corruptions.  *)
ReadAll(initial_offset) ==
  LET start == InitialBlock(initial_offset)
      first == [r |-> [from |-> start, to |-> start, eof |-> FALSE], scratch |-> <<>>,
                fragmented |-> FALSE, resyncing |-> initial_offset > 0,
                out |-> <<>>, drops |-> 0, done |-> FALSE]
      Advanced(s) == IF s.done THEN s ELSE ReadRecord(s, ReadPhysicalRecord(s.r, initial_offset))
      steps == Len(file) + 3
      after[n \in 0..steps] == IF n = 0 THEN first ELSE Advanced(after[n - 1])
  IN  after[steps]

-----------------------------------------------------------------------------
(* Properties *)

FragmentsOf(id) ==
  LET n == Cardinality({f \in DOMAIN frags : f[1] = id})
  IN  [i \in 1..n |-> <<id, i>>]

(* The records from number i on that end in the file.                      *)
Kept(first) ==
  LET ids == {id \in DOMAIN records : records[id].end <= Len(file) /\ id >= first}
      n   == Cardinality(ids)
  IN  [i \in 1..n |-> FragmentsOf(first + i - 1)]

(* What was written and not cut off is read back, in order, whatever the   *)
(* sizes and wherever the crash cut; and a cut is no corruption.           *)
ReadsWhatIsThere ==
  damaged = {} /\ ~Reopens /\ Failures = 0
    => LET s == ReadAll(0) IN s.done /\ s.out = Kept(1) /\ s.drops = 0

(* Read from an offset, a file, cut or not, gives the whole records that   *)
(* start at or after it.                                                   *)
ReadsFromOffset ==
  damaged = {} /\ ~Reopens /\ Failures = 0
    => \A o \in 1..Len(file) :
         LET later == {id \in DOMAIN records : records[id].start >= o}
             from  == Len(records) - Cardinality(later) + 1
         IN  ReadAll(o).out = Kept(from)

(* Damage costs records of its block only: a record with no fragment in a  *)
(* block with a damaged byte is read; and what is read was written as it is*)
(* returned, whole and from undamaged bytes.                               *)
DamageIsContained ==
  tears = 0 =>
    LET out     == ReadAll(0).out
        Read(id) == \E i \in DOMAIN out : out[i] = FragmentsOf(id)
        Block(o) == (o - 1) \div kBlockSize
        hurt    == {Block(o) : o \in damaged}
    IN  /\ \A i \in DOMAIN out : \E id \in DOMAIN records :
             out[i] = FragmentsOf(id) /\ \A o \in damaged : file[o].f[1] # id
        /\ \A id \in DOMAIN records :
             Read(id) \/ \E o \in (records[id].start + 1)..records[id].end : Block(o) \in hurt

(* Whatever failed or was cut off, and whether or not the log was written  *)
(* on: the reader gives the records that were whole before it, in order,   *)
(* and no record made of fragments of several or of some fragments only.   *)
NothingSpliced ==
  damaged = {} =>
    LET out   == ReadAll(0).out
        whole == Cardinality({id \in DOMAIN records : /\ ~records[id].failed
                                                      /\ records[id].end <= sound})
    IN  /\ Len(out) >= whole
        /\ \A i \in 1..whole : out[i] = FragmentsOf(i)
        /\ \A i \in DOMAIN out : \E id \in DOMAIN records :
             out[i] = FragmentsOf(id) /\ ~records[id].failed
=============================================================================
