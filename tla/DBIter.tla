------------------------------- MODULE DBIter -------------------------------
(***************************************************************************)
(* The iterator a caller gets (db/db_iter.cc): it walks over the merged    *)
(* entries of memtables and files (table/merger.cc), turns around in the   *)
(* middle, and shows of each user key the newest value of its snapshot.    *)
(* The first child is the memtable, into which writers go on inserting     *)
(* entries newer than the snapshot; the others do not change.              *)
(***************************************************************************)
EXTENDS InternalKeys

CONSTANTS Children,   \* 1..n
          Written,    \* the entries there may be when the iterator is created
          MaxInserts

VARIABLES runs,       \* the entries of each child
          sequence_,  \* the snapshot
          it          \* the iterator and the merging iterator under it

vars == <<runs, sequence_, it>>

Nowhere  == [key |-> 0, tag |-> 0]  \* of a child that is not valid
None     == 0
kForward == "forward"  kReverse == "reverse"

Entries == UNION {runs[c] : c \in Children}

InitialIterator ==
  [pos       |-> [c \in Children |-> Nowhere],
   current   |-> None, merged |-> kForward,          \* MergingIterator
   direction |-> kForward, valid |-> FALSE,          \* DBIter
   saved_key |-> None, saved_value |-> None]

(* The entry of each sequence number may be of any key, in any child.      *)
Init == /\ \E chosen \in Written :
             runs \in {[c \in Children |-> {chosen[s] : s \in {t \in DOMAIN chosen : where[t] = c}}]
                         : where \in [DOMAIN chosen -> Children]}
        /\ sequence_ \in 0..Cardinality(Entries)
        /\ it = InitialIterator

-----------------------------------------------------------------------------
(* A child is at an entry of its run, or nowhere.                          *)

FirstOf(S) == IF S = {} THEN Nowhere ELSE First(S)
LastOf(S)  == IF S = {} THEN Nowhere ELSE LastKey(S)

After(c, e)  == FirstOf({f \in runs[c] : Before(e, f)})
Ahead(c, e)  == LastOf({f \in runs[c] : Before(f, e)})
AtOrAfter(c, e) == FirstOf({f \in runs[c] : ~Before(f, e)})

-----------------------------------------------------------------------------
(* MergingIterator *)

ValidChildren(pos) == {c \in Children : pos[c] # Nowhere}

(* The first of the smallest children, the last of the largest ones.       *)
FindSmallest(pos) ==
  LET best == {c \in ValidChildren(pos) :
                 \A d \in ValidChildren(pos) :
                   /\ ~Before(pos[d], pos[c]) /\ (pos[d] = pos[c] => c <= d)}
  IN  IF best = {} THEN None ELSE CHOOSE c \in best : TRUE

FindLargest(pos) ==
  LET best == {c \in ValidChildren(pos) :
                 \A d \in ValidChildren(pos) :
                   /\ ~Before(pos[c], pos[d]) /\ (pos[d] = pos[c] => c >= d)}
  IN  IF best = {} THEN None ELSE CHOOSE c \in best : TRUE

Forward(s, pos) == [s EXCEPT !.pos = pos, !.current = FindSmallest(pos), !.merged = kForward]
Reverse(s, pos) == [s EXCEPT !.pos = pos, !.current = FindLargest(pos), !.merged = kReverse]

Merged(s)   == s.current # None
KeyOf(s)    == s.pos[s.current]

MSeekToFirst(s) == Forward(s, [c \in Children |-> FirstOf(runs[c])])
MSeekToLast(s)  == Reverse(s, [c \in Children |-> LastOf(runs[c])])
MSeek(s, e)     == Forward(s, [c \in Children |-> AtOrAfter(c, e)])

(* Mistake: the other children stay where they are when it turns around.   *)
NotTurned(s, d, e) == s.pos

(* The other children, when it turns towards d: after key e, or before it. *)
Turned(s, d, e) ==
  [c \in Children |->
     IF c = s.current THEN e
     ELSE IF d = kForward THEN After(c, e) ELSE Ahead(c, e)]

MNext(s) ==
  LET e   == KeyOf(s)
      pos == IF s.merged = kForward THEN s.pos ELSE Turned(s, kForward, e)
  IN  Forward(s, [pos EXCEPT ![s.current] = After(s.current, e)])

MPrev(s) ==
  LET e   == KeyOf(s)
      pos == IF s.merged = kReverse THEN s.pos ELSE Turned(s, kReverse, e)
  IN  Reverse(s, [pos EXCEPT ![s.current] = Ahead(s.current, e)])

-----------------------------------------------------------------------------
(* DBIter *)

Steps == Cardinality(Entries) + 1

Shown(e) == SequenceOf(e) <= sequence_

(* FindNextUserEntry: skip is the key whose older entries are hidden.      *)
FindNextUserEntry(s0, skipping, skip) ==
  LET first == [s |-> s0, skipping |-> skipping, skip |-> skip, found |-> FALSE]
      Moved(t) == [t EXCEPT !.s = MNext(t.s)]
      Pass(t) ==
        LET e == KeyOf(t.s)
        IN  IF ~Shown(e) THEN Moved(t)
            ELSE IF TypeOf(e) = kTypeDeletion
                 THEN Moved([t EXCEPT !.skipping = TRUE, !.skip = e.key])
            ELSE IF t.skipping /\ e.key <= t.skip THEN Moved(t)
            ELSE [t EXCEPT !.found = TRUE]
      after[n \in 0..Steps] ==
        IF n = 0 THEN first
        ELSE LET t == after[n - 1] IN IF t.found \/ ~Merged(t.s) THEN t ELSE Pass(t)
      last == after[Steps]
  IN  [last.s EXCEPT !.valid = last.found, !.saved_key = None]

(* A value was found for the key that comes after e.                       *)
EndsBefore(type, e, saved_key) == type # kTypeDeletion /\ e.key < saved_key

(* FindPrevUserEntry: back over all entries of a key to its newest.        *)
FindPrevUserEntry(s0) ==
  LET first == [s |-> s0, type |-> kTypeDeletion, done |-> FALSE]
      Saved(s, e) == IF TypeOf(e) = kTypeDeletion
                     THEN [s EXCEPT !.saved_key = None, !.saved_value = None]
                     ELSE [s EXCEPT !.saved_key = e.key, !.saved_value = SequenceOf(e)]
      Pass(t) ==
        LET e == KeyOf(t.s)
        IN  IF ~Shown(e) THEN [t EXCEPT !.s = MPrev(t.s)]
            ELSE IF EndsBefore(t.type, e, t.s.saved_key) THEN [t EXCEPT !.done = TRUE]
            ELSE [t EXCEPT !.type = TypeOf(e), !.s = MPrev(Saved(t.s, e))]
      after[n \in 0..Steps] ==
        IF n = 0 THEN first
        ELSE LET t == after[n - 1] IN IF t.done \/ ~Merged(t.s) THEN t ELSE Pass(t)
      last == after[Steps]
  IN  IF last.type = kTypeDeletion
      THEN [last.s EXCEPT !.valid = FALSE, !.saved_key = None, !.saved_value = None,
                          !.direction = kForward]
      ELSE [last.s EXCEPT !.valid = TRUE]

FoundNext(s, skipping, skip) ==
  IF Merged(s) THEN FindNextUserEntry(s, skipping, skip) ELSE [s EXCEPT !.valid = FALSE]

NextKey ==
  /\ it.valid
  /\ LET turned == IF Merged(it) THEN MNext(it) ELSE MSeekToFirst(it)
         s == [turned EXCEPT !.direction = kForward]
     IN  it' = IF it.direction = kForward
               THEN FindNextUserEntry(it, TRUE, KeyOf(it).key)
               ELSE IF Merged(s) THEN FindNextUserEntry(s, TRUE, it.saved_key)
               ELSE [s EXCEPT !.valid = FALSE, !.saved_key = None]
  /\ UNCHANGED <<runs, sequence_>>

(* Prev's loop: back until the key changes.                                *)
BackOverKey(s) ==
  LET key == KeyOf(s).key
      after[n \in 0..Steps] ==
        IF n = 0 THEN MPrev(s)
        ELSE LET t == after[n - 1] IN IF ~Merged(t) \/ KeyOf(t).key < key THEN t ELSE MPrev(t)
  IN  after[Steps]

PrevKey ==
  /\ it.valid
  /\ LET s == BackOverKey([it EXCEPT !.saved_key = KeyOf(it).key])
     IN  it' = IF it.direction = kReverse THEN FindPrevUserEntry(it)
               ELSE IF Merged(s) THEN FindPrevUserEntry([s EXCEPT !.direction = kReverse])
               ELSE [s EXCEPT !.valid = FALSE, !.saved_key = None, !.saved_value = None]
  /\ UNCHANGED <<runs, sequence_>>

SeekKey(k) ==
  /\ it' = FoundNext([MSeek(it, LookupKey(k, sequence_)) EXCEPT
                        !.direction = kForward, !.saved_value = None, !.saved_key = k], FALSE, k)
  /\ UNCHANGED <<runs, sequence_>>

SeekToFirst ==
  /\ it' = FoundNext([MSeekToFirst(it) EXCEPT !.direction = kForward, !.saved_value = None],
                     FALSE, it.saved_key)
  /\ UNCHANGED <<runs, sequence_>>

SeekToLast ==
  /\ it' = FindPrevUserEntry([MSeekToLast(it) EXCEPT !.direction = kReverse,
                                                     !.saved_value = None])
  /\ UNCHANGED <<runs, sequence_>>

(* A writer, between two calls.                                            *)
InsertNewer(k) ==
  /\ Cardinality(Entries) < MaxInserts
  /\ runs' = [runs EXCEPT ![1] = @ \cup
                {InternalKey(k, Cardinality(Entries) + 1, kTypeValue)}]
  /\ UNCHANGED <<sequence_, it>>

Next == \/ NextKey \/ PrevKey \/ SeekToFirst \/ SeekToLast
        \/ \E k \in UserKeys : SeekKey(k) \/ InsertNewer(k)

Spec == Init /\ [][Next]_vars

-----------------------------------------------------------------------------
(* Properties *)

(* The value of each key at the snapshot, as the sequence number of its    *)
(* write.                                                                  *)
Newest(k) ==
  LET shown == {e \in Entries : e.key = k /\ Shown(e)}
  IN  IF shown = {} THEN 0
      ELSE IF TypeOf(First(shown)) = kTypeDeletion THEN 0 ELSE SequenceOf(First(shown))

key(s) == IF ~s.valid THEN 0
          ELSE IF s.direction = kForward THEN KeyOf(s).key ELSE s.saved_key

value(s) == IF ~s.valid THEN 0
            ELSE IF s.direction = kForward THEN SequenceOf(KeyOf(s)) ELSE s.saved_value

(* However it turns, and whatever is written meanwhile, the iterator is a  *)
(* cursor over its snapshot, and shows at each key the snapshot's value.   *)
Abstract == INSTANCE Cursor WITH
              Keys <- UserKeys, contents <- [k \in UserKeys |-> Newest(k)],
              at <- key(it), shows <- value(it)

ImplementsCursor == Abstract!Spec
=============================================================================
