---------------------------- MODULE InternalKeys ----------------------------
(***************************************************************************)
(* Keys of the storage engine leveldb (Pods/leveldb-library, db/dbformat): *)
(* user keys, the sequence numbers and types packed into their tags, and   *)
(* the order in which memtables, table files and iterators keep them.      *)
(*                                                                         *)
(* User keys are the numbers 1..KeyMax; 0 and KeyMax + 1 stand for the     *)
(* null bounds of a range, before and after all keys.  A value is known by *)
(* the sequence number it was written with, so that an entry needs none.   *)
(***************************************************************************)
EXTENDS Integers, FiniteSets, Sequences

CONSTANTS KeyMax,     \* number of user keys
          kMaxSequenceNumber

ASSUME KeyMaxAssumption == KeyMax \in Nat \ {0}
ASSUME SequenceAssumption == kMaxSequenceNumber \in Nat \ {0}

UserKeys  == 1..KeyMax
BeforeAll == 0
AfterAll  == KeyMax + 1

(* The value types.  A seek uses the higher one, as tags sort downwards.   *)
kTypeDeletion == 0
kTypeValue    == 1
kValueTypeForSeek == kTypeValue

(* The low bits of a tag hold the type, the others the sequence number.    *)
PackSequenceAndType(seq, type) == 2 * seq + type
SequenceOf(e) == e.tag \div 2
TypeOf(e)     == e.tag % 2

InternalKey(k, seq, type) == [key |-> k, tag |-> PackSequenceAndType(seq, type)]

(* What an iterator seeks to find the newest entry of k at a snapshot.     *)
LookupKey(k, seq) == InternalKey(k, seq, kValueTypeForSeek)

(* InternalKeyComparator::Compare(a, b) < 0.                               *)
Before(a, b) == \/ a.key < b.key
                \/ a.key = b.key /\ a.tag > b.tag

First(S)    == CHOOSE e \in S : \A f \in S : ~Before(f, e)
LastKey(S)  == CHOOSE e \in S : \A f \in S : ~Before(e, f)

(* S in the order of its comparator, where no two elements are equal.      *)
Sorted(S, Less(_, _)) ==
  [i \in 1..Cardinality(S) |->
     CHOOSE e \in S : Cardinality({f \in S : Less(f, e)}) = i - 1]

(* The entries a lookup of ik finds in a sorted run: the first at or after *)
(* ik, when it is one of the same user key; it may be a deletion.          *)
SeekEntry(S, ik) ==
  LET from == {e \in S : ~Before(e, ik)}
  IN  IF from = {} THEN {} ELSE {e \in {First(from)} : e.key = ik.key}
=============================================================================
