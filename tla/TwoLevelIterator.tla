-------------------------- MODULE TwoLevelIterator --------------------------
(***************************************************************************)
(* The iterator over an index and the data it points to                    *)
(* (table/two_level_iterator.cc): a table's index block and its data       *)
(* blocks, or a level's list of files and their tables.  A block that      *)
(* cannot be read gives an empty iterator with a status (Table::BlockReader*)
(* and GetFileIterator); a damaged entry makes an iterator invalid, with a *)
(* status that stays (Block::Iter::CorruptionError).                       *)
(*                                                                         *)
(* Entries are numbers in order.  The last key of a block is its key in the*)
(* index.  A block has one restart point: to go back or to seek is to parse*)
(* it from its first entry.                                                *)
(***************************************************************************)
EXTENDS Integers, Sequences

CONSTANTS Blocks,      \* the entries of each block
          Targets      \* that are sought

VARIABLES index_iter_, \* its block (0 when not valid), its damage and status
          data_iter_,  \* {} when there is none
          status_,
          call,        \* the last call
          walked       \* what a walk without errors would be at, 0 at the end

blockVars == <<index_iter_, data_iter_, status_, call, walked>>

BlockCount == Len(Blocks)

(* No block is empty (Flush of the builder), and the entries ascend.        *)
ASSUME BlocksAssumption ==
  /\ Blocks \in Seq(Seq(Nat \ {0}) \ {<<>>}) /\ Targets \subseteq Nat
  /\ \A b, c \in 1..BlockCount : \A i \in DOMAIN Blocks[b], j \in DOMAIN Blocks[c] :
       b < c \/ (b = c /\ i < j) => Blocks[b][i] < Blocks[c][j]

BlockEntries == UNION {{Blocks[b][i] : i \in DOMAIN Blocks[b]} : b \in 1..BlockCount}

-----------------------------------------------------------------------------
(* Block iterators: the entry it is at, 0 when it is not valid; the entry  *)
(* that is damaged, 0 when none is; whether its status is ok.              *)

Iterator(block, bad, ok) == [block |-> block, at |-> 0, bad |-> bad, ok |-> ok]

(* At the entry, after parsing all from the first one that is parsed.      *)
Parsed(it, from, to, length) ==
  IF it.bad # 0 /\ it.bad \in from..to THEN [it EXCEPT !.at = 0, !.ok = FALSE]
  ELSE [it EXCEPT !.at = IF to <= length THEN to ELSE 0]

(* An iterator that stands for a read error has no entries.                *)
Unread == -1
LengthOf(it) == IF it.bad = Unread THEN 0 ELSE Len(Blocks[it.block])

FirstIn(it) == IF it.bad = Unread THEN it ELSE Parsed(it, 1, 1, LengthOf(it))
LastIn(it)  == IF it.bad = Unread THEN it ELSE Parsed(it, 1, LengthOf(it), LengthOf(it))
NextIn(it)  == Parsed(it, it.at + 1, it.at + 1, LengthOf(it))
PrevIn(it)  == IF it.at = 1 THEN [it EXCEPT !.at = 0] ELSE Parsed(it, 1, it.at - 1, LengthOf(it))

SeekIn(it, target) ==
  LET from == {i \in 1..LengthOf(it) : Blocks[it.block][i] >= target}
      to   == IF from = {} THEN LengthOf(it) + 1 ELSE CHOOSE i \in from : \A j \in from : i <= j
  IN  IF it.bad = Unread THEN it ELSE Parsed(it, 1, to, LengthOf(it))

(* The index, one entry for each block.  Its binary search may hit the     *)
(* damaged entry on its way.                                               *)
IndexSeek(it, target, hit) ==
  LET from == {b \in 1..BlockCount : Blocks[b][Len(Blocks[b])] >= target}
      to   == IF from = {} THEN BlockCount + 1 ELSE CHOOSE b \in from : \A c \in from : b <= c
  IN  IF hit /\ it.bad # 0 THEN [it EXCEPT !.at = 0, !.ok = FALSE]
      ELSE Parsed(it, to, to, BlockCount)

-----------------------------------------------------------------------------
(* TwoLevelIterator, in a state s.  read[b] is what a read of block b      *)
(* gives in this call: Unread, or the entry of it that is damaged or 0.    *)

Now == [index |-> index_iter_, data |-> data_iter_, status |-> status_]

DataValid(s) == \E it \in s.data : it.at # 0

(* Mistake: the status of the iterator that is replaced is forgotten.      *)
SetAndForget(s, data) == [s EXCEPT !.data = data]

(* Mistake: the latest status is kept, and not the first that is not ok.   *)
SetToLatest(s, data) ==
  [s EXCEPT !.data = data, !.status = IF s.data = {} THEN @ ELSE \A it \in s.data : it.ok]

SetDataIterator(s, data) ==
  [s EXCEPT !.data = data, !.status = @ /\ \A it \in s.data : it.ok]

InitDataBlock(s, read) ==
  LET b == s.index.at
  IN  IF b = 0 THEN SetDataIterator(s, {})
      ELSE IF \E it \in s.data : it.block = b THEN s
      ELSE SetDataIterator(s, {Iterator(b, read[b], read[b] # Unread)})

(* A pass of the loop of SkipEmptyDataBlocksForward.                       *)
ForwardPass(s, read) ==
  LET next == InitDataBlock([s EXCEPT !.index = Parsed(@, @.at + 1, @.at + 1, BlockCount)], read)
  IN  IF DataValid(s) THEN s
      ELSE IF s.index.at = 0 THEN SetDataIterator(s, {})
      ELSE [next EXCEPT !.data = {FirstIn(it) : it \in @}]

SkipEmptyDataBlocksForward(s, read) ==
  LET after[n \in 0..(BlockCount + 1)] == IF n = 0 THEN s ELSE ForwardPass(after[n - 1], read)
  IN  after[BlockCount + 1]

(* Each entry of the index block is a restart point.                       *)
BackwardPass(s, read) ==
  LET next == InitDataBlock([s EXCEPT !.index = Parsed(@, @.at - 1, @.at - 1, BlockCount)], read)
  IN  IF DataValid(s) THEN s
      ELSE IF s.index.at = 0 THEN SetDataIterator(s, {})
      ELSE [next EXCEPT !.data = {LastIn(it) : it \in @}]

SkipEmptyDataBlocksBackward(s, read) ==
  LET after[n \in 0..(BlockCount + 1)] == IF n = 0 THEN s ELSE BackwardPass(after[n - 1], read)
  IN  after[BlockCount + 1]

Becomes(s) == index_iter_' = s.index /\ data_iter_' = s.data /\ status_' = s.status

(* What a read of each block may give.                                     *)
Longest == CHOOSE n \in {Len(Blocks[b]) : b \in 1..BlockCount} :
             \A b \in 1..BlockCount : Len(Blocks[b]) <= n

Reads == {read \in [1..BlockCount -> Unread..Longest] :
            \A b \in 1..BlockCount : read[b] <= Len(Blocks[b])}

StateOk(s) == s.status /\ s.index.ok /\ \A it \in s.data : it.ok
KeyIn(s)   == LET it == CHOOSE it \in s.data : TRUE IN Blocks[it.block][it.at]

ok    == StateOk(Now)
Valid == DataValid(Now)
key   == KeyIn(Now)

Opened(index, read) == InitDataBlock([Now EXCEPT !.index = index], read)

LeastEntry(S) == IF S = {} THEN 0 ELSE CHOOSE e \in S : \A f \in S : e <= f
LastEntry(S)  == IF S = {} THEN 0 ELSE CHOOSE e \in S : \A f \in S : e >= f

InitBlocks == /\ \E bad \in 0..BlockCount : index_iter_ = Iterator(0, bad, TRUE)
              /\ data_iter_ = {} /\ status_ = TRUE /\ call = "Seek" /\ walked = 0

BlocksSeek(target) == \E read \in Reads, hit \in BOOLEAN :
  LET s == Opened(IndexSeek(index_iter_, target, hit), read)
  IN  /\ Becomes(SkipEmptyDataBlocksForward(
                   [s EXCEPT !.data = {SeekIn(it, target) : it \in @}], read))
      /\ call' = "Seek" /\ walked' = LeastEntry({e \in BlockEntries : e >= target})

BlocksSeekToFirst == \E read \in Reads :
  LET s == Opened(Parsed(index_iter_, 1, 1, BlockCount), read)
  IN  /\ Becomes(SkipEmptyDataBlocksForward([s EXCEPT !.data = {FirstIn(it) : it \in @}], read))
      /\ call' = "Seek" /\ walked' = LeastEntry(BlockEntries)

BlocksSeekToLast == \E read \in Reads :
  LET s == Opened(Parsed(index_iter_, BlockCount, BlockCount, BlockCount), read)
  IN  /\ Becomes(SkipEmptyDataBlocksBackward([s EXCEPT !.data = {LastIn(it) : it \in @}], read))
      /\ call' = "Seek" /\ walked' = LastEntry(BlockEntries)

BlocksNext == /\ Valid
              /\ \E read \in Reads :
                   Becomes(SkipEmptyDataBlocksForward(
                     [Now EXCEPT !.data = {NextIn(it) : it \in @}], read))
              /\ call' = "Next" /\ walked' = LeastEntry({e \in BlockEntries : e > walked})

BlocksPrev == /\ Valid
              /\ \E read \in Reads :
                   Becomes(SkipEmptyDataBlocksBackward(
                     [Now EXCEPT !.data = {PrevIn(it) : it \in @}], read))
              /\ call' = "Prev" /\ walked' = LastEntry({e \in BlockEntries : e < walked})

NextBlocks == \/ \E target \in Targets : BlocksSeek(target)
              \/ BlocksSeekToFirst \/ BlocksSeekToLast \/ BlocksNext \/ BlocksPrev

SpecBlocks == InitBlocks /\ [][NextBlocks]_blockVars

-----------------------------------------------------------------------------
(* Properties *)

(* An iterator whose status is ok has left out nothing: it is where a walk *)
(* over all entries would be.  A reader that ends with Valid() false and an*)
(* ok status (a compaction does, and deletes its inputs) has seen all.     *)
NothingSkipped == ok => IF Valid THEN key = walked ELSE walked = 0

(* A block that is left out is reported from then on: the status does not  *)
(* become ok again, whatever the iterator goes on to read.                 *)
StatusStays == [][ok' => ok]_blockVars

(* With errors too, Next goes to a greater key and Prev to a smaller one.  *)
KeepsOrder == [][Valid' => CASE call' = "Next" -> key' > key
                             [] call' = "Prev" -> key' < key
                             [] OTHER          -> TRUE]_blockVars

(* An error is not forgotten, and no error makes the walk turn back.       *)
ErrorsStay == StatusStays /\ KeepsOrder
=============================================================================
