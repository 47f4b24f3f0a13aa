----------------------------- MODULE TableFile ------------------------------
(***************************************************************************)
(* Table files (table/table_builder.cc, table.cc): entries in blocks that  *)
(* share prefixes between restart points (block_builder.cc, block.cc), an  *)
(* index with a key as short as possible for each block (util/comparator.cc*)
(* and db/dbformat.cc), and a filter for the blocks that begin in each     *)
(* stretch of the file (filter_block.cc).                                  *)
(*                                                                         *)
(* A user key is a sequence of bytes 0..MaxByte; the tag that an internal  *)
(* key ends with is one symbol, greater than all bytes.  An offset in a    *)
(* block is the number of an entry.  A filter is the set of the keys it    *)
(* was made from, which is the strictest a filter can be.                  *)
(***************************************************************************)
EXTENDS Integers, Sequences, FiniteSets, FiniteSetsExt

CONSTANTS Strings, MaxByte,        \* user keys, and their greatest byte
          Tags, kMaxTag,           \* the tags of entries, and that of a seek
          block_restart_interval,
          BlockSizes, kFilterBase, \* sizes of finished blocks
          MaxEntries

VARIABLES r,        \* the builder
          added     \* the keys that were added

vars == <<r, added>>

-----------------------------------------------------------------------------
(* Comparators *)

(* BytewiseComparator: a before b.                                         *)
Less(a, b) == \E i \in 1..Len(b) : /\ i <= Len(a) + 1
                                   /\ \A j \in 1..(i - 1) : a[j] = b[j]
                                   /\ i <= Len(a) => a[i] < b[i]

Before(a, b) == \/ Less(a.user, b.user)
                \/ a.user = b.user /\ a.tag > b.tag

CommonPrefix(a, b) ==
  LET same == {n \in 0..Len(a) : n <= Len(b) /\ \A i \in 1..n : a[i] = b[i]}
  IN  CHOOSE n \in same : \A m \in same : m <= n

(* Mistake: the byte is incremented although it then equals the limit's.   *)
SeparatorUpToLimit(start, limit) ==
  LET d == CommonPrefix(start, limit) + 1
  IN  IF d > Len(start) \/ d > Len(limit) \/ start[d] = MaxByte THEN start
      ELSE [SubSeq(start, 1, d) EXCEPT ![d] = @ + 1]

ShortestSeparator(start, limit) ==
  LET d == CommonPrefix(start, limit) + 1
  IN  IF d > Len(start) \/ d > Len(limit) THEN start
      ELSE IF start[d] < MaxByte /\ start[d] + 1 < limit[d]
           THEN [SubSeq(start, 1, d) EXCEPT ![d] = @ + 1] ELSE start

ShortSuccessor(key) ==
  LET low == {i \in DOMAIN key : key[i] # MaxByte}
  IN  IF low = {} THEN key
      ELSE LET i == CHOOSE i \in low : \A j \in low : i <= j
           IN  [SubSeq(key, 1, i) EXCEPT ![i] = @ + 1]

(* InternalKeyComparator: only a shorter and greater user key is taken,    *)
(* with the tag that comes before all others.                              *)
Shortened(key, user) ==
  IF Len(user) < Len(key.user) /\ Less(key.user, user)
  THEN [user |-> user, tag |-> kMaxTag] ELSE key

FindShortestSeparator(start, limit) == Shortened(start, ShortestSeparator(start.user, limit.user))
FindShortSuccessor(key)             == Shortened(key, ShortSuccessor(key.user))

-----------------------------------------------------------------------------
(* BlockBuilder: entries, the numbers of those that are restart points, how*)
(* many entries there are since the last one, and the last key.            *)

Encoded(key) == Append(key.user, MaxByte + 1 + key.tag)
Decoded(s)   == [user |-> SubSeq(s, 1, Len(s) - 1), tag |-> s[Len(s)] - MaxByte - 1]

EmptyBlock == [entries |-> <<>>, restarts |-> <<1>>, counter |-> 0, last |-> <<>>]

AddToBlock(b, key, interval) ==
  LET s       == Encoded(key)
      restart == b.counter >= interval
      shared  == IF restart THEN 0 ELSE CommonPrefix(b.last, s)
  IN  [entries  |-> Append(b.entries, [shared |-> shared, delta |-> SubSeq(s, shared + 1, Len(s))]),
       restarts |-> IF restart THEN Append(b.restarts, Len(b.entries) + 1) ELSE b.restarts,
       counter  |-> IF restart THEN 1 ELSE b.counter + 1,
       last     |-> SubSeq(b.last, 1, shared) \o SubSeq(s, shared + 1, Len(s))]

-----------------------------------------------------------------------------
(* Block::Iter: the entry it is at (the one after the last when it is not  *)
(* valid), its restart_index_, its key, and the entry that is parsed next. *)

AtEnd(b) == [current |-> Len(b.entries) + 1, restart |-> Len(b.restarts) + 1,
             key |-> <<>>, next |-> Len(b.entries) + 1]

IsValid(b, it) == it.current <= Len(b.entries)

SeekToRestartPoint(b, i) == [current |-> 0, restart |-> i, key |-> <<>>, next |-> b.restarts[i]]

ParseNextKey(b, it) ==
  IF it.next > Len(b.entries) THEN AtEnd(b)
  ELSE LET e       == b.entries[it.next]
           passed  == {i \in (it.restart + 1)..Len(b.restarts) : b.restarts[i] < it.next}
       IN  [current |-> it.next, key |-> SubSeq(it.key, 1, e.shared) \o e.delta,
            restart |-> it.restart + Cardinality(passed), next |-> it.next + 1]

(* ParseNextKey until Done.                                                *)
ParsedUntil(b, it, Done(_)) ==
  LET after[n \in 0..Len(b.entries)] ==
        IF n = 0 THEN ParseNextKey(b, it)
        ELSE LET t == after[n - 1]
             IN  IF ~IsValid(b, t) \/ Done(t) THEN t ELSE ParseNextKey(b, t)
  IN  after[Len(b.entries)]

BlockSeekToFirst(b) == ParseNextKey(b, SeekToRestartPoint(b, 1))

BlockSeekToLast(b) ==
  ParsedUntil(b, SeekToRestartPoint(b, Len(b.restarts)), LAMBDA t : t.next > Len(b.entries))

(* The last restart point before the entry, 0 if there is none.            *)
RestartBefore(b, original, restart) ==
  LET before == {i \in 1..restart : b.restarts[i] < original}
  IN  IF before = {} THEN 0 ELSE CHOOSE i \in before : \A j \in before : j <= i

BlockPrev(b, it) ==
  LET i == RestartBefore(b, it.current, it.restart)
  IN  IF i = 0 THEN AtEnd(b)
      ELSE ParsedUntil(b, SeekToRestartPoint(b, i), LAMBDA t : t.next >= it.current)

(* The binary search between left and right for the last restart point     *)
(* with a key before target.                                               *)
LastRestartBefore(b, target) ==
  LET Narrowed(s) ==
        LET mid == (s.left + s.right + 1) \div 2
        IN  IF Before(Decoded(b.entries[b.restarts[mid]].delta), target)
            THEN [s EXCEPT !.left = mid] ELSE [s EXCEPT !.right = mid - 1]
      after[n \in 0..Len(b.restarts)] ==
        IF n = 0 THEN [left |-> 1, right |-> Len(b.restarts)]
        ELSE LET s == after[n - 1] IN IF s.left < s.right THEN Narrowed(s) ELSE s
  IN  after[Len(b.restarts)].left

BlockSeek(b, target) ==
  ParsedUntil(b, SeekToRestartPoint(b, LastRestartBefore(b, target)),
              LAMBDA t : ~Before(Decoded(t.key), target))

-----------------------------------------------------------------------------
(* TableBuilder *)

Init == /\ r = [data_block |-> EmptyBlock, blocks |-> <<>>, offsets |-> <<>>, offset |-> 0,
                index_block |-> EmptyBlock, handles |-> <<>>,
                last_key |-> [user |-> <<>>, tag |-> 0], pending_index_entry |-> FALSE,
                filters |-> <<>>, keys |-> {}, closed |-> FALSE]
        /\ added = <<>>

(* The index entry of the last block that was written.                     *)
WithIndexEntry(s, key) ==
  IF s.pending_index_entry
  THEN [s EXCEPT !.index_block = AddToBlock(@, key, 1), !.handles = Append(@, Len(s.blocks)),
                 !.pending_index_entry = FALSE]
  ELSE s

(* GenerateFilter: of the keys since the last one, none perhaps.           *)
GenerateFilter(s) == [s EXCEPT !.filters = Append(@, s.keys), !.keys = {}]

(* StartBlock: filters for every stretch before the one of the offset.     *)
StartBlock(s) ==
  LET index == s.offset \div kFilterBase
      after[n \in 0..index] ==
        IF n = 0 THEN s
        ELSE LET t == after[n - 1] IN IF index > Len(t.filters) THEN GenerateFilter(t) ELSE t
  IN  after[index]

Flushed(s, size) ==
  IF s.data_block.entries = <<>> THEN s
  ELSE StartBlock([s EXCEPT !.blocks = Append(@, s.data_block), !.data_block = EmptyBlock,
                            !.offsets = Append(@, s.offset), !.offset = @ + size,
                            !.pending_index_entry = TRUE])

(* Add, of a key after all others; the block is flushed when it is large   *)
(* enough, which is at any key, as values are of any size.                 *)
Add(key) ==
  LET s == WithIndexEntry(r, FindShortestSeparator(r.last_key, key))
      t == [s EXCEPT !.keys = @ \cup {key.user}, !.last_key = key,
                     !.data_block = AddToBlock(@, key, block_restart_interval)]
  IN  /\ ~r.closed /\ Len(added) < MaxEntries
      /\ added # <<>> => Before(r.last_key, key)
      /\ \E u \in {t} \cup {Flushed(t, size) : size \in BlockSizes} : r' = u
      /\ added' = Append(added, key)

Finish ==
  /\ ~r.closed
  /\ \E size \in BlockSizes :
       LET s == Flushed(r, size)
           t == IF s.keys = {} THEN s ELSE GenerateFilter(s)
       IN  r' = [WithIndexEntry(t, FindShortSuccessor(t.last_key)) EXCEPT !.closed = TRUE]
  /\ UNCHANGED added

Keys == [user : Strings, tag : Tags]

Next == \/ \E key \in Keys : Add(key)
        \/ Finish

Spec == Init /\ [][Next]_vars

-----------------------------------------------------------------------------
(* Table *)

(* FilterBlockReader::KeyMayMatch.                                         *)
KeyMayMatch(block, key) ==
  LET index == r.offsets[block] \div kFilterBase
  IN  index < Len(r.filters) => key.user \in r.filters[index + 1]

(* InternalGet: the entry it hands to its caller, if any.                  *)
InternalGet(key) ==
  LET iiter == BlockSeek(r.index_block, key)
      block == r.handles[iiter.current]
      found == BlockSeek(r.blocks[block], key)
  IN  IF ~IsValid(r.index_block, iiter) THEN {}
      ELSE IF ~KeyMayMatch(block, key) THEN {}
      ELSE IF IsValid(r.blocks[block], found) THEN {Decoded(found.key)} ELSE {}

-----------------------------------------------------------------------------
(* Properties *)

Targets == [user : Strings, tag : Tags \cup {kMaxTag}]

(* The first entry at or after a target, among some keys in order.         *)
FirstFrom(keys, target) ==
  LET from == {i \in DOMAIN keys : ~Before(keys[i], target)}
  IN  IF from = {} THEN {} ELSE {keys[CHOOSE i \in from : \A j \in from : i <= j]}

(* A lookup that reads one block, the one the index or the filter says,    *)
(* finds the newest entry of its user key at its sequence number: neither  *)
(* the shortened keys of the index, nor entries of one user key in two     *)
(* blocks, nor a filter for several blocks hide it.                        *)
GetFindsEntry ==
  r.closed =>
    \A target \in Targets :
      LET OfUser(found) == {e \in found : e.user = target.user}
      IN  OfUser(InternalGet(target)) = OfUser(FirstFrom(added, target))

KeysOf(b, blocks) ==
  LET before == MapThenSumSet(LAMBDA n : Len(blocks[n].entries), 1..(b - 1))
  IN  SubSeq(added, before + 1, before + Len(blocks[b].entries))

(* An iterator over a block is at the entries that were added to it,       *)
(* whatever their prefixes and wherever the restart points are.            *)
BlockIsWalked ==
  r.closed =>
    \A n \in DOMAIN r.blocks :
      LET b    == r.blocks[n]
          keys == KeysOf(n, r.blocks)
          At(it, i) == it.current = i /\ Decoded(it.key) = keys[i]
          Walk[i \in 1..Len(keys)] ==
            IF i = 1 THEN BlockSeekToFirst(b) ELSE ParseNextKey(b, Walk[i - 1])
          Back[i \in 1..Len(keys)] ==
            IF i = Len(keys) THEN BlockSeekToLast(b) ELSE BlockPrev(b, Back[i + 1])
      IN  /\ \A i \in DOMAIN keys :
               /\ At(Walk[i], i) /\ At(Back[i], i)
               /\ ~IsValid(b, BlockPrev(b, Back[1]))
               /\ i > 1 => At(BlockPrev(b, Walk[i]), i - 1)
          /\ \A target \in Targets :
               LET it == BlockSeek(b, target)
               IN  FirstFrom(keys, target)
                     = IF IsValid(b, it) THEN {Decoded(it.key)} ELSE {}
=============================================================================
