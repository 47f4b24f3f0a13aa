------------------------------ MODULE LRUCache ------------------------------
(***************************************************************************)
(* util/cache.cc: a shard of the cache of tables and of blocks.  Each      *)
(* operation holds the mutex, and is one action.  A handle is the number   *)
(* of the Insert that made its entry; lists run from next to prev of their *)
(* head, and a bucket of the hash table is the chain of its entries.       *)
(***************************************************************************)
EXTENDS Integers, Sequences, FiniteSets, FiniteSetsExt

CONSTANTS Client, Key, Charges,
          capacity_,
          HashOf,      \* the hash of each key
          MinLength,   \* the least number of buckets (4 in the code)
          MaxInserts

ASSUME CacheAssumption == /\ IsFiniteSet(Client) /\ HashOf \in [Key -> Nat]
                          /\ MinLength \in Nat \ {0} /\ Charges \subseteq Nat

VARIABLES heap,        \* what Insert wrote in each entry
          refs, in_cache,
          lru_, in_use_,
          table_,      \* buckets, from 0
          usage_,
          held,        \* the handles clients have to release
          deleted      \* how often each value was given to its deleter

cacheVars == <<heap, refs, in_cache, lru_, in_use_, table_, usage_, held, deleted>>

InitCache == /\ heap = <<>> /\ refs = <<>> /\ in_cache = <<>> /\ deleted = <<>>
             /\ lru_ = <<>> /\ in_use_ = <<>>
             /\ table_ = [b \in 0..(MinLength - 1) |-> <<>>]
             /\ usage_ = 0
             /\ held = [c \in Client |-> {}]

-----------------------------------------------------------------------------
(* HandleTable *)

length_ == Cardinality(DOMAIN table_)
elems_  == LET Sizes[b \in 0..length_] == IF b = 0 THEN 0 ELSE Sizes[b - 1] + Len(table_[b - 1])
           IN  Sizes[length_]

Bucket(k) == HashOf[k] % length_

(* FindPointer: the place of key k in its chain, or the one after its end. *)
FindPointer(k) ==
  LET chain == table_[Bucket(k)]
      same  == {i \in DOMAIN chain : heap[chain[i]].key = k}
  IN  IF same = {} THEN Len(chain) + 1 ELSE CHOOSE i \in same : \A j \in same : i <= j

None == 0

Found(k) == LET chain == table_[Bucket(k)]
                i     == FindPointer(k)
            IN  IF i > Len(chain) THEN None ELSE chain[i]

(* MinLength is doubled until there is a bucket for each of n entries.     *)
LengthFor(n) ==
  LET Doubled[i \in 0..n] == IF i = 0 THEN MinLength
                             ELSE IF Doubled[i - 1] < n THEN 2 * Doubled[i - 1] ELSE Doubled[i - 1]
  IN  Doubled[n]

(* Resize: every entry, in the order of the chains, to the front of its    *)
(* new chain, by its hash.                                                 *)
Resized(table, hashes) ==
  LET Chains[b \in 0..Cardinality(DOMAIN table)] ==
        IF b = 0 THEN <<>> ELSE Chains[b - 1] \o table[b - 1]
      all    == Chains[Cardinality(DOMAIN table)]
      length == LengthFor(Len(all))
      Front(moved, e) == [moved EXCEPT ![hashes[e] % length] = <<e>> \o @]
      Moved[i \in 0..Len(all)] ==
        IF i = 0 THEN [b \in 0..(length - 1) |-> <<>>] ELSE Front(Moved[i - 1], all[i])
  IN  Moved[Len(all)]

(* HandleTable::Insert of entry e for key k.                               *)
TableWith(e, k) ==
  LET b        == Bucket(k)
      i        == FindPointer(k)
      more     == i > Len(table_[b])
      linked   == [table_ EXCEPT ![b] = IF more THEN Append(@, e) ELSE [@ EXCEPT ![i] = e]]
      hashes   == [d \in 1..e |-> HashOf[IF d = e THEN k ELSE heap[d].key]]
  IN  IF more /\ elems_ + 1 > length_ THEN Resized(linked, hashes) ELSE linked

(* An entry is unlinked; there is no list it is in twice.                  *)
Without(s, e) ==
  LET at == CHOOSE i \in DOMAIN s : s[i] = e
  IN  IF \A i \in DOMAIN s : s[i] # e THEN s
      ELSE [i \in 1..(Len(s) - 1) |-> IF i < at THEN s[i] ELSE s[i + 1]]

-----------------------------------------------------------------------------
(* LRUCache.  A step of its code is a function of the state s of the       *)
(* entries and lists.                                                      *)

State == [refs |-> refs, in_cache |-> in_cache, lru |-> lru_, in_use |-> in_use_,
          table |-> table_, usage |-> usage_, deleted |-> deleted]

Becomes(s) == /\ refs' = s.refs /\ in_cache' = s.in_cache /\ lru_' = s.lru
              /\ in_use_' = s.in_use /\ table_' = s.table /\ usage_' = s.usage
              /\ deleted' = s.deleted

LRU_Remove(s, e) == [s EXCEPT !.lru = Without(@, e), !.in_use = Without(@, e)]

Ref(s, e) ==
  LET t == IF s.refs[e] = 1 /\ s.in_cache[e]
           THEN [LRU_Remove(s, e) EXCEPT !.in_use = Append(@, e)] ELSE s
  IN  [t EXCEPT !.refs[e] = @ + 1]

(* Mistake: an entry is idle again whether the cache has it or not.        *)
UnrefAnyEntry(s, e) ==
  LET t == [s EXCEPT !.refs[e] = @ - 1]
  IN  CASE t.refs[e] = 0 -> [t EXCEPT !.deleted[e] = @ + 1]
        [] t.refs[e] = 1 -> [LRU_Remove(t, e) EXCEPT !.lru = Append(@, e)]
        [] OTHER -> t

Unref(s, e) ==
  LET t == [s EXCEPT !.refs[e] = @ - 1]
  IN  CASE t.refs[e] = 0 -> [t EXCEPT !.deleted[e] = @ + 1]
        [] t.refs[e] = 1 /\ t.in_cache[e] -> [LRU_Remove(t, e) EXCEPT !.lru = Append(@, e)]
        [] OTHER -> t

FinishErase(s, e, charge) ==
  Unref([LRU_Remove(s, e) EXCEPT !.in_cache[e] = FALSE, !.usage = @ - charge], e)

(* HandleTable::Remove, then FinishErase.                                  *)
Removed(s, e, charge) ==
  FinishErase([s EXCEPT !.table = [b \in DOMAIN @ |-> Without(@[b], e)]], e, charge)

(* Entries are evicted, the oldest first, while the cache is over capacity.*)
Evicted(s, charges) ==
  LET after[n \in 0..Len(s.lru)] ==
        IF n = 0 THEN s
        ELSE LET t == after[n - 1]
             IN  IF t.usage > capacity_ THEN Removed(t, s.lru[n], charges[s.lru[n]]) ELSE t
  IN  after[Len(s.lru)]

ChargeOf(e) == heap[e].charge

Caches == capacity_ > 0

InsertEntry(c, k, charge) ==
  LET e    == Len(heap) + 1
      new  == [State EXCEPT !.refs = Append(@, 1), !.in_cache = Append(@, FALSE),
                            !.deleted = Append(@, 0)]
      kept == [new EXCEPT !.refs[e] = 2, !.in_cache[e] = TRUE, !.usage = @ + charge,
                          !.in_use = Append(@, e), !.table = TableWith(e, k)]
      old  == Found(k)
      s    == IF ~Caches THEN new
              ELSE IF old = None THEN kept ELSE FinishErase(kept, old, ChargeOf(old))
  IN  /\ Len(heap) < MaxInserts
      /\ heap' = Append(heap, [key |-> k, charge |-> charge])
      /\ held' = [held EXCEPT ![c] = @ \cup {e}]
      /\ Becomes(Evicted(s, [d \in 1..e |-> IF d = e THEN charge ELSE ChargeOf(d)]))

(* A client does not ask for what it holds: handles are counted per entry. *)
Lookup(c, k) ==
  LET e == Found(k)
  IN  /\ e \notin held[c]
      /\ IF e = None THEN UNCHANGED cacheVars
         ELSE /\ Becomes(Ref(State, e))
              /\ held' = [held EXCEPT ![c] = @ \cup {e}]
              /\ UNCHANGED heap

Release(c, e) ==
  /\ e \in held[c]
  /\ held' = [held EXCEPT ![c] = @ \ {e}]
  /\ Becomes(Unref(State, e))
  /\ UNCHANGED heap

Erase(k) ==
  LET e == Found(k)
  IN  /\ Becomes(IF e = None THEN State ELSE Removed(State, e, ChargeOf(e)))
      /\ UNCHANGED <<heap, held>>

Prune ==
  LET after[n \in 0..Len(lru_)] ==
        IF n = 0 THEN State ELSE LET s == after[n - 1] IN Removed(s, lru_[n], ChargeOf(lru_[n]))
  IN  Becomes(after[Len(lru_)]) /\ UNCHANGED <<heap, held>>

NextCache ==
  \/ \E c \in Client, k \in Key :
       \/ Lookup(c, k)
       \/ \E charge \in Charges : InsertEntry(c, k, charge)
  \/ \E c \in Client : \E e \in held[c] : Release(c, e)
  \/ \E k \in Key : Erase(k)
  \/ Prune

SpecCache == InitCache /\ [][NextCache]_cacheVars

-----------------------------------------------------------------------------
(* Properties *)

Cached == {e \in DOMAIN heap : in_cache[e]}

HeldBySome(e) == {c \in Client : e \in held[c]}

(* The books of the cache agree about each entry: it has a reference for   *)
(* the cache and one for each handle, and with the last its value went to  *)
(* the deleter, once; the chains hold what is in the cache, each entry in  *)
(* the bucket of its hash and no key twice.                                *)
EntriesAgree ==
  /\ \A e \in DOMAIN heap :
       /\ refs[e] = Cardinality(HeldBySome(e)) + (IF in_cache[e] THEN 1 ELSE 0)
       /\ deleted[e] = (IF refs[e] = 0 THEN 1 ELSE 0)
       /\ in_cache[e] <=> \E i \in DOMAIN table_[Bucket(heap[e].key)] :
                            table_[Bucket(heap[e].key)][i] = e
  /\ \A d, e \in Cached : heap[d].key = heap[e].key => d = e

(* And so do the counts: elems_ of the entries, usage_ of their charges.   *)
BooksAgree == /\ EntriesAgree
              /\ elems_ = Cardinality(Cached)
              /\ usage_ = MapThenSumSet(ChargeOf, Cached)

(* The cache does what a cache promises: a handle's value is not deleted,  *)
(* a value that is in the cache or has a handle neither, and every other   *)
(* one is, once; what was replaced or erased is not found; and the oldest  *)
(* idle entries, and no more of them than is needed, make room.            *)
Abstract == INSTANCE KeyedCache WITH
              Capacity <- capacity_, entry <- heap, cached <- Cached, idle <- lru_,
              deleted <- {e \in DOMAIN heap : deleted[e] = 1}

IsKeyedCache == Abstract!Spec
=============================================================================
