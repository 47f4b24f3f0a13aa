----------------------------- MODULE KeyedCache -----------------------------
(***************************************************************************)
(* What a Cache promises (include/leveldb/cache.h): entries found by key   *)
(* until they are replaced, erased or, when they are not in use and the    *)
(* cache is full, evicted, the one idle for the longest time first; and    *)
(* each value given to its deleter when nobody needs it any more.          *)
(***************************************************************************)
EXTENDS Integers, Sequences, FiniteSets, FiniteSetsExt

CONSTANTS Client, Key, Charges, Capacity, MaxInserts

VARIABLES entry,     \* key and charge of each entry, in the order of Insert
          cached,    \* the entries that can be found
          held,      \* the handles of each client
          idle,      \* cached entries without handles, the longest idle first
          deleted    \* the entries whose values were given to the deleter

vars == <<entry, cached, held, idle, deleted>>

Init == /\ entry = <<>> /\ cached = {} /\ idle = <<>> /\ deleted = {}
        /\ held = [c \in Client |-> {}]

Total(entries) == MapThenSumSet(LAMBDA e : entry'[e].charge, entries)

InUse == UNION {held'[c] : c \in Client}

Members(s) == {s[i] : i \in DOMAIN s}

(* The consequences of any step for idle and deleted, when the step leaves *)
(* the entries of after in the cache.                                      *)
Settled(after) ==
  /\ cached' = after
  /\ LET still == SelectSeq(idle, LAMBDA e : e \in after /\ e \notin InUse)
         fresh == (after \ InUse) \ Members(still)
     IN  \E e \in fresh \cup {0} :
           /\ fresh \subseteq {e}
           /\ idle' = IF fresh = {} THEN still ELSE Append(still, e)
  /\ deleted' = DOMAIN entry' \ (after \cup InUse)

Insert(c, k, charge) ==
  LET e == Len(entry) + 1
      replaced == {d \in cached : entry[d].key = k}
      full == IF Capacity > 0 THEN (cached \ replaced) \cup {e} ELSE cached
      left == SelectSeq(idle, LAMBDA d : d \notin replaced)
  IN  /\ Len(entry) < MaxInserts
      /\ entry' = Append(entry, [key |-> k, charge |-> charge])
      /\ held' = [held EXCEPT ![c] = @ \cup {e}]
      /\ \E n \in 0..Len(left) :
           LET Evicted(m) == {left[i] : i \in 1..m}
           IN  /\ Total(full \ Evicted(n)) <= Capacity \/ n = Len(left)
               /\ n > 0 => Total(full \ Evicted(n - 1)) > Capacity
               /\ Settled(full \ Evicted(n))

(* A client has no second handle of an entry it holds.                     *)
Lookup(c, k) ==
  /\ \E e \in cached \ held[c] : entry[e].key = k /\ held' = [held EXCEPT ![c] = @ \cup {e}]
  /\ UNCHANGED entry
  /\ Settled(cached)

Release(c, e) ==
  /\ e \in held[c] /\ held' = [held EXCEPT ![c] = @ \ {e}]
  /\ UNCHANGED entry
  /\ Settled(cached)

Erase(k) ==
  /\ UNCHANGED <<entry, held>>
  /\ Settled({e \in cached : entry[e].key # k})

Prune ==
  /\ UNCHANGED <<entry, held>>
  /\ Settled(cached \ Members(idle))

Next == \/ \E c \in Client, k \in Key :
             \/ Lookup(c, k)
             \/ \E charge \in Charges : Insert(c, k, charge)
        \/ \E c \in Client : \E e \in held[c] : Release(c, e)
        \/ \E k \in Key : Erase(k)
        \/ Prune

Spec == Init /\ [][Next]_vars
=============================================================================
