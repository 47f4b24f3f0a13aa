------------------------------ MODULE MCShared ------------------------------
(***************************************************************************)
(* What the threads of LevelDB share: the lock on a database, the caches,  *)
(* and of the environment the limits of open files and the queue of the    *)
(* background thread.  The parts share no state: a behaviour is one of     *)
(* them, and the others stay as they are.                                  *)
(***************************************************************************)
EXTENDS FileLock, PosixEnv, TableCache, TLC

CONSTANTS app, extension, a1, a2, e1, c1, c2, c3, k1, k2, k3, d1, d2, d3

VARIABLES part,
          heap_, refs_, cached_, idle_, used_, buckets_, total_, handles_, given_  \* of a cache alone

aloneVars == <<heap_, refs_, cached_, idle_, used_, buckets_, total_, handles_, given_>>

(* One process has two threads, the other one.                             *)
SomeHome == a1 :> app @@ a2 :> app @@ e1 :> extension

(* A process makes one call at a time and nobody destroys the database.    *)
Alone == INSTANCE FileLock WITH Serial <- TRUE, MayDestroy <- FALSE

(* Two keys share a hash, the third only a bucket of the smaller tables.   *)
SomeHashes == k1 :> 1 @@ k2 :> 1 @@ k3 :> 3
SameHashes == k1 :> 1 @@ k2 :> 1

Cache == INSTANCE LRUCache
           WITH Key <- {k1, k2, k3}, HashOf <- SomeHashes, Charges <- {1, 2},
                capacity_ <- 2, MaxInserts <- 3,
                heap <- heap_, refs <- refs_, in_cache <- cached_, lru_ <- idle_,
                in_use_ <- used_, table_ <- buckets_, usage_ <- total_, held <- handles_,
                deleted <- given_

(* A cache without room for anything.                                      *)
Off == INSTANCE LRUCache
         WITH Key <- {k1, k2, k3}, HashOf <- SomeHashes, capacity_ <- 0,
              heap <- heap_, refs <- refs_, in_cache <- cached_, lru_ <- idle_,
              in_use_ <- used_, table_ <- buckets_, usage_ <- total_, held <- handles_,
              deleted <- given_

ASSUME LimitsAssumption == Finite

Clients == Permutations({c1, c2})

In(names) == part \in names /\ UNCHANGED part

SharedInit ==
  /\ part \in {"threads", "alone", "cache", "off", "tables", "limits", "work"}
  /\ Init /\ InitEnv /\ InitCache /\ InitFiles /\ Cache!InitCache

SharedNext ==
  \/ In({"threads"}) /\ Next            /\ UNCHANGED <<envVars, aloneVars, allVars>>
  \/ In({"alone"})   /\ Alone!Next      /\ UNCHANGED <<envVars, aloneVars, allVars>>
  \/ In({"cache"})   /\ Cache!NextCache /\ UNCHANGED <<vars, envVars, allVars>>
  \/ In({"off"})     /\ Off!NextCache   /\ UNCHANGED <<vars, envVars, allVars>>
  \/ In({"tables"})  /\ NextTables      /\ UNCHANGED <<vars, envVars, aloneVars>>
  \/ In({"limits"})  /\ LimitStep       /\ UNCHANGED <<vars, workVars, aloneVars, allVars>>
  \/ In({"work"})    /\ WorkStep        /\ UNCHANGED <<vars, limitVars, aloneVars, allVars>>

SharedSpec == SharedInit /\ [][SharedNext]_<<part, vars, envVars, aloneVars, allVars>>

(* Among processes that call one after the other, one has the lock.        *)
AloneOneHolder == part = "alone" => OneHolder

(* In the parts that are not of the cache, its abstract state stays what   *)
(* it is when the cache is empty.                                          *)
CachedIn(name) == IF part = name THEN {e \in DOMAIN heap_ : cached_[e]} ELSE {}

GivenIn(name) == IF part = name THEN {e \in DOMAIN heap_ : given_[e] = 1} ELSE {}

Of(name, state, empty) == IF part = name THEN state ELSE empty

Nobody == [c \in {c1, c2} |-> {}]

AsKeyedCache == INSTANCE KeyedCache
                  WITH Key <- {k1, k2, k3}, Charges <- {1, 2}, Capacity <- 2, MaxInserts <- 3,
                       entry <- Of("cache", heap_, <<>>), cached <- CachedIn("cache"),
                       held <- Of("cache", handles_, Nobody), idle <- Of("cache", idle_, <<>>),
                       deleted <- GivenIn("cache")

OffAsKeyedCache == INSTANCE KeyedCache
                     WITH Key <- {k1, k2, k3}, Capacity <- 0,
                          entry <- Of("off", heap_, <<>>), cached <- CachedIn("off"),
                          held <- Of("off", handles_, Nobody), idle <- Of("off", idle_, <<>>),
                          deleted <- GivenIn("off")

(* With room and without, the cache is the one its interface promises, and *)
(* its chains, charges and counts agree.                                   *)
ImplementsKeyedCache == /\ [](part = "cache" => Cache!BooksAgree)
                        /\ AsKeyedCache!Spec
                        /\ OffAsKeyedCache!Spec
=============================================================================
