----------------------------- MODULE TableCache -----------------------------
(***************************************************************************)
(* The cache of open tables (db/table_cache.cc) between those who use it:  *)
(* readers with a version (gets, iterators, compactions), builders that    *)
(* check a table they wrote, and DeleteObsoleteFiles.  A table is looked   *)
(* up, opened and inserted in three steps without a lock held over them.   *)
(***************************************************************************)
EXTENDS LRUCache

VARIABLES on_disk,     \* the table files there are
          given,    \* the file numbers that were given out
          current,  \* the files of the current version
          pc,       \* where each client is
          keeps,    \* the files of the version, or the pending output, it keeps
          wants,    \* the file it looks for
          opening,  \* how far it is with opening it
          rejected  \* the tables BuildTable removed after it opened them

tableVars == <<on_disk, given, current, pc, keeps, wants, opening, rejected>>

allVars == <<cacheVars, tableVars>>

InitFiles == /\ on_disk = {} /\ given = {} /\ current = {} /\ rejected = {}
             /\ pc = [c \in Client |-> "idle"]
             /\ keeps = [c \in Client |-> {}]
             /\ wants = [c \in Client |-> {}]
             /\ opening = [c \in Client |-> "no"]

Starts(c, files, at) == /\ pc[c] = "idle" /\ pc' = [pc EXCEPT ![c] = at]
                        /\ keeps' = [keeps EXCEPT ![c] = files]

(* BuildTable: a file with a new number, one of pending_outputs_ until it  *)
(* is installed or given up, is read to see whether it is usable.          *)
BuildTable(c, k) ==
  /\ k \notin given /\ given' = given \cup {k}
  /\ on_disk' = on_disk \cup {k}
  /\ Starts(c, {k}, "checks")
  /\ wants' = [wants EXCEPT ![c] = {k}]
  /\ UNCHANGED <<current, opening, rejected, cacheVars>>

(* A reader with a reference to the current version.                       *)
NewReader(c) ==
  /\ Starts(c, current, "reads")
  /\ UNCHANGED <<given, on_disk, current, wants, opening, rejected, cacheVars>>

Wants(c, k) ==
  /\ pc[c] = "reads" /\ wants[c] = {} /\ k \in keeps[c]
  /\ wants' = [wants EXCEPT ![c] = {k}]
  /\ UNCHANGED <<given, on_disk, current, pc, keeps, opening, rejected, cacheVars>>

Holds(c, k) == \E e \in held[c] : heap[e].key = k

Seeks(c, k, at) == wants[c] = {k} /\ opening[c] = at /\ ~Holds(c, k)

(* FindTable: the entry is in the cache, or the file has to be opened.     *)
FindTable(c, k) ==
  /\ Seeks(c, k, "no")
  /\ IF Found(k) # None
     THEN Lookup(c, k) /\ UNCHANGED tableVars
     ELSE /\ opening' = [opening EXCEPT ![c] = "opens"]
          /\ UNCHANGED <<given, on_disk, current, pc, keeps, wants, rejected, cacheVars>>

OpenTable(c, k) ==
  /\ Seeks(c, k, "opens") /\ k \in on_disk
  /\ opening' = [opening EXCEPT ![c] = "opened"]
  /\ UNCHANGED <<given, on_disk, current, pc, keeps, wants, rejected, cacheVars>>

(* It cannot be opened or read; the error is not cached.  BuildTable then  *)
(* removes its table itself, a compaction leaves it to DeleteObsoleteFiles.*)
OpenFails(c, k) ==
  /\ Seeks(c, k, "opens")
  /\ opening' = [opening EXCEPT ![c] = "no"]
  /\ wants' = [wants EXCEPT ![c] = {}]
  /\ IF pc[c] = "checks"
     THEN /\ pc' = [pc EXCEPT ![c] = "idle"]
          /\ keeps' = [keeps EXCEPT ![c] = {}]
          /\ \E gone \in {{}, {k}} : on_disk' = on_disk \ gone
     ELSE UNCHANGED <<pc, keeps, on_disk>>
  /\ UNCHANGED <<given, current, rejected, cacheVars>>

(* It is inserted, whoever else did so meanwhile.                          *)
InsertTable(c, k) ==
  /\ Seeks(c, k, "opened")
  /\ InsertEntry(c, k, 1)
  /\ opening' = [opening EXCEPT ![c] = "no"]
  /\ UNCHANGED <<given, on_disk, current, pc, keeps, wants, rejected>>

(* The end of a Get of the table, or of an iterator over it (UnrefEntry).  *)
UnrefEntry(c, k) ==
  /\ wants[c] = {k}
  /\ \E e \in held[c] : heap[e].key = k /\ Release(c, e)
  /\ wants' = [wants EXCEPT ![c] = {}]
  /\ UNCHANGED <<given, on_disk, current, pc, keeps, opening, rejected>>

(* The iterators of a reader are gone before its version is; a table that  *)
(* was checked is installed, or not.                                       *)
ClientDone(c) ==
  /\ pc[c] # "idle" /\ wants[c] = {}
  /\ pc' = [pc EXCEPT ![c] = "idle"]
  /\ keeps' = [keeps EXCEPT ![c] = {}]
  /\ IF pc[c] = "checks"
     THEN \E files \in {current, current \cup keeps[c]} : current' = files
     ELSE UNCHANGED current
  /\ UNCHANGED <<given, on_disk, wants, opening, rejected, cacheVars>>

(* BuildTable removes a table that it could open: the check, or what the   *)
(* table was built from, ended with an error.  It evicts nothing.          *)
GiveUp(c) ==
  /\ pc[c] = "checks" /\ wants[c] = {}
  /\ pc' = [pc EXCEPT ![c] = "idle"]
  /\ keeps' = [keeps EXCEPT ![c] = {}]
  /\ on_disk' = on_disk \ keeps[c]
  /\ rejected' = rejected \cup keeps[c]
  /\ UNCHANGED <<given, current, wants, opening, cacheVars>>

(* A compaction drops a file from the version that becomes current.        *)
DropFile(k) ==
  /\ k \in current /\ current' = current \ {k}
  /\ UNCHANGED <<given, on_disk, pc, keeps, wants, opening, rejected, cacheVars>>

(* Mistake: only the current version counts.                               *)
OnlyCurrent == current

(* AddLiveFiles and pending_outputs_.                                      *)
Live == current \cup UNION {keeps[c] : c \in Client}

(* DeleteObsoleteFiles, for one file (it holds the mutex for all of them). *)
DeleteObsolete(k) ==
  /\ k \in on_disk \ Live /\ on_disk' = on_disk \ {k}
  /\ Erase(k)
  /\ UNCHANGED <<given, current, pc, keeps, wants, opening, rejected>>

NextTables ==
  \/ \E c \in Client :
       \/ NewReader(c)
       \/ ClientDone(c)
       \/ GiveUp(c)
       \/ \E k \in Key : \/ BuildTable(c, k) \/ Wants(c, k) \/ FindTable(c, k)
                         \/ OpenTable(c, k) \/ OpenFails(c, k) \/ InsertTable(c, k)
                         \/ UnrefEntry(c, k)
  \/ \E k \in Key : DropFile(k) \/ DeleteObsolete(k)

SpecTables == InitCache /\ InitFiles /\ [][NextTables]_allVars

-----------------------------------------------------------------------------
(* Properties *)

(* A file that is gone is not kept open by the cache: it was evicted when  *)
(* the file was removed, and no client that was opening it meanwhile       *)
(* inserts it after that.  A table that BuildTable gave up may be kept     *)
(* open; its number is not given again, and nobody asks for it.            *)
RemovedStaysOut == \A e \in Cached : heap[e].key \in on_disk \cup rejected

(* What a client looks for is there until it is done with it.              *)
WantedIsThere == \A c \in Client : wants[c] \subseteq on_disk

(* Whoever opened a table twice over, each client has a handle of its own  *)
(* and of what it asked for; when nobody uses a table, one copy at most is *)
(* open, the one in the cache.                                             *)
OneCopyWhenIdle ==
  \A k \in Key :
    (\A c \in Client : wants[c] # {k}) =>
      Cardinality({e \in DOMAIN heap : heap[e].key = k /\ deleted[e] = 0}) <= 1

(* What is looked for is there, what was removed is not kept open, and     *)
(* nothing twice for longer than it is used.                               *)
TablesAreKept == RemovedStaysOut /\ WantedIsThere /\ OneCopyWhenIdle
=============================================================================
