------------------------------ MODULE MemTable ------------------------------
(***************************************************************************)
(* The memtable (db/memtable.cc) and its skip list (db/skiplist.h): one    *)
(* writer, which holds no lock while it inserts the entries of a batch, and*)
(* readers that take none at all.                                          *)
(*                                                                         *)
(* Memory is weak.  Every store is kept in memory, in the writer's order; a*)
(* thread has a view, the number of stores it is sure to see, and a load   *)
(* returns the last store of its view to that place or any later one.  An  *)
(* acquire load raises the view to the (release) store it read; the mutex  *)
(* under which a sequence number is published raises it to what the writer *)
(* had done by then; a relaxed load raises nothing.                        *)
(*                                                                         *)
(* Readers store nothing, so one of them, on one memtable, stands for all. *)
(***************************************************************************)
EXTENDS InternalKeys

CONSTANTS kMaxHeight,
          Types,       \* of the entries written: kTypeValue, kTypeDeletion
          MaxEntries, MaxReads

(* For whoever instantiates the module to assume.                          *)
Bounds == kMaxHeight \in Nat \ {0} /\ Types \subseteq {kTypeDeletion, kTypeValue}

VARIABLES nodes,       \* the entry of each node, in the order of allocation
          memory,      \* all stores so far
          inserting,   \* the Insert that is under way: its node's height, the
                       \* levels it is linked at, and prev
          published,   \* the last sequence readers may know, and its view
          reader

vars == <<nodes, memory, inserting, published, reader>>

head_ == 0  Null == -1  Uninit == -2

(* The places there are stores to: next_ of a node, and max_height_.       *)
NextOf(n, level) == <<n, level>>
MaxHeight        == <<Null, 0>>

InitialValue(at) == CASE at = MaxHeight -> 1
                      [] at # MaxHeight /\ at[1] = head_ -> Null
                      [] OTHER -> Uninit

StoresTo(at) == {t \in DOMAIN memory : memory[t].at = at}

ValueAt(at, t) == IF t = 0 THEN InitialValue(at) ELSE memory[t].value

Greatest(T) == CHOOSE t \in T : \A s \in T : s <= t

(* The times (0 for the initial value) a load may return the store of.     *)
Loads(at, view) ==
  LET known == {t \in StoresTo(at) \cup {0} : t <= view}
  IN  {Greatest(known)} \cup {t \in StoresTo(at) : t > view}

(* What the writer, who made all stores, loads.                            *)
Current(at) == ValueAt(at, Greatest(StoresTo(at) \cup {0}))

Idle == [height |-> 0, linked |-> 0, prev |-> <<>>]

NoRead == [pc |-> "out", op |-> "none", view |-> 0, snapshot |-> 0, target |-> Null,
           x |-> head_, level |-> 0, from |-> Null, node |-> Null, reads |-> 0]

Init == /\ nodes = <<>> /\ memory = <<>> /\ inserting = Idle
        /\ published = [sequence |-> 0, view |-> 0]
        /\ reader = NoRead

-----------------------------------------------------------------------------
(* Writer *)

(* The entry of node n comes before entry e (KeyIsAfterNode); null does    *)
(* not, and the key of the head is never looked at.                        *)
IsAfterNode(e, n) == n # Null /\ Before(nodes[n], e)

(* FindGreaterOrEqual's prev at each level, for the writer: the last node  *)
(* of the level's list that comes before e.                                *)
PrevOf(e) ==
  LET Ahead == {n \in DOMAIN nodes : Before(nodes[n], e)}
      At(level) == {n \in Ahead : StoresTo(NextOf(n, level)) # {}}
  IN  [level \in 0..(kMaxHeight - 1) |->
         IF At(level) = {} THEN head_
         ELSE CHOOSE n \in At(level) : \A m \in At(level) : ~Before(nodes[n], nodes[m])]

(* Add, and Insert up to its loop: the node is nobody else's yet, the      *)
(* height of the list is raised first.                                     *)
Add(k, type, height) ==
  LET e == InternalKey(k, Len(nodes) + 1, type)
  IN  /\ inserting = Idle /\ Len(nodes) < MaxEntries
      /\ nodes' = Append(nodes, e)
      /\ inserting' = [height |-> height, linked |-> 0, prev |-> PrevOf(e)]
      /\ memory' = IF height > Current(MaxHeight)
                   THEN Append(memory, [at |-> MaxHeight, value |-> height]) ELSE memory
      /\ UNCHANGED <<published, reader>>

(* The stores that link node x after prev.                                 *)
Linked(x, prev, level) ==
  <<[at |-> NextOf(x, level), value |-> Current(NextOf(prev, level))],
    [at |-> NextOf(prev, level), value |-> x]>>

(* A pass of the loop of Insert.                                           *)
Link ==
  LET level == inserting.linked
  IN  /\ inserting.height > level
      /\ memory' = memory \o Linked(Len(nodes), inserting.prev[level], level)
      /\ inserting' = IF level + 1 = inserting.height THEN Idle
                      ELSE [inserting EXCEPT !.linked = @ + 1]
      /\ UNCHANGED <<nodes, published, reader>>

(* Mistake: the sequence is published before the batch is inserted.        *)
AddedSoFar == Len(nodes)

(* The last sequence of the batch that has been inserted.                  *)
Inserted == IF inserting = Idle THEN Len(nodes) ELSE published.sequence

(* SetLastSequence, under the mutex, after a batch of any size.            *)
SetLastSequence ==
  /\ Inserted > published.sequence
  /\ published' = [sequence |-> Inserted, view |-> Len(memory)]
  /\ UNCHANGED <<nodes, memory, inserting, reader>>

-----------------------------------------------------------------------------
(* Reader *)

(* Get or NewIterator, under the mutex: the snapshot is the last sequence. *)
NewReader ==
  /\ reader.pc = "out"
  /\ reader' = [reader EXCEPT !.pc = "at", !.view = published.view,
                              !.snapshot = published.sequence]
  /\ UNCHANGED <<nodes, memory, inserting, published>>

(* A search begins at the head, on a level below some value of max_height_.*)
Search(op, target) ==
  /\ reader.pc = "at" /\ reader.reads < MaxReads
  /\ \E t \in Loads(MaxHeight, reader.view) :
       reader' = [reader EXCEPT !.pc = "searching", !.op = op, !.target = target, !.x = head_,
                                !.from = reader.node, !.reads = @ + 1,
                                !.level = ValueAt(MaxHeight, t) - 1]
  /\ UNCHANGED <<nodes, memory, inserting, published>>

Seek(e)    == Search("seek", e)
Get(k)     == Search("get", LookupKey(k, reader.snapshot))
Prev       == reader.node # Null /\ Search("prev", nodes[reader.node])
SeekToLast == Search("last", Null)

(* FindGreaterOrEqual, FindLessThan and FindLast go on at next while ...   *)
GoesOn(next) ==
  IF reader.op = "last" THEN next # Null ELSE IsAfterNode(reader.target, next)

(* What they return at the bottom, between x and next.                     *)
Arrived(next) ==
  IF reader.op \in {"seek", "get"} THEN next
  ELSE IF reader.x = head_ THEN Null ELSE reader.x

(* One load of a search.                                                   *)
Step ==
  /\ reader.pc = "searching"
  /\ \E t \in Loads(NextOf(reader.x, reader.level), reader.view) :
       LET next == ValueAt(NextOf(reader.x, reader.level), t)
           seen == [reader EXCEPT !.view = IF t > @ THEN t ELSE @]
       IN  reader' = CASE next = Uninit -> [seen EXCEPT !.pc = "wild"]
                       [] next # Uninit /\ GoesOn(next) -> [seen EXCEPT !.x = next]
                       [] next # Uninit /\ ~GoesOn(next) /\ reader.level > 0 ->
                            [seen EXCEPT !.level = @ - 1]
                       [] OTHER -> [seen EXCEPT !.pc = "at", !.node = Arrived(next)]
  /\ UNCHANGED <<nodes, memory, inserting, published>>

(* SeekToFirst and Next are one load.                                      *)
Follow(op, n) ==
  /\ reader.pc = "at" /\ reader.reads < MaxReads
  /\ \E t \in Loads(NextOf(n, 0), reader.view) :
       reader' = [reader EXCEPT !.view = IF t > @ THEN t ELSE @, !.reads = @ + 1, !.op = op,
                                !.from = reader.node, !.node = ValueAt(NextOf(n, 0), t),
                                !.pc = IF ValueAt(NextOf(n, 0), t) = Uninit
                                       THEN "wild" ELSE "at"]
  /\ UNCHANGED <<nodes, memory, inserting, published>>

SeekToFirst  == Follow("first", head_)
NextPosition == reader.node # Null /\ Follow("next", reader.node)

Next == \/ \E k \in UserKeys, type \in Types, h \in 1..kMaxHeight :
             Add(k, type, h)
        \/ Link \/ SetLastSequence
        \/ NewReader
        \/ \E k \in UserKeys : Get(k) \/ Seek(LookupKey(k, reader.snapshot))
        \/ SeekToFirst \/ NextPosition \/ Prev \/ SeekToLast
        \/ Step

Spec == Init /\ [][Next]_vars

-----------------------------------------------------------------------------
(* Properties *)

Visible == {nodes[n] : n \in 1..reader.snapshot}

(* A get returns what it would return if the memtable were the entries of  *)
(* its snapshot, whatever is being inserted.                               *)
GetSeesItsSnapshot ==
  reader.pc = "at" /\ reader.op = "get" =>
    LET ik    == reader.target
        found == IF reader.node = Null THEN {}
                 ELSE {e \in {nodes[reader.node]} : e.key = ik.key}
    IN  found = SeekEntry(Visible, ik)

(* An iterator moves the way it was asked to and passes over no entry of   *)
(* its snapshot.                                                           *)
WalksInOrder ==
  LET at      == nodes[reader.node]
      from    == nodes[reader.from]
      AtEnd   == reader.node = Null
      Passed(e) ==
        CASE reader.op = "first" -> AtEnd \/ Before(e, at)
          [] reader.op = "last"  -> AtEnd \/ Before(at, e)
          [] reader.op = "next"  -> Before(from, e) /\ (AtEnd \/ Before(e, at))
          [] reader.op = "prev"  -> Before(e, from) /\ (AtEnd \/ Before(at, e))
          [] reader.op \in {"seek", "get"} ->
               ~Before(e, reader.target) /\ (AtEnd \/ Before(e, at))
          [] OTHER -> FALSE
  IN  reader.pc = "at" =>
        /\ \A e \in Visible : ~Passed(e)
        /\ ~AtEnd => /\ reader.op = "next" => Before(from, at)
                     /\ reader.op = "prev" => Before(at, from)
                     /\ reader.op = "seek" => ~Before(at, reader.target)

(* No reader follows a link that has not been set.                         *)
LinksAreSet == reader.pc # "wild"

(* A reader without a lock finds what its snapshot holds, in order.        *)
ReaderSeesSnapshot == GetSeesItsSnapshot /\ WalksInOrder /\ LinksAreSet
=============================================================================
