---------------------------- MODULE MCIterators -----------------------------
(***************************************************************************)
(* LevelDB's iterators: over a memtable that grows, over the entries of    *)
(* memtables and files, and over the blocks of a table.  They share no     *)
(* state: a behaviour is one of them, and the others stay as they are.     *)
(***************************************************************************)
EXTENDS MemTable, TwoLevelIterator

(* Every history of n writes to some keys.                                 *)
Histories(n, keys) ==
  {[s \in 1..n |-> InternalKey(w[s][1], s, w[s][2])] :
     w \in [1..n -> keys \X {kTypeDeletion, kTypeValue}]}

SomeHistories == Histories(3, 1..3) \cup Histories(4, {2})

VARIABLES part, runs, sequence_, it

dbVars == <<runs, sequence_, it>>

ASSUME MemTableAssumption == Bounds

Db == INSTANCE DBIter WITH Children <- {1, 2}, Written <- SomeHistories, MaxInserts <- 4

(* Blocks of one, two and three entries, with room between them.           *)
SomeBlocks == <<<<2, 4>>, <<6>>, <<8, 9, 11>>>>

In(name) == part = name /\ UNCHANGED part

IteratorsInit ==
  /\ Init /\ InitBlocks
  /\ \/ part = "db" /\ Db!Init
     \/ /\ part \in {"blocks", "memtable"}
        /\ runs = [c \in {1, 2} |-> {}] /\ sequence_ = 0 /\ it = Db!InitialIterator
  /\ part # "blocks" => index_iter_.bad = 0

(* The memtable gets entries of two keys; the reader looks for three.      *)
OnlyTwoKeys == \A n \in DOMAIN nodes' : nodes'[n].key # KeyMax

IteratorsNext ==
  \/ In("memtable") /\ Next /\ OnlyTwoKeys /\ UNCHANGED <<dbVars, blockVars>>
  \/ In("db")       /\ Db!Next    /\ UNCHANGED <<vars, blockVars>>
  \/ In("blocks")   /\ NextBlocks /\ UNCHANGED <<vars, dbVars>>

IteratorsSpec == IteratorsInit /\ [][IteratorsNext]_<<part, vars, dbVars, blockVars>>

(* Over a changing memtable the iterator is a cursor over its snapshot.    *)
IsCursorOfSnapshot == Db!ImplementsCursor
=============================================================================
