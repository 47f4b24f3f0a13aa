------------------------------- MODULE Cursor -------------------------------
(***************************************************************************)
(* What an iterator over a database promises (include/leveldb/iterator.h): *)
(* to show the keys of its snapshot with their values, each once, in order,*)
(* both ways.                                                              *)
(***************************************************************************)
EXTENDS Integers

CONSTANT Keys       \* numbers, from 1

VARIABLES contents, \* the value of each key, 0 for those that have none
          at,       \* where the iterator is, 0 when it is not valid
          shows     \* the value it shows there, or 0

vars == <<contents, at, shows>>

Present == {k \in Keys : contents[k] # 0}

LeastOf(S)    == IF S = {} THEN 0 ELSE CHOOSE k \in S : \A j \in S : k <= j
GreatestOf(S) == IF S = {} THEN 0 ELSE CHOOSE k \in S : \A j \in S : j <= k

Init == contents \in [Keys -> Nat] /\ at = 0 /\ shows = 0

MovesTo(k) == /\ at' = k
              /\ shows' = IF k = 0 THEN 0 ELSE contents[k]
              /\ UNCHANGED contents

SeekToFirst == MovesTo(LeastOf(Present))
SeekToLast  == MovesTo(GreatestOf(Present))
Seek(k)     == MovesTo(LeastOf({j \in Present : j >= k}))
Next_       == at # 0 /\ MovesTo(LeastOf({j \in Present : j > at}))
Prev        == at # 0 /\ MovesTo(GreatestOf({j \in Present : j < at}))

Next == SeekToFirst \/ SeekToLast \/ Next_ \/ Prev \/ \E k \in Keys : Seek(k)

Spec == Init /\ [][Next]_vars
=============================================================================
