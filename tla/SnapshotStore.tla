---------------------------- MODULE SnapshotStore ----------------------------
(***************************************************************************)
(* What the engine promises its callers, whatever it does in the           *)
(* background: a map from keys to values in which a write changes one key, *)
(* and snapshots that keep showing the map as it was when they were taken. *)
(* A value is the number of the write that stored it, 0 is no value.       *)
(***************************************************************************)
EXTENDS Integers, Sequences

CONSTANT Keys

VARIABLES writes,   \* the number of writes so far
          latest,   \* what a read of a key returns now
          views     \* for each live snapshot, oldest first, what it shows

vars == <<writes, latest, views>>

Init == writes = 0 /\ latest = [k \in Keys |-> 0] /\ views = <<>>

(* A put or a deletion.                                                    *)
Write(k) == /\ writes' = writes + 1
            /\ \E v \in {writes', 0} : latest' = [latest EXCEPT ![k] = v]
            /\ UNCHANGED views

GetSnapshot == views' = Append(views, latest) /\ UNCHANGED <<writes, latest>>

ReleaseSnapshot(i) ==
  /\ views' = SubSeq(views, 1, i - 1) \o SubSeq(views, i + 1, Len(views))
  /\ UNCHANGED <<writes, latest>>

Next == \/ \E k \in Keys : Write(k)
        \/ GetSnapshot
        \/ \E i \in DOMAIN views : ReleaseSnapshot(i)

Spec == Init /\ [][Next]_vars
==============================================================================
