----------------------------- MODULE OrderedFeed -----------------------------
(***************************************************************************)
(* What the paged feed promises while a page's images arrive promptly:     *)
(* the entries shown are a growing prefix, in key order and without        *)
(* repetition, of the entries of the database that can be displayed.       *)
(***************************************************************************)
EXTENDS Integers, Sequences

CONSTANTS
  Keys,         \* the keys entries can have
  Displayable   \* those whose entry decodes to a row

VARIABLES
  server,       \* the keys in the database
  feed          \* the keys shown, from top to bottom

Init == server \subseteq Keys /\ feed = <<>>

Last == IF feed = <<>> THEN 0 ELSE feed[Len(feed)]

(* New entries come after all the others. *)
Publish ==
  \E k \in Keys \ server :
    /\ \A j \in server : j < k
    /\ server' = server \cup {k}
    /\ UNCHANGED feed

(* The feed grows at its end, by the very next displayable entries.        *)
Extend ==
  /\ UNCHANGED server
  /\ Len(feed') > Len(feed)
  /\ \A i \in 1..Len(feed) : feed'[i] = feed[i]
  /\ LET more == {feed'[i] : i \in (Len(feed) + 1)..Len(feed')}
     IN  /\ more = {k \in server \cap Displayable : Last < k /\ k <= feed'[Len(feed')]}
         /\ \A i \in (Len(feed) + 1)..(Len(feed') - 1) : feed'[i] < feed'[i + 1]

Next == Publish \/ Extend

Spec == Init /\ [][Next]_<<server, feed>>
=============================================================================
