---------------------------- MODULE MCWriteQueue ----------------------------
(***************************************************************************)
(* Writers for TLC: a and b, s that syncs, n with a null batch.  A run     *)
(* checks two instances, each from the initial state on: in "groups" all   *)
(* four write and the file system may fail; in "manual" a caller of        *)
(* CompactRange meets three of them.                                       *)
(***************************************************************************)
EXTENDS WriteQueue, TLC

CONSTANTS a, b, s, n

VARIABLE instance

Manual == INSTANCE WriteQueue WITH MaxErrors <- 0, MaxRounds <- 2

In(name) == instance = name /\ UNCHANGED instance

QueueNext == \/ In("groups") /\ Next
             \/ In("manual") /\ Manual!Next /\ pc'[b] = "idle"

(* The fairness of WriteQueue, in each instance for its own steps.         *)
Either(A, B) == (instance = "groups" /\ A) \/ (instance = "manual" /\ B)

QueueInit == Init /\ instance \in {"groups", "manual"}

QueueSpec ==
  /\ QueueInit
  /\ [][QueueNext]_<<vars, instance>>
  /\ \A w \in Writers : WF_vars(Either(WriterStep(w), Manual!WriterStep(w)))
  /\ WF_vars(Either(BackgroundStep, Manual!BackgroundStep))
  /\ SF_vars(Either(EndCompaction, Manual!EndCompaction))
  /\ WF_vars(Either(CompactRangeTurn, Manual!CompactRangeTurn))
  /\ WF_vars(Either(Close, Manual!Close))

(* Every call returns, whatever fails and whoever leads.                   *)
CallsReturn == WritersReturn /\ CompactRangeReturns /\ DestructorReturns
=============================================================================
