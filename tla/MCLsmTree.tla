------------------------------ MODULE MCLsmTree ------------------------------
(***************************************************************************)
(* Small trees for TLC.  A run checks several instances: no snapshots and  *)
(* both types of entries; snapshots and values only; compactions of all    *)
(* keys that are asked for; reads that charge files, with more keys to a   *)
(* file; and a longer history of two keys without snapshots, without       *)
(* deletions, and with both.  Instances with the same shape of a tree      *)
(* share an INSTANCE and restrict its steps.                               *)
(***************************************************************************)
EXTENDS LsmTree

LevelBytes == [level \in Levels |-> IF level <= 1 THEN 1 ELSE 3]
BothTypes == {kTypeDeletion, kTypeValue}

Everything(level) == [level |-> level, begin |-> BeforeAll, end |-> AfterAll,
                      registered |-> TRUE]

VARIABLE instance

Short == INSTANCE LsmTree WITH MaxWrites <- 5, MaxSnapshots <- 2, MaxReaders <- 0,
                               ManualRequests <- {Everything(1), Everything(2)}
Seeks == INSTANCE LsmTree WITH MaxFileSize <- 2, WriteBufferSize <- 2, MaxWrites <- 6,
                               MaxSnapshots <- 0, ManualRequests <- {},
                               WriteTypes <- {kTypeValue}

(* A history of six writes to two keys, whose entries may be written or    *)
(* deleted, and in which a compaction may leave the older of two versions  *)
(* of a key in a file of its own.                                          *)
RoomyLevels == [level \in Levels |-> 9]
ScriptKeys == <<2, 2, 1, 2, 1, 1>>

Long == INSTANCE LsmTree WITH kL0_CompactionTrigger <- 1, kMaxMemCompactLevel <- 1,
                              MaxFileSize <- 2, MaxGrandParentOverlapBytes <- 9,
                              MaxBytesForLevel <- RoomyLevels, WriteBufferSize <- 2,
                              MaxWrites <- 6, MaxSnapshots <- 1, MaxReaders <- 0,
                              ManualRequests <- {}

In(names) == instance \in names /\ UNCHANGED instance

InScript     == \A e \in mem' : e.key = ScriptKeys[SequenceOf(e)]
OnlyTwoKeys  == \A e \in mem' : e.key # KeyMax
OnlyValues   == \A e \in mem' : TypeOf(e) = kTypeValue
NoSnapshots  == snapshots' = <<>>
AtMost(n)    == last_sequence' <= n

ShortStep == /\ In({"alone", "values", "manual"})
             /\ Short!Step \/ Short!Observe
             /\ OnlyTwoKeys
             /\ instance = "alone"  => NoSnapshots /\ manual' = {}
             /\ instance = "values" => OnlyValues /\ manual' = {} /\ AtMost(4)
             /\ instance = "manual" => NoSnapshots /\ AtMost(3)

LongStep == /\ In({"script alone", "script values", "script both"})
            /\ Long!Step \/ Long!Observe
            /\ InScript
            /\ instance = "script alone"  => NoSnapshots
            /\ instance = "script values" => OnlyValues

SeeksStep == In({"seeks"}) /\ (Seeks!Step \/ Seeks!Observe)

(* The abstract store is not claimed to follow the readers where snapshots *)
(* and deletions meet and entries may come back.                           *)
TreeNext == /\ ShortStep \/ LongStep \/ SeeksStep
            /\ IF instance = "script both" THEN UNCHANGED reads ELSE reads' = Readings
            /\ seen' = Sights

TreeInit == Init /\ instance \in {"alone", "values", "manual", "seeks", "script alone",
                                 "script values", "script both"}

TreeSpec == TreeInit /\ [][TreeNext]_<<vars, instance>>

(* The same history with the readers, on three levels.                     *)
ScriptNext == Next /\ UNCHANGED instance /\ InScript

ScriptSpec == /\ Init /\ instance = "script"
              /\ [][ScriptNext]_<<vars, instance>>
=============================================================================
