------------------------------- MODULE Repair -------------------------------
(***************************************************************************)
(* RepairDB (db/repair.cc): a new descriptor, made of the logs and tables  *)
(* that are left, for a database whose descriptor is lost or that is       *)
(* repaired for no reason.  It may be interrupted by a crash at any step,  *)
(* and is then taken to be repeated before the database is opened.         *)
(*                                                                         *)
(* A table without contents stands for one that was not finished: it has   *)
(* no footer and cannot be read.  Files that are archived are out of reach.*)
(* Nothing but crashes fails here: of what it cannot convert or copy       *)
(* RepairDB says that it "may have been lost".                             *)
(***************************************************************************)
EXTENDS Recovery

CONSTANTS MaxRepairs,   \* bound on the repairs that nobody had to make
          MaxLosses     \* bound on how often the descriptor is lost

VARIABLES repairing,    \* "no", the stage RepairDB is at, or "interrupted"
          logs_, table_numbers_, manifests_,   \* the files it found
          next_number,  \* its next_file_number_
          repairs, losses

repairerVars == <<logs_, table_numbers_, manifests_, next_number>>
boundVars    == <<repairs, losses>>
processVars  == <<replay, mem, imm, numbers, live, edit, applying, bg_error, history,
                  crashes, errors>>

InitRepair ==
  /\ repairing = "no"
  /\ logs_ = {} /\ table_numbers_ = {} /\ manifests_ = {} /\ next_number = 1
  /\ repairs = 0 /\ losses = 0

(* The manifests are lost, by no doing of the program.                     *)
LoseDescriptor ==
  /\ status = "down" /\ repairing = "no" /\ losses < MaxLosses
  /\ losses' = losses + 1
  /\ manifests' = <<>>
  /\ UNCHANGED <<CURRENT, logs, tables, status, processVars, repairing, repairerVars, repairs>>

(* The numbers of manifests do not count.  The database was opened before, *)
(* so that there is a log or a table.                                      *)
FindFiles ==
  /\ \/ status = "down" /\ repairing = "no" /\ repairs < MaxRepairs /\ repairs' = repairs + 1
     \/ (status = "corrupt" \/ repairing = "interrupted") /\ UNCHANGED repairs
  /\ DOMAIN logs \cup DOMAIN tables # {}
  /\ status' = "repair" /\ repairing' = "logs"
  /\ logs_' = DOMAIN logs
  /\ table_numbers_' = DOMAIN tables
  /\ manifests_' = DOMAIN manifests
  /\ next_number' = 1 + CHOOSE n \in DOMAIN logs \cup DOMAIN tables :
                          \A m \in DOMAIN logs \cup DOMAIN tables : m <= n
  /\ UNCHANGED <<disk, processVars, losses>>

(* ConvertLogToTable: BuildTable opens a file if there is anything in the  *)
(* log; the directory gives the logs in any order.                         *)
BeginTable ==
  /\ repairing = "logs" /\ \E n \in logs_ : logs[n].records # <<>>
  /\ tables' = Put(tables, next_number, {})
  /\ repairing' = "build"
  /\ UNCHANGED <<CURRENT, manifests, logs, status, processVars, repairerVars, boundVars>>

(* The table is finished, synced and left to ExtractMetaData.              *)
ConvertLogToTable(n) ==
  /\ \/ /\ repairing = "logs" /\ logs[n].records = <<>>
        /\ UNCHANGED <<tables, table_numbers_>>
     \/ /\ repairing = "build" /\ logs[n].records # <<>>
        /\ tables' = [tables EXCEPT ![next_number] = Range(logs[n].records)]
        /\ table_numbers_' = table_numbers_ \cup {next_number}
  /\ next_number' = next_number + 1
  /\ logs_' = logs_ \ {n}
  /\ repairing' = "archive log"
  /\ UNCHANGED <<CURRENT, manifests, logs, status, processVars, manifests_, boundVars>>

(* ArchiveFile of the log that was converted, the one that is not in logs_ *)
(* any more.                                                               *)
ArchiveLog ==
  /\ repairing = "archive log"
  /\ logs' = Restrict(logs, logs_)
  /\ repairing' = "logs"
  /\ UNCHANGED <<CURRENT, manifests, tables, status, processVars, repairerVars, boundVars>>

(* ExtractMetaData: ScanTable finds a table that cannot be read, and       *)
(* RepairTable archives it; its copy is empty, abandoned and stays behind. *)
RepairTable(n) ==
  /\ repairing = "logs" /\ logs_ = {}
  /\ n \in table_numbers_ /\ tables[n] = {}
  /\ tables' = Put(Restrict(tables, DOMAIN tables \ {n}), next_number, {})
  /\ next_number' = next_number + 1
  /\ table_numbers_' = table_numbers_ \ {n}
  /\ UNCHANGED <<CURRENT, manifests, logs, status, processVars, repairing, logs_,
                 manifests_, boundVars>>

(* WriteDescriptor: the new manifest is in a temporary file.               *)
WriteDescriptor ==
  /\ repairing = "logs" /\ logs_ = {}
  /\ \A n \in table_numbers_ : tables[n] # {}
  /\ repairing' = "descriptor"
  /\ UNCHANGED <<disk, status, processVars, repairerVars, boundVars>>

ArchiveManifest(n) ==
  /\ repairing = "descriptor" /\ n \in manifests_
  /\ manifests' = Restrict(manifests, DOMAIN manifests \ {n})
  /\ manifests_' = manifests_ \ {n}
  /\ UNCHANGED <<CURRENT, logs, tables, status, processVars, repairing, logs_,
                 table_numbers_, next_number, boundVars>>

MaxSequence(contents) ==
  IF contents = {} THEN 0 ELSE CHOOSE s \in contents : \A t \in contents : t <= s

(* Every table goes to level 0; the file is closed, not synced.            *)
RenameDescriptor ==
  /\ repairing = "descriptor" /\ manifests_ = {}
  /\ LET repaired == [add |-> table_numbers_, del |-> {}, log |-> 0, next |-> next_number,
                      seq |-> MaxSequence(UNION {tables[n] : n \in table_numbers_})]
     IN  manifests' = Put(manifests, 1, [edits |-> <<repaired>>, synced |-> 0])
  /\ repairing' = "current"
  /\ UNCHANGED <<CURRENT, logs, tables, status, processVars, repairerVars, boundVars>>

NameDescriptor ==
  /\ repairing = "current"
  /\ CURRENT' = 1
  /\ status' = "down" /\ repairing' = "no"
  /\ logs_' = {} /\ table_numbers_' = {} /\ manifests_' = {} /\ next_number' = 1
  /\ UNCHANGED <<manifests, logs, tables, processVars, boundVars>>

-----------------------------------------------------------------------------
Interrupted ==
  /\ repairing' = IF repairing = "no" THEN "no" ELSE "interrupted"
  /\ logs_' = {} /\ table_numbers_' = {} /\ manifests_' = {} /\ next_number' = 1
  /\ UNCHANGED boundVars

RepairStep ==
  \/ LoseDescriptor \/ FindFiles \/ BeginTable \/ ArchiveLog \/ WriteDescriptor
  \/ \E n \in logs_ : ConvertLogToTable(n)
  \/ \E n \in table_numbers_ : RepairTable(n)
  \/ \E n \in manifests_ : ArchiveManifest(n)
  \/ RenameDescriptor \/ NameDescriptor

NextRepair ==
  \/ RepairStep
  \/ /\ repairing # "interrupted" /\ Step
     /\ UNCHANGED <<repairing, repairerVars, boundVars>>
  \/ (Kill \/ PowerFailure) /\ Interrupted

SpecRepair ==
  Init /\ InitRepair /\ [][NextRepair]_<<vars, repairing, repairerVars, boundVars>>

-----------------------------------------------------------------------------
(* Properties *)

(* A database that cannot be opened has lost its descriptor: it was taken  *)
(* away, or it is the one RepairDB renames before anything synced it.  It  *)
(* is never opened with tables missing or a descriptor that is not whole.  *)
OnlyDescriptorIsLost ==
  status = "corrupt" => \/ CURRENT \notin DOMAIN manifests
                        \/ manifests[CURRENT].edits = <<>>
=============================================================================
