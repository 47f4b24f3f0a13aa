----------------------------- MODULE MCRecovery -----------------------------
(***************************************************************************)
(* Few writes, crashes and files for TLC.  A run checks several instances: *)
(* two crashes; one crash, an error of the file system and an iterator     *)
(* that keeps a version; two crashes when logs are reused; a database that *)
(* is created, by processes that may be killed; and one that is repaired,  *)
(* with two crashes, when its descriptor is lost and when it is not.       *)
(*                                                                         *)
(* With reuse_logs, Open takes over the manifest and removes what its last *)
(* record drops, but does not sync it.  When a process was killed before   *)
(* the sync of that record, a failure of the machine can now take it, and  *)
(* the data of the removed files.  So with reuse_logs either processes are *)
(* killed anywhere and the machine does not fail, or it may fail and they  *)
(* are not killed just before that sync.                                   *)
(***************************************************************************)
EXTENDS Recovery

VARIABLES instance,
          repairing, logs_, table_numbers_, manifests_, next_number, repairs, losses

repairVars == <<repairing, logs_, table_numbers_, manifests_, next_number, repairs, losses>>

ErrorAndIterator == INSTANCE Recovery WITH MaxWrites <- 2, MaxCrashes <- 1, MaxErrors <- 1,
                                           MaxPins <- 1, MaxFile <- 9
ReusedLogs       == INSTANCE Recovery WITH ReuseLogs <- TRUE, MaxFile <- 7

RecordUnsynced == applying = "sync"

(* NewDB does not sync its manifest: failures of the machine are left out. *)
Created == INSTANCE Recovery WITH Fresh <- TRUE, MaxWrites <- 2, MaxFile <- 7

Repaired == INSTANCE Repair WITH MaxWrites <- 2, MaxFile <- 6, MaxRepairs <- 1,
                                 MaxLosses <- 1

In(name) == instance = name /\ UNCHANGED instance

RecoveryNext ==
  \/ In("crashes") /\ Next /\ UNCHANGED repairVars
  \/ In("error and iterator") /\ ErrorAndIterator!Next /\ UNCHANGED repairVars
  \/ /\ In("reused logs, kills")
     /\ ReusedLogs!Step \/ ReusedLogs!Kill
     /\ UNCHANGED repairVars
  \/ /\ In("reused logs, failures")
     /\ ReusedLogs!Step \/ ReusedLogs!PowerFailure \/ (ReusedLogs!Kill /\ ~RecordUnsynced)
     /\ UNCHANGED repairVars
  \/ In("created") /\ (Created!Step \/ Created!Kill) /\ UNCHANGED repairVars
  \/ In("repaired") /\ Repaired!NextRepair

RecoveryInit ==
  /\ \/ Init /\ instance \in {"crashes", "error and iterator", "reused logs, kills",
                              "reused logs, failures", "repaired"}
     \/ Created!Init /\ instance = "created"
  /\ Repaired!InitRepair

RecoverySpec == RecoveryInit /\ [][RecoveryNext]_<<vars, instance, repairVars>>

(* No file that somebody needs is missing, when the database is open or    *)
(* when it is opened, but a descriptor that was taken away.                *)
NothingMissing ==
  FilesExist /\ IF instance = "repaired" THEN Repaired!OnlyDescriptorIsLost ELSE NeverCorrupt
=============================================================================
