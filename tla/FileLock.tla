------------------------------ MODULE FileLock ------------------------------
(***************************************************************************)
(* The lock that keeps a database to one user (util/env_posix.cc: LockFile,*)
(* UnlockFile, PosixLockTable; db/db_impl.cc: DestroyDB): a POSIX record   *)
(* lock on the LOCK file, for other processes, and a table of names, for   *)
(* the threads of this one.  Each system call and each use of the table is *)
(* a step; a process may end at any point.                                 *)
(*                                                                         *)
(* A record lock belongs to a process and a file, whatever name the file   *)
(* has, and goes when the process closes any descriptor of that file.      *)
(***************************************************************************)
EXTENDS FiniteSets

CONSTANTS Threads, Processes,
          Home,          \* the process of a thread
          Inodes,        \* files the name LOCK may lead to, one after another
          NoOne, NoInode,
          Serial,        \* does a process make one call at a time, and
                         \* only while it does not hold the lock
          MayDestroy     \* is DestroyDB called

ASSUME HomeAssumption   == Home \in [Threads -> Processes]
ASSUME NoOneAssumption  == NoOne \notin Processes /\ NoInode \notin Inodes
ASSUME SwitchAssumption == Serial \in BOOLEAN /\ MayDestroy \in BOOLEAN

VARIABLES file,          \* the inode the name LOCK leads to
          writeLock,     \* for each inode, the process that has its record lock
          locked_files_, \* for each process, is the name in its PosixLockTable
          at,            \* what each thread has done
          fd,            \* the inode of its descriptor
          destroys,      \* is it in DestroyDB
          leaked         \* for each process, the inodes of the descriptors
                         \* that an UnlockFile which failed left open

vars == <<file, writeLock, locked_files_, at, fd, destroys, leaked>>

(* In LockFile; with the lock; in UnlockFile; and, in DestroyDB, after it. *)
Stages == {"idle", "opened", "refused", "inserted", "denied", "closed",
           "holds", "unset", "removed", "unlinks"}

TypeOK == /\ file \in Inodes \cup {NoInode}
          /\ writeLock \in [Inodes -> Processes \cup {NoOne}]
          /\ locked_files_ \in [Processes -> BOOLEAN]
          /\ at \in [Threads -> Stages]
          /\ fd \in [Threads -> Inodes \cup {NoInode}]
          /\ destroys \in [Threads -> BOOLEAN]
          /\ leaked \in [Processes -> SUBSET Inodes]

Init == /\ file = NoInode
        /\ writeLock = [i \in Inodes |-> NoOne]
        /\ locked_files_ = [p \in Processes |-> FALSE]
        /\ at = [t \in Threads |-> "idle"]
        /\ fd = [t \in Threads |-> NoInode]
        /\ destroys = [t \in Threads |-> FALSE]
        /\ leaked = [p \in Processes |-> {}]

Siblings(t) == {u \in Threads : Home[u] = Home[t]}

-----------------------------------------------------------------------------
(* close() of t's descriptor.                                              *)
Closes(t) ==
  /\ fd' = [fd EXCEPT ![t] = NoInode]
  /\ writeLock' = [i \in Inodes |-> IF i = fd[t] /\ writeLock[i] = Home[t]
                                    THEN NoOne ELSE writeLock[i]]

GoesTo(t, stage) == at' = [at EXCEPT ![t] = stage]

Names(t, yes) == locked_files_' = [locked_files_ EXCEPT ![Home[t]] = yes]

(* open() with O_CREAT: the file, made anew where the name leads nowhere.  *)
Open(t, i) ==
  /\ at[t] = "idle"
  /\ Serial => \A u \in Siblings(t) : at[u] = "idle"
  /\ IF file = NoInode
     THEN (\A u \in Threads : fd[u] # i) /\ (\A p \in Processes : i \notin leaked[p])
     ELSE i = file
  /\ file' = i
  /\ fd' = [fd EXCEPT ![t] = i]
  /\ \E yes \in BOOLEAN : /\ yes => MayDestroy
                          /\ destroys' = [destroys EXCEPT ![t] = yes]
  /\ GoesTo(t, "opened")
  /\ UNCHANGED <<writeLock, locked_files_, leaked>>

(* Mistake: the name is entered whether or not it was there.               *)
InsertAnyway(t) ==
  /\ at[t] = "opened"
  /\ GoesTo(t, "inserted")
  /\ Names(t, TRUE)
  /\ UNCHANGED <<file, writeLock, fd, destroys, leaked>>

(* locks_.Insert.                                                          *)
Insert(t) ==
  /\ at[t] = "opened"
  /\ GoesTo(t, IF locked_files_[Home[t]] THEN "refused" ELSE "inserted")
  /\ Names(t, TRUE)
  /\ UNCHANGED <<file, writeLock, fd, destroys, leaked>>

CloseRefused(t) ==
  /\ at[t] = "refused"
  /\ Closes(t)
  /\ GoesTo(t, "idle")
  /\ UNCHANGED <<file, locked_files_, destroys, leaked>>

(* Mistake: a lock that another process has counts as taken.               *)
SetLockAnyway(t) ==
  /\ at[t] = "inserted"
  /\ writeLock' = [writeLock EXCEPT ![fd[t]] = IF @ = NoOne THEN Home[t] ELSE @]
  /\ GoesTo(t, "holds")
  /\ UNCHANGED <<file, locked_files_, fd, destroys, leaked>>

(* LockOrUnlock(fd, true): F_SETLK does not wait.                          *)
SetLock(t) ==
  /\ at[t] = "inserted"
  /\ IF writeLock[fd[t]] \in {NoOne, Home[t]}
     THEN /\ writeLock' = [writeLock EXCEPT ![fd[t]] = Home[t]]
          /\ GoesTo(t, "holds")
     ELSE /\ GoesTo(t, "denied")
          /\ UNCHANGED writeLock
  /\ UNCHANGED <<file, locked_files_, fd, destroys, leaked>>

CloseDenied(t) ==
  /\ at[t] = "denied"
  /\ Closes(t)
  /\ GoesTo(t, "closed")
  /\ UNCHANGED <<file, locked_files_, destroys, leaked>>

(* Mistake: the name of a lock that was denied stays in the table.         *)
KeepDenied(t) ==
  /\ at[t] = "closed"
  /\ GoesTo(t, "idle")
  /\ UNCHANGED <<file, writeLock, locked_files_, fd, destroys, leaked>>

(* locks_.Remove, after a lock that another process has.                   *)
RemoveDenied(t) ==
  /\ at[t] = "closed"
  /\ Names(t, FALSE)
  /\ GoesTo(t, "idle")
  /\ UNCHANGED <<file, writeLock, fd, destroys, leaked>>

(* UnlockFile: LockOrUnlock(fd, false), locks_.Remove and close().         *)
Unset(t) ==
  /\ at[t] = "holds"
  /\ writeLock' = [writeLock EXCEPT ![fd[t]] = IF @ = Home[t] THEN NoOne ELSE @]
  /\ GoesTo(t, "unset")
  /\ UNCHANGED <<file, locked_files_, fd, destroys, leaked>>

(* F_SETLK fails, whatever became of the record lock: UnlockFile returns   *)
(* without locks_.Remove and close(), and neither ~DBImpl nor DestroyDB    *)
(* looks at its status.                                                    *)
UnsetFails(t) ==
  /\ at[t] = "holds"
  /\ \/ UNCHANGED writeLock
     \/ writeLock' = [writeLock EXCEPT ![fd[t]] = IF @ = Home[t] THEN NoOne ELSE @]
  /\ leaked' = [leaked EXCEPT ![Home[t]] = @ \cup {fd[t]}]
  /\ fd' = [fd EXCEPT ![t] = NoInode]
  /\ GoesTo(t, IF destroys[t] THEN "unlinks" ELSE "idle")
  /\ UNCHANGED <<file, locked_files_, destroys>>

Remove(t) ==
  /\ at[t] = "unset"
  /\ Names(t, FALSE)
  /\ GoesTo(t, "removed")
  /\ UNCHANGED <<file, writeLock, fd, destroys, leaked>>

Close(t) ==
  /\ at[t] = "removed"
  /\ Closes(t)
  /\ GoesTo(t, IF destroys[t] THEN "unlinks" ELSE "idle")
  /\ UNCHANGED <<file, locked_files_, destroys, leaked>>

(* DestroyDB deletes the LOCK file, by its name.                           *)
Unlink(t) ==
  /\ at[t] = "unlinks"
  /\ file' = NoInode
  /\ GoesTo(t, "idle")
  /\ UNCHANGED <<writeLock, locked_files_, fd, destroys, leaked>>

(* A process ends: its descriptors and locks go, and it starts anew.       *)
Exit(p) ==
  /\ at' = [t \in Threads |-> IF Home[t] = p THEN "idle" ELSE at[t]]
  /\ fd' = [t \in Threads |-> IF Home[t] = p THEN NoInode ELSE fd[t]]
  /\ writeLock' = [i \in Inodes |-> IF writeLock[i] = p THEN NoOne ELSE writeLock[i]]
  /\ locked_files_' = [locked_files_ EXCEPT ![p] = FALSE]
  /\ leaked' = [leaked EXCEPT ![p] = {}]
  /\ UNCHANGED <<file, destroys>>

Step(t) == \/ \E i \in Inodes : Open(t, i)
           \/ Insert(t) \/ CloseRefused(t)
           \/ SetLock(t) \/ CloseDenied(t) \/ RemoveDenied(t)
           \/ Unset(t) \/ UnsetFails(t) \/ Remove(t) \/ Close(t) \/ Unlink(t)

Next == (\E t \in Threads : Step(t)) \/ (\E p \in Processes : Exit(p))

Spec == Init /\ [][Next]_vars

-----------------------------------------------------------------------------
(* Properties *)

(* Within a process the table gives the lock to one thread, whatever the   *)
(* others do between their system calls and whenever files come and go     *)
(* (PosixLockTable: "fcntl(F_SETLK) does not provide any protection        *)
(* against multiple uses from the same process").                          *)
OneThreadOfProcess ==
  \A t \in Threads : \A u \in Siblings(t) : at[t] = "holds" /\ at[u] = "holds" => t = u

(* A process none of whose threads is in a call or has the lock has left   *)
(* nothing behind that would refuse the next one, neither its name nor a   *)
(* record lock, unless an UnlockFile of it failed; and if one did, the     *)
(* name is there, and refuses it every lock, for as long as it runs.       *)
LeftOnlyByFailure ==
  \A p \in Processes :
    (\A t \in Threads : Home[t] = p => at[t] = "idle")
      => /\ locked_files_[p] <=> leaked[p] # {}
         /\ \A i \in Inodes : writeLock[i] = p => i \in leaked[p]

(* "Used to prevent concurrent access to the same db by multiple           *)
(* processes" (include/leveldb/env.h): no two threads, of one process or   *)
(* of two, have the lock.                                                  *)
OneHolder == \A t, u \in Threads : at[t] = "holds" /\ at[u] = "holds" => t = u
=============================================================================
