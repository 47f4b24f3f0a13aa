------------------------- MODULE EnvironmentProofs --------------------------
(***************************************************************************)
(* The environment of the databases: the lock on a database, the limits    *)
(* and background thread of PosixEnv, the files that are written, and the  *)
(* caches that keep tables open.                                           *)
(***************************************************************************)
EXTENDS FileLock, PosixEnv, WritableFile, TableCache,
        FiniteSetTheorems, SequenceTheorems, WellFoundedInduction, TLAPS

-----------------------------------------------------------------------------
(***************************************************************************)
(* FileLock for any threads, processes and files.                          *)
(***************************************************************************)

(* t entered the name in the table of its process and has not removed it.  *)
Owns(t) == at[t] \in {"inserted", "denied", "closed", "holds", "unset"}

OwnersInv ==
  /\ \A t \in Threads : Owns(t) => locked_files_[Home[t]]
  /\ \A t, u \in Threads : Home[t] = Home[u] /\ Owns(t) /\ Owns(u) => t = u
  /\ \A p \in Processes :
       leaked[p] # {} => locked_files_[p] /\ \A t \in Threads : Home[t] = p => ~Owns(t)

(* A name or a record lock is somebody's, or what a failing UnlockFile     *)
(* left.                                                                   *)
LeftInv ==
  /\ \A p \in Processes :
       locked_files_[p] => leaked[p] # {} \/ \E t \in Threads : Home[t] = p /\ Owns(t)
  /\ \A p \in Processes, i \in Inodes :
       writeLock[i] = p =>
         i \in leaked[p] \/ \E t \in Threads : Home[t] = p /\ at[t] = "holds" /\ fd[t] = i

(* A thread that has not closed its descriptor has one.                    *)
HasFile == \A t \in Threads : at[t] \in {"opened", "inserted", "holds", "unset"} => fd[t] \in Inodes

Inv == TypeOK /\ HasFile /\ OwnersInv /\ LeftInv

USE DEF Siblings

LEMMA TypeStep == TypeOK /\ HasFile /\ [Next]_vars => TypeOK' /\ HasFile'
  <1> SUFFICES ASSUME TypeOK, HasFile, [Next]_vars PROVE TypeOK' /\ HasFile'
    OBVIOUS
  <1> USE HomeAssumption DEF TypeOK, Stages, HasFile
  <1>1. ASSUME NEW t \in Threads, Step(t) PROVE TypeOK' /\ HasFile'
    <2>1. ASSUME NEW i \in Inodes, Open(t, i) PROVE TypeOK' /\ HasFile'
      BY <2>1 DEF Open, GoesTo
    <2>2. CASE Insert(t)
      BY <2>2 DEF Insert, GoesTo, Names
    <2>3. CASE CloseRefused(t) \/ CloseDenied(t) \/ Close(t)
      BY <2>3 DEF CloseRefused, CloseDenied, Close, Closes, GoesTo
    <2>4. CASE SetLock(t)
      BY <2>4 DEF SetLock, GoesTo
    <2>5. CASE RemoveDenied(t) \/ Remove(t)
      BY <2>5 DEF RemoveDenied, Remove, GoesTo, Names
    <2>6. CASE Unset(t)
      BY <2>6 DEF Unset, GoesTo
    <2>7. CASE UnsetFails(t)
      <3>1. fd[t] \in Inodes /\ Home[t] \in Processes
        BY <2>7 DEF UnsetFails
      <3>2. writeLock' \in [Inodes -> Processes \cup {NoOne}]
        BY <2>7 DEF UnsetFails
      <3>3. leaked' \in [Processes -> SUBSET Inodes]
        BY <2>7, <3>1 DEF UnsetFails
      <3> QED BY <2>7, <3>2, <3>3 DEF UnsetFails, GoesTo
    <2>8. CASE Unlink(t)
      BY <2>8 DEF Unlink, GoesTo
    <2> QED BY <1>1, <2>1, <2>2, <2>3, <2>4, <2>5, <2>6, <2>7, <2>8 DEF Step
  <1>2. ASSUME NEW p \in Processes, Exit(p) PROVE TypeOK' /\ HasFile'
    BY <1>2 DEF Exit
  <1>3. CASE UNCHANGED vars
    BY <1>3 DEF vars
  <1> QED BY <1>1, <1>2, <1>3 DEF Next

LEMMA OwnersStep == TypeOK /\ OwnersInv /\ [Next]_vars => OwnersInv'
  <1> SUFFICES ASSUME TypeOK, OwnersInv, [Next]_vars PROVE OwnersInv'
    OBVIOUS
  <1> USE HomeAssumption DEF TypeOK, OwnersInv, Owns
  <1>1. ASSUME NEW t \in Threads, Step(t) PROVE OwnersInv'
    <2>1. ASSUME NEW i \in Inodes, Open(t, i) PROVE OwnersInv'
      BY <2>1 DEF Open, GoesTo
    <2>2. CASE Insert(t)
      BY <2>2 DEF Insert, GoesTo, Names
    <2>3. CASE CloseRefused(t) \/ CloseDenied(t) \/ Close(t)
      BY <2>3 DEF CloseRefused, CloseDenied, Close, Closes, GoesTo
    <2>4. CASE SetLock(t)
      BY <2>4 DEF SetLock, GoesTo
    <2>5. CASE RemoveDenied(t) \/ Remove(t)
      BY <2>5 DEF RemoveDenied, Remove, GoesTo, Names
    <2>6. CASE Unset(t)
      BY <2>6 DEF Unset, GoesTo
    <2>7. CASE UnsetFails(t)
      BY <2>7 DEF UnsetFails, GoesTo
    <2>8. CASE Unlink(t)
      BY <2>8 DEF Unlink, GoesTo
    <2> QED BY <1>1, <2>1, <2>2, <2>3, <2>4, <2>5, <2>6, <2>7, <2>8 DEF Step
  <1>2. ASSUME NEW p \in Processes, Exit(p) PROVE OwnersInv'
    BY <1>2 DEF Exit
  <1>3. CASE UNCHANGED vars
    BY <1>3 DEF vars
  <1> QED BY <1>1, <1>2, <1>3 DEF Next

LEMMA LeftStep == Inv /\ [Next]_vars => LeftInv'
  <1> SUFFICES ASSUME Inv, [Next]_vars PROVE LeftInv'
    OBVIOUS
  <1> USE HomeAssumption, NoOneAssumption DEF HomeAssumption, NoOneAssumption
  <1> USE DEF Inv, TypeOK, OwnersInv, LeftInv, Owns
  <1>1. ASSUME NEW t \in Threads, Step(t) PROVE LeftInv'
    <2>1. ASSUME NEW i \in Inodes, Open(t, i) PROVE LeftInv'
      BY <2>1 DEF Open, GoesTo
    <2>2. CASE Insert(t)
      BY <2>2 DEF Insert, GoesTo, Names
    <2>3. CASE CloseRefused(t) \/ CloseDenied(t) \/ Close(t)
      <3> USE <2>3 DEF CloseRefused, CloseDenied, Close, Closes, GoesTo
      <3>1. /\ \A u \in Threads : u # t => at'[u] = at[u] /\ fd'[u] = fd[u]
            /\ at[t] # "holds" /\ (Owns(t) => Owns(t)')
            /\ locked_files_' = locked_files_ /\ leaked' = leaked
        OBVIOUS
      <3>2. \A i \in Inodes : writeLock'[i] = writeLock[i] \/ writeLock'[i] = NoOne
        OBVIOUS
      <3>3. ASSUME NEW p \in Processes, locked_files_'[p]
            PROVE  leaked'[p] # {} \/ \E u \in Threads : Home[u] = p /\ Owns(u)'
        <4>1. leaked[p] # {} \/ \E u \in Threads : Home[u] = p /\ Owns(u)
          BY <3>1, <3>3
        <4> QED BY <3>1, <4>1
      <3>4. ASSUME NEW p \in Processes, NEW i \in Inodes, writeLock'[i] = p
            PROVE  \/ i \in leaked'[p]
                   \/ \E u \in Threads : Home[u] = p /\ at'[u] = "holds" /\ fd'[u] = i
        <4>1. writeLock[i] = p
          BY <3>2, <3>4
        <4>2. \/ i \in leaked[p]
              \/ \E u \in Threads : Home[u] = p /\ at[u] = "holds" /\ fd[u] = i
          BY <4>1
        <4> QED BY <3>1, <4>2
      <3> QED BY <3>3, <3>4
    <2>4. CASE SetLock(t)
      <3> USE <2>4 DEF SetLock, GoesTo
      <3>1. /\ \A u \in Threads : Owns(u) => Owns(u)'
            /\ \A u \in Threads : at[u] = "holds" => at'[u] = "holds"
            /\ locked_files_' = locked_files_ /\ fd' = fd /\ leaked' = leaked
        OBVIOUS
      <3>2. \A p \in Processes :
              locked_files_'[p] => leaked'[p] # {} \/ \E u \in Threads : Home[u] = p /\ Owns(u)'
        BY <3>1
      <3>3. ASSUME NEW p \in Processes, NEW i \in Inodes, writeLock'[i] = p
            PROVE  \/ i \in leaked'[p]
                   \/ \E u \in Threads : Home[u] = p /\ at'[u] = "holds" /\ fd'[u] = i
        <4>1. CASE writeLock[i] = p
          BY <3>1, <4>1
        <4>2. CASE writeLock[i] # p
          <5>1. fd[t] = i /\ p = Home[t] /\ at'[t] = "holds"
            BY <3>3, <4>2
          <5> QED BY <3>1, <5>1
        <4> QED BY <4>1, <4>2
      <3> QED BY <3>2, <3>3
    <2>5. CASE RemoveDenied(t) \/ Remove(t)
      BY <2>5 DEF RemoveDenied, Remove, GoesTo, Names
    <2>6. CASE Unset(t)
      BY <2>6 DEF Unset, GoesTo
    <2>7. CASE UnsetFails(t)
      <3> USE <2>7 DEF UnsetFails, GoesTo
      <3>1. /\ \A u \in Threads : u # t => at'[u] = at[u] /\ fd'[u] = fd[u]
            /\ locked_files_' = locked_files_
            /\ at[t] = "holds" /\ Home[t] \in Processes /\ fd[t] \in leaked'[Home[t]]
            /\ \A p \in Processes : leaked[p] \subseteq leaked'[p]
            /\ \A i \in Inodes : writeLock'[i] = writeLock[i] \/ writeLock'[i] = NoOne
        BY DEF HasFile
      <3>2. ASSUME NEW p \in Processes, locked_files_'[p]
            PROVE  leaked'[p] # {} \/ \E u \in Threads : Home[u] = p /\ Owns(u)'
        <4>1. CASE p = Home[t]
          BY <3>1, <4>1
        <4>2. CASE p # Home[t]
          BY <3>1, <3>2, <4>2
        <4> QED BY <4>1, <4>2
      <3>3. ASSUME NEW p \in Processes, NEW i \in Inodes, writeLock'[i] = p
            PROVE  \/ i \in leaked'[p]
                   \/ \E u \in Threads : Home[u] = p /\ at'[u] = "holds" /\ fd'[u] = i
        <4>1. writeLock[i] = p
          BY <3>1, <3>3
        <4>2. \/ i \in leaked[p]
              \/ \E u \in Threads : Home[u] = p /\ at[u] = "holds" /\ fd[u] = i
          BY <4>1
        <4> QED BY <3>1, <4>2
      <3> QED BY <3>2, <3>3
    <2>8. CASE Unlink(t)
      BY <2>8 DEF Unlink, GoesTo
    <2> QED BY <1>1, <2>1, <2>2, <2>3, <2>4, <2>5, <2>6, <2>7, <2>8 DEF Step
  <1>2. ASSUME NEW p \in Processes, Exit(p) PROVE LeftInv'
    BY <1>2 DEF Exit
  <1>3. CASE UNCHANGED vars
    BY <1>3 DEF vars
  <1> QED BY <1>1, <1>2, <1>3 DEF Next

LEMMA InvHolds == Spec => []Inv
  <1>1. Init => Inv
    BY HomeAssumption, NoOneAssumption
    DEF HomeAssumption, NoOneAssumption, Init, Inv, TypeOK, HasFile, OwnersInv, LeftInv, Owns, Stages
  <1>2. Inv /\ [Next]_vars => Inv'
    BY TypeStep, OwnersStep, LeftStep DEF Inv
  <1> QED BY <1>1, <1>2, PTL DEF Spec

(* The table of a process gives the lock to one of its threads, for any    *)
(* number of threads and processes (PosixLockTable::Insert).               *)
THEOREM TableExcludes == Spec => []OneThreadOfProcess
  <1>1. Inv => OneThreadOfProcess
    BY DEF Inv, OwnersInv, Owns, OneThreadOfProcess
  <1> QED BY <1>1, InvHolds, PTL

(* Whatever is refused, closed or destroyed in between, a process whose    *)
(* threads are done has no name and no record lock left, unless an         *)
(* UnlockFile of it failed: then the name refuses it the lock until it     *)
(* ends (LockFile, UnlockFile, PosixLockTable).                            *)
THEOREM OnlyFailureLeaves == Spec => []LeftOnlyByFailure
  <1>1. Inv => LeftOnlyByFailure
    BY DEF Inv, TypeOK, OwnersInv, LeftInv, Owns, LeftOnlyByFailure
  <1> QED BY <1>1, InvHolds, PTL

-----------------------------------------------------------------------------
(* One call of a process at a time, and no DestroyDB.                      *)

AloneInv ==
  /\ \A t \in Threads : ~destroys[t] /\ at[t] # "unlinks"
  /\ \A t \in Threads : fd[t] # NoInode => fd[t] = file
  /\ \A t \in Threads : at[t] \in {"opened", "inserted", "holds"} => fd[t] # NoInode
  /\ \A t, u \in Threads :
       Home[t] = Home[u] /\ at[t] # "idle" /\ at[u] # "idle" => t = u
  /\ \A t \in Threads : at[t] = "holds" => writeLock[fd[t]] = Home[t]

LEMMA AloneStep ==
  ASSUME Serial, ~MayDestroy, TypeOK, AloneInv, [Next]_vars
  PROVE  AloneInv'
  <1> USE HomeAssumption, NoOneAssumption DEF HomeAssumption, NoOneAssumption
  <1> USE DEF TypeOK, AloneInv
  <1>1. ASSUME NEW t \in Threads, Step(t) PROVE AloneInv'
    <2>1. ASSUME NEW i \in Inodes, Open(t, i) PROVE AloneInv'
      BY <2>1 DEF Open, GoesTo
    <2>2. CASE Insert(t)
      BY <2>2 DEF Insert, GoesTo, Names
    <2>3. CASE CloseRefused(t) \/ CloseDenied(t) \/ Close(t)
      BY <2>3 DEF CloseRefused, CloseDenied, Close, Closes, GoesTo
    <2>4. CASE SetLock(t)
      BY <2>4 DEF SetLock, GoesTo
    <2>5. CASE RemoveDenied(t) \/ Remove(t)
      BY <2>5 DEF RemoveDenied, Remove, GoesTo, Names
    <2>6. CASE Unset(t)
      BY <2>6 DEF Unset, GoesTo
    <2>7. CASE UnsetFails(t)
      BY <2>7 DEF UnsetFails, GoesTo
    <2>8. CASE Unlink(t)
      BY <2>8 DEF Unlink, GoesTo
    <2> QED BY <1>1, <2>1, <2>2, <2>3, <2>4, <2>5, <2>6, <2>7, <2>8 DEF Step
  <1>2. ASSUME NEW p \in Processes, Exit(p) PROVE AloneInv'
    BY <1>2 DEF Exit
  <1>3. CASE UNCHANGED vars
    BY <1>3 DEF vars
  <1> QED BY <1>1, <1>2, <1>3 DEF Next

(* Among processes that each make one call at a time, with nobody who      *)
(* destroys the database, one thread of one process has the lock           *)
(* (LockOrUnlock).                                                         *)
THEOREM LockExcludes ==
  ASSUME Serial, ~MayDestroy
  PROVE  Spec => []OneHolder
  <1>1. Init => AloneInv
    BY DEF Init, AloneInv
  <1>2. TypeOK /\ AloneInv /\ [Next]_vars => AloneInv'
    BY AloneStep
  <1>3. Inv /\ AloneInv => OneHolder
    BY DEF Inv, OwnersInv, Owns, AloneInv, OneHolder
  <1>4. Inv => TypeOK
    BY DEF Inv
  <1> QED BY <1>1, <1>2, <1>3, <1>4, InvHolds, PTL DEF Spec

-----------------------------------------------------------------------------
(***************************************************************************)
(* PosixEnv for any number of files, of places and of databases.  What a   *)
(* counter lacks is what has taken a place off it, refused or not; a place *)
(* is given only while the counter is positive, that is while fewer than   *)
(* all are taken off.  The queue is only ever filled when the thread was   *)
(* started, and signalled when it was empty.                               *)
(***************************************************************************)

(* A step is one of the limits or one of the thread.                       *)
LEMMA Parts == [NextEnv]_envVars => [LimitStep]_limitVars /\ [WorkStep]_workVars
  BY DEF NextEnv, envVars

-----------------------------------------------------------------------------
(* The limits *)

LimitsType == /\ mmap_limiter_ \in Int /\ fd_limiter_ \in Int
              /\ place \in [Files -> Places]

(* What a counter lacks was taken off, and was given to no more than there *)
(* are places.                                                             *)
MmapsCounted == /\ mmap_limiter_ = MaxMmaps - Cardinality(At(MmapTaken))
                /\ Cardinality(At(MmapGiven)) <= MaxMmaps
FdsCounted   == /\ fd_limiter_ = MaxOpenFiles - Cardinality(At(FdTaken))
                /\ Cardinality(At(FdGiven)) <= MaxOpenFiles

LimitsInv == Finite /\ LimitsType /\ MmapsCounted /\ FdsCounted

-----------------------------------------------------------------------------
(* Some files are finitely many.                                           *)
LEMMA AtFinite ==
  ASSUME Finite, NEW S PROVE IsFiniteSet(At(S)) /\ Cardinality(At(S)) \in Nat
<1>1. At(S) \subseteq Files
  BY DEF At
<1> QED
  BY <1>1, FS_Subset, FS_CardinalityType DEF Finite

(* One more or one less, when a file goes in or out.                       *)
LEMMA Counts ==
  ASSUME Finite, LimitsType, NEW f \in Files, NEW a, NEW b, Goes(f, a, b), NEW S
  PROVE  /\ a \in S /\ b \in S => Cardinality(At(S)') = Cardinality(At(S))
         /\ a \notin S /\ b \notin S => Cardinality(At(S)') = Cardinality(At(S))
         /\ a \notin S /\ b \in S => Cardinality(At(S)') = Cardinality(At(S)) + 1
         /\ a \in S /\ b \notin S => Cardinality(At(S)') = Cardinality(At(S)) - 1
<1>1. \A g \in Files : place'[g] = IF g = f THEN b ELSE place[g]
  BY DEF Goes, LimitsType
<1>2. place[f] = a
  BY DEF Goes
<1>3. f \in At(S) <=> a \in S
  BY <1>2 DEF At
<1>4. At(S)' = IF b \in S THEN At(S) \cup {f} ELSE At(S) \ {f}
  BY <1>1 DEF At
<1>5. IsFiniteSet(At(S)) /\ Cardinality(At(S)) \in Nat
  BY AtFinite
<1>6. Cardinality(At(S) \cup {f})
        = IF f \in At(S) THEN Cardinality(At(S)) ELSE Cardinality(At(S)) + 1
  BY <1>5, FS_AddElement
<1>7. Cardinality(At(S) \ {f})
        = IF f \in At(S) THEN Cardinality(At(S)) - 1 ELSE Cardinality(At(S))
  BY <1>5, FS_RemoveElement
<1> QED
  BY <1>3, <1>4, <1>6, <1>7

(* A larger set of places has no fewer files.                              *)
LEMMA Fewer ==
  ASSUME Finite, NEW S, NEW T, S \subseteq T
  PROVE  Cardinality(At(S)) <= Cardinality(At(T))
<1>1. At(S) \subseteq At(T)
  BY DEF At
<1> QED
  BY <1>1, AtFinite, FS_Subset

(* A move between two places counts as it is in or out of the four sets.   *)
LEMMA Moves ==
  ASSUME LimitsInv, NEW f \in Files, NEW a \in Places, NEW b \in Places, Goes(f, a, b),
         \/ (a \in MmapTaken <=> b \in MmapTaken) /\ mmap_limiter_' = mmap_limiter_
         \/ a \notin MmapTaken /\ b \in MmapTaken /\ mmap_limiter_' = mmap_limiter_ - 1
         \/ a \in MmapTaken /\ b \notin MmapTaken /\ mmap_limiter_' = mmap_limiter_ + 1,
         \/ (a \in FdTaken <=> b \in FdTaken) /\ fd_limiter_' = fd_limiter_
         \/ a \notin FdTaken /\ b \in FdTaken /\ fd_limiter_' = fd_limiter_ - 1
         \/ a \in FdTaken /\ b \notin FdTaken /\ fd_limiter_' = fd_limiter_ + 1,
         b \in MmapGiven => a \in MmapGiven \/ mmap_limiter_ > 0,
         b \in FdGiven => a \in FdGiven \/ fd_limiter_ > 0
  PROVE  LimitsInv'
<1>1. LimitsType'
  BY DEF LimitsInv, LimitsType, Goes
<1>2. \A S \in {MmapTaken, MmapGiven, FdTaken, FdGiven} :
        /\ a \in S /\ b \in S => Cardinality(At(S)') = Cardinality(At(S))
        /\ a \notin S /\ b \notin S => Cardinality(At(S)') = Cardinality(At(S))
        /\ a \notin S /\ b \in S => Cardinality(At(S)') = Cardinality(At(S)) + 1
        /\ a \in S /\ b \notin S => Cardinality(At(S)') = Cardinality(At(S)) - 1
  BY Counts DEF LimitsInv
<1>3. \A S \in {MmapTaken, MmapGiven, FdTaken, FdGiven} : Cardinality(At(S)) \in Nat
  BY AtFinite DEF LimitsInv
<1>4. /\ Cardinality(At(MmapGiven)) <= Cardinality(At(MmapTaken))
      /\ Cardinality(At(FdGiven)) <= Cardinality(At(FdTaken))
  BY Fewer DEF LimitsInv, MmapGiven, MmapTaken, FdGiven, FdTaken
<1>5. MaxMmaps \in Nat /\ MaxOpenFiles \in Nat
  BY DEF LimitsInv, Finite
<1>6. MmapsCounted'
  BY <1>2, <1>3, <1>4, <1>5 DEF LimitsInv, MmapsCounted
<1>7. FdsCounted'
  BY <1>2, <1>3, <1>4, <1>5 DEF LimitsInv, FdsCounted
<1> QED
  BY <1>1, <1>6, <1>7 DEF LimitsInv

(* At first no place is taken.                                             *)
LEMMA LimitsInit == Finite /\ InitEnv => LimitsInv
<1> SUFFICES ASSUME Finite, InitEnv PROVE LimitsInv
  OBVIOUS
<1>1. \A S \in {MmapTaken, MmapGiven, FdTaken, FdGiven} : At(S) = {}
  BY DEF InitEnv, At, MmapTaken, MmapGiven, FdTaken, FdGiven
<1>2. \A S \in {MmapTaken, MmapGiven, FdTaken, FdGiven} : Cardinality(At(S)) = 0
  BY <1>1, FS_EmptySet
<1> QED
  BY <1>2 DEF InitEnv, Finite, LimitsInv, LimitsType, MmapsCounted, FdsCounted, Places

(* Every step is such a move.                                              *)
LEMMA LimitsStep == LimitsInv /\ [LimitStep]_limitVars => LimitsInv'
<1> SUFFICES ASSUME LimitsInv, [LimitStep]_limitVars PROVE LimitsInv'
  OBVIOUS
<1>0. mmap_limiter_ \in Int /\ fd_limiter_ \in Int
  BY DEF LimitsInv, LimitsType
<1>1. CASE UNCHANGED limitVars
  BY <1>1 DEF limitVars, LimitsInv, LimitsType, MmapsCounted, FdsCounted, At
<1> USE <1>0 DEF Places, MmapTaken, MmapGiven, FdTaken, FdGiven, Acquired
<1>2. ASSUME NEW f \in Files, OpenFile(f) PROVE LimitsInv'
  BY <1>2, Moves DEF OpenFile
<1>3. ASSUME NEW f \in Files, AcquireMmap(f) PROVE LimitsInv'
  <2>1. CASE mmap_limiter_ > 0
    BY <1>3, <2>1, Moves DEF AcquireMmap
  <2>2. CASE ~(mmap_limiter_ > 0)
    BY <1>3, <2>2, Moves DEF AcquireMmap
  <2> QED
    BY <2>1, <2>2
<1>4. ASSUME NEW f \in Files, NoMmap(f) PROVE LimitsInv'
  BY <1>4, Moves DEF NoMmap
<1>5. ASSUME NEW f \in Files, MapFile(f) PROVE LimitsInv'
  BY <1>5, Moves DEF MapFile
<1>6. ASSUME NEW f \in Files, ReleaseMmap(f) PROVE LimitsInv'
  BY <1>6, Moves DEF ReleaseMmap
<1>7. ASSUME NEW f \in Files, AcquireFd(f) PROVE LimitsInv'
  <2>1. CASE fd_limiter_ > 0
    BY <1>7, <2>1, Moves DEF AcquireFd
  <2>2. CASE ~(fd_limiter_ > 0)
    BY <1>7, <2>2, Moves DEF AcquireFd
  <2> QED
    BY <2>1, <2>2
<1>8. ASSUME NEW f \in Files, NoFd(f) PROVE LimitsInv'
  BY <1>8, Moves DEF NoFd
<1>9. ASSUME NEW f \in Files, CloseNotPermanent(f) PROVE LimitsInv'
  BY <1>9, Moves DEF CloseNotPermanent
<1>10. ASSUME NEW f \in Files, ReadFile(f) PROVE LimitsInv'
  BY <1>10, Moves DEF ReadFile
<1>11. ASSUME NEW f \in Files, CloseFile(f) PROVE LimitsInv'
  BY <1>11, Moves DEF CloseFile
<1>12. ASSUME NEW f \in Files, ReleaseFd(f) PROVE LimitsInv'
  BY <1>12, Moves DEF ReleaseFd
<1> QED
  BY <1>1, <1>2, <1>3, <1>4, <1>5, <1>6, <1>7, <1>8, <1>9, <1>10, <1>11, <1>12 DEF LimitStep

-----------------------------------------------------------------------------
(* A counter always lacks what was taken off it and not put back.          *)
THEOREM AlwaysCounted == Finite /\ SpecEnv => []LimitsInv
  BY LimitsInit, LimitsStep, Parts, PTL DEF SpecEnv

(* No more files are mapped, and no more keep their descriptor, than there *)
(* are places for: Limiter needs no lock.                                  *)
THEOREM NeverTooMany == Finite /\ SpecEnv => []LimitsAreKept
<1>1. LimitsInv => LimitsAreKept
  <2> SUFFICES ASSUME LimitsInv PROVE LimitsAreKept
    OBVIOUS
  <2>1. /\ Cardinality(At({"mapped"})) <= Cardinality(At(MmapGiven))
        /\ Cardinality(At({"permanent"})) <= Cardinality(At(FdGiven))
    BY Fewer DEF LimitsInv, MmapGiven, FdGiven
  <2>2. \A S \in {{"mapped"}, {"permanent"}, MmapGiven, FdGiven} :
          Cardinality(At(S)) \in Nat
    BY AtFinite DEF LimitsInv
  <2> QED
    BY <2>1, <2>2 DEF LimitsInv, Finite, MmapsCounted, FdsCounted, LimitsAreKept
<1> QED
  BY <1>1, AlwaysCounted, PTL

(* No place is lost, whatever is refused or fails.                         *)
THEOREM NoPlaceIsLost == Finite /\ SpecEnv => []PlacesComeBack
<1>1. LimitsInv => PlacesComeBack
  <2> SUFFICES ASSUME LimitsInv, \A f \in Files : place[f] \in Sorts \cup {"closed"}
               PROVE  /\ mmap_limiter_ = MaxMmaps - Cardinality(At({"mapped"}))
                      /\ fd_limiter_ = MaxOpenFiles - Cardinality(At({"permanent"}))
    BY DEF PlacesComeBack
  <2>1. At({"mapped"}) = At(MmapTaken) /\ At({"permanent"}) = At(FdTaken)
    BY DEF At, Sorts, MmapTaken, FdTaken
  <2> QED
    BY <2>1 DEF LimitsInv, MmapsCounted, FdsCounted
<1> QED
  BY <1>1, AlwaysCounted, PTL

-----------------------------------------------------------------------------
(* The background thread *)

WorkType == /\ background_work_queue_ \in Seq(Databases)
            /\ started_background_thread_ \in BOOLEAN /\ signaled \in BOOLEAN
            /\ thread \in {"none", "looks", "waits", "works"}
            /\ working \in Databases \cup {NoDatabase}

(* There is a thread if one was started, and nothing in the queue if not.  *)
Started == /\ started_background_thread_ <=> thread # "none"
           /\ thread = "none" => background_work_queue_ = <<>>

WorkInv == WorkType /\ Started /\ NoWorkForgotten

LEMMA WorkInvStep == WorkInv /\ [WorkStep]_workVars => WorkInv'
<1> SUFFICES ASSUME WorkInv, [WorkStep]_workVars PROVE WorkInv'
  OBVIOUS
<1> USE DEF WorkInv, WorkType, Started, NoWorkForgotten
<1>1. ASSUME NEW d \in Databases, Schedule(d) PROVE WorkInv'
  <2>1. /\ background_work_queue_' = Append(background_work_queue_, d)
        /\ started_background_thread_' = TRUE /\ working' = working
        /\ thread' = IF started_background_thread_ THEN thread ELSE "looks"
        /\ signaled' = (signaled \/ (background_work_queue_ = <<>> /\ thread = "waits"))
    BY <1>1 DEF Schedule, Signals
  <2>2. background_work_queue_' \in Seq(Databases)
    BY <2>1
  <2>3. signaled' \in BOOLEAN /\ thread' \in {"looks", "waits", "works"}
    BY <2>1
  <2>4. NoWorkForgotten'
    <3>1. CASE thread = "waits"
      <4>1. signaled'
        BY <2>1, <3>1, Zenon
      <4> QED
        BY <2>1, <3>1, <4>1
    <3>2. CASE thread # "waits"
      BY <2>1, <3>2
    <3> QED
      BY <3>1, <3>2
  <2> QED
    BY <2>1, <2>2, <2>3, <2>4
<1>2. CASE Look
  <2>1. CASE background_work_queue_ = <<>>
    BY <1>2, <2>1 DEF Look
  <2>2. CASE background_work_queue_ # <<>>
    <3>1. /\ Head(background_work_queue_) \in Databases
          /\ Tail(background_work_queue_) \in Seq(Databases)
      BY <2>2
    <3> QED
      BY <1>2, <2>2, <3>1 DEF Look
  <2> QED
    BY <2>1, <2>2
<1>3. CASE Wake
  BY <1>3 DEF Wake
<1>4. CASE Done
  BY <1>4 DEF Done
<1>5. CASE UNCHANGED workVars
  BY <1>5 DEF workVars
<1> QED
  BY <1>1, <1>2, <1>3, <1>4, <1>5 DEF WorkStep

(* No wake-up of the background thread is lost, though only the first work *)
(* of a queue signals it.                                                  *)
THEOREM NoLostWakeUp == SpecEnv => []NoWorkForgotten
<1>1. InitEnv => WorkInv
  <2> SUFFICES ASSUME InitEnv PROVE WorkInv
    OBVIOUS
  <2>1. background_work_queue_ \in Seq(Databases)
    BY DEF InitEnv
  <2>2. signaled \in BOOLEAN /\ started_background_thread_ \in BOOLEAN
    BY Zenon DEF InitEnv
  <2>3. Started
    BY Zenon DEF InitEnv, Started
  <2> QED
    BY <2>1, <2>2, <2>3 DEF InitEnv, WorkInv, WorkType, NoWorkForgotten
<1>2. WorkInv => NoWorkForgotten
  BY DEF WorkInv
<1> QED
  BY <1>1, <1>2, WorkInvStep, Parts, PTL DEF SpecEnv

-----------------------------------------------------------------------------
(* What the databases of a process share keeps: the limits of open files,  *)
(* their places, and the wake-ups of the background thread.                *)
THEOREM EnvironmentIsKept == Finite /\ SpecEnv => []EnvironmentKeeps
  BY NeverTooMany, NoPlaceIsLost, NoLostWakeUp, PTL DEF EnvironmentKeeps

-----------------------------------------------------------------------------
(***************************************************************************)
(* WritableFile for a buffer of any size, any appends, errors and files.   *)
(* The bytes that were appended are, in this order, in the file or lost,   *)
(* in the buffer or on their way to write(), and in what Append has left:  *)
(* Passed and Taken say where the one ends and the next begins.            *)
(***************************************************************************)

WritingCalls == {"append", "append unbuffered", "flush", "sync", "close"}
Calls == WritingCalls \cup {"none", "sync directory", "sync file", "closed", "crashed"}

FileTypeOK ==
  /\ is_manifest_ \in BOOLEAN /\ appended \in Nat /\ call \in Calls
  /\ content \in Seq(1..appended) /\ synced \in 0..Len(content)
  /\ buf_ \in Seq(Nat) /\ rest \in Seq(Nat) /\ writing \in Seq(Nat)
  /\ flushed \in 0..appended /\ durable \in 0..appended
  /\ files \in Nat /\ entries \in 0..files
  /\ saidOf \in Seq(0..files) /\ Len(saidOf) = appended
  /\ writing # <<>> => call \in WritingCalls

(* The sequence has the last of the first n bytes that were appended.      *)
Ends(s, n) == Len(s) <= n /\ \A i \in 1..Len(s) : s[i] = n - Len(s) + i

(* The bytes that were copied to the buffer or given to write(), and of    *)
(* these the ones that are in the file or were given up.                   *)
Taken  == appended - Len(rest)
Passed == Taken - (IF call \in WritingCalls THEN Len(writing) ELSE Len(buf_))

OnItsWay ==
  /\ Ends(rest, appended) /\ Ends(buf_, Taken) /\ Ends(writing, Taken)
  /\ Len(buf_) <= kWritableFileBufferSize
  /\ rest # <<>> => call = "append"
  /\ call \in WritingCalls \ {"append unbuffered"} => Len(writing) <= Len(buf_)
  /\ call \in {"append unbuffered", "sync file"} => buf_ = <<>>

(* All that was passed on is in the file or was reported, in order, and    *)
(* what a call flushed is not on its way any more.                         *)
PassedIs ==
  /\ flushed <= Passed
  /\ \A i \in DOMAIN content : content[i] <= Passed
  /\ 1..Passed \subseteq InFile \cup reported

Ascending == \A i, j \in DOMAIN content : i < j => content[i] < content[j]

DurableIs == 1..durable \subseteq {content[i] : i \in 1..synced} \cup reported

NamesAre ==
  is_manifest_ => /\ \A i \in 1..synced : saidOf[content[i]] <= entries
                  /\ call \in {"sync", "sync file"} => \A b \in 1..appended : saidOf[b] <= entries

FileInv == /\ FileTypeOK /\ Ascending /\ DurableIs /\ NamesAre
           /\ call # "crashed" => OnItsWay /\ PassedIs

LEMMA BytesAre ==
  ASSUME NEW m \in Nat, NEW n \in Nat, m <= n
  PROVE  /\ Bytes(m + 1, n) \in Seq(Nat) /\ Len(Bytes(m + 1, n)) = n - m
         /\ Ends(Bytes(m + 1, n), n)
<1> DEFINE s == [i \in 1..(n - m) |-> m + i]
<1>1. s \in Seq(Nat) /\ Len(s) = n - m
  BY DEF Seq
<1>2. Bytes(m + 1, n) = s
  BY DEF Bytes
<1>3. \A i \in 1..(n - m) : s[i] = m + i
  OBVIOUS
<1> HIDE DEF s
<1>4. \A i \in 1..Len(s) : s[i] = n - Len(s) + i
  <2> SUFFICES ASSUME NEW i \in 1..(n - m) PROVE s[i] = n - (n - m) + i
    BY <1>1
  <2> QED BY <1>3
<1>5. Ends(s, n)
  BY <1>1, <1>4 DEF Ends
<1> QED BY <1>1, <1>2, <1>5

LEMMA EndsLater ==
  ASSUME NEW s \in Seq(Nat), NEW n \in Nat, NEW m \in Nat, n <= m, Ends(s, n)
  PROVE  LET t == s \o Bytes(n + 1, m)
         IN  t \in Seq(Nat) /\ Len(t) = Len(s) + (m - n) /\ Ends(t, m)
<1> DEFINE b == Bytes(n + 1, m)
           t == s \o b
<1>1. b \in Seq(Nat) /\ Len(b) = m - n /\ Ends(b, m)
  BY BytesAre
<1> HIDE DEF b
<1>2. /\ t \in Seq(Nat) /\ Len(t) = Len(s) + Len(b)
      /\ \A i \in 1..(Len(s) + Len(b)) : t[i] = IF i <= Len(s) THEN s[i] ELSE b[i - Len(s)]
  BY <1>1, ConcatProperties
<1> HIDE DEF t
<1>3. Ends(t, m)
  <2>1. Len(s) \in Nat /\ Len(s) <= n /\ Len(b) \in Nat
    BY <1>1, LenProperties DEF Ends
  <2>2. ASSUME NEW i \in 1..(Len(s) + Len(b)) PROVE t[i] = m - Len(t) + i
    <3>1. CASE i <= Len(s)
      <4>1. s[i] = n - Len(s) + i
        BY <2>1, <3>1 DEF Ends
      <4> QED BY <1>1, <1>2, <2>1, <3>1, <4>1
    <3>2. CASE ~(i <= Len(s))
      <4> DEFINE j == i - Len(s)
      <4>1. j \in 1..Len(b)
        BY <2>1, <3>2
      <4>2. b[j] = m - Len(b) + j
        BY <1>1, <4>1 DEF Ends
      <4> QED BY <1>1, <1>2, <2>1, <3>2, <4>2
    <3> QED BY <3>1, <3>2
  <2> QED BY <1>1, <1>2, <2>1, <2>2 DEF Ends
<1> QED BY <1>1, <1>2, <1>3 DEF b, t

LEMMA EndsCut ==
  ASSUME NEW s \in Seq(Nat), NEW n \in Nat, NEW m \in 1..Len(s), Ends(s, n)
  PROVE  LET a == SubSeq(s, 1, m)
             b == SubSeq(s, m + 1, Len(s))
         IN  /\ a \in Seq(Nat) /\ Len(a) = m
             /\ \A i \in 1..m : a[i] = n - Len(s) + i
             /\ b \in Seq(Nat) /\ Len(b) = Len(s) - m /\ Ends(b, n)
<1> DEFINE a == SubSeq(s, 1, m)
           b == SubSeq(s, m + 1, Len(s))
<1>1. Len(s) \in Nat /\ \A i \in 1..Len(s) : s[i] \in Nat
  BY ElementOfSeq, LenProperties
<1>2. a \in Seq(Nat) /\ Len(a) = m /\ \A i \in 1..m : a[i] = s[i]
  BY <1>1, SubSeqProperties
<1>3. b \in Seq(Nat) /\ Len(b) = Len(s) - m /\ \A i \in 1..(Len(s) - m) : b[i] = s[m + i]
  BY <1>1, SubSeqProperties
<1> HIDE DEF a, b
<1>4. ASSUME NEW i \in 1..m PROVE a[i] = n - Len(s) + i
  <2>1. i \in 1..Len(s)
    BY <1>1
  <2>2. s[i] = n - Len(s) + i
    BY <2>1 DEF Ends
  <2> QED BY <1>2, <2>2
<1>5. Ends(b, n)
  <2>1. ASSUME NEW i \in 1..(Len(s) - m) PROVE b[i] = n - Len(b) + i
    <3>1. m + i \in 1..Len(s)
      BY <1>1
    <3>2. s[m + i] = n - Len(s) + (m + i)
      BY <3>1 DEF Ends
    <3> QED BY <1>1, <1>3, <3>2
  <2> QED BY <1>1, <1>3, <2>1 DEF Ends
<1> QED BY <1>2, <1>3, <1>4, <1>5 DEF a, b

LEMMA NothingEnds ==
  ASSUME NEW n \in Nat
  PROVE  <<>> \in Seq(Nat) /\ Len(<<>>) = 0 /\ Ends(<<>>, n)
BY DEF Ends

LEMMA InitFileInv == InitFile => FileInv
<1> SUFFICES ASSUME InitFile PROVE FileInv
  OBVIOUS
<1> USE DEF InitFile
<1>1. FileTypeOK
  BY DEF FileTypeOK, Calls
<1>2. OnItsWay /\ PassedIs
  BY NothingEnds, BufferAssumption DEF BufferAssumption, OnItsWay, PassedIs, Taken, Passed, WritingCalls
<1>3. Ascending /\ DurableIs /\ NamesAre
  BY DEF Ascending, DurableIs, NamesAre
<1> QED BY <1>1, <1>2, <1>3 DEF FileInv
LEMMA SeqWithin ==
  ASSUME NEW S, NEW T, NEW s \in Seq(S), \A i \in 1..Len(s) : s[i] \in T
  PROVE  s \in Seq(T)
<1>1. Len(s) \in Nat /\ s \in [1..Len(s) -> S]
  BY LenProperties
<1>2. s \in [1..Len(s) -> T]
  BY <1>1
<1> QED BY <1>1, <1>2 DEF Seq

(* What the calls do to the bytes on their way.                            *)
LEMMA FileTypeStep == FileTypeOK /\ (call # "crashed" => OnItsWay) /\ NextFile => FileTypeOK'
<1> SUFFICES ASSUME FileTypeOK, call # "crashed" => OnItsWay, NextFile PROVE FileTypeOK'
  OBVIOUS
<1> USE DEF disk, program, history
<1>1. <<>> \in Seq(Nat)
  BY NothingEnds
<1>t. /\ appended \in Nat /\ files \in Nat /\ content \in Seq(1..appended)
      /\ buf_ \in Seq(Nat) /\ rest \in Seq(Nat) /\ writing \in Seq(Nat)
      /\ saidOf \in Seq(0..files) /\ Len(saidOf) = appended
      /\ synced \in Nat /\ synced <= Len(content) /\ entries \in Nat /\ entries <= files
      /\ flushed \in Nat /\ flushed <= appended /\ durable \in Nat /\ durable <= appended
      /\ Len(content) \in Nat /\ Len(buf_) \in Nat /\ Len(rest) \in Nat /\ Len(writing) \in Nat
  BY LenProperties DEF FileTypeOK
<1>2. ASSUME NEW size \in AppendSizes, Append_(size) PROVE FileTypeOK'
  <2> DEFINE copied == Lesser(size, kWritableFileBufferSize - Len(buf_))
             more   == [i \in 1..size |-> files]
  <2>1. size \in Nat /\ Len(buf_) \in Nat /\ Len(buf_) <= kWritableFileBufferSize
        /\ kWritableFileBufferSize \in Nat
    BY <1>2, <1>t, BufferAssumption DEF BufferAssumption, Append_, OnItsWay
  <2>2. copied \in 0..size
    BY <2>1 DEF Lesser
  <2> HIDE DEF copied
  <2>3. /\ Bytes(appended + 1, appended + copied) \in Seq(Nat)
        /\ Bytes(appended + copied + 1, appended + size) \in Seq(Nat)
    <3>1. /\ appended + copied \in Nat /\ appended <= appended + copied
          /\ appended + size \in Nat /\ appended + copied <= appended + size
      BY <1>t, <2>1, <2>2
    <3> QED BY <1>t, <3>1, BytesAre
  <2>4. buf_' \in Seq(Nat) /\ rest' \in Seq(Nat)
    BY <1>2, <1>t, <2>3, ConcatProperties DEF Append_, copied
  <2>5. writing' \in Seq(Nat) /\ call' \in Calls
    BY <1>2, <1>t, <2>4 DEF Append_, Calls, WritingCalls, FileTypeOK
  <2>6. more \in Seq(0..files) /\ Len(more) = size
    <3> DEFINE m == [i \in 1..size |-> files]
    <3>1. m \in [1..size -> 0..files]
      BY <1>t
    <3>2. m \in Seq(0..files)
      BY <2>1, <3>1 DEF Seq
    <3>3. Len(m) = size
      BY <2>1
    <3> QED BY <3>2, <3>3
  <2> HIDE DEF more
  <2>7. saidOf' \in Seq(0..files) /\ Len(saidOf') = appended + size
    <3>1. saidOf' = saidOf \o more
      BY <1>2 DEF Append_, more
    <3> QED BY <1>t, <2>1, <2>6, <3>1, ConcatProperties
  <2>8. appended' = appended + size /\ appended' \in Nat /\ appended <= appended'
    BY <1>2, <1>t, <2>1 DEF Append_
  <2>9. content' = content /\ content \in Seq(1..appended')
    <3>1. 1..appended \subseteq 1..appended'
      BY <1>t, <2>8
    <3> QED BY <1>2, <1>t, <3>1, SeqMonotonic DEF Append_
  <2>10. writing' # <<>> => call' \in WritingCalls
    BY <1>2 DEF Append_, FileTypeOK, WritingCalls
  <2>11. UNCHANGED <<is_manifest_, synced, flushed, durable, files, entries>>
    BY <1>2 DEF Append_
  <2> QED BY <1>t, <2>4, <2>5, <2>7, <2>8, <2>9, <2>10, <2>11 DEF FileTypeOK
<1>3. CASE Flush \/ Sync \/ CloseWritable
  BY <1>3 DEF FileTypeOK, Calls, WritingCalls, Flush, Sync, CloseWritable
<1>4. CASE SyncDirIfManifest
  <2>1. UNCHANGED <<is_manifest_, appended, content, synced, buf_, files, saidOf, flushed, durable>>
    BY <1>4 DEF SyncDirIfManifest
  <2>2. entries' \in 0..files
    <3>1. entries' = files \/ entries' = entries
      BY <1>4 DEF SyncDirIfManifest
    <3> QED BY <1>t, <3>1
  <2>3. call' \in Calls /\ (writing' # <<>> => call' \in WritingCalls)
    BY <1>4 DEF SyncDirIfManifest, Fails, Calls, WritingCalls
  <2>4. writing' \in Seq(Nat) /\ rest' \in Seq(Nat)
    BY <1>1, <1>4, <1>t DEF SyncDirIfManifest, Fails
  <2> QED BY <1>t, <2>1, <2>2, <2>3, <2>4 DEF FileTypeOK
<1>5. CASE WriteUnbuffered
  <2>1. PICK n \in 1..Len(writing) : /\ content' = content \o SubSeq(writing, 1, n)
                                     /\ writing' = SubSeq(writing, n + 1, Len(writing))
    BY <1>5 DEF WriteUnbuffered
  <2> DEFINE a == SubSeq(writing, 1, n)
  <2>2. /\ Ends(writing, Taken) /\ Taken \in 0..appended /\ Len(writing) <= Taken
        /\ Len(writing) \in Nat
    <3>1. OnItsWay
      <4>1. call # "crashed"
        BY <1>5 DEF WriteUnbuffered, FileTypeOK, WritingCalls
      <4> QED BY <4>1
    <3>2. Len(rest) <= appended
      BY <3>1 DEF OnItsWay, Ends
    <3>3. Taken \in 0..appended
      BY <1>t, <3>2 DEF Taken
    <3> QED BY <1>t, <3>1, <3>3 DEF OnItsWay, Ends
  <2>3. /\ a \in Seq(Nat) /\ Len(a) = n /\ writing' \in Seq(Nat)
        /\ \A i \in 1..n : a[i] = Taken - Len(writing) + i
    <3>1. Taken \in Nat
      BY <1>t, <2>2
    <3> QED BY <1>t, <2>1, <2>2, <3>1, EndsCut DEF a
  <2> HIDE DEF a
  <2>4. ASSUME NEW i \in 1..n PROVE a[i] \in 1..appended
    <3>1. a[i] = Taken - Len(writing) + i /\ i \in Nat /\ 1 <= i /\ i <= Len(writing)
      BY <1>t, <2>3
    <3>2. /\ Taken \in Nat /\ Taken <= appended /\ Len(writing) <= Taken
          /\ Len(writing) \in Nat /\ appended \in Nat
      BY <1>t, <2>2
    <3>3. a[i] \in Nat /\ 1 <= a[i] /\ a[i] <= appended
      BY <3>1, <3>2
    <3> QED BY <3>2, <3>3
  <2>5. a \in Seq(1..appended)
    BY <2>3, <2>4, SeqWithin
  <2>6. content' \in Seq(1..appended) /\ Len(content') = Len(content) + n
    BY <1>t, <2>1, <2>3, <2>5, ConcatProperties DEF a
  <2>7. /\ UNCHANGED <<is_manifest_, appended, synced, entries, files, saidOf, flushed, durable>>
        /\ UNCHANGED <<buf_, rest, call>> /\ call \in WritingCalls
    BY <1>5 DEF WriteUnbuffered, FileTypeOK
  <2>8. synced' \in 0..Len(content')
    BY <1>t, <2>6, <2>7
  <2> QED BY <1>t, <2>3, <2>6, <2>7, <2>8 DEF FileTypeOK
<1>6. CASE WriteFails \/ CloseFails
  BY <1>1, <1>6 DEF FileTypeOK, Calls, WritingCalls, WriteFails, CloseFails, Fails
<1>7. CASE EndOfBuffer
  <2>1. UNCHANGED <<is_manifest_, appended, content, synced, entries, files, saidOf, flushed, durable>>
    BY <1>7 DEF EndOfBuffer
  <2>2. call' \in Calls /\ (writing' # <<>> => call' \in WritingCalls)
    BY <1>7 DEF EndOfBuffer, Written, Calls, WritingCalls
  <2>3. writing' \in Seq(Nat) /\ rest' \in Seq(Nat) /\ buf_' \in Seq(Nat)
    BY <1>1, <1>7, <1>t DEF EndOfBuffer
  <2> QED BY <1>t, <2>1, <2>2, <2>3 DEF FileTypeOK
<1>8. CASE EndOfAppend \/ EndOfFlush
  <2>1. /\ UNCHANGED <<is_manifest_, appended, content, synced, entries, files, saidOf, durable>>
        /\ UNCHANGED <<rest, writing>> /\ writing = <<>> /\ flushed' = appended
    BY <1>8 DEF EndOfAppend, EndOfFlush, Written
  <2>2. call' \in Calls
    BY <1>8 DEF EndOfAppend, EndOfFlush, Calls
  <2>3. buf_' \in Seq(Nat)
    BY <1>1, <1>8, <1>t DEF EndOfAppend, EndOfFlush
  <2>4. flushed' \in 0..appended'
    BY <1>t, <2>1
  <2> QED BY <1>t, <2>1, <2>2, <2>3, <2>4 DEF FileTypeOK
<1>9. CASE SyncFd
  <2>1. UNCHANGED <<is_manifest_, appended, content, entries, files, saidOf, buf_, flushed>>
    BY <1>9 DEF SyncFd
  <2>2. call' \in Calls /\ (writing' # <<>> => call' \in WritingCalls)
    BY <1>9 DEF SyncFd, Fails, FileTypeOK, Calls, WritingCalls
  <2>3. writing' \in Seq(Nat) /\ rest' \in Seq(Nat)
    BY <1>1, <1>9, <1>t DEF SyncFd, Fails
  <2>4. synced' \in 0..Len(content) /\ durable' \in 0..appended
    <3>1. (synced' = Len(content) /\ durable' = appended) \/ UNCHANGED <<synced, durable>>
      BY <1>9 DEF SyncFd
    <3> QED BY <1>t, <3>1
  <2> QED BY <1>t, <2>1, <2>2, <2>3, <2>4 DEF FileTypeOK
<1>10. CASE CreateFile
  <2>1. saidOf \in Seq(0..(files + 1))
    <3>1. 0..files \subseteq 0..(files + 1)
      BY <1>t
    <3> QED BY <1>t, <3>1, SeqMonotonic
  <2> QED BY <1>10, <1>t, <2>1 DEF CreateFile, FileTypeOK
<1>11. CASE Crash
  <2>1. PICK left \in synced..Len(content) : content' = SubSeq(content, 1, left)
    BY <1>11 DEF Crash
  <2>2. left \in Nat /\ left <= Len(content)
    BY <1>t, <2>1
  <2>3. content' \in Seq(1..appended) /\ Len(content') = left
    <3>1. \A i \in 1..left : content[i] \in 1..appended
      BY <1>t, <2>2, ElementOfSeq
    <3>2. /\ SubSeq(content, 1, left) \in Seq(1..appended)
          /\ Len(SubSeq(content, 1, left)) = left
      BY <1>t, <2>2, <3>1, SubSeqProperties
    <3> QED BY <2>1, <3>2
  <2>4. /\ UNCHANGED <<is_manifest_, appended, synced, entries, files, saidOf, flushed, durable>>
        /\ buf_' = <<>> /\ writing' = <<>> /\ rest' = <<>> /\ call' = "crashed"
    BY <1>11 DEF Crash
  <2>5. synced' \in 0..Len(content')
    BY <1>t, <2>1, <2>3, <2>4
  <2> QED BY <1>1, <1>t, <2>3, <2>4, <2>5 DEF FileTypeOK, Calls
<1> QED BY <1>2, <1>3, <1>4, <1>5, <1>6, <1>7, <1>8, <1>9, <1>10, <1>11 DEF NextFile

-----------------------------------------------------------------------------
(* Where the bytes are.                                                    *)

LEMMA LengthsAre ==
  ASSUME FileTypeOK, OnItsWay
  PROVE  /\ appended \in Nat /\ Len(buf_) \in Nat /\ Len(rest) \in Nat /\ Len(writing) \in Nat
         /\ Taken \in Nat /\ Taken = appended - Len(rest)
         /\ Len(buf_) <= Taken /\ Len(writing) <= Taken
         /\ call # "append" => rest = <<>> /\ Len(rest) = 0 /\ Taken = appended
         /\ call \notin WritingCalls => writing = <<>> /\ Len(writing) = 0
         /\ Passed \in Nat /\ Passed <= Taken
         /\ call \in WritingCalls => Passed = Taken - Len(writing)
         /\ call \notin WritingCalls => Passed = Taken - Len(buf_)
<1>1. /\ appended \in Nat /\ Len(buf_) \in Nat /\ Len(rest) \in Nat /\ Len(writing) \in Nat
  BY LenProperties DEF FileTypeOK
<1>2. Len(rest) <= appended /\ Len(buf_) <= Taken /\ Len(writing) <= Taken
  BY DEF OnItsWay, Ends
<1>3. Taken = appended - Len(rest) /\ Taken \in Nat
  BY <1>1, <1>2 DEF Taken
<1>4. call # "append" => rest = <<>>
  BY DEF OnItsWay
<1>5. call \notin WritingCalls => writing = <<>>
  BY DEF FileTypeOK
<1>6. Len(<<>>) = 0
  BY NothingEnds
<1>7. CASE call \in WritingCalls
  <2>1. Passed = Taken - Len(writing)
    BY <1>7 DEF Passed
  <2> QED BY <1>1, <1>2, <1>3, <1>4, <1>6, <1>7, <2>1
<1>8. CASE call \notin WritingCalls
  <2>1. Passed = Taken - Len(buf_)
    BY <1>8 DEF Passed
  <2> QED BY <1>1, <1>2, <1>3, <1>4, <1>5, <1>6, <1>8, <2>1
<1> QED BY <1>7, <1>8

(* Nothing more is passed on; or a call fails with what it had; or all is  *)
(* flushed.                                                                *)
LEMMA PassedStays ==
  ASSUME FileTypeOK, OnItsWay, PassedIs, content' = content,
         \/ /\ Passed' = Passed /\ flushed' = flushed
            /\ reported \subseteq reported'
         \/ /\ Passed' = appended /\ flushed' = flushed
            /\ reported' = reported \cup (flushed + 1)..appended
         \/ /\ Passed = appended /\ Passed' = appended
            /\ flushed' = appended /\ reported' = reported
  PROVE  PassedIs'
<1>1. Passed \in Nat /\ appended \in Nat /\ Passed <= appended
  <2>1. Taken <= appended /\ Taken \in Nat
    BY LengthsAre
  <2> QED BY <2>1, LengthsAre
<1>2. flushed \in Nat /\ flushed <= Passed
  BY DEF PassedIs, FileTypeOK
<1>3. InFile' = InFile
  BY DEF InFile
<1>4. \A i \in DOMAIN content : content[i] \in Nat /\ content[i] <= Passed
  <2>1. \A i \in DOMAIN content : content[i] \in 1..appended
    BY ElementOfSeq, LenProperties DEF FileTypeOK
  <2> QED BY <1>1, <2>1 DEF PassedIs
<1>5. CASE Passed' = Passed /\ flushed' = flushed /\ reported \subseteq reported'
  BY <1>3, <1>5 DEF PassedIs
<1>6. CASE /\ Passed' = appended /\ flushed' = flushed
           /\ reported' = reported \cup (flushed + 1)..appended
  <2>1. \A i \in DOMAIN content' : content'[i] <= Passed'
    BY <1>1, <1>4, <1>6
  <2>2. \A b \in 1..appended : b \in 1..Passed \/ b \in (flushed + 1)..appended
    BY <1>1, <1>2
  <2>3. 1..Passed' \subseteq InFile' \cup reported'
    BY <1>3, <1>6, <2>2 DEF PassedIs
  <2>4. flushed' <= Passed'
    BY <1>1, <1>2, <1>6
  <2> QED BY <2>1, <2>3, <2>4 DEF PassedIs
<1>7. CASE Passed = appended /\ Passed' = appended /\ flushed' = appended /\ reported' = reported
  BY <1>1, <1>3, <1>7 DEF PassedIs
<1> QED BY <1>5, <1>6, <1>7

(* write() takes the next bytes, and the file ends with them.              *)
LEMMA WriteIs ==
  ASSUME FileTypeOK, OnItsWay, WriteUnbuffered
  PROVE  /\ Len(content) \in Nat /\ DOMAIN content = 1..Len(content)
         /\ \A i \in 1..Len(content) : content[i] \in Nat
         /\ \E n \in Nat :
              /\ n <= Len(writing) /\ Len(writing') = Len(writing) - n /\ Ends(writing', Taken)
              /\ DOMAIN content' = 1..(Len(content) + n)
              /\ \A i \in 1..(Len(content) + n) : content'[i] =
                   IF i <= Len(content) THEN content[i] ELSE Passed + (i - Len(content))
<1>1. call \in WritingCalls
  BY DEF WriteUnbuffered, FileTypeOK
<1>2. PICK n \in 1..Len(writing) : /\ content' = content \o SubSeq(writing, 1, n)
                                   /\ writing' = SubSeq(writing, n + 1, Len(writing))
  BY DEF WriteUnbuffered
<1>3. /\ Taken \in Nat /\ Passed = Taken - Len(writing) /\ Len(writing) \in Nat
      /\ writing \in Seq(Nat) /\ Ends(writing, Taken) /\ n \in 1..Len(writing)
  BY <1>1, <1>2, LengthsAre DEF OnItsWay, FileTypeOK
<1>4. content \in Seq(Nat) /\ Len(content) \in Nat /\ DOMAIN content = 1..Len(content)
  <2>1. content \in Seq(1..appended) /\ 1..appended \subseteq Nat
    BY DEF FileTypeOK
  <2> QED BY <2>1, SeqMonotonic, LenProperties
<1> DEFINE a == SubSeq(writing, 1, n)
           b == SubSeq(writing, n + 1, Len(writing))
<1>5. /\ a \in Seq(Nat) /\ Len(a) = n /\ \A i \in 1..n : a[i] = Taken - Len(writing) + i
      /\ Len(b) = Len(writing) - n /\ Ends(b, Taken)
  BY <1>3, EndsCut
<1> HIDE DEF a, b
<1>6. content' = content \o a /\ writing' = b
  BY <1>2 DEF a, b
<1>7. /\ content \o a \in Seq(Nat) /\ Len(content \o a) = Len(content) + n
      /\ \A i \in 1..(Len(content) + n) : (content \o a)[i] =
           IF i <= Len(content) THEN content[i] ELSE a[i - Len(content)]
  BY <1>4, <1>5, ConcatProperties
<1>8. DOMAIN (content \o a) = 1..(Len(content) + n)
  BY <1>7, LenProperties
<1>9. ASSUME NEW i \in 1..(Len(content) + n), ~(i <= Len(content))
      PROVE  (content \o a)[i] = Passed + (i - Len(content))
  <2> DEFINE j == i - Len(content)
  <2>1. j \in 1..n
    BY <1>3, <1>4, <1>9
  <2>2. (content \o a)[i] = a[j] /\ a[j] = Taken - Len(writing) + j
    BY <1>5, <1>7, <1>9, <2>1
  <2> QED BY <1>3, <2>2
<1>10. n \in Nat /\ n <= Len(writing)
  BY <1>3
<1>11. \A i \in 1..Len(content) : content[i] \in Nat
  BY <1>4, ElementOfSeq
<1> QED BY <1>4, <1>5, <1>6, <1>7, <1>8, <1>9, <1>10, <1>11

LEMMA WayStep ==
  ASSUME FileTypeOK, FileTypeOK', call # "crashed" => OnItsWay /\ PassedIs,
         NextFile, call' # "crashed"
  PROVE  OnItsWay' /\ PassedIs'
<1> USE DEF disk, program, history
<1>1. \/ \E size \in AppendSizes : Append_(size)
      \/ Flush \/ Sync \/ CloseWritable \/ SyncDirIfManifest
      \/ WriteUnbuffered \/ WriteFails \/ EndOfBuffer
      \/ EndOfAppend \/ EndOfFlush \/ CloseFails \/ SyncFd \/ CreateFile
  BY DEF NextFile, Crash
<1>2. call # "crashed"
  BY <1>1 DEF Append_, Flush, Sync, CloseWritable, SyncDirIfManifest, WriteUnbuffered, WriteFails,
              EndOfBuffer, EndOfAppend, EndOfFlush, CloseFails, SyncFd, CreateFile,
              FileTypeOK, WritingCalls
<1>3. OnItsWay /\ PassedIs
  BY <1>2
<1>4. /\ appended \in Nat /\ Len(buf_) \in Nat /\ Len(rest) \in Nat /\ Len(writing) \in Nat
      /\ Taken \in Nat /\ Taken = appended - Len(rest)
      /\ Len(buf_) <= Taken /\ Len(writing) <= Taken
      /\ call # "append" => rest = <<>> /\ Len(rest) = 0 /\ Taken = appended
      /\ call \notin WritingCalls => writing = <<>> /\ Len(writing) = 0
      /\ Passed \in Nat /\ Passed <= Taken
      /\ call \in WritingCalls => Passed = Taken - Len(writing)
      /\ call \notin WritingCalls => Passed = Taken - Len(buf_)
  BY <1>3, LengthsAre
<1>5. buf_ \in Seq(Nat) /\ rest \in Seq(Nat) /\ writing \in Seq(Nat)
  BY DEF FileTypeOK
<1>6. /\ Ends(rest, appended) /\ Ends(buf_, Taken) /\ Ends(writing, Taken)
      /\ Len(buf_) <= kWritableFileBufferSize /\ kWritableFileBufferSize \in Nat
      /\ \A n \in Nat : Ends(<<>>, n)
      /\ Len(<<>>) = 0
  BY <1>3, NothingEnds, BufferAssumption DEF OnItsWay, BufferAssumption
<1>0. Len(<<>>) <= kWritableFileBufferSize
  BY <1>6
<1>7. ASSUME NEW size \in AppendSizes, Append_(size) PROVE OnItsWay' /\ PassedIs'
  <2> DEFINE copied == Lesser(size, kWritableFileBufferSize - Len(buf_))
             more   == Bytes(appended + 1, appended + copied)
             left   == Bytes(appended + copied + 1, appended + size)
  <2>1. size \in Nat
    BY BufferAssumption DEF BufferAssumption
  <2>2. copied \in Nat /\ copied <= size /\ Len(buf_) + copied <= kWritableFileBufferSize
    BY <1>4, <1>6, <2>1 DEF Lesser
  <2>3. /\ buf_' = buf_ \o more /\ rest' = left /\ appended' = appended + size
        /\ rest' = <<>> => UNCHANGED <<call, writing>>
        /\ rest' # <<>> => call' = "append" /\ writing' = buf_'
        /\ UNCHANGED <<content, reported, flushed>>
    BY <1>7 DEF Append_
  <2>4. call = "none" /\ call \notin WritingCalls
    BY <1>7 DEF Append_, WritingCalls
  <2> HIDE DEF copied, more, left
  <2>5. Ends(rest', appended') /\ Len(rest') = size - copied
    <3>1. /\ appended + copied \in Nat /\ appended + size \in Nat
          /\ appended + copied <= appended + size
      BY <1>4, <2>1, <2>2
    <3>2. Ends(left, appended + size) /\ Len(left) = (appended + size) - (appended + copied)
      BY <3>1, BytesAre DEF left
    <3> QED BY <1>4, <2>1, <2>2, <2>3, <3>2
  <2>6. Taken' = appended + copied
    BY <1>4, <2>1, <2>2, <2>3, <2>5 DEF Taken
  <2>7. Ends(buf_', Taken') /\ Len(buf_') = Len(buf_) + copied
    <3>1. appended + copied \in Nat /\ appended <= appended + copied /\ Ends(buf_, appended)
      BY <1>4, <1>6, <2>2, <2>4
    <3>2. Ends(buf_ \o more, appended + copied)
          /\ Len(buf_ \o more) = Len(buf_) + ((appended + copied) - appended)
      <4> DEFINE m == appended + copied
      <4>1. m \in Nat /\ appended \in Nat /\ appended <= m /\ buf_ \in Seq(Nat)
        BY <1>4, <1>5, <3>1
      <4> HIDE DEF m
      <4>2. Ends(buf_ \o Bytes(appended + 1, m), m)
            /\ Len(buf_ \o Bytes(appended + 1, m)) = Len(buf_) + (m - appended)
        BY <3>1, <4>1, EndsLater
      <4> QED BY <4>2 DEF m, more
    <3> QED BY <1>4, <2>2, <2>3, <2>6, <3>2
  <2>8. Taken' \in Nat /\ Passed = appended - Len(buf_)
    BY <1>4, <2>2, <2>4, <2>6
  <2>9. CASE rest' = <<>>
    <3>1. call' = "none" /\ call' \notin WritingCalls /\ writing' = <<>>
      BY <1>4, <2>3, <2>4, <2>9 DEF WritingCalls
    <3>2. Passed' = Passed
      <4>1. Passed' = Taken' - Len(buf_')
        BY <3>1 DEF Passed
      <4> QED BY <1>4, <2>2, <2>6, <2>7, <2>8, <4>1
    <3>3. PassedIs'
      BY <1>3, <2>3, <3>2, PassedStays
    <3>4. OnItsWay'
      BY <1>4, <1>6, <2>2, <2>5, <2>7, <2>8, <2>9, <3>1 DEF OnItsWay
    <3> QED BY <3>3, <3>4
  <2>10. CASE rest' # <<>>
    <3>1. call' = "append" /\ call' \in WritingCalls /\ writing' = buf_'
      BY <2>3, <2>10 DEF WritingCalls
    <3>2. Passed' = Passed
      <4>1. Passed' = Taken' - Len(buf_')
        BY <3>1 DEF Passed
      <4> QED BY <1>4, <2>2, <2>6, <2>7, <2>8, <4>1
    <3>3. PassedIs'
      BY <1>3, <2>3, <3>2, PassedStays
    <3>4. Len(buf_') <= kWritableFileBufferSize /\ Len(writing') <= Len(buf_')
      BY <1>4, <1>6, <2>2, <2>7, <3>1
    <3>5. OnItsWay'
      BY <2>5, <2>7, <3>1, <3>4 DEF OnItsWay
    <3> QED BY <3>3, <3>5
  <2> QED BY <2>9, <2>10
<1>8. CASE \/ Flush \/ CloseWritable
           \/ Sync /\ ~is_manifest_
           \/ SyncDirIfManifest /\ call' = "sync" /\ writing' = buf_
  <2>1. /\ call \in {"none", "sync directory"} /\ call' \in {"flush", "close", "sync"}
        /\ writing' = buf_ /\ rest' = rest
        /\ UNCHANGED <<buf_, content, appended, flushed>> /\ reported \subseteq reported'
    BY <1>8 DEF Flush, CloseWritable, Sync, SyncDirIfManifest, Fails
  <2>2. Taken' = Taken
    BY <2>1 DEF Taken
  <2>3. Passed' = Passed
    BY <1>4, <2>1, <2>2 DEF Passed, WritingCalls
  <2>4. PassedIs'
    BY <1>3, <2>1, <2>3, PassedStays
  <2>5. Ends(rest', appended') /\ Ends(buf_', Taken') /\ Ends(writing', Taken')
    BY <1>6, <2>1, <2>2
  <2>6. Len(buf_') <= kWritableFileBufferSize /\ Len(writing') <= Len(buf_')
    <3>1. Len(buf_') = Len(buf_) /\ Len(writing') = Len(buf_)
      BY <2>1
    <3> QED BY <1>4, <1>6, <3>1
  <2>7. rest' = <<>>
    BY <1>4, <2>1
  <2>8. call' \notin {"append unbuffered", "sync file"}
    BY <2>1
  <2>9. OnItsWay'
    BY <2>5, <2>6, <2>7, <2>8 DEF OnItsWay
  <2> QED BY <2>4, <2>9
<1>9. CASE \/ Sync /\ is_manifest_
           \/ SyncDirIfManifest /\ ~(call' = "sync" /\ writing' = buf_)
           \/ SyncFd \/ CreateFile
  <2>1. \/ UNCHANGED <<call, writing, rest>>
        \/ /\ call \in {"none", "sync directory", "sync file"}
           /\ call' \in {"none", "sync directory"}
           /\ writing' \in {<<>>, writing} /\ rest' \in {<<>>, rest}
    BY <1>9 DEF Sync, SyncDirIfManifest, SyncFd, CreateFile, Fails
  <2>2. UNCHANGED <<buf_, content, appended, flushed>> /\ reported \subseteq reported'
    BY <1>9 DEF Sync, SyncDirIfManifest, SyncFd, CreateFile, Fails
  <2>3. UNCHANGED <<writing, rest>>
    BY <1>4, <2>1 DEF WritingCalls
  <2>4. Taken' = Taken
    BY <2>2, <2>3 DEF Taken
  <2>5. Passed' = Passed
    BY <1>4, <2>1, <2>2, <2>3, <2>4 DEF Passed, WritingCalls
  <2>6. PassedIs'
    BY <1>3, <2>2, <2>5, PassedStays
  <2>7. Ends(rest', appended') /\ Ends(buf_', Taken') /\ Ends(writing', Taken')
    BY <1>6, <2>2, <2>3, <2>4
  <2>8. /\ Len(buf_') <= kWritableFileBufferSize
        /\ rest' # <<>> => call' = "append"
        /\ call' \in {"append unbuffered", "sync file"} => buf_' = <<>>
    BY <1>3, <1>6, <2>1, <2>2, <2>3 DEF OnItsWay
  <2>9. call' \in WritingCalls \ {"append unbuffered"} => Len(writing') <= Len(buf_')
    BY <1>3, <2>1, <2>2, <2>3 DEF OnItsWay, WritingCalls
  <2>10. OnItsWay'
    BY <2>7, <2>8, <2>9 DEF OnItsWay
  <2> QED BY <2>6, <2>10
<1>10. CASE WriteUnbuffered
  <2>1. UNCHANGED <<appended, buf_, call, rest, reported, flushed>> /\ call \in WritingCalls
    BY <1>10 DEF WriteUnbuffered, FileTypeOK
  <2>2. PICK n \in Nat :
          /\ n <= Len(writing) /\ Len(writing') = Len(writing) - n /\ Ends(writing', Taken)
          /\ DOMAIN content' = 1..(Len(content) + n)
          /\ \A i \in 1..(Len(content) + n) : content'[i] =
               IF i <= Len(content) THEN content[i] ELSE Passed + (i - Len(content))
    BY <1>3, <1>10, WriteIs
  <2>3. /\ Len(content) \in Nat /\ DOMAIN content = 1..Len(content)
        /\ \A i \in 1..Len(content) : content[i] \in Nat
    BY <1>3, <1>10, WriteIs
  <2>4. Taken' = Taken
    BY <2>1 DEF Taken
  <2>5. Passed' = Passed + n
    <3>1. Passed' = Taken' - Len(writing')
      BY <2>1 DEF Passed
    <3>2. Passed = Taken - Len(writing) /\ Taken \in Nat /\ Len(writing) \in Nat
      BY <1>4, <2>1
    <3> QED BY <2>2, <2>4, <3>1, <3>2
  <2>6. OnItsWay'
    <3>1. Ends(rest', appended') /\ Ends(buf_', Taken') /\ Ends(writing', Taken')
      BY <1>6, <2>1, <2>2, <2>4
    <3>2. Len(writing') \in Nat /\ Len(writing') <= Len(writing)
      BY <1>4, <2>2
    <3>3. /\ Len(buf_') <= kWritableFileBufferSize
          /\ rest' # <<>> => call' = "append"
          /\ call' \in {"append unbuffered", "sync file"} => buf_' = <<>>
      BY <1>3, <2>1 DEF OnItsWay
    <3>4. call' \in WritingCalls \ {"append unbuffered"} => Len(writing') <= Len(buf_')
      <4>1. SUFFICES ASSUME call \in WritingCalls \ {"append unbuffered"}
                     PROVE  Len(writing') <= Len(buf_)
        BY <2>1
      <4>2. Len(writing) <= Len(buf_)
        BY <1>3, <4>1 DEF OnItsWay
      <4> QED BY <1>4, <3>2, <4>2
    <3> QED BY <3>1, <3>3, <3>4 DEF OnItsWay
  <2>7. ASSUME NEW i \in DOMAIN content' PROVE content'[i] <= Passed'
    <3>1. CASE i <= Len(content)
      <4>1. content'[i] = content[i] /\ i \in DOMAIN content
        BY <2>2, <2>3, <3>1
      <4>2. content[i] <= Passed /\ content[i] \in Nat
        BY <1>3, <2>3, <4>1 DEF PassedIs
      <4> QED BY <1>4, <2>2, <2>5, <4>1, <4>2
    <3>2. CASE ~(i <= Len(content))
      BY <1>4, <2>2, <2>3, <2>5, <3>2
    <3> QED BY <3>1, <3>2
  <2>8. ASSUME NEW b \in 1..Passed' PROVE b \in InFile' \cup reported'
    <3>1. CASE b <= Passed
      <4>1. b \in InFile \cup reported
        BY <1>3, <1>4, <2>2, <2>5, <3>1 DEF PassedIs
      <4>2. InFile \subseteq InFile'
        BY <2>2, <2>3 DEF InFile
      <4> QED BY <2>1, <4>1, <4>2
    <3>2. CASE ~(b <= Passed)
      <4> DEFINE i == Len(content) + (b - Passed)
      <4>1. i \in 1..(Len(content) + n) /\ ~(i <= Len(content)) /\ Passed + (i - Len(content)) = b
        BY <1>4, <2>2, <2>3, <2>5, <3>2
      <4>2. content'[i] = b
        BY <2>2, <4>1
      <4> HIDE DEF i
      <4> QED BY <2>2, <4>1, <4>2 DEF InFile
    <3> QED BY <3>1, <3>2
  <2>9. flushed' <= Passed'
    <3>1. flushed \in Nat /\ flushed <= Passed
      BY <1>3 DEF PassedIs, FileTypeOK
    <3> QED BY <1>4, <2>1, <2>2, <2>5, <3>1
  <2> QED BY <2>6, <2>7, <2>8, <2>9 DEF PassedIs
<1>11. CASE WriteFails \/ CloseFails
  <2>1. /\ call' \notin WritingCalls /\ call' \notin {"append", "append unbuffered", "sync file"}
        /\ writing' = <<>> /\ rest' = <<>> /\ buf_' = <<>>
        /\ UNCHANGED <<content, appended, flushed>>
        /\ reported' = reported \cup (flushed + 1)..appended
    BY <1>11 DEF WriteFails, CloseFails, Fails, WritingCalls
  <2>2. Taken' = appended /\ Passed' = appended
    <3>1. Taken' = appended - 0
      BY <1>6, <2>1 DEF Taken
    <3>2. Passed' = Taken' - 0
      BY <1>6, <2>1 DEF Passed
    <3> QED BY <1>4, <3>1, <3>2
  <2>3. PassedIs'
    BY <1>3, <2>1, <2>2, PassedStays
  <2>4. Ends(rest', appended') /\ Ends(buf_', Taken') /\ Ends(writing', Taken')
    BY <1>4, <1>6, <2>1, <2>2
  <2>5. Len(buf_') <= kWritableFileBufferSize
    BY <1>0, <2>1
  <2>6. OnItsWay'
    BY <2>1, <2>4, <2>5 DEF OnItsWay
  <2> QED BY <2>3, <2>6
<1>12. CASE EndOfBuffer
  <2>1. /\ call = "append" /\ call \in WritingCalls /\ writing = <<>> /\ rest' = <<>>
        /\ UNCHANGED <<content, appended, flushed, reported>>
    BY <1>12 DEF EndOfBuffer, Written, WritingCalls
  <2>2. Taken' = appended /\ Passed = appended - Len(rest)
    BY <1>4, <1>6, <2>1 DEF Taken
  <2>3. CASE Len(rest) < kWritableFileBufferSize
    <3>1. call' = "none" /\ call' \notin WritingCalls /\ buf_' = rest /\ writing' = <<>>
      BY <1>12, <2>1, <2>3 DEF EndOfBuffer, WritingCalls
    <3>2. Passed' = Passed
      BY <2>2, <3>1 DEF Passed
    <3>3. PassedIs'
      BY <1>3, <2>1, <3>2, PassedStays
    <3>4. Ends(rest', appended') /\ Ends(buf_', Taken') /\ Ends(writing', Taken')
      BY <1>4, <1>6, <2>1, <2>2, <3>1
    <3>5. Len(buf_') <= kWritableFileBufferSize
      BY <1>4, <1>6, <2>3, <3>1
    <3>6. OnItsWay'
      BY <2>1, <3>1, <3>4, <3>5 DEF OnItsWay
    <3> QED BY <3>3, <3>6
  <2>4. CASE ~(Len(rest) < kWritableFileBufferSize)
    <3>1. call' = "append unbuffered" /\ call' \in WritingCalls /\ buf_' = <<>> /\ writing' = rest
      BY <1>12, <2>4 DEF EndOfBuffer, WritingCalls
    <3>2. Passed' = Passed
      BY <2>2, <3>1 DEF Passed
    <3>3. PassedIs'
      BY <1>3, <2>1, <3>2, PassedStays
    <3>4. Ends(rest', appended') /\ Ends(buf_', Taken') /\ Ends(writing', Taken')
      BY <1>4, <1>6, <2>1, <2>2, <3>1
    <3>5. Len(buf_') <= kWritableFileBufferSize
      BY <1>0, <3>1
    <3>6. OnItsWay'
      BY <2>1, <3>1, <3>4, <3>5 DEF OnItsWay
    <3> QED BY <3>3, <3>6
  <2> QED BY <2>3, <2>4
<1>13. CASE EndOfAppend \/ EndOfFlush
  <2>1. /\ call \in {"append unbuffered", "flush", "sync", "close"} /\ writing = <<>>
        /\ call' \in {"none", "sync file", "closed"}
        /\ UNCHANGED <<content, appended, reported, writing, rest>> /\ flushed' = appended
    BY <1>13 DEF EndOfAppend, EndOfFlush, Written
  <2>2. buf_' = <<>>
    BY <1>3, <1>13 DEF EndOfAppend, EndOfFlush, OnItsWay
  <2>3. Passed = appended /\ Taken' = appended /\ rest' = <<>>
    BY <1>4, <1>6, <2>1 DEF Taken, WritingCalls
  <2>4. Passed' = appended
    BY <1>4, <1>6, <2>1, <2>2, <2>3 DEF Passed, WritingCalls
  <2>5. PassedIs'
    BY <1>3, <2>1, <2>3, <2>4, PassedStays
  <2>6. Ends(rest', appended') /\ Ends(buf_', Taken') /\ Ends(writing', Taken')
    BY <1>4, <1>6, <2>1, <2>2, <2>3
  <2>7. call' \notin WritingCalls
    BY <2>1 DEF WritingCalls
  <2>8. Len(buf_') <= kWritableFileBufferSize
    BY <1>0, <2>2
  <2>9. OnItsWay'
    BY <2>1, <2>2, <2>3, <2>6, <2>7, <2>8 DEF OnItsWay
  <2> QED BY <2>5, <2>9
<1>14. /\ Sync => (Sync /\ is_manifest_) \/ (Sync /\ ~is_manifest_)
       /\ SyncDirIfManifest => \/ SyncDirIfManifest /\ call' = "sync" /\ writing' = buf_
                               \/ SyncDirIfManifest /\ ~(call' = "sync" /\ writing' = buf_)
  BY Zenon
<1>15. CASE \E size \in AppendSizes : Append_(size)
  BY <1>7, <1>15
<1> QED BY <1>1, <1>8, <1>9, <1>10, <1>11, <1>12, <1>13, <1>14, <1>15, Zenon

-----------------------------------------------------------------------------
(* What becomes of the file.                                               *)

(* The file stays, grows by the next bytes, or is cut behind what is       *)
(* synced.                                                                 *)
LEMMA ContentStep ==
  ASSUME FileTypeOK, call # "crashed" => OnItsWay /\ PassedIs, NextFile
  PROVE  \/ content' = content
         \/ /\ call # "crashed"
            /\ \E n \in Nat :
                 /\ DOMAIN content' = 1..(Len(content) + n)
                 /\ \A i \in 1..(Len(content) + n) : content'[i] =
                      IF i <= Len(content) THEN content[i] ELSE Passed + (i - Len(content))
         \/ \E left \in synced..Len(content) :
              DOMAIN content' = 1..left /\ \A i \in 1..left : content'[i] = content[i]
<1>1. content \in Seq(Nat) /\ Len(content) \in Nat /\ synced \in 0..Len(content)
  <2>1. content \in Seq(1..appended) /\ 1..appended \subseteq Nat
    BY DEF FileTypeOK
  <2> QED BY <2>1, SeqMonotonic, LenProperties DEF FileTypeOK
<1>2. CASE WriteUnbuffered
  <2>1. call # "crashed"
    BY <1>2 DEF WriteUnbuffered, FileTypeOK, WritingCalls
  <2> QED BY <1>2, <2>1, WriteIs
<1>3. CASE Crash
  <2>1. PICK left \in synced..Len(content) : content' = SubSeq(content, 1, left)
    BY <1>3 DEF Crash
  <2>2. left \in Nat /\ left <= Len(content)
    BY <1>1, <2>1
  <2>3. \A i \in 1..left : content[i] \in Nat
    BY <1>1, <2>2, ElementOfSeq
  <2>4. /\ SubSeq(content, 1, left) \in Seq(Nat) /\ Len(SubSeq(content, 1, left)) = left
        /\ \A i \in 1..left : SubSeq(content, 1, left)[i] = content[i]
    BY <1>1, <2>2, <2>3, SubSeqProperties
  <2>5. DOMAIN SubSeq(content, 1, left) = 1..left
    BY <2>4, LenProperties
  <2> QED BY <2>1, <2>4, <2>5
<1>4. CASE ~WriteUnbuffered /\ ~Crash
  BY <1>4 DEF NextFile, Append_, Flush, Sync, CloseWritable, SyncDirIfManifest, WriteFails,
              EndOfBuffer, EndOfAppend, EndOfFlush, CloseFails, SyncFd, CreateFile, disk
<1> QED BY <1>2, <1>3, <1>4

LEMMA AscendingStep ==
  ASSUME FileTypeOK, Ascending, call # "crashed" => OnItsWay /\ PassedIs, NextFile
  PROVE  Ascending'
<1>1. /\ Len(content) \in Nat /\ DOMAIN content = 1..Len(content)
      /\ \A i \in 1..Len(content) : content[i] \in Nat
  <2>1. content \in Seq(1..appended) /\ 1..appended \subseteq Nat
    BY DEF FileTypeOK
  <2>2. content \in Seq(Nat)
    BY <2>1, SeqMonotonic
  <2> QED BY <2>2, ElementOfSeq, LenProperties
<1>2. CASE content' = content
  BY <1>2 DEF Ascending
<1>3. ASSUME NEW n \in Nat, call # "crashed",
             DOMAIN content' = 1..(Len(content) + n),
             \A i \in 1..(Len(content) + n) : content'[i] =
               IF i <= Len(content) THEN content[i] ELSE Passed + (i - Len(content))
      PROVE  Ascending'
  <2>1. Passed \in Nat /\ \A i \in 1..Len(content) : content[i] <= Passed
    BY <1>1, <1>3, LengthsAre DEF PassedIs
  <2>2. ASSUME NEW i \in 1..(Len(content) + n), NEW j \in 1..(Len(content) + n), i < j
        PROVE  content'[i] < content'[j]
    <3>1. CASE j <= Len(content)
      <4>1. i \in 1..Len(content) /\ j \in 1..Len(content)
        BY <1>1, <2>2, <3>1
      <4> QED BY <1>1, <1>3, <2>2, <4>1 DEF Ascending
    <3>2. CASE ~(j <= Len(content)) /\ i <= Len(content)
      <4>1. i \in 1..Len(content) /\ content'[i] = content[i]
            /\ content'[j] = Passed + (j - Len(content))
        BY <1>1, <1>3, <3>2
      <4>2. content[i] \in Nat /\ content[i] <= Passed
        BY <1>1, <2>1, <4>1
      <4> QED BY <1>1, <2>1, <3>2, <4>1, <4>2
    <3>3. CASE ~(i <= Len(content))
      <4>1. ~(j <= Len(content))
        BY <1>1, <2>2, <3>3
      <4>2. content'[i] = Passed + (i - Len(content)) /\ content'[j] = Passed + (j - Len(content))
        BY <1>3, <3>3, <4>1
      <4> QED BY <1>1, <2>1, <2>2, <4>2
    <3> QED BY <3>1, <3>2, <3>3
  <2> QED BY <1>3, <2>2 DEF Ascending
<1>4. ASSUME NEW left \in synced..Len(content), DOMAIN content' = 1..left,
             \A i \in 1..left : content'[i] = content[i]
      PROVE  Ascending'
  <2>1. 1..left \subseteq DOMAIN content
    BY <1>1 DEF FileTypeOK
  <2> QED BY <1>4, <2>1 DEF Ascending
<1> QED BY <1>2, <1>3, <1>4, ContentStep

(* What is synced stays where it is.                                       *)
LEMMA SyncedBytesStay ==
  ASSUME FileTypeOK, call # "crashed" => OnItsWay /\ PassedIs, NextFile
  PROVE  \A i \in 1..synced : content'[i] = content[i]
<1>1. Len(content) \in Nat /\ synced \in Nat /\ synced <= Len(content)
  BY LenProperties DEF FileTypeOK
<1>2. ASSUME NEW i \in 1..synced, NEW n \in Nat,
             \A j \in 1..(Len(content) + n) : content'[j] =
               IF j <= Len(content) THEN content[j] ELSE Passed + (j - Len(content))
      PROVE  content'[i] = content[i]
  <2>1. i \in 1..(Len(content) + n) /\ i <= Len(content)
    BY <1>1
  <2> QED BY <1>2, <2>1
<1>3. ASSUME NEW i \in 1..synced, NEW left \in synced..Len(content),
             \A j \in 1..left : content'[j] = content[j]
      PROVE  content'[i] = content[i]
  <2>1. i \in 1..left
    BY <1>1
  <2> QED BY <1>3, <2>1
<1> QED BY <1>2, <1>3, ContentStep

LEMMA DurableStep ==
  ASSUME FileTypeOK, DurableIs, call # "crashed" => OnItsWay /\ PassedIs, NextFile
  PROVE  DurableIs'
<1> USE DEF disk, program, history
<1>1. synced \in Nat /\ \A i \in 1..synced : content'[i] = content[i]
  BY SyncedBytesStay DEF FileTypeOK
<1>2. \/ UNCHANGED <<synced, durable>>
      \/ SyncFd /\ synced' = Len(content) /\ durable' = appended /\ UNCHANGED <<content, reported>>
  BY DEF NextFile, Append_, Flush, Sync, CloseWritable, SyncDirIfManifest, WriteUnbuffered,
         WriteFails, EndOfBuffer, EndOfAppend, EndOfFlush, CloseFails, SyncFd, CreateFile, Crash
<1>3. reported \subseteq reported'
  BY DEF NextFile, Append_, Flush, Sync, CloseWritable, SyncDirIfManifest, WriteUnbuffered, Fails,
         WriteFails, EndOfBuffer, EndOfAppend, EndOfFlush, CloseFails, SyncFd, CreateFile, Crash
<1>4. CASE UNCHANGED <<synced, durable>>
  <2>1. {content'[i] : i \in 1..synced} = {content[i] : i \in 1..synced}
    BY <1>1
  <2> QED BY <1>3, <1>4, <2>1 DEF DurableIs
<1>5. CASE SyncFd /\ synced' = Len(content) /\ durable' = appended /\ UNCHANGED <<content, reported>>
  <2>1. call = "sync file" /\ call # "crashed" /\ call \notin WritingCalls /\ call # "append"
    BY <1>5 DEF SyncFd, WritingCalls
  <2>2. OnItsWay /\ PassedIs /\ buf_ = <<>> /\ Len(<<>>) = 0
    BY <2>1, NothingEnds DEF OnItsWay
  <2>3. Passed = appended
    BY <2>1, <2>2, LengthsAre
  <2>4. InFile = {content[i] : i \in 1..Len(content)}
    BY LenProperties DEF InFile, FileTypeOK
  <2>5. 1..appended \subseteq {content[i] : i \in 1..Len(content)} \cup reported
    BY <2>2, <2>3, <2>4 DEF PassedIs
  <2> QED BY <1>5, <2>5 DEF DurableIs
<1> QED BY <1>2, <1>4, <1>5

LEMMA NamesStep ==
  ASSUME FileTypeOK, NamesAre, call # "crashed" => OnItsWay /\ PassedIs, NextFile
  PROVE  NamesAre'
<1> USE DEF disk, program, history
<1> SUFFICES ASSUME is_manifest_'
             PROVE  /\ \A i \in 1..synced' : saidOf'[content'[i]] <= entries'
                    /\ call' \in {"sync", "sync file"} =>
                         \A b \in 1..appended' : saidOf'[b] <= entries'
  BY DEF NamesAre
<1>1. is_manifest_
  BY DEF NextFile, Append_, Flush, Sync, CloseWritable, SyncDirIfManifest, WriteUnbuffered,
         WriteFails, EndOfBuffer, EndOfAppend, EndOfFlush, CloseFails, SyncFd, CreateFile, Crash
<1>t. /\ appended \in Nat /\ files \in Nat /\ entries \in Nat /\ entries <= files
      /\ Len(content) \in Nat /\ synced \in 0..Len(content)
      /\ \A i \in 1..Len(content) : content[i] \in 1..appended
      /\ saidOf \in Seq(0..files) /\ Len(saidOf) = appended
      /\ \A b \in 1..appended : saidOf[b] \in 0..files
  <2>1. content \in Seq(1..appended) /\ saidOf \in Seq(0..files) /\ Len(saidOf) = appended
    BY DEF FileTypeOK
  <2>2. Len(content) \in Nat /\ \A i \in 1..Len(content) : content[i] \in 1..appended
    BY <2>1, ElementOfSeq, LenProperties
  <2>3. \A b \in 1..appended : saidOf[b] \in 0..files
    BY <2>1, ElementOfSeq
  <2> QED BY <2>1, <2>2, <2>3 DEF FileTypeOK
<1>2. /\ \A i \in 1..synced : saidOf[content[i]] <= entries
      /\ call \in {"sync", "sync file"} => \A b \in 1..appended : saidOf[b] <= entries
  BY <1>1 DEF NamesAre
<1>3. \/ UNCHANGED entries
      \/ SyncDirIfManifest /\ entries' = files
  BY DEF NextFile, Append_, Flush, Sync, CloseWritable, SyncDirIfManifest, WriteUnbuffered,
         WriteFails, EndOfBuffer, EndOfAppend, EndOfFlush, CloseFails, SyncFd, CreateFile, Crash
<1>4. \/ UNCHANGED synced
      \/ SyncFd /\ synced' = Len(content) /\ UNCHANGED <<content, saidOf, entries>>
  BY DEF NextFile, Append_, Flush, Sync, CloseWritable, SyncDirIfManifest, WriteUnbuffered,
         WriteFails, EndOfBuffer, EndOfAppend, EndOfFlush, CloseFails, SyncFd, CreateFile, Crash
<1>5. entries' >= entries /\ entries' \in Nat
  BY <1>3, <1>t
<1>6. \A b \in 1..appended : saidOf'[b] = saidOf[b]
  <2>1. ASSUME NEW size \in AppendSizes, Append_(size), NEW b \in 1..appended
        PROVE  saidOf'[b] = saidOf[b]
    <3> DEFINE more == [i \in 1..size |-> files]
    <3>1. size \in Nat
      BY BufferAssumption DEF BufferAssumption
    <3>2. more \in Seq(Nat) /\ Len(more) = size
      <4>1. more \in [1..size -> Nat]
        BY <1>t
      <4> QED BY <3>1, <4>1 DEF Seq
    <3>3. saidOf' = saidOf \o more
      BY <2>1 DEF Append_
    <3> HIDE DEF more
    <3>4. saidOf \in Seq(Nat)
      <4>1. 0..files \subseteq Nat
        OBVIOUS
      <4> QED BY <1>t, <4>1, SeqMonotonic
    <3>5. \A i \in 1..(Len(saidOf) + Len(more)) :
            (saidOf \o more)[i] = IF i <= Len(saidOf) THEN saidOf[i] ELSE more[i - Len(saidOf)]
      BY <3>2, <3>4, ConcatProperties
    <3>6. b \in 1..(Len(saidOf) + Len(more)) /\ b <= Len(saidOf)
      BY <1>t, <3>1, <3>2
    <3> QED BY <3>3, <3>5, <3>6
  <2>2. CASE \E size \in AppendSizes : Append_(size)
    BY <2>1, <2>2
  <2>3. CASE ~ \E size \in AppendSizes : Append_(size)
    BY <2>3 DEF NextFile, Flush, Sync, CloseWritable, SyncDirIfManifest, WriteUnbuffered,
         WriteFails, EndOfBuffer, EndOfAppend, EndOfFlush, CloseFails, SyncFd, CreateFile, Crash
  <2> QED BY <2>2, <2>3
<1>7. ASSUME NEW i \in 1..synced' PROVE saidOf'[content'[i]] <= entries'
  <2>1. CASE UNCHANGED synced
    <3>1. i \in 1..synced /\ i \in 1..Len(content) /\ content'[i] = content[i]
      BY <1>t, <2>1, SyncedBytesStay
    <3>2. content[i] \in 1..appended /\ saidOf[content[i]] <= entries
      BY <1>2, <1>t, <3>1
    <3>3. saidOf'[content[i]] = saidOf[content[i]] /\ saidOf[content[i]] \in 0..files
      BY <1>6, <1>t, <3>2
    <3> QED BY <1>5, <1>t, <3>1, <3>2, <3>3
  <2>2. CASE SyncFd /\ synced' = Len(content) /\ UNCHANGED <<content, saidOf, entries>>
    <3>1. call = "sync file"
      BY <2>2 DEF SyncFd
    <3> QED BY <1>2, <1>t, <2>2, <3>1
  <2> QED BY <1>4, <2>1, <2>2
<1>8. ASSUME call' \in {"sync", "sync file"}, NEW b \in 1..appended' PROVE saidOf'[b] <= entries'
  <2>1. \/ SyncDirIfManifest /\ entries' = files /\ UNCHANGED <<appended, saidOf>>
        \/ call \in {"sync", "sync file"} /\ UNCHANGED <<appended, saidOf, entries>>
    <3>1. CASE SyncDirIfManifest
      BY <1>8, <3>1 DEF SyncDirIfManifest, Fails
    <3>2. CASE SyncFd \/ WriteFails \/ CloseFails
      BY <1>8, <3>2 DEF SyncFd, WriteFails, CloseFails, Fails
    <3>3. CASE EndOfBuffer \/ EndOfAppend \/ EndOfFlush
      BY <1>8, <3>3 DEF EndOfBuffer, EndOfAppend, EndOfFlush
    <3>4. CASE Sync \/ Flush \/ CloseWritable
      BY <1>1, <1>8, <3>4 DEF Sync, Flush, CloseWritable
    <3>5. CASE \E size \in AppendSizes : Append_(size)
      BY <1>8, <3>5 DEF Append_
    <3>6. CASE WriteUnbuffered \/ CreateFile \/ Crash
      BY <1>8, <3>6 DEF WriteUnbuffered, CreateFile, Crash
    <3> QED BY <3>1, <3>2, <3>3, <3>4, <3>5, <3>6 DEF NextFile
  <2>2. b \in 1..appended /\ saidOf'[b] = saidOf[b] /\ saidOf[b] \in 0..files
    BY <1>6, <1>8, <1>t, <2>1
  <2>3. CASE entries' = files
    BY <1>t, <2>2, <2>3
  <2>4. CASE call \in {"sync", "sync file"} /\ entries' = entries
    BY <1>2, <2>2, <2>4
  <2> QED BY <2>1, <2>3, <2>4
<1> QED BY <1>7, <1>8

(* The parts of the invariant say what is promised.                        *)
LEMMA FileInvSays == FileInv => FileIsWritten
<1> SUFFICES ASSUME FileInv PROVE FileIsWritten
  OBVIOUS
<1>t. /\ appended \in Nat /\ Len(content) \in Nat /\ synced \in 0..Len(content)
      /\ DOMAIN content = 1..Len(content)
  BY LenProperties DEF FileInv, FileTypeOK
<1>1. \A i \in 1..(Len(content) - 1) : content[i] < content[i + 1]
  <2>1. ASSUME NEW i \in 1..(Len(content) - 1) PROVE content[i] < content[i + 1]
    <3>1. i \in DOMAIN content /\ i + 1 \in DOMAIN content /\ i < i + 1
      BY <1>t
    <3> QED BY <3>1 DEF FileInv, Ascending
  <2> QED BY <2>1
<1>2. ASSUME call # "crashed", NEW b \in 1..appended
      PROVE  \/ b \in InFile \cup reported
             \/ \E s \in {buf_, writing, rest} : \E i \in DOMAIN s : s[i] = b
  <2>1. FileTypeOK /\ OnItsWay /\ PassedIs
    BY <1>2 DEF FileInv
  <2>2. ASSUME NEW s \in Seq(Nat), NEW n \in Nat, Ends(s, n), b <= n, b > n - Len(s)
        PROVE  \E i \in DOMAIN s : s[i] = b
    <3> DEFINE i == b - (n - Len(s))
    <3>1. Len(s) \in Nat /\ DOMAIN s = 1..Len(s)
      BY <2>2, LenProperties
    <3>2. i \in 1..Len(s)
      BY <1>2, <1>t, <2>2, <3>1
    <3>3. s[i] = n - Len(s) + i
      BY <2>2, <3>2 DEF Ends
    <3>4. s[i] = b
      BY <1>2, <1>t, <2>2, <3>1, <3>3
    <3> QED BY <3>1, <3>2, <3>4
  <2>3. /\ Ends(rest, appended) /\ Ends(buf_, Taken) /\ Ends(writing, Taken)
        /\ rest \in Seq(Nat) /\ buf_ \in Seq(Nat) /\ writing \in Seq(Nat)
    BY <2>1 DEF OnItsWay, FileTypeOK
  <2>4. /\ Len(rest) \in Nat /\ Taken \in Nat /\ Taken = appended - Len(rest) /\ Passed \in Nat
        /\ Len(buf_) \in Nat /\ Len(writing) \in Nat
        /\ call \in WritingCalls => Passed = Taken - Len(writing)
        /\ call \notin WritingCalls => Passed = Taken - Len(buf_)
    BY <2>1, LengthsAre
  <2>5. CASE b <= Passed
    <3>1. b \in 1..Passed
      BY <2>4, <2>5
    <3> QED BY <2>1, <3>1 DEF PassedIs
  <2>6. CASE b > Taken
    <3>1. \E i \in DOMAIN rest : rest[i] = b
      BY <1>t, <2>2, <2>3, <2>4, <2>6
    <3> QED BY <3>1
  <2>7. CASE ~(b <= Passed) /\ ~(b > Taken) /\ call \in WritingCalls
    <3>1. b <= Taken /\ b > Taken - Len(writing)
      BY <2>4, <2>7
    <3>2. \E i \in DOMAIN writing : writing[i] = b
      BY <2>2, <2>3, <2>4, <3>1
    <3> QED BY <3>2
  <2>8. CASE ~(b <= Passed) /\ ~(b > Taken) /\ call \notin WritingCalls
    <3>1. b <= Taken /\ b > Taken - Len(buf_)
      BY <2>4, <2>8
    <3>2. \E i \in DOMAIN buf_ : buf_[i] = b
      BY <2>2, <2>3, <2>4, <3>1
    <3> QED BY <3>2
  <2> QED BY <2>5, <2>6, <2>7, <2>8
<1>3. 1..durable \subseteq InFile \cup reported
  <2>1. {content[i] : i \in 1..synced} \subseteq InFile
    BY <1>t DEF InFile
  <2> QED BY <2>1 DEF FileInv, DurableIs
<1>4. NamesComeFirst
  BY DEF FileInv, NamesAre, NamesComeFirst
<1> QED BY <1>1, <1>2, <1>3, <1>4 DEF FileIsWritten, NothingLostSilently

(* Whatever the size of the buffer and of the appends, however little a    *)
(* write() takes and whichever call fails, what is appended comes into the *)
(* file in its order, or is on its way there, or a call has reported that  *)
(* it may be lost; what Sync has returned for survives a crash; and a      *)
(* manifest is not durable before the names of the files it speaks of.     *)
THEOREM FileWritten == SpecFile => []FileIsWritten
<1>1. InitFile => FileInv
  BY InitFileInv
<1>2. FileInv /\ [NextFile]_writeVars => FileInv'
  <2> SUFFICES ASSUME FileInv, [NextFile]_writeVars PROVE FileInv'
    OBVIOUS
  <2>1. CASE NextFile
    <3>1. FileTypeOK /\ Ascending /\ DurableIs /\ NamesAre
          /\ (call # "crashed" => OnItsWay /\ PassedIs)
      BY DEF FileInv
    <3>2. FileTypeOK'
      BY <2>1, <3>1, FileTypeStep
    <3>3. Ascending' /\ DurableIs' /\ NamesAre'
      BY <2>1, <3>1, AscendingStep, DurableStep, NamesStep
    <3>4. call' # "crashed" => OnItsWay' /\ PassedIs'
      BY <2>1, <3>1, <3>2, WayStep
    <3> QED BY <3>2, <3>3, <3>4 DEF FileInv
  <2>2. CASE UNCHANGED writeVars
    <3> USE <2>2 DEF writeVars, disk, program, history
    <3>1. FileTypeOK'
      BY DEF FileInv, FileTypeOK
    <3>2. Ascending' /\ DurableIs' /\ NamesAre'
      BY DEF FileInv, Ascending, DurableIs, NamesAre
    <3>3. Taken' = Taken
      BY DEF Taken
    <3>4. Passed' = Passed /\ InFile' = InFile
      BY <3>3 DEF Passed, InFile
    <3>5. OnItsWay => OnItsWay'
      BY <3>3 DEF OnItsWay, Ends
    <3>6. PassedIs => PassedIs'
      BY <3>4 DEF PassedIs
    <3> QED BY <3>1, <3>2, <3>5, <3>6 DEF FileInv
  <2> QED BY <2>1, <2>2
<1> QED BY <1>1, <1>2, FileInvSays, PTL DEF SpecFile

-----------------------------------------------------------------------------
(***************************************************************************)
(* LRUCache and TableCache, for any clients, keys, hashes and capacity.    *)
(***************************************************************************)

(* A set of numbers has a least one.                                       *)
LEMMA LeastNumber ==
  ASSUME NEW S \in SUBSET Nat, S # {}
  PROVE  \E k \in S : \A m \in S : k <= m
<1> DEFINE R == OpToRel(<, Nat)
<1>1. IsWellFoundedOn(R, Nat)
  BY NatLessThanWellFounded
<1>2. PICK k \in S : \A m \in S : ~ (<<m, k>> \in R)
  <2> HIDE DEF R
  <2> QED BY <1>1, WFMin
<1>3. ASSUME NEW m \in S PROVE k <= m
  <2>1. <<m, k>> \notin {ss \in Nat \X Nat : ss[1] < ss[2]}
    BY <1>2 DEF OpToRel
  <2> QED BY <2>1
<1> QED BY <1>3

(* A loop of n passes, each of which makes of a value in V another one.    *)
IsLoop(f, n, s, pass) == f[0] = s /\ \A m \in 1..n : f[m] = pass[<<m, f[m - 1]>>]

LEMMA LoopExists ==
  ASSUME NEW V, NEW s \in V, NEW n \in Nat, NEW pass \in [(1..n) \X V -> V]
  PROVE  \E f \in [0..n -> V] : IsLoop(f, n, s, pass)
<1> DEFINE Q(f, k) == /\ f \in [0..k -> V]
                      /\ f[0] = s /\ \A m \in 1..k : f[m] = pass[<<m, f[m - 1]>>]
           Bad == {k \in 0..n : \A f : ~Q(f, k)}
<1>1. Bad = {}
  <2> SUFFICES ASSUME Bad # {} PROVE FALSE
    OBVIOUS
  <2>1. PICK k \in Bad : \A m \in Bad : k <= m
    <3>1. Bad \in SUBSET Nat
      OBVIOUS
    <3> HIDE DEF Bad
    <3> QED BY <3>1, LeastNumber
  <2>2. k # 0
    <3>1. Q([m \in 0..0 |-> s], 0)
      OBVIOUS
    <3> HIDE DEF Q
    <3> QED BY <2>1, <3>1
  <2>3. k \in 1..n /\ k - 1 \in 0..n /\ k - 1 \notin Bad
    <3>1. k \in 1..n /\ k - 1 \in 0..n /\ k - 1 < k
      BY <2>1, <2>2
    <3> HIDE DEF Bad
    <3> QED BY <2>1, <3>1
  <2>4. PICK f : Q(f, k - 1)
    BY <2>3
  <2> DEFINE g == [m \in 0..k |-> IF m = k THEN pass[<<k, f[k - 1]>>] ELSE f[m]]
  <2>5. f \in [0..(k - 1) -> V] /\ k - 1 \in 0..(k - 1)
    BY <2>3, <2>4
  <2>6. g \in [0..k -> V]
    <3>1. \A m \in 0..k : m # k => m \in 0..(k - 1)
      BY <2>3
    <3>2. pass[<<k, f[k - 1]>>] \in V
      BY <2>3, <2>5
    <3> QED BY <2>5, <3>1, <3>2
  <2>7. g[0] = s
    BY <2>3, <2>4
  <2>8. ASSUME NEW m \in 1..k PROVE g[m] = pass[<<m, g[m - 1]>>]
    <3>1. CASE m = k
      <4>1. g[k - 1] = f[k - 1] /\ g[k] = pass[<<k, f[k - 1]>>]
        BY <2>3
      <4> QED BY <3>1, <4>1
    <3>2. CASE m # k
      <4>1. m \in 1..(k - 1) /\ g[m] = f[m] /\ g[m - 1] = f[m - 1]
        BY <2>3, <3>2
      <4> QED BY <2>4, <4>1
    <3> QED BY <3>1, <3>2
  <2>9. Q(g, k)
    <3> HIDE DEF g
    <3> QED BY <2>6, <2>7, <2>8
  <2> HIDE DEF Q, g
  <2> QED BY <2>1, <2>9
<1>2. n \in 0..n
  OBVIOUS
<1>3. PICK f : Q(f, n)
  <2>1. ~(n \in {k \in 0..n : \A f : ~Q(f, k)})
    BY <1>1
  <2> HIDE DEF Q
  <2> QED BY <1>2, <2>1
<1> QED BY <1>3 DEF IsLoop

(* What holds before the first pass, and after a pass if it did before,    *)
(* holds after each.                                                       *)
LEMMA LoopKeeps ==
  ASSUME NEW n \in Nat, NEW J, 0 \in J, \A m \in 1..n : m - 1 \in J => m \in J
  PROVE  \A m \in 0..n : m \in J
<1> DEFINE Bad == {m \in 0..n : m \notin J}
<1>1. Bad = {}
  <2> SUFFICES ASSUME Bad # {} PROVE FALSE
    OBVIOUS
  <2>1. PICK k \in Bad : \A m \in Bad : k <= m
    <3>1. Bad \in SUBSET Nat
      OBVIOUS
    <3> HIDE DEF Bad
    <3> QED BY <3>1, LeastNumber
  <2>2. k \in 1..n /\ k - 1 \in 0..n /\ k - 1 < k
    BY <2>1
  <2>3. k - 1 \notin Bad
    <3> HIDE DEF Bad
    <3> QED BY <2>1, <2>2
  <2> QED BY <2>1, <2>2, <2>3
<1> QED BY <1>1

-----------------------------------------------------------------------------
(* Lists of entries, none of them twice *)

Holding(s) == {s[i] : i \in DOMAIN s}

Once(s) == \A i, j \in DOMAIN s : s[i] = s[j] => i = j

List == {s \in Seq(Nat) : Once(s)}

LEMMA WithoutType ==
  ASSUME NEW s \in Seq(Nat), NEW e
  PROVE  Without(s, e) \in Seq(Nat)
<1> DEFINE where == CHOOSE i \in DOMAIN s : s[i] = e
           r  == [i \in 1..(Len(s) - 1) |-> IF i < where THEN s[i] ELSE s[i + 1]]
<1>1. Len(s) \in Nat /\ DOMAIN s = 1..Len(s) /\ \A i \in 1..Len(s) : s[i] \in Nat
  BY LenProperties, ElementOfSeq
<1>2. CASE \A i \in DOMAIN s : s[i] # e
  BY <1>2 DEF Without
<1>3. CASE ~\A i \in DOMAIN s : s[i] # e
  <2>1. Without(s, e) = r
    BY <1>3 DEF Without
  <2>2. where \in 1..Len(s)
    BY <1>1, <1>3
  <2> HIDE DEF where
  <2>3. Len(s) - 1 \in Nat /\ \A i \in 1..(Len(s) - 1) : i \in 1..Len(s) /\ i + 1 \in 1..Len(s)
    BY <1>1, <2>2
  <2>4. \A i \in 1..(Len(s) - 1) : (IF i < where THEN s[i] ELSE s[i + 1]) \in Nat
    BY <1>1, <2>3
  <2>5. r \in [1..(Len(s) - 1) -> Nat]
    BY <2>4
  <2> QED BY <2>1, <2>3, <2>5, SeqDef
<1> QED BY <1>2, <1>3

LEMMA WithoutIs ==
  ASSUME NEW s \in List, NEW e
  PROVE  Without(s, e) \in List /\ Holding(Without(s, e)) = Holding(s) \ {e}
<1> DEFINE where == CHOOSE i \in DOMAIN s : s[i] = e
           n  == Len(s)
           r  == [i \in 1..(n - 1) |-> IF i < where THEN s[i] ELSE s[i + 1]]
<1>1. /\ s \in Seq(Nat) /\ n \in Nat /\ DOMAIN s = 1..n
      /\ \A i, j \in 1..n : s[i] = s[j] => i = j
  BY LenProperties DEF List, Once
<1>2. CASE \A i \in DOMAIN s : s[i] # e
  BY <1>2 DEF Without, Holding
<1>3. CASE ~\A i \in DOMAIN s : s[i] # e
  <2>1. Without(s, e) = r
    BY <1>3 DEF Without
  <2>2. where \in 1..n /\ s[where] = e
    BY <1>1, <1>3
  <2> HIDE DEF where, n
  <2>3. DOMAIN r = 1..(n - 1)
    OBVIOUS
  <2>4. \A i \in 1..(n - 1) : r[i] = IF i < where THEN s[i] ELSE s[i + 1]
    OBVIOUS
  <2> HIDE DEF r
  <2>5. Once(r)
    <3> SUFFICES ASSUME NEW i \in 1..(n - 1), NEW j \in 1..(n - 1), r[i] = r[j] PROVE i = j
      BY <2>3 DEF Once
    <3> DEFINE a == IF i < where THEN i ELSE i + 1
               b == IF j < where THEN j ELSE j + 1
    <3>1. a \in 1..n /\ b \in 1..n /\ (a = b => i = j)
      BY <1>1, <2>2
    <3>2. r[i] = s[a] /\ r[j] = s[b]
      BY <2>4
    <3> HIDE DEF a, b
    <3> QED BY <1>1, <3>1, <3>2
  <2>6. r \in Seq(Nat)
    BY <1>1, <2>1, WithoutType
  <2>7. ASSUME NEW x \in Holding(r) PROVE x \in Holding(s) \ {e}
    <3>1. PICK i \in 1..(n - 1) : x = r[i]
      BY <2>3 DEF Holding
    <3> DEFINE a == IF i < where THEN i ELSE i + 1
    <3>2. a \in 1..n /\ a # where
      BY <1>1, <2>2
    <3>3. x = s[a]
      BY <2>4, <3>1
    <3> HIDE DEF a
    <3> QED BY <1>1, <2>2, <3>2, <3>3 DEF Holding
  <2>8. ASSUME NEW x \in Holding(s) \ {e} PROVE x \in Holding(r)
    <3>1. PICK i \in 1..n : x = s[i]
      BY <1>1 DEF Holding
    <3>2. i # where
      BY <2>2, <2>8, <3>1
    <3> DEFINE a == IF i < where THEN i ELSE i - 1
    <3>3. a \in 1..(n - 1) /\ r[a] = s[i]
      BY <1>1, <2>2, <2>4, <3>2
    <3> HIDE DEF a
    <3> QED BY <2>3, <3>1, <3>3 DEF Holding
  <2> QED BY <2>1, <2>5, <2>6, <2>7, <2>8 DEF List
<1> QED BY <1>2, <1>3

LEMMA JoinedIs ==
  ASSUME NEW s \in List, NEW t \in List, Holding(s) \cap Holding(t) = {}
  PROVE  s \o t \in List /\ Holding(s \o t) = Holding(s) \cup Holding(t)
<1> DEFINE m == Len(s)
           n == Len(t)
           r == s \o t
<1>1. /\ s \in Seq(Nat) /\ m \in Nat /\ DOMAIN s = 1..m
      /\ t \in Seq(Nat) /\ n \in Nat /\ DOMAIN t = 1..n
      /\ \A i, j \in 1..m : s[i] = s[j] => i = j
      /\ \A i, j \in 1..n : t[i] = t[j] => i = j
  BY LenProperties DEF List, Once
<1>2. /\ r \in Seq(Nat) /\ DOMAIN r = 1..(m + n)
      /\ \A i \in 1..m : r[i] = s[i]
      /\ \A i \in (m + 1)..(m + n) : r[i] = t[i - m]
  <2>1. r \in Seq(Nat) /\ Len(r) = m + n
    BY <1>1, ConcatProperties
  <2>2. DOMAIN r = 1..(m + n)
    BY <2>1, LenProperties
  <2>3. \A i \in 1..(m + n) : r[i] = IF i <= m THEN s[i] ELSE t[i - m]
    BY <1>1, ConcatProperties
  <2> HIDE DEF r, m, n
  <2> QED BY <1>1, <2>1, <2>2, <2>3
<1> HIDE DEF m, n, r
<1>3. ASSUME NEW i \in 1..m, NEW j \in 1..n PROVE s[i] # t[j]
  <2>1. s[i] \in Holding(s) /\ t[j] \in Holding(t)
    BY <1>1 DEF Holding
  <2> QED BY <2>1
<1>4. ASSUME NEW i \in 1..(m + n)
      PROVE  \/ i \in 1..m /\ r[i] = s[i]
             \/ i \in (m + 1)..(m + n) /\ i - m \in 1..n /\ r[i] = t[i - m]
  <2>1. i \in 1..m \/ (i \in (m + 1)..(m + n) /\ i - m \in 1..n)
    BY <1>1
  <2> QED BY <1>2, <2>1
<1>5. Once(r)
  <2> SUFFICES ASSUME NEW i \in 1..(m + n), NEW j \in 1..(m + n), r[i] = r[j] PROVE i = j
    BY <1>2 DEF Once
  <2>1. CASE i \in 1..m /\ r[i] = s[i] /\ j \in 1..m /\ r[j] = s[j]
    BY <1>1, <2>1
  <2>2. CASE /\ i - m \in 1..n /\ r[i] = t[i - m] /\ j - m \in 1..n /\ r[j] = t[j - m]
    <3>1. i - m = j - m
      BY <1>1, <2>2
    <3> QED BY <1>1, <3>1
  <2>3. CASE i \in 1..m /\ r[i] = s[i] /\ j - m \in 1..n /\ r[j] = t[j - m]
    BY <1>3, <2>3
  <2>4. CASE j \in 1..m /\ r[j] = s[j] /\ i - m \in 1..n /\ r[i] = t[i - m]
    BY <1>3, <2>4
  <2> QED BY <1>4, <2>1, <2>2, <2>3, <2>4
<1>6. ASSUME NEW x \in Holding(r) PROVE x \in Holding(s) \cup Holding(t)
  <2>1. PICK i \in 1..(m + n) : x = r[i]
    BY <1>2 DEF Holding
  <2>2. CASE i \in 1..m /\ r[i] = s[i]
    BY <1>1, <2>1, <2>2 DEF Holding
  <2>3. CASE i - m \in 1..n /\ r[i] = t[i - m]
    BY <1>1, <2>1, <2>3 DEF Holding
  <2> QED BY <1>4, <2>1, <2>2, <2>3
<1>7. ASSUME NEW i \in 1..m PROVE s[i] \in Holding(r)
  <2>1. i \in 1..(m + n)
    BY <1>1
  <2> QED BY <1>2, <2>1 DEF Holding
<1>8. ASSUME NEW i \in 1..n PROVE t[i] \in Holding(r)
  <2>1. m + i \in (m + 1)..(m + n) /\ m + i \in 1..(m + n) /\ (m + i) - m = i
    BY <1>1
  <2>2. r[m + i] = t[i]
    BY <1>2, <2>1
  <2> QED BY <1>2, <2>1, <2>2 DEF Holding
<1>9. Holding(s) \cup Holding(t) \subseteq Holding(r)
  BY <1>1, <1>7, <1>8 DEF Holding
<1> QED BY <1>2, <1>5, <1>6, <1>9 DEF List, r

LEMMA OneIs ==
  ASSUME NEW e \in Nat
  PROVE  <<e>> \in List /\ Holding(<<e>>) = {e} /\ <<>> \in List /\ Holding(<<>>) = {}
<1>1. <<e>> \in Seq(Nat) /\ DOMAIN <<e>> = 1..1 /\ <<e>>[1] = e /\ <<>> \in Seq(Nat) /\ DOMAIN <<>> = {}
  OBVIOUS
<1> QED BY <1>1 DEF List, Once, Holding

LEMMA AppendedIs ==
  ASSUME NEW s \in List, NEW e \in Nat, e \notin Holding(s)
  PROVE  Append(s, e) \in List /\ Holding(Append(s, e)) = Holding(s) \cup {e}
<1>1. Append(s, e) = s \o <<e>>
  <2>1. s \in Seq(Nat)
    BY DEF List
  <2> QED BY <2>1
<1> QED BY <1>1, OneIs, JoinedIs

LEMMA ReplacedIs ==
  ASSUME NEW s \in List, NEW i \in DOMAIN s, NEW e \in Nat, e \notin Holding(s)
  PROVE  LET r == [s EXCEPT ![i] = e]
         IN  r \in List /\ Holding(r) = (Holding(s) \ {s[i]}) \cup {e}
<1> DEFINE r == [s EXCEPT ![i] = e]
<1>1. s \in Seq(Nat) /\ \A j, k \in DOMAIN s : s[j] = s[k] => j = k
  BY DEF List, Once
<1>2. r \in Seq(Nat)
  BY <1>1, ExceptSeq
<1>3. DOMAIN r = DOMAIN s /\ \A j \in DOMAIN s : r[j] = IF j = i THEN e ELSE s[j]
  OBVIOUS
<1>4. \A j \in DOMAIN s : s[j] # e
  BY DEF Holding
<1> HIDE DEF r
<1>5. Once(r)
  BY <1>1, <1>3, <1>4 DEF Once
<1>6. Holding(r) = (Holding(s) \ {s[i]}) \cup {e}
  <2>1. ASSUME NEW x \in Holding(r) PROVE x \in (Holding(s) \ {s[i]}) \cup {e}
    BY <1>1, <1>3 DEF Holding
  <2>2. ASSUME NEW x \in (Holding(s) \ {s[i]}) \cup {e} PROVE x \in Holding(r)
    BY <1>3 DEF Holding
  <2> QED BY <2>1, <2>2
<1> QED BY <1>2, <1>5, <1>6 DEF List, r

-----------------------------------------------------------------------------
(* The hash table *)

Positive == Nat \ {0}

(* There is at least one bucket.                                           *)
LEMMA LengthForIs ==
  ASSUME NEW n \in Nat
  PROVE  LengthFor(n) \in Positive
<1> DEFINE pass == [p \in (1..n) \X Positive |-> IF p[2] < n THEN 2 * p[2] ELSE p[2]]
           Doubled[i \in 0..n] == IF i = 0 THEN MinLength
                                  ELSE IF Doubled[i - 1] < n THEN 2 * Doubled[i - 1] ELSE Doubled[i - 1]
<1>1. MinLength \in Positive /\ pass \in [(1..n) \X Positive -> Positive]
  BY CacheAssumption DEF Positive
<1>2. \A m \in 1..n, v \in Positive : pass[<<m, v>>] = IF v < n THEN 2 * v ELSE v
  OBVIOUS
<1>3. PICK f \in [0..n -> Positive] : IsLoop(f, n, MinLength, pass)
  <2> HIDE DEF pass
  <2> QED BY <1>1, LoopExists
<1>4. ASSUME NEW m \in 0..n, m # 0
      PROVE  f[m] = IF f[m - 1] < n THEN 2 * f[m - 1] ELSE f[m - 1]
  <2>1. m \in 1..n /\ m - 1 \in 0..n
    BY <1>4
  <2> HIDE DEF pass
  <2> QED BY <1>2, <1>3, <2>1 DEF IsLoop
<1>5. f = [i \in 0..n |-> IF i = 0 THEN MinLength
                          ELSE IF f[i - 1] < n THEN 2 * f[i - 1] ELSE f[i - 1]]
  <2> HIDE DEF pass
  <2> QED BY <1>3, <1>4 DEF IsLoop
<1>6. PICK g : /\ g = [i \in 0..n |-> IF i = 0 THEN MinLength
                                     ELSE IF g[i - 1] < n THEN 2 * g[i - 1] ELSE g[i - 1]]
               /\ LengthFor(n) = g[n]
  BY <1>5 DEF LengthFor
<1>7. LengthFor(n) = g[n] /\ n \in 0..n
  BY <1>6
<1> DEFINE J == {m \in 0..n : g[m] \in Positive}
<1>8. 0 \in J
  BY <1>1, <1>6
<1>9. ASSUME NEW m \in 1..n, m - 1 \in J PROVE m \in J
  <2>1. g[m] = IF g[m - 1] < n THEN 2 * g[m - 1] ELSE g[m - 1]
    BY <1>6
  <2> QED BY <1>9, <2>1 DEF Positive
<1>10. \A m \in 0..n : m \in J
  <2> HIDE DEF J
  <2> QED BY <1>8, <1>9, LoopKeeps
<1>11. g[n] \in Positive
  BY <1>7, <1>10
<1> QED BY <1>7, <1>11

(* A table of L buckets that holds the entries of S by their hashes.       *)
Chained(table, L, hash, S) ==
  /\ table \in [0..(L - 1) -> List]
  /\ \A b \in 0..(L - 1) : Holding(table[b]) = {e \in S : hash[e] % L = b}

LEMMA LengthIs ==
  ASSUME NEW L \in Positive
  PROVE  Cardinality(0..(L - 1)) = L
<1>1. 0 \in Int /\ L - 1 \in Int
  BY DEF Positive
<1>2. Cardinality(0..(L - 1)) = IF 0 > L - 1 THEN 0 ELSE (L - 1) - 0 + 1
  BY <1>1, FS_Interval
<1> QED BY <1>2 DEF Positive

(* An entry is in one bucket.                                              *)
LEMMA BucketOf ==
  ASSUME NEW L \in Positive, NEW h \in Nat
  PROVE  h % L \in 0..(L - 1)
BY DEF Positive

IsChains(Chains, table, L) ==
  Chains = [b \in 0..L |-> IF b = 0 THEN <<>> ELSE Chains[b - 1] \o table[b - 1]]

(* The chains one after the other are a list of all entries.               *)
LEMMA AllChained ==
  ASSUME NEW L \in Positive, NEW S \in SUBSET Nat, NEW hash, \A e \in S : hash[e] \in Nat,
         NEW table, Chained(table, L, hash, S),
         NEW Chains, IsChains(Chains, table, L)
  PROVE  Chains[L] \in List /\ Holding(Chains[L]) = S
<1> DEFINE ChainOf == [e \in S |-> hash[e] % L]
           Below(m) == {e \in S : ChainOf[e] < m}
           J == {m \in 0..L : Chains[m] \in List /\ Holding(Chains[m]) = Below(m)}
<1>0. L \in Nat /\ L >= 1
  BY DEF Positive
<1>1. /\ \A e \in S : ChainOf[e] \in 0..(L - 1)
      /\ \A b \in 0..(L - 1) : Holding(table[b]) = {e \in S : ChainOf[e] = b}
  <2>1. \A e \in S : hash[e] \in Nat
    OBVIOUS
  <2>2. \A e \in S : ChainOf[e] = hash[e] % L
    OBVIOUS
  <2> HIDE DEF ChainOf
  <2>3. \A e \in S : ChainOf[e] \in 0..(L - 1)
    BY <2>1, <2>2, BucketOf
  <2> QED BY <2>2, <2>3 DEF Chained
<1> HIDE DEF ChainOf
<1>2. 0 \in J
  <2>1. Chains[0] = <<>> /\ 0 \in 0..L
    BY DEF Positive, IsChains
  <2>2. Below(0) = {}
    <3>1. \A e \in S : ~(ChainOf[e] < 0)
      BY <1>0, <1>1
    <3> QED BY <3>1
  <2> HIDE DEF Below
  <2>3. <<>> \in List /\ Holding(<<>>) = {}
    BY OneIs
  <2> QED BY <2>1, <2>2, <2>3
<1>3. ASSUME NEW m \in 1..L, m - 1 \in J PROVE m \in J
  <2>1. m - 1 \in 0..(L - 1) /\ m \in 0..L
    BY DEF Positive
  <2>2. Chains[m] = Chains[m - 1] \o table[m - 1]
    <3>1. Chains[m] = IF m = 0 THEN <<>> ELSE Chains[m - 1] \o table[m - 1]
      BY <2>1 DEF IsChains
    <3>2. m # 0
      BY <1>0
    <3> QED BY <3>1, <3>2, Zenon
  <2>3. Chains[m - 1] \in List /\ Holding(Chains[m - 1]) = Below(m - 1)
    BY <1>3
  <2>4. table[m - 1] \in List /\ Holding(table[m - 1]) = {e \in S : ChainOf[e] = m - 1}
    BY <1>1, <2>1 DEF Chained
  <2>5. Below(m - 1) \cap {e \in S : ChainOf[e] = m - 1} = {}
    BY <1>1, <2>1 DEF Positive
  <2>6. Below(m) = Below(m - 1) \cup {e \in S : ChainOf[e] = m - 1}
    <3>1. ASSUME NEW e \in S PROVE ChainOf[e] < m <=> (ChainOf[e] < m - 1 \/ ChainOf[e] = m - 1)
      <4>1. ChainOf[e] \in Int /\ m \in Int
        BY <1>0, <1>1
      <4> QED BY <4>1
    <3> QED BY <3>1
  <2> HIDE DEF Below
  <2>7. /\ Chains[m - 1] \o table[m - 1] \in List
        /\ Holding(Chains[m - 1] \o table[m - 1]) = Holding(Chains[m - 1]) \cup Holding(table[m - 1])
    BY <2>3, <2>4, <2>5, JoinedIs
  <2> QED BY <2>1, <2>2, <2>3, <2>4, <2>6, <2>7
<1>4. L \in J
  <2>1. L \in Nat /\ L \in 0..L
    BY DEF Positive
  <2> HIDE DEF J
  <2> QED BY <1>2, <1>3, <2>1, LoopKeeps
<1>5. Below(L) = S
  <2>1. \A e \in S : ChainOf[e] < L
    BY <1>0, <1>1
  <2> QED BY <2>1
<1> HIDE DEF Below
<1> QED BY <1>4, <1>5

(* An entry that is not in the table comes to the front of its chain.      *)
LEMMA ToFront ==
  ASSUME NEW L \in Positive, NEW S \in SUBSET Nat, NEW hash, \A e \in S : hash[e] \in Nat,
         NEW table, Chained(table, L, hash, S), NEW e \in Nat, hash[e] \in Nat, e \notin S
  PROVE  Chained([table EXCEPT ![hash[e] % L] = <<e>> \o @], L, hash, S \cup {e})
<1> DEFINE a == hash[e] % L
           r == [table EXCEPT ![a] = <<e>> \o @]
<1>1. a \in 0..(L - 1)
  <2>1. hash[e] \in Nat
    OBVIOUS
  <2> QED BY <2>1, BucketOf
<1>2. table \in [0..(L - 1) -> List]
  BY DEF Chained
<1>3. \A b \in 0..(L - 1) : r[b] = IF b = a THEN <<e>> \o table[b] ELSE table[b]
  BY <1>2
<1>4. \A b \in 0..(L - 1) : Holding(table[b]) = {d \in S : hash[d] % L = b}
  BY DEF Chained
<1>5. \A d \in {e} : hash[d] % L = a
  OBVIOUS
<1> HIDE DEF a
<1>6. <<e>> \o table[a] \in List /\ Holding(<<e>> \o table[a]) = {e} \cup Holding(table[a])
  <2>1. <<e>> \in List /\ Holding(<<e>>) = {e}
    BY OneIs
  <2>2. table[a] \in List /\ e \notin Holding(table[a])
    BY <1>1, <1>2, <1>4
  <2> QED BY <2>1, <2>2, JoinedIs
<1>7. r \in [0..(L - 1) -> List]
  <2>1. DOMAIN r = 0..(L - 1)
    BY <1>2
  <2>2. \A b \in 0..(L - 1) : r[b] \in List
    BY <1>2, <1>3, <1>6
  <2>3. r = [b \in 0..(L - 1) |-> r[b]]
    BY <1>2
  <2> HIDE DEF r
  <2> QED BY <2>2, <2>3
<1> HIDE DEF r
<1>8. ASSUME NEW b \in 0..(L - 1)
      PROVE  Holding(r[b]) = {d \in S \cup {e} : hash[d] % L = b}
  <2>1. CASE b = a
    <3>1. Holding(r[b]) = {e} \cup {d \in S : hash[d] % L = b}
      BY <1>3, <1>4, <1>6, <2>1
    <3> QED BY <1>5, <2>1, <3>1
  <2>2. CASE b # a
    <3>1. Holding(r[b]) = {d \in S : hash[d] % L = b}
      BY <1>3, <1>4, <2>2
    <3> QED BY <1>5, <2>2, <3>1
  <2> QED BY <2>1, <2>2
<1> QED BY <1>7, <1>8 DEF Chained, r, a

(* Resize keeps every entry, in the bucket of its hash.                    *)
LEMMA ResizedIs ==
  ASSUME NEW L \in Positive, NEW S \in SUBSET Nat, NEW hash, \A e \in S : hash[e] \in Nat,
         NEW table, Chained(table, L, hash, S)
  PROVE  \E M \in Positive : Chained(Resized(table, hash), M, hash, S)
<1> DEFINE Chains[b \in 0..Cardinality(DOMAIN table)] ==
             IF b = 0 THEN <<>> ELSE Chains[b - 1] \o table[b - 1]
           all    == Chains[Cardinality(DOMAIN table)]
           length == LengthFor(Len(all))
           Front(moved, e) == [moved EXCEPT ![hash[e] % length] = <<e>> \o @]
           Moved[i \in 0..Len(all)] ==
             IF i = 0 THEN [b \in 0..(length - 1) |-> <<>>] ELSE Front(Moved[i - 1], all[i])
<1>1. Resized(table, hash) = Moved[Len(all)]
  BY DEF Resized
<1>2. Cardinality(DOMAIN table) = L
  <2>1. DOMAIN table = 0..(L - 1)
    BY DEF Chained
  <2> QED BY <2>1, LengthIs
<1>3. Chains = [b \in 0..L |-> IF b = 0 THEN <<>> ELSE Chains[b - 1] \o table[b - 1]]
  <2> DEFINE V == Seq(Nat)
             pass == [p \in (1..L) \X V |-> p[2] \o table[p[1] - 1]]
  <2>1. L \in Nat /\ <<>> \in V /\ pass \in [(1..L) \X V -> V]
    <3>1. \A b \in 0..(L - 1) : table[b] \in Seq(Nat)
      BY DEF Chained, List
    <3>2. \A m \in 1..L : m - 1 \in 0..(L - 1)
      BY DEF Positive
    <3>3. \A m \in 1..L, v \in V : v \o table[m - 1] \in V
      BY <3>1, <3>2, ConcatProperties
    <3> QED BY <3>3 DEF Positive
  <2>2. \A m \in 1..L, v \in V : pass[<<m, v>>] = v \o table[m - 1]
    OBVIOUS
  <2> HIDE DEF V, pass
  <2> DEFINE none == <<>>
  <2> HIDE DEF none
  <2>3. PICK f \in [0..L -> V] : IsLoop(f, L, none, pass)
    <3>1. none \in V /\ L \in Nat /\ pass \in [(1..L) \X V -> V]
      BY <2>1 DEF none
    <3> QED BY ONLY <3>1, LoopExists
  <2>4. ASSUME NEW m \in 0..L, m # 0 PROVE f[m] = f[m - 1] \o table[m - 1]
    <3>1. m \in 1..L /\ m - 1 \in 0..L
      BY <2>1, <2>4
    <3> QED BY <2>2, <2>3, <3>1 DEF IsLoop
  <2>5. f = [b \in 0..L |-> IF b = 0 THEN <<>> ELSE f[b - 1] \o table[b - 1]]
    BY <2>3, <2>4 DEF none, IsLoop
  <2> QED BY <1>2, <2>5
<1> HIDE DEF Chains
<1>4. all \in List /\ Holding(all) = S
  <2>1. Chains[L] \in List /\ Holding(Chains[L]) = S
    <3>1. IsChains(Chains, table, L)
      BY <1>3 DEF IsChains
    <3> QED BY <3>1, AllChained
  <2> QED BY <1>2, <2>1
<1> HIDE DEF all
<1>5. /\ Len(all) \in Nat /\ DOMAIN all = 1..Len(all)
      /\ \A i \in 1..Len(all) : all[i] \in S
      /\ \A i, j \in 1..Len(all) : all[i] = all[j] => i = j
  <2>1. all \in Seq(Nat)
    BY <1>4 DEF List
  <2>2. Len(all) \in Nat /\ DOMAIN all = 1..Len(all)
    BY <2>1, LenProperties
  <2> QED BY <1>4, <2>2 DEF List, Once, Holding
<1>6. length \in Positive
  BY <1>5, LengthForIs
<1> HIDE DEF length
<1>7. Moved = [i \in 0..Len(all) |->
                 IF i = 0 THEN [b \in 0..(length - 1) |-> <<>>] ELSE Front(Moved[i - 1], all[i])]
  <2> DEFINE V == [0..(length - 1) -> Seq(Nat)]
             pass == [p \in (1..Len(all)) \X V |-> Front(p[2], all[p[1]])]
             none == [b \in 0..(length - 1) |-> <<>>]
  <2>1. pass \in [(1..Len(all)) \X V -> V] /\ none \in V
    <3>1. ASSUME NEW m \in 1..Len(all), NEW v \in V PROVE Front(v, all[m]) \in V
      <4>1. \A b \in 0..(length - 1) : v[b] \in Seq(Nat) /\ <<all[m]>> \o v[b] \in Seq(Nat)
        <5>1. all[m] \in Nat
          <6>1. all[m] \in S
            BY <1>5
          <6> QED BY <6>1
        <5>2. <<all[m]>> \in Seq(Nat)
          BY <5>1
        <5> QED BY <5>2, ConcatProperties
      <4> QED BY <4>1
    <3> HIDE DEF Front
    <3>2. pass \in [(1..Len(all)) \X V -> V]
      BY <3>1
    <3>3. <<>> \in Seq(Nat)
      OBVIOUS
    <3> QED BY <3>2, <3>3
  <2> HIDE DEF Front
  <2>2. \A m \in 1..Len(all), v \in V : pass[<<m, v>>] = Front(v, all[m])
    OBVIOUS
  <2> HIDE DEF V, pass, none
  <2>3. PICK f \in [0..Len(all) -> V] : IsLoop(f, Len(all), none, pass)
    <3>1. none \in V /\ Len(all) \in Nat /\ pass \in [(1..Len(all)) \X V -> V]
      BY <1>5, <2>1
    <3> QED BY ONLY <3>1, LoopExists
  <2>4. ASSUME NEW m \in 0..Len(all), m # 0 PROVE f[m] = Front(f[m - 1], all[m])
    <3>1. m \in 1..Len(all) /\ m - 1 \in 0..Len(all)
      BY <1>5, <2>4
    <3> QED BY <2>2, <2>3, <3>1 DEF IsLoop
  <2>5. f = [i \in 0..Len(all) |-> IF i = 0 THEN none ELSE Front(f[i - 1], all[i])]
    BY <2>3, <2>4 DEF IsLoop
  <2> USE DEF Front, none
  <2> QED BY <2>5
<1> HIDE DEF Moved
<1> DEFINE Some(m) == {all[i] : i \in 1..m}
           J == {m \in 0..Len(all) : Chained(Moved[m], length, hash, Some(m))}
<1>8. 0 \in J
  <2>1. 0 \in 0..Len(all) /\ Some(0) = {}
    BY <1>5
  <2>2. Moved[0] = [b \in 0..(length - 1) |-> <<>>]
    BY <1>7, <2>1
  <2>3. Chained([b \in 0..(length - 1) |-> <<>>], length, hash, {})
    BY OneIs DEF Chained
  <2> QED BY <2>1, <2>2, <2>3
<1>9. ASSUME NEW m \in 1..Len(all), m - 1 \in J PROVE m \in J
  <2>1. m \in 0..Len(all) /\ m # 0 /\ m - 1 \in 0..Len(all)
    BY <1>5
  <2>2. Moved[m] = Front(Moved[m - 1], all[m])
    BY <1>7, <2>1
  <2>3. Chained(Moved[m - 1], length, hash, Some(m - 1))
    BY <1>9
  <2>4. /\ Some(m - 1) \in SUBSET Nat /\ \A d \in Some(m - 1) : hash[d] \in Nat
        /\ all[m] \in Nat /\ hash[all[m]] \in Nat /\ all[m] \notin Some(m - 1)
    <3>1. \A i \in 1..(m - 1) : i \in 1..Len(all) /\ i # m
      BY <1>5, <2>1
    <3>2. \A i \in 1..(m - 1) : all[i] \in S /\ all[i] # all[m]
      BY <1>5, <3>1
    <3> QED BY <1>5, <3>2
  <2>5. Some(m) = Some(m - 1) \cup {all[m]}
    BY <1>5, <2>1
  <2> HIDE DEF Some, J
  <2>6. Chained([Moved[m - 1] EXCEPT ![hash[all[m]] % length] = <<all[m]>> \o @], length, hash,
                Some(m - 1) \cup {all[m]})
    BY <1>6, <2>3, <2>4, ToFront
  <2> USE DEF J
  <2> QED BY <2>1, <2>2, <2>5, <2>6
<1>10. Len(all) \in J
  <2>1. Len(all) \in 0..Len(all)
    BY <1>5
  <2> HIDE DEF J
  <2> QED BY <1>5, <1>8, <1>9, <2>1, LoopKeeps
<1>11. Some(Len(all)) = S
  BY <1>4, <1>5 DEF Holding
<1> HIDE DEF Some
<1> QED BY <1>1, <1>6, <1>10, <1>11

(* Chain b of a table, and what is in it.                                  *)
IsChain(chain, b, L, hash, S) ==
  /\ chain \in Seq(Nat) /\ Len(chain) \in Nat /\ DOMAIN chain = 1..Len(chain)
  /\ \A i \in 1..Len(chain) : chain[i] \in S /\ hash[chain[i]] % L = b
  /\ \A e \in S : hash[e] % L = b => \E i \in 1..Len(chain) : chain[i] = e

LEMMA ChainIs ==
  ASSUME NEW L \in Positive, NEW S \in SUBSET Nat, NEW hash, \A e \in S : hash[e] \in Nat,
         NEW table, Chained(table, L, hash, S), NEW b \in 0..(L - 1)
  PROVE  IsChain(table[b], b, L, hash, S)
<1>1. table[b] \in List /\ Holding(table[b]) = {e \in S : hash[e] % L = b}
  BY DEF Chained
<1>2. Len(table[b]) \in Nat /\ DOMAIN table[b] = 1..Len(table[b])
  BY <1>1, LenProperties DEF List
<1>3. ASSUME NEW i \in 1..Len(table[b]) PROVE table[b][i] \in S /\ hash[table[b][i]] % L = b
  <2>1. table[b][i] \in Holding(table[b])
    BY <1>2 DEF Holding
  <2> QED BY <1>1, <2>1
<1>4. ASSUME NEW e \in S, hash[e] % L = b PROVE \E i \in 1..Len(table[b]) : table[b][i] = e
  <2>1. e \in Holding(table[b])
    BY <1>1, <1>4
  <2> QED BY <1>2, <2>1 DEF Holding
<1> QED BY <1>1, <1>2, <1>3, <1>4 DEF List, IsChain

(* An entry that is taken out of every chain is in none of them.           *)
LEMMA WithoutEverywhere ==
  ASSUME NEW L \in Positive, NEW S \in SUBSET Nat, NEW hash, \A e \in S : hash[e] \in Nat,
         NEW table, Chained(table, L, hash, S), NEW e
  PROVE  Chained([b \in DOMAIN table |-> Without(table[b], e)], L, hash, S \ {e})
<1> DEFINE r == [b \in DOMAIN table |-> Without(table[b], e)]
<1>1. /\ table \in [0..(L - 1) -> List]
      /\ \A b \in 0..(L - 1) : Holding(table[b]) = {d \in S : hash[d] % L = b}
  BY DEF Chained
<1>2. \A b \in 0..(L - 1) : /\ Without(table[b], e) \in List
                            /\ Holding(Without(table[b], e)) = Holding(table[b]) \ {e}
  BY <1>1, WithoutIs
<1>3. r \in [0..(L - 1) -> List] /\ \A b \in 0..(L - 1) : r[b] = Without(table[b], e)
  BY <1>1, <1>2
<1> HIDE DEF r
<1>4. ASSUME NEW b \in 0..(L - 1) PROVE Holding(r[b]) = {d \in S \ {e} : hash[d] % L = b}
  BY <1>1, <1>2, <1>3
<1> QED BY <1>3, <1>4 DEF Chained, r

-----------------------------------------------------------------------------
(* What the table of the cache says of the heap *)

(* The hashes of the entries.                                              *)
Hashes == [e \in DOMAIN heap |-> HashOf[heap[e].key]]

HeapTyped == heap \in Seq([key : Key, charge : Int])

LEMMA HeapIs ==
  ASSUME HeapTyped
  PROVE  /\ Len(heap) \in Nat /\ DOMAIN heap = 1..Len(heap)
         /\ \A e \in 1..Len(heap) : heap[e].key \in Key /\ heap[e].charge \in Int
         /\ Hashes \in [1..Len(heap) -> Nat]
         /\ \A e \in 1..Len(heap) : Hashes[e] = HashOf[heap[e].key]
<1>1. Len(heap) \in Nat /\ DOMAIN heap = 1..Len(heap)
  BY LenProperties DEF HeapTyped
<1>2. \A e \in 1..Len(heap) : heap[e] \in [key : Key, charge : Int]
  <2> DEFINE E == [key : Key, charge : Int]
  <2>1. heap \in Seq(E)
    BY DEF HeapTyped
  <2> HIDE DEF E
  <2>2. \A e \in 1..Len(heap) : heap[e] \in E
    BY <2>1, ElementOfSeq
  <2> QED BY <2>2 DEF E
<1>3. \A e \in 1..Len(heap) : heap[e].key \in Key /\ heap[e].charge \in Int
  BY <1>2
<1>4. \A e \in 1..Len(heap) : HashOf[heap[e].key] \in Nat
  BY <1>3, CacheAssumption
<1> QED BY <1>1, <1>3, <1>4 DEF Hashes

(* Entries of one key are in one bucket, and the first of them is found.   *)
LEMMA FoundIs ==
  ASSUME HeapTyped, NEW S \in SUBSET (1..Len(heap)), NEW L \in Positive,
         Chained(table_, L, Hashes, S), NEW k \in Key
  PROVE  /\ length_ = L /\ Bucket(k) \in 0..(L - 1)
         /\ \/ /\ Found(k) = None /\ FindPointer(k) = Len(table_[Bucket(k)]) + 1
               /\ \A e \in S : heap[e].key # k
            \/ /\ Found(k) \in S /\ Found(k) # None /\ heap[Found(k)].key = k
               /\ FindPointer(k) \in 1..Len(table_[Bucket(k)])
               /\ Found(k) = table_[Bucket(k)][FindPointer(k)]
<1>1. length_ = L
  <2>1. DOMAIN table_ = 0..(L - 1)
    BY DEF Chained
  <2> QED BY <2>1, LengthIs DEF length_
<1>2. HashOf[k] \in Nat
  BY CacheAssumption
<1>3. Bucket(k) \in 0..(L - 1) /\ Bucket(k) = HashOf[k] % L
  BY <1>1, <1>2, BucketOf DEF Bucket
<1> DEFINE chain == table_[Bucket(k)]
           same  == {i \in DOMAIN chain : heap[chain[i]].key = k}
<1>4. /\ Len(chain) \in Nat /\ DOMAIN chain = 1..Len(chain)
      /\ \A i \in 1..Len(chain) : chain[i] \in S
      /\ \A e \in S : Hashes[e] % L = Bucket(k) => \E i \in 1..Len(chain) : chain[i] = e
  <2>1. S \in SUBSET Nat /\ \A e \in S : Hashes[e] \in Nat
    BY HeapIs
  <2>2. IsChain(table_[Bucket(k)], Bucket(k), L, Hashes, S)
    BY <1>3, <2>1, ChainIs
  <2> QED BY <2>2 DEF IsChain
<1>5. \A e \in S : Hashes[e] = HashOf[heap[e].key] /\ e # 0
  BY HeapIs
<1>6. CASE same = {}
  <2>1. FindPointer(k) = Len(chain) + 1
    BY <1>6 DEF FindPointer
  <2>2. Found(k) = None
    BY <1>4, <2>1 DEF Found
  <2>3. ASSUME NEW e \in S PROVE heap[e].key # k
    <3> SUFFICES ASSUME heap[e].key = k PROVE FALSE
      OBVIOUS
    <3>1. Hashes[e] % L = Bucket(k)
      BY <1>3, <1>5
    <3>2. PICK i \in 1..Len(chain) : chain[i] = e
      BY <1>4, <3>1
    <3> QED BY <1>4, <1>6, <3>2
  <2> QED BY <1>1, <1>3, <2>1, <2>2, <2>3
<1>7. CASE same # {}
  <2>1. PICK i \in same : \A j \in same : i <= j
    <3>1. same \in SUBSET Nat
      BY <1>4
    <3> HIDE DEF same
    <3> QED BY <1>7, <3>1, LeastNumber
  <2>2. FindPointer(k) \in same
    BY <1>7, <2>1 DEF FindPointer
  <2>3. FindPointer(k) \in 1..Len(chain) /\ heap[chain[FindPointer(k)]].key = k
    BY <1>4, <2>2
  <2>4. Found(k) = chain[FindPointer(k)]
    BY <1>4, <2>3 DEF Found
  <2>5. chain[FindPointer(k)] \in S
    BY <1>4, <2>3
  <2>6. chain[FindPointer(k)] # 0
    BY <1>5, <2>5
  <2> QED BY <1>1, <1>3, <2>3, <2>4, <2>5, <2>6 DEF None
<1> QED BY <1>6, <1>7

(* The hashes when entry n + 1, of key k, is made.                         *)
HashesWith(e, k) == [d \in 1..e |-> HashOf[IF d = e THEN k ELSE heap[d].key]]

(* The entries of S whose bucket is b.                                     *)
OfBucket(b, L, hash, S) == {d \in S : hash[d] % L = b}

(* A chain changes, and the others stay as they are.                       *)
LEMMA ChainChanges ==
  ASSUME NEW L \in Positive, NEW S, NEW T, NEW hash, NEW hash2,
         NEW table, Chained(table, L, hash, S), NEW a \in 0..(L - 1), NEW chain \in List,
         Holding(chain) = OfBucket(a, L, hash2, T),
         \A b \in 0..(L - 1) : b # a => OfBucket(b, L, hash2, T) = OfBucket(b, L, hash, S)
  PROVE  Chained([table EXCEPT ![a] = chain], L, hash2, T)
<1> DEFINE r == [table EXCEPT ![a] = chain]
<1>1. table \in [0..(L - 1) -> List] /\ \A b \in 0..(L - 1) : Holding(table[b]) = {d \in S : hash[d] % L = b}
  BY DEF Chained
<1>2. r \in [0..(L - 1) -> List] /\ \A b \in 0..(L - 1) : r[b] = IF b = a THEN chain ELSE table[b]
  BY <1>1
<1> HIDE DEF r
<1>3. ASSUME NEW b \in 0..(L - 1) PROVE Holding(r[b]) = {d \in T : hash2[d] % L = b}
  <2>1. CASE b = a
    BY <1>2, <2>1 DEF OfBucket
  <2>2. CASE b # a
    BY <1>1, <1>2, <2>2 DEF OfBucket
  <2> QED BY <2>1, <2>2
<1> QED BY <1>2, <1>3 DEF Chained, r

(* The table with an entry is one with it, in place of that of its key.    *)
LEMMA TableWithIs ==
  ASSUME HeapTyped, NEW S \in SUBSET (1..Len(heap)), NEW L \in Positive,
         Chained(table_, L, Hashes, S), NEW k \in Key, NEW e, e = Len(heap) + 1
  PROVE  \E M \in Positive : Chained(TableWith(e, k), M, HashesWith(e, k), (S \ {Found(k)}) \cup {e})
<1> DEFINE b      == Bucket(k)
           i      == FindPointer(k)
           old    == Found(k)
           chain  == table_[b]
           T      == (S \ {old}) \cup {e}
           hash2  == HashesWith(e, k)
           grown  == Append(chain, e)
           swapped == [chain EXCEPT ![i] = e]
           linked == [table_ EXCEPT ![b] = IF i > Len(chain) THEN grown ELSE swapped]
<1>1. /\ Len(heap) \in Nat /\ e \in Nat /\ e \notin S /\ e \in Positive /\ S \in SUBSET Nat
      /\ \A d \in S : d \in 1..e /\ d # e
  BY HeapIs DEF Positive
<1>2. /\ \A d \in S : hash2[d] = Hashes[d] /\ Hashes[d] \in Nat
      /\ hash2[e] = HashOf[k] /\ hash2[e] \in Nat
  <2>1. \A d \in S : Hashes[d] = HashOf[heap[d].key] /\ Hashes[d] \in Nat
    BY HeapIs
  <2>2. \A d \in S : hash2[d] = HashOf[heap[d].key]
    BY <1>1 DEF HashesWith
  <2>3. hash2[e] = HashOf[k]
    BY <1>1 DEF HashesWith, Positive
  <2> QED BY <2>1, <2>2, <2>3, CacheAssumption
<1> HIDE DEF hash2
<1>3. length_ = L /\ b \in 0..(L - 1) /\ b = hash2[e] % L
  BY FoundIs, <1>2 DEF Bucket
<1>4. \/ old = None /\ i = Len(chain) + 1
      \/ old \in S /\ old # None /\ heap[old].key = k /\ i \in 1..Len(chain) /\ old = chain[i]
  BY FoundIs
<1> HIDE DEF b, i, old
<1>5. chain \in List /\ Holding(chain) = {d \in S : Hashes[d] % L = b}
  BY <1>3 DEF Chained
<1>6. Len(chain) \in Nat /\ DOMAIN chain = 1..Len(chain)
  BY <1>5, LenProperties DEF List
<1>7. \A a \in 0..(L - 1) : a # b => OfBucket(a, L, hash2, T) = OfBucket(a, L, Hashes, S)
  <2>1. old \in S => Hashes[old] % L = b
    <3> SUFFICES ASSUME old \in S PROVE Hashes[old] % L = b
      OBVIOUS
    <3>1. heap[old].key = k
      BY <1>1, <1>4 DEF None, Positive
    <3>2. Hashes[old] = HashOf[heap[old].key]
      BY HeapIs
    <3> QED BY <1>2, <1>3, <3>1, <3>2
  <2> QED BY <1>2, <1>3, <2>1 DEF OfBucket
<1>8. Chained(linked, L, hash2, T)
  <2>1. CASE old = None /\ i = Len(chain) + 1
    <3>1. linked = [table_ EXCEPT ![b] = grown]
      <4>1. i > Len(chain)
        BY <1>6, <2>1
      <4> HIDE DEF chain, grown, swapped
      <4> QED BY <4>1
    <3>2. T = S \cup {e}
      BY <2>1 DEF None
    <3>3. grown \in List /\ Holding(grown) = {d \in S : Hashes[d] % L = b} \cup {e}
      BY <1>1, <1>5, AppendedIs
    <3>4. Holding(grown) = OfBucket(b, L, hash2, T)
      BY <1>2, <1>3, <3>2, <3>3 DEF OfBucket
    <3> HIDE DEF linked, grown, T, chain
    <3>5. Chained([table_ EXCEPT ![b] = grown], L, hash2, T)
      BY <1>3, <1>7, <3>3, <3>4, ChainChanges
    <3> QED BY <3>1, <3>5
  <2>2. CASE /\ old \in S /\ old # None /\ heap[old].key = k
             /\ i \in 1..Len(chain) /\ old = chain[i]
    <3>1. linked = [table_ EXCEPT ![b] = swapped]
      <4>1. ~(i > Len(chain))
        BY <1>6, <2>2
      <4> HIDE DEF chain, grown, swapped
      <4> QED BY <4>1
    <3>2. e \notin Holding(chain) /\ i \in DOMAIN chain
      BY <1>1, <1>5, <1>6, <2>2
    <3>3. swapped \in List /\ Holding(swapped) = ({d \in S : Hashes[d] % L = b} \ {old}) \cup {e}
      <4>1. swapped \in List /\ Holding(swapped) = (Holding(chain) \ {chain[i]}) \cup {e}
        <5> HIDE DEF chain
        <5> QED BY <1>1, <1>5, <3>2, ReplacedIs
      <4> HIDE DEF swapped
      <4> QED BY <1>5, <2>2, <4>1
    <3>4. Holding(swapped) = OfBucket(b, L, hash2, T)
      BY <1>1, <1>2, <1>3, <3>3 DEF OfBucket
    <3> HIDE DEF linked, swapped, T, chain
    <3>5. Chained([table_ EXCEPT ![b] = swapped], L, hash2, T)
      BY <1>3, <1>7, <3>3, <3>4, ChainChanges
    <3> QED BY <3>1, <3>5
  <2> QED BY <1>4, <2>1, <2>2
<1>9. TableWith(e, k) = Resized(linked, hash2) \/ TableWith(e, k) = linked
  BY DEF TableWith, HashesWith, b, i, hash2
<1>10. T \in SUBSET Nat /\ \A d \in T : hash2[d] \in Nat
  BY <1>1, <1>2
<1> HIDE DEF linked, T
<1>11. \E M \in Positive : Chained(Resized(linked, hash2), M, hash2, T)
  BY <1>8, <1>10, ResizedIs
<1>12. \E M \in Positive : Chained(TableWith(e, k), M, hash2, T)
  BY <1>8, <1>9, <1>11
<1> QED BY <1>12 DEF T, old, hash2

-----------------------------------------------------------------------------
(* The steps of LRUCache on the state of n entries *)

Tables == UNION {[0..(L - 1) -> List] : L \in Positive}

Books(n) == [refs : [1..n -> Int], in_cache : [1..n -> BOOLEAN], lru : List, in_use : Seq(Nat),
             table : Tables, usage : Int, deleted : [1..n -> Nat]]

(* One value of a function changes.                                        *)
LEMMA OneLess ==
  ASSUME NEW D, NEW f \in [D -> Int], NEW e \in D
  PROVE  [f EXCEPT ![e] = @ - 1] \in [D -> Int]
OBVIOUS

LEMMA OneMore ==
  ASSUME NEW D, NEW f \in [D -> Int], NEW e \in D
  PROVE  [f EXCEPT ![e] = @ + 1] \in [D -> Int]
OBVIOUS

LEMMA OnceMore ==
  ASSUME NEW D, NEW f \in [D -> Nat], NEW e \in D
  PROVE  [f EXCEPT ![e] = @ + 1] \in [D -> Nat]
OBVIOUS

LEMMA BooksAre ==
  ASSUME NEW n \in Nat, NEW s
  PROVE  s \in Books(n) <=>
           /\ s = [refs |-> s.refs, in_cache |-> s.in_cache, lru |-> s.lru, in_use |-> s.in_use,
                   table |-> s.table, usage |-> s.usage, deleted |-> s.deleted]
           /\ s.refs \in [1..n -> Int] /\ s.in_cache \in [1..n -> BOOLEAN]
           /\ s.lru \in List /\ s.in_use \in Seq(Nat) /\ s.table \in Tables /\ s.usage \in Int
           /\ s.deleted \in [1..n -> Nat]
BY DEF Books

LEMMA UnlinkedBooks ==
  ASSUME NEW n \in Nat, NEW s \in Books(n), NEW e
  PROVE  LRU_Remove(s, e) = [refs |-> s.refs, in_cache |-> s.in_cache, lru |-> Without(s.lru, e),
                             in_use |-> Without(s.in_use, e), table |-> s.table,
                             usage |-> s.usage, deleted |-> s.deleted]
<1>1. PICK a, b, c, d, f, g, h :
        s = [refs |-> a, in_cache |-> b, lru |-> c, in_use |-> d, table |-> f, usage |-> g, deleted |-> h]
  BY BooksAre
<1> DEFINE x == Without(s.lru, e)
           y == Without(s.in_use, e)
<1>2. LRU_Remove(s, e) = [s EXCEPT !.lru = x, !.in_use = y]
  BY DEF LRU_Remove
<1>3. x = Without(c, e) /\ y = Without(d, e)
  BY <1>1
<1> HIDE DEF x, y
<1>4. PICK t : t = [s EXCEPT !.lru = x]
  OBVIOUS
<1>5. [s EXCEPT !.lru = x, !.in_use = y] = [t EXCEPT !.in_use = y]
  BY <1>4
<1>6. t = [refs |-> a, in_cache |-> b, lru |-> x, in_use |-> d, table |-> f, usage |-> g, deleted |-> h]
  BY <1>1, <1>4
<1>7. [t EXCEPT !.in_use = y] =
        [refs |-> a, in_cache |-> b, lru |-> x, in_use |-> y, table |-> f, usage |-> g, deleted |-> h]
  BY <1>6
<1>8. LRU_Remove(s, e) = [refs |-> a, in_cache |-> b, lru |-> Without(c, e),
                          in_use |-> Without(d, e), table |-> f, usage |-> g, deleted |-> h]
  BY <1>2, <1>3, <1>5, <1>7
<1> QED BY <1>1, <1>8

(* Unref of an entry that the cache does not have.                         *)
LEMMA UnrefGone ==
  ASSUME NEW n \in Nat, NEW s \in Books(n), NEW e \in 1..n, ~s.in_cache[e]
  PROVE  Unref(s, e) = [refs |-> [s.refs EXCEPT ![e] = @ - 1], in_cache |-> s.in_cache,
                        lru |-> s.lru, in_use |-> s.in_use, table |-> s.table, usage |-> s.usage,
                        deleted |-> IF s.refs[e] = 1 THEN [s.deleted EXCEPT ![e] = @ + 1]
                                    ELSE s.deleted]
<1> DEFINE t == [s EXCEPT !.refs[e] = @ - 1]
<1>1. /\ s = [refs |-> s.refs, in_cache |-> s.in_cache, lru |-> s.lru, in_use |-> s.in_use,
              table |-> s.table, usage |-> s.usage, deleted |-> s.deleted]
      /\ s.refs \in [1..n -> Int] /\ s.deleted \in [1..n -> Nat]
  BY BooksAre
<1>2. t = [refs |-> [s.refs EXCEPT ![e] = @ - 1], in_cache |-> s.in_cache, lru |-> s.lru,
           in_use |-> s.in_use, table |-> s.table, usage |-> s.usage, deleted |-> s.deleted]
  <2>1. PICK a, b, c, d, f, g, h :
          s = [refs |-> a, in_cache |-> b, lru |-> c, in_use |-> d, table |-> f, usage |-> g, deleted |-> h]
    BY <1>1
  <2>2. t = [refs |-> [a EXCEPT ![e] = @ - 1], in_cache |-> b, lru |-> c, in_use |-> d, table |-> f,
             usage |-> g, deleted |-> h]
    BY <2>1
  <2> HIDE DEF t
  <2> QED BY <2>1, <2>2
<1>3. t.refs[e] = s.refs[e] - 1 /\ s.refs[e] \in Int
  BY <1>1, <1>2
<1>4. ~t.in_cache[e]
  BY <1>2
<1>5. Unref(s, e) = IF t.refs[e] = 0 THEN [t EXCEPT !.deleted[e] = @ + 1] ELSE t
  BY <1>4 DEF Unref
<1> HIDE DEF t
<1>6. CASE s.refs[e] = 1
  <2>1. t.refs[e] = 0
    BY <1>3, <1>6
  <2>2. Unref(s, e) = [t EXCEPT !.deleted[e] = @ + 1]
    BY <1>5, <2>1
  <2> QED BY <1>2, <1>6, <2>2
<1>7. CASE s.refs[e] # 1
  <2>1. t.refs[e] # 0
    BY <1>3, <1>7
  <2> QED BY <1>2, <1>5, <1>7, <2>1
<1> QED BY <1>6, <1>7

(* r is s when entry e has left the cache.                                 *)
IsErased(r, s, n, e) ==
  /\ r \in Books(n) /\ r.refs = [s.refs EXCEPT ![e] = @ - 1]
  /\ r.in_cache = [s.in_cache EXCEPT ![e] = FALSE] /\ r.lru = Without(s.lru, e)
  /\ r.table = s.table
  /\ r.deleted = IF s.refs[e] = 1 THEN [s.deleted EXCEPT ![e] = @ + 1] ELSE s.deleted

LEMMA ErasedBooks ==
  ASSUME NEW n \in Nat, NEW s \in Books(n), NEW e \in 1..n, NEW charge \in Int
  PROVE  IsErased(FinishErase(s, e, charge), s, n, e)
<1> DEFINE u == LRU_Remove(s, e)
           t == [u EXCEPT !.in_cache[e] = FALSE, !.usage = @ - charge]
           r == FinishErase(s, e, charge)
<1>1. /\ s.refs \in [1..n -> Int] /\ s.in_cache \in [1..n -> BOOLEAN]
      /\ s.lru \in List /\ s.in_use \in Seq(Nat) /\ s.table \in Tables /\ s.usage \in Int
      /\ s.deleted \in [1..n -> Nat]
  BY BooksAre
<1>2. u = [refs |-> s.refs, in_cache |-> s.in_cache, lru |-> Without(s.lru, e),
           in_use |-> Without(s.in_use, e), table |-> s.table, usage |-> s.usage,
           deleted |-> s.deleted]
  BY UnlinkedBooks
<1> HIDE DEF u
<1>3. t = [refs |-> s.refs, in_cache |-> [s.in_cache EXCEPT ![e] = FALSE],
           lru |-> Without(s.lru, e), in_use |-> Without(s.in_use, e), table |-> s.table,
           usage |-> s.usage - charge, deleted |-> s.deleted]
  <2>1. PICK a, b, c, d, f, g, h :
          /\ u = [refs |-> a, in_cache |-> b, lru |-> c, in_use |-> d, table |-> f, usage |-> g,
                  deleted |-> h]
          /\ a = s.refs /\ b = s.in_cache /\ c = Without(s.lru, e) /\ d = Without(s.in_use, e)
          /\ f = s.table /\ g = s.usage /\ h = s.deleted
    BY <1>2
  <2>2. t = [refs |-> a, in_cache |-> [b EXCEPT ![e] = FALSE], lru |-> c, in_use |-> d, table |-> f,
             usage |-> g - charge, deleted |-> h]
    <3> DEFINE x == [b EXCEPT ![e] = FALSE]
               y == g - charge
    <3>1. t = [u EXCEPT !.in_cache = x, !.usage = y]
      BY <2>1
    <3> HIDE DEF t, x, y
    <3>2. PICK v : v = [u EXCEPT !.in_cache = x]
      OBVIOUS
    <3>3. [u EXCEPT !.in_cache = x, !.usage = y] = [v EXCEPT !.usage = y]
      BY <3>2
    <3>4. v = [refs |-> a, in_cache |-> x, lru |-> c, in_use |-> d, table |-> f, usage |-> g, deleted |-> h]
      BY <2>1, <3>2
    <3>5. [v EXCEPT !.usage = y] =
            [refs |-> a, in_cache |-> x, lru |-> c, in_use |-> d, table |-> f, usage |-> y, deleted |-> h]
      BY <3>4
    <3> QED BY <3>1, <3>3, <3>5 DEF x, y
  <2> HIDE DEF t
  <2> QED BY <2>1, <2>2
<1>4. r = Unref(t, e)
  BY DEF FinishErase, u
<1> HIDE DEF t, r
<1>5. Without(s.lru, e) \in List /\ Without(s.in_use, e) \in Seq(Nat)
  BY <1>1, WithoutIs, WithoutType
<1>6. t \in Books(n)
  <2>1. [s.in_cache EXCEPT ![e] = FALSE] \in [1..n -> BOOLEAN]
    BY <1>1
  <2> QED BY <1>1, <1>3, <1>5, <2>1 DEF Books
<1>7. ~t.in_cache[e] /\ t.refs = s.refs /\ t.deleted = s.deleted
  BY <1>1, <1>3
<1>8. r = [refs |-> [t.refs EXCEPT ![e] = @ - 1], in_cache |-> t.in_cache,
           lru |-> t.lru, in_use |-> t.in_use, table |-> t.table, usage |-> t.usage,
           deleted |-> IF t.refs[e] = 1 THEN [t.deleted EXCEPT ![e] = @ + 1] ELSE t.deleted]
  BY <1>4, <1>6, <1>7, UnrefGone
<1>9. /\ r.refs = [s.refs EXCEPT ![e] = @ - 1] /\ r.in_cache = [s.in_cache EXCEPT ![e] = FALSE]
      /\ r.lru = Without(s.lru, e) /\ r.table = s.table
      /\ r.deleted = IF s.refs[e] = 1 THEN [s.deleted EXCEPT ![e] = @ + 1] ELSE s.deleted
  BY <1>3, <1>7, <1>8
<1>10. r \in Books(n)
  <2>1. [s.refs EXCEPT ![e] = @ - 1] \in [1..n -> Int]
    BY <1>1, OneLess
  <2>2. (IF s.refs[e] = 1 THEN [s.deleted EXCEPT ![e] = @ + 1] ELSE s.deleted) \in [1..n -> Nat]
    BY <1>1, OnceMore
  <2>3. /\ t.in_cache \in [1..n -> BOOLEAN] /\ t.lru \in List /\ t.in_use \in Seq(Nat)
        /\ t.table \in Tables /\ t.usage \in Int
    BY <1>6, BooksAre
  <2> QED BY <1>7, <1>8, <2>1, <2>2, <2>3 DEF Books
<1> QED BY <1>9, <1>10 DEF r, IsErased

InCache(s, n) == {e \in 1..n : s.in_cache[e]}

(* The references of n entries, of which cnt[e] are of clients: with the   *)
(* last the value was deleted, once.                                       *)
Counted(s, n, cnt) ==
  \A e \in 1..n : /\ s.refs[e] = cnt[e] + (IF e \in InCache(s, n) THEN 1 ELSE 0)
                  /\ s.deleted[e] = (IF s.refs[e] = 0 THEN 1 ELSE 0)

InTable(s, hash, S) == \E L \in Positive : Chained(s.table, L, hash, S)

(* The books of n entries agree.                                           *)
Fits(s, n, hash, cnt) ==
  /\ s \in Books(n) /\ Counted(s, n, cnt) /\ InTable(s, hash, InCache(s, n))
  /\ Holding(s.lru) \subseteq InCache(s, n)

(* r is s without e in the cache.                                          *)
Leaves(r, s, n, hash, cnt, e) == Fits(r, n, hash, cnt) /\ InCache(r, n) = InCache(s, n) \ {e}

(* An entry that is no longer in the table leaves the cache.               *)
LEMMA ErasedFits ==
  ASSUME NEW n \in Nat, NEW s \in Books(n), NEW hash, NEW cnt \in [1..n -> Nat],
         NEW e \in InCache(s, n), NEW charge \in Int, Counted(s, n, cnt),
         InTable(s, hash, InCache(s, n) \ {e}), Holding(s.lru) \subseteq InCache(s, n)
  PROVE  Leaves(FinishErase(s, e, charge), s, n, hash, cnt, e)
<1> DEFINE r == FinishErase(s, e, charge)
<1>1. e \in 1..n
  BY DEF InCache
<1>2. /\ r \in Books(n) /\ r.refs = [s.refs EXCEPT ![e] = @ - 1]
      /\ r.in_cache = [s.in_cache EXCEPT ![e] = FALSE] /\ r.lru = Without(s.lru, e)
      /\ r.table = s.table
      /\ r.deleted = IF s.refs[e] = 1 THEN [s.deleted EXCEPT ![e] = @ + 1] ELSE s.deleted
  <2>1. IsErased(FinishErase(s, e, charge), s, n, e)
    BY <1>1, ErasedBooks
  <2> QED BY <2>1 DEF IsErased
<1> HIDE DEF r
<1>3. /\ s.refs \in [1..n -> Int] /\ s.in_cache \in [1..n -> BOOLEAN] /\ s.lru \in List
      /\ s.deleted \in [1..n -> Nat]
  BY BooksAre
<1>4. InCache(r, n) = InCache(s, n) \ {e}
  <2>1. \A d \in 1..n : d # e => (r.in_cache[d] <=> s.in_cache[d])
    BY <1>2, <1>3
  <2>2. ~r.in_cache[e]
    BY <1>1, <1>2, <1>3
  <2> QED BY <2>1, <2>2 DEF InCache
<1>5. ASSUME NEW d \in 1..n
      PROVE  /\ r.refs[d] = cnt[d] + (IF d \in InCache(r, n) THEN 1 ELSE 0)
             /\ r.deleted[d] = (IF r.refs[d] = 0 THEN 1 ELSE 0)
  <2>1. /\ s.refs[d] = cnt[d] + (IF d \in InCache(s, n) THEN 1 ELSE 0) /\ cnt[d] \in Nat
        /\ s.deleted[d] = (IF s.refs[d] = 0 THEN 1 ELSE 0)
    BY DEF Counted
  <2>2. CASE d = e
    <3>1. r.refs[d] = s.refs[d] - 1 /\ s.refs[d] = cnt[d] + 1
      BY <1>1, <1>2, <1>3, <2>1, <2>2
    <3>2. s.refs[d] = 1 => r.deleted[d] = s.deleted[d] + 1
      BY <1>1, <1>2, <1>3, <2>2
    <3>3. s.refs[d] # 1 => r.deleted[d] = s.deleted[d]
      BY <1>2, <2>2
    <3>4. e \notin InCache(r, n)
      BY <1>4
    <3> QED BY <2>1, <2>2, <3>1, <3>2, <3>3, <3>4
  <2>3. CASE d # e
    <3>1. r.refs[d] = s.refs[d]
      BY <1>2, <1>3, <2>3
    <3>2. r.deleted[d] = s.deleted[d]
      BY <1>2, <1>3, <2>3
    <3> QED BY <1>4, <2>1, <2>3, <3>1, <3>2
  <2> QED BY <2>2, <2>3
<1>6. Counted(r, n, cnt)
  BY <1>5 DEF Counted
<1>7. InTable(r, hash, InCache(r, n))
  BY <1>2, <1>4 DEF InTable
<1>8. Holding(r.lru) \subseteq InCache(r, n)
  <2>1. Holding(r.lru) = Holding(s.lru) \ {e}
    BY <1>2, <1>3, WithoutIs
  <2> QED BY <1>4, <2>1
<1>9. Fits(r, n, hash, cnt)
  BY <1>2, <1>6, <1>7, <1>8 DEF Fits
<1> QED BY <1>4, <1>9 DEF r, Leaves

(* A table of the books.                                                   *)
LEMMA TableBooks ==
  ASSUME NEW n \in Nat, NEW s \in Books(n), NEW t \in Tables
  PROVE  LET r == [s EXCEPT !.table = t]
         IN  /\ r \in Books(n) /\ r.refs = s.refs /\ r.in_cache = s.in_cache /\ r.lru = s.lru
             /\ r.in_use = s.in_use /\ r.usage = s.usage /\ r.deleted = s.deleted /\ r.table = t
<1>1. PICK a, b, c, d, f, g, h :
        s = [refs |-> a, in_cache |-> b, lru |-> c, in_use |-> d, table |-> f, usage |-> g, deleted |-> h]
  BY BooksAre
<1>2. [s EXCEPT !.table = t] =
        [refs |-> a, in_cache |-> b, lru |-> c, in_use |-> d, table |-> t, usage |-> g, deleted |-> h]
  BY <1>1
<1>3. /\ s.refs \in [1..n -> Int] /\ s.in_cache \in [1..n -> BOOLEAN]
      /\ s.lru \in List /\ s.in_use \in Seq(Nat) /\ s.usage \in Int /\ s.deleted \in [1..n -> Nat]
  BY BooksAre
<1>4. /\ a = s.refs /\ b = s.in_cache /\ c = s.lru /\ d = s.in_use /\ g = s.usage /\ h = s.deleted
  BY <1>1
<1> DEFINE r == [s EXCEPT !.table = t]
<1> HIDE DEF r
<1>5. r = [refs |-> a, in_cache |-> b, lru |-> c, in_use |-> d, table |-> t, usage |-> g, deleted |-> h]
  BY <1>2 DEF r
<1>6. /\ r.refs = s.refs /\ r.in_cache = s.in_cache /\ r.lru = s.lru
      /\ r.in_use = s.in_use /\ r.usage = s.usage /\ r.deleted = s.deleted /\ r.table = t
  BY <1>4, <1>5
<1>7. r \in Books(n)
  BY <1>3, <1>4, <1>5 DEF Books
<1> QED BY <1>6, <1>7 DEF r

(* Remove of any entry, whether it is in the table or not.                 *)
LEMMA RemovedBooks ==
  ASSUME NEW n \in Nat, NEW s \in Books(n), NEW e \in 1..n, NEW charge \in Int
  PROVE  LET t == [b \in DOMAIN s.table |-> Without(s.table[b], e)]
             u == [s EXCEPT !.table = t]
         IN  /\ t \in Tables /\ Removed(s, e, charge) = FinishErase(u, e, charge)
             /\ Removed(s, e, charge) \in Books(n)
<1> DEFINE t == [b \in DOMAIN s.table |-> Without(s.table[b], e)]
           u == [s EXCEPT !.table = t]
<1>1. s.table \in Tables
  BY BooksAre
<1>2. PICK L \in Positive : s.table \in [0..(L - 1) -> List]
  BY <1>1 DEF Tables
<1>3. t \in [0..(L - 1) -> List]
  BY <1>2, WithoutIs
<1>4. t \in Tables
  BY <1>3 DEF Tables
<1>5. Removed(s, e, charge) = FinishErase(u, e, charge)
  BY DEF Removed
<1> HIDE DEF t
<1>6. u \in Books(n)
  BY <1>4, TableBooks
<1> HIDE DEF u
<1>7. FinishErase(u, e, charge) \in Books(n)
  BY <1>6, ErasedBooks DEF IsErased
<1> QED BY <1>4, <1>5, <1>7 DEF t, u

(* Remove of an entry of the cache.                                        *)
LEMMA RemovedFits ==
  ASSUME NEW n \in Nat, NEW s, NEW hash, \A d \in 1..n : hash[d] \in Nat,
         NEW cnt \in [1..n -> Nat], Fits(s, n, hash, cnt),
         NEW e \in InCache(s, n), NEW charge \in Int
  PROVE  Leaves(Removed(s, e, charge), s, n, hash, cnt, e)
<1> DEFINE t == [b \in DOMAIN s.table |-> Without(s.table[b], e)]
           u == [s EXCEPT !.table = t]
<1>1. s \in Books(n) /\ e \in 1..n
  BY DEF Fits, InCache
<1>2. t \in Tables /\ Removed(s, e, charge) = FinishErase(u, e, charge)
  BY <1>1, RemovedBooks
<1>3. PICK L \in Positive : Chained(s.table, L, hash, InCache(s, n))
  BY DEF Fits, InTable
<1>4. Chained(t, L, hash, InCache(s, n) \ {e})
  <2>1. InCache(s, n) \in SUBSET Nat /\ \A d \in InCache(s, n) : hash[d] \in Nat
    BY DEF InCache
  <2> QED BY <1>3, <2>1, WithoutEverywhere
<1> HIDE DEF t
<1>5. /\ u \in Books(n) /\ u.refs = s.refs /\ u.in_cache = s.in_cache /\ u.lru = s.lru
      /\ u.deleted = s.deleted /\ u.table = t
  BY <1>1, <1>2, TableBooks
<1> HIDE DEF u
<1>6. InCache(u, n) = InCache(s, n)
  BY <1>5 DEF InCache
<1>7. Counted(u, n, cnt) /\ Holding(u.lru) \subseteq InCache(u, n)
  BY <1>5, <1>6 DEF Fits, Counted
<1>8. InTable(u, hash, InCache(u, n) \ {e})
  BY <1>4, <1>5, <1>6 DEF InTable
<1>9. Leaves(FinishErase(u, e, charge), u, n, hash, cnt, e)
  <2>1. e \in InCache(u, n)
    BY <1>6
  <2> QED BY <2>1, <1>5, <1>6, <1>7, <1>8, ErasedFits
<1> QED BY <1>2, <1>6, <1>9 DEF Leaves

(* A reference of a client is counted up or down.                          *)
LEMMA RefBooks ==
  ASSUME NEW n \in Nat, NEW s \in Books(n), NEW e \in 1..n
  PROVE  LET r == Ref(s, e)
         IN  /\ r \in Books(n) /\ r.refs = [s.refs EXCEPT ![e] = @ + 1] /\ r.in_cache = s.in_cache
             /\ r.table = s.table /\ r.deleted = s.deleted /\ r.lru \in {s.lru, Without(s.lru, e)}
<1> DEFINE u == LRU_Remove(s, e)
           moved == [u EXCEPT !.in_use = Append(@, e)]
           t == IF s.refs[e] = 1 /\ s.in_cache[e] THEN moved ELSE s
           r == [t EXCEPT !.refs[e] = @ + 1]
<1>1. /\ s.refs \in [1..n -> Int] /\ s.in_cache \in [1..n -> BOOLEAN]
      /\ s.lru \in List /\ s.in_use \in Seq(Nat) /\ s.table \in Tables /\ s.usage \in Int
      /\ s.deleted \in [1..n -> Nat]
      /\ s = [refs |-> s.refs, in_cache |-> s.in_cache, lru |-> s.lru, in_use |-> s.in_use,
              table |-> s.table, usage |-> s.usage, deleted |-> s.deleted]
  BY BooksAre
<1>2. u = [refs |-> s.refs, in_cache |-> s.in_cache, lru |-> Without(s.lru, e),
           in_use |-> Without(s.in_use, e), table |-> s.table, usage |-> s.usage,
           deleted |-> s.deleted]
  BY UnlinkedBooks
<1> HIDE DEF u
<1>3. PICK lru, used : /\ t = [refs |-> s.refs, in_cache |-> s.in_cache, lru |-> lru, in_use |-> used,
                               table |-> s.table, usage |-> s.usage, deleted |-> s.deleted]
                       /\ lru \in List /\ lru \in {s.lru, Without(s.lru, e)} /\ used \in Seq(Nat)
  <2>1. Without(s.lru, e) \in List /\ Without(s.in_use, e) \in Seq(Nat)
    BY <1>1, WithoutIs, WithoutType
  <2>2. Append(Without(s.in_use, e), e) \in Seq(Nat)
    BY <2>1, AppendProperties
  <2>3. moved = [refs |-> s.refs, in_cache |-> s.in_cache, lru |-> Without(s.lru, e),
                 in_use |-> Append(Without(s.in_use, e), e), table |-> s.table, usage |-> s.usage,
                 deleted |-> s.deleted]
    <3>1. PICK a, b, c, d, f, g, h :
            /\ u = [refs |-> a, in_cache |-> b, lru |-> c, in_use |-> d, table |-> f, usage |-> g,
                    deleted |-> h]
            /\ a = s.refs /\ b = s.in_cache /\ c = Without(s.lru, e) /\ d = Without(s.in_use, e)
            /\ f = s.table /\ g = s.usage /\ h = s.deleted
      BY <1>2
    <3>2. moved = [refs |-> a, in_cache |-> b, lru |-> c, in_use |-> Append(d, e), table |-> f,
                   usage |-> g, deleted |-> h]
      BY <3>1
    <3> HIDE DEF moved
    <3> QED BY <3>1, <3>2
  <2> HIDE DEF moved
  <2>4. t = moved \/ t = s
    OBVIOUS
  <2> HIDE DEF t
  <2>5. CASE t = moved
    BY <2>1, <2>2, <2>3, <2>5
  <2>6. CASE t = s
    BY <1>1, <2>6
  <2> QED BY <2>4, <2>5, <2>6
<1>4. Ref(s, e) = r
  BY DEF Ref, u
<1> HIDE DEF t
<1>5. r = [refs |-> [s.refs EXCEPT ![e] = @ + 1], in_cache |-> s.in_cache, lru |-> lru,
           in_use |-> used, table |-> s.table, usage |-> s.usage, deleted |-> s.deleted]
  <2>1. PICK a, b, f, g, h :
          /\ t = [refs |-> a, in_cache |-> b, lru |-> lru, in_use |-> used, table |-> f, usage |-> g,
                  deleted |-> h]
          /\ a = s.refs /\ b = s.in_cache /\ f = s.table /\ g = s.usage /\ h = s.deleted
    BY <1>3
  <2>2. r = [refs |-> [a EXCEPT ![e] = @ + 1], in_cache |-> b, lru |-> lru, in_use |-> used,
             table |-> f, usage |-> g, deleted |-> h]
    BY <2>1
  <2> HIDE DEF r
  <2> QED BY <2>1, <2>2
<1> HIDE DEF r
<1>6. [s.refs EXCEPT ![e] = @ + 1] \in [1..n -> Int]
  BY <1>1, OneMore
<1>7. r \in Books(n)
  BY <1>1, <1>3, <1>5, <1>6 DEF Books
<1> QED BY <1>3, <1>4, <1>5, <1>7

(* r is s with a reference of e less.                                      *)
IsUnref(r, s, n, e) ==
  /\ r \in Books(n) /\ r.refs = [s.refs EXCEPT ![e] = @ - 1] /\ r.in_cache = s.in_cache
  /\ r.table = s.table
  /\ r.deleted = IF s.refs[e] = 1 THEN [s.deleted EXCEPT ![e] = @ + 1] ELSE s.deleted
  /\ \/ r.lru = s.lru
     \/ s.in_cache[e] /\ r.lru = Append(Without(s.lru, e), e)

LEMMA UnrefBooks ==
  ASSUME NEW n \in Nat, NEW s \in Books(n), NEW e \in 1..n
  PROVE  IsUnref(Unref(s, e), s, n, e)
<1> DEFINE t == [s EXCEPT !.refs[e] = @ - 1]
           u == LRU_Remove(t, e)
           idle == [u EXCEPT !.lru = Append(@, e)]
           gone == [t EXCEPT !.deleted[e] = @ + 1]
           less == [s.refs EXCEPT ![e] = @ - 1]
<1>1. /\ s.refs \in [1..n -> Int] /\ s.in_cache \in [1..n -> BOOLEAN]
      /\ s.lru \in List /\ s.in_use \in Seq(Nat) /\ s.table \in Tables /\ s.usage \in Int
      /\ s.deleted \in [1..n -> Nat]
      /\ s = [refs |-> s.refs, in_cache |-> s.in_cache, lru |-> s.lru, in_use |-> s.in_use,
              table |-> s.table, usage |-> s.usage, deleted |-> s.deleted]
  BY BooksAre
<1>2. t = [refs |-> less, in_cache |-> s.in_cache, lru |-> s.lru, in_use |-> s.in_use,
           table |-> s.table, usage |-> s.usage, deleted |-> s.deleted]
  <2>1. PICK a, b, c, d, f, g, h :
          s = [refs |-> a, in_cache |-> b, lru |-> c, in_use |-> d, table |-> f, usage |-> g, deleted |-> h]
    BY <1>1
  <2>2. t = [refs |-> [a EXCEPT ![e] = @ - 1], in_cache |-> b, lru |-> c, in_use |-> d, table |-> f,
             usage |-> g, deleted |-> h]
    BY <2>1
  <2> HIDE DEF t
  <2> QED BY <2>1, <2>2
<1>3. less \in [1..n -> Int] /\ less[e] = s.refs[e] - 1 /\ s.refs[e] \in Int
  <2>1. less \in [1..n -> Int]
    BY <1>1, OneLess
  <2>2. less[e] = s.refs[e] - 1 /\ s.refs[e] \in Int
    BY <1>1
  <2> QED BY <2>1, <2>2
<1>4. Unref(s, e) = CASE t.refs[e] = 0 -> gone
                      [] t.refs[e] = 1 /\ t.in_cache[e] -> idle
                      [] OTHER -> t
  BY DEF Unref
<1> HIDE DEF less, t
<1>5. t \in Books(n)
  BY <1>1, <1>2, <1>3 DEF Books
<1>6. t.refs = less /\ t.refs[e] = s.refs[e] - 1 /\ t.in_cache = s.in_cache /\ t.lru = s.lru
  BY <1>2, <1>3
<1>7. CASE t.refs[e] = 0
  <2>1. Unref(s, e) = gone
    BY <1>4, <1>7
  <2>2. gone = [refs |-> less, in_cache |-> s.in_cache, lru |-> s.lru, in_use |-> s.in_use,
                table |-> s.table, usage |-> s.usage, deleted |-> [s.deleted EXCEPT ![e] = @ + 1]]
    <3>1. PICK a, b, c, d, f, g, h :
            /\ t = [refs |-> a, in_cache |-> b, lru |-> c, in_use |-> d, table |-> f, usage |-> g,
                    deleted |-> h]
            /\ a = less /\ b = s.in_cache /\ c = s.lru /\ d = s.in_use
            /\ f = s.table /\ g = s.usage /\ h = s.deleted
      BY <1>2
    <3>2. gone = [refs |-> a, in_cache |-> b, lru |-> c, in_use |-> d, table |-> f, usage |-> g,
                  deleted |-> [h EXCEPT ![e] = @ + 1]]
      BY <3>1
    <3> HIDE DEF gone
    <3> QED BY <3>1, <3>2
  <2>3. [s.deleted EXCEPT ![e] = @ + 1] \in [1..n -> Nat]
    BY <1>1, OnceMore
  <2> HIDE DEF gone
  <2>4. gone \in Books(n)
    BY <1>1, <1>3, <2>2, <2>3 DEF Books
  <2>5. s.refs[e] = 1
    BY <1>3, <1>6, <1>7
  <2>6. /\ gone.refs = less /\ gone.in_cache = s.in_cache /\ gone.table = s.table /\ gone.lru = s.lru
        /\ gone.deleted = [s.deleted EXCEPT ![e] = @ + 1]
    BY <2>2
  <2> QED BY <2>1, <2>4, <2>5, <2>6 DEF less, IsUnref
<1>8. CASE t.refs[e] = 1 /\ t.in_cache[e]
  <2>1. Unref(s, e) = idle
    BY <1>4, <1>8
  <2>2. u = [refs |-> t.refs, in_cache |-> t.in_cache, lru |-> Without(t.lru, e),
             in_use |-> Without(t.in_use, e), table |-> t.table, usage |-> t.usage,
             deleted |-> t.deleted]
    BY <1>5, UnlinkedBooks
  <2>3. u = [refs |-> less, in_cache |-> s.in_cache, lru |-> Without(s.lru, e),
             in_use |-> Without(s.in_use, e), table |-> s.table, usage |-> s.usage,
             deleted |-> s.deleted]
    <3> HIDE DEF u
    <3> QED BY <1>2, <2>2
  <2> HIDE DEF u
  <2>4. idle = [refs |-> less, in_cache |-> s.in_cache, lru |-> Append(Without(s.lru, e), e),
                in_use |-> Without(s.in_use, e), table |-> s.table, usage |-> s.usage,
                deleted |-> s.deleted]
    <3>1. PICK a, b, c, d, f, g, h :
            /\ u = [refs |-> a, in_cache |-> b, lru |-> c, in_use |-> d, table |-> f, usage |-> g,
                    deleted |-> h]
            /\ a = less /\ b = s.in_cache /\ c = Without(s.lru, e) /\ d = Without(s.in_use, e)
            /\ f = s.table /\ g = s.usage /\ h = s.deleted
      BY <2>3
    <3>2. idle = [refs |-> a, in_cache |-> b, lru |-> Append(c, e), in_use |-> d, table |-> f,
                  usage |-> g, deleted |-> h]
      <4> DEFINE x == Append(u.lru, e)
      <4>1. idle = [u EXCEPT !.lru = x] /\ x = Append(c, e)
        BY <3>1
      <4> HIDE DEF x, idle
      <4>2. [u EXCEPT !.lru = x] = [refs |-> a, in_cache |-> b, lru |-> x, in_use |-> d, table |-> f,
                                    usage |-> g, deleted |-> h]
        BY <3>1
      <4> QED BY <4>1, <4>2
    <3> HIDE DEF idle
    <3> QED BY <3>1, <3>2
  <2>5. Without(s.in_use, e) \in Seq(Nat) /\ Append(Without(s.lru, e), e) \in List
    <3>1. Without(s.lru, e) \in List /\ e \notin Holding(Without(s.lru, e)) /\ e \in Nat
      BY <1>1, WithoutIs
    <3> QED BY <1>1, <3>1, WithoutType, AppendedIs
  <2> HIDE DEF idle
  <2>6. idle \in Books(n)
    BY <1>1, <1>3, <2>4, <2>5 DEF Books
  <2>7. s.refs[e] # 1 /\ s.in_cache[e]
    BY <1>3, <1>6, <1>8
  <2>8. /\ idle.refs = less /\ idle.in_cache = s.in_cache /\ idle.table = s.table
        /\ idle.lru = Append(Without(s.lru, e), e) /\ idle.deleted = s.deleted
    BY <2>4
  <2> QED BY <2>1, <2>6, <2>7, <2>8 DEF less, IsUnref
<1>9. CASE t.refs[e] # 0 /\ ~(t.refs[e] = 1 /\ t.in_cache[e])
  <2>1. Unref(s, e) = t
    BY <1>4, <1>9
  <2>2. s.refs[e] # 1
    BY <1>3, <1>6, <1>9
  <2>3. t.table = s.table /\ t.deleted = s.deleted
    BY <1>2
  <2> QED BY <1>5, <1>6, <2>1, <2>2, <2>3 DEF less, IsUnref
<1> QED BY <1>7, <1>8, <1>9

(* r is s with another count of references, of its clients and in all.     *)
Recounts(r, s, n, hash, cnt) == Fits(r, n, hash, cnt) /\ InCache(r, n) = InCache(s, n)

(* The cache gives out an entry that it has.                               *)
LEMMA RefFits ==
  ASSUME NEW n \in Nat, NEW s, NEW hash, NEW cnt \in [1..n -> Nat], Fits(s, n, hash, cnt),
         NEW e \in InCache(s, n)
  PROVE  Recounts(Ref(s, e), s, n, hash, [cnt EXCEPT ![e] = @ + 1])
<1> DEFINE r == Ref(s, e)
           cnt2 == [cnt EXCEPT ![e] = @ + 1]
<1>1. s \in Books(n) /\ e \in 1..n
  BY DEF Fits, InCache
<1>2. /\ r \in Books(n) /\ r.refs = [s.refs EXCEPT ![e] = @ + 1] /\ r.in_cache = s.in_cache
      /\ r.table = s.table /\ r.deleted = s.deleted /\ r.lru \in {s.lru, Without(s.lru, e)}
  BY <1>1, RefBooks
<1> HIDE DEF r
<1>3. s.refs \in [1..n -> Int] /\ s.lru \in List
  BY <1>1, BooksAre
<1>4. InCache(r, n) = InCache(s, n)
  BY <1>2 DEF InCache
<1>5. ASSUME NEW d \in 1..n
      PROVE  /\ r.refs[d] = cnt2[d] + (IF d \in InCache(r, n) THEN 1 ELSE 0)
             /\ r.deleted[d] = (IF r.refs[d] = 0 THEN 1 ELSE 0)
  <2>1. /\ s.refs[d] = cnt[d] + (IF d \in InCache(s, n) THEN 1 ELSE 0) /\ cnt[d] \in Nat
        /\ s.deleted[d] = (IF s.refs[d] = 0 THEN 1 ELSE 0)
    BY DEF Fits, Counted
  <2>2. CASE d = e
    <3>1. r.refs[d] = s.refs[d] + 1 /\ cnt2[d] = cnt[d] + 1 /\ r.deleted[d] = s.deleted[d]
      BY <1>2, <1>3, <2>2
    <3>2. d \in InCache(s, n)
      BY <2>2
    <3> HIDE DEF cnt2
    <3> QED BY <1>4, <2>1, <3>1, <3>2
  <2>3. CASE d # e
    <3>1. r.refs[d] = s.refs[d] /\ cnt2[d] = cnt[d]
      BY <1>2, <1>3, <2>3
    <3> HIDE DEF cnt2
    <3> QED BY <1>2, <1>4, <2>1, <3>1
  <2> QED BY <2>2, <2>3
<1>6. InTable(r, hash, InCache(r, n))
  BY <1>2, <1>4 DEF Fits, InTable
<1>7. Holding(r.lru) \subseteq InCache(r, n)
  <2>1. Holding(s.lru) \subseteq InCache(s, n)
    BY DEF Fits
  <2>2. Holding(Without(s.lru, e)) = Holding(s.lru) \ {e}
    BY <1>3, WithoutIs
  <2>3. r.lru = s.lru \/ r.lru = Without(s.lru, e)
    BY <1>2
  <2> QED BY <1>4, <2>1, <2>2, <2>3
<1>8. Counted(r, n, cnt2)
  BY <1>5 DEF Counted
<1> HIDE DEF cnt2
<1>9. Fits(r, n, hash, cnt2)
  BY <1>2, <1>6, <1>7, <1>8 DEF Fits
<1> QED BY <1>4, <1>9 DEF r, cnt2, Recounts

(* A client gives back an entry.                                           *)
LEMMA UnrefFits ==
  ASSUME NEW n \in Nat, NEW s, NEW hash, NEW cnt \in [1..n -> Nat], Fits(s, n, hash, cnt),
         NEW e \in 1..n, cnt[e] # 0
  PROVE  Recounts(Unref(s, e), s, n, hash, [cnt EXCEPT ![e] = @ - 1])
<1> DEFINE r == Unref(s, e)
           cnt2 == [cnt EXCEPT ![e] = @ - 1]
<1>1. s \in Books(n)
  BY DEF Fits
<1>2. /\ r \in Books(n) /\ r.refs = [s.refs EXCEPT ![e] = @ - 1] /\ r.in_cache = s.in_cache
      /\ r.table = s.table
      /\ r.deleted = IF s.refs[e] = 1 THEN [s.deleted EXCEPT ![e] = @ + 1] ELSE s.deleted
      /\ \/ r.lru = s.lru
         \/ s.in_cache[e] /\ r.lru = Append(Without(s.lru, e), e)
  <2>1. IsUnref(Unref(s, e), s, n, e)
    BY <1>1, UnrefBooks
  <2> QED BY <2>1 DEF IsUnref
<1> HIDE DEF r
<1>3. s.refs \in [1..n -> Int] /\ s.lru \in List /\ s.deleted \in [1..n -> Nat]
  BY <1>1, BooksAre
<1>4. InCache(r, n) = InCache(s, n)
  BY <1>2 DEF InCache
<1>5. ASSUME NEW d \in 1..n
      PROVE  /\ r.refs[d] = cnt2[d] + (IF d \in InCache(r, n) THEN 1 ELSE 0)
             /\ r.deleted[d] = (IF r.refs[d] = 0 THEN 1 ELSE 0)
  <2>1. /\ s.refs[d] = cnt[d] + (IF d \in InCache(s, n) THEN 1 ELSE 0) /\ cnt[d] \in Nat
        /\ s.deleted[d] = (IF s.refs[d] = 0 THEN 1 ELSE 0)
    BY DEF Fits, Counted
  <2>2. CASE d = e
    <3>1. r.refs[d] = s.refs[d] - 1 /\ cnt2[d] = cnt[d] - 1 /\ s.deleted[d] \in Nat
      BY <1>2, <1>3, <2>2
    <3>2. /\ s.refs[d] = 1 => r.deleted[d] = s.deleted[d] + 1
          /\ s.refs[d] # 1 => r.deleted[d] = s.deleted[d]
      BY <1>2, <1>3, <2>2
    <3>3. cnt[d] >= 1
      BY <2>1, <2>2
    <3> HIDE DEF cnt2
    <3> QED BY <1>4, <2>1, <3>1, <3>2, <3>3
  <2>3. CASE d # e
    <3>1. r.refs[d] = s.refs[d] /\ cnt2[d] = cnt[d]
      BY <1>2, <1>3, <2>3
    <3>2. r.deleted[d] = s.deleted[d]
      BY <1>2, <1>3, <2>3
    <3> HIDE DEF cnt2
    <3> QED BY <1>4, <2>1, <3>1, <3>2
  <2> QED BY <2>2, <2>3
<1>6. InTable(r, hash, InCache(r, n))
  BY <1>2, <1>4 DEF Fits, InTable
<1>7. Holding(r.lru) \subseteq InCache(r, n)
  <2>1. Holding(s.lru) \subseteq InCache(s, n)
    BY DEF Fits
  <2>2. CASE r.lru = s.lru
    BY <1>4, <2>1, <2>2
  <2>3. CASE s.in_cache[e] /\ r.lru = Append(Without(s.lru, e), e)
    <3>1. Without(s.lru, e) \in List /\ Holding(Without(s.lru, e)) = Holding(s.lru) \ {e}
      BY <1>3, WithoutIs
    <3>2. e \in Nat /\ e \notin Holding(Without(s.lru, e))
      BY <3>1
    <3>3. Holding(Append(Without(s.lru, e), e)) = (Holding(s.lru) \ {e}) \cup {e}
      BY <3>1, <3>2, AppendedIs
    <3>4. e \in InCache(s, n)
      BY <2>3 DEF InCache
    <3> QED BY <1>4, <2>1, <2>3, <3>3, <3>4
  <2> QED BY <1>2, <2>2, <2>3
<1>8. Counted(r, n, cnt2)
  BY <1>5 DEF Counted
<1> HIDE DEF cnt2
<1>9. Fits(r, n, hash, cnt2)
  BY <1>2, <1>6, <1>7, <1>8 DEF Fits
<1> QED BY <1>4, <1>9 DEF r, cnt2, Recounts

(* The lru list of s names entries of the cache, none of them twice.       *)
LEMMA IdleIs ==
  ASSUME NEW n \in Nat, NEW s, NEW hash, NEW cnt, Fits(s, n, hash, cnt)
  PROVE  /\ Len(s.lru) \in Nat
         /\ \A i \in 1..Len(s.lru) : s.lru[i] \in InCache(s, n) /\ s.lru[i] \in 1..n
         /\ \A i, j \in 1..Len(s.lru) : s.lru[i] = s.lru[j] => i = j
<1>1. s \in Books(n) /\ Holding(s.lru) \subseteq InCache(s, n) /\ s.lru \in List
  BY BooksAre DEF Fits
<1>2. /\ Len(s.lru) \in Nat /\ DOMAIN s.lru = 1..Len(s.lru)
      /\ \A i, j \in 1..Len(s.lru) : s.lru[i] = s.lru[j] => i = j
  BY <1>1, LenProperties DEF List, Once
<1>3. ASSUME NEW i \in 1..Len(s.lru) PROVE s.lru[i] \in InCache(s, n) /\ s.lru[i] \in 1..n
  <2>1. s.lru[i] \in Holding(s.lru)
    BY <1>2 DEF Holding
  <2>2. s.lru[i] \in InCache(s, n)
    BY <1>1, <2>1
  <2> QED BY <2>2 DEF InCache
<1> QED BY <1>2, <1>3

(* A loop over the lru list of s that removes an entry or leaves it.       *)
IsEviction(after, s, charges) ==
  /\ after[0] = s
  /\ \A m \in 1..Len(s.lru) :
       \/ after[m] = after[m - 1]
       \/ after[m] = Removed(after[m - 1], s.lru[m], charges[s.lru[m]])

LEMMA EvictionFits ==
  ASSUME NEW n \in Nat, NEW s, NEW hash, \A d \in 1..n : hash[d] \in Nat,
         NEW cnt \in [1..n -> Nat], Fits(s, n, hash, cnt), NEW charges \in [1..n -> Int],
         NEW after, IsEviction(after, s, charges)
  PROVE  /\ Fits(after[Len(s.lru)], n, hash, cnt)
         /\ InCache(after[Len(s.lru)], n) \subseteq InCache(s, n)
<1> DEFINE N == Len(s.lru)
<1>1. /\ N \in Nat
      /\ \A i \in 1..N : s.lru[i] \in InCache(s, n) /\ s.lru[i] \in 1..n
      /\ \A i, j \in 1..N : s.lru[i] = s.lru[j] => i = j
  BY IdleIs
<1>2. after[0] = s
  BY DEF IsEviction
<1>3. \A m \in 1..N : \/ after[m] = after[m - 1]
                      \/ after[m] = Removed(after[m - 1], s.lru[m], charges[s.lru[m]])
  BY DEF IsEviction
<1> HIDE DEF N
<1> DEFINE J == {m \in 0..N : /\ Fits(after[m], n, hash, cnt)
                              /\ InCache(after[m], n) \subseteq InCache(s, n)
                              /\ \A i \in (m + 1)..N : s.lru[i] \in InCache(after[m], n)}
<1>7. 0 \in J
  <2>1. 0 \in 0..N
    BY <1>1
  <2>2. \A i \in (0 + 1)..N : s.lru[i] \in InCache(s, n)
    BY <1>1
  <2> QED BY <1>2, <2>1, <2>2
<1>8. ASSUME NEW m \in 1..N, m - 1 \in J PROVE m \in J
  <2> DEFINE t == after[m - 1]
             e == s.lru[m]
  <2>1. m \in 0..N /\ m # 0 /\ m - 1 \in 0..N /\ m \in (m - 1 + 1)..N
    BY <1>1
  <2>2. after[m] = t \/ after[m] = Removed(t, e, charges[e])
    BY <1>3
  <2>3. /\ Fits(t, n, hash, cnt) /\ InCache(t, n) \subseteq InCache(s, n)
        /\ \A i \in (m - 1 + 1)..N : s.lru[i] \in InCache(t, n)
    BY <1>8
  <2>4. e \in InCache(t, n) /\ \A i \in (m + 1)..N : s.lru[i] \in InCache(t, n) /\ s.lru[i] # e
    <3>1. \A i \in (m + 1)..N : i \in (m - 1 + 1)..N /\ i \in 1..N /\ i # m
      BY <1>1
    <3> QED BY <1>1, <2>1, <2>3, <3>1
  <2>5. charges[e] \in Int
    BY <1>1
  <2> HIDE DEF t, e
  <2>6. CASE after[m] = t
    BY <2>1, <2>3, <2>4, <2>6
  <2>7. CASE after[m] = Removed(t, e, charges[e])
    <3>1. Leaves(Removed(t, e, charges[e]), t, n, hash, cnt, e)
      BY <2>3, <2>4, <2>5, RemovedFits
    <3> QED BY <2>1, <2>3, <2>4, <2>7, <3>1 DEF Leaves
  <2> QED BY <2>2, <2>6, <2>7
<1>9. N \in J
  <2>1. N \in 0..N
    BY <1>1
  <2> HIDE DEF J
  <2> QED BY <1>1, <1>7, <1>8, <2>1, LoopKeeps
<1> QED BY <1>9 DEF N

(* What a pass of the loop makes of t, over capacity or not.               *)
PassIf(over, t, e, charge) == IF over THEN Removed(t, e, charge) ELSE t

(* f is the loop of PassIf, which asks Over.                               *)
EvictsBy(f, s, charges, Over) ==
  f = [m \in 0..Len(s.lru) |->
         IF m = 0 THEN s ELSE PassIf(f[m - 1] \in Over, f[m - 1], s.lru[m], charges[s.lru[m]])]

LEMMA EvictionExists ==
  ASSUME NEW n \in Nat, NEW s, NEW hash, NEW cnt, Fits(s, n, hash, cnt),
         NEW charges \in [1..n -> Int], NEW Over
  PROVE  \E f \in [0..Len(s.lru) -> Books(n)] : EvictsBy(f, s, charges, Over)
<1> DEFINE N == Len(s.lru)
           Pass(t, m) == PassIf(t \in Over, t, s.lru[m], charges[s.lru[m]])
           V == Books(n)
           pass == [p \in (1..N) \X V |-> Pass(p[2], p[1])]
<1>1. /\ N \in Nat /\ s \in V
      /\ \A i \in 1..N : s.lru[i] \in 1..n /\ charges[s.lru[i]] \in Int
  BY IdleIs DEF Fits
<1>2. \A m \in 1..N, v \in V : Pass(v, m) \in V
  BY <1>1, RemovedBooks DEF PassIf
<1> HIDE DEF Pass
<1>3. pass \in [(1..N) \X V -> V] /\ \A m \in 1..N, v \in V : pass[<<m, v>>] = Pass(v, m)
  BY <1>2
<1> HIDE DEF V, pass, N
<1>4. PICK f \in [0..N -> V] : IsLoop(f, N, s, pass)
  BY <1>1, <1>3, LoopExists
<1>5. ASSUME NEW m \in 0..N, m # 0 PROVE f[m] = Pass(f[m - 1], m)
  <2>1. m \in 1..N /\ m - 1 \in 0..N
    BY <1>1, <1>5
  <2> QED BY <1>3, <1>4, <2>1 DEF IsLoop
<1>6. f = [m \in 0..N |-> IF m = 0 THEN s ELSE Pass(f[m - 1], m)]
  BY <1>4, <1>5 DEF IsLoop
<1>7. f \in [0..N -> Books(n)]
  BY <1>4 DEF V
<1>8. EvictsBy(f, s, charges, Over)
  BY <1>6 DEF Pass, N, EvictsBy
<1> QED BY <1>7, <1>8 DEF N

(* Evicting entries leaves the rest of the cache as it is.                 *)
LEMMA EvictedFits ==
  ASSUME NEW n \in Nat, NEW s, NEW hash, \A d \in 1..n : hash[d] \in Nat,
         NEW cnt \in [1..n -> Nat], Fits(s, n, hash, cnt), NEW charges \in [1..n -> Int]
  PROVE  /\ Fits(Evicted(s, charges), n, hash, cnt)
         /\ InCache(Evicted(s, charges), n) \subseteq InCache(s, n)
<1> DEFINE N == Len(s.lru)
           Pass(t, m) == IF t.usage > capacity_ THEN Removed(t, s.lru[m], charges[s.lru[m]]) ELSE t
           after[m \in 0..N] ==
             IF m = 0 THEN s
             ELSE LET t == after[m - 1]
                  IN  IF t.usage > capacity_ THEN Removed(t, s.lru[m], charges[s.lru[m]]) ELSE t
<1>1. Evicted(s, charges) = after[N]
  BY DEF Evicted
<1>2. N \in Nat
  BY IdleIs
<1>3. PICK f \in [0..N -> Books(n)] : f = [m \in 0..N |-> IF m = 0 THEN s ELSE Pass(f[m - 1], m)]
  <2> DEFINE Over == {t \in Books(n) : t.usage > capacity_}
  <2> HIDE DEF Over
  <2>0. PICK f \in [0..N -> Books(n)] : EvictsBy(f, s, charges, Over)
    BY EvictionExists
  <2>1. f = [m \in 0..N |-> IF m = 0 THEN s
                            ELSE PassIf(f[m - 1] \in Over, f[m - 1], s.lru[m], charges[s.lru[m]])]
    BY <2>0 DEF EvictsBy
  <2>2. ASSUME NEW m \in 0..N, m # 0 PROVE f[m] = Pass(f[m - 1], m)
    <3>1. m - 1 \in 0..N
      BY <1>2, <2>2
    <3>2. f[m - 1] \in Books(n)
      BY <2>0, <3>1
    <3>3. f[m] = PassIf(f[m - 1] \in Over, f[m - 1], s.lru[m], charges[s.lru[m]])
      BY <2>1, <2>2
    <3> QED BY <3>2, <3>3 DEF PassIf, Over
  <2>3. f[0] = s
    <3>1. 0 \in 0..N
      BY <1>2
    <3> QED BY <2>1, <3>1
  <2> HIDE DEF Pass, N
  <2>4. f = [m \in 0..N |-> IF m = 0 THEN s ELSE Pass(f[m - 1], m)]
    BY <2>1, <2>2, <2>3
  <2> QED BY <2>0, <2>4
<1>4. after = [m \in 0..N |-> IF m = 0 THEN s ELSE Pass(after[m - 1], m)]
  BY <1>3
<1> HIDE DEF after, N
<1>5. IsEviction(after, s, charges)
  <2>1. after[0] = s
    BY <1>2, <1>4
  <2>2. ASSUME NEW m \in 1..N PROVE after[m] = Pass(after[m - 1], m)
    <3>1. m \in 0..N /\ m # 0
      BY <1>2
    <3> HIDE DEF Pass
    <3> QED BY <1>4, <3>1
  <2> QED BY <2>1, <2>2 DEF IsEviction, N
<1>6. /\ Fits(after[N], n, hash, cnt)
      /\ InCache(after[N], n) \subseteq InCache(s, n)
  BY <1>5, EvictionFits DEF N
<1> QED BY <1>1, <1>6

-----------------------------------------------------------------------------
(* The operations of the cache *)

(* How many clients have each entry.                                       *)
Handles == [e \in 1..Len(heap) |-> Cardinality(HeldBySome(e))]

KeysOnce == \A d, e \in Cached : heap[d].key = heap[e].key => d = e

CacheInv ==
  /\ HeapTyped /\ held \in [Client -> SUBSET (1..Len(heap))]
  /\ Fits(State, Len(heap), Hashes, Handles)
  /\ KeysOnce

LEMMA CachedIs ==
  ASSUME HeapTyped
  PROVE  Cached = InCache(State, Len(heap)) /\ Cached \in SUBSET (1..Len(heap))
<1>1. DOMAIN heap = 1..Len(heap)
  BY HeapIs
<1>2. State.in_cache = in_cache
  BY DEF State
<1> QED BY <1>1, <1>2 DEF Cached, InCache

LEMMA CachedNext ==
  ASSUME HeapTyped'
  PROVE  Cached' = InCache(State', Len(heap')) /\ Cached' \in SUBSET (1..Len(heap'))
<1>1. DOMAIN heap' = 1..Len(heap')
  BY LenProperties DEF HeapTyped
<1>2. State'.in_cache = in_cache'
  BY DEF State
<1> QED BY <1>1, <1>2 DEF Cached, InCache

LEMMA HandlesAre ==
  ASSUME HeapTyped
  PROVE  /\ Handles \in [1..Len(heap) -> Nat]
         /\ \A e : IsFiniteSet(HeldBySome(e)) /\ HeldBySome(e) \subseteq Client
<1>1. ASSUME NEW e PROVE IsFiniteSet(HeldBySome(e)) /\ HeldBySome(e) \subseteq Client
  <2>1. HeldBySome(e) \in SUBSET Client /\ IsFiniteSet(Client)
    BY CacheAssumption DEF HeldBySome
  <2> QED BY <2>1, FS_Subset
<1>2. \A e : Cardinality(HeldBySome(e)) \in Nat
  BY <1>1, FS_CardinalityType
<1> QED BY <1>1, <1>2 DEF Handles

LEMMA StateBecomes ==
  ASSUME NEW n \in Nat, NEW s \in Books(n), Becomes(s)
  PROVE  State' = s
<1>1. s = [refs |-> s.refs, in_cache |-> s.in_cache, lru |-> s.lru, in_use |-> s.in_use,
           table |-> s.table, usage |-> s.usage, deleted |-> s.deleted]
  BY BooksAre
<1>2. State' = [refs |-> s.refs, in_cache |-> s.in_cache, lru |-> s.lru, in_use |-> s.in_use,
                table |-> s.table, usage |-> s.usage, deleted |-> s.deleted]
  BY DEF Becomes, State
<1> QED BY <1>1, <1>2

(* The fields of the state.                                                *)
LEMMA StateIs ==
  ASSUME NEW n \in Nat, State \in Books(n)
  PROVE  /\ refs \in [1..n -> Int] /\ in_cache \in [1..n -> BOOLEAN] /\ lru_ \in List
         /\ in_use_ \in Seq(Nat) /\ table_ \in Tables /\ usage_ \in Int /\ deleted \in [1..n -> Nat]
<1>1. /\ State.refs = refs /\ State.in_cache = in_cache /\ State.lru = lru_
      /\ State.in_use = in_use_ /\ State.table = table_ /\ State.usage = usage_
      /\ State.deleted = deleted
  BY DEF State
<1> QED BY <1>1, BooksAre

(* Lookup of what the cache has.                                           *)
LEMMA LookupKeeps ==
  ASSUME CacheInv, NEW c \in Client, NEW k \in Key, Lookup(c, k), Found(k) # None
  PROVE  /\ CacheInv' /\ Cached' = Cached /\ Found(k) \in Cached /\ heap[Found(k)].key = k
         /\ heap' = heap /\ held' = [held EXCEPT ![c] = @ \cup {Found(k)}]
<1> DEFINE n == Len(heap)
           e == Found(k)
<1>1. /\ HeapTyped /\ held \in [Client -> SUBSET (1..n)] /\ Fits(State, n, Hashes, Handles)
      /\ Cached = InCache(State, n) /\ Cached \in SUBSET (1..n) /\ n \in Nat
  BY CachedIs, HeapIs DEF CacheInv
<1>2. PICK L \in Positive : Chained(table_, L, Hashes, Cached)
  BY <1>1 DEF Fits, InTable, State
<1>3. e \in Cached /\ heap[e].key = k
  BY <1>1, <1>2, FoundIs
<1>4. /\ Becomes(Ref(State, e)) /\ held' = [held EXCEPT ![c] = @ \cup {e}] /\ heap' = heap
      /\ e \notin held[c]
  BY DEF Lookup
<1> HIDE DEF e
<1>5. Recounts(Ref(State, e), State, n, Hashes, [Handles EXCEPT ![e] = @ + 1])
  BY <1>1, <1>3, HandlesAre, RefFits
<1>6. State' = Ref(State, e)
  <2>1. Ref(State, e) \in Books(n)
    BY <1>5 DEF Recounts, Fits
  <2> QED BY <1>1, <1>4, <2>1, StateBecomes
<1>7. HeapTyped' /\ Hashes' = Hashes /\ Len(heap') = n
  BY <1>1, <1>4 DEF HeapTyped, Hashes
<1>8. Handles' = [Handles EXCEPT ![e] = @ + 1]
  <2>1. \A d : HeldBySome(d)' = IF d = e THEN HeldBySome(e) \cup {c} ELSE HeldBySome(d)
    BY <1>1, <1>4 DEF HeldBySome
  <2>2. c \notin HeldBySome(e) /\ IsFiniteSet(HeldBySome(e))
    BY <1>1, <1>4, HandlesAre DEF HeldBySome
  <2>3. Cardinality(HeldBySome(e) \cup {c}) = Cardinality(HeldBySome(e)) + 1
    BY <2>2, FS_AddElement
  <2>4. Handles' = [d \in 1..n |-> Cardinality(HeldBySome(d)')]
    BY <1>7 DEF Handles
  <2>5. \A d \in 1..n : Cardinality(HeldBySome(d)') =
                          IF d = e THEN Cardinality(HeldBySome(e)) + 1 ELSE Cardinality(HeldBySome(d))
    BY <2>1, <2>3
  <2> QED BY <2>4, <2>5 DEF Handles
<1>9. Fits(State, n, Hashes, Handles)' /\ Cached' = Cached
  <2>1. Fits(State', n, Hashes', Handles') /\ InCache(State', n) = Cached
    BY <1>1, <1>5, <1>6, <1>7, <1>8 DEF Recounts
  <2>2. Cached' = InCache(State', n)
    BY <1>7, CachedNext
  <2> QED BY <1>7, <2>1, <2>2
<1>10. held' \in [Client -> SUBSET (1..n)]
  BY <1>1, <1>3, <1>4
<1>11. KeysOnce'
  BY <1>4, <1>9 DEF CacheInv, KeysOnce
<1> QED BY <1>3, <1>4, <1>7, <1>9, <1>10, <1>11 DEF CacheInv, e

(* Release of what a client has.                                           *)
LEMMA ReleaseKeeps ==
  ASSUME CacheInv, NEW c \in Client, NEW e, Release(c, e)
  PROVE  /\ CacheInv' /\ Cached' = Cached /\ heap' = heap
         /\ e \in held[c] /\ held' = [held EXCEPT ![c] = @ \ {e}]
<1> DEFINE n == Len(heap)
<1>1. /\ HeapTyped /\ held \in [Client -> SUBSET (1..n)] /\ Fits(State, n, Hashes, Handles)
      /\ Cached = InCache(State, n) /\ n \in Nat
  BY CachedIs, HeapIs DEF CacheInv
<1>2. /\ Becomes(Unref(State, e)) /\ held' = [held EXCEPT ![c] = @ \ {e}] /\ heap' = heap
      /\ e \in held[c]
  BY DEF Release
<1>3. e \in 1..n
  BY <1>1, <1>2
<1>4. Handles[e] # 0 /\ c \in HeldBySome(e) /\ IsFiniteSet(HeldBySome(e))
  <2>1. c \in HeldBySome(e) /\ IsFiniteSet(HeldBySome(e))
    BY <1>1, <1>2, HandlesAre DEF HeldBySome
  <2>2. Cardinality(HeldBySome(e)) # 0
    BY <2>1, FS_EmptySet
  <2> QED BY <1>3, <2>1, <2>2 DEF Handles
<1>5. Recounts(Unref(State, e), State, n, Hashes, [Handles EXCEPT ![e] = @ - 1])
  BY <1>1, <1>3, <1>4, HandlesAre, UnrefFits
<1>6. State' = Unref(State, e)
  <2>1. Unref(State, e) \in Books(n)
    BY <1>5 DEF Recounts, Fits
  <2> QED BY <1>1, <1>2, <2>1, StateBecomes
<1>7. HeapTyped' /\ Hashes' = Hashes /\ Len(heap') = n
  BY <1>1, <1>2 DEF HeapTyped, Hashes
<1>8. Handles' = [Handles EXCEPT ![e] = @ - 1]
  <2>1. \A d : HeldBySome(d)' = IF d = e THEN HeldBySome(e) \ {c} ELSE HeldBySome(d)
    BY <1>1, <1>2 DEF HeldBySome
  <2>3. Cardinality(HeldBySome(e) \ {c}) = Cardinality(HeldBySome(e)) - 1
    BY <1>4, FS_RemoveElement
  <2>4. Handles' = [d \in 1..n |-> Cardinality(HeldBySome(d)')]
    BY <1>7 DEF Handles
  <2>5. \A d \in 1..n : Cardinality(HeldBySome(d)') =
                          IF d = e THEN Cardinality(HeldBySome(e)) - 1 ELSE Cardinality(HeldBySome(d))
    BY <2>1, <2>3
  <2> QED BY <2>4, <2>5 DEF Handles
<1>9. Fits(State, n, Hashes, Handles)' /\ Cached' = Cached
  <2>1. Fits(State', n, Hashes', Handles') /\ InCache(State', n) = Cached
    BY <1>1, <1>5, <1>6, <1>7, <1>8 DEF Recounts
  <2>2. Cached' = InCache(State', n)
    BY <1>7, CachedNext
  <2> QED BY <1>7, <2>1, <2>2
<1>10. held' \in [Client -> SUBSET (1..n)]
  BY <1>1, <1>2
<1>11. KeysOnce'
  BY <1>2, <1>9 DEF CacheInv, KeysOnce
<1> QED BY <1>2, <1>7, <1>9, <1>10, <1>11 DEF CacheInv

(* Erase of a key: nothing of it is left in the cache.                     *)
LEMMA EraseKeeps ==
  ASSUME CacheInv, NEW k \in Key, Erase(k)
  PROVE  /\ CacheInv' /\ Cached' = {e \in Cached : heap[e].key # k}
         /\ heap' = heap /\ held' = held
<1> DEFINE n == Len(heap)
           e == Found(k)
<1>1. /\ HeapTyped /\ held \in [Client -> SUBSET (1..n)] /\ Fits(State, n, Hashes, Handles)
      /\ Cached = InCache(State, n) /\ Cached \in SUBSET (1..n) /\ n \in Nat
  BY CachedIs, HeapIs DEF CacheInv
<1>2. PICK L \in Positive : Chained(table_, L, Hashes, Cached)
  BY <1>1 DEF Fits, InTable, State
<1>3. \/ e = None /\ \A d \in Cached : heap[d].key # k
      \/ e # None /\ e \in Cached /\ heap[e].key = k
  BY <1>1, <1>2, FoundIs
<1>4. /\ Becomes(IF e = None THEN State ELSE Removed(State, e, ChargeOf(e)))
      /\ heap' = heap /\ held' = held
  BY DEF Erase
<1> HIDE DEF e
<1>5. HeapTyped' /\ Hashes' = Hashes /\ Len(heap') = n /\ Handles' = Handles
  BY <1>1, <1>4 DEF HeapTyped, Hashes, Handles, HeldBySome
<1>6. Cached' = InCache(State', n)
  BY <1>5, CachedNext
<1>7. Fits(State', n, Hashes, Handles) /\ InCache(State', n) = {d \in Cached : heap[d].key # k}
  <2>1. CASE e = None /\ \A d \in Cached : heap[d].key # k
    <3>1. State' = State
      BY <1>4, <2>1 DEF Becomes, State
    <3> QED BY <1>1, <2>1, <3>1
  <2>2. CASE e # None /\ e \in Cached /\ heap[e].key = k
    <3>1. ChargeOf(e) \in Int /\ e \in InCache(State, n)
      BY <1>1, <2>2, HeapIs DEF ChargeOf
    <3>2. \A d \in 1..n : Hashes[d] \in Nat
      BY <1>1, HeapIs
    <3>3. Leaves(Removed(State, e, ChargeOf(e)), State, n, Hashes, Handles, e)
      BY <1>1, <3>1, <3>2, HandlesAre, RemovedFits
    <3>4. Becomes(Removed(State, e, ChargeOf(e)))
      BY <1>4, <2>2
    <3>5. State' = Removed(State, e, ChargeOf(e))
      <4>1. Removed(State, e, ChargeOf(e)) \in Books(n)
        BY <3>3 DEF Leaves, Fits
      <4> QED BY <1>1, <3>4, <4>1, StateBecomes
    <3>6. Cached \ {e} = {d \in Cached : heap[d].key # k}
      BY <2>2 DEF CacheInv, KeysOnce
    <3> QED BY <1>1, <3>3, <3>5, <3>6 DEF Leaves
  <2> QED BY <1>3, <2>1, <2>2
<1>8. Fits(State, n, Hashes, Handles)'
  BY <1>5, <1>7
<1>9. KeysOnce'
  BY <1>4, <1>6, <1>7 DEF CacheInv, KeysOnce
<1> QED BY <1>1, <1>4, <1>5, <1>6, <1>7, <1>8, <1>9 DEF CacheInv

(* Prune leaves of the cache what is in use.                               *)
LEMMA PruneKeeps ==
  ASSUME CacheInv, Prune
  PROVE  CacheInv' /\ Cached' \subseteq Cached /\ heap' = heap /\ held' = held
<1> DEFINE n == Len(heap)
           N == Len(lru_)
           Pass(s, m) == Removed(s, lru_[m], ChargeOf(lru_[m]))
           after[m \in 0..N] ==
             IF m = 0 THEN State
             ELSE LET s == after[m - 1] IN Removed(s, lru_[m], ChargeOf(lru_[m]))
           charges == [d \in 1..n |-> ChargeOf(d)]
<1>1. /\ HeapTyped /\ held \in [Client -> SUBSET (1..n)] /\ Fits(State, n, Hashes, Handles)
      /\ Cached = InCache(State, n) /\ Cached \in SUBSET (1..n) /\ n \in Nat
  BY CachedIs, HeapIs DEF CacheInv
<1>2. Becomes(after[N]) /\ heap' = heap /\ held' = held
  BY DEF Prune
<1>3. charges \in [1..n -> Int]
  <2>1. \A d \in 1..n : ChargeOf(d) \in Int
    BY <1>1, HeapIs DEF ChargeOf
  <2> QED BY <2>1
<1>4. State.lru = lru_
  BY DEF State
<1>5. N \in Nat /\ \A i \in 1..N : lru_[i] \in 1..n /\ charges[lru_[i]] = ChargeOf(lru_[i])
  <2>1. N \in Nat /\ \A i \in 1..N : lru_[i] \in 1..n
    BY <1>1, <1>4, IdleIs
  <2> QED BY <2>1
<1> HIDE DEF charges, n
<1>6. PICK f \in [0..N -> Books(n)] : f = [m \in 0..N |-> IF m = 0 THEN State ELSE Pass(f[m - 1], m)]
  <2> DEFINE Over == Books(n)
  <2> HIDE DEF Over
  <2>0. PICK f \in [0..N -> Books(n)] : EvictsBy(f, State, charges, Over)
    BY <1>1, <1>3, <1>4, EvictionExists
  <2>1. f = [m \in 0..N |-> IF m = 0 THEN State
                            ELSE PassIf(f[m - 1] \in Over, f[m - 1], lru_[m], charges[lru_[m]])]
    BY <1>4, <2>0 DEF EvictsBy
  <2>2. ASSUME NEW m \in 0..N, m # 0 PROVE f[m] = Pass(f[m - 1], m)
    <3>1. m - 1 \in 0..N /\ m \in 1..N
      BY <1>5, <2>2
    <3>2. f[m - 1] \in Books(n)
      BY <2>0, <3>1
    <3>3. f[m] = PassIf(f[m - 1] \in Over, f[m - 1], lru_[m], charges[lru_[m]])
      BY <2>1, <2>2
    <3> QED BY <1>5, <3>1, <3>2, <3>3 DEF PassIf, Over
  <2>3. f[0] = State
    <3>1. 0 \in 0..N
      BY <1>5
    <3> QED BY <2>1, <3>1
  <2> HIDE DEF Pass, N
  <2>4. f = [m \in 0..N |-> IF m = 0 THEN State ELSE Pass(f[m - 1], m)]
    BY <2>1, <2>2, <2>3
  <2> QED BY <2>0, <2>4
<1>7. after = [m \in 0..N |-> IF m = 0 THEN State ELSE Pass(after[m - 1], m)]
  BY <1>6
<1> HIDE DEF after
<1>8. IsEviction(after, State, charges)
  <2>1. after[0] = State
    BY <1>5, <1>7
  <2>2. ASSUME NEW m \in 1..N
        PROVE  after[m] = Removed(after[m - 1], lru_[m], charges[lru_[m]])
    <3>1. m \in 0..N /\ m # 0
      BY <1>5
    <3>2. after[m] = Pass(after[m - 1], m)
      <4> HIDE DEF Pass
      <4> QED BY <1>7, <3>1
    <3> QED BY <1>5, <3>2
  <2> QED BY <1>4, <2>1, <2>2 DEF IsEviction
<1>9. Fits(after[N], n, Hashes, Handles) /\ InCache(after[N], n) \subseteq Cached
  <2>1. \A d \in 1..n : Hashes[d] \in Nat
    BY <1>1, HeapIs DEF n
  <2> HIDE DEF N
  <2>2. N = Len(State.lru)
    BY <1>4 DEF N
  <2> QED BY <1>1, <1>3, <1>8, <2>1, <2>2, HandlesAre, EvictionFits DEF n
<1>10. State' = after[N]
  <2>1. after[N] \in Books(n)
    BY <1>9 DEF Fits
  <2> QED BY <1>1, <1>2, <2>1, StateBecomes
<1>11. HeapTyped' /\ Hashes' = Hashes /\ Len(heap') = n /\ Handles' = Handles
  BY <1>1, <1>2 DEF HeapTyped, Hashes, Handles, HeldBySome, n
<1>12. Cached' = InCache(State', n)
  BY <1>11, CachedNext
<1>13. Fits(State, Len(heap), Hashes, Handles)'
  BY <1>9, <1>10, <1>11
<1>14. Cached' \subseteq Cached
  BY <1>9, <1>10, <1>12
<1>15. KeysOnce'
  BY <1>2, <1>14 DEF CacheInv, KeysOnce
<1> QED BY <1>1, <1>2, <1>11, <1>13, <1>14, <1>15 DEF CacheInv, n

(* One value more at the end.                                              *)
IsLonger(g, f, n, V, v) ==
  g \in [1..(n + 1) -> V] /\ g[n + 1] = v /\ \A d \in 1..n : g[d] = f[d]

LEMMA OneLonger ==
  ASSUME NEW n \in Nat, NEW V, NEW f \in [1..n -> V], NEW v \in V
  PROVE  IsLonger(Append(f, v), f, n, V, v)
<1>1. f \in Seq(V) /\ Len(f) = n
  <2>1. f \in Seq(V)
    BY SeqDef
  <2>2. DOMAIN f = 1..n /\ Len(f) \in Nat /\ DOMAIN f = 1..Len(f)
    BY <2>1, LenProperties
  <2> QED BY <2>1, <2>2
<1>2. Append(f, v) \in Seq(V) /\ Len(Append(f, v)) = n + 1
  BY <1>1, AppendProperties
<1>3. \A d \in 1..(n + 1) : Append(f, v)[d] \in V
  BY <1>2, ElementOfSeq
<1>4. DOMAIN Append(f, v) = 1..(n + 1)
  BY <1>2, LenProperties
<1>5. Append(f, v)[n + 1] = v /\ \A d \in 1..n : Append(f, v)[d] = f[d]
  BY <1>1, AppendProperties
<1>6. Append(f, v) = [d \in 1..(n + 1) |-> Append(f, v)[d]]
  <2> DEFINE g == Append(f, v)
  <2> HIDE DEF g
  <2>1. PICK m \in Nat : g \in [1..m -> V]
    <3>1. g \in Seq(V)
      BY <1>2 DEF g
    <3>2. g \in UNION {[1..m -> V] : m \in Nat}
      BY <3>1, SeqDef
    <3> QED BY <3>2
  <2>2. g = [d \in DOMAIN g |-> g[d]]
    BY <2>1
  <2> QED BY <1>4, <2>2 DEF g
<1> QED BY <1>3, <1>5, <1>6 DEF IsLonger

(* The state with a new entry that only its client has.                    *)
NewOf(s) == [s EXCEPT !.refs = Append(@, 1), !.in_cache = Append(@, FALSE), !.deleted = Append(@, 0)]

LEMMA NewBooks ==
  ASSUME NEW n \in Nat, NEW s \in Books(n)
  PROVE  NewOf(s) = [refs |-> Append(s.refs, 1), in_cache |-> Append(s.in_cache, FALSE),
                     lru |-> s.lru, in_use |-> s.in_use, table |-> s.table, usage |-> s.usage,
                     deleted |-> Append(s.deleted, 0)]
<1> DEFINE x == Append(s.refs, 1)
           y == Append(s.in_cache, FALSE)
           z == Append(s.deleted, 0)
<1>1. PICK a, b, c, d, f, g, h :
        /\ s = [refs |-> a, in_cache |-> b, lru |-> c, in_use |-> d, table |-> f, usage |-> g, deleted |-> h]
        /\ a = s.refs /\ b = s.in_cache /\ c = s.lru /\ d = s.in_use
        /\ f = s.table /\ g = s.usage /\ h = s.deleted
  BY BooksAre
<1>2. NewOf(s) = [s EXCEPT !.refs = x, !.in_cache = y, !.deleted = z]
  BY DEF NewOf
<1> HIDE DEF x, y, z
<1>3. PICK t : t = [s EXCEPT !.refs = x]
  OBVIOUS
<1>4. PICK u : u = [t EXCEPT !.in_cache = y]
  OBVIOUS
<1>5. [s EXCEPT !.refs = x, !.in_cache = y, !.deleted = z] = [u EXCEPT !.deleted = z]
  BY <1>3, <1>4
<1>6. t = [refs |-> x, in_cache |-> b, lru |-> c, in_use |-> d, table |-> f, usage |-> g, deleted |-> h]
  BY <1>1, <1>3
<1>7. u = [refs |-> x, in_cache |-> y, lru |-> c, in_use |-> d, table |-> f, usage |-> g, deleted |-> h]
  BY <1>4, <1>6
<1>8. [u EXCEPT !.deleted = z] =
        [refs |-> x, in_cache |-> y, lru |-> c, in_use |-> d, table |-> f, usage |-> g, deleted |-> z]
  BY <1>7
<1> QED BY <1>1, <1>2, <1>5, <1>8 DEF x, y, z

(* The state with a new entry in the cache too.                            *)
KeptOf(new, e, charge, t) ==
  [new EXCEPT !.refs[e] = 2, !.in_cache[e] = TRUE, !.usage = @ + charge,
              !.in_use = Append(@, e), !.table = t]

LEMMA KeptBooks ==
  ASSUME NEW n \in Nat, NEW s \in Books(n), NEW e \in 1..n, NEW charge, NEW t
  PROVE  KeptOf(s, e, charge, t) =
           [refs |-> [s.refs EXCEPT ![e] = 2], in_cache |-> [s.in_cache EXCEPT ![e] = TRUE],
            lru |-> s.lru, in_use |-> Append(s.in_use, e), table |-> t, usage |-> s.usage + charge,
            deleted |-> s.deleted]
<1> DEFINE v == [s.refs EXCEPT ![e] = 2]
           w == [s.in_cache EXCEPT ![e] = TRUE]
           x == s.usage + charge
           y == Append(s.in_use, e)
<1>1. PICK a, b, c, d, f, g, h :
        /\ s = [refs |-> a, in_cache |-> b, lru |-> c, in_use |-> d, table |-> f, usage |-> g, deleted |-> h]
        /\ a = s.refs /\ b = s.in_cache /\ c = s.lru /\ d = s.in_use
        /\ f = s.table /\ g = s.usage /\ h = s.deleted
  BY BooksAre
<1>2. KeptOf(s, e, charge, t) = [s EXCEPT !.refs = v, !.in_cache = w, !.usage = x, !.in_use = y, !.table = t]
  BY DEF KeptOf
<1> HIDE DEF v, w, x, y
<1>3. PICK s1 : s1 = [s EXCEPT !.refs = v]
  OBVIOUS
<1>4. PICK s2 : s2 = [s1 EXCEPT !.in_cache = w]
  OBVIOUS
<1>5. PICK s3 : s3 = [s2 EXCEPT !.usage = x]
  OBVIOUS
<1>6. PICK s4 : s4 = [s3 EXCEPT !.in_use = y]
  OBVIOUS
<1>7. [s EXCEPT !.refs = v, !.in_cache = w, !.usage = x, !.in_use = y, !.table = t] = [s4 EXCEPT !.table = t]
  BY <1>3, <1>4, <1>5, <1>6
<1>8. s1 = [refs |-> v, in_cache |-> b, lru |-> c, in_use |-> d, table |-> f, usage |-> g, deleted |-> h]
  BY <1>1, <1>3
<1>9. s2 = [refs |-> v, in_cache |-> w, lru |-> c, in_use |-> d, table |-> f, usage |-> g, deleted |-> h]
  BY <1>4, <1>8
<1>10. s3 = [refs |-> v, in_cache |-> w, lru |-> c, in_use |-> d, table |-> f, usage |-> x, deleted |-> h]
  BY <1>5, <1>9
<1>11. s4 = [refs |-> v, in_cache |-> w, lru |-> c, in_use |-> y, table |-> f, usage |-> x, deleted |-> h]
  BY <1>6, <1>10
<1>12. [s4 EXCEPT !.table = t] =
         [refs |-> v, in_cache |-> w, lru |-> c, in_use |-> y, table |-> t, usage |-> x, deleted |-> h]
  BY <1>11
<1> QED BY <1>1, <1>2, <1>7, <1>12 DEF v, w, x, y

(* The new entry fits, whether the cache keeps it or not.                  *)
LEMMA InsertFits ==
  ASSUME CacheInv, NEW k \in Key, NEW charge \in Int, NEW cnt \in [1..(Len(heap) + 1) -> Nat],
         cnt[Len(heap) + 1] = 1, \A d \in 1..Len(heap) : cnt[d] = Handles[d]
  PROVE  LET n    == Len(heap)
             e    == n + 1
             new  == NewOf(State)
             kept == KeptOf(new, e, charge, TableWith(e, k))
             old  == Found(k)
             hash == HashesWith(e, k)
         IN  /\ Fits(new, e, hash, cnt) /\ InCache(new, e) = Cached
             /\ old = None => /\ Fits(kept, e, hash, cnt) /\ InCache(kept, e) = Cached \cup {e}
                              /\ \A d \in Cached : heap[d].key # k
             /\ old # None => /\ Fits(FinishErase(kept, old, ChargeOf(old)), e, hash, cnt)
                              /\ InCache(FinishErase(kept, old, ChargeOf(old)), e) = (Cached \ {old}) \cup {e}
                              /\ \A d \in Cached \ {old} : heap[d].key # k
<1> DEFINE n    == Len(heap)
           e    == n + 1
           new  == NewOf(State)
           kept == KeptOf(new, e, charge, TableWith(e, k))
           old  == Found(k)
           hash == HashesWith(e, k)
<1>1. /\ HeapTyped /\ Fits(State, n, Hashes, Handles) /\ Handles \in [1..n -> Nat]
      /\ Cached = InCache(State, n) /\ Cached \in SUBSET (1..n) /\ n \in Nat /\ State \in Books(n)
  BY CachedIs, HeapIs, HandlesAre DEF CacheInv, Fits
<1>2. PICK L \in Positive : Chained(table_, L, Hashes, Cached)
  BY <1>1 DEF Fits, InTable, State
<1>3. \/ old = None /\ \A d \in Cached : heap[d].key # k
      \/ old # None /\ old \in Cached /\ heap[old].key = k
  BY <1>1, <1>2, FoundIs
<1>4. /\ refs \in [1..n -> Int] /\ in_cache \in [1..n -> BOOLEAN] /\ lru_ \in List
      /\ in_use_ \in Seq(Nat) /\ table_ \in Tables /\ usage_ \in Int /\ deleted \in [1..n -> Nat]
  BY <1>1, StateIs
<1>5. \A d \in 1..n : /\ refs[d] = Handles[d] + (IF d \in Cached THEN 1 ELSE 0)
                      /\ deleted[d] = (IF refs[d] = 0 THEN 1 ELSE 0)
  <2>1. State.refs = refs /\ State.deleted = deleted
    BY DEF State
  <2> QED BY <1>1, <2>1 DEF Fits, Counted
<1>6. Holding(lru_) \subseteq Cached
  <2>1. State.lru = lru_
    BY DEF State
  <2> QED BY <1>1, <2>1 DEF Fits
<1>7. e \in Nat /\ e \in 1..e /\ e \notin 1..n /\ e \notin Cached /\ \A d \in 1..e : d # e => d \in 1..n
  BY <1>1
<1>8. /\ TableWith(e, k) \in Tables /\ hash \in [1..e -> Nat]
      /\ \E M \in Positive : Chained(TableWith(e, k), M, hash, (Cached \ {old}) \cup {e})
  <2>1. \E M \in Positive : Chained(TableWith(e, k), M, hash, (Cached \ {old}) \cup {e})
    BY <1>1, <1>2, TableWithIs
  <2>2. TableWith(e, k) \in Tables
    BY <2>1 DEF Chained, Tables
  <2>3. \A d \in 1..e : HashOf[IF d = e THEN k ELSE heap[d].key] \in Nat
    BY <1>1, <1>7, HeapIs, CacheAssumption
  <2> QED BY <2>1, <2>2, <2>3 DEF HashesWith
<1>9. \A d \in 1..n : hash[d] = Hashes[d]
  <2>1. \A d \in 1..n : d \in 1..e /\ d # e
    BY <1>1
  <2> QED BY <1>1, <2>1, HeapIs DEF HashesWith
<1> HIDE DEF e, old, hash
<1> DEFINE r == Append(refs, 1)
           i == Append(in_cache, FALSE)
           g == Append(deleted, 0)
<1>10. /\ r \in [1..e -> Int] /\ r[e] = 1 /\ \A d \in 1..n : r[d] = refs[d]
  <2>1. IsLonger(r, refs, n, Int, 1)
    <3>1. PICK one \in Int : one = 1
      OBVIOUS
    <3>2. IsLonger(Append(refs, one), refs, n, Int, one)
      BY <1>1, <1>4, OneLonger
    <3> QED BY <3>1, <3>2
  <2> QED BY <2>1 DEF IsLonger, e
<1>11. /\ i \in [1..e -> BOOLEAN] /\ i[e] = FALSE /\ \A d \in 1..n : i[d] = in_cache[d]
  <2>1. IsLonger(i, in_cache, n, BOOLEAN, FALSE)
    BY <1>1, <1>4, OneLonger
  <2> QED BY <2>1 DEF IsLonger, e
<1>12. /\ g \in [1..e -> Nat] /\ g[e] = 0 /\ \A d \in 1..n : g[d] = deleted[d]
  <2>1. IsLonger(g, deleted, n, Nat, 0)
    BY <1>1, <1>4, OneLonger
  <2> QED BY <2>1 DEF IsLonger, e
<1>13. /\ State.refs = refs /\ State.in_cache = in_cache /\ State.lru = lru_
       /\ State.in_use = in_use_ /\ State.table = table_ /\ State.usage = usage_
       /\ State.deleted = deleted
  BY DEF State
<1>14. new = [refs |-> r, in_cache |-> i, lru |-> lru_, in_use |-> in_use_, table |-> table_,
              usage |-> usage_, deleted |-> g]
  BY <1>1, <1>13, NewBooks
<1> HIDE DEF new, r, i, g
<1>15. /\ new.refs = r /\ new.in_cache = i /\ new.lru = lru_ /\ new.in_use = in_use_
       /\ new.table = table_ /\ new.usage = usage_ /\ new.deleted = g
  BY <1>14
<1>16. new \in Books(e)
  BY <1>4, <1>10, <1>11, <1>12, <1>14 DEF Books
<1>17. \A d \in 1..n : in_cache[d] <=> d \in Cached
  BY <1>1, <1>13 DEF InCache
<1>18. InCache(new, e) = Cached
  BY <1>1, <1>7, <1>11, <1>15, <1>17 DEF InCache
<1>19. \A d \in 1..n : r[d] = cnt[d] + (IF d \in Cached THEN 1 ELSE 0) /\ (g[d] = (IF r[d] = 0 THEN 1 ELSE 0))
  BY <1>5, <1>10, <1>12
<1>20. Counted(new, e, cnt)
  <2> SUFFICES ASSUME NEW d \in 1..e
               PROVE  /\ r[d] = cnt[d] + (IF d \in Cached THEN 1 ELSE 0)
                      /\ g[d] = (IF r[d] = 0 THEN 1 ELSE 0)
    BY <1>15, <1>18 DEF Counted
  <2>1. CASE d = e
    BY <1>7, <1>10, <1>12, <2>1 DEF e
  <2>2. CASE d # e
    BY <1>7, <1>19, <2>2
  <2> QED BY <2>1, <2>2
<1>21. InTable(new, hash, Cached)
  <2>1. Chained(table_, L, hash, Cached)
    <3>1. \A b : {d \in Cached : hash[d] % L = b} = {d \in Cached : Hashes[d] % L = b}
      BY <1>1, <1>9
    <3> QED BY <1>2, <3>1 DEF Chained
  <2> QED BY <1>15, <2>1 DEF InTable
<1>22. Fits(new, e, hash, cnt)
  BY <1>6, <1>15, <1>16, <1>18, <1>20, <1>21 DEF Fits
<1> DEFINE r2 == [r EXCEPT ![e] = 2]
           i2 == [i EXCEPT ![e] = TRUE]
<1>23. r2 \in [1..e -> Int] /\ r2[e] = 2 /\ \A d \in 1..n : r2[d] = r[d]
  BY <1>7, <1>10
<1>24. i2 \in [1..e -> BOOLEAN] /\ i2[e] /\ \A d \in 1..n : i2[d] <=> i[d]
  <2>1. i2 \in [1..e -> BOOLEAN]
    BY <1>11
  <2>2. i2[e]
    BY <1>7, <1>11
  <2>3. ASSUME NEW d \in 1..n PROVE i2[d] <=> i[d]
    <3>1. d \in 1..e /\ d # e
      BY <1>1, <1>7 DEF e
    <3> QED BY <1>11, <3>1
  <2> QED BY <2>1, <2>2, <2>3
<1>25. kept = [refs |-> r2, in_cache |-> i2, lru |-> lru_, in_use |-> Append(in_use_, e),
               table |-> TableWith(e, k), usage |-> usage_ + charge, deleted |-> g]
  BY <1>7, <1>15, <1>16, KeptBooks DEF e
<1> HIDE DEF kept, r2, i2
<1>26. /\ kept.refs = r2 /\ kept.in_cache = i2 /\ kept.lru = lru_
       /\ kept.table = TableWith(e, k) /\ kept.deleted = g
  BY <1>25
<1>27. kept \in Books(e)
  <2>1. Append(in_use_, e) \in Seq(Nat) /\ usage_ + charge \in Int
    BY <1>4, <1>7, AppendProperties
  <2> QED BY <1>4, <1>8, <1>12, <1>23, <1>24, <1>25, <2>1 DEF Books
<1>28. InCache(kept, e) = Cached \cup {e}
  <2>1. ASSUME NEW d \in 1..e PROVE i2[d] <=> d \in Cached \cup {e}
    <3>1. CASE d = e
      BY <1>24, <3>1
    <3>2. CASE d # e
      <4>1. d \in 1..n
        BY <1>1, <1>7, <3>2 DEF e
      <4> QED BY <1>11, <1>17, <1>24, <3>2, <4>1
    <3> QED BY <3>1, <3>2
  <2>2. Cached \cup {e} \subseteq 1..e
    BY <1>1, <1>7
  <2> QED BY <1>26, <2>1, <2>2 DEF InCache
<1>29. Counted(kept, e, cnt)
  <2> SUFFICES ASSUME NEW d \in 1..e
               PROVE  /\ r2[d] = cnt[d] + (IF d \in Cached \cup {e} THEN 1 ELSE 0)
                      /\ g[d] = (IF r2[d] = 0 THEN 1 ELSE 0)
    BY <1>26, <1>28 DEF Counted
  <2>1. CASE d = e
    BY <1>7, <1>12, <1>23, <2>1 DEF e
  <2>2. CASE d # e
    BY <1>7, <1>19, <1>23, <2>2
  <2> QED BY <2>1, <2>2
<1>30. InTable(kept, hash, (Cached \ {old}) \cup {e}) /\ Holding(kept.lru) \subseteq InCache(kept, e)
  BY <1>6, <1>8, <1>26, <1>28 DEF InTable
<1>31. CASE old = None /\ \A d \in Cached : heap[d].key # k
  <2>1. (Cached \ {old}) \cup {e} = InCache(kept, e)
    BY <1>1, <1>28, <1>31 DEF None
  <2>2. Fits(kept, e, hash, cnt)
    BY <1>27, <1>29, <1>30, <2>1 DEF Fits
  <2> QED BY <1>18, <1>22, <1>28, <1>31, <2>2 DEF e, old, hash, new, kept
<1>32. CASE old # None /\ old \in Cached /\ heap[old].key = k
  <2>1. (Cached \ {old}) \cup {e} = InCache(kept, e) \ {old} /\ old \in InCache(kept, e)
    BY <1>7, <1>28, <1>32
  <2>2. ChargeOf(old) \in Int
    BY <1>1, <1>32, HeapIs DEF ChargeOf
  <2>3. Leaves(FinishErase(kept, old, ChargeOf(old)), kept, e, hash, cnt, old)
    <3>1. cnt \in [1..e -> Nat]
      BY DEF e
    <3>2. InTable(kept, hash, InCache(kept, e) \ {old})
      BY <1>30, <2>1
    <3> QED BY <1>7, <1>27, <1>29, <1>30, <2>1, <2>2, <3>1, <3>2, ErasedFits
  <2>4. \A d \in Cached \ {old} : heap[d].key # k
    BY <1>32 DEF CacheInv, KeysOnce
  <2> QED BY <1>18, <1>22, <1>32, <2>1, <2>3, <2>4 DEF Leaves, e, old, hash, new, kept
<1> QED BY <1>3, <1>31, <1>32

(* Insert: what comes into the cache is the new entry.                     *)
LEMMA InsertKeeps ==
  ASSUME CacheInv, NEW c \in Client, NEW k \in Key, NEW charge \in Int, InsertEntry(c, k, charge)
  PROVE  /\ CacheInv' /\ Cached' \subseteq Cached \cup {Len(heap) + 1}
         /\ heap' = Append(heap, [key |-> k, charge |-> charge])
         /\ held' = [held EXCEPT ![c] = @ \cup {Len(heap) + 1}]
<1> DEFINE n    == Len(heap)
           e    == n + 1
           new  == NewOf(State)
           kept == KeptOf(new, e, charge, TableWith(e, k))
           old  == Found(k)
           hash == HashesWith(e, k)
           s    == IF ~Caches THEN new
                   ELSE IF old = None THEN kept ELSE FinishErase(kept, old, ChargeOf(old))
           charges == [d \in 1..e |-> IF d = e THEN charge ELSE ChargeOf(d)]
           cnt  == [d \in 1..e |-> IF d = e THEN 1 ELSE Handles[d]]
<1>1. /\ heap' = Append(heap, [key |-> k, charge |-> charge])
      /\ held' = [held EXCEPT ![c] = @ \cup {e}]
      /\ Becomes(Evicted(s, charges))
  BY DEF InsertEntry, NewOf, KeptOf
<1>2. /\ HeapTyped /\ held \in [Client -> SUBSET (1..n)] /\ Handles \in [1..n -> Nat]
      /\ Cached \in SUBSET (1..n) /\ n \in Nat /\ KeysOnce
  BY CachedIs, HeapIs, HandlesAre DEF CacheInv
<1>3. /\ n = Len(heap) /\ e = n + 1 /\ e \in Nat /\ e \in 1..e /\ e \notin 1..n
      /\ \A d \in 1..e : d # e => d \in 1..n
      /\ \A d \in 1..n : d \in 1..e /\ d # e
  BY <1>2
<1>4. /\ cnt \in [1..(n + 1) -> Nat] /\ cnt[n + 1] = 1 /\ \A d \in 1..n : cnt[d] = Handles[d]
  BY <1>2, <1>3
<1>5. charges \in [1..e -> Int]
  <2>1. \A d \in 1..n : ChargeOf(d) \in Int
    BY <1>2, HeapIs DEF ChargeOf
  <2> QED BY <1>3, <2>1
<1>6. \A d \in 1..e : hash[d] \in Nat
  <2>1. \A d \in 1..e : (IF d = e THEN k ELSE heap[d].key) \in Key
    BY <1>2, <1>3, HeapIs
  <2> QED BY <2>1, CacheAssumption DEF HashesWith
<1> HIDE DEF cnt
<1>7. /\ Fits(new, e, hash, cnt) /\ InCache(new, e) = Cached
      /\ old = None => /\ Fits(kept, e, hash, cnt) /\ InCache(kept, e) = Cached \cup {e}
                       /\ \A d \in Cached : heap[d].key # k
      /\ old # None => /\ Fits(FinishErase(kept, old, ChargeOf(old)), e, hash, cnt)
                       /\ InCache(FinishErase(kept, old, ChargeOf(old)), e) = (Cached \ {old}) \cup {e}
                       /\ \A d \in Cached \ {old} : heap[d].key # k
  BY <1>4, InsertFits
<1> HIDE DEF new, kept, old, hash, charges
<1>8. /\ Fits(s, e, hash, cnt)
      /\ \/ InCache(s, e) = Cached
         \/ \E others \in SUBSET Cached : InCache(s, e) = others \cup {e} /\ \A d \in others : heap[d].key # k
  <2>1. CASE ~Caches
    BY <1>7, <2>1
  <2>2. CASE Caches /\ old = None
    BY <1>7, <2>2
  <2>3. CASE Caches /\ old # None
    BY <1>7, <2>3
  <2> QED BY <2>1, <2>2, <2>3
<1> HIDE DEF s, e
<1>9. Fits(Evicted(s, charges), e, hash, cnt) /\ InCache(Evicted(s, charges), e) \subseteq InCache(s, e)
  <2>1. cnt \in [1..e -> Nat]
    BY <1>3, <1>4
  <2> QED BY <1>3, <1>5, <1>6, <1>8, <2>1, EvictedFits
<1>10. State' = Evicted(s, charges)
  <2>1. Evicted(s, charges) \in Books(e)
    BY <1>9 DEF Fits
  <2> QED BY <1>1, <1>3, <2>1, StateBecomes
<1> DEFINE E == [key : Key, charge : Int]
           x == [key |-> k, charge |-> charge]
<1>11. /\ HeapTyped' /\ Len(heap') = e /\ heap'[e] = x /\ \A d \in 1..n : heap'[d] = heap[d]
  <2>1. heap \in Seq(E) /\ x \in E
    BY <1>2 DEF HeapTyped
  <2> HIDE DEF E, x
  <2>2. heap' = Append(heap, x)
    BY <1>1 DEF x
  <2>3. /\ heap' \in Seq(E) /\ Len(heap') = Len(heap) + 1 /\ heap'[Len(heap) + 1] = x
        /\ \A d \in 1..Len(heap) : heap'[d] = heap[d]
    BY <2>1, <2>2, AppendProperties
  <2> QED BY <1>3, <2>3 DEF HeapTyped, E
<1>12. DOMAIN heap' = 1..e /\ heap'[e].key = k /\ \A d \in 1..n : heap'[d].key = heap[d].key
  <2>1. DOMAIN heap' = 1..Len(heap')
    BY <1>11, LenProperties DEF HeapTyped
  <2> QED BY <1>11, <2>1
<1>13. Hashes' = hash
  <2>1. Hashes' = [d \in 1..e |-> HashOf[heap'[d].key]]
    BY <1>12 DEF Hashes
  <2>2. \A d \in 1..e : heap'[d].key = IF d = e THEN k ELSE heap[d].key
    BY <1>3, <1>12
  <2> QED BY <2>1, <2>2 DEF hash, HashesWith
<1>14. Handles' = cnt
  <2> DEFINE Has(d) == {b \in Client : d \in held'[b]}
  <2>1. ASSUME NEW d \in 1..n PROVE Has(d) = HeldBySome(d)
    BY <1>1, <1>2, <1>3 DEF HeldBySome
  <2>2. Has(e) = {c}
    BY <1>1, <1>2, <1>3
  <2>3. Cardinality({c}) = 1
    BY FS_Singleton
  <2>4. Handles' = [d \in 1..e |-> Cardinality(Has(d))]
    BY <1>11 DEF Handles, HeldBySome
  <2>5. ASSUME NEW d \in 1..e PROVE Cardinality(Has(d)) = IF d = e THEN 1 ELSE Handles[d]
    <3> HIDE DEF Has
    <3>1. CASE d = e
      BY <2>2, <2>3, <3>1
    <3>2. CASE d # e
      <4>1. d \in 1..n /\ Has(d) = HeldBySome(d)
        BY <1>3, <2>1, <3>2
      <4> QED BY <3>2, <4>1 DEF Handles
    <3> QED BY <3>1, <3>2
  <2> HIDE DEF Has
  <2> QED BY <2>4, <2>5 DEF cnt
<1>15. Cached' = InCache(State', e)
  BY <1>11, CachedNext
<1>16. Fits(State, Len(heap), Hashes, Handles)'
  BY <1>9, <1>10, <1>11, <1>13, <1>14
<1>17. held' \in [Client -> SUBSET (1..e)]
  <2>1. \A b \in Client : held[b] \subseteq 1..e
    BY <1>2, <1>3
  <2>2. \A b \in Client : held'[b] \in SUBSET (1..e)
    BY <1>1, <1>2, <1>3, <2>1
  <2> QED BY <1>1, <1>2, <2>2
<1>18. KeysOnce'
  <2>1. Cached' \subseteq InCache(s, e)
    BY <1>9, <1>10, <1>15
  <2>2. CASE InCache(s, e) = Cached
    <3>1. \A d \in Cached' : d \in Cached /\ heap'[d].key = heap[d].key
      BY <1>2, <1>12, <2>1, <2>2
    <3> QED BY <1>2, <3>1 DEF KeysOnce
  <2>3. ASSUME NEW others \in SUBSET Cached, InCache(s, e) = others \cup {e}, \A d \in others : heap[d].key # k
        PROVE  KeysOnce'
    <3>1. \A d \in others : d \in Cached /\ heap'[d].key = heap[d].key /\ heap'[d].key # k
      BY <1>2, <1>12, <2>3
    <3>2. \A d \in Cached' : d = e \/ d \in others
      BY <2>1, <2>3
    <3> QED BY <1>2, <1>12, <3>1, <3>2 DEF KeysOnce
  <2> QED BY <1>8, <2>2, <2>3
<1>19. Cached' \subseteq Cached \cup {e}
  BY <1>8, <1>9, <1>10, <1>15
<1>20. CacheInv'
  BY <1>11, <1>16, <1>17, <1>18 DEF CacheInv
<1> QED BY <1>1, <1>19, <1>20 DEF e

(* Nothing happens to the cache.                                           *)
LEMMA CacheStays ==
  ASSUME CacheInv, UNCHANGED cacheVars
  PROVE  CacheInv' /\ Cached' = Cached /\ heap' = heap /\ held' = held
<1>1. /\ heap' = heap /\ held' = held /\ in_cache' = in_cache
      /\ State' = State /\ Hashes' = Hashes /\ Handles' = Handles /\ HeapTyped' = HeapTyped
      /\ Cached' = Cached
  BY DEF cacheVars, State, Hashes, Handles, HeldBySome, HeapTyped, Cached
<1>2. Fits(State, Len(heap), Hashes, Handles)'
  BY <1>1 DEF CacheInv
<1>3. KeysOnce' /\ HeapTyped' /\ held' \in [Client -> SUBSET (1..Len(heap'))]
  BY <1>1 DEF CacheInv, KeysOnce
<1> QED BY <1>1, <1>2, <1>3 DEF CacheInv

(* An empty cache.                                                         *)
LEMMA CacheStart == InitCache => CacheInv /\ Cached = {}
<1> SUFFICES ASSUME InitCache PROVE CacheInv /\ Cached = {}
  OBVIOUS
<1>1. /\ heap = <<>> /\ refs = <<>> /\ in_cache = <<>> /\ deleted = <<>> /\ lru_ = <<>> /\ in_use_ = <<>>
      /\ table_ = [b \in 0..(MinLength - 1) |-> <<>>] /\ usage_ = 0 /\ held = [c \in Client |-> {}]
  BY DEF InitCache
<1>2. HeapTyped /\ Len(heap) = 0 /\ DOMAIN heap = {} /\ 1..0 = {}
  BY <1>1 DEF HeapTyped
<1>3. Cached = {}
  BY <1>2 DEF Cached
<1>4. MinLength \in Positive /\ <<>> \in List /\ Holding(<<>>) = {}
  BY CacheAssumption, OneIs DEF Positive
<1>5. table_ \in [0..(MinLength - 1) -> List] /\ table_ \in Tables
  BY <1>1, <1>4 DEF Tables
<1>6. State \in Books(0)
  <2>1. \A V : <<>> \in [1..0 -> V]
    BY <1>2
  <2>2. /\ refs \in [1..0 -> Int] /\ in_cache \in [1..0 -> BOOLEAN] /\ lru_ \in List
        /\ in_use_ \in Seq(Nat) /\ usage_ \in Int /\ deleted \in [1..0 -> Nat]
    BY <1>1, <1>4, <2>1
  <2> QED BY <1>5, <2>2 DEF Books, State
<1>7. InCache(State, 0) = {} /\ State.lru = <<>> /\ State.table = table_
  BY <1>1, <1>2 DEF InCache, State
<1>8. InTable(State, Hashes, {})
  <2>1. \A b \in 0..(MinLength - 1) : Holding(table_[b]) = {}
    BY <1>1, <1>4
  <2>2. Chained(table_, MinLength, Hashes, {})
    BY <1>5, <2>1 DEF Chained
  <2> QED BY <1>4, <1>7, <2>2 DEF InTable
<1>9. Counted(State, 0, Handles)
  BY <1>2 DEF Counted
<1>10. Fits(State, Len(heap), Hashes, Handles)
  BY <1>2, <1>4, <1>6, <1>7, <1>8, <1>9 DEF Fits
<1>11. CacheInv
  BY <1>1, <1>2, <1>3, <1>10 DEF CacheInv, KeysOnce
<1> QED BY <1>3, <1>11

LEMMA CacheStep == CacheInv /\ [NextCache]_cacheVars => CacheInv'
<1> SUFFICES ASSUME CacheInv, [NextCache]_cacheVars PROVE CacheInv'
  OBVIOUS
<1>1. ASSUME NEW c \in Client, NEW k \in Key, Lookup(c, k) PROVE CacheInv'
  <2>1. CASE Found(k) = None
    BY <1>1, <2>1, CacheStays DEF Lookup
  <2>2. CASE Found(k) # None
    BY <1>1, <2>2, LookupKeeps
  <2> QED BY <2>1, <2>2
<1>2. ASSUME NEW c \in Client, NEW k \in Key, NEW charge \in Charges, InsertEntry(c, k, charge)
      PROVE  CacheInv'
  <2>1. charge \in Int
    BY CacheAssumption
  <2> QED BY <1>2, <2>1, InsertKeeps
<1>3. ASSUME NEW c \in Client, NEW e \in held[c], Release(c, e) PROVE CacheInv'
  BY <1>3, ReleaseKeeps
<1>4. ASSUME NEW k \in Key, Erase(k) PROVE CacheInv'
  BY <1>4, EraseKeeps
<1>5. CASE Prune
  BY <1>5, PruneKeeps
<1>6. CASE UNCHANGED cacheVars
  BY <1>6, CacheStays
<1> QED BY <1>1, <1>2, <1>3, <1>4, <1>5, <1>6 DEF NextCache

(* What the invariant says of each entry.                                  *)
LEMMA InvSaysEntries == CacheInv => EntriesAgree
<1> SUFFICES ASSUME CacheInv PROVE EntriesAgree
  OBVIOUS
<1> DEFINE n == Len(heap)
<1>1. /\ HeapTyped /\ n \in Nat /\ DOMAIN heap = 1..n /\ Fits(State, n, Hashes, Handles)
      /\ Cached = InCache(State, n) /\ Cached \in SUBSET (1..n) /\ KeysOnce
  BY CachedIs, HeapIs DEF CacheInv
<1>2. PICK L \in Positive : Chained(table_, L, Hashes, Cached)
  BY <1>1 DEF Fits, InTable, State
<1>3. length_ = L
  <2>1. DOMAIN table_ = 0..(L - 1)
    BY <1>2 DEF Chained
  <2> QED BY <2>1, LengthIs DEF length_
<1>4. ASSUME NEW e \in DOMAIN heap
      PROVE  /\ refs[e] = Cardinality(HeldBySome(e)) + (IF in_cache[e] THEN 1 ELSE 0)
             /\ deleted[e] = (IF refs[e] = 0 THEN 1 ELSE 0)
  <2>1. State.refs = refs /\ State.deleted = deleted
    BY DEF State
  <2>2. /\ refs[e] = Handles[e] + (IF e \in InCache(State, n) THEN 1 ELSE 0)
        /\ deleted[e] = (IF refs[e] = 0 THEN 1 ELSE 0)
    BY <1>1, <2>1 DEF Fits, Counted
  <2>3. Handles[e] = Cardinality(HeldBySome(e))
    BY <1>1 DEF Handles
  <2>4. e \in InCache(State, n) <=> in_cache[e]
    BY <1>1 DEF Cached
  <2> QED BY <2>2, <2>3, <2>4
<1>5. ASSUME NEW e \in DOMAIN heap
      PROVE  in_cache[e] <=> \E i \in DOMAIN table_[Bucket(heap[e].key)] :
                               table_[Bucket(heap[e].key)][i] = e
  <2>1. heap[e].key \in Key /\ Hashes[e] = HashOf[heap[e].key] /\ HashOf[heap[e].key] \in Nat
    BY <1>1, HeapIs, CacheAssumption
  <2>2. Bucket(heap[e].key) = Hashes[e] % L /\ Bucket(heap[e].key) \in 0..(L - 1)
    BY <1>3, <2>1, BucketOf DEF Bucket
  <2> DEFINE b == Bucket(heap[e].key)
  <2> HIDE DEF b
  <2>3. Holding(table_[b]) = {d \in Cached : Hashes[d] % L = b}
    BY <1>2, <2>2 DEF Chained, b
  <2>4. e \in Cached <=> e \in Holding(table_[b])
    BY <2>2, <2>3 DEF b
  <2>5. e \in Cached <=> in_cache[e]
    BY DEF Cached
  <2> QED BY <2>4, <2>5 DEF Holding, b
<1> QED BY <1>1, <1>4, <1>5 DEF EntriesAgree, KeysOnce

(* For any clients, keys, hashes and capacity, and any sequence of calls:  *)
(* references and handles agree, a value goes to its deleter once, with    *)
(* the last reference, and what is in the cache is what can be found       *)
(* (LRUCache::Insert, Lookup, Release, Erase, Prune).                      *)
THEOREM EntriesStayInOrder == SpecCache => []EntriesAgree
<1>1. InitCache => CacheInv
  BY CacheStart
<1> QED BY <1>1, CacheStep, InvSaysEntries, PTL DEF SpecCache

-----------------------------------------------------------------------------
(* TableCache *)

FilesInv ==
  /\ current \subseteq on_disk /\ on_disk \subseteq given /\ given \subseteq Key
  /\ rejected \subseteq given
  /\ pc \in [Client -> {"idle", "reads", "checks"}]
  /\ keeps \in [Client -> SUBSET Key] /\ wants \in [Client -> SUBSET Key]
  /\ \A c \in Client : /\ keeps[c] \subseteq on_disk /\ wants[c] \subseteq keeps[c]
                       /\ pc[c] = "idle" => keeps[c] = {}

(* A table that is checked is nobody else's.                               *)
OwnTable ==
  \A c \in Client :
    pc[c] = "checks" =>
      \E k \in Key : keeps[c] = {k} /\ k \notin current /\ \A d \in Client : d # c => k \notin keeps[d]

(* A client has one handle, of what it looks for.                          *)
OneHandle ==
  \A c \in Client : \A e \in held[c] : wants[c] = {heap[e].key} /\ \A d \in held[c] : d = e

(* While a table is checked the cache has it only for the one who checks.  *)
CheckedAlone ==
  \A c \in Client :
    pc[c] = "checks" => \A e \in Cached : heap[e].key \in wants[c] => e \in held[c]

TablesInv ==
  CacheInv /\ FilesInv /\ OwnTable /\ OneHandle /\ RemovedStaysOut /\ CheckedAlone

LEMMA BuildTableKeeps ==
  ASSUME TablesInv, NEW c \in Client, NEW k \in Key, BuildTable(c, k)
  PROVE  TablesInv'
<1>1. CacheInv' /\ Cached' = Cached /\ heap' = heap /\ held' = held
  BY CacheStays DEF TablesInv, BuildTable
<1>2. /\ k \notin given /\ given' = given \cup {k} /\ on_disk' = on_disk \cup {k}
      /\ rejected' = rejected
      /\ pc[c] = "idle" /\ pc' = [pc EXCEPT ![c] = "checks"] /\ keeps' = [keeps EXCEPT ![c] = {k}]
      /\ wants' = [wants EXCEPT ![c] = {k}] /\ current' = current
  BY DEF BuildTable, Starts
<1>3. FilesInv'
  BY <1>2 DEF TablesInv, FilesInv
<1>4. OwnTable'
  <2> SUFFICES ASSUME NEW b \in Client, pc'[b] = "checks"
               PROVE  \E j \in Key : /\ keeps'[b] = {j} /\ j \notin current'
                                     /\ \A d \in Client : d # b => j \notin keeps'[d]
    BY DEF OwnTable
  <2>1. CASE b = c
    <3>1. keeps'[c] = {k} /\ k \notin current
      BY <1>2 DEF TablesInv, FilesInv
    <3>2. \A d \in Client : d # c => k \notin keeps'[d]
      BY <1>2 DEF TablesInv, FilesInv
    <3> QED BY <1>2, <2>1, <3>1, <3>2
  <2>2. CASE b # c
    <3>1. pc[b] = "checks"
      BY <1>2, <2>2 DEF TablesInv, FilesInv
    <3>2. PICK j \in Key : keeps[b] = {j} /\ j \notin current /\ \A d \in Client : d # b => j \notin keeps[d]
      BY <3>1 DEF TablesInv, OwnTable
    <3>3. j # k
      BY <1>2, <3>2 DEF TablesInv, FilesInv
    <3> QED BY <1>2, <2>2, <3>2, <3>3 DEF TablesInv, FilesInv
  <2> QED BY <2>1, <2>2
<1>5. OneHandle'
  <2>1. wants[c] = {}
    BY <1>2 DEF TablesInv, FilesInv
  <2>2. held[c] = {}
    BY <2>1 DEF TablesInv, OneHandle
  <2> QED BY <1>1, <1>2, <2>2 DEF TablesInv, OneHandle, FilesInv
<1>6. RemovedStaysOut'
  BY <1>1, <1>2 DEF TablesInv, RemovedStaysOut
<1>7. CheckedAlone'
  <2>1. \A e \in Cached : heap[e].key # k
    BY <1>2 DEF TablesInv, RemovedStaysOut, FilesInv
  <2> SUFFICES ASSUME NEW b \in Client, pc'[b] = "checks", NEW e \in Cached, heap[e].key \in wants'[b]
               PROVE  e \in held[b]
    BY <1>1 DEF CheckedAlone
  <2>2. b # c
    BY <1>2, <2>1 DEF TablesInv, FilesInv
  <2>3. pc[b] = "checks" /\ heap[e].key \in wants[b]
    BY <1>2, <2>2 DEF TablesInv, FilesInv
  <2> QED BY <2>3 DEF TablesInv, CheckedAlone
<1> QED BY <1>1, <1>3, <1>4, <1>5, <1>6, <1>7 DEF TablesInv

LEMMA NewReaderKeeps ==
  ASSUME TablesInv, NEW c \in Client, NewReader(c)
  PROVE  TablesInv'
<1>1. CacheInv' /\ Cached' = Cached /\ heap' = heap /\ held' = held
  BY CacheStays DEF TablesInv, NewReader
<1>2. /\ given' = given /\ rejected' = rejected /\ on_disk' = on_disk /\ wants' = wants /\ current' = current
      /\ pc[c] = "idle" /\ pc' = [pc EXCEPT ![c] = "reads"] /\ keeps' = [keeps EXCEPT ![c] = current]
  BY DEF NewReader, Starts
<1>3. FilesInv'
  BY <1>2 DEF TablesInv, FilesInv
<1>4. OwnTable'
  <2> SUFFICES ASSUME NEW b \in Client, pc'[b] = "checks"
               PROVE  \E j \in Key : /\ keeps'[b] = {j} /\ j \notin current'
                                     /\ \A d \in Client : d # b => j \notin keeps'[d]
    BY DEF OwnTable
  <2>1. pc[b] = "checks" /\ b # c
    BY <1>2 DEF TablesInv, FilesInv
  <2>2. PICK j \in Key : keeps[b] = {j} /\ j \notin current /\ \A d \in Client : d # b => j \notin keeps[d]
    BY <2>1 DEF TablesInv, OwnTable
  <2> QED BY <1>2, <2>1, <2>2 DEF TablesInv, FilesInv
<1>5. OneHandle' /\ RemovedStaysOut'
  BY <1>1, <1>2 DEF TablesInv, OneHandle, RemovedStaysOut
<1>6. CheckedAlone'
  <2>1. \A b \in Client : pc'[b] = "checks" => pc[b] = "checks"
    BY <1>2 DEF TablesInv, FilesInv
  <2> QED BY <1>1, <1>2, <2>1 DEF TablesInv, CheckedAlone
<1> QED BY <1>1, <1>3, <1>4, <1>5, <1>6 DEF TablesInv

LEMMA WantsKeeps ==
  ASSUME TablesInv, NEW c \in Client, NEW k \in Key, Wants(c, k)
  PROVE  TablesInv'
<1>1. CacheInv' /\ Cached' = Cached /\ heap' = heap /\ held' = held
  BY CacheStays DEF TablesInv, Wants
<1>2. /\ given' = given /\ rejected' = rejected /\ on_disk' = on_disk /\ current' = current /\ pc' = pc /\ keeps' = keeps
      /\ pc[c] = "reads" /\ wants[c] = {} /\ k \in keeps[c] /\ wants' = [wants EXCEPT ![c] = {k}]
  BY DEF Wants
<1>3. FilesInv' /\ OwnTable' /\ RemovedStaysOut'
  BY <1>1, <1>2 DEF TablesInv, FilesInv, OwnTable, RemovedStaysOut
<1>4. OneHandle'
  <2>1. held[c] = {}
    BY <1>2 DEF TablesInv, OneHandle
  <2> QED BY <1>1, <1>2, <2>1 DEF TablesInv, OneHandle, FilesInv
<1>5. CheckedAlone'
  BY <1>1, <1>2 DEF TablesInv, CheckedAlone, FilesInv
<1> QED BY <1>1, <1>3, <1>4, <1>5 DEF TablesInv

LEMMA FindTableKeeps ==
  ASSUME TablesInv, NEW c \in Client, NEW k \in Key, FindTable(c, k)
  PROVE  TablesInv'
<1>1. wants[c] = {k} /\ ~Holds(c, k)
  BY DEF FindTable, Seeks
<1>2. CASE Found(k) = None
  <2>1. /\ UNCHANGED cacheVars /\ given' = given /\ rejected' = rejected /\ on_disk' = on_disk /\ current' = current
        /\ pc' = pc /\ keeps' = keeps /\ wants' = wants
    BY <1>2 DEF FindTable
  <2>2. CacheInv' /\ Cached' = Cached /\ heap' = heap /\ held' = held
    BY <2>1, CacheStays DEF TablesInv
  <2> QED BY <2>1, <2>2 DEF TablesInv, FilesInv, OwnTable, OneHandle, RemovedStaysOut, CheckedAlone
<1>3. CASE Found(k) # None
  <2>1. /\ Lookup(c, k) /\ given' = given /\ rejected' = rejected /\ on_disk' = on_disk /\ current' = current
        /\ pc' = pc /\ keeps' = keeps /\ wants' = wants
    BY <1>3 DEF FindTable, tableVars
  <2>2. /\ CacheInv' /\ Cached' = Cached /\ Found(k) \in Cached /\ heap[Found(k)].key = k
        /\ heap' = heap /\ held' = [held EXCEPT ![c] = @ \cup {Found(k)}]
    BY <1>3, <2>1, LookupKeeps DEF TablesInv
  <2>3. held \in [Client -> SUBSET (1..Len(heap))]
    BY DEF TablesInv, CacheInv
  <2>4. held[c] = {}
    BY <1>1 DEF TablesInv, OneHandle, Holds
  <2>5. \A b \in Client : held'[b] = IF b = c THEN {Found(k)} ELSE held[b]
    BY <2>2, <2>3, <2>4
  <2>6. FilesInv' /\ OwnTable' /\ RemovedStaysOut'
    BY <2>1, <2>2 DEF TablesInv, FilesInv, OwnTable, RemovedStaysOut
  <2>7. OneHandle'
    BY <1>1, <2>1, <2>2, <2>5 DEF TablesInv, OneHandle
  <2>8. CheckedAlone'
    <3>1. \A b \in Client : held[b] \subseteq held'[b]
      BY <2>4, <2>5
    <3> QED BY <2>1, <2>2, <3>1 DEF TablesInv, CheckedAlone
  <2> QED BY <2>2, <2>6, <2>7, <2>8 DEF TablesInv
<1> QED BY <1>2, <1>3

LEMMA OpenTableKeeps ==
  ASSUME TablesInv, NEW c \in Client, NEW k \in Key, OpenTable(c, k)
  PROVE  TablesInv'
<1>1. CacheInv' /\ Cached' = Cached /\ heap' = heap /\ held' = held
  BY CacheStays DEF TablesInv, OpenTable
<1>2. /\ given' = given /\ rejected' = rejected /\ on_disk' = on_disk /\ current' = current
      /\ pc' = pc /\ keeps' = keeps /\ wants' = wants
  BY DEF OpenTable
<1> QED BY <1>1, <1>2 DEF TablesInv, FilesInv, OwnTable, OneHandle, RemovedStaysOut, CheckedAlone

(* A table that cannot be used is removed while nobody else knows of it.   *)
LEMMA OpenFailsKeeps ==
  ASSUME TablesInv, NEW c \in Client, NEW k \in Key, OpenFails(c, k)
  PROVE  TablesInv'
<1>1. CacheInv' /\ Cached' = Cached /\ heap' = heap /\ held' = held
  BY CacheStays DEF TablesInv, OpenFails
<1>2. /\ given' = given /\ rejected' = rejected /\ current' = current /\ wants[c] = {k} /\ ~Holds(c, k)
      /\ wants' = [wants EXCEPT ![c] = {}]
  BY DEF OpenFails, Seeks
<1>3. held[c] = {}
  BY <1>2 DEF TablesInv, OneHandle, Holds
<1>4. OneHandle'
  BY <1>1, <1>2, <1>3 DEF TablesInv, OneHandle, FilesInv
<1>5. CASE pc[c] # "checks"
  <2>1. pc' = pc /\ keeps' = keeps /\ on_disk' = on_disk
    BY <1>5 DEF OpenFails
  <2>2. FilesInv' /\ OwnTable' /\ RemovedStaysOut'
    BY <1>1, <1>2, <2>1 DEF TablesInv, FilesInv, OwnTable, RemovedStaysOut
  <2>3. CheckedAlone'
    BY <1>1, <1>2, <2>1 DEF TablesInv, CheckedAlone, FilesInv
  <2> QED BY <1>1, <1>4, <2>2, <2>3 DEF TablesInv
<1>6. CASE pc[c] = "checks"
  <2>1. /\ pc' = [pc EXCEPT ![c] = "idle"] /\ keeps' = [keeps EXCEPT ![c] = {}]
        /\ on_disk' = on_disk \/ on_disk' = on_disk \ {k}
    BY <1>6 DEF OpenFails
  <2>2. keeps[c] = {k} /\ k \notin current /\ \A d \in Client : d # c => k \notin keeps[d]
    <3>1. PICK j \in Key : keeps[c] = {j} /\ j \notin current /\ \A d \in Client : d # c => j \notin keeps[d]
      BY <1>6 DEF TablesInv, OwnTable
    <3>2. k \in keeps[c]
      BY <1>2 DEF TablesInv, FilesInv
    <3> QED BY <3>1, <3>2
  <2>3. \A e \in Cached : heap[e].key # k
    BY <1>2, <1>3, <1>6 DEF TablesInv, CheckedAlone
  <2>4. on_disk \ {k} \subseteq on_disk' /\ on_disk' \subseteq on_disk
    BY <2>1
  <2>5. \A b \in Client : /\ pc'[b] = IF b = c THEN "idle" ELSE pc[b]
                          /\ keeps'[b] = IF b = c THEN {} ELSE keeps[b]
                          /\ wants'[b] = IF b = c THEN {} ELSE wants[b]
    BY <1>2, <2>1 DEF TablesInv, FilesInv
  <2>6. FilesInv'
    <3>1. /\ pc' \in [Client -> {"idle", "reads", "checks"}]
          /\ keeps' \in [Client -> SUBSET Key] /\ wants' \in [Client -> SUBSET Key]
      BY <1>2, <2>1 DEF TablesInv, FilesInv
    <3>2. /\ current' \subseteq on_disk' /\ on_disk' \subseteq given' /\ given' \subseteq Key
          /\ rejected' \subseteq given'
      BY <1>2, <2>2, <2>4 DEF TablesInv, FilesInv
    <3>3. \A b \in Client : /\ keeps'[b] \subseteq on_disk' /\ wants'[b] \subseteq keeps'[b]
                            /\ pc'[b] = "idle" => keeps'[b] = {}
      BY <2>2, <2>4, <2>5 DEF TablesInv, FilesInv
    <3> QED BY <3>1, <3>2, <3>3 DEF FilesInv
  <2>7. OwnTable'
    <3> SUFFICES ASSUME NEW b \in Client, pc'[b] = "checks"
                 PROVE  \E j \in Key : /\ keeps'[b] = {j} /\ j \notin current'
                                       /\ \A d \in Client : d # b => j \notin keeps'[d]
      BY DEF OwnTable
    <3>1. b # c /\ pc[b] = "checks"
      BY <2>5
    <3>2. PICK j \in Key : keeps[b] = {j} /\ j \notin current /\ \A d \in Client : d # b => j \notin keeps[d]
      BY <3>1 DEF TablesInv, OwnTable
    <3> QED BY <1>2, <2>5, <3>1, <3>2
  <2>8. RemovedStaysOut'
    BY <1>1, <1>2, <2>3, <2>4 DEF TablesInv, RemovedStaysOut
  <2>9. CheckedAlone'
    <3>1. \A b \in Client : pc'[b] = "checks" => pc[b] = "checks" /\ wants'[b] = wants[b]
      BY <2>5
    <3> QED BY <1>1, <3>1 DEF TablesInv, CheckedAlone
  <2> QED BY <1>1, <1>4, <2>6, <2>7, <2>8, <2>9 DEF TablesInv
<1> QED BY <1>5, <1>6

(* What a client inserts is of a file that it keeps on disk.               *)
LEMMA InsertTableKeeps ==
  ASSUME TablesInv, NEW c \in Client, NEW k \in Key, InsertTable(c, k)
  PROVE  TablesInv'
<1> DEFINE e == Len(heap) + 1
<1>1. /\ InsertEntry(c, k, 1) /\ given' = given /\ rejected' = rejected /\ on_disk' = on_disk /\ current' = current
      /\ pc' = pc /\ keeps' = keeps /\ wants' = wants /\ wants[c] = {k} /\ ~Holds(c, k)
  BY DEF InsertTable, Seeks
<1>2. /\ CacheInv' /\ Cached' \subseteq Cached \cup {e}
      /\ heap' = Append(heap, [key |-> k, charge |-> 1])
      /\ held' = [held EXCEPT ![c] = @ \cup {e}]
  <2>1. 1 \in Int
    OBVIOUS
  <2> QED BY <1>1, <2>1, InsertKeeps DEF TablesInv
<1>3. HeapTyped /\ held \in [Client -> SUBSET (1..Len(heap))] /\ Cached \in SUBSET (1..Len(heap))
  BY CachedIs DEF TablesInv, CacheInv
<1>4. heap'[e].key = k /\ \A d \in 1..Len(heap) : heap'[d].key = heap[d].key
  <2> DEFINE E == [key : Key, charge : Int]
             x == [key |-> k, charge |-> 1]
  <2>1. heap \in Seq(E) /\ x \in E /\ x.key = k
    BY <1>3 DEF HeapTyped
  <2> HIDE DEF E
  <2>2. heap'[e] = x /\ \A d \in 1..Len(heap) : heap'[d] = heap[d]
    <3> HIDE DEF x
    <3>1. heap' = Append(heap, x)
      BY <1>2 DEF x
    <3> QED BY <2>1, <3>1, AppendProperties
  <2> HIDE DEF x
  <2> QED BY <2>1, <2>2
<1>5. e \notin 1..Len(heap) /\ e \in Nat
  BY <1>3, HeapIs
<1>6. held[c] = {}
  BY <1>1 DEF TablesInv, OneHandle, Holds
<1> HIDE DEF e
<1>7. \A b \in Client : held'[b] = IF b = c THEN {e} ELSE held[b]
  BY <1>2, <1>3, <1>6
<1>8. FilesInv' /\ OwnTable'
  BY <1>1 DEF TablesInv, FilesInv, OwnTable
<1>9. OneHandle'
  <2> SUFFICES ASSUME NEW b \in Client, NEW d \in held'[b]
               PROVE  wants'[b] = {heap'[d].key} /\ \A a \in held'[b] : a = d
    BY DEF OneHandle
  <2>1. CASE b = c
    BY <1>1, <1>4, <1>7, <2>1
  <2>2. CASE b # c
    <3>1. d \in held[b] /\ held'[b] = held[b] /\ d \in 1..Len(heap)
      BY <1>3, <1>7, <2>2
    <3> QED BY <1>1, <1>4, <3>1 DEF TablesInv, OneHandle
  <2> QED BY <2>1, <2>2
<1>10. k \in keeps[c] /\ k \in on_disk
  BY <1>1 DEF TablesInv, FilesInv
<1>11. RemovedStaysOut'
  <2>1. \A d \in Cached' : d = e \/ (d \in Cached /\ heap'[d].key = heap[d].key)
    BY <1>2, <1>3, <1>4
  <2> QED BY <1>1, <1>4, <1>10, <2>1 DEF TablesInv, RemovedStaysOut
<1>12. CheckedAlone'
  <2> SUFFICES ASSUME NEW b \in Client, pc'[b] = "checks", NEW d \in Cached', heap'[d].key \in wants'[b]
               PROVE  d \in held'[b]
    BY DEF CheckedAlone
  <2>1. pc[b] = "checks" /\ wants'[b] = wants[b]
    BY <1>1
  <2>2. CASE d = e
    <3>1. b = c
      <4> SUFFICES ASSUME b # c PROVE FALSE
        OBVIOUS
      <4>1. k \in wants[b]
        BY <1>4, <2>1, <2>2
      <4>2. k \in keeps[b]
        BY <4>1 DEF TablesInv, FilesInv
      <4>3. k \notin keeps[c]
        BY <2>1, <4>2 DEF TablesInv, OwnTable
      <4> QED BY <1>10, <4>3
    <3> QED BY <1>7, <2>2, <3>1
  <2>3. CASE d # e
    <3>1. d \in Cached /\ heap'[d].key = heap[d].key
      BY <1>2, <1>3, <1>4, <2>3
    <3>2. d \in held[b]
      BY <2>1, <3>1 DEF TablesInv, CheckedAlone
    <3>3. held[b] \subseteq held'[b]
      BY <1>6, <1>7
    <3> QED BY <3>2, <3>3
  <2> QED BY <2>2, <2>3
<1> QED BY <1>2, <1>8, <1>9, <1>11, <1>12 DEF TablesInv

LEMMA UnrefEntryKeeps ==
  ASSUME TablesInv, NEW c \in Client, NEW k \in Key, UnrefEntry(c, k)
  PROVE  TablesInv'
<1>1. PICK e \in held[c] : heap[e].key = k /\ Release(c, e)
  BY DEF UnrefEntry
<1>2. /\ given' = given /\ rejected' = rejected /\ on_disk' = on_disk /\ current' = current /\ pc' = pc /\ keeps' = keeps
      /\ wants[c] = {k} /\ wants' = [wants EXCEPT ![c] = {}]
  BY DEF UnrefEntry
<1>3. /\ CacheInv' /\ Cached' = Cached /\ heap' = heap /\ held' = [held EXCEPT ![c] = @ \ {e}]
  BY <1>1, ReleaseKeeps DEF TablesInv
<1>4. held \in [Client -> SUBSET (1..Len(heap))]
  BY DEF TablesInv, CacheInv
<1>5. held[c] = {e}
  BY <1>1 DEF TablesInv, OneHandle
<1>6. \A b \in Client : /\ held'[b] = IF b = c THEN {} ELSE held[b]
                        /\ wants'[b] = IF b = c THEN {} ELSE wants[b]
  BY <1>2, <1>3, <1>4, <1>5 DEF TablesInv, FilesInv
<1>7. FilesInv' /\ OwnTable' /\ RemovedStaysOut'
  BY <1>2, <1>3 DEF TablesInv, FilesInv, OwnTable, RemovedStaysOut
<1>8. OneHandle'
  BY <1>3, <1>6 DEF TablesInv, OneHandle
<1>9. CheckedAlone'
  BY <1>2, <1>3, <1>6 DEF TablesInv, CheckedAlone
<1> QED BY <1>3, <1>7, <1>8, <1>9 DEF TablesInv

LEMMA ClientDoneKeeps ==
  ASSUME TablesInv, NEW c \in Client, ClientDone(c)
  PROVE  TablesInv'
<1>1. CacheInv' /\ Cached' = Cached /\ heap' = heap /\ held' = held
  BY CacheStays DEF TablesInv, ClientDone
<1>2. /\ given' = given /\ rejected' = rejected /\ on_disk' = on_disk /\ wants' = wants /\ pc[c] # "idle" /\ wants[c] = {}
      /\ pc' = [pc EXCEPT ![c] = "idle"] /\ keeps' = [keeps EXCEPT ![c] = {}]
      /\ current' = current \/ (pc[c] = "checks" /\ current' = current \cup keeps[c])
  BY DEF ClientDone
<1>3. \A b \in Client : /\ pc'[b] = IF b = c THEN "idle" ELSE pc[b]
                        /\ keeps'[b] = IF b = c THEN {} ELSE keeps[b]
  BY <1>2 DEF TablesInv, FilesInv
<1>4. current' \subseteq current \cup keeps[c] /\ current \subseteq current'
  BY <1>2
<1>5. FilesInv'
  <2>1. current' \subseteq on_disk'
    BY <1>2, <1>4 DEF TablesInv, FilesInv
  <2>2. pc' \in [Client -> {"idle", "reads", "checks"}] /\ keeps' \in [Client -> SUBSET Key]
    BY <1>2 DEF TablesInv, FilesInv
  <2>3. \A b \in Client : /\ keeps'[b] \subseteq on_disk' /\ wants'[b] \subseteq keeps'[b]
                          /\ pc'[b] = "idle" => keeps'[b] = {}
    BY <1>2, <1>3 DEF TablesInv, FilesInv
  <2> QED BY <1>2, <2>1, <2>2, <2>3 DEF TablesInv, FilesInv
<1>6. OwnTable'
  <2> SUFFICES ASSUME NEW b \in Client, pc'[b] = "checks"
               PROVE  \E j \in Key : /\ keeps'[b] = {j} /\ j \notin current'
                                     /\ \A d \in Client : d # b => j \notin keeps'[d]
    BY DEF OwnTable
  <2>1. b # c /\ pc[b] = "checks"
    BY <1>3
  <2>2. PICK j \in Key : keeps[b] = {j} /\ j \notin current /\ \A d \in Client : d # b => j \notin keeps[d]
    BY <2>1 DEF TablesInv, OwnTable
  <2> QED BY <1>3, <1>4, <2>1, <2>2
<1>7. OneHandle' /\ RemovedStaysOut'
  BY <1>1, <1>2 DEF TablesInv, OneHandle, RemovedStaysOut
<1>8. CheckedAlone'
  BY <1>1, <1>2, <1>3 DEF TablesInv, CheckedAlone
<1> QED BY <1>1, <1>5, <1>6, <1>7, <1>8 DEF TablesInv

(* A table that is given up is nobody else's, and known to be gone.        *)
LEMMA GiveUpKeeps ==
  ASSUME TablesInv, NEW c \in Client, GiveUp(c)
  PROVE  TablesInv'
<1>1. CacheInv' /\ Cached' = Cached /\ heap' = heap /\ held' = held
  BY CacheStays DEF TablesInv, GiveUp
<1>2. /\ given' = given /\ current' = current /\ wants' = wants /\ pc[c] = "checks" /\ wants[c] = {}
      /\ pc' = [pc EXCEPT ![c] = "idle"] /\ keeps' = [keeps EXCEPT ![c] = {}]
      /\ on_disk' = on_disk \ keeps[c] /\ rejected' = rejected \cup keeps[c]
  BY DEF GiveUp
<1>3. \A b \in Client : /\ pc'[b] = IF b = c THEN "idle" ELSE pc[b]
                        /\ keeps'[b] = IF b = c THEN {} ELSE keeps[b]
  BY <1>2 DEF TablesInv, FilesInv
<1>4. PICK k \in Key : keeps[c] = {k} /\ k \notin current /\ \A d \in Client : d # c => k \notin keeps[d]
  BY <1>2 DEF TablesInv, OwnTable
<1>5. FilesInv'
  <2>1. pc' \in [Client -> {"idle", "reads", "checks"}] /\ keeps' \in [Client -> SUBSET Key]
    BY <1>2 DEF TablesInv, FilesInv
  <2>2. /\ current' \subseteq on_disk' /\ on_disk' \subseteq given' /\ given' \subseteq Key
        /\ rejected' \subseteq given' /\ wants' \in [Client -> SUBSET Key]
    BY <1>2, <1>4 DEF TablesInv, FilesInv
  <2>3. \A b \in Client : /\ keeps'[b] \subseteq on_disk' /\ wants'[b] \subseteq keeps'[b]
                          /\ pc'[b] = "idle" => keeps'[b] = {}
    BY <1>2, <1>3, <1>4 DEF TablesInv, FilesInv
  <2> QED BY <2>1, <2>2, <2>3 DEF FilesInv
<1>6. OwnTable'
  <2> SUFFICES ASSUME NEW b \in Client, pc'[b] = "checks"
               PROVE  \E j \in Key : /\ keeps'[b] = {j} /\ j \notin current'
                                     /\ \A d \in Client : d # b => j \notin keeps'[d]
    BY DEF OwnTable
  <2>1. b # c /\ pc[b] = "checks"
    BY <1>3
  <2>2. PICK j \in Key : keeps[b] = {j} /\ j \notin current /\ \A d \in Client : d # b => j \notin keeps[d]
    BY <2>1 DEF TablesInv, OwnTable
  <2> QED BY <1>2, <1>3, <2>1, <2>2
<1>7. OneHandle' /\ RemovedStaysOut'
  BY <1>1, <1>2 DEF TablesInv, OneHandle, RemovedStaysOut
<1>8. CheckedAlone'
  BY <1>1, <1>2, <1>3 DEF TablesInv, CheckedAlone
<1> QED BY <1>1, <1>5, <1>6, <1>7, <1>8 DEF TablesInv

LEMMA DropFileKeeps ==
  ASSUME TablesInv, NEW k \in Key, DropFile(k)
  PROVE  TablesInv'
<1>1. CacheInv' /\ Cached' = Cached /\ heap' = heap /\ held' = held
  BY CacheStays DEF TablesInv, DropFile
<1>2. /\ given' = given /\ rejected' = rejected /\ on_disk' = on_disk /\ wants' = wants /\ pc' = pc /\ keeps' = keeps
      /\ current' = current \ {k}
  BY DEF DropFile
<1>3. FilesInv' /\ OwnTable'
  BY <1>2 DEF TablesInv, FilesInv, OwnTable
<1>4. OneHandle' /\ RemovedStaysOut' /\ CheckedAlone'
  BY <1>1, <1>2 DEF TablesInv, OneHandle, RemovedStaysOut, CheckedAlone
<1> QED BY <1>1, <1>3, <1>4 DEF TablesInv

LEMMA DeleteObsoleteKeeps ==
  ASSUME TablesInv, NEW k \in Key, DeleteObsolete(k)
  PROVE  TablesInv'
<1>1. /\ given' = given /\ rejected' = rejected /\ wants' = wants /\ pc' = pc /\ keeps' = keeps /\ current' = current
      /\ k \notin Live /\ on_disk' = on_disk \ {k} /\ Erase(k)
  BY DEF DeleteObsolete
<1>2. /\ CacheInv' /\ Cached' = {e \in Cached : heap[e].key # k} /\ heap' = heap /\ held' = held
  BY <1>1, EraseKeeps DEF TablesInv
<1>3. k \notin current /\ \A c \in Client : k \notin keeps[c]
  BY <1>1 DEF Live
<1>4. FilesInv' /\ OwnTable'
  BY <1>1, <1>3 DEF TablesInv, FilesInv, OwnTable
<1>5. OneHandle' /\ RemovedStaysOut' /\ CheckedAlone'
  BY <1>1, <1>2 DEF TablesInv, OneHandle, RemovedStaysOut, CheckedAlone
<1> QED BY <1>2, <1>4, <1>5 DEF TablesInv

LEMMA TablesStep == TablesInv /\ [NextTables]_allVars => TablesInv'
<1> SUFFICES ASSUME TablesInv, [NextTables]_allVars
             PROVE  TablesInv'
  OBVIOUS
<1>1. ASSUME NEW c \in Client, NewReader(c) \/ ClientDone(c) \/ GiveUp(c)
      PROVE  TablesInv'
  BY <1>1, NewReaderKeeps, ClientDoneKeeps, GiveUpKeeps
<1>2. ASSUME NEW c \in Client, NEW k \in Key,
             \/ BuildTable(c, k) \/ Wants(c, k) \/ FindTable(c, k)
             \/ OpenTable(c, k) \/ OpenFails(c, k) \/ InsertTable(c, k)
             \/ UnrefEntry(c, k)
      PROVE  TablesInv'
  BY <1>2, BuildTableKeeps, WantsKeeps, FindTableKeeps, OpenTableKeeps, OpenFailsKeeps,
     InsertTableKeeps, UnrefEntryKeeps
<1>3. ASSUME NEW k \in Key, DropFile(k) \/ DeleteObsolete(k)
      PROVE  TablesInv'
  BY <1>3, DropFileKeeps, DeleteObsoleteKeeps
<1>4. CASE UNCHANGED allVars
  <2>1. UNCHANGED cacheVars /\ UNCHANGED tableVars
    BY <1>4 DEF allVars
  <2>2. CacheInv' /\ Cached' = Cached /\ heap' = heap /\ held' = held
    BY <2>1, CacheStays DEF TablesInv
  <2> QED BY <2>1, <2>2 DEF TablesInv, tableVars, FilesInv, OwnTable, OneHandle, RemovedStaysOut, CheckedAlone
<1> QED BY <1>1, <1>2, <1>3, <1>4 DEF NextTables

LEMMA TablesStart == InitCache /\ InitFiles => TablesInv
<1> SUFFICES ASSUME InitCache, InitFiles PROVE TablesInv
  OBVIOUS
<1>1. CacheInv /\ Cached = {} /\ held = [c \in Client |-> {}]
  BY CacheStart DEF InitCache
<1>2. FilesInv /\ OwnTable /\ OneHandle /\ RemovedStaysOut /\ CheckedAlone
  BY <1>1 DEF InitFiles, FilesInv, OwnTable, OneHandle, RemovedStaysOut, CheckedAlone
<1> QED BY <1>1, <1>2 DEF TablesInv

(* Nobody uses the table: what is open of it is in the cache, once.        *)
LEMMA OneWhenIdle == TablesInv => OneCopyWhenIdle
<1> SUFFICES ASSUME TablesInv, NEW k \in Key, \A c \in Client : wants[c] # {k}
             PROVE  Cardinality({e \in DOMAIN heap : heap[e].key = k /\ deleted[e] = 0}) <= 1
  BY DEF OneCopyWhenIdle
<1> DEFINE OpenCopies == {e \in DOMAIN heap : heap[e].key = k /\ deleted[e] = 0}
           n == Len(heap)
<1>1. /\ HeapTyped /\ n \in Nat /\ DOMAIN heap = 1..n /\ Fits(State, n, Hashes, Handles)
      /\ Cached = InCache(State, n)
  BY CachedIs, HeapIs DEF TablesInv, CacheInv
<1>2. State.refs = refs /\ State.deleted = deleted
  BY DEF State
<1>3. ASSUME NEW e \in OpenCopies PROVE e \in Cached /\ heap[e].key = k
  <2>1. e \in 1..n /\ heap[e].key = k /\ deleted[e] = 0
    BY <1>1
  <2>2. HeldBySome(e) = {}
    BY <2>1 DEF HeldBySome, TablesInv, OneHandle
  <2>3. Handles[e] = 0
    BY <2>1, <2>2, FS_EmptySet DEF Handles
  <2>4. /\ refs[e] = Handles[e] + (IF e \in Cached THEN 1 ELSE 0)
        /\ deleted[e] = (IF refs[e] = 0 THEN 1 ELSE 0)
    BY <1>1, <1>2, <2>1 DEF Fits, Counted
  <2> QED BY <2>1, <2>3, <2>4
<1>4. \A d, e \in OpenCopies : d = e
  BY <1>3 DEF TablesInv, CacheInv, KeysOnce
<1> HIDE DEF OpenCopies
<1>5. Cardinality(OpenCopies) = 0 \/ Cardinality(OpenCopies) = 1
  <2>1. CASE OpenCopies = {}
    BY <2>1, FS_EmptySet
  <2>2. CASE OpenCopies # {}
    <3>1. PICK e : e \in OpenCopies
      BY <2>2
    <3>2. OpenCopies = {e}
      BY <1>4, <3>1
    <3> QED BY <3>2, FS_Singleton
  <2> QED BY <2>1, <2>2
<1> QED BY <1>5 DEF OpenCopies

(* For any clients, tables, hashes and capacity: what a client looks for   *)
(* is on disk until it is done with it; the cache keeps no table open      *)
(* whose file was removed, but those that BuildTable gave up; and of a     *)
(* table that nobody uses one copy at most is open, though any two clients *)
(* may have opened it at once (TableCache::FindTable, Evict,               *)
(* DeleteObsoleteFiles).                                                   *)
THEOREM TablesStay == SpecTables => []TablesAreKept
<1>1. TablesInv => TablesAreKept
  <2>1. TablesInv => RemovedStaysOut /\ WantedIsThere
    BY DEF TablesInv, FilesInv, WantedIsThere
  <2> QED BY <2>1, OneWhenIdle DEF TablesAreKept
<1> QED BY <1>1, TablesStart, TablesStep, PTL DEF SpecTables
=============================================================================
