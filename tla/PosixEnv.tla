------------------------------ MODULE PosixEnv ------------------------------
(***************************************************************************)
(* What all databases of a process share in its one PosixEnv               *)
(* (util/env_posix.cc): the limits of open files and the background thread.*)
(*                                                                         *)
(* Files kept open for reading (Limiter, NewRandomAccessFile,              *)
(* PosixMmapReadableFile and PosixRandomAccessFile): some are mapped into  *)
(* memory, of the others some keep their descriptor, and the rest is opened*)
(* again for each read.  The limits are two counters without a lock: what  *)
(* asks for a place takes one off, and puts it back when there was none.   *)
(*                                                                         *)
(* The background thread (Schedule and BackgroundThreadMain): databases put*)
(* their work in its queue.  The first work starts it, it waits while the  *)
(* queue is empty, and it is signalled only by what finds the queue empty. *)
(* A database has one piece of work scheduled at a time, and schedules the *)
(* next one before it returns from it or from a write later.               *)
(***************************************************************************)
EXTENDS Integers, Sequences, FiniteSets

CONSTANTS Files,         \* each opened and used by one thread at a time
          MaxMmaps, MaxOpenFiles,
          Databases, NoDatabase

(* What the constants are taken to be.                                     *)
Finite == IsFiniteSet(Files) /\ MaxMmaps \in Nat /\ MaxOpenFiles \in Nat

VARIABLES mmap_limiter_, fd_limiter_,  \* the places that are left
          place,                       \* how far each file has come
          background_work_queue_,
          started_background_thread_,
          thread,     \* what the thread does: "none", "looks", "waits", "works"
          signaled,   \* was the condition signalled since the thread waits
          working     \* the database it works for, or NoDatabase

limitVars == <<mmap_limiter_, fd_limiter_, place>>
workVars  == <<background_work_queue_, started_background_thread_, thread, signaled, working>>
envVars   == <<limitVars, workVars>>

(* A file that is open is one of three sorts; a file at any other place is *)
(* on its way in a call.                                                   *)
Sorts == {"mapped", "permanent", "temporary"}

(* Those that have taken off a place, and those that there was one for.    *)
MmapTaken == {"may map", "mapped", "returns mmap", "no mmap"}
MmapGiven == {"may map", "mapped", "returns mmap"}
FdTaken   == {"permanent", "returns fd", "no fd"}
FdGiven   == {"permanent", "returns fd"}

Places == {"closed", "opened", "not mapped", "not permanent", "temporary", "reading"}
            \cup MmapTaken \cup FdTaken

InitEnv ==
  /\ mmap_limiter_ = MaxMmaps /\ fd_limiter_ = MaxOpenFiles
  /\ place = [f \in Files |-> "closed"]
  /\ background_work_queue_ = <<>> /\ started_background_thread_ = FALSE
  /\ thread = "none" /\ signaled = FALSE /\ working = NoDatabase

Goes(f, from, to) == place[f] = from /\ place' = [place EXCEPT ![f] = to]

(* Mistake: the last place is given twice.                                 *)
AcquiredAtZero(old) == old >= 0

(* A limiter's fetch_sub, whose old value says whether there was a place.  *)
Acquired(old) == old > 0

-----------------------------------------------------------------------------
(* NewRandomAccessFile *)

OpenFile(f) == Goes(f, "closed", "opened") /\ UNCHANGED <<mmap_limiter_, fd_limiter_>>

AcquireMmap(f) ==
  /\ Goes(f, "opened", IF Acquired(mmap_limiter_) THEN "may map" ELSE "no mmap")
  /\ mmap_limiter_' = mmap_limiter_ - 1
  /\ UNCHANGED fd_limiter_

NoMmap(f) ==
  /\ Goes(f, "no mmap", "not mapped")
  /\ mmap_limiter_' = mmap_limiter_ + 1
  /\ UNCHANGED fd_limiter_

(* GetFileSize and mmap succeed, or one of them fails; the descriptor is   *)
(* closed in any case.                                                     *)
MapFile(f) ==
  /\ \E to \in {"mapped", "returns mmap"} : Goes(f, "may map", to)
  /\ UNCHANGED <<mmap_limiter_, fd_limiter_>>

ReleaseMmap(f) ==
  /\ Goes(f, "returns mmap", "closed")
  /\ mmap_limiter_' = mmap_limiter_ + 1
  /\ UNCHANGED fd_limiter_

(* The constructor of PosixRandomAccessFile.                               *)
AcquireFd(f) ==
  /\ Goes(f, "not mapped", IF Acquired(fd_limiter_) THEN "permanent" ELSE "no fd")
  /\ fd_limiter_' = fd_limiter_ - 1
  /\ UNCHANGED mmap_limiter_

NoFd(f) ==
  /\ Goes(f, "no fd", "not permanent")
  /\ fd_limiter_' = fd_limiter_ + 1
  /\ UNCHANGED mmap_limiter_

CloseNotPermanent(f) ==
  /\ Goes(f, "not permanent", "temporary")
  /\ UNCHANGED <<mmap_limiter_, fd_limiter_>>

-----------------------------------------------------------------------------
(* PosixRandomAccessFile::Read opens what has no descriptor, and closes it *)
(* after the read; an open that fails changes nothing.                     *)
ReadFile(f) ==
  /\ Goes(f, "temporary", "reading") \/ Goes(f, "reading", "temporary")
  /\ UNCHANGED <<mmap_limiter_, fd_limiter_>>

(* The destructors: what was held is given up before its place is.         *)
CloseFile(f) ==
  /\ \/ Goes(f, "mapped", "returns mmap")
     \/ Goes(f, "permanent", "returns fd")
     \/ Goes(f, "temporary", "closed")
  /\ UNCHANGED <<mmap_limiter_, fd_limiter_>>

ReleaseFd(f) ==
  /\ Goes(f, "returns fd", "closed")
  /\ fd_limiter_' = fd_limiter_ + 1
  /\ UNCHANGED mmap_limiter_

(* A step of the limits.                                                   *)
LimitStep ==
  \E f \in Files :
    \/ OpenFile(f) \/ AcquireMmap(f) \/ NoMmap(f) \/ MapFile(f) \/ ReleaseMmap(f)
    \/ AcquireFd(f) \/ NoFd(f) \/ CloseNotPermanent(f)
    \/ ReadFile(f) \/ CloseFile(f) \/ ReleaseFd(f)

-----------------------------------------------------------------------------
(* The background thread *)

Queued(d) == \E i \in DOMAIN background_work_queue_ : background_work_queue_[i] = d

(* Somebody may wait only for a queue that is empty.                       *)
Signals == background_work_queue_ = <<>>

(* Schedule, with the mutex held.                                          *)
Schedule(d) ==
  /\ ~Queued(d)
  /\ started_background_thread_' = TRUE
  /\ thread' = IF started_background_thread_ THEN thread ELSE "looks"
  /\ signaled' = (signaled \/ (Signals /\ thread = "waits"))
  /\ background_work_queue_' = Append(background_work_queue_, d)
  /\ UNCHANGED working

(* BackgroundThreadMain, from where it has the mutex to where it gives it  *)
(* up.                                                                     *)
Look ==
  /\ thread = "looks"
  /\ IF background_work_queue_ = <<>>
     THEN thread' = "waits" /\ UNCHANGED <<background_work_queue_, working>>
     ELSE /\ thread' = "works" /\ working' = Head(background_work_queue_)
          /\ background_work_queue_' = Tail(background_work_queue_)
  /\ signaled' = FALSE
  /\ UNCHANGED started_background_thread_

(* A condition variable may wake what waits for it without a signal.       *)
Wake == /\ thread = "waits" /\ thread' = "looks"
        /\ UNCHANGED <<background_work_queue_, started_background_thread_, signaled, working>>

(* The function returns.                                                   *)
Done == /\ thread = "works" /\ thread' = "looks" /\ working' = NoDatabase
        /\ UNCHANGED <<background_work_queue_, started_background_thread_, signaled>>

(* A step of the background thread or of a caller of Schedule.             *)
WorkStep == \/ \E d \in Databases : Schedule(d)
            \/ Look \/ Wake \/ Done

NextEnv == \/ LimitStep /\ UNCHANGED workVars
           \/ WorkStep  /\ UNCHANGED limitVars

SpecEnv == InitEnv /\ [][NextEnv]_envVars

-----------------------------------------------------------------------------
(* Properties *)

(* The files that are at some of the places.                               *)
At(S) == {f \in Files : place[f] \in S}

(* However the steps on the counters interleave, no more files are mapped  *)
(* and no more keep their descriptor than there are places for.            *)
LimitsAreKept == /\ Cardinality(At({"mapped"})) <= MaxMmaps
                 /\ Cardinality(At({"permanent"})) <= MaxOpenFiles

(* When no call is under way, the places that are not left are those of    *)
(* the files that are open: a refusal or a failure costs none.             *)
PlacesComeBack ==
  (\A f \in Files : place[f] \in Sorts \cup {"closed"})
    => /\ mmap_limiter_ = MaxMmaps - Cardinality(At({"mapped"}))
       /\ fd_limiter_ = MaxOpenFiles - Cardinality(At({"permanent"}))

(* No wake-up is lost: while there is work, the thread runs or was         *)
(* signalled, though it is signalled only for the first work of a queue.   *)
NoWorkForgotten ==
  background_work_queue_ # <<>> =>
    thread \in {"looks", "works"} \/ (thread = "waits" /\ signaled)

(* The limits of open files are kept, however threads race for the last    *)
(* place, and no wake-up of the background thread is lost.                 *)
EnvironmentKeeps == LimitsAreKept /\ PlacesComeBack /\ NoWorkForgotten
=============================================================================
