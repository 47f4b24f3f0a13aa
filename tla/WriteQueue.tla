----------------------------- MODULE WriteQueue -----------------------------
(***************************************************************************)
(* The threads of an open database (db/db_impl.cc): writers that queue up  *)
(* behind one leader, the background thread that flushes and compacts, a   *)
(* caller of a manual compaction, and the destructor.  They share mutex_;  *)
(* an action is what one of them does between locking and unlocking it, or *)
(* one step of what it does without it.  The contents of tables are in     *)
(* LsmTree: here a memtable is the set of its entries, level 0 a number of *)
(* files, and a compaction takes some of them away.                        *)
(*                                                                         *)
(* Each writer makes one call: a batch of BatchSize entries, or the null   *)
(* batch of TEST_CompactMemTable.                                          *)
(***************************************************************************)
EXTENDS Integers, Sequences, FiniteSets

CONSTANTS Writers,
          SyncWriters,               \* with WriteOptions::sync
          NullWriters,               \* callers of TEST_CompactMemTable
          BatchSize,
          MaxGroup,                  \* batches that fit in a group
          WriteBufferSize,           \* entries above which a memtable is full
          kL0_CompactionTrigger, kL0_SlowdownWritesTrigger, kL0_StopWritesTrigger,
          MaxErrors,                 \* bound on the failures of the file system
          MaxRounds                  \* bound on the rounds of the manual compaction

ASSUME WritersAssumption == SyncWriters \subseteq Writers /\ NullWriters \subseteq Writers
ASSUME BatchAssumption == BatchSize \in Nat \ {0} /\ MaxGroup \in Nat \ {0}
ASSUME TriggerAssumption ==
  /\ kL0_CompactionTrigger \in Nat \ {0}
  /\ kL0_SlowdownWritesTrigger \in Nat /\ kL0_StopWritesTrigger \in Nat
  /\ kL0_CompactionTrigger <= kL0_StopWritesTrigger

VARIABLES
  pc,              \* per writer, where it is in Write
  result,          \* per writer, the status it was given
  writers_,        \* the queue
  signaled,        \* writers whose condition variable was signalled
  force, allow_delay,  \* MakeRoomForWrite of the leader
  batch,           \* the writers whose batches the leader writes
  inserted,        \* how many of their entries are in mem_
  last_sequence,
  mem, imm, tables,    \* entries in the memtables and in table files
  has_imm,             \* imm_ is not null; it may be without entries
  log, imm_log,        \* the log files of mem and of imm
  l0,                  \* NumLevelFiles(0)
  bg_error,
  scheduled,           \* background_compaction_scheduled_
  flushing,            \* is the background thread in WriteLevel0Table
  compaction,          \* {} or what DoCompactionWork is at
  manual_compaction,   \* is the caller's compaction registered
  caller, manual_done, rounds,
  db,                  \* "open", "closing" (shutting_down_) or "closed"
  errors

leader == <<force, allow_delay, batch, inserted>>
data   == <<last_sequence, mem, imm, has_imm, tables, log, imm_log>>
work   == <<l0, flushing, compaction>>
manual == <<manual_compaction, caller, manual_done, rounds>>
vars   == <<pc, result, writers_, signaled, leader, data, work, bg_error,
            scheduled, manual, db, errors>>

NoLog == [records |-> {}, synced |-> {}]

Init ==
  /\ pc = [w \in Writers |-> "idle"]
  /\ result = [w \in Writers |-> "none"]
  /\ writers_ = <<>> /\ signaled = {}
  /\ force = FALSE /\ allow_delay = FALSE /\ batch = <<>> /\ inserted = 0
  /\ last_sequence = 0
  /\ mem = {} /\ imm = {} /\ tables = {} /\ has_imm = FALSE
  /\ log = NoLog /\ imm_log = NoLog
  /\ l0 = 0 /\ flushing = FALSE /\ compaction = {}
  /\ bg_error = FALSE /\ scheduled = FALSE
  /\ manual_compaction = FALSE /\ caller = "idle" /\ manual_done = FALSE /\ rounds = 0
  /\ db = "open"
  /\ errors = 0

ShuttingDown == db # "open"
Fails == errors < MaxErrors /\ errors' = errors + 1

-----------------------------------------------------------------------------
(* Scheduling and signals *)

(* MaybeScheduleCompaction, for the state that the calling step leaves.    *)
MaybeScheduleCompaction ==
  scheduled' = \/ scheduled
               \/ /\ ~ShuttingDown /\ ~bg_error'
                  /\ has_imm' \/ manual_compaction' \/ l0' >= kL0_CompactionTrigger

(* The threads that wait on background_work_finished_signal_ look again.   *)
Woken(p) == CASE p = "stalled" -> "room" [] p = "flushwait" -> "flushed" [] OTHER -> p

SignalAll ==
  /\ pc' = [w \in Writers |-> Woken(pc[w])]
  /\ caller' = IF caller = "waiting" THEN "loop" ELSE caller

-----------------------------------------------------------------------------
(* DBImpl::Write *)

(* The leader begins MakeRoomForWrite.                                     *)
Lead(w) == /\ pc' = [pc EXCEPT ![w] = "room"]
           /\ force' = (w \in NullWriters)
           /\ allow_delay' = (w \notin NullWriters)
           /\ UNCHANGED <<batch, inserted>>

(* Where a call goes on when its status is known.                          *)
Returned(w, status) == IF w \in NullWriters /\ status = "ok" THEN "flushed" ELSE "returned"

Enqueue(w) ==
  /\ db = "open" /\ pc[w] = "idle"
  /\ writers_' = Append(writers_, w)
  /\ IF writers_ = <<>> THEN Lead(w)
     ELSE pc' = [pc EXCEPT ![w] = "queued"] /\ UNCHANGED leader
  /\ UNCHANGED <<result, signaled, data, work, bg_error, scheduled, manual, db, errors>>

WakeUp(w) ==
  /\ pc[w] = "queued" /\ w \in signaled
  /\ signaled' = signaled \ {w}
  /\ IF result[w] # "none"
     THEN pc' = [pc EXCEPT ![w] = Returned(w, result[w])] /\ UNCHANGED leader
     ELSE IF w = Head(writers_) THEN Lead(w) ELSE UNCHANGED <<pc, leader>>
  /\ UNCHANGED <<result, writers_, data, work, bg_error, scheduled, manual, db, errors>>

(* Mistake: the new head of the queue sleeps on.                           *)
FinishWithoutNewHead(w, n, status) ==
  LET group == {writers_[i] : i \in 1..n}
  IN  /\ writers_' = SubSeq(writers_, n + 1, Len(writers_))
      /\ result' = [v \in Writers |-> IF v \in group THEN status ELSE result[v]]
      /\ signaled' = signaled \cup (group \ {w})

(* The leader w takes the writers up to the n-th off the queue, gives them *)
(* the status, and wakes them and the new head.                            *)
Finish(w, n, status) ==
  LET group == {writers_[i] : i \in 1..n}
      rest  == SubSeq(writers_, n + 1, Len(writers_))
  IN  /\ writers_' = rest
      /\ result' = [v \in Writers |-> IF v \in group THEN status ELSE result[v]]
      /\ signaled' = signaled \cup (group \ {w})
                     \cup (IF rest = <<>> THEN {} ELSE {Head(rest)})

(* A leader without a batch written returns alone.                         *)
FinishAlone(w, status) ==
  /\ Finish(w, 1, status)
  /\ pc' = [pc EXCEPT ![w] = Returned(w, status)]

(* Mistake: a synchronous write rides along with any leader.               *)
GroupLengthAnySync ==
  LET Fits(n) == Cardinality({i \in 1..n : writers_[i] \notin NullWriters}) <= MaxGroup
  IN  CHOOSE n \in 1..Len(writers_) :
        /\ \A i \in 2..n : Fits(i)
        /\ n < Len(writers_) => ~Fits(n + 1)

(* BuildBatchGroup: how many writers of the queue the leader serves.  A    *)
(* synchronous write does not ride along with a leader that is not.        *)
GroupLength ==
  LET Joins(i) == /\ writers_[i] \in SyncWriters => writers_[1] \in SyncWriters
                  /\ Cardinality({j \in 1..i : writers_[j] \notin NullWriters}) <= MaxGroup
  IN  CHOOSE n \in 1..Len(writers_) :
        /\ \A i \in 2..n : Joins(i)
        /\ n < Len(writers_) => ~Joins(n + 1)

(* The writers of q that have a batch, in the order of q.                  *)
WithBatch(q) ==
  LET Has  == {i \in DOMAIN q : q[i] \notin NullWriters}
      Rank == [i \in Has |-> Cardinality({j \in Has : j <= i})]
  IN  [k \in 1..Cardinality(Has) |-> q[CHOOSE i \in Has : Rank[i] = k]]

(* MakeRoomForWrite, one action per branch of its loop.                    *)
AtRoom(w)   == pc[w] = "room"
TooManyL0   == allow_delay /\ l0 >= kL0_SlowdownWritesTrigger
HasRoom     == ~force /\ Cardinality(mem) <= WriteBufferSize

(* Mistake: the memtable being flushed is not waited for.                  *)
WaitForFilesOnly == l0 >= kL0_StopWritesTrigger

MustWait    == has_imm \/ l0 >= kL0_StopWritesTrigger

YieldPreviousError(w) ==
  /\ AtRoom(w) /\ bg_error
  /\ FinishAlone(w, "error")
  /\ UNCHANGED <<leader, data, work, bg_error, scheduled, manual, db, errors>>

Delay(w) ==
  /\ AtRoom(w) /\ ~bg_error /\ TooManyL0
  /\ pc' = [pc EXCEPT ![w] = "delayed"]
  /\ allow_delay' = FALSE
  /\ UNCHANGED <<result, writers_, signaled, force, batch, inserted, data, work,
                 bg_error, scheduled, manual, db, errors>>

EndDelay(w) ==
  /\ pc[w] = "delayed"
  /\ pc' = [pc EXCEPT ![w] = "room"]
  /\ UNCHANGED <<result, writers_, signaled, leader, data, work, bg_error,
                 scheduled, manual, db, errors>>

(* There is room: a null batch is done, another one starts a group.        *)
UseRoom(w) ==
  /\ AtRoom(w) /\ ~bg_error /\ ~TooManyL0 /\ HasRoom
  /\ IF w \in NullWriters
     THEN FinishAlone(w, "ok") /\ UNCHANGED <<batch, inserted>>
     ELSE /\ batch' = SubSeq(writers_, 1, GroupLength)
          /\ inserted' = 0
          /\ pc' = [pc EXCEPT ![w] = "logging"]
          /\ UNCHANGED <<result, writers_, signaled>>
  /\ UNCHANGED <<force, allow_delay, data, work, bg_error, scheduled, manual, db, errors>>

WaitForRoom(w) ==
  /\ AtRoom(w) /\ ~bg_error /\ ~TooManyL0 /\ ~HasRoom /\ MustWait
  /\ pc' = [pc EXCEPT ![w] = "stalled"]
  /\ UNCHANGED <<result, writers_, signaled, leader, data, work, bg_error,
                 scheduled, manual, db, errors>>

(* A new log file and memtable; when the file cannot be made, the write    *)
(* fails.                                                                  *)
SwitchMemTable(w) ==
  /\ AtRoom(w) /\ ~bg_error /\ ~TooManyL0 /\ ~HasRoom /\ ~MustWait
  /\ \/ /\ imm' = mem /\ mem' = {} /\ has_imm' = TRUE
        /\ imm_log' = log /\ log' = NoLog
        /\ force' = FALSE
        /\ UNCHANGED <<work, bg_error, manual, db>>
        /\ MaybeScheduleCompaction
        /\ UNCHANGED <<pc, result, writers_, signaled, errors>>
     \/ /\ Fails
        /\ FinishAlone(w, "error")
        /\ UNCHANGED <<force, imm, has_imm, mem, imm_log, log, work, bg_error, scheduled, manual, db>>
  /\ UNCHANGED <<allow_delay, batch, inserted, last_sequence, tables>>

(* log_->AddRecord without the mutex, then Sync for a synchronous leader.  *)
(* A record that failed to be added may be in the file all the same.       *)
Batched == {WithBatch(batch)[i] : i \in DOMAIN WithBatch(batch)}

AddRecord(w) ==
  /\ pc[w] = "logging"
  /\ LET added == log.records \cup Batched
     IN  \/ /\ log' = [records |-> added,
                       synced  |-> IF w \in SyncWriters THEN added ELSE log.synced]
            /\ pc' = [pc EXCEPT ![w] = "inserting"]
            /\ UNCHANGED errors
         \/ /\ Fails
            /\ \E kept \in {added, log.records} : log' = [log EXCEPT !.records = kept]
            /\ pc' = [pc EXCEPT ![w] = "failed"]
         \/ /\ Fails
            /\ w \in SyncWriters
            /\ log' = [log EXCEPT !.records = added]
            /\ pc' = [pc EXCEPT ![w] = "sync_error"]
  /\ UNCHANGED <<result, writers_, signaled, leader, last_sequence, mem, imm, has_imm,
                 tables, imm_log, work, bg_error, scheduled, manual, db>>

(* WriteBatchInternal::InsertInto, one entry at a time under the readers.  *)
Count == BatchSize * Len(WithBatch(batch))

(* Mistake: the group starts at the last sequence number, not after it.    *)
EntryFromLast(i) == [writer |-> WithBatch(batch)[(i - 1) \div BatchSize + 1],
                     seq    |-> last_sequence + i - 1]

Entry(i) == [writer |-> WithBatch(batch)[(i - 1) \div BatchSize + 1],
             seq    |-> last_sequence + i]

InsertEntry(w) ==
  /\ pc[w] = "inserting" /\ inserted < Count
  /\ mem' = mem \cup {Entry(inserted + 1)}
  /\ inserted' = inserted + 1
  /\ UNCHANGED <<pc, result, writers_, signaled, force, allow_delay, batch,
                 last_sequence, imm, has_imm, tables, log, imm_log, work, bg_error,
                 scheduled, manual, db, errors>>

ClearBatch == batch' = <<>> /\ inserted' = 0

(* The leader has the mutex again: the entries become visible together,    *)
(* and a failed sync stops all further writes.                             *)
EndOfGroup(w) ==
  /\ \/ pc[w] = "inserting" /\ inserted = Count
     \/ pc[w] \in {"failed", "sync_error"}
  /\ last_sequence' = last_sequence + Count
  /\ LET status == IF pc[w] = "inserting" THEN "ok" ELSE "error"
         woken  == IF pc[w] = "sync_error" /\ ~bg_error
                   THEN [v \in Writers |-> Woken(pc[v])] ELSE pc
     IN  /\ Finish(w, Len(batch), status)
         /\ pc' = [woken EXCEPT ![w] = "returned"]
  /\ bg_error' = (bg_error \/ pc[w] = "sync_error")
  /\ caller' = IF bg_error' # bg_error /\ caller = "waiting" THEN "loop" ELSE caller
  /\ ClearBatch
  /\ UNCHANGED <<force, allow_delay, mem, imm, has_imm, tables, log, imm_log, work,
                 scheduled, manual_compaction, manual_done, rounds, db, errors>>

(* TEST_CompactMemTable after its Write: wait until there is no imm.       *)
AwaitFlush(w) ==
  /\ pc[w] = "flushed"
  /\ IF has_imm /\ ~bg_error
     THEN pc' = [pc EXCEPT ![w] = "flushwait"] /\ UNCHANGED result
     ELSE /\ pc' = [pc EXCEPT ![w] = "returned"]
          /\ result' = [result EXCEPT ![w] = IF has_imm THEN "error" ELSE @]
  /\ UNCHANGED <<writers_, signaled, leader, data, work, bg_error, scheduled,
                 manual, db, errors>>

-----------------------------------------------------------------------------
(* The background thread *)

BackgroundIdle == ~flushing /\ compaction = {}

(* Mistake: nothing is scheduled again.                                    *)
EndBackgroundCallOnce == scheduled' = FALSE /\ SignalAll

(* The end of BackgroundCall: schedule what is left to do, wake everyone.  *)
EndBackgroundCall ==
  /\ scheduled' = /\ ~ShuttingDown /\ ~bg_error'
                  /\ has_imm' \/ manual_compaction' \/ l0' >= kL0_CompactionTrigger
  /\ SignalAll

(* BackgroundCall finds an error, a shutdown, or nothing to choose.        *)
BackgroundNothing ==
  /\ scheduled /\ BackgroundIdle
  /\ \/ /\ ShuttingDown \/ bg_error
        /\ UNCHANGED <<manual_compaction, manual_done>>
     \/ /\ ~ShuttingDown /\ ~bg_error /\ ~has_imm
        /\ IF manual_compaction THEN manual_done' = TRUE /\ manual_compaction' = FALSE
           ELSE l0 < kL0_CompactionTrigger /\ UNCHANGED <<manual_compaction, manual_done>>
  /\ UNCHANGED <<data, work, bg_error>>
  /\ EndBackgroundCall
  /\ UNCHANGED <<result, writers_, signaled, leader, rounds, db, errors>>

(* CompactMemTable writes the table without the mutex, at once or between  *)
(* two keys of DoCompactionWork.                                           *)
BeginFlush ==
  /\ scheduled /\ ~flushing /\ has_imm
  /\ compaction = {} => ~ShuttingDown /\ ~bg_error
  /\ flushing' = TRUE
  /\ UNCHANGED <<pc, result, writers_, signaled, leader, data, l0, compaction,
                 bg_error, scheduled, manual, db, errors>>

(* The table goes to level 0 or below; without entries there is none.  A   *)
(* failure, or a shutdown that comes before the check for it, leaves the   *)
(* memtable and stops further work.                                        *)
EndFlush ==
  /\ flushing
  /\ flushing' = FALSE
  /\ \/ /\ imm' = {} /\ has_imm' = FALSE
        /\ tables' = tables \cup imm /\ imm_log' = NoLog
        /\ l0' \in {l0} \cup (IF imm = {} THEN {} ELSE {l0 + 1})
        /\ UNCHANGED <<bg_error, errors>>
     \/ /\ IF ShuttingDown THEN UNCHANGED errors ELSE Fails
        /\ bg_error' = TRUE
        /\ UNCHANGED <<imm, has_imm, tables, imm_log, l0>>
  /\ UNCHANGED <<manual_compaction, manual_done, rounds, compaction>>
  /\ IF compaction = {} THEN EndBackgroundCall ELSE SignalAll /\ UNCHANGED scheduled
  /\ UNCHANGED <<result, writers_, signaled, leader, last_sequence, mem, log, db>>

(* BackgroundCompaction chooses level-0 files: all of them by itself, some *)
(* for a manual compaction.                                                *)
BeginCompaction ==
  /\ scheduled /\ BackgroundIdle /\ ~ShuttingDown /\ ~bg_error /\ ~has_imm
  /\ \/ /\ manual_compaction /\ rounds < MaxRounds
        /\ \E n \in 0..l0 : compaction' = {[inputs |-> n, manual |-> TRUE]}
     \/ /\ ~manual_compaction /\ l0 >= kL0_CompactionTrigger
        /\ compaction' = {[inputs |-> l0, manual |-> FALSE]}
  /\ UNCHANGED <<pc, result, writers_, signaled, leader, data, l0, flushing,
                 bg_error, scheduled, manual, db, errors>>

(* DoCompactionWork ends and its results are installed, or not; a manual   *)
(* compaction is taken back for its caller to go on with.  When it is no   *)
(* longer registered the code follows a null pointer, and nothing comes    *)
(* after that.                                                             *)
EndCompaction ==
  /\ ~flushing
  /\ \E c \in compaction :
       /\ c.manual => manual_compaction
       /\ \/ /\ l0' = l0 - c.inputs
             /\ UNCHANGED <<bg_error, errors, manual_done>>
          \/ /\ IF ShuttingDown THEN UNCHANGED errors ELSE Fails
             /\ bg_error' = TRUE
             /\ manual_done' = (manual_done \/ c.manual)
             /\ UNCHANGED l0
       /\ manual_compaction' = (manual_compaction /\ ~c.manual)
       /\ rounds' = IF c.manual THEN rounds + 1 ELSE rounds
  /\ compaction' = {}
  /\ UNCHANGED <<data, flushing>>
  /\ EndBackgroundCall
  /\ UNCHANGED <<result, writers_, signaled, leader, db>>

-----------------------------------------------------------------------------
(* TEST_CompactRange and the destructor *)

StartCompactRange ==
  /\ db = "open" /\ caller = "idle" /\ MaxRounds > 0
  /\ caller' = "loop"
  /\ UNCHANGED <<pc, result, writers_, signaled, leader, data, work, bg_error,
                 scheduled, manual_compaction, manual_done, rounds, db, errors>>

(* Mistake: the caller takes any signal for the end of its compaction.     *)
CompactRangeOnce ==
  /\ caller = "loop"
  /\ UNCHANGED <<data, work, bg_error>>
  /\ IF manual_compaction \/ manual_done \/ ShuttingDown \/ bg_error
     THEN caller' = "returned" /\ manual_compaction' = FALSE /\ UNCHANGED scheduled
     ELSE caller' = "waiting" /\ manual_compaction' = TRUE /\ MaybeScheduleCompaction
  /\ UNCHANGED <<pc, result, writers_, signaled, leader, manual_done, rounds, db, errors>>

(* One turn of the loop of TEST_CompactRange, after which it waits, or     *)
(* takes back its compaction and returns.                                  *)
CompactRangeTurn ==
  /\ caller = "loop"
  /\ UNCHANGED <<data, work, bg_error>>
  /\ IF manual_done \/ ShuttingDown \/ bg_error
     THEN caller' = "returned" /\ manual_compaction' = FALSE /\ UNCHANGED scheduled
     ELSE /\ caller' = "waiting"
          /\ manual_compaction' = TRUE
          /\ IF manual_compaction THEN UNCHANGED scheduled ELSE MaybeScheduleCompaction
  /\ UNCHANGED <<pc, result, writers_, signaled, leader, manual_done, rounds, db, errors>>

(* The destructor may be called when no other call is going on.            *)
Quiet == /\ \A w \in Writers : pc[w] \in {"idle", "returned"}
         /\ caller \in {"idle", "returned"}

Shutdown ==
  /\ db = "open" /\ Quiet
  /\ db' = "closing"
  /\ UNCHANGED <<pc, result, writers_, signaled, leader, data, work, bg_error,
                 scheduled, manual, errors>>

(* ~DBImpl goes on to free what the background thread works with.          *)
Close ==
  /\ db = "closing" /\ ~scheduled
  /\ db' = "closed"
  /\ UNCHANGED <<pc, result, writers_, signaled, leader, data, work, bg_error,
                 scheduled, manual, errors>>

WriterStep(w) == \/ WakeUp(w) \/ YieldPreviousError(w) \/ Delay(w) \/ EndDelay(w)
                 \/ UseRoom(w) \/ WaitForRoom(w) \/ SwitchMemTable(w)
                 \/ AddRecord(w) \/ InsertEntry(w) \/ EndOfGroup(w) \/ AwaitFlush(w)

BackgroundStep == \/ BackgroundNothing \/ BeginFlush \/ EndFlush
                  \/ BeginCompaction \/ EndCompaction

CallerStep == StartCompactRange \/ CompactRangeTurn
Destructor == Shutdown \/ Close

Next == \/ \E w \in Writers : Enqueue(w)
        \/ \E w \in Writers : WriterStep(w)
        \/ BackgroundStep
        \/ CallerStep
        \/ Destructor

Spec == Init /\ [][Next]_vars

(* Threads that can run do run; nobody has to call anything.  The input of *)
(* a compaction is finite, so that it ends however often it stops for a    *)
(* memtable (whose flush it tries again at each key after a failure).      *)
Fairness == /\ \A w \in Writers : WF_vars(WriterStep(w))
            /\ WF_vars(BackgroundStep)
            /\ SF_vars(EndCompaction)
            /\ WF_vars(CompactRangeTurn)
            /\ WF_vars(Close)

FairSpec == Spec /\ Fairness

-----------------------------------------------------------------------------
(* Properties *)

Stored == mem \cup imm \cup tables
EntriesOf(w, S) == {e \in S : e.writer = w}

TypeOK ==
  /\ pc \in [Writers -> {"idle", "queued", "room", "delayed", "stalled", "logging",
                         "inserting", "failed", "sync_error", "flushed", "flushwait",
                         "returned"}]
  /\ result \in [Writers -> {"none", "ok", "error"}]
  /\ writers_ \in Seq(Writers) /\ signaled \subseteq Writers /\ batch \in Seq(Writers)
  /\ force \in BOOLEAN /\ allow_delay \in BOOLEAN
  /\ inserted \in 0..Count
  /\ l0 \in Nat /\ last_sequence \in Nat /\ errors \in Nat /\ rounds \in Nat
  /\ compaction \subseteq [inputs : Nat, manual : BOOLEAN]
  /\ caller \in {"idle", "loop", "waiting", "returned"} /\ db \in {"open", "closing", "closed"}
  /\ bg_error \in BOOLEAN /\ scheduled \in BOOLEAN /\ flushing \in BOOLEAN
  /\ manual_compaction \in BOOLEAN /\ manual_done \in BOOLEAN /\ has_imm \in BOOLEAN

(* Readers, who see the entries up to last_sequence, see all of a batch or *)
(* nothing of it, while the leader inserts its group under them.           *)
BatchesAreAtomic ==
  \A w \in Writers \ NullWriters :
    Cardinality({e \in EntriesOf(w, Stored) : e.seq <= last_sequence}) \in {0, BatchSize}

(* What was acknowledged stays: a switch of memtables never overwrites one *)
(* that is not flushed, and a flush takes away what it wrote.              *)
AcknowledgedIsKept ==
  \A w \in Writers \ NullWriters :
    result[w] = "ok" => Cardinality(EntriesOf(w, Stored)) = BatchSize

(* An acknowledged synchronous write is in a log that was synced after it, *)
(* or in a table, whoever led its group.                                   *)
SyncedIsDurable ==
  \A w \in SyncWriters \ NullWriters :
    result[w] = "ok" => \/ w \in log.synced \cup imm_log.synced
                        \/ EntriesOf(w, tables) # {}

(* Whenever there is work that a thread may be waiting for, the background *)
(* thread is scheduled: no step forgets MaybeScheduleCompaction.           *)
WorkIsScheduled ==
  /\ has_imm \/ manual_compaction \/ l0 >= kL0_CompactionTrigger
  /\ ~bg_error /\ ~ShuttingDown
  => scheduled

(* What a thread waits for is being worked on.                             *)
QueueInv == TypeOK /\ WorkIsScheduled

(* The manual compaction that BackgroundCompaction updates when it is done *)
(* ("Update *m to the range that is left") is still registered.            *)
ManualIsThere == \A c \in compaction : c.manual => manual_compaction

(* After the destructor nothing runs in the background.                    *)
ClosedIsQuiet == db = "closed" => ~scheduled /\ BackgroundIdle

(* The background thread never works with what is gone.                    *)
BackgroundIsSafe == ManualIsThere /\ ClosedIsQuiet

(* Every call to Write returns, whatever fails and whoever leads: nobody   *)
(* sleeps through its signal, and a stall ends.                            *)
WritersReturn == \A w \in Writers : pc[w] # "idle" ~> pc[w] = "returned"

(* A manual compaction comes to its end, or gives up on an error.          *)
CompactRangeReturns == caller # "idle" ~> caller = "returned"

(* The destructor does not wait for ever.                                  *)
DestructorReturns == db = "closing" ~> db = "closed"
=============================================================================
