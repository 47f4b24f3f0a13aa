------------------------------ MODULE Recovery ------------------------------
(***************************************************************************)
(* The files of a database, and how a new incarnation finds its state in   *)
(* them after a crash (DB::Open and DBImpl::Recover in db/db_impl.cc,      *)
(* LogAndApply and Recover in db/version_set.cc).  A write is its sequence *)
(* number; a table is the set of the writes in it; a log file is the       *)
(* sequence of its writes and a manifest that of its edits, each with the  *)
(* number of records that a sync has made durable.                         *)
(*                                                                         *)
(* A kill of the process loses its memory, a failure of the machine also   *)
(* what was not synced of each file.  The file system is assumed to keep   *)
(* the order of renames and removals, and the name of a file it synced.    *)
(***************************************************************************)
EXTENDS Integers, Sequences, FiniteSets, Functions

CONSTANTS Fresh,            \* does the first Open create the database
          ReuseLogs,        \* Options::reuse_logs
          WriteBufferSize,  \* writes above which a memtable is full
          MaxWrites, MaxCrashes, MaxErrors, MaxPins,
          MaxFile           \* bound on the file numbers

ASSUME FreshAssumption == Fresh \in BOOLEAN /\ ReuseLogs \in BOOLEAN
ASSUME BufferAssumption == WriteBufferSize \in Nat /\ MaxWrites \in Nat

VARIABLES
  CURRENT,              \* the number of the manifest it names, or 0
  manifests, logs, tables,     \* by number
  status,               \* what the process is at
  todo, pos,            \* RecoverLogFile: logs left, records read of the first
  save_manifest, compactions, max_sequence,   \* locals of Recover
  mem, imm,
  last_sequence_, next_file_number_, log_number_,
  logfile_number_,      \* 0 before there is one
  manifest_file_number_,
  descriptor,           \* the number of the manifest being written, or 0
  version, pinned,      \* the current version, and those of iterators
  pending_outputs,
  compaction,           \* {} or the compaction at work
  edit, applying,       \* the edit in LogAndApply and how far that is
  bg_error,
  acked, durable,       \* history: writes that must be there, come what may
  crashes, errors

disk    == <<CURRENT, manifests, logs, tables>>
replay  == <<todo, pos, save_manifest, compactions, max_sequence>>
numbers == <<last_sequence_, next_file_number_, log_number_, logfile_number_,
             manifest_file_number_, descriptor>>
live    == <<version, pinned, pending_outputs, compaction>>
history == <<acked, durable>>
vars    == <<disk, status, replay, mem, imm, numbers, live, edit, applying,
             bg_error, history, crashes, errors>>

Absent  == -1
NoEdit  == [add |-> {}, del |-> {}, log |-> Absent, next |-> Absent, seq |-> Absent]
NewEdit == [NoEdit EXCEPT !.log = 0, !.next = 2, !.seq = 0]

NoMemory ==
  /\ todo' = <<>> /\ pos' = 0 /\ save_manifest' = FALSE /\ compactions' = 0
  /\ max_sequence' = 0
  /\ mem' = {} /\ imm' = {}
  /\ last_sequence_' = 0 /\ next_file_number_' = 2 /\ log_number_' = 0
  /\ logfile_number_' = 0 /\ manifest_file_number_' = 0 /\ descriptor' = 0
  /\ version' = {} /\ pinned' = {} /\ pending_outputs' = {} /\ compaction' = {}
  /\ edit' = NoEdit /\ applying' = "no"
  /\ bg_error' = FALSE

Init ==
  /\ IF Fresh THEN CURRENT = 0 /\ manifests = <<>>
     ELSE CURRENT = 1 /\ manifests = <<[edits |-> <<NewEdit>>, synced |-> 1]>>
  /\ logs = <<>> /\ tables = <<>>
  /\ status = "down"
  /\ todo = <<>> /\ pos = 0 /\ save_manifest = FALSE /\ compactions = 0
  /\ max_sequence = 0
  /\ mem = {} /\ imm = {}
  /\ last_sequence_ = 0 /\ next_file_number_ = 2 /\ log_number_ = 0
  /\ logfile_number_ = 0 /\ manifest_file_number_ = 0 /\ descriptor = 0
  /\ version = {} /\ pinned = {} /\ pending_outputs = {} /\ compaction = {}
  /\ edit = NoEdit /\ applying = "no"
  /\ bg_error = FALSE
  /\ acked = {} /\ durable = {}
  /\ crashes = 0 /\ errors = 0

Put(f, n, x) == [m \in DOMAIN f \cup {n} |-> IF m = n THEN x ELSE f[m]]
Larger(m, n) == IF m >= n THEN m ELSE n
Fails == errors < MaxErrors /\ errors' = errors + 1

-----------------------------------------------------------------------------
(* DBImpl::NewDB: the manifest is closed, not synced, before CURRENT names it. *)

NewDB ==
  /\ status = "down" /\ CURRENT = 0
  /\ manifests' = Put(manifests, 1, [edits |-> <<NewEdit>>, synced |-> 0])
  /\ status' = "created"
  /\ UNCHANGED <<CURRENT, logs, tables, replay, mem, imm, numbers, live, edit,
                 applying, bg_error, history, crashes, errors>>

NewDBCurrent ==
  /\ status = "created"
  /\ CURRENT' = 1
  /\ status' = "down"
  /\ UNCHANGED <<manifests, logs, tables, replay, mem, imm, numbers, live, edit,
                 applying, bg_error, history, crashes, errors>>

-----------------------------------------------------------------------------
(* VersionSet::Recover *)

(* The tables after all edits: those that were added, and not deleted since. *)
TablesOf(edits) ==
  {n \in UNION {edits[i].add : i \in DOMAIN edits} :
     \E i \in DOMAIN edits :
       n \in edits[i].add /\ \A j \in DOMAIN edits : j > i => n \notin edits[j].del}

(* The last value a field was given.                                       *)
LastOf(values) ==
  LET given == {i \in DOMAIN values : values[i] # Absent}
  IN  IF given = {} THEN Absent ELSE values[CHOOSE i \in given : \A j \in given : j <= i]

LogOf(edits)  == LastOf([i \in DOMAIN edits |-> edits[i].log])
NextOf(edits) == LastOf([i \in DOMAIN edits |-> edits[i].next])
SeqOf(edits)  == LastOf([i \in DOMAIN edits |-> edits[i].seq])

Incomplete(edits) == Absent \in {LogOf(edits), NextOf(edits), SeqOf(edits)}

(* Mistake: only the log that the manifest names is replayed.              *)
OnlyNamedLog(number) == IF number \in DOMAIN logs THEN <<number>> ELSE <<>>

(* The logs to replay, in the order in which they were generated.          *)
LogsFrom(number) ==
  LET newer == {n \in DOMAIN logs : n >= number}
  IN  [i \in 1..Cardinality(newer) |->
         CHOOSE n \in newer : Cardinality({m \in newer : m < n}) = i - 1]

RecoverVersions ==
  /\ status = "down" /\ CURRENT # 0
  /\ LET edits == manifests[CURRENT].edits
     IN  IF \/ CURRENT \notin DOMAIN manifests
            \/ Incomplete(edits)
            \/ ~(TablesOf(edits) \subseteq DOMAIN tables)
         THEN /\ status' = "corrupt"
              /\ UNCHANGED <<replay, numbers, version>>
         ELSE /\ status' = "replay"
              /\ version' = TablesOf(edits)
              /\ last_sequence_' = SeqOf(edits)
              /\ log_number_' = LogOf(edits)
              /\ next_file_number_' = NextOf(edits) + 1
              /\ manifest_file_number_' = IF ReuseLogs THEN CURRENT ELSE NextOf(edits)
              /\ descriptor' = IF ReuseLogs THEN CURRENT ELSE 0
              /\ save_manifest' = ~ReuseLogs
              /\ todo' = LogsFrom(LogOf(edits))
              /\ UNCHANGED <<pos, compactions, max_sequence, logfile_number_>>
  /\ UNCHANGED <<disk, mem, imm, pinned, pending_outputs, compaction, edit,
                 applying, bg_error, history, crashes, errors>>

-----------------------------------------------------------------------------
(* RecoverLogFile *)

(* WriteLevel0Table during recovery: a table, synced, for the edit.        *)
WriteRecoveredTable(contents) ==
  /\ tables' = Put(tables, next_file_number_, contents)
  /\ edit' = [edit EXCEPT !.add = @ \cup {next_file_number_}]
  /\ save_manifest' = TRUE

Records == logs[Head(todo)].records

ReplayRecord ==
  /\ status = "replay" /\ todo # <<>> /\ pos < Len(Records)
  /\ pos' = pos + 1
  /\ LET seq  == Records[pos + 1]
         full == mem \cup {seq}
     IN  /\ max_sequence' = Larger(max_sequence, seq)
         /\ IF Cardinality(full) > WriteBufferSize
            THEN /\ WriteRecoveredTable(full)
                 /\ next_file_number_' = next_file_number_ + 1
                 /\ compactions' = compactions + 1
                 /\ mem' = {}
            ELSE /\ mem' = full
                 /\ UNCHANGED <<tables, edit, save_manifest, next_file_number_, compactions>>
  /\ UNCHANGED <<CURRENT, manifests, logs, status, todo, imm, last_sequence_,
                 log_number_, logfile_number_, manifest_file_number_, descriptor,
                 live, applying, bg_error, history, crashes, errors>>

MarkFileNumberUsed(next, number) == Larger(next, number + 1)

(* The last log may be taken over with its memtable; otherwise the rest of *)
(* the memtable becomes a table.  MarkFileNumberUsed follows.              *)
EndOfLog ==
  /\ status = "replay" /\ todo # <<>> /\ pos = Len(Records)
  /\ LET reused == ReuseLogs /\ Len(todo) = 1 /\ compactions = 0
         used   == IF reused \/ mem = {} THEN next_file_number_ ELSE next_file_number_ + 1
     IN  /\ IF reused \/ mem = {} THEN UNCHANGED <<tables, edit, save_manifest>>
            ELSE WriteRecoveredTable(mem)
         /\ mem' = IF reused THEN mem ELSE {}
         /\ logfile_number_' = IF reused THEN Head(todo) ELSE 0
         /\ next_file_number_' = MarkFileNumberUsed(used, Head(todo))
  /\ todo' = Tail(todo) /\ pos' = 0 /\ compactions' = 0
  /\ UNCHANGED <<CURRENT, manifests, logs, status, max_sequence, imm, last_sequence_,
                 log_number_, manifest_file_number_, descriptor, live, applying,
                 bg_error, history, crashes, errors>>

-----------------------------------------------------------------------------
(* DeleteObsoleteFiles *)

(* AddLiveFiles and pending_outputs_.                                      *)
LiveFiles(v, pending) == v \cup (UNION pinned) \cup pending

(* Nothing is removed after an error; a removal that fails is not noticed. *)
(* The logs are given, as Open may just have made one.                     *)
DeleteObsoleteFiles(files, v, log_number, pending) ==
  \/ logs' = files /\ UNCHANGED <<manifests, tables>>
  \/ /\ ~bg_error
     /\ logs' = Restrict(files, {n \in DOMAIN files : n >= log_number})
     /\ manifests' = Restrict(manifests, {n \in DOMAIN manifests : n >= manifest_file_number_})
     /\ tables' = Restrict(tables, DOMAIN tables \cap LiveFiles(v, pending))

-----------------------------------------------------------------------------
(* LogAndApply *)

(* The fields that LogAndApply adds to an edit that tells its log or not.  *)
Completed(e, next) ==
  [e EXCEPT !.log = IF @ = Absent THEN log_number_ ELSE @,
            !.next = next, !.seq = last_sequence_]

(* Mistake: the sequence number of the manifest is taken as it is.         *)
LastLoggedSequence == last_sequence_

RecoveredSequence == Larger(last_sequence_, max_sequence)

(* The rest of DB::Open: a log to write to, then the manifest if need be;  *)
(* a manifest that is taken over as it is, is not synced before files that *)
(* its last records drop are removed.                                      *)
FinishReplay ==
  /\ status = "replay" /\ todo = <<>>
  /\ last_sequence_' = RecoveredSequence
  /\ LET new  == logfile_number_ = 0
         file == IF new THEN next_file_number_ ELSE logfile_number_
         next == IF new THEN next_file_number_ + 1 ELSE next_file_number_
         files == IF new THEN Put(logs, file, [records |-> <<>>, synced |-> 0]) ELSE logs
     IN  /\ logfile_number_' = file
         /\ next_file_number_' = next
         /\ IF save_manifest
            THEN /\ edit' = [edit EXCEPT !.log = file, !.next = next,
                                         !.seq = last_sequence_']
                 /\ applying' = "record" /\ status' = "opening"
                 /\ logs' = files /\ UNCHANGED <<manifests, tables>>
            ELSE /\ edit' = NoEdit /\ applying' = "no" /\ status' = "open"
                 /\ DeleteObsoleteFiles(files, version, log_number_, {})
  /\ UNCHANGED <<CURRENT, replay, mem, imm, log_number_,
                 manifest_file_number_, descriptor, live, bg_error, history,
                 crashes, errors>>

(* A new manifest begins with a snapshot of the current version.           *)
WriteSnapshot == [NoEdit EXCEPT !.add = version]

WriteManifest ==
  /\ applying = "record"
  /\ IF descriptor = 0
     THEN manifests' = Put(manifests, manifest_file_number_,
                           [edits |-> <<WriteSnapshot, edit>>, synced |-> 0])
     ELSE manifests' = [manifests EXCEPT ![descriptor].edits = Append(@, edit)]
  /\ applying' = "sync"
  /\ UNCHANGED <<CURRENT, logs, tables, status, replay, mem, imm, numbers, live, edit,
                 bg_error, history, crashes, errors>>

(* Mistake: CURRENT is set, and files are removed, without a sync.         *)
NotSynced(m) == m

Synced(m) == [m EXCEPT !.synced = Len(m.edits)]

SyncManifest ==
  /\ applying = "sync"
  /\ LET n == IF descriptor = 0 THEN manifest_file_number_ ELSE descriptor
     IN  manifests' = [manifests EXCEPT ![n] = Synced(@)]
  /\ applying' = IF descriptor = 0 THEN "current" ELSE "install"
  /\ UNCHANGED <<CURRENT, logs, tables, status, replay, mem, imm, numbers, live, edit,
                 bg_error, history, crashes, errors>>

(* The record may be in the manifest or not when its write or sync fails.  *)
(* At Open the new manifest is removed and the process gives up; later the *)
(* background error stops all further work.                                *)
ManifestFails ==
  /\ applying \in {"record", "sync"}
  /\ Fails
  /\ IF status = "opening"
     THEN /\ status' = "down"
          /\ manifests' = IF descriptor = 0
                          THEN Restrict(manifests, DOMAIN manifests \ {manifest_file_number_})
                          ELSE manifests
          /\ NoMemory
     ELSE /\ bg_error' = TRUE
          /\ pending_outputs' = pending_outputs \ edit.add
          /\ compaction' = IF edit.del = {} THEN compaction ELSE {}
          /\ edit' = NoEdit /\ applying' = "no"
          /\ UNCHANGED <<status, manifests, replay, mem, imm, numbers, version, pinned>>
  /\ UNCHANGED <<CURRENT, logs, tables, history, crashes>>

SetCurrentFile ==
  /\ applying = "current"
  /\ CURRENT' = manifest_file_number_
  /\ descriptor' = manifest_file_number_
  /\ applying' = "install"
  /\ UNCHANGED <<manifests, logs, tables, status, replay, mem, imm, last_sequence_,
                 next_file_number_, log_number_, logfile_number_, manifest_file_number_,
                 live, edit, bg_error, history, crashes, errors>>

(* The new version is current, and the caller of LogAndApply goes on: Open,*)
(* CompactMemTable (an edit that only adds) or a compaction.               *)
InstallVersion ==
  /\ applying = "install"
  /\ version' = (version \ edit.del) \cup edit.add
  /\ log_number_' = edit.log
  /\ imm' = IF edit.del = {} THEN {} ELSE imm
  /\ pending_outputs' = pending_outputs \ edit.add
  /\ compaction' = IF edit.del = {} THEN compaction ELSE {}
  /\ DeleteObsoleteFiles(logs, version', edit.log, pending_outputs')
  /\ status' = "open"
  /\ edit' = NoEdit /\ applying' = "no"
  /\ LET stored == UNION {tables[n] : n \in edit.add}
     IN  durable' = durable \cup stored /\ acked' = acked \cup stored
  /\ UNCHANGED <<CURRENT, replay, mem, last_sequence_, next_file_number_,
                 logfile_number_, manifest_file_number_, descriptor, pinned,
                 bg_error, crashes, errors>>

-----------------------------------------------------------------------------
(* The open database *)

Open == status = "open"

Write(sync) ==
  /\ Open /\ ~bg_error
  /\ last_sequence_ < MaxWrites /\ Cardinality(mem) <= WriteBufferSize
  /\ LET seq     == last_sequence_ + 1
         records == Append(logs[logfile_number_].records, seq)
     IN  /\ logs' = [logs EXCEPT ![logfile_number_] =
                       [records |-> records,
                        synced  |-> IF sync THEN Len(records) ELSE @.synced]]
         /\ mem' = mem \cup {seq}
         /\ last_sequence_' = seq
         /\ acked' = acked \cup {seq}
         /\ durable' = IF sync THEN durable \cup {seq} ELSE durable
  /\ UNCHANGED <<CURRENT, manifests, tables, status, replay, imm, next_file_number_,
                 log_number_, logfile_number_, manifest_file_number_, descriptor,
                 live, edit, applying, bg_error, crashes, errors>>

SwitchMemTable ==
  /\ Open /\ ~bg_error /\ next_file_number_ <= MaxFile
  /\ mem # {} /\ imm = {}
  /\ imm' = mem /\ mem' = {}
  /\ logs' = Put(logs, next_file_number_, [records |-> <<>>, synced |-> 0])
  /\ logfile_number_' = next_file_number_
  /\ next_file_number_' = next_file_number_ + 1
  /\ UNCHANGED <<CURRENT, manifests, tables, status, replay, last_sequence_,
                 log_number_, manifest_file_number_, descriptor, live, edit,
                 applying, bg_error, history, crashes, errors>>

(* CompactMemTable: the table is written and synced, then logged with the  *)
(* number of the log of mem, as the log of imm is no longer needed.  It is *)
(* tried even after an error when a compaction is going on.                *)
WriteLevel0Table ==
  /\ Open /\ applying = "no" /\ imm # {} /\ next_file_number_ <= MaxFile
  /\ bg_error => compaction # {}
  /\ tables' = Put(tables, next_file_number_, imm)
  /\ next_file_number_' = next_file_number_ + 1
  /\ edit' = Completed([NoEdit EXCEPT !.add = {next_file_number_}, !.log = logfile_number_],
                       next_file_number_')
  /\ applying' = "record"
  /\ UNCHANGED <<CURRENT, manifests, logs, status, replay, mem, imm, last_sequence_,
                 log_number_, logfile_number_, manifest_file_number_, descriptor,
                 live, bg_error, history, crashes, errors>>

(* OpenCompactionOutputFile: the file is there, and protected, before it   *)
(* has contents.                                                           *)
OpenCompactionOutput ==
  /\ Open /\ applying = "no" /\ ~bg_error /\ imm = {} /\ compaction = {}
  /\ next_file_number_ <= MaxFile
  /\ \E inputs \in (SUBSET version) \ {{}} :
       compaction' = {[inputs |-> inputs, output |-> next_file_number_]}
  /\ pending_outputs' = pending_outputs \cup {next_file_number_}
  /\ tables' = Put(tables, next_file_number_, {})
  /\ next_file_number_' = next_file_number_ + 1
  /\ UNCHANGED <<CURRENT, manifests, logs, status, replay, mem, imm, last_sequence_,
                 log_number_, logfile_number_, manifest_file_number_, descriptor,
                 version, pinned, edit, applying, bg_error, history, crashes, errors>>

(* FinishCompactionOutputFile and InstallCompactionResults.                *)
FinishCompactionOutput ==
  /\ Open /\ applying = "no"
  /\ \E c \in compaction :
       /\ tables' = [n \in DOMAIN tables |->
                       IF n = c.output THEN UNION {tables[i] : i \in c.inputs} ELSE tables[n]]
       /\ edit' = Completed([NoEdit EXCEPT !.add = {c.output}, !.del = c.inputs],
                            next_file_number_)
  /\ applying' = "record"
  /\ UNCHANGED <<CURRENT, manifests, logs, status, replay, mem, imm, numbers, live,
                 bg_error, history, crashes, errors>>

(* An iterator keeps the version it was made from, until it is deleted.    *)
NewIterator ==
  /\ Open /\ Cardinality(pinned) < MaxPins
  /\ pinned' = pinned \cup {version}
  /\ UNCHANGED <<disk, status, replay, mem, imm, numbers, version, pending_outputs,
                 compaction, edit, applying, bg_error, history, crashes, errors>>

DeleteIterator ==
  /\ \E v \in pinned : pinned' = pinned \ {v}
  /\ UNCHANGED <<disk, status, replay, mem, imm, numbers, version, pending_outputs,
                 compaction, edit, applying, bg_error, history, crashes, errors>>

-----------------------------------------------------------------------------
(* Crashes *)

Crash == /\ crashes < MaxCrashes /\ crashes' = crashes + 1
         /\ status # "corrupt"
         /\ status' = "down"
         /\ NoMemory

Kill == /\ Crash
        /\ UNCHANGED <<disk, history, errors>>

(* The records that no sync covers are lost from some place on.            *)
PowerFailure ==
  /\ Crash
  /\ \E lost \in [DOMAIN logs -> 0..MaxWrites] :
       /\ \A n \in DOMAIN logs : lost[n] <= Len(logs[n].records) - logs[n].synced
       /\ logs' = [n \in DOMAIN logs |->
                     LET left == Len(logs[n].records) - lost[n]
                     IN  [records |-> SubSeq(logs[n].records, 1, left), synced |-> left]]
  /\ \E kept \in BOOLEAN :
       manifests' = [n \in DOMAIN manifests |->
                       LET left == IF kept THEN Len(manifests[n].edits) ELSE manifests[n].synced
                       IN  [edits |-> SubSeq(manifests[n].edits, 1, left), synced |-> left]]
  /\ acked' = durable
  /\ UNCHANGED <<CURRENT, tables, durable, errors>>

(* A step of the program.                                                  *)
Step ==
  \/ NewDB \/ NewDBCurrent \/ RecoverVersions \/ ReplayRecord \/ EndOfLog \/ FinishReplay
  \/ WriteManifest \/ SyncManifest \/ ManifestFails \/ SetCurrentFile \/ InstallVersion
  \/ \E sync \in BOOLEAN : Write(sync)
  \/ SwitchMemTable \/ WriteLevel0Table
  \/ OpenCompactionOutput \/ FinishCompactionOutput
  \/ NewIterator \/ DeleteIterator

Next == Step \/ Kill \/ PowerFailure

Spec == Init /\ [][Next]_vars

-----------------------------------------------------------------------------
(* Properties *)

Content == mem \cup imm \cup UNION {tables[n] : n \in version}

(* An open database has every write that was acknowledged, but those that  *)
(* a failure of the machine took which neither a sync nor a table covered. *)
OpenHasAll == Open => acked \subseteq Content

(* No sequence number of an entry is ever given out again.                 *)
SequencesCovered == Open => \A seq \in Content : seq <= last_sequence_

(* The files of the current version, of the versions of iterators and of   *)
(* the compaction at work are there.                                       *)
FilesExist ==
  status \in {"opening", "open"} =>
    version \cup (UNION pinned) \cup pending_outputs \subseteq DOMAIN tables

(* Open never reports a corrupt database: CURRENT names a manifest that is *)
(* there and complete, and its tables are there ("the creation of the DB   *)
(* is committed only when the descriptor is created", db_impl.cc).         *)
NeverCorrupt == status # "corrupt"
=============================================================================
