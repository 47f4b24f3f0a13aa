--------------------------- MODULE RecoveryProofs ---------------------------
(***************************************************************************)
(* Recovery finds what was acknowledged: theorems about Recovery, for any  *)
(* number of writes, files, crashes, errors and iterators.                 *)
(*                                                                         *)
(* At every moment both what the current manifest holds and the part of it *)
(* that is synced can be recovered from, whichever of them a crash leaves: *)
(* the tables after its edits and the logs from the number of its last edit*)
(* on hold every acknowledged write, and their synced records every        *)
(* durable one.                                                            *)
(***************************************************************************)
EXTENDS Recovery, SequenceTheorems, FiniteSetTheorems, TLAPS

Edits    == [add : SUBSET Nat, del : SUBSET Nat, log : Nat \cup {Absent},
             next : Nat \cup {Absent}, seq : Nat \cup {Absent}]
Complete == [add : SUBSET Nat, del : SUBSET Nat, log : Nat, next : Nat, seq : Nat]
Logs     == {file \in [records : Seq(Nat), synced : Nat] : file.synced <= Len(file.records)}

LastEdit(E) == E[Len(E)]

(* Only manifests that a sync made durable are built upon.  NewDB does not *)
(* sync its manifest, and with reuse_logs Open takes over the last record  *)
(* of a manifest without a sync.                                           *)
Syncs == ~Fresh /\ ~ReuseLogs

(* Where a write is: in a table of T, in a log, in a log from number l on. *)
InTables(s, T, tabs) == \E n \in T : s \in tabs[n]
InLog(s, file)       == \E i \in 1..Len(file.records) : file.records[i] = s
SyncedInLog(s, file) == \E i \in 1..file.synced : file.records[i] = s
InLogs(s, l, files)  == \E n \in DOMAIN files : n >= l /\ InLog(s, files[n])
SyncedInLogs(s, l, files) == \E n \in DOMAIN files : n >= l /\ SyncedInLog(s, files[n])

(* Tables T and the logs from l on hold what they must.                    *)
Holds(T, l, tabs, files, all, kept) ==
  /\ \A s \in all : InTables(s, T, tabs) \/ InLogs(s, l, files)
  /\ \A s \in kept : InTables(s, T, tabs) \/ SyncedInLogs(s, l, files)

(* Edits say what recovery needs, and their numbers are covered.           *)
Sound(E, tabs, current) ==
  /\ E \in Seq(Edits) /\ E # <<>> /\ LastEdit(E) \in Complete
  /\ LastEdit(E).log < LastEdit(E).next /\ current < LastEdit(E).next
  /\ TablesOf(E) \subseteq DOMAIN tabs
  /\ \A n \in TablesOf(E) : n < LastEdit(E).next /\ \A s \in tabs[n] : s <= LastEdit(E).seq

(* The edits of the current manifest, and those of them that are synced.   *)
Manifest       == manifests[CURRENT].edits
SyncedManifest == SubSeq(Manifest, 1, manifests[CURRENT].synced)

Restorable(E) ==
  /\ Sound(E, tables, CURRENT)
  /\ Holds(TablesOf(E), LastEdit(E).log, tables, logs, acked, durable)

FilesType ==
  /\ CURRENT \in Nat
  /\ DOMAIN manifests \subseteq Nat
  /\ \A n \in DOMAIN manifests : /\ manifests[n] \in [edits : Seq(Edits), synced : Nat]
                                 /\ manifests[n].synced <= Len(manifests[n].edits)
  /\ DOMAIN logs \subseteq Nat \ {0} /\ IsFiniteSet(DOMAIN logs)
  /\ \A n \in DOMAIN logs : logs[n] \in Logs
  /\ DOMAIN tables \subseteq Nat /\ \A n \in DOMAIN tables : tables[n] \subseteq Nat

StateType ==
  /\ status \in {"down", "created", "replay", "opening", "open"}
  /\ todo \in Seq(Nat) /\ pos \in Nat /\ save_manifest \in BOOLEAN
  /\ compactions \in Nat /\ max_sequence \in Nat
  /\ mem \subseteq Nat /\ imm \subseteq Nat
  /\ last_sequence_ \in Nat /\ next_file_number_ \in Nat \ {0} /\ log_number_ \in Nat
  /\ logfile_number_ \in Nat /\ manifest_file_number_ \in Nat /\ descriptor \in Nat
  /\ version \subseteq Nat /\ bg_error \in BOOLEAN
  /\ edit \in Edits /\ applying \in {"no", "record", "sync", "current", "install"}
  /\ durable \subseteq acked /\ acked \subseteq Nat

TypeOK == FilesType /\ StateType

DiskOK ==
  IF CURRENT = 0
  THEN /\ Fresh /\ status \in {"down", "created"} /\ acked = {}
       /\ status = "created" => 1 \in DOMAIN manifests /\ manifests[1].edits = <<NewEdit>>
  ELSE /\ status # "created" /\ CURRENT \in DOMAIN manifests /\ Restorable(Manifest)
       /\ Syncs => /\ Restorable(SyncedManifest)
                    /\ LastEdit(SyncedManifest).next <= LastEdit(Manifest).next
                    /\ LastEdit(SyncedManifest).log <= LastEdit(Manifest).log

(* Nothing is in memory while the process is down.                         *)
DownOK ==
  status \in {"down", "created"} =>
    /\ todo = <<>> /\ pos = 0 /\ compactions = 0 /\ max_sequence = 0
    /\ mem = {} /\ imm = {}
    /\ logfile_number_ = 0 /\ version = {} /\ pinned = {} /\ pending_outputs = {}
    /\ compaction = {} /\ edit = NoEdit /\ applying = "no" /\ bg_error = FALSE

(* The logs that are left to replay, or the one that was taken over.       *)
ToDo     == {todo[i] : i \in 1..Len(todo)}
LogsLeft == IF logfile_number_ # 0 THEN {logfile_number_} ELSE ToDo

(* The tables of the version, and of the edit with which Open ends.        *)
Recovered == version \cup edit.add

(* Recover begins with what the manifest says.                             *)
ReplayStart ==
  status = "replay" =>
    /\ CURRENT # 0 /\ applying = "no" /\ imm = {} /\ bg_error = FALSE
    /\ pinned = {} /\ pending_outputs = {} /\ compaction = {}
    /\ version = TablesOf(Manifest) /\ log_number_ = LastEdit(Manifest).log
    /\ last_sequence_ = LastEdit(Manifest).seq
    /\ LastEdit(Manifest).next < next_file_number_
    /\ IF ReuseLogs THEN manifest_file_number_ = CURRENT /\ descriptor = CURRENT
       ELSE manifest_file_number_ = LastEdit(Manifest).next /\ descriptor = 0

(* It makes tables of what it replays.                                     *)
ReplayTables ==
  status = "replay" =>
    /\ save_manifest \/ (ReuseLogs /\ edit.add = {})
    /\ edit = [NoEdit EXCEPT !.add = edit.add]
    /\ edit.add \subseteq DOMAIN tables
    /\ \A n \in edit.add : /\ LastEdit(Manifest).next < n /\ n < next_file_number_
                           /\ \A s \in tables[n] : s <= max_sequence
    /\ \A s \in mem : s <= max_sequence

(* What is not in a table yet is in memory, or left to replay.             *)
ReplayLogs ==
  status = "replay" =>
    /\ \A n \in LogsLeft : n \in DOMAIN logs /\ n >= log_number_
    /\ \A n \in DOMAIN logs : n \in ToDo \/ n < next_file_number_
    /\ \A s \in acked : InTables(s, Recovered, tables) \/ \E n \in LogsLeft : InLog(s, logs[n])
    /\ \A s \in durable :
         InTables(s, Recovered, tables) \/ \E n \in LogsLeft : SyncedInLog(s, logs[n])
    /\ todo # <<>> =>
         /\ logfile_number_ = 0 /\ pos <= Len(Records)
         /\ \A s \in mem : \E i \in 1..pos : Records[i] = s
         /\ \A i \in 1..pos : Records[i] \in mem \/ InTables(Records[i], Recovered, tables)
    /\ todo = <<>> /\ logfile_number_ # 0 =>
         /\ \A s \in mem : InLog(s, logs[logfile_number_])
         /\ LET records == logs[logfile_number_].records
            IN  \A i \in 1..Len(records) :
                  records[i] \in mem \/ InTables(records[i], Recovered, tables)
    /\ todo = <<>> /\ logfile_number_ = 0 => mem = {}

Running == status \in {"opening", "open"}
Tables  == version \cup (IF status = "opening" THEN edit.add ELSE {})

(* What is in memory, and what was written of it.                          *)
MemoryOK ==
  Running =>
    /\ logfile_number_ \in DOMAIN logs /\ log_number_ <= logfile_number_
    /\ \A n \in DOMAIN logs : n < next_file_number_
    /\ \A s \in mem : InLog(s, logs[logfile_number_])
    /\ \A s \in acked : s \in mem \/ s \in imm \/ InTables(s, Tables, tables)
    /\ \A s \in durable : \/ SyncedInLog(s, logs[logfile_number_])
                          \/ s \in imm \/ InTables(s, Tables, tables)
    /\ Holds(Tables, log_number_, tables, logs, acked, durable)
    /\ \A s \in mem \cup imm : s <= last_sequence_
    /\ \A n \in Tables : \A s \in tables[n] : s <= last_sequence_

(* The manifest follows the version, and is ahead of it while an edit is   *)
(* applied; after an error it may hold edits that were given up.           *)
Logged == descriptor # 0 /\ applying \in {"sync", "install"}

VersionOK ==
  Running =>
    /\ CURRENT # 0 /\ Tables \subseteq DOMAIN tables
    /\ \A n \in Tables : n < next_file_number_
    /\ manifest_file_number_ < next_file_number_
    /\ pending_outputs \cup UNION pinned \subseteq DOMAIN tables
    /\ LastEdit(Manifest).next <= next_file_number_ /\ LastEdit(Manifest).seq <= last_sequence_
    /\ LastEdit(Manifest).log <= logfile_number_
    /\ Syncs /\ applying # "install" => LastEdit(SyncedManifest).log <= log_number_
    /\ \A n \in version : \A s \in tables[n] : InTables(s, TablesOf(Manifest), tables)
    /\ ~bg_error =>
         TablesOf(Manifest) = IF Logged THEN (version \ edit.del) \cup edit.add ELSE version

DescriptorOK ==
  Running =>
    IF descriptor # 0 THEN descriptor = CURRENT /\ manifest_file_number_ = CURRENT
    ELSE /\ status = "opening" /\ applying \in {"record", "sync", "current"}
         /\ manifest_file_number_ = LastEdit(Manifest).next

CompactionOK ==
  Running =>
    /\ status = "opening" => compaction = {} /\ imm = {} /\ ~bg_error /\ edit.del = {}
    /\ \A c \in compaction :
         /\ c.inputs \subseteq version /\ c.inputs # {} /\ compaction = {c}
         /\ c.output \in pending_outputs /\ c.output < next_file_number_
         /\ edit.del = {} => /\ c.output \notin TablesOf(Manifest) \cup version \cup edit.add
                             /\ Syncs => c.output \notin TablesOf(SyncedManifest)

(* The edit that is being applied covers what is there.                    *)
EditOK ==
  Running =>
    IF applying = "no" THEN status = "open" /\ edit = NoEdit
    ELSE /\ edit \in Complete
         /\ log_number_ <= edit.log /\ edit.log <= logfile_number_ /\ edit.log < edit.next
         /\ edit.next <= next_file_number_ /\ edit.seq <= last_sequence_
         /\ LastEdit(Manifest).next <= edit.next /\ LastEdit(Manifest).seq <= edit.seq
         /\ manifest_file_number_ < edit.next
         /\ edit.add \subseteq DOMAIN tables
         /\ \A n \in edit.add \cup version : n < edit.next /\ \A s \in tables[n] : s <= edit.seq
         /\ edit.del = {} =>
              /\ edit.log = logfile_number_ /\ \A s \in imm : InTables(s, edit.add, tables)
              /\ status = "open" => imm # {}
         /\ edit.del # {} =>
              /\ edit.log = log_number_
              /\ \E c \in compaction : edit.del = c.inputs /\ edit.add = {c.output}
              /\ \A n \in edit.del : \A s \in tables[n] : InTables(s, edit.add, tables)

(* How far it is.                                                          *)
ApplyingOK ==
  Running =>
    /\ Logged => LastEdit(Manifest) = edit /\ edit.add \subseteq TablesOf(Manifest)
    /\ applying = "install" => descriptor # 0 /\ SyncedManifest = Manifest
    /\ applying = "current" => descriptor = 0
    /\ descriptor = 0 /\ applying \in {"sync", "current"} =>
         /\ manifest_file_number_ \in DOMAIN manifests
         /\ manifests[manifest_file_number_].edits = <<WriteSnapshot, edit>>
    /\ applying = "current" => manifests[manifest_file_number_].synced = 2

Inv == /\ TypeOK /\ DiskOK /\ DownOK /\ ReplayStart /\ ReplayTables /\ ReplayLogs
       /\ MemoryOK /\ VersionOK /\ DescriptorOK /\ CompactionOK /\ EditOK /\ ApplyingOK

-----------------------------------------------------------------------------
(* Edits *)

LEMMA EditsType == NoEdit \in Edits /\ NewEdit \in Complete /\ Complete \subseteq Edits
                   /\ Absent \notin Nat
<1>1. Absent \notin Nat /\ Absent \in Int
  BY DEF Absent
<1>2. NoEdit \in Edits
  BY DEF NoEdit, Edits
<1>3. NewEdit \in [add : SUBSET Nat, del : SUBSET Nat, log : Nat, next : Nat, seq : Nat]
  BY DEF NoEdit, NewEdit
<1>4. Complete \subseteq Edits
  BY DEF Complete, Edits
<1> QED BY <1>1, <1>2, <1>3, <1>4 DEF Complete

(* The last value of a field is the one of the last edit, if that has one. *)
LEMMA LastOfIs ==
  ASSUME NEW n \in Nat \ {0}, NEW f, DOMAIN f = 1..n, f[n] # Absent
  PROVE  LastOf(f) = f[n]
<1> DEFINE given == {i \in DOMAIN f : f[i] # Absent}
           last  == CHOOSE i \in given : \A j \in given : j <= i
<1>1. n \in given /\ \A j \in given : j <= n
  OBVIOUS
<1>2. last \in given /\ \A j \in given : j <= last
  BY <1>1
<1>3. last = n
  <2>1. last <= n /\ n <= last
    BY <1>1, <1>2
  <2> QED BY <2>1, <1>2
<1> QED BY <1>1, <1>3 DEF LastOf

LEMMA LastEditIs ==
  ASSUME NEW E \in Seq(Edits), E # <<>>
  PROVE  LastEdit(E) \in Edits /\ Len(E) \in Nat \ {0} /\ Len(E) \in 1..Len(E)
BY EmptySeq, ElementOfSeq DEF LastEdit

LEMMA FieldsOfLast ==
  ASSUME NEW E \in Seq(Edits), E # <<>>, LastEdit(E) \in Complete
  PROVE  /\ LogOf(E) = LastEdit(E).log /\ NextOf(E) = LastEdit(E).next
         /\ SeqOf(E) = LastEdit(E).seq /\ ~Incomplete(E)
<1>1. Len(E) \in Nat \ {0} /\ Len(E) \in DOMAIN E /\ DOMAIN E = 1..Len(E)
  BY LastEditIs, LenProperties
<1>2. LastEdit(E).log # Absent /\ LastEdit(E).next # Absent /\ LastEdit(E).seq # Absent
  BY EditsType DEF Complete
<1>3. LogOf(E) = LastEdit(E).log
  <2> DEFINE f == [i \in DOMAIN E |-> E[i].log]
  <2>1. DOMAIN f = 1..Len(E) /\ f[Len(E)] = LastEdit(E).log
    BY <1>1 DEF LastEdit
  <2> HIDE DEF f
  <2>2. LastOf(f) = LastEdit(E).log
    BY <1>1, <1>2, <2>1, LastOfIs
  <2> QED BY <2>2 DEF f, LogOf
<1>4. NextOf(E) = LastEdit(E).next
  <2> DEFINE f == [i \in DOMAIN E |-> E[i].next]
  <2>1. DOMAIN f = 1..Len(E) /\ f[Len(E)] = LastEdit(E).next
    BY <1>1 DEF LastEdit
  <2> HIDE DEF f
  <2>2. LastOf(f) = LastEdit(E).next
    BY <1>1, <1>2, <2>1, LastOfIs
  <2> QED BY <2>2 DEF f, NextOf
<1>5. SeqOf(E) = LastEdit(E).seq
  <2> DEFINE f == [i \in DOMAIN E |-> E[i].seq]
  <2>1. DOMAIN f = 1..Len(E) /\ f[Len(E)] = LastEdit(E).seq
    BY <1>1 DEF LastEdit
  <2> HIDE DEF f
  <2>2. LastOf(f) = LastEdit(E).seq
    BY <1>1, <1>2, <2>1, LastOfIs
  <2> QED BY <2>2 DEF f, SeqOf
<1> QED BY <1>2, <1>3, <1>4, <1>5 DEF Incomplete

LEMMA TablesAreNumbers ==
  ASSUME NEW E \in Seq(Edits)
  PROVE  TablesOf(E) \subseteq Nat
<1> SUFFICES ASSUME NEW n \in TablesOf(E) PROVE n \in Nat
  OBVIOUS
<1>1. PICK i \in DOMAIN E : n \in E[i].add
  BY DEF TablesOf
<1>2. E[i] \in Edits
  BY <1>1, ElementOfSeq, LenProperties
<1> QED BY <1>1, <1>2 DEF Edits

(* An edit at the end takes its tables away and adds others.               *)
LEMMA AppendEdit ==
  ASSUME NEW E \in Seq(Edits), NEW e \in Edits
  PROVE  /\ Append(E, e) \in Seq(Edits) /\ Append(E, e) # <<>>
         /\ LastEdit(Append(E, e)) = e
         /\ TablesOf(Append(E, e)) = (TablesOf(E) \ e.del) \cup e.add
<1> DEFINE A == Append(E, e)
           N == Len(E)
<1>1. /\ A \in Seq(Edits) /\ Len(A) = N + 1 /\ N \in Nat /\ A[N + 1] = e
      /\ \A i \in 1..N : A[i] = E[i]
      /\ DOMAIN A = 1..(N + 1) /\ DOMAIN E = 1..N
  BY AppendProperties, LenProperties
<1>2. A # <<>> /\ LastEdit(A) = e
  BY <1>1, EmptySeq DEF LastEdit
<1> HIDE DEF A, N
<1>3. ASSUME NEW n \in TablesOf(A), n \notin e.add
      PROVE  n \in TablesOf(E) \ e.del
  <2>1. PICK i \in DOMAIN A : n \in A[i].add /\ \A j \in DOMAIN A : j > i => n \notin A[j].del
    BY DEF TablesOf
  <2>2. i # N + 1
    BY <1>1, <1>3, <2>1
  <2>3. i \in 1..N
    BY <1>1, <2>2
  <2>4. n \notin e.del
    <3>1. N + 1 \in DOMAIN A /\ N + 1 > i
      BY <1>1, <2>3
    <3> QED BY <1>1, <2>1, <3>1
  <2>5. n \in E[i].add /\ \A j \in DOMAIN E : j > i => n \notin E[j].del
    <3>1. \A j \in DOMAIN E : j \in DOMAIN A /\ A[j] = E[j]
      BY <1>1
    <3> QED BY <1>1, <2>1, <2>3, <3>1
  <2> QED BY <1>1, <2>3, <2>4, <2>5 DEF TablesOf
<1>4. ASSUME NEW n \in e.add PROVE n \in TablesOf(A)
  <2>1. N + 1 \in DOMAIN A /\ n \in A[N + 1].add
    BY <1>1, <1>4
  <2>2. \A j \in DOMAIN A : ~(j > N + 1)
    BY <1>1
  <2> QED BY <2>1, <2>2 DEF TablesOf
<1>5. ASSUME NEW n \in TablesOf(E), n \notin e.del PROVE n \in TablesOf(A)
  <2>1. PICK i \in DOMAIN E : n \in E[i].add /\ \A j \in DOMAIN E : j > i => n \notin E[j].del
    BY DEF TablesOf
  <2>2. i \in DOMAIN A /\ n \in A[i].add
    BY <1>1, <2>1
  <2>3. ASSUME NEW j \in DOMAIN A, j > i PROVE n \notin A[j].del
    <3>1. CASE j = N + 1
      BY <1>1, <1>5, <3>1
    <3>2. CASE j # N + 1
      BY <1>1, <2>1, <2>3, <3>2
    <3> QED BY <3>1, <3>2
  <2> QED BY <2>2, <2>3 DEF TablesOf
<1>6. TablesOf(A) = (TablesOf(E) \ e.del) \cup e.add
  BY <1>3, <1>4, <1>5
<1> QED BY <1>1, <1>2, <1>6 DEF A

LEMMA OneEdit ==
  ASSUME NEW e \in Edits
  PROVE  <<e>> \in Seq(Edits) /\ <<e>> # <<>> /\ LastEdit(<<e>>) = e /\ TablesOf(<<e>>) = e.add
<1>1. <<e>> \in Seq(Edits) /\ Len(<<e>>) = 1 /\ DOMAIN <<e>> = 1..1 /\ <<e>>[1] = e
  OBVIOUS
<1>2. TablesOf(<<e>>) = e.add
  BY <1>1 DEF TablesOf
<1> QED BY <1>1, <1>2 DEF LastEdit

(* A new manifest: a snapshot of tables V, and an edit.                    *)
LEMMA TwoEdits ==
  ASSUME NEW V \in SUBSET Nat, NEW e \in Edits
  PROVE  LET E == <<[NoEdit EXCEPT !.add = V], e>>
         IN  /\ E \in Seq(Edits) /\ E # <<>> /\ Len(E) = 2 /\ LastEdit(E) = e
             /\ TablesOf(E) = (V \ e.del) \cup e.add
<1> DEFINE s == [NoEdit EXCEPT !.add = V]
<1>1. s \in Edits /\ s.add = V
  BY DEF NoEdit, Edits, Absent
<1> HIDE DEF s
<1>2. <<s, e>> = Append(<<s>>, e) /\ Len(<<s, e>>) = 2
  OBVIOUS
<1>3. <<s>> \in Seq(Edits) /\ TablesOf(<<s>>) = V
  BY <1>1, OneEdit
<1>4. /\ <<s, e>> \in Seq(Edits) /\ <<s, e>> # <<>> /\ LastEdit(<<s, e>>) = e
      /\ TablesOf(<<s, e>>) = (V \ e.del) \cup e.add
  BY <1>2, <1>3, AppendEdit
<1> QED BY <1>2, <1>4 DEF s

(* What is synced of a manifest does not change when edits are added.      *)
LEMMA SyncedPart ==
  ASSUME NEW E \in Seq(Edits), NEW e \in Edits, NEW n \in Nat, n <= Len(E)
  PROVE  SubSeq(Append(E, e), 1, n) = SubSeq(E, 1, n) /\ SubSeq(E, 1, n) \in Seq(Edits)
<1> DEFINE A == Append(E, e)
<1>1. /\ Len(E) \in Nat /\ A \in Seq(Edits) /\ \A i \in 1..Len(E) : A[i] = E[i] /\ E[i] \in Edits
  BY AppendProperties, LenProperties, ElementOfSeq
<1> HIDE DEF A
<1>2. \A i \in 1..n : E[i] \in Edits /\ A[i] \in Edits /\ A[i] = E[i]
  BY <1>1
<1>3. /\ SubSeq(E, 1, n) \in Seq(Edits) /\ Len(SubSeq(E, 1, n)) = n
      /\ \A i \in 1..n : SubSeq(E, 1, n)[i] = E[i]
  BY <1>2, SubSeqProperties
<1>4. /\ SubSeq(A, 1, n) \in Seq(Edits) /\ Len(SubSeq(A, 1, n)) = n
      /\ \A i \in 1..n : SubSeq(A, 1, n)[i] = A[i]
  BY <1>2, SubSeqProperties
<1>5. SubSeq(A, 1, n) = SubSeq(E, 1, n)
  BY <1>2, <1>3, <1>4, SeqEqual
<1> QED BY <1>3, <1>5 DEF A

-----------------------------------------------------------------------------
(* The logs to replay *)

LEMMA SeqOfNumbers ==
  ASSUME NEW n \in Nat, NEW f \in [1..n -> Nat]
  PROVE  f \in Seq(Nat) /\ Len(f) = n
<1>1. f \in Seq(Nat)
  OBVIOUS
<1>2. Len(f) \in Nat /\ 1..Len(f) = 1..n
  BY <1>1, LenProperties
<1>3. n > Len(f) => n \in 1..n /\ n \notin 1..Len(f)
  BY <1>2
<1>4. Len(f) > n => Len(f) \in 1..Len(f) /\ Len(f) \notin 1..n
  BY <1>2
<1> QED BY <1>1, <1>2, <1>3, <1>4

Below(S, n) == {m \in S : m < n}

(* Numbering a finite set of numbers by rank leaves none out.              *)
LEMMA RankCovers ==
  ASSUME NEW S \in SUBSET Nat, IsFiniteSet(S),
         NEW f,
         \A i \in 1..Cardinality(S) : \A n \in S :
           Cardinality(Below(S, n)) = i - 1 =>
             f[i] \in S /\ Cardinality(Below(S, f[i])) = i - 1
  PROVE  /\ \A i \in 1..Cardinality(S) : f[i] \in S
         /\ \A n \in S : \E i \in 1..Cardinality(S) : f[i] = n
<1> DEFINE N     == Cardinality(S)
           B(n)  == Below(S, n)
           rank  == [n \in S |-> Cardinality(B(n)) + 1]
<1>1. N \in Nat
  BY FS_CardinalityType
<1> HIDE DEF B, Below
<1>2. \A n \in S : IsFiniteSet(B(n)) /\ Cardinality(B(n)) \in Nat
  <2> TAKE n \in S
  <2>1. B(n) \in SUBSET S
    BY DEF B, Below
  <2>2. IsFiniteSet(B(n))
    BY <2>1, FS_Subset
  <2> QED BY <2>2, FS_CardinalityType
<1>3. ASSUME NEW n \in S PROVE Cardinality(B(n)) + 1 \in 1..N
  <2>1. IsFiniteSet(S \ {n}) /\ Cardinality(S \ {n}) = N - 1
    BY FS_RemoveElement
  <2>2. B(n) \in SUBSET (S \ {n})
    BY DEF B, Below
  <2>3. Cardinality(B(n)) <= N - 1
    BY <2>1, <2>2, FS_Subset
  <2> QED BY <1>1, <1>2, <2>3
<1>4. ASSUME NEW n \in S, NEW k \in S, n < k
      PROVE  Cardinality(B(n)) < Cardinality(B(k))
  <2>1. n \notin B(n) /\ B(n) \cup {n} \in SUBSET B(k)
    <3>1. n \in Nat /\ k \in Nat /\ ~(n < n) /\ \A m \in S : m \in Nat /\ (m < n => m < k)
      BY <1>4
    <3> QED BY <1>4, <3>1 DEF B, Below
  <2>2. Cardinality(B(n) \cup {n}) = Cardinality(B(n)) + 1
    BY <1>2, <2>1, FS_AddElement
  <2>3. Cardinality(B(n) \cup {n}) <= Cardinality(B(k))
    BY <1>2, <2>1, FS_Subset
  <2> QED BY <1>2, <2>2, <2>3
<1>5. \A n, k \in S : rank[n] = rank[k] => n = k
  <2> SUFFICES ASSUME NEW n \in S, NEW k \in S, rank[n] = rank[k], n # k PROVE FALSE
    OBVIOUS
  <2>1. Cardinality(B(n)) = Cardinality(B(k))
    BY <1>2
  <2>2. n < k \/ k < n
    OBVIOUS
  <2> QED BY <1>2, <1>4, <2>1, <2>2
<1>6. rank \in [S -> 1..N]
  BY <1>3
<1>7. rank \in Injection(S, 1..N)
  BY <1>5, <1>6 DEF Injection, IsInjective
<1>8. IsFiniteSet(1..N) /\ Cardinality(1..N) = N
  BY <1>1, FS_Interval
<1>9. rank \in Surjection(S, 1..N)
  BY <1>7, <1>8, FS_Injection
<1>10. ASSUME NEW i \in 1..N
       PROVE  f[i] \in S /\ rank[f[i]] = i
  <2>1. PICK n \in S : rank[n] = i
    BY <1>9 DEF Surjection
  <2>2. Cardinality(B(n)) = i - 1
    BY <1>2, <2>1
  <2>3. f[i] \in S /\ Cardinality(B(f[i])) = i - 1
    BY <2>2 DEF B, Below
  <2> QED BY <1>1, <2>3
<1>12. \A n \in S : \E i \in 1..N : f[i] = n
  <2> TAKE n \in S
  <2>1. rank[n] \in 1..N
    BY <1>6
  <2>2. f[rank[n]] \in S /\ rank[f[rank[n]]] = rank[n]
    BY <1>10, <2>1
  <2> QED BY <1>5, <2>1, <2>2
<1>13. \A i \in 1..N : f[i] \in S
  BY <1>10
<1> HIDE DEF N
<1> QED BY <1>12, <1>13 DEF N

LEMMA LogsFromIs ==
  ASSUME IsFiniteSet(DOMAIN logs), DOMAIN logs \subseteq Nat, NEW l \in Nat
  PROVE  /\ LogsFrom(l) \in Seq(Nat)
         /\ {LogsFrom(l)[i] : i \in 1..Len(LogsFrom(l))} = {n \in DOMAIN logs : n >= l}
<1> DEFINE S == {n \in DOMAIN logs : n >= l}
<1>1. S \in SUBSET Nat /\ IsFiniteSet(S)
  BY FS_Subset
<1> HIDE DEF S
<1>2. LogsFrom(l) = [i \in 1..Cardinality(S) |->
                       CHOOSE n \in S : Cardinality({m \in S : m < n}) = i - 1]
  BY DEF LogsFrom, S
<1>3. LogsFrom(l) \in Seq(Nat) /\ {LogsFrom(l)[i] : i \in 1..Len(LogsFrom(l))} = S
  <2> DEFINE f == LogsFrom(l)
  <2>1. f = [i \in 1..Cardinality(S) |-> f[i]]
    BY <1>2
  <2>3. ASSUME NEW i \in 1..Cardinality(S), NEW k \in S, Cardinality(Below(S, k)) = i - 1
        PROVE  f[i] \in S /\ Cardinality(Below(S, f[i])) = i - 1
    <3>1. f[i] = CHOOSE n \in S : Cardinality({m \in S : m < n}) = i - 1
      BY <1>2
    <3> HIDE DEF f
    <3> QED BY <2>3, <3>1 DEF Below
  <2> HIDE DEF f
  <2>4. /\ \A i \in 1..Cardinality(S) : f[i] \in S
        /\ \A n \in S : \E i \in 1..Cardinality(S) : f[i] = n
    BY <1>1, <2>3, RankCovers
  <2>5. Cardinality(S) \in Nat /\ f \in [1..Cardinality(S) -> Nat]
    BY <1>1, <2>1, <2>4, FS_CardinalityType
  <2>6. f \in Seq(Nat) /\ Len(f) = Cardinality(S)
    BY <2>5, SeqOfNumbers
  <2>7. {f[i] : i \in 1..Len(f)} = S
    BY <2>4, <2>6
  <2> QED BY <2>6, <2>7 DEF f
<1> QED BY <1>3 DEF S

-----------------------------------------------------------------------------
(* What tables and logs hold *)

LogsGrow(files, files2) ==
  \A n \in DOMAIN files :
    /\ n \in DOMAIN files2
    /\ \A s : /\ InLog(s, files[n]) => InLog(s, files2[n])
              /\ SyncedInLog(s, files[n]) => SyncedInLog(s, files2[n])

LEMMA HoldsKept ==
  ASSUME NEW T, NEW l, NEW tabs, NEW tabs2, NEW files, NEW files2,
         NEW all, NEW all2, NEW kept, NEW kept2,
         Holds(T, l, tabs, files, all, kept),
         \A n \in T : tabs[n] \subseteq tabs2[n], LogsGrow(files, files2),
         \A s \in all2 : s \in all \/ InTables(s, T, tabs2) \/ InLogs(s, l, files2),
         \A s \in kept2 : s \in kept \/ InTables(s, T, tabs2) \/ SyncedInLogs(s, l, files2)
  PROVE  Holds(T, l, tabs2, files2, all2, kept2)
<1>1. \A s : InTables(s, T, tabs) => InTables(s, T, tabs2)
  BY DEF InTables
<1>2. \A s : InLogs(s, l, files) => InLogs(s, l, files2)
  BY DEF InLogs, LogsGrow
<1>3. \A s : SyncedInLogs(s, l, files) => SyncedInLogs(s, l, files2)
  BY DEF SyncedInLogs, LogsGrow
<1> QED BY <1>1, <1>2, <1>3 DEF Holds

(* Files that are no longer needed may go.                                 *)
LEMMA HoldsAfterRemoval ==
  ASSUME NEW T, NEW l, NEW tabs, NEW tabs2, NEW files, NEW files2,
         NEW all, NEW all2, NEW kept, NEW kept2,
         Holds(T, l, tabs, files, all, kept),
         \A n \in T : tabs2[n] = tabs[n],
         \A n \in DOMAIN files : n >= l => n \in DOMAIN files2 /\ files2[n] = files[n],
         \A s \in all2 : s \in all \/ InTables(s, T, tabs2),
         \A s \in kept2 : s \in kept \/ InTables(s, T, tabs2)
  PROVE  Holds(T, l, tabs2, files2, all2, kept2)
<1>1. \A s : InTables(s, T, tabs) => InTables(s, T, tabs2)
  BY DEF InTables
<1>2. \A s : InLogs(s, l, files) => InLogs(s, l, files2)
  BY DEF InLogs
<1>3. \A s : SyncedInLogs(s, l, files) => SyncedInLogs(s, l, files2)
  BY DEF SyncedInLogs
<1> QED BY <1>1, <1>2, <1>3 DEF Holds

LEMMA SoundKept ==
  ASSUME NEW E, NEW tabs, NEW tabs2, NEW current, Sound(E, tabs, current),
         \A n \in TablesOf(E) : n \in DOMAIN tabs2 /\ tabs2[n] = tabs[n]
  PROVE  Sound(E, tabs2, current)
BY DEF Sound

(* More tables hold more.                                                  *)
LEMMA InMoreTables ==
  ASSUME NEW s, NEW T, NEW T2, NEW tabs, NEW tabs2, InTables(s, T, tabs),
         \A n \in T : n \in T2 /\ tabs[n] \subseteq tabs2[n]
  PROVE  InTables(s, T2, tabs2)
BY DEF InTables

(* A synced record is a record.                                            *)
LEMMA SyncedIsIn ==
  ASSUME NEW s, NEW file \in Logs, SyncedInLog(s, file)
  PROVE  InLog(s, file)
<1>1. /\ file.synced \in Nat /\ file.synced <= Len(file.records) /\ file.records \in Seq(Nat)
  BY DEF Logs
<1>2. Len(file.records) \in Nat
  BY <1>1, LenProperties
<1> QED BY <1>1, <1>2 DEF SyncedInLog, InLog

LEMMA SameLogsGrow == LogsGrow(logs, logs)
BY DEF LogsGrow

(* A new log file.                                                         *)
NoRecords == [records |-> <<>>, synced |-> 0]

LEMMA MoreLogs ==
  ASSUME NEW n \in Nat \ {0}, n \notin DOMAIN logs, TypeOK, NEW files,
         files = Put(logs, n, NoRecords)
  PROVE  /\ LogsGrow(logs, files) /\ DOMAIN files = DOMAIN logs \cup {n}
         /\ \A m \in DOMAIN logs : files[m] = logs[m]
         /\ files[n] = NoRecords /\ NoRecords \in Logs
         /\ IsFiniteSet(DOMAIN files) /\ \A m \in DOMAIN files : files[m] \in Logs
<1>1. /\ DOMAIN files = DOMAIN logs \cup {n} /\ files[n] = NoRecords
      /\ \A m \in DOMAIN logs : files[m] = logs[m]
  BY DEF Put
<1>2. NoRecords \in Logs
  <2>1. <<>> \in Seq(Nat) /\ Len(<<>>) = 0
    BY EmptySeq
  <2> QED BY <2>1 DEF NoRecords, Logs
<1>3. IsFiniteSet(DOMAIN files) /\ \A m \in DOMAIN files : files[m] \in Logs
  BY <1>1, <1>2, FS_AddElement DEF TypeOK, FilesType, StateType
<1>4. LogsGrow(logs, files)
  BY <1>1 DEF LogsGrow
<1> QED BY <1>1, <1>2, <1>3, <1>4

LEMMA NewLog ==
  ASSUME NEW n \in Nat \ {0}, n \notin DOMAIN logs, TypeOK, logs' = Put(logs, n, NoRecords)
  PROVE  /\ LogsGrow(logs, logs') /\ DOMAIN logs' = DOMAIN logs \cup {n}
         /\ \A m \in DOMAIN logs : logs'[m] = logs[m]
         /\ logs'[n] = NoRecords /\ NoRecords \in Logs
         /\ IsFiniteSet(DOMAIN logs') /\ \A m \in DOMAIN logs' : logs'[m] \in Logs
BY MoreLogs

LEMMA PutTable ==
  ASSUME NEW n \in Nat, NEW contents \in SUBSET Nat, TypeOK, tables' = Put(tables, n, contents)
  PROVE  /\ DOMAIN tables' = DOMAIN tables \cup {n} /\ DOMAIN tables' \subseteq Nat
         /\ \A m \in DOMAIN tables' : tables'[m] \subseteq Nat
         /\ tables'[n] = contents
         /\ \A m \in DOMAIN tables : m # n => tables'[m] = tables[m]
BY DEF Put, TypeOK, FilesType, StateType

-----------------------------------------------------------------------------
(* What the invariant says of the manifest *)

LEMMA ManifestSays ==
  ASSUME TypeOK, DiskOK, CURRENT # 0
  PROVE  /\ Manifest \in Seq(Edits) /\ Manifest # <<>> /\ LastEdit(Manifest) \in Complete
         /\ manifests[CURRENT].synced \in Nat /\ manifests[CURRENT].synced <= Len(Manifest)
         /\ LastEdit(Manifest).log \in Nat /\ LastEdit(Manifest).next \in Nat
         /\ LastEdit(Manifest).seq \in Nat
         /\ LastEdit(Manifest).log < LastEdit(Manifest).next
         /\ CURRENT < LastEdit(Manifest).next
         /\ TablesOf(Manifest) \subseteq DOMAIN tables
         /\ \A n \in TablesOf(Manifest) :
              n < LastEdit(Manifest).next /\ \A s \in tables[n] : s <= LastEdit(Manifest).seq
         /\ Holds(TablesOf(Manifest), LastEdit(Manifest).log, tables, logs, acked, durable)
<1>1. CURRENT \in DOMAIN manifests /\ Restorable(Manifest)
  BY DEF DiskOK
<1>2. manifests[CURRENT].synced \in Nat /\ manifests[CURRENT].synced <= Len(Manifest)
  BY <1>1 DEF TypeOK, FilesType, StateType, Manifest
<1> QED BY <1>1, <1>2 DEF Restorable, Sound, Complete

LEMMA SyncedManifestSays ==
  ASSUME TypeOK, DiskOK, CURRENT # 0, Syncs
  PROVE  /\ SyncedManifest \in Seq(Edits) /\ SyncedManifest # <<>>
         /\ LastEdit(SyncedManifest) \in Complete
         /\ LastEdit(SyncedManifest).log \in Nat /\ LastEdit(SyncedManifest).next \in Nat
         /\ LastEdit(SyncedManifest).seq \in Nat
         /\ LastEdit(SyncedManifest).log < LastEdit(SyncedManifest).next
         /\ CURRENT < LastEdit(SyncedManifest).next
         /\ TablesOf(SyncedManifest) \subseteq DOMAIN tables
         /\ \A n \in TablesOf(SyncedManifest) :
              /\ n < LastEdit(SyncedManifest).next
              /\ \A s \in tables[n] : s <= LastEdit(SyncedManifest).seq
         /\ Holds(TablesOf(SyncedManifest), LastEdit(SyncedManifest).log,
                  tables, logs, acked, durable)
         /\ LastEdit(SyncedManifest).next <= LastEdit(Manifest).next
         /\ LastEdit(SyncedManifest).log <= LastEdit(Manifest).log
<1>1. /\ Restorable(SyncedManifest)
      /\ LastEdit(SyncedManifest).next <= LastEdit(Manifest).next
      /\ LastEdit(SyncedManifest).log <= LastEdit(Manifest).log
  BY DEF DiskOK
<1> QED BY <1>1 DEF Restorable, Sound, Complete

(* The numbers of the tables that a manifest names are below its next one. *)
LEMMA TablesBelow ==
  ASSUME TypeOK, DiskOK, CURRENT # 0, NEW n \in Nat, LastEdit(Manifest).next <= n
  PROVE  /\ n \notin TablesOf(Manifest)
         /\ Syncs => n \notin TablesOf(SyncedManifest)
<1>1. n \notin TablesOf(Manifest)
  BY ManifestSays
<1>2. ASSUME Syncs, n \in TablesOf(SyncedManifest) PROVE FALSE
  <2>1. n < LastEdit(SyncedManifest).next
    BY <1>2, SyncedManifestSays
  <2>2. LastEdit(SyncedManifest).next \in Nat /\ LastEdit(Manifest).next \in Nat
    BY <1>2, SyncedManifestSays, ManifestSays
  <2>3. LastEdit(SyncedManifest).next <= LastEdit(Manifest).next
    BY <1>2, SyncedManifestSays
  <2> QED BY <2>1, <2>2, <2>3
<1> QED BY <1>1, <1>2

SameManifest == /\ CURRENT' = CURRENT /\ CURRENT \in DOMAIN manifests'
                /\ manifests'[CURRENT] = manifests[CURRENT]

TablesStay(T) == \A n \in T : n \in DOMAIN tables' /\ tables'[n] = tables[n]

(* While the manifest stays and the logs grow, what is on disk stays good. *)
LEMMA DiskKept ==
  ASSUME TypeOK, DiskOK, CURRENT # 0, SameManifest, status' # "created",
         TablesStay(TablesOf(Manifest)), Syncs => TablesStay(TablesOf(SyncedManifest)),
         LogsGrow(logs, logs'), DOMAIN logs' \subseteq Nat,
         \A s \in acked' : s \in acked \/ InLogs(s, LastEdit(Manifest).log, logs'),
         \A s \in durable' : s \in durable \/ SyncedInLogs(s, LastEdit(Manifest).log, logs')
  PROVE  DiskOK' /\ Manifest' = Manifest /\ SyncedManifest' = SyncedManifest
<1>1. Manifest' = Manifest /\ SyncedManifest' = SyncedManifest
  BY DEF SameManifest, Manifest, SyncedManifest
<1>2. Restorable(Manifest)'
  <2>1. Sound(Manifest, tables, CURRENT)
    BY DEF DiskOK, Restorable
  <2>2. Sound(Manifest, tables', CURRENT)
    BY <2>1, SoundKept DEF TablesStay
  <2>3. Holds(TablesOf(Manifest), LastEdit(Manifest).log, tables', logs', acked', durable')
    <3>1. \A n \in TablesOf(Manifest) : tables[n] \subseteq tables'[n]
      BY DEF TablesStay
    <3> QED BY <3>1, ManifestSays, HoldsKept
  <2> QED BY <1>1, <2>2, <2>3 DEF Restorable, SameManifest
<1>3. ASSUME Syncs PROVE Restorable(SyncedManifest)'
  <2>1. Sound(SyncedManifest, tables, CURRENT)
    BY <1>3 DEF DiskOK, Restorable
  <2>2. Sound(SyncedManifest, tables', CURRENT)
    BY <1>3, <2>1, SoundKept DEF TablesStay
  <2>3. Holds(TablesOf(SyncedManifest), LastEdit(SyncedManifest).log,
              tables', logs', acked', durable')
    <3>1. \A n \in TablesOf(SyncedManifest) : tables[n] \subseteq tables'[n]
      BY <1>3 DEF TablesStay
    <3>2. /\ LastEdit(SyncedManifest).log \in Nat /\ LastEdit(Manifest).log \in Nat
          /\ LastEdit(SyncedManifest).log <= LastEdit(Manifest).log
          /\ Holds(TablesOf(SyncedManifest), LastEdit(SyncedManifest).log,
                   tables, logs, acked, durable)
      BY <1>3, ManifestSays, SyncedManifestSays
    <3> DEFINE l == LastEdit(SyncedManifest).log
               L == LastEdit(Manifest).log
    <3>3. /\ \A s : InLogs(s, L, logs') => InLogs(s, l, logs')
          /\ \A s : SyncedInLogs(s, L, logs') => SyncedInLogs(s, l, logs')
      <4> HIDE DEF l, L
      <4>1. l \in Nat /\ L \in Nat /\ l <= L
        BY <3>2 DEF l, L
      <4> QED BY <4>1 DEF InLogs, SyncedInLogs
    <3> QED BY <3>1, <3>2, <3>3, HoldsKept
  <2> QED BY <1>1, <2>2, <2>3 DEF Restorable, SameManifest
<1> QED BY <1>1, <1>2, <1>3 DEF DiskOK, SameManifest

-----------------------------------------------------------------------------
(* The beginning, and a process that is down *)

FirstEdits == <<NewEdit>>

LEMMA FirstManifest ==
  /\ FirstEdits \in Seq(Edits) /\ Len(FirstEdits) = 1 /\ SubSeq(FirstEdits, 1, 1) = FirstEdits
  /\ \A tabs : Sound(FirstEdits, tabs, 1)
  /\ \A l, tabs, files : Holds(TablesOf(FirstEdits), l, tabs, files, {}, {})
<1>1. NewEdit \in Edits /\ NewEdit \in Complete
  BY EditsType
<1>2. NewEdit.add = {} /\ NewEdit.log = 0 /\ NewEdit.next = 2 /\ NewEdit.seq = 0
  BY DEF NewEdit, NoEdit
<1>3. /\ <<NewEdit>> \in Seq(Edits) /\ <<NewEdit>> # <<>>
      /\ LastEdit(<<NewEdit>>) = NewEdit /\ TablesOf(<<NewEdit>>) = {}
  BY <1>1, <1>2, OneEdit
<1>7. Len(<<NewEdit>>) = 1
  OBVIOUS
<1>4. SubSeq(<<NewEdit>>, 1, 1) = <<NewEdit>>
  BY <1>3, <1>7, SubSeqFull
<1>5. \A tabs : Sound(<<NewEdit>>, tabs, 1)
  BY <1>1, <1>2, <1>3 DEF Sound
<1>6. \A l, tabs, files : Holds(TablesOf(<<NewEdit>>), l, tabs, files, {}, {})
  BY DEF Holds
<1> QED BY <1>3, <1>4, <1>5, <1>6, <1>7 DEF FirstEdits

LEMMA WhenDown ==
  ASSUME status' \in {"down", "created"}
  PROVE  /\ ReplayStart' /\ ReplayTables' /\ ReplayLogs' /\ MemoryOK' /\ VersionOK'
         /\ DescriptorOK' /\ CompactionOK' /\ EditOK' /\ ApplyingOK'
BY DEF ReplayStart, ReplayTables, ReplayLogs, MemoryOK, VersionOK, DescriptorOK,
       CompactionOK, EditOK, ApplyingOK, Running

LEMMA InitInv == Init => Inv
<1> SUFFICES ASSUME Init PROVE Inv
  OBVIOUS
<1> USE FreshAssumption
<1>1. \/ /\ DOMAIN manifests = {1} /\ CURRENT = 1
         /\ manifests[1] = [edits |-> FirstEdits, synced |-> 1]
      \/ CURRENT = 0 /\ Fresh /\ DOMAIN manifests = {}
  BY DEF Init, FirstEdits
<1>2. DOMAIN logs = {} /\ DOMAIN tables = {}
  BY DEF Init
<1>3. TypeOK
  <2>1. IsFiniteSet(DOMAIN logs)
    BY <1>2, FS_EmptySet
  <2>2. \A n \in DOMAIN manifests : /\ manifests[n] \in [edits : Seq(Edits), synced : Nat]
                                    /\ manifests[n].synced <= Len(manifests[n].edits)
    <3>1. \A k \in {0, 1} : [edits |-> FirstEdits, synced |-> k] \in [edits : Seq(Edits), synced : Nat]
      BY FirstManifest
    <3> QED BY <1>1, <3>1, FirstManifest
  <2>3. DOMAIN manifests \subseteq Nat /\ CURRENT \in Nat
    BY <1>1
  <2>4. NoEdit \in Edits
    BY EditsType
  <2>5. FilesType
    BY <1>2, <2>1, <2>2, <2>3 DEF FilesType
  <2>6. StateType
    <3>1. todo \in Seq(Nat)
      BY DEF Init
    <3>3. save_manifest \in BOOLEAN /\ bg_error \in BOOLEAN
      BY DEF Init
    <3>2. /\ mem \subseteq Nat /\ imm \subseteq Nat /\ version \subseteq Nat
          /\ acked \subseteq Nat /\ durable \subseteq acked
      BY DEF Init
    <3> QED BY <2>4, <3>1, <3>2, <3>3 DEF StateType, Init
  <2> QED BY <2>5, <2>6 DEF TypeOK
<1>4. DiskOK
  <2>1. acked = {} /\ durable = {} /\ status = "down"
    BY DEF Init
  <2>2. CASE CURRENT = 0
    BY <1>1, <2>1, <2>2 DEF DiskOK
  <2>3. CASE CURRENT = 1
    <3>1. Manifest = FirstEdits /\ SyncedManifest = FirstEdits /\ 1 \in DOMAIN manifests
      BY <1>1, <2>3, FirstManifest DEF Manifest, SyncedManifest
    <3>2. Restorable(Manifest)
      BY <2>1, <2>3, <3>1, FirstManifest DEF Restorable
    <3>3. Restorable(SyncedManifest)
      BY <3>1, <3>2
    <3>4. LastEdit(FirstEdits).next <= LastEdit(FirstEdits).next
          /\ LastEdit(FirstEdits).log <= LastEdit(FirstEdits).log
      BY <3>1, <3>2 DEF Restorable, Sound, Complete
    <3> QED BY <2>1, <2>3, <3>1, <3>2, <3>3, <3>4 DEF DiskOK
  <2> QED BY <1>1, <2>2, <2>3
<1>5. DownOK
  BY DEF DownOK, Init
<1>6. /\ ReplayStart /\ ReplayTables /\ ReplayLogs /\ MemoryOK /\ VersionOK
      /\ DescriptorOK /\ CompactionOK /\ EditOK /\ ApplyingOK
  BY DEF ReplayStart, ReplayTables, ReplayLogs, MemoryOK, VersionOK, DescriptorOK,
         CompactionOK, EditOK, ApplyingOK, Running, Init
<1> QED BY <1>3, <1>4, <1>5, <1>6 DEF Inv

LEMMA NewDBKeeps == ASSUME Inv, NewDB PROVE Inv'
<1> USE DEF NewDB, disk, replay, numbers, live, history
<1>1. /\ DOMAIN manifests' = DOMAIN manifests \cup {1}
      /\ manifests'[1] = [edits |-> FirstEdits, synced |-> 0]
      /\ \A n \in DOMAIN manifests : n # 1 => manifests'[n] = manifests[n]
  BY DEF Put, FirstEdits
<1>2. TypeOK'
  <2>1. FirstEdits \in Seq(Edits) /\ Len(FirstEdits) = 1
    BY FirstManifest
  <2>2. \A n \in DOMAIN manifests' : /\ manifests'[n] \in [edits : Seq(Edits), synced : Nat]
                                     /\ manifests'[n].synced <= Len(manifests'[n].edits)
    <3> TAKE n \in DOMAIN manifests'
    <3>1. CASE n = 1
      <4>1. [edits |-> FirstEdits, synced |-> 0] \in [edits : Seq(Edits), synced : Nat]
        BY FirstManifest
      <4> QED BY <1>1, <2>1, <3>1, <4>1
    <3>2. CASE n # 1
      BY <1>1, <3>2 DEF Inv, TypeOK, FilesType
    <3> QED BY <3>1, <3>2
  <2>3. FilesType'
    BY <1>1, <2>2 DEF Inv, TypeOK, FilesType
  <2>4. StateType'
    BY DEF Inv, TypeOK, StateType
  <2> QED BY <2>3, <2>4 DEF TypeOK
<1>3. DiskOK'
  BY <1>1 DEF Inv, DiskOK, FirstEdits
<1>4. DownOK'
  BY DEF Inv, DownOK
<1> QED BY <1>2, <1>3, <1>4, WhenDown DEF Inv

LEMMA NewDBCurrentKeeps == ASSUME Inv, NewDBCurrent PROVE Inv'
<1> USE DEF NewDBCurrent, disk, replay, numbers, live, history
<1>1. CURRENT = 0 /\ Fresh /\ acked = {} /\ durable = {} /\ 1 \in DOMAIN manifests
      /\ manifests[1].edits = FirstEdits
  BY DEF Inv, DiskOK, TypeOK, StateType, FirstEdits
<1>2. TypeOK'
  BY DEF Inv, TypeOK, FilesType, StateType
<1>3. DiskOK'
  <2>1. Manifest' = FirstEdits
    BY <1>1 DEF Manifest
  <2>2. Restorable(Manifest)'
    BY <1>1, <2>1, FirstManifest DEF Restorable
  <2> QED BY <1>1, <2>2 DEF DiskOK, Syncs
<1>4. DownOK'
  BY DEF Inv, DownOK
<1> QED BY <1>2, <1>3, <1>4, WhenDown DEF Inv

LEMMA NoMemoryType ==
  ASSUME NoMemory, status' = "down", acked' \subseteq Nat, durable' \subseteq acked'
  PROVE  DownOK' /\ StateType'
<1>1. DownOK'
  BY DEF NoMemory, DownOK
<1>2. todo' \in Seq(Nat) /\ edit' \in Edits
  <2>1. <<>> \in Seq(Nat) /\ NoEdit \in Edits
    BY EditsType
  <2> QED BY <2>1 DEF NoMemory
<1>3. save_manifest' \in BOOLEAN /\ bg_error' \in BOOLEAN
  BY DEF NoMemory
<1>4. /\ mem' \subseteq Nat /\ imm' \subseteq Nat /\ version' \subseteq Nat
      /\ status' = "down" /\ applying' = "no"
  BY DEF NoMemory
<1>5. /\ pos' \in Nat /\ compactions' \in Nat /\ max_sequence' \in Nat
      /\ last_sequence_' \in Nat /\ next_file_number_' \in Nat \ {0} /\ log_number_' \in Nat
      /\ logfile_number_' \in Nat /\ manifest_file_number_' \in Nat /\ descriptor' \in Nat
  BY DEF NoMemory
<1> QED BY <1>1, <1>2, <1>3, <1>4, <1>5 DEF StateType

LEMMA KillKeeps == ASSUME Inv, Kill PROVE Inv'
<1>1. /\ status' = "down" /\ NoMemory
      /\ UNCHANGED <<CURRENT, manifests, logs, tables, acked, durable>>
  BY DEF Kill, Crash, disk, history
<1>2. DownOK' /\ StateType'
  BY <1>1, NoMemoryType DEF Inv, TypeOK, StateType
<1>3. TypeOK'
  BY <1>1, <1>2 DEF Inv, TypeOK, FilesType
<1>4. DiskOK'
  BY <1>1 DEF Inv, DiskOK, Restorable, Manifest, SyncedManifest
<1> QED BY <1>1, <1>2, <1>3, <1>4, WhenDown DEF Inv

(* A log of which k records are left, all that were synced among them.     *)
LEMMA CutLog ==
  ASSUME NEW file \in Logs, NEW k \in Nat, file.synced <= k, k <= Len(file.records),
         NEW cut, cut = [records |-> SubSeq(file.records, 1, k), synced |-> k]
  PROVE  /\ cut \in Logs
         /\ \A s : SyncedInLog(s, file) => SyncedInLog(s, cut) /\ InLog(s, cut)
<1>1. file.records \in Seq(Nat) /\ file.synced \in Nat /\ Len(file.records) \in Nat
  BY LenProperties DEF Logs
<1>2. \A i \in 1..k : file.records[i] \in Nat
  BY <1>1, ElementOfSeq
<1>3. /\ cut.records \in Seq(Nat) /\ Len(cut.records) = k /\ cut.synced = k
      /\ \A i \in 1..k : cut.records[i] = file.records[i]
  <2> DEFINE r == SubSeq(file.records, 1, k)
  <2>1. /\ r \in Seq(Nat) /\ Len(r) = (IF 1 <= k THEN k - 1 + 1 ELSE 0)
        /\ \A i \in 1..(k - 1 + 1) : r[i] = file.records[1 + i - 1]
    BY <1>2, SubSeqProperties
  <2> HIDE DEF r
  <2>2. Len(r) = k /\ \A i \in 1..k : r[i] = file.records[i]
    BY <2>1
  <2>3. cut.records = r /\ cut.synced = k
    BY DEF r
  <2> QED BY <2>1, <2>2, <2>3
<1>4. cut \in [records : Seq(Nat), synced : Nat]
  BY <1>3
<1>5. cut \in Logs
  BY <1>3, <1>4 DEF Logs
<1>6. \A s : SyncedInLog(s, file) => SyncedInLog(s, cut) /\ InLog(s, cut)
  BY <1>1, <1>3 DEF SyncedInLog, InLog
<1> QED BY <1>5, <1>6

LEMMA PowerFailureKeeps == ASSUME Inv, PowerFailure, Syncs PROVE Inv'
<1>1. /\ status' = "down" /\ NoMemory /\ UNCHANGED <<CURRENT, tables, durable>>
      /\ acked' = durable
  BY DEF PowerFailure, Crash
<1>2. TypeOK /\ DiskOK /\ CURRENT # 0
  BY DEF Inv, DiskOK, Syncs
<1>3. /\ DOMAIN logs' = DOMAIN logs
      /\ \A n \in DOMAIN logs :
           /\ logs'[n] \in Logs
           /\ \A s : SyncedInLog(s, logs[n]) => SyncedInLog(s, logs'[n]) /\ InLog(s, logs'[n])
  <2>1. PICK lost \in [DOMAIN logs -> 0..MaxWrites] :
          /\ \A n \in DOMAIN logs : lost[n] <= Len(logs[n].records) - logs[n].synced
          /\ logs' = [n \in DOMAIN logs |->
                        LET left == Len(logs[n].records) - lost[n]
                        IN  [records |-> SubSeq(logs[n].records, 1, left), synced |-> left]]
    BY DEF PowerFailure
  <2>2. DOMAIN logs' = DOMAIN logs
    BY <2>1
  <2>3. ASSUME NEW n \in DOMAIN logs
        PROVE  /\ logs'[n] \in Logs
               /\ \A s : SyncedInLog(s, logs[n]) => SyncedInLog(s, logs'[n]) /\ InLog(s, logs'[n])
    <3>1. logs[n] \in Logs /\ logs[n].synced \in Nat /\ Len(logs[n].records) \in Nat
      BY <1>2, LenProperties DEF TypeOK, FilesType, Logs
    <3>2. lost[n] \in Nat /\ lost[n] <= Len(logs[n].records) - logs[n].synced
      BY <2>1, BufferAssumption
    <3> DEFINE k == Len(logs[n].records) - lost[n]
    <3>3. k \in Nat /\ logs[n].synced <= k /\ k <= Len(logs[n].records)
      BY <3>1, <3>2
    <3>4. logs'[n] = [records |-> SubSeq(logs[n].records, 1, k), synced |-> k]
      BY <2>1
    <3> HIDE DEF k
    <3> QED BY <3>1, <3>3, <3>4, CutLog
  <2> QED BY <2>2, <2>3
<1>4. /\ DOMAIN manifests' = DOMAIN manifests
      /\ \A n \in DOMAIN manifests :
           \E k \in {manifests[n].synced, Len(manifests[n].edits)} :
             manifests'[n] = [edits |-> SubSeq(manifests[n].edits, 1, k), synced |-> k]
  <2>1. PICK kept \in BOOLEAN :
          manifests' = [n \in DOMAIN manifests |->
                          LET left == IF kept THEN Len(manifests[n].edits) ELSE manifests[n].synced
                          IN  [edits |-> SubSeq(manifests[n].edits, 1, left), synced |-> left]]
    BY DEF PowerFailure
  <2> QED BY <2>1
<1>5. \A n \in DOMAIN manifests : /\ manifests[n].edits \in Seq(Edits)
                                  /\ manifests[n].synced \in Nat
                                  /\ Len(manifests[n].edits) \in Nat
                                  /\ manifests[n].synced <= Len(manifests[n].edits)
  BY <1>2, LenProperties DEF TypeOK, FilesType
<1>6. ASSUME NEW E \in Seq(Edits), NEW k \in Nat, k <= Len(E)
      PROVE  /\ SubSeq(E, 1, k) \in Seq(Edits) /\ Len(SubSeq(E, 1, k)) = k
             /\ SubSeq(SubSeq(E, 1, k), 1, k) = SubSeq(E, 1, k)
  <2>1. \A i \in 1..k : E[i] \in Edits
    BY <1>6, LenProperties, ElementOfSeq
  <2> DEFINE r == SubSeq(E, 1, k)
  <2>2. r \in Seq(Edits) /\ Len(r) = IF 1 <= k THEN k - 1 + 1 ELSE 0
    BY <2>1, SubSeqProperties
  <2> HIDE DEF r
  <2>3. Len(r) = k
    BY <2>2
  <2>4. SubSeq(r, 1, k) = r
    BY <2>2, <2>3, SubSeqFull
  <2> QED BY <2>2, <2>3, <2>4 DEF r
<1>7. TypeOK'
  <2>1. DOMAIN logs' \subseteq Nat \ {0} /\ IsFiniteSet(DOMAIN logs')
    BY <1>2, <1>3 DEF TypeOK, FilesType
  <2>2. \A n \in DOMAIN logs' : logs'[n] \in Logs
    BY <1>3
  <2>3. ASSUME NEW n \in DOMAIN manifests'
        PROVE  /\ manifests'[n] \in [edits : Seq(Edits), synced : Nat]
               /\ manifests'[n].synced <= Len(manifests'[n].edits)
    <3>1. PICK k \in {manifests[n].synced, Len(manifests[n].edits)} :
             manifests'[n] = [edits |-> SubSeq(manifests[n].edits, 1, k), synced |-> k]
      BY <1>4
    <3>2. k \in Nat /\ k <= Len(manifests[n].edits) /\ manifests[n].edits \in Seq(Edits)
      BY <1>4, <1>5
    <3>3. SubSeq(manifests[n].edits, 1, k) \in Seq(Edits) /\ Len(SubSeq(manifests[n].edits, 1, k)) = k
      BY <1>6, <3>2
    <3> QED BY <3>1, <3>2, <3>3
  <2>4. FilesType'
    BY <1>1, <1>2, <1>4, <2>1, <2>2, <2>3 DEF TypeOK, FilesType
  <2>5. StateType'
    BY <1>1, <1>2, NoMemoryType DEF TypeOK, StateType
  <2> QED BY <2>4, <2>5 DEF TypeOK
<1>8. \E E \in {Manifest, SyncedManifest} : Manifest' = E /\ SyncedManifest' = E
  <2>1. CURRENT \in DOMAIN manifests
    BY <1>2 DEF DiskOK
  <2>2. PICK k \in {manifests[CURRENT].synced, Len(Manifest)} :
          manifests'[CURRENT] = [edits |-> SubSeq(Manifest, 1, k), synced |-> k]
    BY <1>4, <2>1 DEF Manifest
  <2>3. k \in Nat /\ k <= Len(Manifest) /\ Manifest \in Seq(Edits)
    BY <1>5, <2>1 DEF Manifest
  <2>4. Manifest' = SubSeq(Manifest, 1, k) /\ SyncedManifest' = SubSeq(SubSeq(Manifest, 1, k), 1, k)
    <3> DEFINE r == SubSeq(Manifest, 1, k)
    <3>4. manifests'[CURRENT] = [edits |-> r, synced |-> k]
      BY <2>2
    <3> HIDE DEF r
    <3>1. manifests'[CURRENT].edits = r /\ manifests'[CURRENT].synced = k
      BY <3>4
    <3>2. Manifest' = r
      BY <1>1, <3>1 DEF Manifest
    <3>3. SyncedManifest' = SubSeq(r, 1, k)
      BY <1>1, <3>1, <3>2 DEF SyncedManifest
    <3> QED BY <3>2, <3>3 DEF r
  <2>5. SyncedManifest' = Manifest'
    BY <1>6, <2>3, <2>4
  <2>6. CASE k = Len(Manifest)
    <3>1. SubSeq(Manifest, 1, k) = Manifest
      BY <2>3, <2>6, SubSeqFull
    <3> QED BY <2>4, <2>5, <3>1
  <2>7. CASE k = manifests[CURRENT].synced
    BY <2>4, <2>5, <2>7 DEF SyncedManifest
  <2> QED BY <2>2, <2>6, <2>7
<1>9. DiskOK'
  <2>1. PICK E \in {Manifest, SyncedManifest} : Manifest' = E /\ SyncedManifest' = E
    BY <1>8
  <2>2. Restorable(E)
    BY <1>2, <2>1 DEF DiskOK
  <2>3. Holds(TablesOf(E), LastEdit(E).log, tables, logs', durable, durable)
    <3>1. \A s \in durable : \/ InTables(s, TablesOf(E), tables)
                             \/ SyncedInLogs(s, LastEdit(E).log, logs)
      BY <2>2 DEF Restorable, Holds
    <3>2. \A l, s : SyncedInLogs(s, l, logs) => SyncedInLogs(s, l, logs') /\ InLogs(s, l, logs')
      BY <1>3 DEF SyncedInLogs, InLogs
    <3> QED BY <3>1, <3>2 DEF Holds
  <2>4. Sound(E, tables, CURRENT)
    BY <2>2 DEF Restorable
  <2>5. Restorable(Manifest)' /\ Restorable(SyncedManifest)'
    BY <1>1, <2>1, <2>3, <2>4 DEF Restorable
  <2>6. LastEdit(E).next <= LastEdit(E).next /\ LastEdit(E).log <= LastEdit(E).log
    BY <2>4 DEF Sound, Complete
  <2> QED BY <1>1, <1>2, <1>4, <2>1, <2>5, <2>6 DEF DiskOK
<1>10. DownOK'
  BY <1>1, <1>7, NoMemoryType DEF TypeOK, StateType
<1> QED BY <1>1, <1>7, <1>9, <1>10, WhenDown DEF Inv

LEMMA RecoverVersionsKeeps == ASSUME Inv, RecoverVersions PROVE Inv'
<1> USE DEF disk, history
<1>1. TypeOK /\ DiskOK /\ CURRENT # 0 /\ DownOK /\ status = "down"
  BY DEF Inv, RecoverVersions
<1>2. /\ Manifest \in Seq(Edits) /\ Manifest # <<>> /\ LastEdit(Manifest) \in Complete
      /\ LastEdit(Manifest).log \in Nat /\ LastEdit(Manifest).next \in Nat
      /\ LastEdit(Manifest).seq \in Nat /\ LastEdit(Manifest).log < LastEdit(Manifest).next
      /\ CURRENT \in DOMAIN manifests
      /\ TablesOf(Manifest) \subseteq DOMAIN tables
  BY <1>1, ManifestSays DEF DiskOK
<1>3. /\ LogOf(Manifest) = LastEdit(Manifest).log /\ NextOf(Manifest) = LastEdit(Manifest).next
      /\ SeqOf(Manifest) = LastEdit(Manifest).seq /\ ~Incomplete(Manifest)
  BY <1>2, FieldsOfLast
<1> DEFINE L == LastEdit(Manifest).log
           N == LastEdit(Manifest).next
<1>4. /\ status' = "replay" /\ version' = TablesOf(Manifest)
      /\ last_sequence_' = LastEdit(Manifest).seq /\ log_number_' = L
      /\ next_file_number_' = N + 1
      /\ manifest_file_number_' = IF ReuseLogs THEN CURRENT ELSE N
      /\ descriptor' = IF ReuseLogs THEN CURRENT ELSE 0
      /\ save_manifest' = ~ReuseLogs /\ todo' = LogsFrom(L)
      /\ UNCHANGED <<pos, compactions, max_sequence, logfile_number_>>
  BY <1>2, <1>3 DEF RecoverVersions, Manifest
<1>5. UNCHANGED <<CURRENT, manifests, logs, tables, mem, imm, pinned, pending_outputs,
                  compaction, edit, applying, bg_error, acked, durable>>
  BY DEF RecoverVersions
<1>6. /\ todo' \in Seq(Nat) /\ ToDo' = {n \in DOMAIN logs : n >= L}
  <2>1. IsFiniteSet(DOMAIN logs) /\ DOMAIN logs \subseteq Nat
    BY <1>1 DEF TypeOK, FilesType
  <2> QED BY <1>2, <1>4, <2>1, LogsFromIs DEF ToDo
<1>7. TypeOK'
  <2>1. FilesType'
    BY <1>1, <1>5 DEF TypeOK, FilesType
  <2>2. version' \subseteq Nat
    BY <1>2, <1>4, TablesAreNumbers
  <2>3. save_manifest' \in BOOLEAN
    BY <1>4, FreshAssumption
  <2>4. /\ last_sequence_' \in Nat /\ next_file_number_' \in Nat \ {0} /\ log_number_' \in Nat
        /\ manifest_file_number_' \in Nat /\ descriptor' \in Nat /\ status' = "replay"
    BY <1>1, <1>2, <1>4 DEF TypeOK, FilesType
  <2>5. StateType'
    BY <1>1, <1>4, <1>5, <1>6, <2>2, <2>3, <2>4 DEF TypeOK, StateType
  <2> QED BY <2>1, <2>5 DEF TypeOK
<1>8. DiskOK'
  BY <1>1, <1>4, <1>5 DEF DiskOK, Restorable, Manifest, SyncedManifest
<1>9. Manifest' = Manifest
  BY <1>5 DEF Manifest
<1>10. DownOK' /\ MemoryOK' /\ VersionOK' /\ DescriptorOK' /\ CompactionOK' /\ EditOK' /\ ApplyingOK'
  BY <1>4 DEF DownOK, MemoryOK, VersionOK, DescriptorOK, CompactionOK, EditOK, ApplyingOK, Running
<1>11. /\ mem = {} /\ imm = {} /\ edit = NoEdit /\ logfile_number_ = 0 /\ pos = 0
       /\ pinned = {} /\ pending_outputs = {} /\ compaction = {} /\ applying = "no"
       /\ bg_error = FALSE
  BY <1>1 DEF DownOK
<1>12. ReplayStart'
  BY <1>1, <1>2, <1>4, <1>5, <1>9, <1>11 DEF ReplayStart
<1>13. ReplayTables'
  BY <1>4, <1>5, <1>11 DEF ReplayTables, NoEdit
<1>14. ReplayLogs'
  <2>1. LogsLeft' = {n \in DOMAIN logs : n >= L} /\ Recovered' = TablesOf(Manifest)
    BY <1>4, <1>5, <1>6, <1>11 DEF LogsLeft, Recovered, NoEdit
  <2>2. \A n \in DOMAIN logs : n \in ToDo' \/ n < next_file_number_'
    BY <1>1, <1>2, <1>4, <1>6 DEF TypeOK, FilesType
  <2>3. Holds(TablesOf(Manifest), L, tables, logs, acked, durable)
    BY <1>1, ManifestSays
  <2>4. \A s \in acked : \/ InTables(s, TablesOf(Manifest), tables)
                         \/ \E n \in {m \in DOMAIN logs : m >= L} : InLog(s, logs[n])
    BY <2>3 DEF Holds, InLogs
  <2>5. \A s \in durable : \/ InTables(s, TablesOf(Manifest), tables)
                           \/ \E n \in {m \in DOMAIN logs : m >= L} : SyncedInLog(s, logs[n])
    BY <2>3 DEF Holds, SyncedInLogs
  <2>6. todo' # <<>> => pos' <= Len(Records')
    <3> HAVE todo' # <<>>
    <3>1. Head(todo') \in ToDo'
      <4>1. Len(todo') \in Nat \ {0} /\ Head(todo') = todo'[1]
        BY <1>6, EmptySeq
      <4> QED BY <4>1 DEF ToDo
    <3>2. logs[Head(todo')] \in Logs
      BY <1>1, <1>6, <3>1 DEF TypeOK, FilesType
    <3>3. Len(Records') \in Nat
      BY <1>5, <3>2, LenProperties DEF Records, Logs
    <3> QED BY <1>4, <1>11, <3>3
  <2> QED BY <1>4, <1>5, <1>11, <2>1, <2>2, <2>4, <2>5, <2>6 DEF ReplayLogs
<1> QED BY <1>7, <1>8, <1>10, <1>12, <1>13, <1>14 DEF Inv

-----------------------------------------------------------------------------
(* Replaying the logs *)

(* What a step of the replay does that makes a table of contents, or none. *)
LEMMA ReplayStep ==
  ASSUME Inv, status = "replay", NEW contents \in SUBSET Nat,
         \/ UNCHANGED <<tables, edit, save_manifest>> /\ contents = {}
         \/ WriteRecoveredTable(contents) /\ next_file_number_' > next_file_number_,
         next_file_number_' \in Nat, next_file_number_' >= next_file_number_,
         max_sequence' \in Nat, max_sequence <= max_sequence',
         \A s \in contents \cup mem' : s <= max_sequence',
         UNCHANGED <<CURRENT, manifests, logs, status, imm, last_sequence_, log_number_,
                     manifest_file_number_, descriptor, version, pinned, pending_outputs,
                     compaction, applying, bg_error, acked, durable>>
  PROVE  /\ FilesType' /\ edit' \in Edits /\ save_manifest' \in BOOLEAN
         /\ DiskOK' /\ ReplayStart' /\ ReplayTables'
         /\ \A s : InTables(s, Recovered, tables) => InTables(s, Recovered', tables')
         /\ \A s \in contents : InTables(s, Recovered', tables')
<1> DEFINE n == next_file_number_
           N == LastEdit(Manifest).next
<1>1. /\ TypeOK /\ DiskOK /\ CURRENT # 0 /\ ReplayStart /\ ReplayTables
      /\ n \in Nat /\ N \in Nat /\ N < n /\ N <= n
      /\ TablesOf(Manifest) \subseteq DOMAIN tables /\ CURRENT \in DOMAIN manifests
      /\ version = TablesOf(Manifest)
  <2>1. /\ TypeOK /\ DiskOK /\ ReplayStart /\ ReplayTables /\ CURRENT # 0
        /\ version = TablesOf(Manifest) /\ N < n
    BY DEF Inv, ReplayStart
  <2>2. n \in Nat /\ CURRENT \in DOMAIN manifests
    BY <2>1 DEF TypeOK, StateType, DiskOK
  <2>3. N \in Nat /\ TablesOf(Manifest) \subseteq DOMAIN tables
    BY <2>1, ManifestSays
  <2>4. N <= n
    BY <2>1, <2>2, <2>3
  <2> QED BY <2>1, <2>2, <2>3, <2>4
<1>2. /\ n \notin version /\ n \notin edit.add
      /\ n \notin TablesOf(Manifest) /\ (Syncs => n \notin TablesOf(SyncedManifest))
  <2>1. \A m \in edit.add : m < n
    BY <1>1 DEF ReplayTables
  <2> QED BY <1>1, <2>1, TablesBelow
<1>3. /\ DOMAIN tables \subseteq DOMAIN tables' /\ DOMAIN tables' \subseteq Nat
      /\ \A m \in DOMAIN tables' : tables'[m] \subseteq Nat
      /\ \A m \in DOMAIN tables : m # n => tables'[m] = tables[m]
  <2>1. CASE UNCHANGED tables
    BY <1>1, <2>1 DEF TypeOK, FilesType
  <2>2. CASE tables' = Put(tables, n, contents)
    BY <1>1, <2>2, PutTable
  <2> QED BY <2>1, <2>2 DEF WriteRecoveredTable
<1>4. edit \in Edits /\ edit = [NoEdit EXCEPT !.add = edit.add] /\ edit.add \subseteq DOMAIN tables
  BY <1>1 DEF TypeOK, StateType, ReplayTables
<1>5. /\ edit' \in Edits /\ edit' = [NoEdit EXCEPT !.add = edit'.add]
      /\ edit.add \subseteq edit'.add /\ edit'.add \subseteq edit.add \cup {n}
      /\ edit'.add \subseteq DOMAIN tables'
      /\ n \in edit'.add => /\ next_file_number_' > n /\ tables'[n] = contents
      /\ contents # {} => n \in edit'.add
  <2>1. CASE UNCHANGED <<tables, edit, save_manifest>> /\ contents = {}
    BY <1>2, <1>4, <2>1
  <2>2. CASE WriteRecoveredTable(contents) /\ next_file_number_' > next_file_number_
    <3>1. edit' = [edit EXCEPT !.add = edit.add \cup {n}]
      BY <2>2 DEF WriteRecoveredTable
    <3>2. edit' \in Edits /\ edit'.add = edit.add \cup {n}
      BY <1>1, <1>4, <3>1 DEF Edits
    <3>3. edit' = [NoEdit EXCEPT !.add = edit.add \cup {n}]
      BY <1>4, <3>1 DEF NoEdit
    <3>4. DOMAIN tables' = DOMAIN tables \cup {n} /\ tables'[n] = contents
      BY <1>1, <2>2, PutTable DEF WriteRecoveredTable
    <3> QED BY <1>4, <2>2, <3>2, <3>3, <3>4
  <2> QED BY <2>1, <2>2
<1>6. FilesType'
  BY <1>1, <1>3 DEF TypeOK, FilesType
<1>7. save_manifest' \in BOOLEAN /\ (save_manifest' \/ (ReuseLogs /\ edit'.add = {}))
  <2>1. CASE UNCHANGED <<tables, edit, save_manifest>>
    <3>1. save_manifest \in BOOLEAN
      BY <1>1 DEF TypeOK, StateType
    <3>2. save_manifest \/ (ReuseLogs /\ edit.add = {})
      BY <1>1 DEF ReplayTables
    <3> QED BY <2>1, <3>1, <3>2
  <2>2. CASE save_manifest' = TRUE
    BY <2>2
  <2> QED BY <2>1, <2>2 DEF WriteRecoveredTable
<1>8. DiskOK' /\ Manifest' = Manifest
  <2>1. SameManifest /\ LogsGrow(logs, logs') /\ DOMAIN logs' \subseteq Nat
    BY <1>1, SameLogsGrow DEF SameManifest, TypeOK, FilesType
  <2>2. TablesStay(TablesOf(Manifest))
    BY <1>1, <1>2, <1>3 DEF TablesStay
  <2>3. Syncs => TablesStay(TablesOf(SyncedManifest))
    BY <1>1, <1>2, <1>3, SyncedManifestSays DEF TablesStay
  <2> QED BY <1>1, <2>1, <2>2, <2>3, DiskKept
<1>9. ReplayStart'
  BY <1>1, <1>8 DEF ReplayStart
<1>10. ReplayTables'
  <2>1. \A m \in edit'.add : /\ N < m /\ m < next_file_number_'
                             /\ \A s \in tables'[m] : s <= max_sequence'
    <3> TAKE m \in edit'.add
    <3>1. CASE m = n
      BY <1>1, <1>5, <3>1
    <3>2. CASE m # n
      <4>1. m \in edit.add /\ m \in DOMAIN tables /\ tables'[m] = tables[m]
        BY <1>3, <1>4, <1>5, <3>2
      <4>2. N < m /\ m < n /\ \A s \in tables[m] : s <= max_sequence
        BY <1>1, <4>1 DEF ReplayTables
      <4>3. m \in Nat /\ tables[m] \subseteq Nat /\ max_sequence \in Nat
        BY <1>1, <4>1 DEF TypeOK, FilesType, StateType
      <4> QED BY <1>1, <4>1, <4>2, <4>3
    <3> QED BY <3>1, <3>2
  <2> QED BY <1>5, <1>7, <1>8, <2>1 DEF ReplayTables
<1>11. \A s : InTables(s, Recovered, tables) => InTables(s, Recovered', tables')
  <2>1. \A m \in Recovered : m \in Recovered' /\ tables'[m] = tables[m]
    BY <1>1, <1>2, <1>3, <1>4, <1>5 DEF Recovered
  <2> QED BY <2>1, InMoreTables
<1>12. \A s \in contents : InTables(s, Recovered', tables')
  BY <1>5 DEF InTables, Recovered
<1> QED BY <1>5, <1>6, <1>7, <1>8, <1>9, <1>10, <1>11, <1>12

LEMMA NotRunning ==
  ASSUME status' = "replay"
  PROVE  /\ DownOK' /\ MemoryOK' /\ VersionOK' /\ DescriptorOK' /\ CompactionOK'
         /\ EditOK' /\ ApplyingOK'
BY DEF DownOK, MemoryOK, VersionOK, DescriptorOK, CompactionOK, EditOK, ApplyingOK, Running

(* The log that is being replayed.                                         *)
LEMMA HeadLog ==
  ASSUME Inv, status = "replay", todo # <<>>
  PROVE  /\ todo \in Seq(Nat) /\ Len(todo) \in Nat \ {0} /\ Head(todo) = todo[1]
         /\ Head(todo) \in ToDo /\ LogsLeft = ToDo /\ Head(todo) \in DOMAIN logs
         /\ Head(todo) \in Nat \ {0} /\ Records \in Seq(Nat) /\ Len(Records) \in Nat
         /\ logs[Head(todo)] \in Logs
<1>1. todo \in Seq(Nat) /\ logfile_number_ = 0
  BY DEF Inv, TypeOK, StateType, ReplayLogs
<1>2. Len(todo) \in Nat \ {0} /\ Head(todo) = todo[1]
  BY <1>1, EmptySeq
<1>3. Head(todo) \in ToDo /\ LogsLeft = ToDo
  BY <1>1, <1>2 DEF ToDo, LogsLeft
<1>4. Head(todo) \in DOMAIN logs
  BY <1>3 DEF Inv, ReplayLogs
<1>5. logs[Head(todo)] \in Logs /\ Head(todo) \in Nat \ {0}
  BY <1>4 DEF Inv, TypeOK, FilesType
<1>6. Records \in Seq(Nat) /\ Len(Records) \in Nat
  BY <1>5, LenProperties DEF Records, Logs
<1> QED BY <1>1, <1>2, <1>3, <1>4, <1>5, <1>6

LEMMA LargerIs ==
  ASSUME NEW m \in Nat, NEW n \in Nat
  PROVE  Larger(m, n) \in Nat /\ Larger(m, n) >= m /\ Larger(m, n) >= n
BY DEF Larger

LEMMA ReplayRecordKeeps == ASSUME Inv, ReplayRecord PROVE Inv'
<1> DEFINE seq  == Records[pos + 1]
           full == mem \cup {seq}
           n    == next_file_number_
<1>1. /\ status = "replay" /\ status' = "replay" /\ todo # <<>> /\ pos < Len(Records)
      /\ pos' = pos + 1 /\ max_sequence' = Larger(max_sequence, seq)
      /\ UNCHANGED <<CURRENT, manifests, logs, todo, imm, last_sequence_, log_number_,
                     logfile_number_, manifest_file_number_, descriptor, version, pinned,
                     pending_outputs, compaction, applying, bg_error, acked, durable>>
  BY DEF ReplayRecord, live, history
<1>2. /\ TypeOK /\ ReplayTables /\ ReplayLogs /\ pos \in Nat /\ n \in Nat \ {0} /\ mem \subseteq Nat
      /\ max_sequence \in Nat /\ compactions \in Nat
  BY DEF Inv, TypeOK, StateType
<1>3. Records \in Seq(Nat) /\ Len(Records) \in Nat /\ seq \in Nat /\ Records' = Records
  <2>1. Records \in Seq(Nat) /\ Len(Records) \in Nat
    BY <1>1, HeadLog
  <2>2. pos + 1 \in 1..Len(Records)
    BY <1>1, <1>2, <2>1
  <2>3. Records' = Records
    BY <1>1 DEF Records
  <2> QED BY <2>1, <2>2, <2>3, ElementOfSeq
<1>4. /\ max_sequence' \in Nat /\ max_sequence <= max_sequence' /\ \A s \in full : s <= max_sequence'
  <2>1. max_sequence' \in Nat /\ max_sequence <= max_sequence' /\ seq <= max_sequence'
    BY <1>1, <1>2, <1>3, LargerIs
  <2>2. \A s \in mem : s <= max_sequence
    BY <1>1, <1>2 DEF ReplayTables
  <2> QED BY <1>2, <1>3, <2>1, <2>2
<1>5. \E contents \in {{}, full} :
        /\ contents = {} => mem' = full
        /\ contents = full => mem' = {}
        /\ \/ UNCHANGED <<tables, edit, save_manifest>> /\ contents = {}
           \/ WriteRecoveredTable(contents) /\ next_file_number_' > next_file_number_
        /\ next_file_number_' \in {n, n + 1} /\ compactions' \in {compactions, compactions + 1}
  <2>1. CASE Cardinality(full) > WriteBufferSize
    <3>1. /\ WriteRecoveredTable(full) /\ next_file_number_' = n + 1
          /\ compactions' = compactions + 1 /\ mem' = {}
      BY <2>1 DEF ReplayRecord
    <3>2. n + 1 > n
      BY <1>2
    <3> QED BY <3>1, <3>2
  <2>2. CASE ~(Cardinality(full) > WriteBufferSize)
    <3>1. mem' = full /\ UNCHANGED <<tables, edit, save_manifest, next_file_number_, compactions>>
      BY <2>2 DEF ReplayRecord
    <3> QED BY <3>1
  <2> QED BY <2>1, <2>2
<1>6. PICK contents \in {{}, full} :
        /\ contents = {} => mem' = full
        /\ contents = full => mem' = {}
        /\ \/ UNCHANGED <<tables, edit, save_manifest>> /\ contents = {}
           \/ WriteRecoveredTable(contents) /\ next_file_number_' > next_file_number_
        /\ next_file_number_' \in {n, n + 1} /\ compactions' \in {compactions, compactions + 1}
  BY <1>5
<1>7. /\ mem' \cup contents = full /\ mem' \subseteq Nat /\ contents \in SUBSET Nat
      /\ next_file_number_' \in Nat \ {0} /\ next_file_number_' >= n /\ compactions' \in Nat
  <2>1. full \subseteq Nat
    BY <1>2, <1>3
  <2>2. next_file_number_' \in Nat \ {0} /\ next_file_number_' >= n /\ compactions' \in Nat
    BY <1>2, <1>6
  <2> HIDE DEF full
  <2> QED BY <1>6, <2>1, <2>2
<1> HIDE DEF full, seq
<1>8. /\ FilesType' /\ edit' \in Edits /\ save_manifest' \in BOOLEAN
      /\ DiskOK' /\ ReplayStart' /\ ReplayTables'
      /\ \A s : InTables(s, Recovered, tables) => InTables(s, Recovered', tables')
      /\ \A s \in contents : InTables(s, Recovered', tables')
  <2>1. \A s \in contents \cup mem' : s <= max_sequence'
    BY <1>4, <1>7
  <2> QED BY <1>1, <1>4, <1>6, <1>7, <2>1, ReplayStep
<1>9. TypeOK'
  <2>1. StateType'
    BY <1>1, <1>2, <1>4, <1>7, <1>8 DEF TypeOK, StateType
  <2> QED BY <1>8, <2>1 DEF TypeOK
<1>10. ReplayLogs'
  <2>1. LogsLeft' = LogsLeft /\ ToDo' = ToDo
    BY <1>1 DEF LogsLeft, ToDo
  <2>2. \A k \in DOMAIN logs' : k \in ToDo' \/ k < next_file_number_'
    <3>1. \A k \in DOMAIN logs : k \in ToDo \/ k < n
      BY <1>1, <1>2 DEF ReplayLogs
    <3>2. DOMAIN logs \subseteq Nat
      BY <1>2 DEF TypeOK, FilesType
    <3> QED BY <1>1, <1>2, <1>7, <2>1, <3>1, <3>2
  <2>3. pos' <= Len(Records')
    BY <1>1, <1>2, <1>3
  <2>4. \A s \in mem' : \E i \in 1..pos' : Records'[i] = s
    <3> TAKE s \in mem'
    <3>1. CASE s \in mem
      <4>1. PICK i \in 1..pos : Records[i] = s
        BY <1>1, <1>2, <3>1 DEF ReplayLogs
      <4>2. i \in 1..pos'
        BY <1>1, <1>2, <4>1
      <4> QED BY <1>3, <4>1, <4>2
    <3>2. CASE s \notin mem
      <4>1. s = seq
        BY <1>7, <3>2 DEF full
      <4>2. pos + 1 \in 1..pos' /\ Records'[pos + 1] = s
        BY <1>1, <1>2, <1>3, <4>1 DEF seq
      <4> QED BY <4>2
    <3> QED BY <3>1, <3>2
  <2>5. \A i \in 1..pos' : Records'[i] \in mem' \/ InTables(Records'[i], Recovered', tables')
    <3> TAKE i \in 1..pos'
    <3>1. i \in 1..pos \/ i = pos + 1
      BY <1>1, <1>2
    <3>2. Records[i] \in full \/ InTables(Records[i], Recovered, tables)
      BY <1>1, <1>2, <3>1 DEF ReplayLogs, full, seq
    <3> QED BY <1>3, <1>7, <1>8, <3>2
  <2>6. \A s \in acked' : \/ InTables(s, Recovered', tables')
                          \/ \E k \in LogsLeft' : InLog(s, logs'[k])
    BY <1>1, <1>2, <1>8, <2>1 DEF ReplayLogs
  <2>7. \A s \in durable' : \/ InTables(s, Recovered', tables')
                            \/ \E k \in LogsLeft' : SyncedInLog(s, logs'[k])
    BY <1>1, <1>2, <1>8, <2>1 DEF ReplayLogs
  <2>8. (\A k \in LogsLeft' : k \in DOMAIN logs' /\ k >= log_number_') /\ logfile_number_' = 0
    BY <1>1, <1>2, <2>1 DEF ReplayLogs
  <2> QED BY <1>1, <2>2, <2>3, <2>4, <2>5, <2>6, <2>7, <2>8 DEF ReplayLogs
<1> QED BY <1>1, <1>8, <1>9, <1>10, NotRunning DEF Inv

LEMMA EndOfLogKeeps == ASSUME Inv, EndOfLog PROVE Inv'
<1> DEFINE reused   == ReuseLogs /\ Len(todo) = 1 /\ compactions = 0
           contents == IF reused THEN {} ELSE mem
           n        == next_file_number_
           head     == Head(todo)
           used     == IF reused \/ mem = {} THEN n ELSE n + 1
<1>1. /\ status = "replay" /\ status' = "replay" /\ todo # <<>> /\ pos = Len(Records)
      /\ todo' = Tail(todo) /\ pos' = 0 /\ compactions' = 0
      /\ mem' = (IF reused THEN mem ELSE {})
      /\ logfile_number_' = (IF reused THEN head ELSE 0)
      /\ next_file_number_' = Larger(used, head + 1)
      /\ UNCHANGED <<CURRENT, manifests, logs, max_sequence, imm, last_sequence_, log_number_,
                     manifest_file_number_, descriptor, version, pinned,
                     pending_outputs, compaction, applying, bg_error, acked, durable>>
  BY DEF EndOfLog, live, history, MarkFileNumberUsed
<1>2. IF reused \/ mem = {} THEN UNCHANGED <<tables, edit, save_manifest>>
      ELSE WriteRecoveredTable(mem)
  BY DEF EndOfLog
<1>3. /\ TypeOK /\ ReplayTables /\ ReplayLogs /\ n \in Nat \ {0} /\ mem \subseteq Nat
      /\ max_sequence \in Nat
  BY DEF Inv, TypeOK, StateType
<1>4. /\ todo \in Seq(Nat) /\ Len(todo) \in Nat \ {0} /\ head = todo[1]
      /\ head \in ToDo /\ LogsLeft = ToDo /\ head \in DOMAIN logs
      /\ head \in Nat \ {0} /\ Len(Records) \in Nat /\ Records = logs[head].records
      /\ logs[head] \in Logs
  BY <1>1, HeadLog DEF Records
<1>5. /\ todo' \in Seq(Nat) /\ ToDo = {head} \cup ToDo'
      /\ (reused => todo' = <<>>)
  <2>1. /\ todo' \in Seq(Nat) /\ Len(todo') = Len(todo) - 1
        /\ \A i \in 1..Len(todo') : todo'[i] = todo[i + 1]
    BY <1>1, <1>4, HeadTailProperties
  <2>2. ASSUME NEW i \in 1..Len(todo) PROVE todo[i] \in {head} \cup ToDo'
    <3>1. CASE i = 1
      BY <1>4, <3>1
    <3>2. CASE i # 1
      <4>1. i - 1 \in 1..Len(todo') /\ (i - 1) + 1 = i
        BY <1>4, <2>1, <3>2
      <4>2. todo'[i - 1] = todo[i]
        BY <2>1, <4>1
      <4> QED BY <4>1, <4>2 DEF ToDo
    <3> QED BY <3>1, <3>2
  <2>3. ASSUME NEW i \in 1..Len(todo') PROVE todo'[i] \in ToDo
    <3>1. i + 1 \in 1..Len(todo)
      BY <1>4, <2>1
    <3> QED BY <2>1, <3>1 DEF ToDo
  <2>4. ToDo \subseteq {head} \cup ToDo'
    BY <2>2 DEF ToDo
  <2>5. ToDo' \subseteq ToDo
    BY <2>3 DEF ToDo
  <2>6. reused => todo' = <<>>
    <3> HAVE reused
    <3>1. Len(todo') = 0
      BY <1>4, <2>1
    <3> QED BY <2>1, <3>1, EmptySeq
  <2> QED BY <1>4, <2>1, <2>4, <2>5, <2>6
<1>6. /\ next_file_number_' \in Nat \ {0} /\ next_file_number_' >= n /\ head < next_file_number_'
      /\ ~(reused \/ mem = {}) => next_file_number_' > n
  <2>1. used \in Nat /\ used >= n /\ (~(reused \/ mem = {}) => used > n)
    BY <1>3
  <2>3. head + 1 \in Nat
    BY <1>4
  <2> HIDE DEF used, head
  <2>2. /\ Larger(used, head + 1) \in Nat /\ Larger(used, head + 1) >= used
        /\ Larger(used, head + 1) >= head + 1
    BY <2>1, <2>3, LargerIs
  <2> QED BY <1>1, <1>3, <1>4, <2>1, <2>2
<1>7. mem' \cup contents = mem /\ contents \in SUBSET Nat /\ mem' \subseteq Nat
  BY <1>1, <1>3
<1>8. /\ FilesType' /\ edit' \in Edits /\ save_manifest' \in BOOLEAN
      /\ DiskOK' /\ ReplayStart' /\ ReplayTables'
      /\ \A s : InTables(s, Recovered, tables) => InTables(s, Recovered', tables')
      /\ \A s \in contents : InTables(s, Recovered', tables')
  <2>1. \A s \in contents \cup mem' : s <= max_sequence'
    BY <1>1, <1>3, <1>7 DEF ReplayTables
  <2>2. \/ UNCHANGED <<tables, edit, save_manifest>> /\ contents = {}
        \/ WriteRecoveredTable(contents) /\ next_file_number_' > n
    <3>1. CASE reused \/ mem = {}
      BY <1>2, <3>1
    <3>2. CASE ~(reused \/ mem = {})
      BY <1>2, <1>6, <3>2
    <3> QED BY <3>1, <3>2
  <2>3. max_sequence' \in Nat /\ max_sequence <= max_sequence'
    BY <1>1, <1>3
  <2> HIDE DEF contents, used
  <2> QED BY <1>1, <1>6, <1>7, <2>1, <2>2, <2>3, ReplayStep
<1>9. TypeOK'
  <2>1. logfile_number_' \in Nat /\ compactions' \in Nat /\ pos' \in Nat
    BY <1>1, <1>4
  <2>2. StateType'
    BY <1>1, <1>3, <1>5, <1>6, <1>7, <1>8, <2>1 DEF TypeOK, StateType
  <2> QED BY <1>8, <2>2 DEF TypeOK
(* What was read of the log is in memory or in a table.                    *)
<1>10. \A s : InLog(s, logs[head]) => s \in mem \/ InTables(s, Recovered, tables)
  <2>1. \A i \in 1..Len(Records) : Records[i] \in mem \/ InTables(Records[i], Recovered, tables)
    BY <1>1, <1>3 DEF ReplayLogs
  <2> QED BY <1>4, <2>1 DEF InLog
<1>11. \A s : /\ SyncedInLog(s, logs[head]) => InLog(s, logs[head])
  BY <1>4, SyncedIsIn
<1>12. LogsLeft' = IF reused THEN {head} ELSE ToDo'
  BY <1>1, <1>4 DEF LogsLeft
<1>13. \A s \in acked : InTables(s, Recovered, tables) \/ \E k \in ToDo : InLog(s, logs[k])
  BY <1>1, <1>3, <1>4 DEF ReplayLogs
<1>14. \A s \in durable :
         InTables(s, Recovered, tables) \/ \E k \in ToDo : SyncedInLog(s, logs[k])
  BY <1>1, <1>3, <1>4 DEF ReplayLogs
<1>15. (\A k \in ToDo : k \in DOMAIN logs /\ k >= log_number_)
       /\ \A k \in DOMAIN logs : k \in ToDo \/ k < n
  BY <1>1, <1>3, <1>4 DEF ReplayLogs
<1>16. ReplayLogs'
  <2>1. \A k \in LogsLeft' : k \in DOMAIN logs' /\ k >= log_number_'
    BY <1>1, <1>4, <1>5, <1>12, <1>15
  <2>2. \A k \in DOMAIN logs' : k \in ToDo' \/ k < next_file_number_'
    <3>1. DOMAIN logs \subseteq Nat
      BY <1>3 DEF TypeOK, FilesType
    <3> QED BY <1>1, <1>3, <1>5, <1>6, <1>15, <3>1
  <2>3. CASE reused
    <3>1. /\ LogsLeft' = {head} /\ todo' = <<>> /\ logfile_number_' = head /\ mem' = mem
          /\ ToDo' = {}
      BY <1>1, <1>5, <1>12, <2>3 DEF ToDo
    <3>2. \A s : InTables(s, Recovered, tables) => InTables(s, Recovered', tables')
      BY <1>8
    <3>3. ToDo = {head}
      BY <1>5, <3>1
    <3> HIDE DEF reused, contents, used, head
    <3>4. \A s \in acked' : \/ InTables(s, Recovered', tables')
                            \/ \E k \in LogsLeft' : InLog(s, logs'[k])
      BY <1>1, <1>13, <3>1, <3>2, <3>3
    <3>5. \A s \in durable' : \/ InTables(s, Recovered', tables')
                              \/ \E k \in LogsLeft' : SyncedInLog(s, logs'[k])
      BY <1>1, <1>14, <3>1, <3>2, <3>3
    <3>6. \A s \in mem' : InLog(s, logs'[head])
      <4>1. \A s \in mem : \E i \in 1..Len(Records) : Records[i] = s
        BY <1>1, <1>3 DEF ReplayLogs
      <4> QED BY <1>1, <1>4, <3>1, <4>1 DEF InLog
    <3>7. \A i \in 1..Len(logs'[head].records) :
             \/ logs'[head].records[i] \in mem'
             \/ InTables(logs'[head].records[i], Recovered', tables')
      BY <1>1, <1>3, <1>4, <3>1, <3>2 DEF ReplayLogs
    <3> QED BY <1>4, <2>1, <2>2, <3>1, <3>4, <3>5, <3>6, <3>7 DEF ReplayLogs
  <2>4. CASE ~reused
    <3>1. LogsLeft' = ToDo' /\ logfile_number_' = 0 /\ mem' = {} /\ contents = mem
      BY <1>1, <1>12, <2>4
    <3>2. \A s : InTables(s, Recovered, tables) => InTables(s, Recovered', tables')
      BY <1>8
    <3>3. \A s \in mem : InTables(s, Recovered', tables')
      BY <1>8, <3>1
    <3> HIDE DEF reused, contents, used, head
    <3>4. \A s \in acked' : \/ InTables(s, Recovered', tables')
                            \/ \E k \in LogsLeft' : InLog(s, logs'[k])
      BY <1>1, <1>5, <1>10, <1>13, <3>1, <3>2, <3>3
    <3>5. \A s \in durable' : \/ InTables(s, Recovered', tables')
                              \/ \E k \in LogsLeft' : SyncedInLog(s, logs'[k])
      BY <1>1, <1>5, <1>10, <1>11, <1>14, <3>1, <3>2, <3>3
    <3>6. todo' # <<>> => pos' <= Len(Records') /\ 1..pos' = {}
      <4> HAVE todo' # <<>>
      <4>1. Len(todo') \in Nat \ {0} /\ Head(todo') = todo'[1]
        BY <1>5, EmptySeq
      <4>2. Head(todo') \in ToDo'
        BY <4>1 DEF ToDo
      <4>3. logs[Head(todo')] \in Logs
        BY <1>3, <1>5, <1>15, <4>2 DEF TypeOK, FilesType
      <4>4. Len(Records') \in Nat
        BY <1>1, <4>3, LenProperties DEF Records, Logs
      <4> QED BY <1>1, <4>4
    <3> QED BY <2>1, <2>2, <3>1, <3>4, <3>5, <3>6 DEF ReplayLogs
  <2> QED BY <2>3, <2>4
<1> QED BY <1>1, <1>8, <1>9, <1>16, NotRunning DEF Inv

LEMMA FinishReplayKeeps == ASSUME Inv, FinishReplay PROVE Inv'
<1> DEFINE new  == logfile_number_ = 0
           file == IF new THEN next_file_number_ ELSE logfile_number_
           next == IF new THEN next_file_number_ + 1 ELSE next_file_number_
           files == IF new THEN Put(logs, file, NoRecords) ELSE logs
           L    == LastEdit(Manifest).log
           N    == LastEdit(Manifest).next
<1>1. /\ status = "replay" /\ todo = <<>> /\ last_sequence_' = Larger(last_sequence_, max_sequence)
      /\ logfile_number_' = file /\ next_file_number_' = next
      /\ UNCHANGED <<CURRENT, todo, pos, save_manifest, compactions,
                     max_sequence, mem, imm, log_number_, manifest_file_number_, descriptor,
                     version, pinned, pending_outputs, compaction, bg_error, acked, durable>>
  BY DEF FinishReplay, RecoveredSequence, replay, live, history, NoRecords
<1>2. IF save_manifest
      THEN /\ edit' = [edit EXCEPT !.log = file, !.next = next, !.seq = last_sequence_']
           /\ applying' = "record" /\ status' = "opening"
           /\ logs' = files /\ UNCHANGED <<manifests, tables>>
      ELSE /\ edit' = NoEdit /\ applying' = "no" /\ status' = "open"
           /\ DeleteObsoleteFiles(files, version, log_number_, {})
  BY DEF FinishReplay, NoRecords
<1>3. /\ TypeOK /\ DiskOK /\ CURRENT # 0 /\ ReplayStart /\ ReplayTables /\ ReplayLogs
      /\ version = TablesOf(Manifest) /\ log_number_ = L /\ last_sequence_ = LastEdit(Manifest).seq
      /\ imm = {} /\ compaction = {} /\ pinned = {} /\ pending_outputs = {} /\ bg_error = FALSE
      /\ N < next_file_number_
      /\ IF ReuseLogs THEN manifest_file_number_ = CURRENT /\ descriptor = CURRENT
         ELSE manifest_file_number_ = N /\ descriptor = 0
  BY <1>1 DEF Inv, ReplayStart
<1>4. /\ L \in Nat /\ N \in Nat /\ last_sequence_ \in Nat /\ L < N /\ CURRENT < N /\ CURRENT \in Nat
      /\ TablesOf(Manifest) \subseteq DOMAIN tables
      /\ \A n \in version : n < N /\ \A s \in tables[n] : s <= last_sequence_
      /\ CURRENT \in DOMAIN manifests
  BY <1>3, ManifestSays DEF DiskOK, TypeOK, FilesType
<1>5. /\ next_file_number_ \in Nat \ {0} /\ logfile_number_ \in Nat /\ max_sequence \in Nat
      /\ mem \subseteq Nat /\ edit \in Edits /\ version \subseteq Nat
      /\ manifest_file_number_ \in Nat /\ DOMAIN logs \subseteq Nat \ {0}
      /\ save_manifest \in BOOLEAN /\ DOMAIN tables \subseteq Nat
      /\ \A n \in DOMAIN tables : tables[n] \subseteq Nat
  BY <1>3 DEF TypeOK, StateType, FilesType
<1>6. /\ last_sequence_' \in Nat /\ last_sequence_ <= last_sequence_'
      /\ max_sequence <= last_sequence_'
  BY <1>1, <1>4, <1>5, LargerIs
<1>7. /\ ToDo = {} /\ LogsLeft = (IF new THEN {} ELSE {logfile_number_})
      /\ (\A n \in DOMAIN logs : n < next_file_number_)
      /\ (~new => logfile_number_ \in DOMAIN logs /\ logfile_number_ >= L)
  <2>1. ToDo = {}
    BY <1>1 DEF ToDo
  <2>2. LogsLeft = (IF new THEN {} ELSE {logfile_number_})
    BY <2>1 DEF LogsLeft
  <2> QED BY <1>1, <1>3, <2>1, <2>2 DEF ReplayLogs
<1>8. /\ file \in Nat \ {0} /\ next \in Nat \ {0} /\ file < next /\ L <= file
      /\ next_file_number_ <= next /\ N < next
  BY <1>3, <1>4, <1>5, <1>7
<1>9. /\ LogsGrow(logs, files) /\ file \in DOMAIN files
      /\ \A n \in DOMAIN files : n < next
      /\ DOMAIN files \subseteq Nat \ {0} /\ IsFiniteSet(DOMAIN files)
      /\ \A n \in DOMAIN files : files[n] \in Logs
  <2>1. CASE new
    <3>1. file \notin DOMAIN logs /\ file = next_file_number_
      BY <1>5, <1>7, <2>1
    <3>2. files = Put(logs, file, NoRecords)
      BY <2>1
    <3>3. /\ LogsGrow(logs, files) /\ DOMAIN files = DOMAIN logs \cup {file}
          /\ IsFiniteSet(DOMAIN files) /\ \A m \in DOMAIN files : files[m] \in Logs
      <4> HIDE DEF file, new, files
      <4> QED BY <1>3, <1>8, <3>1, <3>2, MoreLogs
    <3> QED BY <1>5, <1>7, <1>8, <3>3
  <2>2. CASE ~new
    BY <1>3, <1>5, <1>7, <2>2, SameLogsGrow DEF TypeOK, FilesType
  <2> QED BY <2>1, <2>2
<1>10. /\ edit.del = {} /\ edit.add \subseteq DOMAIN tables
       /\ \A n \in edit.add : n < next_file_number_ /\ \A s \in tables[n] : s <= max_sequence
       /\ \A s \in mem : s <= max_sequence
       /\ save_manifest \/ (ReuseLogs /\ edit.add = {})
  <2>1. edit = [NoEdit EXCEPT !.add = edit.add]
    BY <1>1, <1>3 DEF ReplayTables
  <2>2. edit.del = {}
    BY <2>1 DEF NoEdit
  <2> QED BY <1>1, <1>3, <2>2 DEF ReplayTables
<1> HIDE DEF new, file, next, files, L, N
<1>22. /\ ~save_manifest => ReuseLogs /\ edit.add = {} /\ manifest_file_number_ = CURRENT
       /\ save_manifest => logs' = files /\ manifests' = manifests /\ tables' = tables
       /\ CURRENT \in DOMAIN manifests' /\ DOMAIN manifests' \subseteq DOMAIN manifests
       /\ \A n \in DOMAIN manifests' : manifests'[n] = manifests[n]
       /\ DOMAIN logs' \subseteq DOMAIN files /\ \A n \in DOMAIN logs' : logs'[n] = files[n]
       /\ \A n \in DOMAIN files : n >= L => n \in DOMAIN logs'
       /\ DOMAIN tables' \subseteq DOMAIN tables
       /\ \A n \in DOMAIN tables' : tables'[n] = tables[n]
       /\ Recovered \subseteq DOMAIN tables'
  <2>1. ~save_manifest => ReuseLogs /\ edit.add = {} /\ manifest_file_number_ = CURRENT
    BY <1>3, <1>10
  <2>2. Recovered \subseteq DOMAIN tables
    BY <1>3, <1>4, <1>10 DEF Recovered
  <2>3. CASE logs' = files /\ UNCHANGED <<manifests, tables>>
    BY <1>4, <2>1, <2>2, <2>3
  <2>4. CASE /\ ~save_manifest
             /\ logs' = Restrict(files, {n \in DOMAIN files : n >= log_number_})
             /\ manifests' = Restrict(manifests,
                                      {n \in DOMAIN manifests : n >= manifest_file_number_})
             /\ tables' = Restrict(tables, DOMAIN tables \cap LiveFiles(version, {}))
    <3>1. /\ DOMAIN logs' = {n \in DOMAIN files : n >= L}
          /\ \A n \in DOMAIN logs' : logs'[n] = files[n]
      BY <1>3, <2>4 DEF Restrict
    <3>2. /\ DOMAIN manifests' = {n \in DOMAIN manifests : n >= CURRENT}
          /\ \A n \in DOMAIN manifests' : manifests'[n] = manifests[n]
      BY <2>1, <2>4 DEF Restrict
    <3>3. /\ DOMAIN tables' = DOMAIN tables \cap version
          /\ \A n \in DOMAIN tables' : tables'[n] = tables[n]
      BY <1>3, <2>4 DEF Restrict, LiveFiles
    <3>4. Recovered = version /\ CURRENT \in DOMAIN manifests'
      BY <1>4, <2>1, <2>4, <3>2 DEF Recovered
    <3> QED BY <2>1, <2>2, <2>4, <3>1, <3>2, <3>3, <3>4
  <2> QED BY <1>2, <2>3, <2>4 DEF DeleteObsoleteFiles
<1>23. /\ FilesType' /\ file \in DOMAIN logs' /\ logs'[file] = files[file]
       /\ \A n \in DOMAIN logs' : n < next
       /\ \A n \in Recovered : tables'[n] = tables[n]
       /\ \A s : InTables(s, Recovered, tables) => InTables(s, Recovered, tables')
  <2>1. FilesType
    BY <1>3 DEF TypeOK
  <2>2. file \in DOMAIN logs'
    BY <1>8, <1>9, <1>22
  <2>3. IsFiniteSet(DOMAIN logs')
    BY <1>9, <1>22, FS_Subset
  <2>4. FilesType'
    BY <1>1, <1>9, <1>22, <2>1, <2>3 DEF FilesType
  <2>5. \A n \in Recovered : tables'[n] = tables[n]
    BY <1>22
  <2>6. \A s : InTables(s, Recovered, tables) => InTables(s, Recovered, tables')
    BY <2>5 DEF InTables
  <2> QED BY <1>9, <1>22, <2>2, <2>4, <2>5, <2>6
<1>11. /\ save_manifest => /\ edit' \in Complete /\ edit'.add = edit.add /\ edit'.del = {}
                           /\ edit'.log = file /\ edit'.next = next /\ edit'.seq = last_sequence_'
                           /\ applying' = "record" /\ status' = "opening"
       /\ ~save_manifest => edit' = NoEdit /\ applying' = "no" /\ status' = "open"
       /\ Tables' = Recovered
  <2>1. CASE save_manifest
    <3>1. edit' = [edit EXCEPT !.log = file, !.next = next, !.seq = last_sequence_']
      BY <1>2, <2>1
    <3>2. /\ edit' \in Complete /\ edit'.add = edit.add /\ edit'.del = {}
          /\ edit'.log = file /\ edit'.next = next /\ edit'.seq = last_sequence_'
      BY <1>5, <1>6, <1>8, <1>10, <3>1 DEF Edits, Complete
    <3> QED BY <1>1, <1>2, <2>1, <3>2 DEF Tables, Recovered
  <2>2. CASE ~save_manifest
    BY <1>1, <1>2, <1>10, <2>2 DEF Tables, Recovered
  <2> QED BY <2>1, <2>2
<1>12. TypeOK'
  <2>1. edit' \in Edits
    BY <1>11, EditsType
  <2>2. status' \in {"opening", "open"} /\ applying' \in {"no", "record"}
    BY <1>11
  <2>3. StateType'
    BY <1>1, <1>3, <1>6, <1>8, <2>1, <2>2 DEF TypeOK, StateType
  <2> QED BY <1>23, <2>3 DEF TypeOK
<1>13. DiskOK' /\ Manifest' = Manifest /\ SyncedManifest' = SyncedManifest
  <2>1. SameManifest
    BY <1>1, <1>22 DEF SameManifest
  <2>2. CASE save_manifest
    <3>1. TablesStay(TablesOf(Manifest)) /\ (Syncs => TablesStay(TablesOf(SyncedManifest)))
      BY <1>3, <1>4, <1>22, <2>2, SyncedManifestSays DEF TablesStay
    <3>2. LogsGrow(logs, logs') /\ DOMAIN logs' \subseteq Nat
      BY <1>9, <1>22, <2>2
    <3> QED BY <1>1, <1>3, <1>11, <2>1, <2>2, <3>1, <3>2, DiskKept
  <2>3. CASE ~save_manifest
    <3>1. ~Syncs
      BY <1>22, <2>3 DEF Syncs
    <3>2. Manifest' = Manifest /\ SyncedManifest' = SyncedManifest
      BY <2>1 DEF SameManifest, Manifest, SyncedManifest
    <3>3. Sound(Manifest, tables, CURRENT) /\ Holds(TablesOf(Manifest), L, tables, logs, acked, durable)
      BY <1>3 DEF DiskOK, Restorable, L
    <3>4. \A n \in TablesOf(Manifest) : n \in DOMAIN tables' /\ tables'[n] = tables[n]
      BY <1>3, <1>22, <1>23 DEF Recovered
    <3>5. Sound(Manifest, tables', CURRENT)
      BY <3>3, <3>4, SoundKept
    <3>6. Holds(TablesOf(Manifest), L, tables, files, acked, durable)
      BY <1>9, <3>3, HoldsKept
    <3>7. Holds(TablesOf(Manifest), L, tables', logs', acked, durable)
      BY <1>22, <3>4, <3>6, HoldsAfterRemoval
    <3>8. Restorable(Manifest)'
      BY <1>1, <3>2, <3>5, <3>7 DEF Restorable, L
    <3> QED BY <1>1, <1>3, <1>11, <1>22, <2>3, <3>1, <3>2, <3>8 DEF DiskOK
  <2> QED BY <2>2, <2>3
<1>14. /\ \A s \in acked : s \in mem \/ InTables(s, Recovered, tables')
       /\ \A s \in durable : SyncedInLog(s, logs'[file]) \/ InTables(s, Recovered, tables')
       /\ \A s \in mem : InLog(s, logs'[file])
  <2>1. CASE new
    <3>1. mem = {} /\ LogsLeft = {}
      BY <1>1, <1>3, <1>7, <2>1 DEF ReplayLogs, new
    <3> QED BY <1>1, <1>3, <1>23, <3>1 DEF ReplayLogs
  <2>2. CASE ~new
    <3>1. /\ LogsLeft = {logfile_number_} /\ file = logfile_number_ /\ logs'[file] = logs[file]
          /\ logfile_number_ # 0
      BY <1>1, <1>7, <1>23, <2>2 DEF new, file, files
    <3>2. \A s \in acked : InTables(s, Recovered, tables) \/ InLog(s, logs[file])
      BY <1>1, <1>3, <3>1 DEF ReplayLogs
    <3>3. \A s \in durable : InTables(s, Recovered, tables) \/ SyncedInLog(s, logs[file])
      BY <1>1, <1>3, <3>1 DEF ReplayLogs
    <3>4. \A s \in mem : InLog(s, logs[file])
      BY <1>1, <1>3, <3>1 DEF ReplayLogs
    <3>5. \A s : InLog(s, logs[file]) => s \in mem \/ InTables(s, Recovered, tables)
      BY <1>1, <1>3, <3>1 DEF ReplayLogs, InLog
    <3> QED BY <1>23, <3>1, <3>2, <3>3, <3>4, <3>5
  <2> QED BY <2>1, <2>2
<1>15. MemoryOK'
  <2>1. Holds(Recovered, L, tables', logs', acked, durable)
    BY <1>8, <1>14, <1>23 DEF Holds, InLogs, SyncedInLogs
  <2>2. \A s \in mem : s <= last_sequence_'
    <3>1. \A s \in mem : s \in Nat /\ s <= max_sequence
      BY <1>5, <1>10
    <3>2. max_sequence \in Nat /\ max_sequence <= last_sequence_' /\ last_sequence_' \in Nat
      BY <1>5, <1>6
    <3> QED BY <3>1, <3>2
  <2>3. \A n \in Recovered : \A s \in tables'[n] : s <= last_sequence_'
    <3> TAKE n \in Recovered
    <3> TAKE s \in tables'[n]
    <3>4. s \in tables[n]
      BY <1>23
    <3>1. s \in Nat
      BY <1>3, <1>4, <1>5, <1>10, <3>4 DEF Recovered
    <3>2. CASE n \in version
      BY <1>4, <1>6, <3>1, <3>2, <3>4
    <3>3. CASE n \in edit.add
      BY <1>5, <1>6, <1>10, <3>1, <3>3, <3>4
    <3> QED BY <3>2, <3>3 DEF Recovered
  <2> QED BY <1>1, <1>3, <1>8, <1>11, <1>14, <1>23, <2>1, <2>2, <2>3 DEF MemoryOK
<1>16. VersionOK'
  <2>1. Recovered \subseteq DOMAIN tables' /\ \A n \in Recovered : n < next
    <3>1. \A n \in edit.add : n \in Nat /\ n < next
      BY <1>5, <1>8, <1>10
    <3>2. \A n \in version : n \in Nat /\ n < next
      BY <1>4, <1>5, <1>8
    <3> QED BY <1>22, <3>1, <3>2 DEF Recovered
  <2>2. manifest_file_number_ < next
    BY <1>3, <1>4, <1>5, <1>8
  <2>3. N <= next /\ LastEdit(Manifest).seq <= last_sequence_' /\ L <= file
    BY <1>3, <1>4, <1>6, <1>8
  <2>4. Syncs => LastEdit(SyncedManifest).log <= log_number_
    BY <1>3, SyncedManifestSays DEF L
  <2>5. \A n \in version : \A s \in tables'[n] : InTables(s, TablesOf(Manifest), tables')
    BY <1>3 DEF InTables
  <2>6. ~Logged' /\ pending_outputs' \cup UNION pinned' = {}
    BY <1>1, <1>3, <1>11 DEF Logged
  <2> QED BY <1>1, <1>3, <1>11, <1>13, <2>1, <2>2, <2>3, <2>4, <2>5, <2>6 DEF VersionOK, L, N
<1>17. DescriptorOK'
  BY <1>1, <1>3, <1>10, <1>11, <1>13 DEF DescriptorOK, N
<1>18. CompactionOK'
  BY <1>1, <1>3, <1>11 DEF CompactionOK
<1>19. EditOK'
  <2>1. CASE ~save_manifest
    BY <1>11, <2>1 DEF EditOK
  <2>2. CASE save_manifest
    <3>1. \A n \in edit.add \cup version : n < next /\ \A s \in tables'[n] : s <= last_sequence_'
      BY <1>15, <1>16, <1>11, <1>1, <2>2 DEF MemoryOK, VersionOK, Running, Recovered
    <3>2. /\ manifest_file_number_ < next /\ LastEdit(Manifest).next <= next
          /\ LastEdit(Manifest).seq <= last_sequence_'
      BY <1>15, <1>16, <1>11, <1>1, <1>13, <2>2 DEF VersionOK, Running
    <3>3. next <= next /\ last_sequence_' <= last_sequence_' /\ file <= file
      BY <1>6, <1>8
    <3> QED BY <1>1, <1>3, <1>8, <1>10, <1>11, <1>13, <1>22, <2>2, <3>1, <3>2, <3>3 DEF EditOK
  <2> QED BY <2>1, <2>2
<1>20. ApplyingOK'
  BY <1>11 DEF ApplyingOK, Logged
<1>21. DownOK' /\ ReplayStart' /\ ReplayTables' /\ ReplayLogs'
  BY <1>11 DEF DownOK, ReplayStart, ReplayTables, ReplayLogs
<1> QED BY <1>12, <1>13, <1>15, <1>16, <1>17, <1>18, <1>19, <1>20, <1>21 DEF Inv

-----------------------------------------------------------------------------
(* The running process *)

LEMMA NotReplaying ==
  ASSUME status' \in {"opening", "open"}
  PROVE  DownOK' /\ ReplayStart' /\ ReplayTables' /\ ReplayLogs'
BY DEF DownOK, ReplayStart, ReplayTables, ReplayLogs

LEMMA WhileRunning ==
  ASSUME Inv, Running
  PROVE  /\ TypeOK /\ FilesType /\ StateType /\ DiskOK /\ CURRENT # 0
         /\ CURRENT \in DOMAIN manifests
         /\ CURRENT \in Nat /\ logfile_number_ \in DOMAIN logs
         /\ logfile_number_ \in Nat \ {0} /\ logs[logfile_number_] \in Logs
         /\ next_file_number_ \in Nat \ {0} /\ log_number_ \in Nat /\ last_sequence_ \in Nat
         /\ manifest_file_number_ \in Nat /\ descriptor \in Nat
         /\ mem \subseteq Nat /\ imm \subseteq Nat /\ version \subseteq Nat
         /\ DOMAIN logs \subseteq Nat \ {0} /\ DOMAIN tables \subseteq Nat
         /\ DOMAIN manifests \subseteq Nat
         /\ \A n \in DOMAIN tables : tables[n] \subseteq Nat
         /\ edit \in Edits /\ version \subseteq DOMAIN tables
         /\ LastEdit(Manifest).log \in Nat /\ LastEdit(Manifest).next \in Nat
         /\ LastEdit(Manifest).seq \in Nat
         /\ TablesOf(Manifest) \subseteq DOMAIN tables
         /\ next_file_number_ \notin TablesOf(Manifest) \cup version
         /\ Syncs => next_file_number_ \notin TablesOf(SyncedManifest)
         /\ acked \subseteq Nat /\ durable \subseteq acked
<1>1. TypeOK /\ FilesType /\ StateType /\ DiskOK /\ CURRENT # 0
  BY DEF Inv, TypeOK, VersionOK
<1>2. CURRENT \in DOMAIN manifests /\ logfile_number_ \in DOMAIN logs
  BY <1>1 DEF Inv, DiskOK, MemoryOK
<1>3. logfile_number_ \in Nat \ {0} /\ logs[logfile_number_] \in Logs
  BY <1>1, <1>2 DEF FilesType
<1>4. version \subseteq DOMAIN tables /\ \A n \in version : n < next_file_number_
  BY DEF Inv, VersionOK, Tables
<1>5. LastEdit(Manifest).next <= next_file_number_
  BY DEF Inv, VersionOK
<1>6. next_file_number_ \in Nat
  BY <1>1 DEF StateType
<1>7. /\ next_file_number_ \notin TablesOf(Manifest)
      /\ Syncs => next_file_number_ \notin TablesOf(SyncedManifest)
  BY <1>1, <1>5, <1>6, TablesBelow
<1>8. next_file_number_ \notin version
  BY <1>4, <1>6
<1>9. /\ LastEdit(Manifest).log \in Nat /\ LastEdit(Manifest).next \in Nat
      /\ LastEdit(Manifest).seq \in Nat /\ TablesOf(Manifest) \subseteq DOMAIN tables
  BY <1>1, ManifestSays
<1> QED BY <1>1, <1>2, <1>3, <1>4, <1>7, <1>8, <1>9 DEF FilesType, StateType

LEMMA NewIteratorKeeps == ASSUME Inv, NewIterator PROVE Inv'
<1>1. /\ status = "open" /\ pinned' = pinned \cup {version}
      /\ UNCHANGED <<disk, status, replay, mem, imm, numbers, version, pending_outputs,
                     compaction, edit, applying, bg_error, history>>
  BY DEF NewIterator, Open
<1> USE DEF disk, replay, numbers, history
<1>2. Running /\ Running' /\ Tables' = Tables /\ Tables = version
  BY <1>1 DEF Running, Tables
<1>3. Manifest' = Manifest /\ SyncedManifest' = SyncedManifest
  BY <1>1 DEF Manifest, SyncedManifest
<1>4. TypeOK'
  BY <1>1 DEF Inv, TypeOK, FilesType, StateType
<1>5. DiskOK'
  BY <1>1, <1>3 DEF Inv, DiskOK, Restorable
<1>6. MemoryOK'
  BY <1>1, <1>2 DEF Inv, MemoryOK
<1>7. VersionOK'
  <2>1. UNION pinned' \subseteq (UNION pinned) \cup version
    BY <1>1
  <2>2. pending_outputs' \cup UNION pinned' \subseteq DOMAIN tables'
    BY <1>1, <1>2, <2>1 DEF Inv, VersionOK
  <2> QED BY <1>1, <1>2, <1>3, <2>2 DEF Inv, VersionOK, Logged
<1>8. DescriptorOK' /\ CompactionOK'
  BY <1>1, <1>2, <1>3 DEF Inv, DescriptorOK, CompactionOK
<1>9. EditOK'
  BY <1>1, <1>2, <1>3 DEF Inv, EditOK
<1>10. ApplyingOK'
  BY <1>1, <1>2, <1>3 DEF Inv, ApplyingOK, Logged, WriteSnapshot
<1> QED BY <1>1, <1>4, <1>5, <1>6, <1>7, <1>8, <1>9, <1>10, NotReplaying DEF Inv

LEMMA DeleteIteratorKeeps == ASSUME Inv, DeleteIterator PROVE Inv'
<1>1. /\ UNION pinned' \subseteq UNION pinned /\ pinned # {}
      /\ UNCHANGED <<disk, status, replay, mem, imm, numbers, version, pending_outputs,
                     compaction, edit, applying, bg_error, history>>
  BY DEF DeleteIterator
<1> USE DEF disk, replay, numbers, history
<1>2. Running
  BY <1>1 DEF Inv, Running, TypeOK, StateType, DownOK, ReplayStart
<1>3. Running' /\ Tables' = Tables
  BY <1>1, <1>2 DEF Running, Tables
<1>4. Manifest' = Manifest /\ SyncedManifest' = SyncedManifest
  BY <1>1 DEF Manifest, SyncedManifest
<1>5. TypeOK'
  BY <1>1 DEF Inv, TypeOK, FilesType, StateType
<1>6. DiskOK'
  BY <1>1, <1>4 DEF Inv, DiskOK, Restorable
<1>7. MemoryOK'
  BY <1>1, <1>2, <1>3 DEF Inv, MemoryOK
<1>8. VersionOK'
  BY <1>1, <1>2, <1>3, <1>4 DEF Inv, VersionOK, Logged
<1>9. DescriptorOK' /\ CompactionOK'
  BY <1>1, <1>2, <1>4 DEF Inv, DescriptorOK, CompactionOK
<1>10. EditOK'
  BY <1>1, <1>2, <1>4 DEF Inv, EditOK
<1>11. ApplyingOK'
  BY <1>1, <1>2, <1>4 DEF Inv, ApplyingOK, Logged, WriteSnapshot
<1>12. status' \in {"opening", "open"}
  BY <1>3 DEF Running
<1> QED BY <1>5, <1>6, <1>7, <1>8, <1>9, <1>10, <1>11, <1>12, NotReplaying DEF Inv

LEMMA AppendToLog ==
  ASSUME NEW file \in Logs, NEW seq \in Nat, NEW sync \in BOOLEAN, NEW file2,
         file2 = [records |-> Append(file.records, seq),
                  synced  |-> IF sync THEN Len(Append(file.records, seq)) ELSE file.synced]
  PROVE  /\ file2 \in Logs /\ InLog(seq, file2) /\ (sync = TRUE => SyncedInLog(seq, file2))
         /\ \A s : /\ InLog(s, file) => InLog(s, file2)
                   /\ SyncedInLog(s, file) => SyncedInLog(s, file2)
<1> DEFINE r == Append(file.records, seq)
           N == Len(file.records)
<1>1. /\ file.records \in Seq(Nat) /\ file.synced \in Nat /\ file.synced <= N /\ N \in Nat
  BY LenProperties DEF Logs
<1>2. /\ r \in Seq(Nat) /\ Len(r) = N + 1 /\ r[N + 1] = seq
      /\ \A i \in 1..N : r[i] = file.records[i]
  BY <1>1, AppendProperties
<1>3. file2.records = r /\ file2.synced = IF sync THEN Len(r) ELSE file.synced
  OBVIOUS
<1> HIDE DEF r
<1>4. file2.synced \in Nat /\ file2.synced <= N + 1
  <2>1. CASE sync = TRUE
    BY <1>1, <1>2, <1>3, <2>1
  <2>2. CASE sync = FALSE
    BY <1>1, <1>3, <2>2
  <2> QED BY <2>1, <2>2
<1>5. file2 \in [records : Seq(Nat), synced : Nat]
  <2>1. file2 = [records |-> r, synced |-> file2.synced]
    BY DEF r
  <2> QED BY <1>2, <1>4, <2>1
<1>6. file2 \in Logs
  BY <1>2, <1>3, <1>4, <1>5 DEF Logs
<1>7. InLog(seq, file2)
  BY <1>1, <1>2, <1>3 DEF InLog
<1>8. sync = TRUE => SyncedInLog(seq, file2)
  BY <1>1, <1>2, <1>3 DEF SyncedInLog
<1>9. \A s : InLog(s, file) => InLog(s, file2)
  BY <1>1, <1>2, <1>3 DEF InLog
<1>10. ASSUME NEW s, SyncedInLog(s, file) PROVE SyncedInLog(s, file2)
  <2>1. PICK i \in 1..file.synced : file.records[i] = s
    BY <1>10 DEF SyncedInLog
  <2>5. i \in 1..N
    BY <1>1
  <2>2. r[i] = s
    BY <1>2, <2>1, <2>5
  <2>3. CASE sync = TRUE
    <3>1. file2.synced = N + 1 /\ file2.records = r
      BY <1>2, <1>3, <2>3
    <3>2. i \in 1..file2.synced
      BY <1>1, <2>5, <3>1
    <3> QED BY <2>2, <3>1, <3>2 DEF SyncedInLog
  <2>4. CASE sync = FALSE
    BY <1>3, <2>1, <2>2, <2>4 DEF SyncedInLog
  <2> QED BY <2>3, <2>4
<1> QED BY <1>6, <1>7, <1>8, <1>9, <1>10

LEMMA WriteKeeps == ASSUME Inv, NEW sync \in BOOLEAN, Write(sync) PROVE Inv'
<1> DEFINE seq == last_sequence_ + 1
           l   == logfile_number_
<1>1. /\ status = "open" /\ ~bg_error
      /\ logs' = [logs EXCEPT ![l] = [records |-> Append(logs[l].records, seq),
                                      synced  |-> IF sync THEN Len(Append(logs[l].records, seq))
                                                  ELSE logs[l].synced]]
      /\ mem' = mem \cup {seq} /\ last_sequence_' = seq /\ acked' = acked \cup {seq}
      /\ durable' = IF sync THEN durable \cup {seq} ELSE durable
  BY DEF Write, Open
<1>2. UNCHANGED <<CURRENT, manifests, tables, status, todo, pos, save_manifest, compactions,
                  max_sequence, imm, next_file_number_, log_number_, logfile_number_,
                  manifest_file_number_, descriptor, version, pinned, pending_outputs,
                  compaction, edit, applying, bg_error>>
  BY DEF Write, replay, live
<1>3. Running /\ Running' /\ Tables' = Tables /\ Tables = version
  BY <1>1, <1>2 DEF Running, Tables
<1>4. /\ TypeOK /\ FilesType /\ StateType /\ DiskOK /\ CURRENT # 0 /\ CURRENT \in DOMAIN manifests
      /\ l \in DOMAIN logs /\ l \in Nat \ {0} /\ logs[l] \in Logs /\ last_sequence_ \in Nat
      /\ DOMAIN logs \subseteq Nat /\ version \subseteq DOMAIN tables
      /\ TablesOf(Manifest) \subseteq DOMAIN tables /\ LastEdit(Manifest).log \in Nat
      /\ LastEdit(Manifest).seq \in Nat /\ log_number_ \in Nat /\ mem \subseteq Nat
      /\ \A n \in DOMAIN tables : tables[n] \subseteq Nat
      /\ imm \subseteq Nat /\ acked \subseteq Nat /\ durable \subseteq acked
  BY <1>3, WhileRunning
<1>5. /\ DOMAIN logs' = DOMAIN logs /\ logs'[l] \in Logs /\ LogsGrow(logs, logs')
      /\ InLog(seq, logs'[l]) /\ (sync = TRUE => SyncedInLog(seq, logs'[l]))
      /\ \A n \in DOMAIN logs : logs'[n] \in Logs
  <2>1. logs'[l] = [records |-> Append(logs[l].records, seq),
                    synced  |-> IF sync THEN Len(Append(logs[l].records, seq))
                                ELSE logs[l].synced]
    BY <1>1, <1>4
  <2>2. /\ DOMAIN logs' = DOMAIN logs
        /\ \A n \in DOMAIN logs : n # l => logs'[n] = logs[n]
    BY <1>1
  <2>3. seq \in Nat
    BY <1>4
  <2> HIDE DEF seq, l
  <2>4. /\ logs'[l] \in Logs /\ InLog(seq, logs'[l]) /\ (sync = TRUE => SyncedInLog(seq, logs'[l]))
        /\ \A s : /\ InLog(s, logs[l]) => InLog(s, logs'[l])
                  /\ SyncedInLog(s, logs[l]) => SyncedInLog(s, logs'[l])
    BY <1>4, <2>1, <2>3, AppendToLog
  <2>5. LogsGrow(logs, logs')
    BY <2>2, <2>4 DEF LogsGrow
  <2>6. \A n \in DOMAIN logs : logs'[n] \in Logs
    BY <1>4, <2>2, <2>4 DEF FilesType
  <2> QED BY <2>2, <2>4, <2>5, <2>6
<1>6. seq \in Nat /\ last_sequence_ <= seq /\ seq <= seq
  BY <1>4
<1> HIDE DEF seq, l
<1>7. (\A s \in durable' : s \in durable \/ (s = seq /\ sync = TRUE))
      /\ durable' \subseteq acked' /\ acked' \subseteq Nat
  <2>1. CASE sync = TRUE
    BY <1>1, <1>4, <1>6, <2>1
  <2>2. CASE sync = FALSE
    BY <1>1, <1>4, <1>6, <2>2
  <2> QED BY <2>1, <2>2
<1>8. TypeOK'
  <2>1. FilesType'
    BY <1>2, <1>4, <1>5 DEF FilesType
  <2>2. mem' \subseteq Nat /\ last_sequence_' \in Nat
    BY <1>1, <1>4, <1>6
  <2>3. StateType'
    BY <1>1, <1>2, <1>4, <1>7, <2>2 DEF StateType
  <2> QED BY <2>1, <2>3 DEF TypeOK
<1>9. DiskOK' /\ Manifest' = Manifest /\ SyncedManifest' = SyncedManifest
  <2>1. SameManifest /\ status' # "created"
    BY <1>1, <1>2, <1>4 DEF SameManifest
  <2>2. TablesStay(TablesOf(Manifest)) /\ (Syncs => TablesStay(TablesOf(SyncedManifest)))
    BY <1>2, <1>4, SyncedManifestSays DEF TablesStay
  <2>3. l >= LastEdit(Manifest).log
    BY <1>3, <1>4 DEF Inv, VersionOK, l
  <2>4. \A s \in acked' : s \in acked \/ InLogs(s, LastEdit(Manifest).log, logs')
    BY <1>1, <1>4, <1>5, <2>3 DEF InLogs
  <2>5. \A s \in durable' : s \in durable \/ SyncedInLogs(s, LastEdit(Manifest).log, logs')
    BY <1>4, <1>5, <1>7, <2>3 DEF SyncedInLogs
  <2> QED BY <1>4, <1>5, <2>1, <2>2, <2>4, <2>5, DiskKept
<1>10. MemoryOK'
  <2>1. Inv /\ MemoryOK
    BY DEF Inv
  <2>2. log_number_ <= l /\ l = logfile_number_
    BY <1>3, <2>1 DEF MemoryOK, l
  <2>3. Holds(version, log_number_, tables, logs', acked', durable')
    <3>1. Holds(version, log_number_, tables, logs, acked, durable)
      BY <1>3, <2>1 DEF MemoryOK
    <3>2. \A s \in acked' : s \in acked \/ InLogs(s, log_number_, logs')
      BY <1>1, <1>4, <1>5, <2>2 DEF InLogs
    <3>3. \A s \in durable' : s \in durable \/ SyncedInLogs(s, log_number_, logs')
      BY <1>4, <1>5, <1>7, <2>2 DEF SyncedInLogs
    <3>4. \A n \in version : tables[n] \subseteq tables[n]
      OBVIOUS
    <3> QED BY <1>5, <3>1, <3>2, <3>3, <3>4, HoldsKept
  <2>4. \A s \in mem' : InLog(s, logs'[l])
    BY <1>1, <1>3, <1>4, <1>5, <2>1, <2>2 DEF MemoryOK, LogsGrow
  <2>5. \A s \in acked' : s \in mem' \/ s \in imm \/ InTables(s, version, tables)
    BY <1>1, <1>3, <2>1 DEF MemoryOK
  <2>6. \A s \in durable' : SyncedInLog(s, logs'[l]) \/ s \in imm \/ InTables(s, version, tables)
    BY <1>3, <1>4, <1>5, <1>7, <2>1, <2>2 DEF MemoryOK, LogsGrow
  <2>7. \A s \in mem' \cup imm : s <= last_sequence_'
    <3>1. \A s \in mem \cup imm : s <= last_sequence_ /\ s \in Nat
      BY <1>3, <1>4, <2>1 DEF MemoryOK
    <3> QED BY <1>1, <1>4, <1>6, <3>1
  <2>8. \A n \in version : \A s \in tables[n] : s <= last_sequence_'
    <3>1. \A n \in version : \A s \in tables[n] : s <= last_sequence_ /\ s \in Nat
      BY <1>3, <1>4, <2>1 DEF MemoryOK
    <3> QED BY <1>1, <1>4, <1>6, <3>1
  <2>9. \A n \in DOMAIN logs : n < next_file_number_
    BY <1>3, <2>1 DEF MemoryOK
  <2> QED BY <1>2, <1>3, <1>4, <1>5, <2>2, <2>3, <2>4, <2>5, <2>6, <2>7, <2>8, <2>9 DEF MemoryOK
<1>11. VersionOK'
  <2>1. LastEdit(Manifest).seq <= last_sequence_'
    <3>1. LastEdit(Manifest).seq <= last_sequence_
      BY <1>3 DEF Inv, VersionOK
    <3> QED BY <1>1, <1>4, <1>6, <3>1
  <2> QED BY <1>2, <1>3, <1>9, <2>1 DEF Inv, VersionOK, Logged
<1>12. DescriptorOK' /\ CompactionOK'
  BY <1>2, <1>3, <1>9 DEF Inv, DescriptorOK, CompactionOK
<1>13. EditOK'
  <2>1. applying # "no" => edit.seq <= last_sequence_'
    <3> HAVE applying # "no"
    <3>1. edit.seq <= last_sequence_ /\ edit.seq \in Nat
      BY <1>3 DEF Inv, EditOK, Complete
    <3> QED BY <1>1, <1>4, <1>6, <3>1
  <2> QED BY <1>2, <1>3, <1>9, <2>1 DEF Inv, EditOK
<1>14. ApplyingOK'
  BY <1>2, <1>3, <1>9 DEF Inv, ApplyingOK, Logged, WriteSnapshot
<1> QED BY <1>1, <1>2, <1>8, <1>9, <1>10, <1>11, <1>12, <1>13, <1>14, NotReplaying DEF Inv

LEMMA SwitchMemTableKeeps == ASSUME Inv, SwitchMemTable PROVE Inv'
<1> DEFINE n == next_file_number_
<1>1. /\ status = "open" /\ ~bg_error /\ mem # {} /\ imm = {} /\ imm' = mem /\ mem' = {}
      /\ logs' = Put(logs, n, NoRecords) /\ logfile_number_' = n /\ next_file_number_' = n + 1
      /\ UNCHANGED <<CURRENT, manifests, tables, status, todo, pos, save_manifest, compactions,
                     max_sequence, last_sequence_, log_number_, manifest_file_number_,
                     descriptor, version, pinned, pending_outputs, compaction, edit, applying,
                     bg_error, acked, durable>>
  BY DEF SwitchMemTable, Open, replay, live, history, NoRecords
<1>2. Running /\ Running' /\ Tables' = Tables /\ Tables = version
  BY <1>1 DEF Running, Tables
<1>3. /\ TypeOK /\ FilesType /\ StateType /\ DiskOK /\ CURRENT # 0 /\ CURRENT \in DOMAIN manifests
      /\ n \in Nat \ {0} /\ DOMAIN logs \subseteq Nat \ {0} /\ version \subseteq DOMAIN tables
      /\ TablesOf(Manifest) \subseteq DOMAIN tables /\ mem \subseteq Nat /\ log_number_ \in Nat
      /\ LastEdit(Manifest).log \in Nat /\ LastEdit(Manifest).next \in Nat
      /\ logfile_number_ \in Nat /\ manifest_file_number_ \in Nat /\ version \subseteq Nat
      /\ logfile_number_ \in DOMAIN logs /\ durable \subseteq acked
  BY <1>2, WhileRunning
<1>4. (\A m \in DOMAIN logs : m < n) /\ log_number_ <= logfile_number_
  BY <1>2 DEF Inv, MemoryOK
<1>5. n \notin DOMAIN logs /\ logfile_number_ < n /\ log_number_ <= n
  BY <1>3, <1>4
<1>6. /\ LogsGrow(logs, logs') /\ DOMAIN logs' = DOMAIN logs \cup {n}
      /\ IsFiniteSet(DOMAIN logs') /\ \A m \in DOMAIN logs' : logs'[m] \in Logs
  BY <1>1, <1>3, <1>5, NewLog
<1>7. TypeOK'
  <2>1. FilesType'
    BY <1>1, <1>3, <1>6 DEF FilesType
  <2>2. StateType'
    BY <1>1, <1>3 DEF StateType
  <2> QED BY <2>1, <2>2 DEF TypeOK
<1>8. DiskOK' /\ Manifest' = Manifest /\ SyncedManifest' = SyncedManifest
  <2>1. SameManifest /\ status' # "created" /\ DOMAIN logs' \subseteq Nat
    BY <1>1, <1>3, <1>6 DEF SameManifest
  <2>2. TablesStay(TablesOf(Manifest)) /\ (Syncs => TablesStay(TablesOf(SyncedManifest)))
    BY <1>1, <1>3, SyncedManifestSays DEF TablesStay
  <2> QED BY <1>1, <1>3, <1>6, <2>1, <2>2, DiskKept
<1>9. MemoryOK'
  <2>1. Holds(version, log_number_, tables, logs', acked, durable)
    <3>1. Holds(version, log_number_, tables, logs, acked, durable)
      BY <1>2 DEF Inv, MemoryOK
    <3>2. \A m \in version : tables[m] \subseteq tables[m]
      OBVIOUS
    <3> QED BY <1>6, <3>1, <3>2, HoldsKept
  <2>2. \A s \in acked : s \in mem \/ InTables(s, version, tables)
    BY <1>1, <1>2 DEF Inv, MemoryOK
  <2>3. \A s \in durable : s \in mem \/ InTables(s, version, tables)
    BY <1>3, <2>2
  <2>4. \A m \in DOMAIN logs' : m < n + 1
    BY <1>3, <1>4, <1>6
  <2>5. /\ \A s \in mem : s <= last_sequence_
        /\ \A m \in version : \A s \in tables[m] : s <= last_sequence_
    BY <1>2 DEF Inv, MemoryOK
  <2> QED BY <1>1, <1>2, <1>5, <1>6, <2>1, <2>2, <2>3, <2>4, <2>5 DEF MemoryOK
<1>10. VersionOK'
  <2>1. /\ manifest_file_number_ < n + 1 /\ LastEdit(Manifest).next <= n + 1
        /\ LastEdit(Manifest).log <= n
    <3>1. /\ manifest_file_number_ < n /\ LastEdit(Manifest).next <= n
          /\ LastEdit(Manifest).log <= logfile_number_
      BY <1>2 DEF Inv, VersionOK
    <3> QED BY <1>3, <1>5, <3>1
  <2>2. \A m \in version : m < n + 1
    <3>1. \A m \in version : m < n /\ m \in Nat
      BY <1>2, <1>3 DEF Inv, VersionOK
    <3> QED BY <1>3, <3>1
  <2> QED BY <1>1, <1>2, <1>8, <2>1, <2>2 DEF Inv, VersionOK, Logged
<1>11. DescriptorOK'
  BY <1>1, <1>2, <1>8 DEF Inv, DescriptorOK
<1>12. CompactionOK'
  <2>1. \A c \in compaction : c.output < n + 1
    <3>1. \A c \in compaction : c.output < n /\ c.output \in DOMAIN tables
      BY <1>2 DEF Inv, CompactionOK, VersionOK
    <3>2. DOMAIN tables \subseteq Nat
      BY <1>3 DEF FilesType
    <3> QED BY <1>3, <3>1, <3>2
  <2> QED BY <1>1, <1>2, <1>8, <2>1 DEF Inv, CompactionOK
<1>13. EditOK'
  <2>1. CASE applying = "no"
    BY <1>1, <1>2, <2>1 DEF Inv, EditOK
  <2>2. CASE applying # "no"
    <3>1. edit.del # {} /\ edit \in Complete
      BY <1>1, <1>2, <2>2 DEF Inv, EditOK
    <3>2. edit.log <= n /\ edit.next <= n + 1
      <4>1. edit.log <= logfile_number_ /\ edit.next <= n /\ edit.log \in Nat /\ edit.next \in Nat
        BY <1>2, <2>2, <3>1 DEF Inv, EditOK, Complete
      <4> QED BY <1>3, <1>5, <4>1
    <3> QED BY <1>1, <1>2, <1>8, <2>2, <3>1, <3>2 DEF Inv, EditOK
  <2> QED BY <2>1, <2>2
<1>14. ApplyingOK'
  BY <1>1, <1>2, <1>8 DEF Inv, ApplyingOK, Logged, WriteSnapshot
<1> QED BY <1>1, <1>7, <1>8, <1>9, <1>10, <1>11, <1>12, <1>13, <1>14, NotReplaying DEF Inv

(* Tables change that neither the manifest nor the version names.          *)
LEMMA OtherTables ==
  ASSUME Inv, status = "open", status' = "open",
         UNCHANGED <<CURRENT, manifests, logs, mem, imm, last_sequence_, log_number_,
                     logfile_number_, version, acked, durable>>,
         next_file_number_' \in Nat, next_file_number_ <= next_file_number_',
         DOMAIN tables \subseteq DOMAIN tables', DOMAIN tables' \subseteq Nat,
         \A m \in DOMAIN tables' : tables'[m] \subseteq Nat,
         TablesStay(TablesOf(Manifest)), TablesStay(version),
         Syncs => TablesStay(TablesOf(SyncedManifest))
  PROVE  /\ FilesType' /\ DiskOK' /\ Manifest' = Manifest /\ SyncedManifest' = SyncedManifest
         /\ MemoryOK'
<1>1. Running /\ Running' /\ Tables' = version /\ Tables = version
  BY DEF Running, Tables
<1>2. /\ TypeOK /\ FilesType /\ DiskOK /\ CURRENT # 0 /\ CURRENT \in DOMAIN manifests
      /\ DOMAIN logs \subseteq Nat \ {0} /\ next_file_number_ \in Nat
  BY <1>1, WhileRunning
<1>3. FilesType'
  BY <1>2 DEF FilesType
<1>4. DiskOK' /\ Manifest' = Manifest /\ SyncedManifest' = SyncedManifest
  <2>1. SameManifest /\ LogsGrow(logs, logs') /\ DOMAIN logs' \subseteq Nat
    BY <1>2, SameLogsGrow DEF SameManifest
  <2> QED BY <1>2, <2>1, DiskKept
<1>5. MemoryOK'
  <2>1. MemoryOK
    BY DEF Inv
  <2>2. \A s : InTables(s, version, tables) => InTables(s, version, tables')
    BY DEF InTables, TablesStay
  <2>3. Holds(version, log_number_, tables', logs, acked, durable)
    BY <1>1, <2>1, <2>2 DEF MemoryOK, Holds
  <2>4. \A m \in DOMAIN logs : m < next_file_number_'
    <3>1. \A m \in DOMAIN logs : m < next_file_number_ /\ m \in Nat
      BY <1>1, <1>2, <2>1 DEF MemoryOK
    <3> QED BY <1>2, <3>1
  <2>5. \A m \in version : \A s \in tables'[m] : s <= last_sequence_
    BY <1>1, <2>1 DEF MemoryOK, TablesStay
  <2> QED BY <1>1, <2>1, <2>2, <2>3, <2>4, <2>5 DEF MemoryOK
<1> QED BY <1>3, <1>4, <1>5

LEMMA NoEditIs == NoEdit.add = {} /\ NoEdit.del = {}
BY DEF NoEdit

LEMMA WriteLevel0TableKeeps == ASSUME Inv, WriteLevel0Table PROVE Inv'
<1> DEFINE n == next_file_number_
<1>1. /\ status = "open" /\ status' = "open" /\ applying = "no" /\ imm # {}
      /\ tables' = Put(tables, n, imm) /\ next_file_number_' = n + 1
      /\ edit' = Completed([NoEdit EXCEPT !.add = {n}, !.log = logfile_number_], n + 1)
      /\ applying' = "record"
      /\ UNCHANGED <<CURRENT, manifests, logs, status, todo, pos, save_manifest, compactions,
                     max_sequence, mem, imm, last_sequence_, log_number_, logfile_number_,
                     manifest_file_number_, descriptor, version, pinned, pending_outputs,
                     compaction, bg_error, acked, durable>>
  BY DEF WriteLevel0Table, Open, replay, live, history
<1>2. Running /\ Running' /\ Tables' = version /\ Tables = version
  BY <1>1 DEF Running, Tables
<1>3. /\ TypeOK /\ FilesType /\ StateType /\ DiskOK /\ CURRENT # 0
      /\ n \in Nat \ {0} /\ imm \subseteq Nat /\ version \subseteq DOMAIN tables
      /\ TablesOf(Manifest) \subseteq DOMAIN tables /\ logfile_number_ \in Nat \ {0}
      /\ logfile_number_ \in DOMAIN logs /\ last_sequence_ \in Nat /\ log_number_ \in Nat
      /\ n \notin TablesOf(Manifest) \cup version
      /\ Syncs => n \notin TablesOf(SyncedManifest)
      /\ LastEdit(Manifest).next \in Nat /\ LastEdit(Manifest).log \in Nat
      /\ manifest_file_number_ \in Nat /\ version \subseteq Nat /\ DOMAIN tables \subseteq Nat
  BY <1>2, WhileRunning
<1>4. /\ DOMAIN tables' = DOMAIN tables \cup {n} /\ DOMAIN tables' \subseteq Nat
      /\ \A m \in DOMAIN tables' : tables'[m] \subseteq Nat
      /\ tables'[n] = imm /\ \A m \in DOMAIN tables : m # n => tables'[m] = tables[m]
  BY <1>1, <1>3, PutTable
<1>5. /\ TablesStay(TablesOf(Manifest)) /\ TablesStay(version)
      /\ Syncs => TablesStay(TablesOf(SyncedManifest))
  BY <1>3, <1>4, SyncedManifestSays DEF TablesStay
<1>6. /\ FilesType' /\ DiskOK' /\ Manifest' = Manifest /\ SyncedManifest' = SyncedManifest
      /\ MemoryOK'
  <2>1. next_file_number_' \in Nat /\ n <= next_file_number_'
    BY <1>1, <1>3
  <2> QED BY <1>1, <1>4, <1>5, <2>1, OtherTables
<1>7. /\ edit' \in Complete /\ edit'.add = {n} /\ edit'.del = {} /\ edit'.log = logfile_number_
      /\ edit'.next = n + 1 /\ edit'.seq = last_sequence_
  <2>1. logfile_number_ # Absent
    BY <1>3 DEF Absent
  <2>2. edit' = [add |-> {n}, del |-> {}, log |-> logfile_number_, next |-> n + 1,
                 seq |-> last_sequence_]
    BY <1>1, <2>1 DEF Completed, NoEdit
  <2>3. {n} \in SUBSET Nat /\ {} \in SUBSET Nat /\ n + 1 \in Nat
    BY <1>3
  <2>4. edit' \in Complete
    BY <1>3, <2>2, <2>3 DEF Complete
  <2> QED BY <2>2, <2>4
<1>8. TypeOK'
  <2>1. edit' \in Edits
    BY <1>7, EditsType
  <2>2. next_file_number_' \in Nat \ {0}
    BY <1>1, <1>3
  <2>3. applying' \in {"no", "record", "sync", "current", "install"}
    BY <1>1
  <2>4. StateType'
    BY <1>1, <1>3, <2>1, <2>2, <2>3 DEF StateType
  <2> QED BY <1>6, <2>4 DEF TypeOK
<1>9. VersionOK /\ MemoryOK /\ CompactionOK /\ EditOK /\ DescriptorOK /\ edit = NoEdit
  BY <1>1, <1>2 DEF Inv, EditOK
<1>10. /\ manifest_file_number_ < n /\ LastEdit(Manifest).next <= n
       /\ (\A m \in version : m < n) /\ logfile_number_ < n
       /\ LastEdit(Manifest).seq <= last_sequence_
       /\ LastEdit(Manifest).log <= logfile_number_ /\ log_number_ <= logfile_number_
       /\ pending_outputs \cup UNION pinned \subseteq DOMAIN tables
  BY <1>2, <1>3, <1>9 DEF VersionOK, MemoryOK
<1>11. VersionOK'
  <2>1. manifest_file_number_ < n + 1 /\ LastEdit(Manifest).next <= n + 1 /\ \A m \in version : m < n + 1
    BY <1>3, <1>10
  <2>2. \A m \in version : \A s \in tables'[m] : InTables(s, TablesOf(Manifest), tables')
    <3>1. \A m \in version : \A s \in tables[m] : InTables(s, TablesOf(Manifest), tables)
      BY <1>2, <1>9 DEF VersionOK
    <3> QED BY <1>5, <3>1 DEF TablesStay, InTables
  <2>3. ~Logged /\ ~Logged'
    BY <1>1 DEF Logged
  <2> QED BY <1>1, <1>2, <1>3, <1>4, <1>6, <1>9, <1>10, <2>1, <2>2, <2>3 DEF VersionOK
<1>12. DescriptorOK'
  BY <1>1, <1>2, <1>6, <1>9 DEF DescriptorOK
<1>13. CompactionOK'
  <2>1. ASSUME NEW c \in compaction
        PROVE  c.output < n + 1 /\ c.output \notin TablesOf(Manifest) \cup version \cup {n}
    <3>1. c.output < n /\ c.output \in Nat /\ c.output \notin TablesOf(Manifest) \cup version
      BY <1>2, <1>3, <1>9, <1>10, NoEditIs DEF CompactionOK
    <3> QED BY <1>3, <3>1
  <2> QED BY <1>1, <1>2, <1>6, <1>7, <1>9, <2>1, NoEditIs DEF CompactionOK
<1>14. EditOK'
  <2>1. /\ logfile_number_ < n + 1 /\ n + 1 <= n + 1 /\ last_sequence_ <= last_sequence_
        /\ LastEdit(Manifest).next <= n + 1 /\ manifest_file_number_ < n + 1
        /\ logfile_number_ <= logfile_number_
    BY <1>3, <1>10
  <2>2. \A m \in {n} \cup version : m < n + 1 /\ \A s \in tables'[m] : s <= last_sequence_
    <3>1. \A s \in imm : s <= last_sequence_
      BY <1>2, <1>9 DEF MemoryOK
    <3>2. \A m \in version : m < n + 1 /\ \A s \in tables'[m] : s <= last_sequence_
      BY <1>2, <1>3, <1>5, <1>9, <1>10 DEF MemoryOK, TablesStay
    <3> QED BY <1>3, <1>4, <3>1, <3>2
  <2>3. \A s \in imm : InTables(s, {n}, tables')
    BY <1>4 DEF InTables
  <2> QED BY <1>1, <1>2, <1>4, <1>6, <1>7, <1>10, <2>1, <2>2, <2>3 DEF EditOK
<1>15. ApplyingOK'
  BY <1>1 DEF ApplyingOK, Logged
<1> QED BY <1>1, <1>6, <1>8, <1>11, <1>12, <1>13, <1>14, <1>15, NotReplaying DEF Inv

LEMMA OpenCompactionOutputKeeps == ASSUME Inv, OpenCompactionOutput PROVE Inv'
<1> DEFINE n == next_file_number_
<1>1. /\ status = "open" /\ status' = "open" /\ applying = "no" /\ ~bg_error /\ imm = {}
      /\ compaction = {}
      /\ tables' = Put(tables, n, {}) /\ next_file_number_' = n + 1
      /\ pending_outputs' = pending_outputs \cup {n}
      /\ UNCHANGED <<CURRENT, manifests, logs, status, todo, pos, save_manifest, compactions,
                     max_sequence, mem, imm, last_sequence_, log_number_, logfile_number_,
                     manifest_file_number_, descriptor, version, pinned, edit, applying,
                     bg_error, acked, durable>>
  BY DEF OpenCompactionOutput, Open, replay, history
<1>2. PICK inputs \in (SUBSET version) \ {{}} :
        compaction' = {[inputs |-> inputs, output |-> n]}
  BY DEF OpenCompactionOutput
<1>3. Running /\ Running' /\ Tables' = version /\ Tables = version
  BY <1>1 DEF Running, Tables
<1>4. /\ TypeOK /\ FilesType /\ StateType /\ DiskOK /\ CURRENT # 0
      /\ n \in Nat \ {0} /\ version \subseteq DOMAIN tables
      /\ TablesOf(Manifest) \subseteq DOMAIN tables /\ logfile_number_ \in Nat \ {0}
      /\ n \notin TablesOf(Manifest) \cup version
      /\ Syncs => n \notin TablesOf(SyncedManifest)
      /\ LastEdit(Manifest).next \in Nat
      /\ manifest_file_number_ \in Nat /\ version \subseteq Nat /\ DOMAIN tables \subseteq Nat
  BY <1>3, WhileRunning
<1>5. /\ DOMAIN tables' = DOMAIN tables \cup {n} /\ DOMAIN tables' \subseteq Nat
      /\ \A m \in DOMAIN tables' : tables'[m] \subseteq Nat
      /\ \A m \in DOMAIN tables : m # n => tables'[m] = tables[m]
  <2>1. {} \in SUBSET Nat /\ n \in Nat
    BY <1>4
  <2>2. tables' = Put(tables, n, {})
    BY <1>1
  <2> QED BY <1>4, <2>1, <2>2, PutTable
<1>6. /\ TablesStay(TablesOf(Manifest)) /\ TablesStay(version)
      /\ Syncs => TablesStay(TablesOf(SyncedManifest))
  BY <1>4, <1>5, SyncedManifestSays DEF TablesStay
<1>7. next_file_number_' \in Nat \ {0} /\ n <= next_file_number_'
  BY <1>1, <1>4
<1>8. /\ FilesType' /\ DiskOK' /\ Manifest' = Manifest /\ SyncedManifest' = SyncedManifest
      /\ MemoryOK'
  BY <1>1, <1>5, <1>6, <1>7, OtherTables
<1>9. TypeOK'
  <2>1. StateType'
    BY <1>1, <1>4, <1>7 DEF StateType
  <2> QED BY <1>8, <2>1 DEF TypeOK
<1>10. VersionOK /\ EditOK /\ DescriptorOK /\ edit = NoEdit
  BY <1>1, <1>3 DEF Inv, EditOK
<1>11. VersionOK'
  <2>1. /\ manifest_file_number_ < n /\ LastEdit(Manifest).next <= n
        /\ (\A m \in version : m < n)
        /\ pending_outputs \cup UNION pinned \subseteq DOMAIN tables
    BY <1>3, <1>10 DEF VersionOK
  <2>2. manifest_file_number_ < n + 1 /\ LastEdit(Manifest).next <= n + 1 /\ \A m \in version : m < n + 1
    BY <1>4, <2>1
  <2>3. \A m \in version : \A s \in tables'[m] : InTables(s, TablesOf(Manifest), tables')
    <3>1. \A m \in version : \A s \in tables[m] : InTables(s, TablesOf(Manifest), tables)
      BY <1>3, <1>10 DEF VersionOK
    <3> QED BY <1>6, <3>1 DEF TablesStay, InTables
  <2>4. ~Logged /\ ~Logged'
    BY <1>1 DEF Logged
  <2>5. pending_outputs' \cup UNION pinned \subseteq DOMAIN tables'
    BY <1>1, <1>5, <2>1
  <2> QED BY <1>1, <1>3, <1>4, <1>5, <1>8, <1>10, <2>1, <2>2, <2>3, <2>4, <2>5 DEF VersionOK
<1>12. DescriptorOK'
  BY <1>1, <1>3, <1>8, <1>10 DEF DescriptorOK
<1>13. CompactionOK'
  <2>1. ASSUME NEW c \in compaction'
        PROVE  /\ c.inputs \subseteq version /\ c.inputs # {} /\ compaction' = {c}
               /\ c.output \in pending_outputs' /\ c.output < n + 1
               /\ c.output \notin TablesOf(Manifest) \cup version \cup edit.add
               /\ Syncs => c.output \notin TablesOf(SyncedManifest)
    <3>1. c = [inputs |-> inputs, output |-> n]
      BY <1>2
    <3>2. c.inputs = inputs /\ c.output = n
      BY <3>1
    <3>3. compaction' = {c}
      BY <1>2, <3>1
    <3>4. n < n + 1 /\ n \in pending_outputs'
      BY <1>1, <1>4
    <3>5. n \notin TablesOf(Manifest) \cup version \cup edit.add
      BY <1>4, <1>10, NoEditIs
    <3>6. inputs \subseteq version /\ inputs # {}
      BY <1>2
    <3> HIDE DEF n
    <3> QED BY <1>4, <3>2, <3>3, <3>4, <3>5, <3>6
  <2> QED BY <1>1, <1>3, <1>8, <2>1 DEF CompactionOK
<1>14. EditOK'
  BY <1>1, <1>3, <1>10 DEF EditOK
<1>15. ApplyingOK'
  BY <1>1 DEF ApplyingOK, Logged
<1> QED BY <1>1, <1>8, <1>9, <1>11, <1>12, <1>13, <1>14, <1>15, NotReplaying DEF Inv

LEMMA FinishCompactionOutputKeeps == ASSUME Inv, FinishCompactionOutput PROVE Inv'
<1>1. /\ status = "open" /\ status' = "open" /\ applying = "no" /\ applying' = "record"
      /\ UNCHANGED <<CURRENT, manifests, logs, status, todo, pos, save_manifest, compactions,
                     max_sequence, mem, imm, last_sequence_, next_file_number_, log_number_,
                     logfile_number_, manifest_file_number_, descriptor, version, pinned,
                     pending_outputs, compaction, bg_error, acked, durable>>
  BY DEF FinishCompactionOutput, Open, replay, numbers, live, history
<1>2. PICK c \in compaction :
        /\ tables' = [m \in DOMAIN tables |->
                        IF m = c.output THEN UNION {tables[i] : i \in c.inputs} ELSE tables[m]]
        /\ edit' = Completed([NoEdit EXCEPT !.add = {c.output}, !.del = c.inputs],
                             next_file_number_)
  BY DEF FinishCompactionOutput
<1>3. Running /\ Running' /\ Tables' = version /\ Tables = version
  BY <1>1 DEF Running, Tables
<1>4. /\ TypeOK /\ FilesType /\ StateType /\ DiskOK /\ CURRENT # 0
      /\ next_file_number_ \in Nat /\ version \subseteq DOMAIN tables
      /\ TablesOf(Manifest) \subseteq DOMAIN tables /\ logfile_number_ \in Nat \ {0}
      /\ logfile_number_ \in DOMAIN logs /\ log_number_ \in Nat /\ last_sequence_ \in Nat
      /\ version \subseteq Nat /\ DOMAIN tables \subseteq Nat
      /\ \A m \in DOMAIN tables : tables[m] \subseteq Nat
  BY <1>3, WhileRunning
<1>5. MemoryOK /\ VersionOK /\ CompactionOK /\ EditOK /\ DescriptorOK /\ edit = NoEdit
  BY <1>1, <1>3 DEF Inv, EditOK
<1>6. /\ c.inputs \subseteq version /\ c.inputs # {} /\ c.output \in pending_outputs
      /\ c.output < next_file_number_ /\ compaction = {c}
      /\ c.output \notin TablesOf(Manifest) \cup version
      /\ Syncs => c.output \notin TablesOf(SyncedManifest)
  BY <1>3, <1>5, NoEditIs DEF CompactionOK
<1>7. c.output \in DOMAIN tables
  BY <1>3, <1>5, <1>6 DEF VersionOK
<1>8. /\ DOMAIN tables' = DOMAIN tables
      /\ tables'[c.output] = UNION {tables[i] : i \in c.inputs}
      /\ \A m \in DOMAIN tables : m # c.output => tables'[m] = tables[m]
  BY <1>2, <1>7
<1>9. \A m \in DOMAIN tables' : tables'[m] \subseteq Nat
  <2>1. tables'[c.output] \subseteq Nat
    BY <1>4, <1>6, <1>8
  <2> QED BY <1>4, <1>8, <2>1
<1>10. /\ TablesStay(TablesOf(Manifest)) /\ TablesStay(version)
       /\ Syncs => TablesStay(TablesOf(SyncedManifest))
  BY <1>4, <1>6, <1>8, SyncedManifestSays DEF TablesStay
<1>11. /\ FilesType' /\ DiskOK' /\ Manifest' = Manifest /\ SyncedManifest' = SyncedManifest
       /\ MemoryOK'
  <2>1. next_file_number_' \in Nat /\ next_file_number_ <= next_file_number_'
    BY <1>1, <1>4
  <2> QED BY <1>1, <1>4, <1>8, <1>9, <1>10, <2>1, OtherTables
<1>12. /\ edit' \in Complete /\ edit'.add = {c.output} /\ edit'.del = c.inputs
       /\ edit'.log = log_number_ /\ edit'.next = next_file_number_
       /\ edit'.seq = last_sequence_
  <2>1. edit' = [add |-> {c.output}, del |-> c.inputs, log |-> log_number_,
                 next |-> next_file_number_, seq |-> last_sequence_]
    BY <1>2 DEF Completed, NoEdit
  <2>2. {c.output} \in SUBSET Nat /\ c.inputs \in SUBSET Nat
    BY <1>4, <1>6, <1>7
  <2>3. edit' \in Complete
    BY <1>4, <2>1, <2>2 DEF Complete
  <2> QED BY <2>1, <2>3
<1>13. TypeOK'
  <2>1. edit' \in Edits
    BY <1>12, EditsType
  <2>2. applying' \in {"no", "record", "sync", "current", "install"}
    BY <1>1
  <2>3. StateType'
    BY <1>1, <1>4, <2>1, <2>2 DEF StateType
  <2> QED BY <1>11, <2>3 DEF TypeOK
<1>14. VersionOK'
  <2>1. \A m \in version : \A s \in tables'[m] : InTables(s, TablesOf(Manifest), tables')
    <3>1. \A m \in version : \A s \in tables[m] : InTables(s, TablesOf(Manifest), tables)
      BY <1>3, <1>5 DEF VersionOK
    <3> QED BY <1>10, <3>1 DEF TablesStay, InTables
  <2>2. ~Logged /\ ~Logged'
    BY <1>1 DEF Logged
  <2> QED BY <1>1, <1>3, <1>5, <1>8, <1>11, <2>1, <2>2 DEF VersionOK
<1>15. DescriptorOK'
  BY <1>1, <1>3, <1>5, <1>11 DEF DescriptorOK
<1>16. CompactionOK'
  BY <1>1, <1>3, <1>5, <1>6, <1>12 DEF CompactionOK
<1>17. EditOK'
  <2>1. /\ manifest_file_number_ < next_file_number_
        /\ LastEdit(Manifest).next <= next_file_number_
        /\ LastEdit(Manifest).seq <= last_sequence_ /\ log_number_ <= logfile_number_
        /\ logfile_number_ < next_file_number_
        /\ \A m \in version : m < next_file_number_ /\ \A s \in tables[m] : s <= last_sequence_
    BY <1>3, <1>4, <1>5 DEF VersionOK, MemoryOK
  <2>2. /\ log_number_ < next_file_number_ /\ log_number_ <= log_number_
        /\ next_file_number_ <= next_file_number_ /\ last_sequence_ <= last_sequence_
    BY <1>4, <2>1
  <2>3. \A m \in {c.output} \cup version :
          m < next_file_number_ /\ \A s \in tables'[m] : s <= last_sequence_
    <3>1. \A s \in tables'[c.output] : s <= last_sequence_
      BY <1>6, <1>8, <2>1
    <3>2. \A m \in version : m < next_file_number_ /\ \A s \in tables'[m] : s <= last_sequence_
      BY <1>10, <2>1 DEF TablesStay
    <3> QED BY <1>6, <3>1, <3>2
  <2>4. \A m \in c.inputs : \A s \in tables'[m] : InTables(s, {c.output}, tables')
    <3> SUFFICES ASSUME NEW m \in c.inputs, NEW s \in tables'[m] PROVE s \in tables'[c.output]
      BY DEF InTables
    <3>1. tables'[m] = tables[m]
      BY <1>6, <1>10 DEF TablesStay
    <3> QED BY <1>8, <3>1
  <2> QED BY <1>1, <1>3, <1>6, <1>7, <1>8, <1>11, <1>12, <2>1, <2>2, <2>3, <2>4 DEF EditOK
<1>18. ApplyingOK'
  BY <1>1 DEF ApplyingOK, Logged
<1> QED BY <1>1, <1>11, <1>13, <1>14, <1>15, <1>16, <1>17, <1>18, NotReplaying DEF Inv

-----------------------------------------------------------------------------
(* LogAndApply *)

LEMMA EditHolds ==
  ASSUME Inv, Running, applying # "no", NEW T, edit.add \subseteq T,
         \A n \in version : \A s \in tables[n] : InTables(s, T, tables)
  PROVE  Holds(T, edit.log, tables, logs, acked, durable)
<1>1. MemoryOK /\ EditOK /\ CompactionOK
  BY DEF Inv
<1>2. logfile_number_ \in Nat /\ logfile_number_ \in DOMAIN logs
  BY WhileRunning
<1>3. \A s : InTables(s, Tables, tables) => InTables(s, T, tables)
  BY DEF InTables, Tables
<1>4. CASE edit.del = {}
  <2>1. edit.log = logfile_number_ /\ \A s \in imm : InTables(s, T, tables)
    BY <1>1, <1>4 DEF EditOK, InTables
  <2>2. /\ \A s : InLog(s, logs[logfile_number_]) => InLogs(s, logfile_number_, logs)
        /\ \A s : SyncedInLog(s, logs[logfile_number_]) => SyncedInLogs(s, logfile_number_, logs)
    BY <1>2 DEF InLogs, SyncedInLogs
  <2>3. \A s \in acked : InTables(s, T, tables) \/ InLogs(s, logfile_number_, logs)
    BY <1>1, <1>3, <2>1, <2>2 DEF MemoryOK
  <2>4. \A s \in durable : InTables(s, T, tables) \/ SyncedInLogs(s, logfile_number_, logs)
    BY <1>1, <1>3, <2>1, <2>2 DEF MemoryOK
  <2> QED BY <2>1, <2>3, <2>4 DEF Holds
<1>5. CASE edit.del # {}
  <2>1. edit.log = log_number_
    BY <1>1, <1>5 DEF EditOK
  <2>2. Holds(Tables, log_number_, tables, logs, acked, durable)
    BY <1>1 DEF MemoryOK
  <2> QED BY <1>3, <2>1, <2>2 DEF Holds
<1> QED BY <1>4, <1>5

(* What an edit says while it is applied.                                  *)
LEMMA EditSays ==
  ASSUME Inv, Running, applying # "no"
  PROVE  /\ edit \in Complete /\ edit \in Edits
         /\ edit.add \in SUBSET Nat /\ edit.del \in SUBSET Nat
         /\ edit.log \in Nat /\ edit.next \in Nat /\ edit.seq \in Nat
         /\ log_number_ <= edit.log /\ edit.log <= logfile_number_ /\ edit.log < edit.next
         /\ edit.next <= next_file_number_ /\ edit.seq <= last_sequence_
         /\ LastEdit(Manifest).next <= edit.next /\ LastEdit(Manifest).seq <= edit.seq
         /\ manifest_file_number_ < edit.next /\ edit.add \subseteq DOMAIN tables
         /\ \A n \in edit.add \cup version : n < edit.next /\ \A s \in tables[n] : s <= edit.seq
         /\ \A n \in version : n \in edit.del => \A s \in tables[n] : InTables(s, edit.add, tables)
BY EditsType DEF Inv, EditOK, Complete

(* The record of the edit reaches the current manifest.                    *)
LEMMA RecordKeeps ==
  ASSUME Inv, WriteManifest, descriptor # 0
  PROVE  Inv'
<1>1. /\ Running /\ Running' /\ status' = status /\ Tables' = Tables
      /\ applying = "record" /\ applying' = "sync"
      /\ manifests' = [manifests EXCEPT ![descriptor].edits = Append(@, edit)]
      /\ UNCHANGED <<CURRENT, logs, tables, mem, imm, last_sequence_, next_file_number_,
                     log_number_, logfile_number_, manifest_file_number_, descriptor,
                     version, pinned, pending_outputs, compaction, edit, bg_error,
                     acked, durable, todo, pos, save_manifest, compactions, max_sequence>>
  <2>1. status \in {"opening", "open"}
    BY DEF Inv, ReplayStart, DownOK, TypeOK, StateType, WriteManifest
  <2> QED BY <2>1 DEF WriteManifest, replay, numbers, live, history, Running, Tables
<1>2. /\ TypeOK /\ FilesType /\ StateType /\ DiskOK /\ CURRENT # 0 /\ CURRENT \in Nat
      /\ CURRENT \in DOMAIN manifests /\ log_number_ \in Nat /\ next_file_number_ \in Nat
      /\ TablesOf(Manifest) \subseteq DOMAIN tables /\ DOMAIN tables \subseteq Nat
      /\ \A n \in DOMAIN tables : tables[n] \subseteq Nat
      /\ LastEdit(Manifest).log \in Nat /\ LastEdit(Manifest).next \in Nat
      /\ LastEdit(Manifest).seq \in Nat
  BY <1>1, WhileRunning
<1>3. descriptor = CURRENT /\ manifest_file_number_ = CURRENT
  BY <1>1 DEF Inv, DescriptorOK
<1>4. applying # "no" /\ ~Logged
  BY <1>1 DEF Logged
<1>5. /\ edit \in Complete /\ edit \in Edits
      /\ edit.log \in Nat /\ edit.next \in Nat /\ edit.seq \in Nat
      /\ log_number_ <= edit.log /\ edit.log <= logfile_number_ /\ edit.log < edit.next
      /\ edit.next <= next_file_number_ /\ edit.seq <= last_sequence_
      /\ LastEdit(Manifest).next <= edit.next /\ LastEdit(Manifest).seq <= edit.seq
      /\ manifest_file_number_ < edit.next /\ edit.add \subseteq DOMAIN tables
      /\ \A n \in edit.add \cup version : n < edit.next /\ \A s \in tables[n] : s <= edit.seq
      /\ \A n \in version : n \in edit.del => \A s \in tables[n] : InTables(s, edit.add, tables)
  BY <1>1, <1>4, EditSays
<1>6. Manifest \in Seq(Edits) /\ manifests[CURRENT].synced \in Nat
      /\ manifests[CURRENT].synced <= Len(Manifest)
  BY <1>2, ManifestSays
<1>7. /\ DOMAIN manifests' = DOMAIN manifests
      /\ manifests'[CURRENT] = [manifests[CURRENT] EXCEPT !.edits = Append(@, edit)]
      /\ \A n \in DOMAIN manifests : n # CURRENT => manifests'[n] = manifests[n]
      /\ manifests[CURRENT] \in [edits : Seq(Edits), synced : Nat]
  BY <1>1, <1>2, <1>3 DEF FilesType
<1>8. Manifest' = Append(Manifest, edit) /\ manifests'[CURRENT].synced = manifests[CURRENT].synced
  BY <1>1, <1>7 DEF Manifest
<1>9. /\ Manifest' \in Seq(Edits) /\ Manifest' # <<>> /\ LastEdit(Manifest') = edit
      /\ TablesOf(Manifest') = (TablesOf(Manifest) \ edit.del) \cup edit.add
  BY <1>5, <1>6, <1>8, AppendEdit
<1>10. SyncedManifest' = SyncedManifest
  BY <1>1, <1>5, <1>6, <1>8, SyncedPart DEF SyncedManifest
<1>11. TypeOK'
  <2>1. manifests'[CURRENT].synced <= Len(Manifest') /\ manifests'[CURRENT].synced \in Nat
    <3>1. Len(Manifest') = Len(Manifest) + 1 /\ Len(Manifest) \in Nat
      BY <1>5, <1>6, <1>8, AppendProperties, LenProperties
    <3> QED BY <1>6, <1>8, <3>1
  <2>2. manifests'[CURRENT] \in [edits : Seq(Edits), synced : Nat]
    BY <1>7, <1>8, <1>9, <2>1 DEF Manifest
  <2>3. \A n \in DOMAIN manifests' : /\ manifests'[n] \in [edits : Seq(Edits), synced : Nat]
                                     /\ manifests'[n].synced <= Len(manifests'[n].edits)
    BY <1>1, <1>2, <1>7, <2>1, <2>2 DEF FilesType, Manifest
  <2>4. FilesType'
    BY <1>1, <1>2, <1>7, <2>3 DEF FilesType
  <2>5. StateType'
    BY <1>1, <1>2 DEF StateType
  <2> QED BY <2>4, <2>5 DEF TypeOK
<1>12. \A n \in version : \A s \in tables[n] : InTables(s, TablesOf(Manifest'), tables)
  <2> SUFFICES ASSUME NEW n \in version, NEW s \in tables[n]
               PROVE  InTables(s, TablesOf(Manifest'), tables)
    OBVIOUS
  <2>1. CASE n \in edit.del
    BY <1>5, <1>9, <2>1 DEF InTables
  <2>2. CASE n \notin edit.del
    <3>1. PICK m \in TablesOf(Manifest) : s \in tables[m]
      BY <1>1 DEF Inv, VersionOK, InTables
    <3>2. CASE m \notin edit.del
      BY <1>9, <3>1, <3>2 DEF InTables
    <3>3. CASE m \in edit.del
      <4>1. m \in version
        BY <1>1, <1>4, <3>3 DEF Inv, EditOK, CompactionOK
      <4> QED BY <1>5, <1>9, <3>1, <3>3, <4>1 DEF InTables
    <3> QED BY <3>2, <3>3
  <2> QED BY <2>1, <2>2
<1>13. Restorable(Manifest)'
  <2>1. Sound(Manifest', tables, CURRENT)
    <3>1. CURRENT < edit.next
      BY <1>3, <1>5
    <3>2. TablesOf(Manifest') \subseteq DOMAIN tables
      BY <1>2, <1>5, <1>9
    <3>3. \A n \in TablesOf(Manifest) : n < edit.next /\ \A s \in tables[n] : s <= edit.seq
      <4>1. \A n \in TablesOf(Manifest) :
              /\ n < LastEdit(Manifest).next /\ n \in Nat
              /\ \A s \in tables[n] : s <= LastEdit(Manifest).seq /\ s \in Nat
        BY <1>2, ManifestSays
      <4> QED BY <1>2, <1>5, <4>1
    <3>4. \A n \in TablesOf(Manifest') : n < edit.next /\ \A s \in tables[n] : s <= edit.seq
      BY <1>5, <1>9, <3>3
    <3> QED BY <1>5, <1>9, <3>1, <3>2, <3>4 DEF Sound
  <2>2. Holds(TablesOf(Manifest'), edit.log, tables, logs, acked, durable)
    <3>1. edit.add \subseteq TablesOf(Manifest')
      BY <1>9
    <3> QED BY <1>1, <1>4, <1>12, <3>1, EditHolds
  <2> QED BY <1>1, <1>9, <2>1, <2>2 DEF Restorable
<1>14. Syncs => /\ LastEdit(SyncedManifest).next <= edit.next
                 /\ LastEdit(SyncedManifest).log <= edit.log
                 /\ LastEdit(SyncedManifest).log <= log_number_
                 /\ Restorable(SyncedManifest)
  <2> SUFFICES ASSUME Syncs
               PROVE  /\ LastEdit(SyncedManifest).next <= edit.next
                      /\ LastEdit(SyncedManifest).log <= edit.log
                      /\ LastEdit(SyncedManifest).log <= log_number_
                      /\ Restorable(SyncedManifest)
    OBVIOUS
  <2>1. /\ LastEdit(SyncedManifest).log \in Nat /\ LastEdit(SyncedManifest).next \in Nat
        /\ LastEdit(SyncedManifest).next <= LastEdit(Manifest).next
    BY <1>2, SyncedManifestSays
  <2>2. LastEdit(SyncedManifest).log <= log_number_
    BY <1>1 DEF Inv, VersionOK
  <2>3. Restorable(SyncedManifest)
    BY <1>2 DEF DiskOK
  <2> QED BY <1>2, <1>5, <2>1, <2>2, <2>3
<1>15. DiskOK'
  <2>1. Syncs => Restorable(SyncedManifest)'
    BY <1>1, <1>10, <1>14 DEF Restorable
  <2>2. status' # "created"
    BY <1>1 DEF Running
  <2> QED BY <1>1, <1>2, <1>7, <1>9, <1>10, <1>13, <1>14, <2>1, <2>2 DEF DiskOK
<1>16. MemoryOK'
  BY <1>1 DEF Inv, MemoryOK
<1>17. VersionOK'
  <2>1. VersionOK
    BY DEF Inv
  <2>2. ~bg_error => TablesOf(Manifest') = (version \ edit.del) \cup edit.add
    BY <1>1, <1>4, <1>9, <2>1 DEF VersionOK
  <2>3. Logged'
    BY <1>1 DEF Logged
  <2> QED BY <1>1, <1>2, <1>5, <1>9, <1>10, <1>12, <1>14, <2>1, <2>2, <2>3 DEF VersionOK
<1>18. DescriptorOK'
  BY <1>1, <1>3 DEF DescriptorOK
<1>19. CompactionOK'
  BY <1>1, <1>9, <1>10 DEF Inv, CompactionOK
<1>20. EditOK'
  <2>1. edit.next <= edit.next /\ edit.seq <= edit.seq
    BY <1>5
  <2> QED BY <1>1, <1>4, <1>9, <2>1 DEF Inv, EditOK
<1>21. ApplyingOK'
  BY <1>1, <1>9 DEF ApplyingOK
<1> QED BY <1>1, <1>11, <1>15, <1>16, <1>17, <1>18, <1>19, <1>20, <1>21, NotReplaying
        DEF Inv, Running

(* A new manifest: nothing names it yet.                                   *)
LEMMA NewManifestKeeps ==
  ASSUME Inv, WriteManifest, descriptor = 0
  PROVE  Inv'
<1> DEFINE m == manifest_file_number_
<1>1. /\ Running /\ Running' /\ status' = status /\ Tables' = Tables
      /\ applying = "record" /\ applying' = "sync"
      /\ manifests' = Put(manifests, m, [edits |-> <<WriteSnapshot, edit>>, synced |-> 0])
      /\ UNCHANGED <<CURRENT, logs, tables, mem, imm, last_sequence_, next_file_number_,
                     log_number_, logfile_number_, manifest_file_number_, descriptor,
                     version, pinned, pending_outputs, compaction, edit, bg_error,
                     acked, durable, todo, pos, save_manifest, compactions, max_sequence>>
  <2>1. status \in {"opening", "open"}
    BY DEF Inv, ReplayStart, DownOK, TypeOK, StateType, WriteManifest
  <2> QED BY <2>1 DEF WriteManifest, replay, numbers, live, history, Running, Tables
<1>2. /\ TypeOK /\ FilesType /\ StateType /\ DiskOK /\ CURRENT # 0 /\ CURRENT \in Nat
      /\ CURRENT \in DOMAIN manifests /\ m \in Nat /\ version \in SUBSET Nat /\ edit \in Edits
      /\ DOMAIN manifests \subseteq Nat /\ DOMAIN logs \subseteq Nat
      /\ TablesOf(Manifest) \subseteq DOMAIN tables
  BY <1>1, WhileRunning
<1>3. m # CURRENT
  <2>1. m = LastEdit(Manifest).next
    BY <1>1 DEF Inv, DescriptorOK
  <2> QED BY <1>2, <2>1, ManifestSays
<1>4. /\ <<WriteSnapshot, edit>> \in Seq(Edits) /\ Len(<<WriteSnapshot, edit>>) = 2
  BY <1>2, TwoEdits DEF WriteSnapshot
<1>5. /\ DOMAIN manifests' = DOMAIN manifests \cup {m}
      /\ manifests'[m] = [edits |-> <<WriteSnapshot, edit>>, synced |-> 0]
      /\ \A n \in DOMAIN manifests : n # m => manifests'[n] = manifests[n]
  BY <1>1 DEF Put
<1>6. DiskOK' /\ Manifest' = Manifest /\ SyncedManifest' = SyncedManifest
  <2>1. SameManifest /\ status' # "created"
    BY <1>1, <1>2, <1>3, <1>5 DEF SameManifest, Running
  <2>2. TablesStay(TablesOf(Manifest)) /\ (Syncs => TablesStay(TablesOf(SyncedManifest)))
    BY <1>1, <1>2, SyncedManifestSays DEF TablesStay
  <2> QED BY <1>1, <1>2, <2>1, <2>2, SameLogsGrow, DiskKept
<1>7. TypeOK'
  <2>1. \A n \in DOMAIN manifests' : /\ manifests'[n] \in [edits : Seq(Edits), synced : Nat]
                                     /\ manifests'[n].synced <= Len(manifests'[n].edits)
    <3>1. /\ manifests'[m] \in [edits : Seq(Edits), synced : Nat]
          /\ manifests'[m].synced <= Len(manifests'[m].edits)
      BY <1>4, <1>5
    <3> QED BY <1>2, <1>5, <3>1 DEF FilesType
  <2>2. DOMAIN manifests' \subseteq Nat
    BY <1>2, <1>5
  <2>3. FilesType'
    BY <1>1, <1>2, <2>1, <2>2 DEF FilesType
  <2>4. StateType'
    BY <1>1, <1>2 DEF StateType
  <2> QED BY <2>3, <2>4 DEF TypeOK
<1>8. MemoryOK'
  BY <1>1 DEF Inv, MemoryOK
<1>9. VersionOK'
  <2>1. ~Logged /\ ~Logged' /\ applying # "install"
    BY <1>1 DEF Logged
  <2> QED BY <1>1, <1>6, <2>1 DEF Inv, VersionOK
<1>10. DescriptorOK'
  BY <1>1, <1>6 DEF Inv, DescriptorOK
<1>11. CompactionOK'
  BY <1>1, <1>6 DEF Inv, CompactionOK
<1>12. EditOK'
  BY <1>1, <1>6 DEF Inv, EditOK
<1>13. ApplyingOK'
  <2>1. WriteSnapshot' = WriteSnapshot
    BY <1>1 DEF WriteSnapshot
  <2>2. manifests'[m].edits = <<WriteSnapshot, edit>> /\ m \in DOMAIN manifests'
    BY <1>5
  <2> QED BY <1>1, <2>1, <2>2 DEF ApplyingOK, Logged
<1> QED BY <1>1, <1>6, <1>7, <1>8, <1>9, <1>10, <1>11, <1>12, <1>13, NotReplaying
        DEF Inv, Running

LEMMA SyncManifestKeeps == ASSUME Inv, SyncManifest PROVE Inv'
<1> DEFINE n == IF descriptor = 0 THEN manifest_file_number_ ELSE descriptor
<1>1. /\ Running /\ Running' /\ status' = status /\ Tables' = Tables
      /\ applying = "sync"
      /\ applying' = IF descriptor = 0 THEN "current" ELSE "install"
      /\ manifests' = [manifests EXCEPT ![n] = Synced(@)]
      /\ UNCHANGED <<CURRENT, logs, tables, mem, imm, last_sequence_, next_file_number_,
                     log_number_, logfile_number_, manifest_file_number_, descriptor,
                     version, pinned, pending_outputs, compaction, edit, bg_error,
                     acked, durable, todo, pos, save_manifest, compactions, max_sequence>>
  <2>1. status \in {"opening", "open"}
    BY DEF Inv, ReplayStart, DownOK, TypeOK, StateType, SyncManifest
  <2> QED BY <2>1 DEF SyncManifest, replay, numbers, live, history, Running, Tables
<1>2. /\ TypeOK /\ FilesType /\ StateType /\ DiskOK /\ CURRENT # 0 /\ CURRENT \in Nat
      /\ CURRENT \in DOMAIN manifests /\ version \in SUBSET Nat /\ edit \in Edits
      /\ DOMAIN manifests \subseteq Nat /\ DOMAIN logs \subseteq Nat
      /\ TablesOf(Manifest) \subseteq DOMAIN tables
  BY <1>1, WhileRunning
<1>3. n \in DOMAIN manifests
  BY <1>1, <1>2 DEF Inv, ApplyingOK, DescriptorOK
<1>4. /\ DOMAIN manifests' = DOMAIN manifests
      /\ manifests'[n].edits = manifests[n].edits
      /\ manifests'[n].synced = Len(manifests[n].edits)
      /\ manifests'[n] \in [edits : Seq(Edits), synced : Nat]
      /\ \A k \in DOMAIN manifests : k # n => manifests'[k] = manifests[k]
  <2>1. manifests[n] \in [edits : Seq(Edits), synced : Nat]
    BY <1>2, <1>3 DEF FilesType
  <2>2. Len(manifests[n].edits) \in Nat
    BY <2>1, LenProperties
  <2>3. manifests'[n] = [manifests[n] EXCEPT !.synced = Len(manifests[n].edits)]
    BY <1>1, <1>3 DEF Synced
  <2> HIDE DEF n
  <2> QED BY <1>1, <1>3, <2>1, <2>2, <2>3
<1>5. TypeOK'
  <2>1. \A k \in DOMAIN manifests' : /\ manifests'[k] \in [edits : Seq(Edits), synced : Nat]
                                     /\ manifests'[k].synced <= Len(manifests'[k].edits)
    <3>1. manifests'[n].synced <= Len(manifests'[n].edits)
      <4>1. manifests'[n].synced \in Nat
        BY <1>4
      <4> QED BY <1>4, <4>1
    <3> HIDE DEF n
    <3> QED BY <1>2, <1>4, <3>1 DEF FilesType
  <2>2. FilesType'
    BY <1>1, <1>2, <1>4, <2>1 DEF FilesType
  <2>3. StateType'
    BY <1>1, <1>2 DEF StateType
  <2> QED BY <2>2, <2>3 DEF TypeOK
<1>6. Manifest' = Manifest
  BY <1>1, <1>4 DEF Manifest
<1>7. MemoryOK'
  BY <1>1 DEF Inv, MemoryOK
<1>8. DescriptorOK'
  <2>1. DescriptorOK
    BY DEF Inv
  <2> QED BY <1>1, <1>6, <2>1 DEF DescriptorOK
<1>9. EditOK'
  BY <1>1, <1>6 DEF Inv, EditOK
<1>10. CASE descriptor = 0
  <2>1. n = manifest_file_number_ /\ applying' = "current" /\ n # CURRENT
    <3>1. manifest_file_number_ = LastEdit(Manifest).next
      BY <1>1, <1>10 DEF Inv, DescriptorOK
    <3> QED BY <1>1, <1>2, <1>10, <3>1, ManifestSays
  <2>2. DiskOK' /\ SyncedManifest' = SyncedManifest
    <3>1. SameManifest /\ status' # "created"
      BY <1>1, <1>2, <1>4, <2>1 DEF SameManifest, Running
    <3>2. TablesStay(TablesOf(Manifest)) /\ (Syncs => TablesStay(TablesOf(SyncedManifest)))
      BY <1>1, <1>2, SyncedManifestSays DEF TablesStay
    <3> QED BY <1>1, <1>2, <3>1, <3>2, SameLogsGrow, DiskKept
  <2>3. ~Logged /\ ~Logged' /\ applying # "install"
    BY <1>1, <1>10 DEF Logged
  <2>4. VersionOK'
    BY <1>1, <1>6, <2>2, <2>3 DEF Inv, VersionOK
  <2>5. CompactionOK'
    BY <1>1, <1>6, <2>2 DEF Inv, CompactionOK
  <2>6. ApplyingOK'
    <3>1. manifests[n].edits = <<WriteSnapshot, edit>>
      BY <1>1, <1>10, <2>1 DEF Inv, ApplyingOK
    <3>2. manifests'[n].synced = 2 /\ manifests'[n].edits = <<WriteSnapshot, edit>>
      BY <1>4, <3>1
    <3>3. WriteSnapshot' = WriteSnapshot
      BY <1>1 DEF WriteSnapshot
    <3> QED BY <1>1, <1>3, <1>4, <1>10, <2>1, <2>3, <3>2, <3>3 DEF ApplyingOK
  <2> QED BY <1>1, <1>5, <1>7, <1>8, <1>9, <2>2, <2>4, <2>5, <2>6, NotReplaying DEF Inv, Running
<1>11. CASE descriptor # 0
  <2>1. n = CURRENT /\ applying' = "install"
    BY <1>1, <1>11 DEF Inv, DescriptorOK
  <2>2. SyncedManifest' = Manifest
    <3>1. Manifest \in Seq(Edits) /\ manifests'[CURRENT].synced = Len(Manifest)
      BY <1>2, <1>4, <2>1, ManifestSays DEF Manifest
    <3> QED BY <1>1, <1>6, <3>1, SubSeqFull DEF SyncedManifest
  <2>3. DiskOK'
    <3>1. Restorable(Manifest)
      BY <1>2 DEF DiskOK
    <3>2. Restorable(Manifest)' /\ Restorable(SyncedManifest)'
      BY <1>1, <1>6, <2>2, <3>1 DEF Restorable
    <3>3. /\ LastEdit(SyncedManifest').next <= LastEdit(Manifest').next
          /\ LastEdit(SyncedManifest').log <= LastEdit(Manifest').log
      BY <1>2, <1>6, <2>2, ManifestSays
    <3> QED BY <1>1, <1>2, <1>4, <3>2, <3>3 DEF DiskOK, Running
  <2>4. Logged /\ Logged'
    BY <1>1, <1>11 DEF Logged
  <2>5. VersionOK'
    BY <1>1, <1>6, <2>1, <2>4 DEF Inv, VersionOK
  <2>6. CompactionOK'
    BY <1>1, <1>6, <2>2 DEF Inv, CompactionOK
  <2>7. ApplyingOK'
    BY <1>1, <1>6, <1>11, <2>1, <2>2, <2>4 DEF Inv, ApplyingOK
  <2> QED BY <1>1, <1>5, <1>7, <1>8, <1>9, <2>3, <2>5, <2>6, <2>7, NotReplaying DEF Inv, Running
<1> QED BY <1>10, <1>11

LEMMA WhileApplying ==
  ASSUME Inv, applying # "no"
  PROVE  Running
BY DEF Inv, ReplayStart, DownOK, TypeOK, StateType, Running

(* Open gives up.                                                          *)
LEMMA OpenFailsKeeps ==
  ASSUME Inv, ManifestFails, status = "opening"
  PROVE  Inv'
<1> DEFINE m == manifest_file_number_
<1>1. /\ status' = "down" /\ NoMemory /\ UNCHANGED <<CURRENT, logs, tables, acked, durable>>
      /\ manifests' = IF descriptor = 0 THEN Restrict(manifests, DOMAIN manifests \ {m})
                      ELSE manifests
  BY DEF ManifestFails, history
<1>2. Running
  BY DEF Running
<1>3. /\ TypeOK /\ FilesType /\ DiskOK /\ CURRENT # 0 /\ CURRENT \in Nat
      /\ CURRENT \in DOMAIN manifests /\ DOMAIN logs \subseteq Nat
      /\ TablesOf(Manifest) \subseteq DOMAIN tables /\ acked \subseteq Nat /\ durable \subseteq acked
  BY <1>2, WhileRunning
<1>4. /\ CURRENT \in DOMAIN manifests' /\ DOMAIN manifests' \subseteq DOMAIN manifests
      /\ \A n \in DOMAIN manifests' : manifests'[n] = manifests[n]
  <2>1. CASE descriptor = 0
    <3>1. m = LastEdit(Manifest).next
      BY <1>2, <2>1 DEF Inv, DescriptorOK
    <3>2. m # CURRENT
      BY <1>3, <3>1, ManifestSays
    <3> QED BY <1>1, <1>3, <2>1, <3>2 DEF Restrict
  <2>2. CASE descriptor # 0
    BY <1>1, <1>3, <2>2
  <2> QED BY <2>1, <2>2
<1>5. DownOK' /\ StateType'
  BY <1>1, <1>3, NoMemoryType
<1>6. FilesType'
  BY <1>1, <1>3, <1>4 DEF FilesType
<1>7. DiskOK'
  <2>1. SameManifest /\ status' # "created"
    BY <1>1, <1>4 DEF SameManifest
  <2>2. TablesStay(TablesOf(Manifest)) /\ (Syncs => TablesStay(TablesOf(SyncedManifest)))
    BY <1>1, <1>3, SyncedManifestSays DEF TablesStay
  <2> QED BY <1>1, <1>3, <2>1, <2>2, SameLogsGrow, DiskKept
<1> QED BY <1>1, <1>5, <1>6, <1>7, WhenDown DEF Inv, TypeOK

(* The background error of an open database.                               *)
LEMMA ErrorKeeps ==
  ASSUME Inv, ManifestFails, status # "opening"
  PROVE  Inv'
<1>1. /\ applying \in {"record", "sync"} /\ bg_error' = TRUE
      /\ pending_outputs' = pending_outputs \ edit.add
      /\ compaction' = (IF edit.del = {} THEN compaction ELSE {})
      /\ edit' = NoEdit /\ applying' = "no"
      /\ UNCHANGED <<CURRENT, manifests, logs, tables, status, todo, pos, save_manifest,
                     compactions, max_sequence, mem, imm, last_sequence_, next_file_number_,
                     log_number_, logfile_number_, manifest_file_number_, descriptor,
                     version, pinned, acked, durable>>
  BY DEF ManifestFails, replay, numbers, history
<1>2. Running /\ Running' /\ status = "open" /\ status' = "open" /\ Tables' = Tables
  <2>1. Running
    BY <1>1, WhileApplying
  <2> QED BY <1>1, <2>1 DEF Running, Tables
<1>3. /\ TypeOK /\ FilesType /\ StateType /\ DiskOK /\ CURRENT # 0
      /\ CURRENT \in DOMAIN manifests /\ DOMAIN logs \subseteq Nat
      /\ TablesOf(Manifest) \subseteq DOMAIN tables
  BY <1>2, WhileRunning
<1>4. TypeOK'
  <2>1. edit' \in Edits /\ applying' \in {"no", "record", "sync", "current", "install"}
    BY <1>1, EditsType
  <2>2. bg_error' \in BOOLEAN
    BY <1>1
  <2>3. StateType'
    BY <1>1, <1>3, <2>1, <2>2 DEF StateType
  <2>4. FilesType'
    BY <1>1, <1>3 DEF FilesType
  <2> QED BY <2>3, <2>4 DEF TypeOK
<1>5. DiskOK' /\ Manifest' = Manifest /\ SyncedManifest' = SyncedManifest
  <2>1. SameManifest /\ status' # "created"
    BY <1>1, <1>2, <1>3 DEF SameManifest
  <2>2. TablesStay(TablesOf(Manifest)) /\ (Syncs => TablesStay(TablesOf(SyncedManifest)))
    BY <1>1, <1>3, SyncedManifestSays DEF TablesStay
  <2> QED BY <1>1, <1>3, <2>1, <2>2, SameLogsGrow, DiskKept
<1>6. MemoryOK'
  BY <1>1, <1>2 DEF Inv, MemoryOK
<1>7. VersionOK'
  BY <1>1, <1>2, <1>5 DEF Inv, VersionOK
<1>8. DescriptorOK'
  BY <1>1, <1>2, <1>5 DEF Inv, DescriptorOK
<1>9. CompactionOK'
  <2>1. CASE edit.del = {}
    <3>1. compaction' = compaction
      BY <1>1, <2>1
    <3>2. \A c \in compaction : c.output \in pending_outputs'
      BY <1>1, <1>2, <2>1 DEF Inv, CompactionOK
    <3> QED BY <1>1, <1>2, <1>5, <2>1, <3>1, <3>2, NoEditIs DEF Inv, CompactionOK
  <2>2. CASE edit.del # {}
    <3>1. compaction' = {}
      BY <1>1, <2>2
    <3> QED BY <1>2, <3>1 DEF CompactionOK
  <2> QED BY <2>1, <2>2
<1>10. EditOK'
  BY <1>1, <1>2 DEF EditOK
<1>11. ApplyingOK'
  BY <1>1 DEF ApplyingOK, Logged
<1> QED BY <1>2, <1>4, <1>5, <1>6, <1>7, <1>8, <1>9, <1>10, <1>11, NotReplaying DEF Inv

LEMMA SetCurrentFileKeeps == ASSUME Inv, SetCurrentFile PROVE Inv'
<1> DEFINE m == manifest_file_number_
<1>1. /\ applying = "current" /\ applying' = "install" /\ CURRENT' = m /\ descriptor' = m
      /\ UNCHANGED <<manifests, logs, tables, status, todo, pos, save_manifest, compactions,
                     max_sequence, mem, imm, last_sequence_, next_file_number_, log_number_,
                     logfile_number_, manifest_file_number_, version, pinned,
                     pending_outputs, compaction, edit, bg_error, acked, durable>>
  BY DEF SetCurrentFile, replay, live, history
<1>2. Running /\ Running' /\ applying # "no" /\ Tables' = Tables
  <2>1. Running
    BY <1>1, WhileApplying
  <2> QED BY <1>1, <2>1 DEF Running, Tables
<1>3. /\ TypeOK /\ FilesType /\ StateType /\ DiskOK /\ CURRENT # 0 /\ CURRENT \in Nat
      /\ m \in Nat /\ version \in SUBSET Nat /\ DOMAIN manifests \subseteq Nat
      /\ version \subseteq DOMAIN tables /\ DOMAIN tables \subseteq Nat
  BY <1>2, WhileRunning
<1>4. /\ edit \in Complete /\ edit \in Edits
      /\ edit.log \in Nat /\ edit.next \in Nat /\ edit.seq \in Nat
      /\ log_number_ <= edit.log /\ edit.log <= logfile_number_ /\ edit.log < edit.next
      /\ edit.next <= next_file_number_ /\ edit.seq <= last_sequence_
      /\ m < edit.next /\ edit.add \subseteq DOMAIN tables
      /\ \A n \in edit.add \cup version : n < edit.next /\ \A s \in tables[n] : s <= edit.seq
  BY <1>2, EditSays
<1>5. descriptor = 0 /\ status = "opening" /\ m = LastEdit(Manifest).next
  BY <1>1, <1>2 DEF Inv, ApplyingOK, DescriptorOK
<1>6. m # 0
  BY <1>3, <1>5, ManifestSays
<1>7. edit.del = {} /\ compaction = {} /\ imm = {} /\ ~bg_error
  BY <1>2, <1>5 DEF Inv, CompactionOK
<1>8. /\ m \in DOMAIN manifests /\ manifests[m].edits = <<WriteSnapshot, edit>>
      /\ manifests[m].synced = 2
  BY <1>1, <1>2, <1>5 DEF Inv, ApplyingOK
<1>9. Manifest' = <<WriteSnapshot, edit>>
  BY <1>1, <1>8 DEF Manifest
<1>10. /\ Manifest' \in Seq(Edits) /\ Manifest' # <<>> /\ Len(Manifest') = 2
       /\ LastEdit(Manifest') = edit /\ TablesOf(Manifest') = version \cup edit.add
  <2>1. /\ <<WriteSnapshot, edit>> \in Seq(Edits) /\ <<WriteSnapshot, edit>> # <<>>
        /\ Len(<<WriteSnapshot, edit>>) = 2 /\ LastEdit(<<WriteSnapshot, edit>>) = edit
        /\ TablesOf(<<WriteSnapshot, edit>>) = (version \ edit.del) \cup edit.add
    BY <1>3, <1>4, TwoEdits DEF WriteSnapshot
  <2>2. (version \ edit.del) \cup edit.add = version \cup edit.add
    BY <1>7
  <2> QED BY <1>9, <2>1, <2>2
<1>11. SyncedManifest' = Manifest'
  BY <1>1, <1>8, <1>10, SubSeqFull DEF SyncedManifest
<1>12. Restorable(Manifest)'
  <2>1. Sound(Manifest', tables, m)
    <3>1. TablesOf(Manifest') \subseteq DOMAIN tables
      BY <1>3, <1>4, <1>10
    <3> QED BY <1>4, <1>10, <3>1 DEF Sound
  <2>2. Holds(TablesOf(Manifest'), edit.log, tables, logs, acked, durable)
    <3>1. edit.add \subseteq TablesOf(Manifest')
      BY <1>10
    <3>2. \A n \in version : \A s \in tables[n] : InTables(s, TablesOf(Manifest'), tables)
      BY <1>10 DEF InTables
    <3> QED BY <1>2, <3>1, <3>2, EditHolds
  <2> QED BY <1>1, <1>10, <2>1, <2>2 DEF Restorable
<1>13. DiskOK'
  <2>1. Restorable(SyncedManifest)'
    BY <1>11, <1>12 DEF Restorable
  <2>2. /\ LastEdit(SyncedManifest').next <= LastEdit(Manifest').next
        /\ LastEdit(SyncedManifest').log <= LastEdit(Manifest').log
    BY <1>4, <1>10, <1>11
  <2> QED BY <1>1, <1>5, <1>6, <1>8, <1>12, <2>1, <2>2 DEF DiskOK
<1>14. TypeOK'
  <2>1. FilesType'
    BY <1>1, <1>3 DEF FilesType
  <2>2. applying' \in {"no", "record", "sync", "current", "install"}
    BY <1>1
  <2>3. StateType'
    BY <1>1, <1>3, <2>2 DEF StateType
  <2> QED BY <2>1, <2>3 DEF TypeOK
<1>15. MemoryOK'
  BY <1>1, <1>2 DEF Inv, MemoryOK
<1>16. VersionOK'
  <2>1. \A n \in version : \A s \in tables[n] : InTables(s, TablesOf(Manifest'), tables)
    BY <1>10 DEF InTables
  <2>2. Logged'
    BY <1>1, <1>6 DEF Logged
  <2>3. /\ Tables \subseteq DOMAIN tables /\ \A n \in Tables : n < next_file_number_
        /\ m < next_file_number_ /\ pending_outputs \cup UNION pinned \subseteq DOMAIN tables
    BY <1>2 DEF Inv, VersionOK
  <2>4. TablesOf(Manifest') = (version \ edit.del) \cup edit.add
    BY <1>7, <1>10
  <2> QED BY <1>1, <1>2, <1>4, <1>6, <1>10, <2>1, <2>2, <2>3, <2>4 DEF VersionOK
<1>17. DescriptorOK'
  BY <1>1, <1>6 DEF DescriptorOK
<1>18. CompactionOK'
  BY <1>1, <1>7 DEF CompactionOK
<1>19. EditOK'
  <2>1. EditOK
    BY DEF Inv
  <2>2. edit.next <= edit.next /\ edit.seq <= edit.seq
    BY <1>4
  <2> QED BY <1>1, <1>2, <1>10, <2>1, <2>2 DEF EditOK
<1>20. ApplyingOK'
  BY <1>1, <1>6, <1>10, <1>11 DEF ApplyingOK
<1> QED BY <1>1, <1>2, <1>13, <1>14, <1>15, <1>16, <1>17, <1>18, <1>19, <1>20, NotReplaying
        DEF Inv, Running

(* What DeleteObsoleteFiles leaves in place.                               *)
LEMMA RemovalKeeps ==
  ASSUME Inv, InstallVersion
  PROVE  /\ CURRENT \in DOMAIN manifests' /\ DOMAIN manifests' \subseteq DOMAIN manifests
         /\ \A n \in DOMAIN manifests' : manifests'[n] = manifests[n]
         /\ DOMAIN logs' \subseteq DOMAIN logs /\ \A n \in DOMAIN logs' : logs'[n] = logs[n]
         /\ \A n \in DOMAIN logs : n >= edit.log => n \in DOMAIN logs'
         /\ DOMAIN tables' \subseteq DOMAIN tables
         /\ \A n \in DOMAIN tables' : tables'[n] = tables[n]
         /\ TablesOf(Manifest) \cup version' \cup pending_outputs' \cup (UNION pinned)
              \subseteq DOMAIN tables'
<1>1. Running /\ applying = "install" /\ applying # "no"
  BY WhileApplying DEF InstallVersion
<1>2. /\ CURRENT \in DOMAIN manifests /\ CURRENT \in Nat /\ version \subseteq DOMAIN tables
      /\ TablesOf(Manifest) \subseteq DOMAIN tables
  BY <1>1, WhileRunning
<1>3. descriptor # 0 /\ manifest_file_number_ = CURRENT
  BY <1>1 DEF Inv, ApplyingOK, DescriptorOK
<1>4. /\ version' = (version \ edit.del) \cup edit.add
      /\ pending_outputs' = pending_outputs \ edit.add
      /\ DeleteObsoleteFiles(logs, version', edit.log, pending_outputs')
  BY DEF InstallVersion
<1>5. /\ edit.add \subseteq DOMAIN tables
      /\ pending_outputs \cup UNION pinned \subseteq DOMAIN tables
  BY <1>1, EditSays DEF Inv, VersionOK
<1>6. TablesOf(Manifest) \cup version' \cup pending_outputs' \cup (UNION pinned)
        \subseteq DOMAIN tables
  BY <1>2, <1>4, <1>5
<1>7. CASE logs' = logs /\ UNCHANGED <<manifests, tables>>
  BY <1>2, <1>6, <1>7
<1>8. CASE /\ ~bg_error
           /\ logs' = Restrict(logs, {n \in DOMAIN logs : n >= edit.log})
           /\ manifests' = Restrict(manifests, {n \in DOMAIN manifests : n >= manifest_file_number_})
           /\ tables' = Restrict(tables, DOMAIN tables \cap LiveFiles(version', pending_outputs'))
  <2>1. TablesOf(Manifest) = version'
    <3>1. Logged
      BY <1>1, <1>3 DEF Logged
    <3> QED BY <1>1, <1>4, <1>8, <3>1 DEF Inv, VersionOK
  <2>2. /\ DOMAIN logs' = {n \in DOMAIN logs : n >= edit.log}
        /\ \A n \in DOMAIN logs' : logs'[n] = logs[n]
    BY <1>8 DEF Restrict
  <2>3. /\ DOMAIN manifests' = {n \in DOMAIN manifests : n >= CURRENT}
        /\ \A n \in DOMAIN manifests' : manifests'[n] = manifests[n]
    BY <1>3, <1>8 DEF Restrict
  <2>4. /\ DOMAIN tables' = DOMAIN tables \cap LiveFiles(version', pending_outputs')
        /\ \A n \in DOMAIN tables' : tables'[n] = tables[n]
    BY <1>8 DEF Restrict
  <2>5. CURRENT \in DOMAIN manifests'
    BY <1>2, <2>3
  <2>6. version' \cup pending_outputs' \cup (UNION pinned)
          = LiveFiles(version', pending_outputs')
    BY DEF LiveFiles
  <2> QED BY <1>6, <2>1, <2>2, <2>3, <2>4, <2>5, <2>6
<1> QED BY <1>4, <1>7, <1>8 DEF DeleteObsoleteFiles

LEMMA InstallVersionKeeps == ASSUME Inv, InstallVersion PROVE Inv'
<1> DEFINE stored == UNION {tables[n] : n \in edit.add}
<1>1. /\ applying = "install" /\ applying' = "no" /\ status' = "open" /\ edit' = NoEdit
      /\ version' = (version \ edit.del) \cup edit.add /\ log_number_' = edit.log
      /\ imm' = (IF edit.del = {} THEN {} ELSE imm)
      /\ pending_outputs' = pending_outputs \ edit.add
      /\ compaction' = (IF edit.del = {} THEN compaction ELSE {})
      /\ durable' = durable \cup stored /\ acked' = acked \cup stored
      /\ UNCHANGED <<CURRENT, todo, pos, save_manifest, compactions, max_sequence, mem,
                     last_sequence_, next_file_number_, logfile_number_,
                     manifest_file_number_, descriptor, pinned, bg_error>>
  BY DEF InstallVersion, replay
<1>2. Running /\ Running' /\ applying # "no" /\ Tables' = version'
  <2>1. Running
    BY <1>1, WhileApplying
  <2> QED BY <1>1, <2>1 DEF Running, Tables
<1>3. /\ TypeOK /\ FilesType /\ StateType /\ DiskOK /\ CURRENT # 0 /\ CURRENT \in Nat
      /\ CURRENT \in DOMAIN manifests /\ DOMAIN logs \subseteq Nat \ {0}
      /\ logfile_number_ \in DOMAIN logs /\ logfile_number_ \in Nat
      /\ version \subseteq Nat /\ DOMAIN tables \subseteq Nat /\ version \subseteq DOMAIN tables
      /\ \A n \in DOMAIN tables : tables[n] \subseteq Nat
      /\ next_file_number_ \in Nat /\ last_sequence_ \in Nat
      /\ LastEdit(Manifest).next \in Nat /\ durable \subseteq acked /\ acked \subseteq Nat
  BY <1>2, WhileRunning
<1>4. /\ CURRENT \in DOMAIN manifests' /\ DOMAIN manifests' \subseteq DOMAIN manifests
      /\ \A n \in DOMAIN manifests' : manifests'[n] = manifests[n]
      /\ DOMAIN logs' \subseteq DOMAIN logs /\ \A n \in DOMAIN logs' : logs'[n] = logs[n]
      /\ \A n \in DOMAIN logs : n >= edit.log => n \in DOMAIN logs'
      /\ DOMAIN tables' \subseteq DOMAIN tables
      /\ \A n \in DOMAIN tables' : tables'[n] = tables[n]
      /\ TablesOf(Manifest) \cup version' \cup pending_outputs' \cup (UNION pinned)
           \subseteq DOMAIN tables'
  BY RemovalKeeps
<1>5. /\ edit.log \in Nat /\ edit.next \in Nat /\ edit.seq \in Nat
      /\ edit.add \in SUBSET Nat /\ edit.log <= logfile_number_
      /\ edit.next <= next_file_number_ /\ edit.seq <= last_sequence_
      /\ edit.add \subseteq DOMAIN tables
      /\ \A n \in edit.add \cup version : n < edit.next /\ \A s \in tables[n] : s <= edit.seq
      /\ \A n \in version : n \in edit.del => \A s \in tables[n] : InTables(s, edit.add, tables)
  BY <1>2, EditSays
<1>6. /\ descriptor # 0 /\ descriptor = CURRENT /\ manifest_file_number_ = CURRENT
      /\ LastEdit(Manifest) = edit /\ edit.add \subseteq TablesOf(Manifest)
      /\ SyncedManifest = Manifest /\ Logged
  BY <1>1, <1>2 DEF Inv, ApplyingOK, DescriptorOK, Logged
<1>7. Manifest' = Manifest /\ SyncedManifest' = Manifest
  BY <1>1, <1>4, <1>6 DEF Manifest, SyncedManifest
<1>8. /\ \A n \in version' : tables'[n] = tables[n]
      /\ \A n \in TablesOf(Manifest) : n \in DOMAIN tables' /\ tables'[n] = tables[n]
      /\ \A n \in edit.add : n \in version' /\ tables'[n] = tables[n]
  BY <1>1, <1>4
<1>9. logfile_number_ \in DOMAIN logs' /\ logs'[logfile_number_] = logs[logfile_number_]
  BY <1>3, <1>4, <1>5
<1>10. \A s \in stored : s \in Nat /\ InTables(s, version', tables')
                         /\ InTables(s, TablesOf(Manifest), tables')
  BY <1>3, <1>5, <1>6, <1>8 DEF InTables
<1> HIDE DEF stored
<1>11. \A s : InTables(s, version, tables) => InTables(s, version', tables)
  <2> SUFFICES ASSUME NEW s, InTables(s, version, tables) PROVE InTables(s, version', tables)
    OBVIOUS
  <2>1. PICK n \in version : s \in tables[n]
    BY DEF InTables
  <2>2. CASE n \in edit.del
    BY <1>1, <1>5, <2>1, <2>2 DEF InTables
  <2>3. CASE n \notin edit.del
    BY <1>1, <2>1, <2>3 DEF InTables
  <2> QED BY <2>2, <2>3
<1>12. \A s : InTables(s, version', tables) => InTables(s, version', tables')
  BY <1>8 DEF InTables
<1>13. \A s : InTables(s, Tables, tables) => InTables(s, version', tables')
  <2>1. \A s : InTables(s, edit.add, tables) => InTables(s, version', tables)
    BY <1>1 DEF InTables
  <2>2. \A s : InTables(s, Tables, tables) =>
                 InTables(s, version, tables) \/ InTables(s, edit.add, tables)
    BY DEF InTables, Tables
  <2> QED BY <1>11, <1>12, <2>1, <2>2
<1>14. \A s \in imm : s \in imm' \/ InTables(s, version', tables')
  <2>1. CASE edit.del = {}
    <3>1. \A s \in imm : InTables(s, edit.add, tables)
      BY <1>2, <2>1 DEF Inv, EditOK
    <3> QED BY <1>8, <3>1 DEF InTables
  <2>2. CASE edit.del # {}
    BY <1>1, <2>2
  <2> QED BY <2>1, <2>2
<1>15. TypeOK'
  <2>1. FilesType'
    <3>1. DOMAIN manifests' \subseteq Nat /\ DOMAIN logs' \subseteq Nat \ {0} /\ DOMAIN tables' \subseteq Nat
      BY <1>3, <1>4 DEF FilesType
    <3>2. IsFiniteSet(DOMAIN logs')
      BY <1>3, <1>4, FS_Subset DEF FilesType
    <3> QED BY <1>1, <1>3, <1>4, <3>1, <3>2 DEF FilesType
  <2>2. durable' \subseteq acked' /\ acked' \subseteq Nat
    BY <1>1, <1>3, <1>10
  <2>3. version' \subseteq Nat /\ imm' \subseteq Nat /\ log_number_' \in Nat
    BY <1>1, <1>3, <1>5 DEF StateType
  <2>4. edit' \in Edits /\ applying' \in {"no", "record", "sync", "current", "install"}
    BY <1>1, EditsType
  <2>5. StateType'
    BY <1>1, <1>3, <2>2, <2>3, <2>4 DEF StateType
  <2> QED BY <2>1, <2>5 DEF TypeOK
<1>16. DiskOK'
  <2>1. Sound(Manifest, tables, CURRENT) /\
        Holds(TablesOf(Manifest), edit.log, tables, logs, acked, durable)
    BY <1>3, <1>6 DEF DiskOK, Restorable
  <2>2. Sound(Manifest, tables', CURRENT)
    BY <1>8, <2>1, SoundKept
  <2>3. Holds(TablesOf(Manifest), edit.log, tables', logs', acked', durable')
    <3>1. \A n \in DOMAIN logs : n >= edit.log => n \in DOMAIN logs' /\ logs'[n] = logs[n]
      BY <1>4
    <3>2. /\ \A s \in acked' : s \in acked \/ InTables(s, TablesOf(Manifest), tables')
          /\ \A s \in durable' : s \in durable \/ InTables(s, TablesOf(Manifest), tables')
      BY <1>1, <1>10
    <3> QED BY <1>8, <2>1, <3>1, <3>2, HoldsAfterRemoval
  <2>4. Restorable(Manifest)' /\ Restorable(SyncedManifest)'
    BY <1>1, <1>6, <1>7, <2>2, <2>3 DEF Restorable
  <2>5. /\ LastEdit(SyncedManifest').next <= LastEdit(Manifest').next
        /\ LastEdit(SyncedManifest').log <= LastEdit(Manifest').log
    BY <1>5, <1>6, <1>7
  <2>6. status' # "created"
    BY <1>1
  <2> QED BY <1>1, <1>3, <1>4, <2>4, <2>5, <2>6 DEF DiskOK
<1>17. MemoryOK'
  <2>1. MemoryOK
    BY DEF Inv
  <2>2. \A n \in DOMAIN logs' : n < next_file_number_
    BY <1>2, <1>4, <2>1 DEF MemoryOK
  <2>3. \A s \in acked' : s \in mem \/ s \in imm' \/ InTables(s, version', tables')
    BY <1>1, <1>2, <1>10, <1>13, <1>14, <2>1 DEF MemoryOK
  <2>4. \A s \in durable' : \/ SyncedInLog(s, logs'[logfile_number_])
                            \/ s \in imm' \/ InTables(s, version', tables')
    BY <1>1, <1>2, <1>9, <1>10, <1>13, <1>14, <2>1 DEF MemoryOK
  <2>5. Holds(version', edit.log, tables', logs', acked', durable')
    <3>1. Holds(version', edit.log, tables, logs, acked, durable)
      <4>1. edit.add \subseteq version'
        BY <1>1
      <4>2. \A n \in version : \A s \in tables[n] : InTables(s, version', tables)
        BY <1>11 DEF InTables
      <4> QED BY <1>2, <4>1, <4>2, EditHolds
    <3>2. \A n \in DOMAIN logs : n >= edit.log => n \in DOMAIN logs' /\ logs'[n] = logs[n]
      BY <1>4
    <3>3. /\ \A s \in acked' : s \in acked \/ InTables(s, version', tables')
          /\ \A s \in durable' : s \in durable \/ InTables(s, version', tables')
      BY <1>1, <1>10
    <3> QED BY <1>8, <3>1, <3>2, <3>3, HoldsAfterRemoval
  <2>6. \A s \in mem \cup imm' : s <= last_sequence_
    BY <1>1, <1>2, <2>1 DEF MemoryOK
  <2>7. \A n \in version' : \A s \in tables'[n] : s <= last_sequence_
    <3>1. \A n \in version' : n \in edit.add \cup version
      BY <1>1
    <3>2. \A n \in version' : \A s \in tables'[n] : s <= edit.seq /\ s \in Nat
      BY <1>3, <1>4, <1>5, <1>8, <3>1
    <3> QED BY <1>3, <1>5, <3>2
  <2>8. \A s \in mem : InLog(s, logs'[logfile_number_])
    BY <1>2, <1>9, <2>1 DEF MemoryOK
  <2> QED BY <1>1, <1>2, <1>5, <1>9, <2>2, <2>3, <2>4, <2>5, <2>6, <2>7, <2>8 DEF MemoryOK
<1>18. VersionOK'
  <2>1. VersionOK
    BY DEF Inv
  <2>2. \A n \in version' : n < next_file_number_
    <3>1. \A n \in version' : n < edit.next /\ n \in Nat
      BY <1>1, <1>3, <1>5
    <3> QED BY <1>3, <1>5, <3>1
  <2>3. \A n \in version' : \A s \in tables'[n] : InTables(s, TablesOf(Manifest), tables')
    <3> SUFFICES ASSUME NEW n \in version', NEW s \in tables'[n]
                 PROVE  InTables(s, TablesOf(Manifest), tables')
      OBVIOUS
    <3>1. CASE n \in edit.add
      BY <1>6, <3>1 DEF InTables
    <3>2. CASE n \notin edit.add
      <4>1. n \in version /\ s \in tables[n]
        BY <1>1, <1>8, <3>2
      <4>2. InTables(s, TablesOf(Manifest), tables)
        BY <1>2, <2>1, <4>1 DEF VersionOK
      <4> QED BY <1>8, <4>2 DEF InTables
    <3> QED BY <3>1, <3>2
  <2>4. ~bg_error => TablesOf(Manifest) = version'
    BY <1>1, <1>2, <1>6, <2>1 DEF VersionOK
  <2>5. ~Logged'
    BY <1>1 DEF Logged
  <2>6. edit.log <= edit.log
    BY <1>5
  <2>7. version' \subseteq DOMAIN tables' /\ pending_outputs' \cup UNION pinned \subseteq DOMAIN tables'
    BY <1>4
  <2>8. manifest_file_number_ < next_file_number_
    BY <1>2, <2>1 DEF VersionOK
  <2> QED BY <1>1, <1>2, <1>3, <1>5, <1>6, <1>7, <2>2, <2>3, <2>4, <2>5, <2>6, <2>7, <2>8
          DEF VersionOK
<1>19. DescriptorOK'
  BY <1>1, <1>6 DEF DescriptorOK
<1>20. CompactionOK'
  <2> SUFFICES ASSUME NEW c \in compaction'
               PROVE  /\ c.inputs \subseteq version' /\ c.inputs # {} /\ compaction' = {c}
                      /\ c.output \in pending_outputs' /\ c.output < next_file_number_
                      /\ c.output \notin TablesOf(Manifest) \cup version'
                      /\ Syncs => c.output \notin TablesOf(Manifest)
    BY <1>1, <1>7, NoEditIs DEF CompactionOK
  <2>1. edit.del = {} /\ compaction' = compaction /\ version' = version \cup edit.add
    BY <1>1
  <2>2. /\ c.inputs \subseteq version /\ c.inputs # {} /\ compaction = {c}
        /\ c.output \in pending_outputs /\ c.output < next_file_number_
        /\ c.output \notin TablesOf(Manifest) \cup version \cup edit.add
    BY <1>2, <2>1 DEF Inv, CompactionOK
  <2> QED BY <1>1, <2>1, <2>2
<1>21. EditOK'
  BY <1>1 DEF EditOK
<1>22. ApplyingOK'
  BY <1>1 DEF ApplyingOK, Logged
<1> QED BY <1>1, <1>15, <1>16, <1>17, <1>18, <1>19, <1>20, <1>21, <1>22, NotReplaying DEF Inv

-----------------------------------------------------------------------------
(* The theorems *)

LEMMA StepKeeps == ASSUME Inv, Step PROVE Inv'
<1>1. CASE NewDB
  BY <1>1, NewDBKeeps
<1>2. CASE NewDBCurrent
  BY <1>2, NewDBCurrentKeeps
<1>3. CASE RecoverVersions
  BY <1>3, RecoverVersionsKeeps
<1>4. CASE ReplayRecord
  BY <1>4, ReplayRecordKeeps
<1>5. CASE EndOfLog
  BY <1>5, EndOfLogKeeps
<1>6. CASE FinishReplay
  BY <1>6, FinishReplayKeeps
<1>7. CASE WriteManifest
  BY <1>7, RecordKeeps, NewManifestKeeps
<1>8. CASE SyncManifest
  BY <1>8, SyncManifestKeeps
<1>9. CASE ManifestFails
  BY <1>9, OpenFailsKeeps, ErrorKeeps
<1>10. CASE SetCurrentFile
  BY <1>10, SetCurrentFileKeeps
<1>11. CASE InstallVersion
  BY <1>11, InstallVersionKeeps
<1>12. CASE \E sync \in BOOLEAN : Write(sync)
  BY <1>12, WriteKeeps
<1>13. CASE SwitchMemTable
  BY <1>13, SwitchMemTableKeeps
<1>14. CASE WriteLevel0Table
  BY <1>14, WriteLevel0TableKeeps
<1>15. CASE OpenCompactionOutput
  BY <1>15, OpenCompactionOutputKeeps
<1>16. CASE FinishCompactionOutput
  BY <1>16, FinishCompactionOutputKeeps
<1>17. CASE NewIterator
  BY <1>17, NewIteratorKeeps
<1>18. CASE DeleteIterator
  BY <1>18, DeleteIteratorKeeps
<1> QED BY <1>1, <1>2, <1>3, <1>4, <1>5, <1>6, <1>7, <1>8, <1>9, <1>10, <1>11, <1>12,
           <1>13, <1>14, <1>15, <1>16, <1>17, <1>18 DEF Step

LEMMA StutterKeeps == ASSUME Inv, UNCHANGED vars PROVE Inv'
<1>1. UNCHANGED <<CURRENT, manifests, logs, tables, status, todo, pos, save_manifest,
                  compactions, max_sequence, mem, imm, last_sequence_, next_file_number_,
                  log_number_, logfile_number_, manifest_file_number_, descriptor, version,
                  pinned, pending_outputs, compaction, edit, applying, bg_error, acked, durable>>
  BY DEF vars, disk, replay, numbers, live, history
<1>2. /\ Manifest' = Manifest /\ SyncedManifest' = SyncedManifest /\ Records' = Records
      /\ Running' = Running /\ Tables' = Tables /\ Logged' = Logged /\ ToDo' = ToDo
      /\ WriteSnapshot' = WriteSnapshot
  BY <1>1 DEF Manifest, SyncedManifest, Records, Running, Tables, Logged, ToDo, WriteSnapshot
<1>3. TypeOK'
  BY <1>1 DEF Inv, TypeOK, FilesType, StateType
<1>4. DiskOK'
  BY <1>1, <1>2 DEF Inv, DiskOK, Restorable
<1>5. DownOK' /\ ReplayStart'
  BY <1>1, <1>2 DEF Inv, DownOK, ReplayStart
<1>6. ReplayTables' /\ ReplayLogs'
  BY <1>1, <1>2 DEF Inv, ReplayTables, ReplayLogs, Recovered, LogsLeft
<1>7. MemoryOK' /\ VersionOK'
  BY <1>1, <1>2 DEF Inv, MemoryOK, VersionOK
<1>8. DescriptorOK' /\ CompactionOK'
  BY <1>1, <1>2 DEF Inv, DescriptorOK, CompactionOK
<1>9. EditOK' /\ ApplyingOK'
  BY <1>1, <1>2 DEF Inv, EditOK, ApplyingOK
<1> QED BY <1>3, <1>4, <1>5, <1>6, <1>7, <1>8, <1>9 DEF Inv

(* What the invariant means to a user of the database.                     *)
LEMMA InvHasAll == ASSUME Inv PROVE OpenHasAll
<1> SUFFICES ASSUME status = "open" PROVE acked \subseteq Content
  BY DEF OpenHasAll, Open
<1>1. Running /\ Tables = version
  BY DEF Running, Tables
<1>2. \A s \in acked : s \in mem \/ s \in imm \/ InTables(s, version, tables)
  BY <1>1 DEF Inv, MemoryOK
<1> QED BY <1>2 DEF Content, InTables

LEMMA InvCovers == ASSUME Inv PROVE SequencesCovered
<1> SUFFICES ASSUME status = "open" PROVE \A seq \in Content : seq <= last_sequence_
  BY DEF SequencesCovered, Open
<1>1. Running /\ Tables = version
  BY DEF Running, Tables
<1>2. /\ \A s \in mem \cup imm : s <= last_sequence_
      /\ \A n \in version : \A s \in tables[n] : s <= last_sequence_
  BY <1>1 DEF Inv, MemoryOK
<1> QED BY <1>2 DEF Content

LEMMA InvFiles == ASSUME Inv PROVE FilesExist /\ NeverCorrupt
<1>1. FilesExist
  <2> SUFFICES ASSUME Running
               PROVE  version \cup (UNION pinned) \cup pending_outputs \subseteq DOMAIN tables
    BY DEF FilesExist, Running
  <2> QED BY DEF Inv, VersionOK, Tables
<1>2. NeverCorrupt
  BY DEF Inv, TypeOK, StateType, NeverCorrupt
<1> QED BY <1>1, <1>2

(* Whatever is killed or loses its power, and whenever: a database that    *)
(* opens has every write that was acknowledged, but those that the power   *)
(* failure took because no sync covered them (DBImpl::Recover, DBImpl::    *)
(* Write, VersionSet::LogAndApply, DBImpl::DeleteObsoleteFiles).  The      *)
(* database was there before, as NewDB does not sync its first manifest,   *)
(* and logs are not reused, as Open does not sync the manifest it takes    *)
(* over.                                                                   *)
THEOREM OpenFindsAll == ASSUME ~Fresh, ~ReuseLogs PROVE Spec => []OpenHasAll
<1>1. ASSUME Inv, [Next]_vars PROVE Inv'
  BY <1>1, StepKeeps, KillKeeps, PowerFailureKeeps, StutterKeeps DEF Next, Syncs
<1> QED BY InitInv, <1>1, InvHasAll, PTL DEF Spec

(* No sequence number is given to a second entry after a recovery          *)
(* (max_sequence of RecoverLogFile, SetLastSequence of VersionSet).        *)
THEOREM SequencesAreCovered == ASSUME ~Fresh, ~ReuseLogs PROVE Spec => []SequencesCovered
<1>1. ASSUME Inv, [Next]_vars PROVE Inv'
  BY <1>1, StepKeeps, KillKeeps, PowerFailureKeeps, StutterKeeps DEF Next, Syncs
<1> QED BY InitInv, <1>1, InvCovers, PTL DEF Spec

(* A removal takes no file that a version, an iterator or a compaction     *)
(* still needs, and Open finds a complete manifest and all its tables      *)
(* (DeleteObsoleteFiles; VersionSet::Recover).                             *)
THEOREM FilesAreThere == ASSUME ~Fresh, ~ReuseLogs PROVE Spec => [](FilesExist /\ NeverCorrupt)
<1>1. ASSUME Inv, [Next]_vars PROVE Inv'
  BY <1>1, StepKeeps, KillKeeps, PowerFailureKeeps, StutterKeeps DEF Next, Syncs
<1> QED BY InitInv, <1>1, InvFiles, PTL DEF Spec

(* The same of a database that the first Open creates, or whose logs are   *)
(* reused, as long as only processes die: what the kernel has got is then  *)
(* not lost.                                                               *)
THEOREM CreatedFindsAll ==
  Init /\ [][Step \/ Kill]_vars => [](OpenHasAll /\ SequencesCovered /\ FilesExist /\ NeverCorrupt)
<1>1. ASSUME Inv, [Step \/ Kill]_vars PROVE Inv'
  BY <1>1, StepKeeps, KillKeeps, StutterKeeps
<1>2. Inv => OpenHasAll /\ SequencesCovered /\ FilesExist /\ NeverCorrupt
  BY InvHasAll, InvCovers, InvFiles
<1> QED BY InitInv, <1>1, <1>2, PTL
=============================================================================
