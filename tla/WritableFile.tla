---------------------------- MODULE WritableFile ----------------------------
(***************************************************************************)
(* A file that is written (PosixWritableFile, util/env_posix.cc): appends  *)
(* go to a buffer, and from it to the file when it is full, at Flush, Sync *)
(* and Close; write() may write less than it was given, and any call may   *)
(* fail.  The process may be killed, and the machine fail.                 *)
(*                                                                         *)
(* A byte is the number of bytes that were appended before it, and one.    *)
(* The file may be a manifest, whose Sync makes the names of the files in  *)
(* its directory durable first; a byte stands for what is said of the      *)
(* files that there were when it was appended.                             *)
(***************************************************************************)
EXTENDS Integers, Sequences, FiniteSets

CONSTANTS kWritableFileBufferSize,
          AppendSizes,
          MaxBytes, MaxErrors, MaxFiles

(* Both are sizes (size_t).                                                *)
ASSUME BufferAssumption == kWritableFileBufferSize \in Nat /\ AppendSizes \subseteq Nat

VARIABLES is_manifest_,
          content,   \* the bytes in it
          synced,    \* how many of them are durable
          appended,  \* how many bytes were appended
          buf_,
          call,      \* the call that is under way, or "none"
          writing,   \* what WriteUnbuffered has left to write
          rest,      \* of the data of Append, what did not fit in the buffer
          flushed,   \* how many were appended when a call last flushed all
          durable,   \* and how many when Sync last returned without an error
          reported,  \* bytes that were not flushed when a call failed
          errors,
          files,     \* how many other files were created in the directory
          entries,   \* how many of their names are durable
          saidOf     \* per byte, how many files there were

disk      == <<content, synced, files, entries>>
program   == <<is_manifest_, appended, saidOf>>
history   == <<flushed, durable, reported, errors>>
writeVars == <<disk, program, buf_, call, writing, rest, history>>

Bytes(from, to) == [i \in 1..(to - from + 1) |-> from + i - 1]

Lesser(m, n) == IF m <= n THEN m ELSE n

InitFile ==
  /\ is_manifest_ \in BOOLEAN
  /\ content = <<>> /\ synced = 0 /\ appended = 0 /\ buf_ = <<>>
  /\ call = "none" /\ writing = <<>> /\ rest = <<>>
  /\ flushed = 0 /\ durable = 0 /\ reported = {} /\ errors = 0
  /\ files = 0 /\ entries = 0 /\ saidOf = <<>>

(* The call returns an error: all that may be lost by then are bytes that  *)
(* were appended since all were flushed.                                   *)
Fails ==
  /\ errors < MaxErrors /\ errors' = errors + 1
  /\ call' = (IF call = "close" THEN "closed" ELSE "none")
  /\ writing' = <<>> /\ rest' = <<>>
  /\ reported' = reported \cup (flushed + 1)..appended

-----------------------------------------------------------------------------
(* Append: as much as fits goes to the buffer.                             *)
Append_(size) ==
  /\ call = "none" /\ appended + size <= MaxBytes
  /\ appended' = appended + size
  /\ saidOf' = saidOf \o [i \in 1..size |-> files]
  /\ LET copied == Lesser(size, kWritableFileBufferSize - Len(buf_))
     IN  /\ buf_' = buf_ \o Bytes(appended + 1, appended + copied)
         /\ rest' = Bytes(appended + copied + 1, appended + size)
  /\ IF rest' = <<>> THEN UNCHANGED <<call, writing>>
     ELSE call' = "append" /\ writing' = buf_'
  /\ UNCHANGED <<disk, is_manifest_, history>>

Flush == /\ call = "none" /\ call' = "flush" /\ writing' = buf_
         /\ UNCHANGED <<disk, program, buf_, rest, history>>

(* Called by the destructor too, which ignores errors.                     *)
CloseWritable == /\ call = "none" /\ call' = "close" /\ writing' = buf_
                 /\ UNCHANGED <<disk, program, buf_, rest, history>>

(* Sync: the directory of a manifest, the buffer, and then the file.       *)
Sync == /\ call = "none"
        /\ IF is_manifest_ THEN call' = "sync directory" /\ UNCHANGED writing
           ELSE call' = "sync" /\ writing' = buf_
        /\ UNCHANGED <<disk, program, buf_, rest, history>>

SyncDirIfManifest ==
  /\ call = "sync directory"
  /\ \/ /\ entries' = files
        /\ call' = "sync" /\ writing' = buf_
        /\ UNCHANGED <<rest, reported, errors>>
     \/ Fails /\ UNCHANGED entries
  /\ UNCHANGED <<content, synced, files, program, buf_, flushed, durable>>

(* One write() of WriteUnbuffered; one that is interrupted is made again.  *)
WriteUnbuffered ==
  /\ writing # <<>>
  /\ \E n \in 1..Len(writing) :
       /\ content' = content \o SubSeq(writing, 1, n)
       /\ writing' = SubSeq(writing, n + 1, Len(writing))
  /\ UNCHANGED <<synced, files, entries, program, buf_, call, rest, history>>

(* Mistake: the buffer is kept when it cannot be flushed.                  *)
WriteFailsKeeping ==
  /\ writing # <<>> /\ Fails
  /\ UNCHANGED <<disk, program, buf_, flushed, durable>>

(* FlushBuffer empties the buffer, whatever became of its bytes.           *)
WriteFails ==
  /\ writing # <<>> /\ Fails
  /\ buf_' = <<>>
  /\ UNCHANGED <<disk, program, flushed, durable>>

Written == call # "sync directory" /\ writing = <<>>

(* Append goes on: what is left is buffered, or written at once.           *)
EndOfBuffer ==
  /\ Written /\ call = "append"
  /\ IF Len(rest) < kWritableFileBufferSize
     THEN call' = "none" /\ buf_' = rest /\ UNCHANGED writing
     ELSE call' = "append unbuffered" /\ buf_' = <<>> /\ writing' = rest
  /\ rest' = <<>>
  /\ UNCHANGED <<disk, program, history>>

EndOfAppend ==
  /\ Written /\ call = "append unbuffered"
  /\ call' = "none"
  /\ flushed' = appended
  /\ UNCHANGED <<disk, program, buf_, writing, rest, durable, reported, errors>>

EndOfFlush ==
  /\ Written /\ call \in {"flush", "sync", "close"}
  /\ buf_' = <<>>
  /\ flushed' = appended
  /\ call' = CASE call = "flush" -> "none" [] call = "sync" -> "sync file"
               [] call = "close" -> "closed"
  /\ UNCHANGED <<disk, program, writing, rest, durable, reported, errors>>

(* Though everything was written, close() itself fails.                    *)
CloseFails ==
  /\ Written /\ call = "close" /\ Fails
  /\ buf_' = <<>>
  /\ UNCHANGED <<disk, program, flushed, durable>>

SyncFd ==
  /\ call = "sync file"
  /\ \/ /\ synced' = Len(content) /\ durable' = appended
        /\ call' = "none"
        /\ UNCHANGED <<writing, rest, reported, errors>>
     \/ Fails /\ UNCHANGED <<synced, durable>>
  /\ UNCHANGED <<content, files, entries, program, buf_, flushed>>

-----------------------------------------------------------------------------
(* Another file of the directory is created.                               *)
CreateFile ==
  /\ files < MaxFiles /\ files' = files + 1
  /\ UNCHANGED <<content, synced, entries, program, buf_, call, writing, rest,
                 history>>

(* The process is killed, or the machine fails: then bytes at the end of   *)
(* the file that were not synced are lost.                                 *)
Crash ==
  /\ call # "crashed" /\ call' = "crashed"
  /\ \E left \in synced..Len(content) : content' = SubSeq(content, 1, left)
  /\ buf_' = <<>> /\ writing' = <<>> /\ rest' = <<>>
  /\ UNCHANGED <<synced, files, entries, program, history>>

NextFile ==
  \/ \E size \in AppendSizes : Append_(size)
  \/ Flush \/ Sync \/ CloseWritable \/ SyncDirIfManifest
  \/ WriteUnbuffered \/ WriteFails \/ EndOfBuffer
  \/ EndOfAppend \/ EndOfFlush \/ CloseFails \/ SyncFd
  \/ CreateFile \/ Crash

SpecFile == InitFile /\ [][NextFile]_writeVars

-----------------------------------------------------------------------------
(* Properties *)

InFile == {content[i] : i \in DOMAIN content}

(* The bytes of the file are in the order of their appends, none is there  *)
(* twice, and none is missing but those a call has failed on: what is not  *)
(* in the file is in the buffer or on its way, or was reported.  What was  *)
(* there when Sync returned is there after a crash.                        *)
NothingLostSilently ==
  /\ \A i \in 1..(Len(content) - 1) : content[i] < content[i + 1]
  /\ call # "crashed" =>
       \A b \in 1..appended :
         \/ b \in InFile \cup reported
         \/ \E s \in {buf_, writing, rest} : \E i \in DOMAIN s : s[i] = b
  /\ 1..durable \subseteq InFile \cup reported

(* "crashing in a state where the manifest refers to files that are not    *)
(* yet on disk" (Sync): the names of the files that the synced part of a   *)
(* manifest speaks of are durable.                                         *)
NamesComeFirst ==
  is_manifest_ => \A i \in 1..synced : saidOf[content[i]] <= entries

(* What is appended to a file comes into it, and a manifest is not durable *)
(* before the files it speaks of.                                          *)
FileIsWritten == NothingLostSilently /\ NamesComeFirst
=============================================================================
