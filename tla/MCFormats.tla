----------------------------- MODULE MCFormats ------------------------------
(***************************************************************************)
(* The formats bytes are written in and read back from: LevelDB's logs and *)
(* tables, a file under them, and nanopb's messages.  They share no state: *)
(* a behaviour is one of them, and the others stay as they are.            *)
(***************************************************************************)
EXTENDS LogFormat, WritableFile, TLC

VARIABLES part,
          r, added,                                           \* TableFile
          sent, buffer, whole, reader, dest, live, status     \* Nanopb

tableVars   == <<r, added>>
messageVars == <<sent, buffer, whole, reader, dest, live, status>>

-----------------------------------------------------------------------------
(* Logs: blocks of eight bytes with headers of three.  With five bytes of  *)
(* data to a block, records with none, with one, with two that leave a gap *)
(* of one or two bytes, and of two and three blocks.                       *)
SomeSizes == {0, 1, 3, 4, 7, 12}
FewSizes  == {0, 3, 12}

Torn    == INSTANCE LogFormat WITH MaxFlips <- 0, Reopens <- FALSE, MaxFailures <- 0
Damaged == INSTANCE LogFormat WITH Sizes <- FewSizes, MaxTears <- 0, MaxFailures <- 0
Wounded == INSTANCE LogFormat WITH Sizes <- FewSizes, MaxFlips <- 0

(* Tables: keys that are prefixes of each other, that end with the greatest*)
(* byte, and with room between them or none.                               *)
Table == INSTANCE TableFile
           WITH Strings <- {<<>>, <<0, 0>>, <<0, 2>>, <<1, 2>>, <<2>>}, MaxByte <- 2,
                Tags <- {1, 2}, kMaxTag <- 3,
                block_restart_interval <- 2, BlockSizes <- {1, 3}, kFilterBase <- 2,
                MaxEntries <- 5

(* A file with a buffer of two bytes: appends that fit, that fill it, and  *)
(* of which the rest is written at once.                                   *)
SomeAppends == {1, 3, 5}

(* Messages with fields of all kinds, as in LogRequest, ClientInfo,        *)
(* LogEvent and ICoreConfiguration, and an earlier version of the message. *)
Scalar(t, l)     == [tag |-> t, ltype |-> l, repeated |-> FALSE, type |-> ""]
Message(t, n, m) == [tag |-> t, ltype |-> "submessage", repeated |-> m, type |-> n]
Enums(t)         == [tag |-> t, ltype |-> "enum", repeated |-> TRUE, type |-> ""]

SomeFields ==
  [Request |-> <<Message(1, "Client", FALSE), Scalar(2, "int32"), Message(3, "Event", TRUE),
                 Enums(7)>>,
   Older   |-> <<Scalar(2, "int32"), Enums(7)>>,
   Client  |-> <<Scalar(3, "bytes"), Scalar(4, "bool")>>,
   Event   |-> <<Scalar(1, "int64"), Scalar(6, "bytes"), Scalar(15, "svarint")>>]

Client(b, u)        == (3 :> b) @@ (4 :> u)
Event(n, b, s)      == (1 :> n) @@ (6 :> b) @@ (15 :> s)
Request(c, i, e, n) == (1 :> c) @@ (2 :> i) @@ (3 :> e) @@ (7 :> n)

Low  == -(2 ^ 6)       \* the least and the greatest number of 7 and of 13 bits
High == 2 ^ 12 - 1

Clients == {{}, {Client({<<>>}, {})}, {Client({<<9, 1>>}, {1})}}
Numbers == {<<{Low}, <<>>>>, <<{-Low - 1}, <<1, 0, 2 ^ 7 - 1, 3, 2>>>>}

SomeRequests ==
  {Request(c, v[1], <<>>, v[2]) : c \in Clients, v \in Numbers}
  \cup
  {Request(c, {}, e, <<>>) :
     c \in Clients,
     e \in {<<Event({High}, {<<2>>}, {-3})>>,
            <<Event({}, {}, {}), Event({-1}, {<<>>}, {High \div 2})>>}}

Messages == INSTANCE Nanopb
              WITH Group <- 3, W32 <- 7, W64 <- 13, Fields <- SomeFields,
                   Writer <- "Request", Readers <- {"Request", "Older"},
                   Sent <- SomeRequests, MaxSent <- 2,
                   Allocations <- {0, 1, 2, 3, 5, 30}, EnumSize <- 3

-----------------------------------------------------------------------------
In(name) == part = name /\ UNCHANGED part

FormatsInit == /\ part \in {"torn", "damaged", "wounded", "table", "messages", "file"}
               /\ Init /\ Table!Init
               /\ Messages!Init /\ (part # "messages" => reader = "Request")
               /\ InitFile /\ (part # "file" => ~is_manifest_)

FormatsNext ==
  \/ In("torn")     /\ Torn!Next     /\ UNCHANGED <<tableVars, messageVars, writeVars>>
  \/ In("damaged")  /\ Damaged!Next  /\ UNCHANGED <<tableVars, messageVars, writeVars>>
  \/ In("wounded")  /\ Wounded!Next  /\ UNCHANGED <<tableVars, messageVars, writeVars>>
  \/ In("table")    /\ Table!Next    /\ UNCHANGED <<vars, messageVars, writeVars>>
  \/ In("messages") /\ Messages!Next /\ UNCHANGED <<vars, tableVars, writeVars>>
  \/ In("file")     /\ NextFile      /\ UNCHANGED <<vars, tableVars, messageVars>>

FormatsSpec ==
  FormatsInit /\ [][FormatsNext]_<<part, vars, tableVars, messageVars, writeVars>>

(* A log that a crash cut at any byte gives back what was whole, from      *)
(* every offset.                                                           *)
TornIsRead == part = "torn" => Torn!ReadsWhatIsThere /\ Torn!ReadsFromOffset

(* Damaged bytes, and appends that failed, cost no more than they must.    *)
WoundsStayContained == /\ part = "damaged" => DamageIsContained
                       /\ part = "wounded" => NothingSpliced

(* A lookup finds what a walk over the blocks finds.                       *)
TableIsRead == part = "table" => Table!GetFindsEntry /\ Table!BlockIsWalked

(* Messages come out as they went in, and leave nothing on the heap.       *)
DecodesWhatWasSent == part = "messages" => Messages!DecodesWhatWasSent
HeapIsKept         == part = "messages" => Messages!NothingLeaks /\ Messages!ItemsFit
=============================================================================
