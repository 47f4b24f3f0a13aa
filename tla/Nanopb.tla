------------------------------- MODULE Nanopb -------------------------------
(***************************************************************************)
(* The protocol buffer library that Firebase's transport and diagnostics   *)
(* use (nanopb/pb_encode.c, pb_decode.c, pb_common.c), built with          *)
(* PB_ENABLE_MALLOC, for the kinds of fields their messages have           *)
(* (cct.nanopb.c, firebasecore.nanopb.c): optional static scalars and      *)
(* submessages, optional bytes in the heap, and repeated enumerations and  *)
(* submessages in the heap.                                                *)
(*                                                                         *)
(* A byte holds Group bits and the one that says that more follow; numbers *)
(* have W32 and W64 bits.  A field that is not there is {}.  A repeated    *)
(* field has items, and room for cap of them in a block of the heap if cap *)
(* is not 0.                                                               *)
(***************************************************************************)
EXTENDS Integers, Sequences, FiniteSets, FiniteSetsExt, SequencesExt

CONSTANTS Group, W32, W64, \* widths, of 7, 32 and 64
          Fields,          \* the fields of each message type, in order
          Writer, Readers, \* the types that are encoded, and decoded as
          Sent,            \* the messages that are encoded
          MaxSent,
          Allocations,     \* after how many of them the heap is full
          EnumSize         \* the size of an item of a repeated enumeration

VARIABLES sent,   \* the messages that were encoded one after the other
          buffer, whole,    \* their bytes, and whether all are there
          reader, dest,     \* a message that is decoded into, of type reader
          live,   \* how many blocks of the heap are not freed
          status  \* of the last decode

vars == <<sent, buffer, whole, reader, dest, live, status>>

Power(w) == 2 ^ w

(* Two's complement.                                                       *)
Unsigned(v, w) == v % Power(w)
Signed(v, w)   == LET u == v % Power(w) IN IF u < Power(w - 1) THEN u ELSE u - Power(w)

PB_WT_VARINT == 0
PB_WT_STRING == 2

Packable(f) == f.ltype \in {"bool", "int32", "int64", "enum", "svarint"}

-----------------------------------------------------------------------------
(* Encoding *)

pb_encode_varint[v \in Nat] ==
  IF v < Power(Group) THEN <<v>>
  ELSE <<(v % Power(Group)) + Power(Group)>> \o pb_encode_varint[v \div Power(Group)]

pb_encode_tag(wiretype, number) == pb_encode_varint[number * 8 + wiretype]

pb_encode_tag_for_field(f) ==
  pb_encode_tag(IF Packable(f) THEN PB_WT_VARINT ELSE PB_WT_STRING, f.tag)

EncodeScalar(f, v) ==
  IF f.ltype = "svarint" THEN pb_encode_varint[IF v < 0 THEN -2 * v - 1 ELSE 2 * v]
  ELSE pb_encode_varint[Unsigned(v, W64)]

pb_encode_string(bytes) == pb_encode_varint[Len(bytes)] \o bytes

RECURSIVE pb_encode(_, _)

(* pb_encode_submessage and pb_enc_bytes write the size first.             *)
EncodeValue(f, v) ==
  CASE f.ltype = "bytes"      -> pb_encode_string(v)
    [] f.ltype = "submessage" -> pb_encode_string(pb_encode(f.type, v))
    [] OTHER                  -> EncodeScalar(f, v)

encode_array(f, items) ==
  LET written == [i \in DOMAIN items |-> EncodeValue(f, items[i])]
  IN  IF items = <<>> THEN <<>>
      ELSE IF Packable(f)
      THEN pb_encode_tag(PB_WT_STRING, f.tag) \o pb_encode_string(FlattenSeq(written))
      ELSE FlattenSeq([i \in DOMAIN items |-> pb_encode_tag_for_field(f) \o written[i]])

encode_basic_field(f, v) ==
  IF f.repeated THEN encode_array(f, v)
  ELSE IF v = {} THEN <<>>
  ELSE pb_encode_tag_for_field(f) \o EncodeValue(f, CHOOSE x \in v : TRUE)

pb_encode(type, message) ==
  FlattenSeq([i \in DOMAIN Fields[type] |->
                encode_basic_field(Fields[type][i], message[Fields[type][i].tag])])

-----------------------------------------------------------------------------
(* Reading.  d is the state of a decode: the bytes, the next one, the      *)
(* message that is decoded into, the blocks of the heap, how many more can *)
(* be allocated, and whether all went well.                                *)

Failed(d) == [d EXCEPT !.ok = FALSE]

Content(byte) == byte % Power(Group)
More(byte)    == byte >= Power(Group)

(* The bytes of the varint at d.pos; none when the stream ends in it.      *)
Varint(d, end) ==
  LET last == {i \in d.pos..end : ~More(d.in[i])}
  IN  IF last = {} THEN <<>> ELSE SubSeq(d.in, d.pos, Min(last))

Bits(bytes, w) ==
  MapThenSumSet(LAMBDA i : Content(bytes[i]) * Power(Group * (i - 1)),
                {i \in DOMAIN bytes : Group * (i - 1) < w}) % Power(w)

pb_decode_varint(d, end) ==
  LET bytes == Varint(d, end)
  IN  [ok    |-> bytes # <<>> /\ Group * (Len(bytes) - 1) < W64,
       value |-> Bits(bytes, W64), pos |-> d.pos + Len(bytes)]

(* What comes after the bits must be zeros, or the sign of a negative      *)
(* number in 64 bits.                                                      *)
Overflows(bytes, value) ==
  LET bitpos(i) == Group * (i - 1)
      sign_extension(i) == IF bitpos(i) < W64 - 1 THEN Power(Group + 1) - 1 ELSE 1
      partial == (W32 - 1) \div Group + 1
  IN  \/ \E i \in DOMAIN bytes :
           /\ bitpos(i) >= W32 /\ Content(bytes[i]) # 0
           /\ (value < Power(W32 - 1) \/ bytes[i] # sign_extension(i))
      \/ /\ Len(bytes) = partial
         /\ bytes[partial] >= Power(W32 - bitpos(partial))

Varint32(bytes, pos) ==
  [ok |-> bytes # <<>> /\ ~Overflows(bytes, Bits(bytes, W32)), value |-> Bits(bytes, W32),
   pos |-> pos + Len(bytes)]

pb_decode_varint32(d, end) == Varint32(Varint(d, end), d.pos)

(* The end of the substream of the string at d.pos.                        *)
SubstreamOf(size, end) ==
  [ok |-> size.ok /\ size.pos + size.value - 1 <= end, pos |-> size.pos,
   end |-> size.pos + size.value - 1]

pb_make_string_substream(d, end) == SubstreamOf(pb_decode_varint32(d, end), end)

(* pb_skip_varint has no limit.  The wire types of numbers of a fixed size *)
(* are not in these messages.                                              *)
pb_skip_field(d, end, wiretype) ==
  LET bytes == Varint(d, end)
      sub   == pb_make_string_substream(d, end)
  IN  CASE wiretype = PB_WT_VARINT /\ bytes # <<>> -> [d EXCEPT !.pos = @ + Len(bytes)]
        [] wiretype = PB_WT_STRING /\ sub.ok       -> [d EXCEPT !.pos = sub.end + 1]
        [] OTHER                                   -> Failed(d)

(* What the decoder of the field stores, which is Fits if nothing is lost. *)
Stored(f, v) ==
  CASE f.ltype = "int64"   -> [value |-> Signed(v, W64), fits |-> TRUE]
    [] f.ltype = "int32"   -> [value |-> Signed(v, W32), fits |-> TRUE]
    [] f.ltype = "enum"    -> [value |-> v % Power(W32), fits |-> v < Power(W32)]
    [] f.ltype = "bool"    -> [value |-> IF v = 0 THEN 0 ELSE 1, fits |-> TRUE]
    [] f.ltype = "svarint" -> [value |-> IF v % 2 = 1 THEN -((v + 1) \div 2) ELSE v \div 2,
                               fits |-> TRUE]

DecodeScalar(f, d, end) ==
  LET v == IF f.ltype = "bool" THEN pb_decode_varint32(d, end) ELSE pb_decode_varint(d, end)
  IN  [ok |-> v.ok /\ Stored(f, v.value).fits, value |-> Stored(f, v.value).value, pos |-> v.pos]

-----------------------------------------------------------------------------
(* The heap *)

Default(type) ==
  [t \in {Fields[type][i].tag : i \in DOMAIN Fields[type]} |->
     LET f == CHOOSE f \in ToSet(Fields[type]) : f.tag = t
     IN  IF f.repeated THEN [items |-> <<>>, cap |-> 0] ELSE {}]

RECURSIVE pb_release(_, _)

(* The blocks that pb_release frees: those of the message's fields, of its *)
(* submessages and of the items of its arrays.                             *)
pb_release_single_field(f, v) ==
  LET inside == IF f.ltype # "submessage" THEN 0
                ELSE IF f.repeated
                THEN MapThenSumSet(LAMBDA i : pb_release(f.type, v.items[i]), DOMAIN v.items)
                ELSE MapThenSumSet(LAMBDA x : pb_release(f.type, x), v)
  IN  inside + IF f.repeated THEN IF v.cap > 0 THEN 1 ELSE 0
               ELSE IF f.ltype = "bytes" THEN Cardinality(v) ELSE 0

pb_release(type, message) ==
  MapThenSumSet(LAMBDA i : pb_release_single_field(Fields[type][i], message[Fields[type][i].tag]),
                DOMAIN Fields[type])

(* allocate_field: a new block, or the one that is there with another size.*)
allocate_field(d, new) ==
  IF d.left = 0 THEN Failed(d)
  ELSE [d EXCEPT !.left = @ - 1, !.live = @ + IF new THEN 1 ELSE 0]

-----------------------------------------------------------------------------
(* Decoding *)

RECURSIVE pb_decode_noinit(_, _, _)

(* pb_decode into an item of an array, which is released if that fails.    *)
ReleasedUnlessOk(type, r) ==
  IF r.ok THEN r
  ELSE [r EXCEPT !.live = @ - pb_release(type, r.dest), !.dest = Default(type)]

DecodeItem(type, d, end) ==
  ReleasedUnlessOk(type, pb_decode_noinit(type, [d EXCEPT !.dest = Default(type)], end))

(* Mistake: a submessage is begun anew each time.                          *)
FromDefault(f, d) == Default(f.type)

(* Required and optional submessages were initialized before.              *)
InitializedBefore(f, d) ==
  IF d.dest[f.tag] = {} THEN Default(f.type) ELSE CHOOSE x \in d.dest[f.tag] : TRUE

DecodeSubmessage(f, d, end) ==
  LET sub  == pb_make_string_substream(d, end)
      into == pb_decode_noinit(f.type, [d EXCEPT !.pos = sub.pos, !.dest = InitializedBefore(f, d)],
                               sub.end)
  IN  IF ~sub.ok THEN Failed(d)
      ELSE [into EXCEPT !.pos = sub.end + 1, !.dest = [d.dest EXCEPT ![f.tag] = {into.dest}]]

(* decode_static_field, of an optional field.                              *)
decode_static_field(f, d, end) ==
  LET v == DecodeScalar(f, d, end)
  IN  IF f.ltype = "submessage" THEN DecodeSubmessage(f, d, end)
      ELSE IF v.ok THEN [d EXCEPT !.pos = v.pos, !.dest[f.tag] = {v.value}]
      ELSE Failed(d)

(* pb_dec_bytes: the block is in the message before its bytes are read.    *)
DecodeBytes(f, d, end) ==
  LET size == pb_decode_varint32(d, end)
      a    == allocate_field(d, d.dest[f.tag] = {})
      last == size.pos + size.value - 1
  IN  IF ~size.ok THEN Failed(d)
      ELSE IF ~a.ok THEN a
      ELSE IF last > end THEN [Failed(a) EXCEPT !.dest[f.tag] = {<<>>}]
      ELSE [a EXCEPT !.pos = last + 1, !.dest[f.tag] = {SubSeq(d.in, size.pos, last)}]

(* An item at the end of an array, a submessage or a number.               *)
DecodeAppended(f, d, end) ==
  LET array == d.dest[f.tag]
      a     == [allocate_field(d, array.cap = 0) EXCEPT
                  !.dest[f.tag] = [@ EXCEPT !.cap = Len(array.items) + 1]]
      With(item) == [a.dest EXCEPT ![f.tag] = [@ EXCEPT !.items = Append(@, item)]]
      sub   == pb_make_string_substream(d, end)
      into  == DecodeItem(f.type, [a EXCEPT !.pos = sub.pos], sub.end)
      v     == DecodeScalar(f, d, end)
  IN  IF d.left = 0 THEN Failed(d)
      ELSE IF f.ltype # "submessage"
      THEN [a EXCEPT !.dest = With(v.value), !.pos = v.pos, !.ok = v.ok]
      ELSE IF ~sub.ok THEN [Failed(a) EXCEPT !.dest = With(Default(f.type))]
      ELSE [into EXCEPT !.pos = sub.end + 1, !.dest = With(into.dest)]

NeedsRoom(size, allocated_size) == size + 1 > allocated_size

(* The items of a packed array, in room for as many as may remain.         *)
RECURSIVE DecodePacked(_, _, _, _)
DecodePacked(f, d, end, allocated_size) ==
  LET array  == d.dest[f.tag]
      remain == (end - d.pos) \div EnumSize + 1
      grows  == NeedsRoom(Len(array.items), allocated_size)
      cap    == IF grows THEN allocated_size + remain ELSE allocated_size
      a      == IF ~grows THEN d
                ELSE [allocate_field(d, array.cap = 0) EXCEPT !.dest[f.tag] = [@ EXCEPT !.cap = cap]]
      v      == DecodeScalar(f, d, end)
  IN  IF ~d.ok \/ d.pos > end THEN d
      ELSE IF grows /\ d.left = 0 THEN Failed(d)
      ELSE IF ~v.ok THEN Failed(a)
      ELSE DecodePacked(f, [a EXCEPT !.pos = v.pos, !.dest[f.tag] =
                              [@ EXCEPT !.items = Append(@, v.value)]], end, cap)

decode_pointer_field(f, d, end, wiretype) ==
  LET sub == pb_make_string_substream(d, end)
  IN  IF ~f.repeated THEN DecodeBytes(f, d, end)
      ELSE IF wiretype = PB_WT_STRING /\ Packable(f)
      THEN IF ~sub.ok THEN Failed(d)
           ELSE DecodePacked(f, [d EXCEPT !.pos = sub.pos], sub.end, Len(d.dest[f.tag].items))
      ELSE DecodeAppended(f, d, end)

decode_field(f, d, end, wiretype) ==
  IF f.repeated \/ f.ltype = "bytes" THEN decode_pointer_field(f, d, end, wiretype)
  ELSE decode_static_field(f, d, end)

FieldWith(type, number) == {f \in ToSet(Fields[type]) : f.tag = number}

(* The field that the tag names, or what there is in its place.            *)
AfterTag(here, wiretype, d, end) ==
  IF here = {} THEN pb_skip_field(d, end, wiretype)
  ELSE decode_field(CHOOSE f \in here : TRUE, d, end, wiretype)

(* A tag of zero ends the message.                                         *)
AtTag(type, tag, d, end) ==
  IF ~tag.ok THEN Failed(d)
  ELSE IF tag.value = 0 THEN [d EXCEPT !.pos = tag.pos]
  ELSE pb_decode_noinit(type, AfterTag(FieldWith(type, tag.value \div 8), tag.value % 8,
                                       [d EXCEPT !.pos = tag.pos], end), end)

pb_decode_noinit(type, d, end) ==
  IF ~d.ok \/ d.pos > end THEN d ELSE AtTag(type, pb_decode_varint32(d, end), d, end)

(* Mistake: what a failed decode has allocated is left to the caller.      *)
pb_decode_only(type, bytes, heap, allocations) ==
  pb_decode_noinit(type, [in |-> bytes, pos |-> 1, dest |-> Default(type), live |-> heap,
                          left |-> allocations, ok |-> TRUE], Len(bytes))

pb_decode(type, bytes, heap, allocations) ==
  DecodeItem(type, [in |-> bytes, pos |-> 1, dest |-> Default(type), live |-> heap,
                    left |-> allocations, ok |-> TRUE], Len(bytes))

-----------------------------------------------------------------------------
(* What the transport does: it encodes, what it receives it decodes, and   *)
(* it releases what it decoded.                                            *)

Init == /\ sent = <<>> /\ buffer = <<>> /\ whole = TRUE
        /\ reader \in Readers /\ dest = Default(reader) /\ live = 0 /\ status = "none"

Encode == /\ status = "none" /\ whole /\ Len(sent) < MaxSent
          /\ \E m \in Sent : /\ sent' = Append(sent, m)
                             /\ buffer' = buffer \o pb_encode(Writer, m)
          /\ UNCHANGED <<whole, reader, dest, live, status>>

Truncate == /\ status = "none" /\ whole /\ sent # <<>>
            /\ \E n \in 0..(Len(buffer) - 1) : buffer' = SubSeq(buffer, 1, n)
            /\ whole' = FALSE
            /\ UNCHANGED <<sent, reader, dest, live, status>>

Returns(d) == /\ dest' = d.dest /\ live' = d.live
              /\ status' = IF d.ok THEN "ok" ELSE IF d.left = 0 THEN "full" ELSE "failed"

Decode == /\ status = "none" /\ sent # <<>>
          /\ \E allocations \in Allocations :
               Returns(pb_decode(reader, buffer, live, allocations))
          /\ UNCHANGED <<sent, buffer, whole, reader>>

Release == /\ status = "ok"
           /\ live' = live - pb_release(reader, dest) /\ dest' = Default(reader)
           /\ status' = "released"
           /\ UNCHANGED <<sent, buffer, whole, reader>>

Next == Encode \/ Truncate \/ Decode \/ Release

Spec == Init /\ [][Next]_vars

-----------------------------------------------------------------------------
(* Properties *)

(* The message without the room its arrays have.                           *)
RECURSIVE ValueOf(_, _)
ValueOf(type, m) ==
  [t \in DOMAIN m |->
     LET f == CHOOSE f \in ToSet(Fields[type]) : f.tag = t
         V(x) == IF f.ltype = "submessage" THEN ValueOf(f.type, x) ELSE x
     IN  IF f.repeated THEN [i \in DOMAIN m[t].items |-> V(m[t].items[i])]
         ELSE {V(x) : x \in m[t]}]

(* What protocol buffers say of a message after another: the last value of *)
(* a field counts, submessages are merged, arrays are concatenated.  Of the*)
(* fields, those that the reader knows.                                    *)
RECURSIVE Merge(_, _, _)
Merge(type, a, b) ==
  [t \in DOMAIN Default(type) |->
     LET f == CHOOSE f \in ToSet(Fields[type]) : f.tag = t
         The(s) == CHOOSE x \in s : TRUE
     IN  IF f.repeated THEN a[t] \o b[t]
         ELSE IF b[t] = {} THEN a[t]
         ELSE IF f.ltype = "submessage" /\ a[t] # {} THEN {Merge(f.type, The(a[t]), The(b[t]))}
         ELSE b[t]]

Expected ==
  LET after[n \in 0..Len(sent)] ==
        IF n = 0 THEN ValueOf(Writer, Default(Writer))
        ELSE LET m == after[n - 1] IN Merge(Writer, m, sent[n])
  IN  [t \in DOMAIN dest |-> after[Len(sent)][t]]

(* What was encoded is decoded, unless the heap is full: numbers of any    *)
(* sign, arrays in one piece and in several, and fields of a later version *)
(* of the message, which are skipped.  Encodings one after the other are   *)
(* the encoding of the merged message.                                     *)
DecodesWhatWasSent ==
  (whole /\ status \notin {"none", "full"}) =>
    /\ status # "failed"
    /\ status = "ok" => ValueOf(reader, dest) = Expected

(* Every block of the heap can be reached from the message until it is     *)
(* released, and none is left after a decode that failed, wherever the     *)
(* bytes end and whichever allocation fails.                               *)
NothingLeaks == /\ live = pb_release(reader, dest)
                /\ status \notin {"none", "ok"} => live = 0

(* The items of an array are within its block.                             *)
RECURSIVE Fits(_, _)
Fits(type, m) ==
  \A t \in DOMAIN m :
    LET f == CHOOSE f \in ToSet(Fields[type]) : f.tag = t
    IN  /\ f.repeated => Len(m[t].items) <= m[t].cap
        /\ f.ltype = "submessage" =>
             \A x \in (IF f.repeated THEN ToSet(m[t].items) ELSE m[t]) : Fits(f.type, x)

ItemsFit == status = "ok" => Fits(reader, dest)
=============================================================================
