----------------------------- MODULE MainModels -----------------------------
(***************************************************************************)
(* The data of the main scene, after Scene/Main/MainModels.swift and       *)
(* Service/FBDatabase.swift: the entries of the Firebase node "list", the  *)
(* key-ordered query over them, and the operations of the class Main.List. *)
(*                                                                         *)
(* Keys are natural numbers, because all the code does with a key is       *)
(* compare it (queryOrderedByKey sorts ids such as "id_20210204130000").       *)
(* Nothing here is recursive: an ordered sequence is characterised by its  *)
(* set of elements, so that the definitions can be reasoned about.         *)
(***************************************************************************)
EXTENDS Integers, Sequences, FiniteSets

CONSTANTS
  Keys,          \* the keys entries of "list" can have
  PAGE_SIZE,     \* Main.GetList.PAGE_SIZE, 10 in the source
  DisplayTypeOf, \* displayType of the entry under a key, "nil" if not decodable
  CategoryOf,    \* category of the entry under a key, "nil" if not decodable
  ImagesOf       \* the image fields of the entry that name a file

EMPTY_KEY == 0   \* the string "", below every key
FIRST_KEY == 1   \* "id_00000000000000", below every key of an entry
NoKey     == -1  \* the key `nil' of the notification row

DisplayTypes == {"default", "noBack", "none"}
Categories   == {"coupon", "feature", "news", "noti", "shop"}
ImageFields  == {"iconImg", "backImg", "labelImg", "centerImg", "rightImg"}

ASSUME ModelAssumption ==
  /\ Keys \subseteq Nat /\ IsFiniteSet(Keys)
  /\ \A k \in Keys : k > FIRST_KEY        \* ids carry a real time stamp
  /\ PAGE_SIZE \in Nat \ {0}
  /\ DisplayTypeOf \in [Keys -> DisplayTypes \cup {"nil"}]
  /\ CategoryOf \in [Keys -> Categories \cup {"nil"}]
  /\ ImagesOf \in [Keys -> SUBSET ImageFields]

(***************************************************************************)
(* Values.  A row is a ListElement: its key and the image data it holds,   *)
(* each datum tagged with the entry whose file it was read from.  A        *)
(* download is an outstanding FBStorage.imageData call: the index its      *)
(* closure captured and the file it reads.                                 *)
(***************************************************************************)
Image    == [owner : Keys, field : ImageFields]
Row      == [key : Keys \cup {NoKey}, data : SUBSET Image]
Download == [idx : Nat \ {0}, owner : Keys, field : ImageFields]
Cursor   == Keys \cup {EMPTY_KEY, FIRST_KEY}

Header == [key |-> NoKey, data |-> {}]

(* The keys in a sequence of rows, the notification row's nil left out. *)
KeysOf(rows) == {rows[i].key : i \in 1..Len(rows)} \ {NoKey}

(***************************************************************************)
(* The query of FBDatabase.listPagination.                                 *)
(***************************************************************************)

(* A plausible slip: a query that starts after the cursor.                 *)
QueryPageAfter(server, lastKey, size) ==
  LET started == {k \in server : k > lastKey}
  IN  {k \in started : Cardinality({j \in started : j < k}) < size}

(* queryStarting(atValue: lastKey) and queryLimited(toFirst: size): the    *)
(* entries no smaller than the cursor that fewer than size others precede. *)
QueryPage(server, lastKey, size) ==
  LET started == {k \in server : k >= lastKey}
  IN  {k \in started : Cardinality({j \in started : j < k}) < size}

(* The sequences that list S in ascending order (there is exactly one for  *)
(* a finite set of keys): what a snapshot ordered by key enumerates.       *)
OrderedByKey(S) ==
  {s \in [1..Cardinality(S) -> S] :
     /\ \A i, j \in DOMAIN s : i < j => s[i] < s[j]
     /\ \A k \in S : \E i \in DOMAIN s : s[i] = k}

(* list.removeFirst() on every page but the first traps on an empty array. *)
RemoveFirstTraps(children, lastKey) ==
  lastKey # FIRST_KEY /\ children = <<>>

(* Plausible slips: no row is dropped; one is dropped from the first page. *)
RemoveNothing(children, lastKey) == children
RemoveFirstAlways(children, lastKey) == Tail(children)

RemoveFirst(children, lastKey) ==
  IF lastKey # FIRST_KEY THEN Tail(children) ELSE children

(***************************************************************************)
(* class Main.List                                                         *)
(***************************************************************************)

(* initWith(objs:) walks the children in order and appends the entries     *)
(* that have a display type.  The children of a snapshot have distinct     *)
(* keys, so its eleSet never rejects one here.                             *)
InitWith(objs) ==
  LET kept == {objs[i] : i \in {j \in 1..Len(objs) : DisplayTypeOf[objs[j]] # "nil"}}
  IN  {[i \in 1..Len(s) |-> [key |-> s[i], data |-> {}]] : s \in OrderedByKey(kept)}

(* setImageData(ele:idx:): one download per image field that names a file, *)
(* its closure holding the index the element has in the new list.          *)
SetImageData(rows) ==
  UNION {{[idx |-> i, owner |-> rows[i].key, field |-> f] :
            f \in ImagesOf[rows[i].key]} : i \in 1..Len(rows)}

(* update(indexOf:block:) with the block of setImageData: the datum is     *)
(* assigned, nil when the download failed; out of range, nothing happens.  *)
Update(rows, d, loaded) ==
  LET img == [owner |-> d.owner, field |-> d.field]
  IN  IF d.idx > Len(rows) THEN rows
      ELSE [rows EXCEPT ![d.idx].data = IF loaded THEN @ \cup {img} ELSE @ \ {img}]

(* category of a row; the notification row is built with category .noti    *)
Category(row) == IF row.key = NoKey THEN "noti" ELSE CategoryOf[row.key]

(* A plausible slip: the new page above the old ones.                      *)
PrependList(list, rows) == rows \o list

(* append(contensOf:) *)
AppendList(list, rows) == list \o rows

(* insertOnce: `first.category!' traps when the first row has no category. *)
InsertTraps(list) == list # <<>> /\ Category(list[1]) = "nil"

(* A plausible slip: no guard.                                             *)
InsertAlways(list) == <<Header>> \o list

(* insertOnce(element:at:) with the presenter's arguments: notiEle at 0.   *)
InsertOnce(list) ==
  IF list # <<>> /\ Category(list[1]) # "noti" THEN <<Header>> \o list ELSE list

(* object(indexOf: count-1)?.key ?? "".  The guard idx < count lets -1     *)
(* through, so on an empty list the subscript traps (LastKeyTraps).        *)
LastKeyTraps(list) == list = <<>>

(* A plausible slip: the first row's key.                                  *)
KeyOfFirstRow(list) == list[1].key

LastKey(list) ==
  LET key == list[Len(list)].key
  IN  IF key = NoKey THEN EMPTY_KEY ELSE key

=============================================================================
