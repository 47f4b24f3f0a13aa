------------------------------ MODULE MainCells ------------------------------
(***************************************************************************)
(* The rows of the main scene on the screen: the table view's data source  *)
(* in MainViewController.swift, and the three kinds of cell with their     *)
(* `config' functions.  The table view (external) asks for a cell when a   *)
(* row comes onto the screen, takes it back into its reuse pool when the   *)
(* row leaves or the table is reloaded, and hands it out again for another *)
(* row of the same kind, its outlets as the last row left them.            *)
(*                                                                         *)
(* An outlet holds the row entry its value was taken from; texts, colours  *)
(* and sizes themselves do not matter here.                                *)
(***************************************************************************)
EXTENDS Integers, Sequences

CONSTANTS
  Entries,       \* the list elements there are, the notification row's aside
  Noti,          \* the element the presenter inserts above them
  DisplayTypeOfEntry, \* displayType of an element
  HasDisplay,    \* whether it has a display
  FieldsOf,      \* its outlets' values that are there and not empty
  Cells,         \* bound: the reusable cells the table view can make
  Window,        \* the rows the screen shows at once
  MaxRows        \* bound: no page is added to a list of this many rows

NoElement == "nothing"             \* an outlet without a value
NoCell    == [kind |-> "not made"] \* a cell the table view has not made

Elements == Entries \cup {Noti}
Kinds    == {"MainListCell", "MainNoBackCell", "MainNotiCell"}

(* The outlets of MainListCell and MainNoBackCell whose Height0 or Width0  *)
(* constraint collapses them, and the values that are reset instead.       *)
Collapsing(kind) ==
  CASE kind = "MainListCell"   -> {"headerTitle", "mainTitle", "subTitle", "dDay",
                                   "labelText", "labelImg", "centerImg"}
    [] kind = "MainNoBackCell" -> {"title", "subTitle", "rightImg"}
    [] kind = "MainNotiCell"   -> {}

Resetting(kind) ==
  IF kind = "MainListCell" THEN {"backImg", "mainColor", "fontColor"} ELSE {}

Outlets(kind) == Collapsing(kind) \cup Resetting(kind)
AllOutlets    == UNION {Outlets(kind) : kind \in Kinds}

Cell(kind) == [kind      : {kind},
               holds     : [Outlets(kind) -> Elements \cup {NoElement}],
               collapsed : SUBSET Collapsing(kind)]

ASSUME CellsAssumption ==
  /\ Noti \notin Entries
  /\ NoElement \notin Elements /\ "blank" \notin Cells
  /\ DisplayTypeOfEntry \in [Elements -> {"default", "noBack", "none"}]
  /\ DisplayTypeOfEntry[Noti] = "none"
  /\ HasDisplay \in [Elements -> BOOLEAN]
  /\ FieldsOf \in [Elements -> SUBSET AllOutlets]
  /\ Window \in Nat /\ MaxRows \in Nat


VARIABLES
  listed,     \* MainViewController.list.list
  tableTop, \* the first row on the screen
  cells,    \* of each reusable cell made: kind, outlet values, what is collapsed
  visible   \* the cell of each row that has one: a reusable one, or "blank"

cellVars == <<listed, tableTop, cells, visible>>

InitCells ==
  /\ listed = <<>> /\ tableTop = 1
  /\ cells = [c \in Cells |-> NoCell]
  /\ visible = <<>>

Made   == {c \in Cells : cells[c] # NoCell}
InUse  == {visible[i] : i \in DOMAIN visible}
Pool(kind) == {c \in Made \ InUse : cells[c].kind = kind}
OnScreen   == tableTop..(tableTop + Window - 1)

(* A cell as the storyboard's prototype has it: nothing collapsed.         *)
Prototype(kind) ==
  [kind |-> kind, holds |-> [o \in Outlets(kind) |-> NoElement], collapsed |-> {}]

-----------------------------------------------------------------------------
(* displayGetList, with the rows the completed page appended and, if this  *)
(* is the first page and it does not begin with an entry of category noti, *)
(* the notification row above them: reloadData takes back all cells.       *)
DisplayGetList(above, more) ==
  /\ above # <<>> => listed = <<>>
  /\ listed' = above \o listed \o more
  /\ visible' = <<>>
  /\ UNCHANGED <<tableTop, cells>>

(* dequeueReusableCell(withIdentifier:for:): a cell of the pool, or, when  *)
(* it has none of the kind, a new one.                                     *)
Dequeue(kind, c) ==
  \/ c \in Pool(kind)
  \/ Pool(kind) = {} /\ c \in Cells \ Made

Dequeued(kind, c) == IF c \in Made THEN cells[c] ELSE Prototype(kind)

(* A plausible slip: backImg and the colours keep their values.            *)
ConfigKeepingValues(cell, ele) ==
  LET given == FieldsOf[ele] \cap Outlets(cell.kind)
  IN  [kind      |-> cell.kind,
       holds     |-> [o \in Outlets(cell.kind) |-> IF o \in given THEN ele ELSE cell.holds[o]],
       collapsed |-> Collapsing(cell.kind) \ given]

(* MainListCell.config and MainNoBackCell.config on a dequeued cell: each  *)
(* value the element has is set and its constraint broken; of the others   *)
(* some collapse, keeping an old value, and some are reset.                *)
(* MainNotiCell.config sets nothing.                                       *)
Config(cell, ele) ==
  LET given == FieldsOf[ele] \cap Outlets(cell.kind)
  IN  [kind      |-> cell.kind,
       holds     |-> [o \in Outlets(cell.kind) |->
                        IF o \in given THEN ele
                        ELSE IF o \in Resetting(cell.kind) THEN NoElement
                        ELSE cell.holds[o]],
       collapsed |-> Collapsing(cell.kind) \ given]

KindOf(ele) ==
  CASE DisplayTypeOfEntry[ele] = "default" -> "MainListCell"
    [] DisplayTypeOfEntry[ele] = "noBack"  -> "MainNoBackCell"
    [] DisplayTypeOfEntry[ele] = "none"    -> "MainNotiCell"

(* A blank UITableViewCell stands for an element whose kind needs a        *)
(* display it does not have; the cell dequeued for it is lost.             *)
IsBlank(ele) == KindOf(ele) # "MainNotiCell" /\ ~HasDisplay[ele]

(* tableView(_:cellForRowAt:), for a row that came onto the screen.        *)
CellForRow(i) ==
  /\ i \in (OnScreen \cap (1..Len(listed))) \ DOMAIN visible
  /\ LET ele  == listed[i]
         kind == KindOf(ele)
     IN  \E c \in Cells :
           /\ Dequeue(kind, c)
           /\ cells' = [cells EXCEPT ![c] = IF IsBlank(ele) THEN NoCell
                                            ELSE Config(Dequeued(kind, c), ele)]
           /\ visible' = [j \in DOMAIN visible \cup {i} |->
                            IF j # i THEN visible[j]
                            ELSE IF IsBlank(ele) THEN "blank" ELSE c]
  /\ UNCHANGED <<listed, tableTop>>

(* The table view takes back the cell of a row that left the screen.       *)
EndDisplaying(i) ==
  /\ i \in DOMAIN visible \ OnScreen
  /\ visible' = [j \in DOMAIN visible \ {i} |-> visible[j]]
  /\ UNCHANGED <<listed, tableTop, cells>>

(* The user scrolls by a row; the table view has laid the rows out before. *)
ScrollRow(to) ==
  /\ to \in 1..Len(listed) /\ to \in {tableTop - 1, tableTop + 1}
  /\ DOMAIN visible = OnScreen \cap (1..Len(listed))
  /\ tableTop' = to
  /\ UNCHANGED <<listed, cells, visible>>

NextCells ==
  \/ \E ele \in Entries, above \in {<<>>, <<Noti>>} :
       Len(listed) < MaxRows /\ DisplayGetList(above, <<ele>>)
  \/ \E i \in 1..(MaxRows + 1) : CellForRow(i) \/ EndDisplaying(i) \/ ScrollRow(i)

SpecCells == InitCells /\ [][NextCells]_cellVars

-----------------------------------------------------------------------------
(* Rows and cells refer to each other as the table view has them, and no   *)
(* cell serves two rows.                                                   *)
CellsTypeOK ==
  /\ listed \in Seq(Elements)
  /\ tableTop \in Nat \ {0}
  /\ cells \in [Cells -> {NoCell} \cup Cell("MainListCell") \cup Cell("MainNoBackCell")
                                 \cup Cell("MainNotiCell")]
  /\ DOMAIN visible \subseteq 1..Len(listed)
  /\ \A i, j \in DOMAIN visible :
       /\ visible[i] \in Made \cup {"blank"}
       /\ visible[i] = visible[j] /\ visible[i] # "blank" => i = j

(* What the user sees of a row: the values that are neither missing nor    *)
(* collapsed.                                                              *)
Seen(cell) ==
  {<<o, cell.holds[o]>> : o \in {p \in Outlets(cell.kind) \ cell.collapsed :
                                   cell.holds[p] # NoElement}}

(* Whatever rows its cell has served before, and although the list grows   *)
(* under the table while the user scrolls, a row on the screen shows all   *)
(* values of its own element, in a cell of its display type, and none of   *)
(* another's.                                                              *)
ShowsOwnRow ==
  \A i \in DOMAIN visible :
    LET ele == listed[i]
    IN  IF visible[i] = "blank" THEN IsBlank(ele)
        ELSE LET cell == cells[visible[i]]
             IN  /\ cell.kind = KindOf(ele)
                 /\ Seen(cell) = {<<o, ele>> : o \in FieldsOf[ele] \cap Outlets(cell.kind)}
=============================================================================
