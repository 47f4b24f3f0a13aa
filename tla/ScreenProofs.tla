---------------------------- MODULE ScreenProofs ----------------------------
(***************************************************************************)
(* What the main screen shows beside its paging: cells and panel.          *)
(***************************************************************************)
EXTENDS MainCells, SwipeView, TLAPS

-----------------------------------------------------------------------------
(***************************************************************************)
(* Every row on the screen shows its own element, for any entries, any     *)
(* number of cells, any screen and any bound on the list.                  *)
(***************************************************************************)

(* A cell configured for an element is well formed and shows the element   *)
(* alone, whatever its outlets held before.                                *)
LEMMA ConfigShows ==
  ASSUME NEW kind \in Kinds, NEW cell \in Cell(kind), NEW ele \in Elements
  PROVE  /\ Config(cell, ele) \in Cell(kind)
         /\ Seen(Config(cell, ele)) = {<<o, ele>> : o \in FieldsOf[ele] \cap Outlets(kind)}
<1> DEFINE given == FieldsOf[ele] \cap Outlets(kind)
           holds == [o \in Outlets(kind) |->
                       IF o \in given THEN ele
                       ELSE IF o \in Resetting(kind) THEN NoElement
                       ELSE cell.holds[o]]
           made  == [kind |-> kind, holds |-> holds, collapsed |-> Collapsing(kind) \ given]
<1>1. Config(cell, ele) = made
  BY DEF Config, Cell
<1>2. cell.holds \in [Outlets(kind) -> Elements \cup {NoElement}]
  BY DEF Cell
<1>3. made \in Cell(kind)
  BY <1>2 DEF Cell
<1>4. NoElement # ele
  BY CellsAssumption DEF CellsAssumption
<1>5. ASSUME NEW o \in Outlets(kind)
      PROVE  /\ (o \notin Collapsing(kind) \ given /\ holds[o] # NoElement) <=> o \in given
             /\ o \in given => holds[o] = ele
  <2>1. o \in Collapsing(kind) \/ o \in Resetting(kind)
    BY DEF Outlets
  <2>2. CASE o \in given
    BY <1>4, <2>2
  <2>3. CASE o \notin given
    BY <2>1, <2>3
  <2> QED BY <2>2, <2>3
<1>6. Seen(made) = {<<o, holds[o]>> : o \in {p \in Outlets(kind) \ (Collapsing(kind) \ given) :
                                                holds[p] # NoElement}}
  BY DEF Seen
<1>7. {p \in Outlets(kind) \ (Collapsing(kind) \ given) : holds[p] # NoElement} = given
  <2> HIDE DEF holds
  <2> QED BY <1>5
<1>8. Seen(made) = {<<o, ele>> : o \in given}
  <2> HIDE DEF holds, made
  <2> QED BY <1>5, <1>6, <1>7
<1> QED BY <1>1, <1>3, <1>8

(* What is known of a cell that was made, and of one that is dequeued.     *)
LEMMA MadeCells ==
  ASSUME CellsTypeOK
  PROVE  /\ \A c \in Made : cells[c].kind \in Kinds /\ cells[c] \in Cell(cells[c].kind)
         /\ \A kind \in Kinds : NoCell \notin Cell(kind)
<1>1. \A kind \in Kinds : \A cell \in Cell(kind) : cell.kind = kind
  BY DEF Cell
<1>2. \A kind \in Kinds : NoCell \notin Cell(kind)
  BY <1>1 DEF NoCell, Kinds
<1>3. ASSUME NEW c \in Made
      PROVE  cells[c].kind \in Kinds /\ cells[c] \in Cell(cells[c].kind)
  <2>1. PICK kind \in Kinds : cells[c] \in Cell(kind)
    BY DEF CellsTypeOK, Made, Kinds
  <2> QED BY <2>1, <1>1
<1> QED BY <1>2, <1>3

LEMMA DequeuedCell ==
  ASSUME CellsTypeOK, NEW kind \in Kinds, NEW c \in Cells, Dequeue(kind, c)
  PROVE  c \notin InUse /\ Dequeued(kind, c) \in Cell(kind)
<1>1. Prototype(kind) \in Cell(kind)
  BY DEF Prototype, Cell
<1>2. c \notin Made => c \notin InUse
  BY CellsAssumption DEF CellsTypeOK, InUse, Made, CellsAssumption
<1> QED BY <1>1, <1>2, MadeCells DEF Dequeue, Dequeued, Pool

(* The invariant, as it is: shown rows, well-formed cells, one row each.   *)
CellsInv == CellsTypeOK /\ ShowsOwnRow

LEMMA CellsInit == InitCells => CellsInv
<1> SUFFICES ASSUME InitCells PROVE CellsInv
  OBVIOUS
<1>1. DOMAIN visible = {}
  BY DEF InitCells
<1>2. listed \in Seq(Elements) /\ tableTop \in Nat \ {0}
  BY DEF InitCells
<1> QED BY <1>1, <1>2 DEF InitCells, CellsInv, CellsTypeOK, ShowsOwnRow

LEMMA DisplayKeepsCells ==
  ASSUME CellsInv, NEW ele \in Entries, NEW above \in {<<>>, <<Noti>>},
         DisplayGetList(above, <<ele>>)
  PROVE  CellsInv'
<1>1. DOMAIN visible' = {}
  BY DEF DisplayGetList
<1>2. listed' \in Seq(Elements)
  <2>0. ele \in Elements /\ Noti \in Elements
    BY DEF Elements
  <2>1. listed \in Seq(Elements) /\ <<ele>> \in Seq(Elements) /\ <<Noti>> \in Seq(Elements)
    BY <2>0 DEF CellsInv, CellsTypeOK
  <2>2. above \in Seq(Elements)
    <3>1. CASE above = <<>>
      BY <3>1
    <3>2. CASE above = <<Noti>>
      BY <2>1, <3>2
    <3> QED BY <3>1, <3>2
  <2>3. above \o listed \in Seq(Elements)
    BY <2>1, <2>2
  <2>4. (above \o listed) \o <<ele>> \in Seq(Elements)
    BY <2>1, <2>3
  <2> QED BY <2>4 DEF DisplayGetList
<1> QED BY <1>1, <1>2 DEF DisplayGetList, CellsInv, CellsTypeOK, ShowsOwnRow

LEMMA CellForRowKeepsCells ==
  ASSUME CellsInv, NEW i, CellForRow(i)
  PROVE  CellsInv'
<1> DEFINE ele  == listed[i]
           kind == KindOf(ele)
<1>1. i \in 1..Len(listed) /\ i \notin DOMAIN visible
  BY DEF CellForRow
<1>2. ele \in Elements
  BY <1>1 DEF CellsInv, CellsTypeOK
<1>3. kind \in Kinds
  BY <1>2, CellsAssumption DEF CellsAssumption, KindOf, Kinds
<1>4. PICK c \in Cells :
        /\ Dequeue(kind, c)
        /\ cells' = [cells EXCEPT ![c] = IF IsBlank(ele) THEN NoCell
                                         ELSE Config(Dequeued(kind, c), ele)]
        /\ visible' = [j \in DOMAIN visible \cup {i} |->
                         IF j # i THEN visible[j]
                         ELSE IF IsBlank(ele) THEN "blank" ELSE c]
  BY DEF CellForRow
<1> DEFINE made == Config(Dequeued(kind, c), ele)
<1>5. c \notin InUse /\ Dequeued(kind, c) \in Cell(kind)
  BY <1>3, <1>4, DequeuedCell DEF CellsInv
<1>6. /\ made \in Cell(kind)
      /\ Seen(made) = {<<o, ele>> : o \in FieldsOf[ele] \cap Outlets(kind)}
  BY <1>2, <1>3, <1>5, ConfigShows
<1>7. made.kind = kind /\ made # NoCell /\ c # "blank"
  BY <1>3, <1>6, MadeCells, CellsAssumption DEF CellsInv, Cell, CellsAssumption
<1> HIDE DEF made, kind, ele
<1>8. /\ UNCHANGED <<listed, tableTop>>
      /\ DOMAIN visible' = DOMAIN visible \cup {i}
      /\ \A j \in DOMAIN visible : visible'[j] = visible[j] /\ visible[j] # c
      /\ visible'[i] = IF IsBlank(ele) THEN "blank" ELSE c
  BY <1>1, <1>4, <1>5 DEF CellForRow, InUse
<1>9. /\ cells'[c] = IF IsBlank(ele) THEN NoCell ELSE made
      /\ \A b \in Cells \ {c} : cells'[b] = cells[b]
      /\ cells' \in [Cells -> {NoCell} \cup Cell("MainListCell") \cup Cell("MainNoBackCell")
                                  \cup Cell("MainNotiCell")]
  <2>1. /\ cells \in [Cells -> {NoCell} \cup Cell("MainListCell") \cup Cell("MainNoBackCell")
                                      \cup Cell("MainNotiCell")]
        /\ cells' = [cells EXCEPT ![c] = IF IsBlank(ele) THEN NoCell ELSE made]
    BY <1>4 DEF CellsInv, CellsTypeOK, made
  <2>2. made \in Cell("MainListCell") \cup Cell("MainNoBackCell") \cup Cell("MainNotiCell")
    BY <1>3, <1>6 DEF Kinds
  <2> QED BY <2>1, <2>2
<1>10. \A j \in DOMAIN visible : visible[j] # "blank" => cells'[visible[j]] = cells[visible[j]]
  BY <1>8, <1>9 DEF CellsInv, CellsTypeOK, Made
<1>11. CellsTypeOK'
  BY <1>1, <1>7, <1>8, <1>9, <1>10 DEF CellsInv, CellsTypeOK, Made
<1>12. ShowsOwnRow'
  <2> SUFFICES ASSUME NEW j \in DOMAIN visible'
               PROVE  IF visible'[j] = "blank" THEN IsBlank(listed[j])
                      ELSE LET cell == cells'[visible'[j]]
                           IN  /\ cell.kind = KindOf(listed[j])
                               /\ Seen(cell) = {<<o, listed[j]>> :
                                                  o \in FieldsOf[listed[j]] \cap Outlets(cell.kind)}
    BY <1>8 DEF ShowsOwnRow, Seen, Outlets, Collapsing, Resetting
  <2>1. CASE j \in DOMAIN visible
    BY <2>1, <1>8, <1>10 DEF CellsInv, ShowsOwnRow
  <2>2. CASE j = i
    BY <2>2, <1>6, <1>7, <1>8, <1>9 DEF ele, kind
  <2> QED BY <2>1, <2>2, <1>8
<1> QED BY <1>11, <1>12 DEF CellsInv

LEMMA EndDisplayingKeepsCells ==
  ASSUME CellsInv, NEW i, EndDisplaying(i)
  PROVE  CellsInv'
<1>1. /\ UNCHANGED <<listed, tableTop, cells>>
      /\ DOMAIN visible' = DOMAIN visible \ {i}
      /\ \A j \in DOMAIN visible' : visible'[j] = visible[j]
  BY DEF EndDisplaying
<1> QED BY <1>1 DEF CellsInv, CellsTypeOK, ShowsOwnRow, Made

LEMMA StepKeepsCells == CellsInv /\ [NextCells]_cellVars => CellsInv'
<1> SUFFICES ASSUME CellsInv, [NextCells]_cellVars PROVE CellsInv'
  OBVIOUS
<1>1. ASSUME NEW ele \in Entries, NEW above \in {<<>>, <<Noti>>},
             DisplayGetList(above, <<ele>>)
      PROVE  CellsInv'
  BY <1>1, DisplayKeepsCells
<1>2. ASSUME NEW i, CellForRow(i) PROVE CellsInv'
  BY <1>2, CellForRowKeepsCells
<1>3. ASSUME NEW i, EndDisplaying(i) PROVE CellsInv'
  BY <1>3, EndDisplayingKeepsCells
<1>4. ASSUME NEW i, ScrollRow(i) PROVE CellsInv'
  BY <1>4 DEF ScrollRow, CellsInv, CellsTypeOK, ShowsOwnRow, Made
<1>5. CASE UNCHANGED cellVars
  BY <1>5 DEF cellVars, CellsInv, CellsTypeOK, ShowsOwnRow, Made
<1> QED BY <1>1, <1>2, <1>3, <1>4, <1>5 DEF NextCells

(* No cell serves two rows, and cells and rows keep to their values.       *)
THEOREM CellsTypeCorrect == SpecCells => []CellsTypeOK
<1>1. CellsInv => CellsTypeOK
  BY DEF CellsInv
<1> QED BY <1>1, CellsInit, StepKeepsCells, PTL DEF SpecCells

(* A row on the screen shows its own element and nothing that an earlier   *)
(* row left in its cell, in whatever order rows come, go and are added.    *)
THEOREM RowsShowThemselves == SpecCells => []ShowsOwnRow
<1>1. CellsInv => ShowsOwnRow
  BY DEF CellsInv
<1> QED BY <1>1, CellsInit, StepKeepsCells, PTL DEF SpecCells

-----------------------------------------------------------------------------
(***************************************************************************)
(* The panel of SwipeView on a screen of any size, for any limits in the   *)
(* order PanelLimits gives them and any movements of finger and table.     *)
(***************************************************************************)

(* Nothing disturbs a pan: the table is still and no touch is taken away.  *)
Undisturbed == ~TableMovesDuringPan /\ ~TouchesCancelled

Edges == {SWIPE_TOP_LIMIT, START, SWIPE_BOTTOM_LIMIT, HEIGHT}

(* One finger: either the table moves or the panel is being pulled, and    *)
(* only an undimmed table moves.                                           *)
OneGesture == (panning => ~scrolling) /\ (scrolling => dim = 0)

-----------------------------------------------------------------------------
LEMMA ClampType == ASSUME PanelLimits, NEW v \in Int PROVE Clamp(v) \in 0..FULL
  BY DEF PanelLimits, Clamp, FULL

(* The panel ends a move between its limits, also one that was below the   *)
(* screen when the table moved it there.                                   *)
LEMMA MoveType ==
  ASSUME PanelLimits, TypeOK, NEW t \in Translations
  PROVE  MoveSwipeView(t) \in SWIPE_TOP_LIMIT..SWIPE_BOTTOM_LIMIT
  BY DEF PanelLimits, TypeOK, MoveSwipeView

LEMMA TypeInit == PanelLimits /\ Init => TypeOK
  <1> SUFFICES ASSUME PanelLimits, Init PROVE TypeOK
    OBVIOUS
  <1>1. y \in SWIPE_TOP_LIMIT..SWIPE_BOTTOM_LIMIT /\ 0 \in 0..FULL
    BY DEF PanelLimits, Init, FULL
  <1>2. scrolling \in BOOLEAN /\ panning \in BOOLEAN
    BY Zenon DEF Init
  <1> QED BY <1>1, <1>2 DEF PanelLimits, Init, TypeOK

LEMMA FollowType ==
  ASSUME PanelLimits, TypeOK, NEW t \in Translations, FollowFinger(MoveSwipeView(t))
  PROVE  /\ y' \in SWIPE_TOP_LIMIT..SWIPE_BOTTOM_LIMIT \cup {HEIGHT}
         /\ dim' \in 0..FULL /\ header' \in 0..FULL /\ label' \in 0..FULL
  <1> DEFINE div == y - SWIPE_TOP_LIMIT
  <1>1. div \in Int /\ FULL - div \in Int
    BY DEF PanelLimits, TypeOK, FULL
  <1>2. Clamp(div) \in 0..FULL /\ Clamp(FULL - div) \in 0..FULL /\ 0 \in 0..FULL
    BY <1>1, ClampType DEF PanelLimits, FULL
  <1>3. /\ y' = MoveSwipeView(t) /\ dim' = Clamp(FULL - div) /\ label' = Clamp(FULL - div)
        /\ header' = Clamp(div) \/ header' = 0
    BY DEF FollowFinger
  <1> QED BY <1>2, <1>3, MoveType

LEMMA EdgeType ==
  ASSUME PanelLimits, NEW moved, MoveToEdge(moved)
  PROVE  /\ y' \in SWIPE_TOP_LIMIT..SWIPE_BOTTOM_LIMIT \cup {HEIGHT}
         /\ dim' \in 0..FULL /\ header' \in 0..FULL /\ label' \in 0..FULL
  BY DEF PanelLimits, MoveToEdge, FULL

LEMMA ScrollType ==
  ASSUME PanelLimits, TypeOK, NEW to \in Offsets, Scroll(to)
  PROVE  TypeOK'
  <1>1. /\ y' \in SWIPE_TOP_LIMIT..SWIPE_BOTTOM_LIMIT \cup {HEIGHT}
        /\ header' \in 0..FULL /\ dim' = dim /\ label' = label
        /\ lastScrollY' \in {0} \cup Offsets
    BY DEF PanelLimits, TypeOK, Scroll, DidScroll, FULL, panel
  <1> QED BY <1>1 DEF TypeOK, Scroll

LEMMA TypeStep == PanelLimits /\ TypeOK /\ [Next]_vars => TypeOK'
  <1> SUFFICES ASSUME PanelLimits, TypeOK, [Next]_vars PROVE TypeOK'
    OBVIOUS
  <1>1. CASE TouchTable
    BY <1>1 DEF TouchTable, TypeOK, panel
  <1>2. CASE TableRests
    BY <1>2 DEF TableRests, TypeOK, panel
  <1>3. ASSUME NEW to \in Offsets, Scroll(to) PROVE TypeOK'
    BY <1>3, ScrollType
  <1>4. ASSUME NEW t \in Translations, PanBegan(t) \/ PanChanged(t) \/ PanCancelled(t)
        PROVE  TypeOK'
    <2>1. FollowFinger(MoveSwipeView(t)) /\ UNCHANGED <<lastScrollY, offset, scrolling>>
      BY <1>4 DEF PanBegan, PanChanged, PanCancelled
    <2>2. panning' \in BOOLEAN
      BY <1>4 DEF PanBegan, PanChanged, PanCancelled, TypeOK
    <2> QED BY <2>1, <2>2, FollowType DEF TypeOK
  <1>5. ASSUME NEW t \in Translations, PanEnded(t) PROVE TypeOK'
    BY <1>5, EdgeType DEF PanEnded, TypeOK
  <1>6. CASE UNCHANGED vars
    BY <1>6 DEF vars, panel, TypeOK
  <1> QED BY <1>1, <1>2, <1>3, <1>4, <1>5, <1>6 DEF Next

(* The panel keeps between its limits or off the screen, and no alpha and  *)
(* no colour leaves its range, whatever disturbs a pan.                    *)
THEOREM PanelTypeOK == ASSUME PanelLimits PROVE Spec => []TypeOK
  BY TypeInit, TypeStep, PTL DEF Spec

-----------------------------------------------------------------------------
(* Between pans *)

LEMMA GestureInit == Init => OneGesture
  BY DEF Init, OneGesture

LEMMA GestureStep == Undisturbed /\ OneGesture /\ [Next]_vars => OneGesture'
  <1> SUFFICES ASSUME Undisturbed, OneGesture, [Next]_vars PROVE OneGesture'
    OBVIOUS
  <1>1. CASE TouchTable
    BY <1>1 DEF TouchTable, OneGesture, Undisturbed, panel
  <1>2. CASE TableRests
    BY <1>2 DEF TableRests, OneGesture, panel
  <1>3. ASSUME NEW to \in Offsets, Scroll(to) PROVE OneGesture'
    BY <1>3 DEF Scroll, DidScroll, OneGesture, panel
  <1>4. ASSUME NEW t \in Translations,
               PanBegan(t) \/ PanChanged(t) \/ PanCancelled(t) \/ PanEnded(t)
        PROVE  OneGesture'
    <2>1. ~scrolling /\ scrolling' = scrolling
      BY <1>4 DEF PanBegan, PanChanged, PanCancelled, PanEnded, OneGesture, Undisturbed
    <2> QED BY <2>1 DEF OneGesture
  <1>5. CASE UNCHANGED vars
    BY <1>5 DEF vars, panel, OneGesture
  <1> QED BY <1>1, <1>2, <1>3, <1>4, <1>5 DEF Next

LEMMA SettledStep ==
  PanelLimits /\ Undisturbed /\ OneGesture /\ SettledPanel /\ [Next]_vars => SettledPanel'
  <1> SUFFICES ASSUME PanelLimits, Undisturbed, OneGesture, SettledPanel, [Next]_vars
               PROVE  SettledPanel'
    OBVIOUS
  <1>1. CASE TouchTable
    BY <1>1 DEF TouchTable, SettledPanel, panel
  <1>2. CASE TableRests
    BY <1>2 DEF TableRests, SettledPanel, panel
  <1>3. ASSUME NEW to \in Offsets, Scroll(to) PROVE SettledPanel'
    <2>1. ~panning /\ dim = 0 /\ label = 0 /\ dim' = dim /\ label' = label
      BY <1>3 DEF Scroll, DidScroll, OneGesture, SettledPanel, panel
    <2>2. y' = y \/ y' \in {SWIPE_BOTTOM_LIMIT, HEIGHT}
      BY <1>3 DEF Scroll, DidScroll, panel
    <2> QED BY <2>1, <2>2 DEF SettledPanel, PanelLimits
  <1>4. ASSUME NEW t \in Translations, PanBegan(t) \/ PanChanged(t) \/ PanCancelled(t)
        PROVE  SettledPanel'
    BY <1>4 DEF PanBegan, PanChanged, PanCancelled, Undisturbed, SettledPanel
  <1>5. ASSUME NEW t \in Translations, PanEnded(t) PROVE SettledPanel'
    BY <1>5 DEF PanEnded, MoveToEdge, SettledPanel, PanelLimits
  <1>6. CASE UNCHANGED vars
    BY <1>6 DEF vars, panel, SettledPanel
  <1> QED BY <1>1, <1>2, <1>3, <1>4, <1>5, <1>6 DEF Next

LEMMA SettledInit == PanelLimits /\ Init => SettledPanel
  BY DEF PanelLimits, Init, SettledPanel

(* Two handlers share the panel: while nothing disturbs a pan it comes to  *)
(* rest at an edge, with the feed dimmed and the labels white just while   *)
(* the panel covers the feed (handlePan, moveToEdge, swipeView).           *)
THEOREM PanelComesToRest ==
  ASSUME PanelLimits, Undisturbed PROVE Spec => []SettledPanel
  <1>1. Init => OneGesture /\ SettledPanel
    BY GestureInit, SettledInit
  <1>2. (OneGesture /\ SettledPanel) /\ [Next]_vars => (OneGesture /\ SettledPanel)'
    BY GestureStep, SettledStep
  <1> QED BY <1>1, <1>2, PTL DEF Spec

-----------------------------------------------------------------------------
(* The table passes SWIPE_TOP_LIMIT in events the handler does not ignore: *)
(* an event moves it by less than the limit, and the feed is longer than   *)
(* the limit by a step at least.                                           *)
SmallSteps == /\ MaxScroll < SWIPE_TOP_LIMIT
              /\ SWIPE_TOP_LIMIT + MaxScroll <= MaxOffset

LEMMA HeaderScroll ==
  ASSUME PanelLimits, SmallSteps, OneGesture, SettledPanel, HeaderMatches, offset \in Offsets,
         NEW to \in Offsets, Scroll(to)
  PROVE  HeaderMatches'
  <1>1. /\ ~panning /\ y # SWIPE_TOP_LIMIT /\ offset' = to
        /\ header = IF offset < SWIPE_TOP_LIMIT THEN 0 ELSE FULL
    <2>1. ~panning /\ dim = 0 /\ offset' = to
      BY DEF Scroll, OneGesture
    <2>2. y # SWIPE_TOP_LIMIT
      BY <2>1 DEF SettledPanel, FULL, PanelLimits
    <2> QED BY <2>1, <2>2 DEF HeaderMatches
  <1>2. /\ to \in Int /\ offset \in Int /\ MaxScroll \in Nat /\ MaxOffset \in Int
        /\ to - offset <= MaxScroll /\ offset - to <= MaxScroll
        /\ SWIPE_TOP_LIMIT \in Nat
    BY DEF PanelLimits, Scroll
  <1>3. CASE 0 < to /\ to < MaxOffset
    BY <1>1, <1>2, <1>3 DEF Scroll, DidScroll, HeaderMatches, PanelLimits
  <1>4. CASE ~(0 < to /\ to < MaxOffset)
    <2>1. y' = y /\ header' = header
      BY <1>4 DEF Scroll, DidScroll, panel
    <2>2. offset < SWIPE_TOP_LIMIT <=> to < SWIPE_TOP_LIMIT
      BY <1>2, <1>4 DEF SmallSteps
    <2> QED BY <1>1, <2>1, <2>2 DEF HeaderMatches
  <1> QED BY <1>3, <1>4

LEMMA HeaderStep ==
  PanelLimits /\ Undisturbed /\ SmallSteps /\ TypeOK /\ OneGesture /\ SettledPanel
    /\ HeaderMatches /\ [Next]_vars => HeaderMatches'
  <1> SUFFICES ASSUME PanelLimits, Undisturbed, SmallSteps, TypeOK, OneGesture, SettledPanel,
                      HeaderMatches, [Next]_vars
               PROVE  HeaderMatches'
    OBVIOUS
  <1>1. CASE TouchTable
    BY <1>1 DEF TouchTable, HeaderMatches, panel
  <1>2. CASE TableRests
    BY <1>2 DEF TableRests, HeaderMatches, panel
  <1>3. ASSUME NEW to \in Offsets, Scroll(to) PROVE HeaderMatches'
    BY <1>3, HeaderScroll DEF TypeOK
  <1>4. ASSUME NEW t \in Translations, PanBegan(t) \/ PanChanged(t) \/ PanCancelled(t)
        PROVE  HeaderMatches'
    BY <1>4 DEF PanBegan, PanChanged, PanCancelled, Undisturbed, HeaderMatches
  <1>5. ASSUME NEW t \in Translations, PanEnded(t) PROVE HeaderMatches'
    BY <1>5 DEF PanEnded, MoveToEdge, HeaderMatches, PanelLimits
  <1>6. CASE UNCHANGED vars
    BY <1>6 DEF vars, panel, HeaderMatches
  <1> QED BY <1>1, <1>2, <1>3, <1>4, <1>5, <1>6 DEF Next

(* Three assignments in two handlers set the header's background, and      *)
(* between pans it is opaque exactly when the feed is scrolled past the    *)
(* limit and the panel is not over it, if nothing disturbs a pan and the   *)
(* table cannot jump over the offsets at which the handler looks.          *)
THEOREM HeaderFollows ==
  ASSUME PanelLimits, Undisturbed, SmallSteps PROVE Spec => []HeaderMatches
  <1>1. Init => TypeOK /\ OneGesture /\ SettledPanel /\ HeaderMatches
    <2>1. Init => HeaderMatches
      BY DEF PanelLimits, Init, HeaderMatches
    <2> QED BY <2>1, TypeInit, GestureInit, SettledInit
  <1>2. (TypeOK /\ OneGesture /\ SettledPanel /\ HeaderMatches) /\ [Next]_vars
          => (TypeOK /\ OneGesture /\ SettledPanel /\ HeaderMatches)'
    BY TypeStep, GestureStep, SettledStep, HeaderStep
  <1> QED BY <1>1, <1>2, PTL DEF Spec
=============================================================================
