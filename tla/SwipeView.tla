------------------------------ MODULE SwipeView ------------------------------
(***************************************************************************)
(* The panel of the main scene, the "Swipe View" part of                   *)
(* MainViewController.swift: the feed's scrolling hides and shows it, and  *)
(* the user pulls it over the feed.  Both handlers also set the header's   *)
(* background, and the pan sets the dimming view and the header's labels.  *)
(*                                                                         *)
(* Positions grow downwards, in points.  Alphas and the labels' white are  *)
(* numbers from 0 to FULL, so that `div', the panel's relative height, is  *)
(* the distance of the panel from SWIPE_TOP_LIMIT.  Animations set their   *)
(* end values at once; so does the model.                                  *)
(***************************************************************************)
EXTENDS Integers

CONSTANTS
  SWIPE_TOP_LIMIT,     \* headerView.frame.height
  SWIPE_BOTTOM_LIMIT,  \* view height less what the panel shows when down
  START,               \* where Auto Layout puts the panel: 34 above the limit on
                       \* devices whose safe area ends above the screen's edge
  HEIGHT,              \* view.frame.height
  MaxOffset,           \* the table's contentSize.height - frame.height
  Offsets,             \* the contentOffset.y the table can have, bouncing included
  FirstOffset,         \* its contentOffset.y before it is touched
  MaxScroll,           \* bound: how far one scroll event moves the table
  Translations,        \* how far one pan event moves the finger
  TableMovesDuringPan, \* whether the table may be moving, under another finger
                       \* or on its own, while the panel is being pulled
  TouchesCancelled     \* whether the system may take a pan's touch away

(* What the storyboard and the code give these.                            *)
PanelLimits ==
  /\ SWIPE_TOP_LIMIT \in Nat /\ SWIPE_BOTTOM_LIMIT \in Nat
  /\ START \in Nat /\ HEIGHT \in Nat
  /\ 0 < SWIPE_TOP_LIMIT /\ SWIPE_TOP_LIMIT < START
  /\ START <= SWIPE_BOTTOM_LIMIT /\ SWIPE_BOTTOM_LIMIT < HEIGHT
  /\ 2 * SWIPE_TOP_LIMIT < HEIGHT /\ HEIGHT <= 2 * START
  /\ MaxOffset \in Int
  /\ Offsets \subseteq Int /\ FirstOffset \in Offsets /\ FirstOffset <= 0
  /\ MaxScroll \in Nat
  /\ Translations \subseteq Int
  /\ TableMovesDuringPan \in BOOLEAN
  /\ TouchesCancelled \in BOOLEAN

VARIABLES
  y,            \* swipeView.frame.origin.y
  dim,          \* dimView.alpha
  header,       \* alpha of headerView.backgroundColor
  label,        \* white of the header labels' text colour
  lastScrollY,  \* MainViewController.lastScrollY
  offset,       \* tableView.contentOffset.y
  scrolling,    \* the table is being dragged or decelerates
  panning       \* the pan gesture recognizer is tracking a finger

panel == <<y, dim, header, label>>
vars  == <<panel, lastScrollY, offset, scrolling, panning>>

FULL == SWIPE_BOTTOM_LIMIT - SWIPE_TOP_LIMIT

(* UIKit clamps the alpha of a view and the components of a colour.        *)
Clamp(v) == IF v < 0 THEN 0 ELSE IF v > FULL THEN FULL ELSE v

(* The storyboard's scene: a transparent header with black labels, and an  *)
(* invisible dimming view.                                                 *)
Init ==
  /\ y = START /\ dim = 0 /\ header = 0 /\ label = 0
  /\ lastScrollY = 0 /\ offset = FirstOffset
  /\ scrolling = FALSE /\ panning = FALSE

-----------------------------------------------------------------------------
(* A touch reaches the table when the dimming view, which covers it, is    *)
(* transparent.                                                            *)
TouchTable ==
  /\ ~scrolling /\ dim = 0 /\ (TableMovesDuringPan \/ ~panning)
  /\ scrolling' = TRUE
  /\ UNCHANGED <<panel, lastScrollY, offset, panning>>

TableRests ==
  /\ scrolling
  /\ scrolling' = FALSE
  /\ UNCHANGED <<panel, lastScrollY, offset, panning>>

(* A plausible slip: the header follows only the offsets past the limit.   *)
DidScrollOpaque(to) ==
  IF SWIPE_TOP_LIMIT <= to /\ to < MaxOffset
  THEN /\ y' = IF lastScrollY >= to THEN SWIPE_BOTTOM_LIMIT ELSE HEIGHT
       /\ header' = FULL
       /\ lastScrollY' = to
       /\ UNCHANGED <<dim, label>>
  ELSE UNCHANGED <<panel, lastScrollY>>

(* swipeView(_:), for every scrollViewDidScroll: only while the table does *)
(* not bounce, the panel hides when the feed moves on and returns when it  *)
(* moves back (or stays), and the header turns opaque below the first      *)
(* SWIPE_TOP_LIMIT points.                                                 *)
DidScroll(to) ==
  IF 0 < to /\ to < MaxOffset
  THEN /\ y' = IF lastScrollY >= to THEN SWIPE_BOTTOM_LIMIT ELSE HEIGHT
       /\ header' = IF to < SWIPE_TOP_LIMIT THEN 0 ELSE FULL
       /\ lastScrollY' = to
       /\ UNCHANGED <<dim, label>>
  ELSE UNCHANGED <<panel, lastScrollY>>

Scroll(to) ==
  /\ scrolling
  /\ to - offset <= MaxScroll /\ offset - to <= MaxScroll
  /\ offset' = to
  /\ DidScroll(to)
  /\ UNCHANGED <<scrolling, panning>>

-----------------------------------------------------------------------------
(* moveSwipeView(_:): a move past a limit is not made at all.              *)
MoveSwipeView(translation) ==
  IF y > SWIPE_BOTTOM_LIMIT THEN SWIPE_BOTTOM_LIMIT
  ELSE IF y < SWIPE_TOP_LIMIT THEN SWIPE_TOP_LIMIT
  ELSE IF y + translation \in SWIPE_TOP_LIMIT..SWIPE_BOTTOM_LIMIT THEN y + translation
  ELSE y

(* The rest of handlePan(_:) while the finger moves: div was taken before  *)
(* the panel was moved.                                                    *)
FollowFinger(moved) ==
  LET div == y - SWIPE_TOP_LIMIT
  IN  /\ y' = moved
      /\ dim' = Clamp(FULL - div)
      /\ header' = IF offset > SWIPE_TOP_LIMIT THEN Clamp(div) ELSE 0
      /\ label' = Clamp(FULL - div)

(* A plausible slip: no moveToEdge for a pan that ends.                    *)
StayWhereReleased(moved) == FollowFinger(moved)

(* moveToEdge(_:div:), which has the last word when the finger is lifted.  *)
MoveToEdge(moved) ==
  LET toTop == 2 * moved < HEIGHT
  IN  /\ y' = IF toTop THEN SWIPE_TOP_LIMIT ELSE SWIPE_BOTTOM_LIMIT
      /\ dim' = IF toTop THEN FULL ELSE 0
      /\ header' = IF toTop \/ offset < SWIPE_TOP_LIMIT THEN 0 ELSE FULL
      /\ label' = IF toTop THEN FULL ELSE 0

(* handlePan(_:) in states began and changed.  A pan can begin where the   *)
(* panel is on the screen.                                                 *)
PanBegan(translation) ==
  /\ ~panning /\ y < HEIGHT /\ (TableMovesDuringPan \/ ~scrolling)
  /\ panning' = TRUE
  /\ FollowFinger(MoveSwipeView(translation))
  /\ UNCHANGED <<lastScrollY, offset, scrolling>>

PanChanged(translation) ==
  /\ panning
  /\ FollowFinger(MoveSwipeView(translation))
  /\ UNCHANGED <<lastScrollY, offset, scrolling, panning>>

(* handlePan(_:) in state ended.                                           *)
PanEnded(translation) ==
  /\ panning
  /\ panning' = FALSE
  /\ MoveToEdge(MoveSwipeView(translation))
  /\ UNCHANGED <<lastScrollY, offset, scrolling>>

(* handlePan(_:) in state cancelled, when the system takes the touch away: *)
(* moveToEdge returns at its guard.                                        *)
PanCancelled(translation) ==
  /\ panning /\ TouchesCancelled
  /\ panning' = FALSE
  /\ FollowFinger(MoveSwipeView(translation))
  /\ UNCHANGED <<lastScrollY, offset, scrolling>>

Next ==
  \/ TouchTable
  \/ TableRests
  \/ \E to \in Offsets : Scroll(to)
  \/ \E translation \in Translations :
       \/ PanBegan(translation)
       \/ PanChanged(translation)
       \/ PanEnded(translation)
       \/ PanCancelled(translation)

Spec == Init /\ [][Next]_vars

-----------------------------------------------------------------------------
(* The panel is between its limits or off the screen, and no alpha leaves  *)
(* its range, whatever disturbs a pan.                                     *)
TypeOK ==
  /\ y \in SWIPE_TOP_LIMIT..SWIPE_BOTTOM_LIMIT \cup {HEIGHT}
  /\ dim \in 0..FULL /\ header \in 0..FULL /\ label \in 0..FULL
  /\ lastScrollY \in {0} \cup Offsets
  /\ offset \in Offsets
  /\ scrolling \in BOOLEAN /\ panning \in BOOLEAN

(* The scroll handler and the pan handler share the panel, and only the    *)
(* pan handler sets the dimming view: between pans the panel rests at one  *)
(* of its edges, and the feed is dimmed, under white labels, exactly while *)
(* the panel covers it.  In particular the feed is never dimmed, and so    *)
(* out of reach, with the panel off the screen.  (While the table is still *)
(* during a pan and no touch is cancelled.)                                *)
SettledPanel ==
  ~panning => /\ y \in {SWIPE_TOP_LIMIT, START, SWIPE_BOTTOM_LIMIT, HEIGHT}
              /\ dim = IF y = SWIPE_TOP_LIMIT THEN FULL ELSE 0
              /\ label = dim

(* Three assignments in two handlers set the header's background: between  *)
(* pans it is opaque exactly when the feed is scrolled past the limit and  *)
(* the panel is not over it.  (While the table moves by less than          *)
(* SWIPE_TOP_LIMIT between two scroll events, and as above.)               *)
HeaderMatches ==
  ~panning => header = IF offset < SWIPE_TOP_LIMIT \/ y = SWIPE_TOP_LIMIT THEN 0 ELSE FULL

=============================================================================
