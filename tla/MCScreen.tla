------------------------------ MODULE MCScreen ------------------------------
(***************************************************************************)
(* The main screen: the feed with its paging, the table's cells, and the   *)
(* panel.  They share no state: a behaviour is one of them, and the others *)
(* stay as they are.                                                       *)
(***************************************************************************)
EXTENDS MCFeed, MainCells

CONSTANTS a, b, c, d, noti

(* Cells: two default entries that share an outlet and differ in one of    *)
(* each sort, two noBack entries, of which one has no display.             *)
FourEntries == {a, b, c, d}
FiveTypes   == (a :> "default") @@ (b :> "default") @@ (c :> "noBack")
               @@ (d :> "noBack") @@ (noti :> "none")
FiveHaveDisplay == [e \in FourEntries \cup {noti} |-> e \notin {d, noti}]
FiveFields  == (a :> {"mainTitle", "backImg", "dDay"}) @@ (b :> {"mainTitle", "labelImg"})
               @@ (c :> {"title", "rightImg"}) @@ (d :> {}) @@ (noti :> {})

ScreenSymmetry == RequestSymmetry \cup Permutations(Cells)

VARIABLES part,
          y, dim, header, label, lastScrollY, offset, scrolling, panning

feedVars  == <<vars, instance>>
panelVars == <<y, dim, header, label, lastScrollY, offset, scrolling, panning>>

(* Panel: a screen of 8 points, on which the limits, the screen's middle   *)
(* (4) and its edge are all distinct; the table bounces a point beyond     *)
(* either end.  In Disturbed the table may move during a pan, and the      *)
(* system may take a touch away.                                           *)
Panel ==
  INSTANCE SwipeView
    WITH SWIPE_TOP_LIMIT <- 2, SWIPE_BOTTOM_LIMIT <- 6, START <- 5, HEIGHT <- 8,
         MaxOffset <- 7, Offsets <- -1..8, FirstOffset <- -1, MaxScroll <- 1,
         Translations <- -2..2,
         TableMovesDuringPan <- FALSE, TouchesCancelled <- FALSE

Disturbed ==
  INSTANCE SwipeView
    WITH SWIPE_TOP_LIMIT <- 2, SWIPE_BOTTOM_LIMIT <- 6, START <- 5, HEIGHT <- 8,
         MaxOffset <- 7, Offsets <- -1..8, FirstOffset <- -1, MaxScroll <- 1,
         Translations <- -2..2,
         TableMovesDuringPan <- TRUE, TouchesCancelled <- TRUE

ASSUME PanelAssumption == Panel!PanelLimits /\ Disturbed!PanelLimits

-----------------------------------------------------------------------------
Part(name) == part = name /\ UNCHANGED part

ScreenInit == /\ part \in {"feed", "cells", "panel", "disturbed"}
              /\ FeedInit /\ (part # "feed" => instance = "all")
              /\ InitCells /\ Panel!Init

ScreenNext ==
  \/ Part("feed")      /\ FeedNext       /\ UNCHANGED <<cellVars, panelVars>>
  \/ Part("cells")     /\ NextCells      /\ UNCHANGED <<feedVars, panelVars>>
  \/ Part("panel")     /\ Panel!Next     /\ UNCHANGED <<feedVars, cellVars>>
  \/ Part("disturbed") /\ Disturbed!Next /\ UNCHANGED <<feedVars, cellVars>>

ScreenSpec ==
  ScreenInit /\ [][ScreenNext]_<<part, feedVars, cellVars, panelVars>>

(* The panel keeps within its limits whatever disturbs it; undisturbed, it *)
(* comes to rest at an edge, with the feed dimmed just while it is covered,*)
(* and can always be moved again.                                          *)
PanelSettles == /\ part = "disturbed" => Disturbed!TypeOK
                /\ part = "panel" => Panel!TypeOK /\ Panel!SettledPanel /\ ENABLED Panel!Next

(* The header is opaque exactly while the feed is scrolled past the limit  *)
(* and the panel is not over it (scrollViewDidScroll, swipeContainer).     *)
HeaderMatches == part = "panel" => Panel!HeaderMatches
=============================================================================
