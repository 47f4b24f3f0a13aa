----------------------------- MODULE MCMainScene -----------------------------
(***************************************************************************)
(* Small databases for TLC.  Entries are numbered from 2, the first key    *)
(* above FIRST_KEY; the names say what a database is for.                  *)
(***************************************************************************)
EXTENDS MainScene, TLC

RequestSymmetry == Permutations(Requests)

NoKeys == {}

(* Five entries, of which 4 does not decode; 2 and 5 name two images.      *)
FiveKeys     == 2..6
FiveDisplay  == [k \in FiveKeys |-> IF k = 4 THEN "nil" ELSE "default"]
FiveCategory == [k \in FiveKeys |-> "coupon"]
FiveImages   == [k \in FiveKeys |-> IF k \in {2, 5} THEN {"backImg", "labelImg"}
                                    ELSE {"centerImg"}]

FullDisplay  == [k \in FiveKeys |-> "default"]

(* Four entries in which 3 does not decode; 2 and 4 name two images.       *)
FourKeys     == 2..5
FourDisplay  == [k \in FourKeys |-> IF k = 3 THEN "nil" ELSE "default"]
FourCategory == [k \in FourKeys |-> "coupon"]
FourImages   == [k \in FourKeys |-> IF k \in {2, 4} THEN {"backImg", "labelImg"}
                                    ELSE {"centerImg"}]

FewImages    == [k \in FourKeys |-> IF k = 2 THEN {"backImg", "labelImg"}
                                    ELSE {"centerImg"}]

(* Four entries: one of category noti, one without a category, one without *)
(* an image.                                                               *)
OddDisplay  == [k \in FourKeys |-> IF k = 3 THEN "none" ELSE "noBack"]
OddCategory == [k \in FourKeys |-> CASE k = 2 -> "noti" [] k = 3 -> "nil"
                                     [] OTHER -> "shop"]
OddImages   == [k \in FourKeys |-> IF k = 4 THEN {} ELSE {"rightImg"}]
=============================================================================
