------------------------------- MODULE MCFeed -------------------------------
EXTENDS MCMainScene

(* A run checks several instances of the module, each from its own initial *)
(* state on; they differ in what may happen.                               *)
VARIABLE instance

Prompt  == INSTANCE MainScene WITH PromptImages <- TRUE
Loading == INSTANCE MainScene WITH ImagesMayFail <- FALSE
Removal == INSTANCE MainScene WITH DisplayTypeOf <- OddDisplay, CategoryOf <- OddCategory,
                                   ImagesOf <- OddImages, Removable <- Keys,
                                   ImagesMayFail <- FALSE

In(name, step) == instance = name /\ step /\ UNCHANGED instance

FeedNext == \/ In("all", Next)
            \/ In("prompt", Prompt!Next)
            \/ In("loading", Loading!Next)

FeedInit == Init /\ instance \in {"all", "prompt", "loading"}

FeedSpec == FeedInit /\ [][FeedNext]_<<vars, instance>>

LiveNext == \/ In("all", Next)
            \/ In("removal", Removal!Next)

LiveInit == Init /\ instance \in {"all", "removal"}

LiveSpec == /\ LiveInit
            /\ [][LiveNext]_<<vars, instance>>
            /\ instance = "all" => Fairness /\ UserKeepsScrolling

LiveEveryEntryShown == instance = "all" => EveryEntryShown

PromptFeed == INSTANCE OrderedFeed
                WITH Displayable <- {k \in Keys : DisplayTypeOf[k] # "nil"},
                     feed <- IF instance = "prompt" THEN FeedOf(list) ELSE <<>>

(* While images are prompt there is one request at a time, and the scene   *)
(* implements the ordered, gapless, repetition-free feed; and when no      *)
(* image fails none is lost, however late.                                 *)
FeedUnderPremises ==
  /\ [](instance = "prompt" => OneRequestAtATime /\ RowsInKeyOrder)
  /\ PromptFeed!Spec
  /\ [](instance = "loading" => NoImageLost)
=============================================================================
