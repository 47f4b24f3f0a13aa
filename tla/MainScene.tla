------------------------------ MODULE MainScene ------------------------------
(***************************************************************************)
(* The paged feed of the main scene: the view controller's paging guard,   *)
(* the interactor's list and cursor, the presenter, and, for every         *)
(* getList, the database query, the Main.List built from its snapshot, the *)
(* image downloads of that list and its delayed completion.                *)
(*                                                                         *)
(* Every handler runs on the main queue, so each is one action.  What      *)
(* interleaves is the order in which answers, images, timers and scrolling *)
(* reach that queue.                                                       *)
(***************************************************************************)
EXTENDS MainModels

CONSTANTS
  Requests,          \* bound: the getList calls that can be alive at once
  PublishedLater,    \* keys not yet in the database when the scene loads
  Removable,         \* keys that can be deleted from the database
  DatabaseMayCancel, \* whether a query can end in its cancel block
  ImagesMayFail,     \* whether a download can end in an error
  PromptImages       \* whether the images of a page follow each other within
                     \* the 0.5 s that imageDownloadComplete is delayed by

ASSUME SceneAssumption ==
  /\ PublishedLater \subseteq Keys       \* ids are time stamps: new ones come last
  /\ \A k \in PublishedLater, j \in Keys \ PublishedLater : j < k
  /\ Removable \subseteq Keys \ PublishedLater
  /\ DatabaseMayCancel \in BOOLEAN
  /\ ImagesMayFail \in BOOLEAN
  /\ PromptImages \in BOOLEAN

VARIABLES
  server,      \* keys under the node "list" in the Firebase database
  phase,       \* of each getList: "idle", "query", or "page" once it has a list
  start,       \* the cursor the query was started at
  page,        \* the rows of the Main.List built from the snapshot
  downloads,   \* its image downloads that have not called back
  scheduled,   \* its pending perform(imageDownloadComplete) requests
  list,        \* MainInteractor.list, also MainViewController.list once shown
  lastKey,     \* MainInteractor.lastKey
  getListDone, \* MainViewController.getListDone
  viewLoaded,  \* viewDidLoad has run
  displayed,   \* the view controller's list is the interactor's (same object)
  tableRows,   \* the row count the table view took at its last reloadData
  trap         \* the runtime trap that ended the process, or "none"

getListVars == <<phase, start, page, downloads, scheduled>>
sceneVars   == <<list, lastKey, getListDone, displayed, tableRows>>
vars == <<server, getListVars, sceneVars, viewLoaded, trap>>

Running == trap = "none"

(* MainViewController.list.count: its own empty list until the first       *)
(* display, then the list object it shares with the interactor.            *)
ListCount == IF displayed THEN Len(list) ELSE 0

Init ==
  /\ server = Keys \ PublishedLater
  /\ phase = [r \in Requests |-> "idle"]
  /\ start = [r \in Requests |-> FIRST_KEY]
  /\ page = [r \in Requests |-> <<>>]
  /\ downloads = [r \in Requests |-> {}]
  /\ scheduled = [r \in Requests |-> 0]
  /\ list = <<>>
  /\ lastKey = FIRST_KEY
  /\ getListDone = FALSE
  /\ viewLoaded = FALSE
  /\ displayed = FALSE
  /\ tableRows = 0
  /\ trap = "none"

-----------------------------------------------------------------------------
(* A Main.List is kept alive by the closures of its downloads and by its   *)
(* scheduled perform; when it has neither, the request is over.            *)
Release(r) ==
  /\ phase' = [phase EXCEPT ![r] = "idle"]
  /\ start' = [start EXCEPT ![r] = FIRST_KEY]
  /\ page' = [page EXCEPT ![r] = <<>>]
  /\ downloads' = [downloads EXCEPT ![r] = {}]
  /\ scheduled' = [scheduled EXCEPT ![r] = 0]

Trap(reason) ==
  /\ trap' = reason
  /\ UNCHANGED <<server, getListVars, sceneVars, viewLoaded>>

(* MainInteractor.getList: a worker query from the current cursor.         *)
GetList(r) ==
  /\ phase[r] = "idle"
  /\ phase' = [phase EXCEPT ![r] = "query"]
  /\ start' = [start EXCEPT ![r] = lastKey]
  /\ UNCHANGED <<page, downloads, scheduled>>

(* MainViewController.viewDidLoad *)
ViewDidLoad(r) ==
  /\ ~viewLoaded
  /\ viewLoaded' = TRUE
  /\ GetList(r)
  /\ UNCHANGED <<server, sceneVars, trap>>

(* MainViewController.nextPage, from scrollViewDidScroll with visibleRow   *)
(* the last visible row; when the guard fails the scroll asks for nothing. *)
NextPage(r, visibleRow) ==
  /\ Running /\ getListDone
  /\ visibleRow + PAGE_SIZE > ListCount
  /\ getListDone' = FALSE
  /\ GetList(r)
  /\ UNCHANGED <<server, list, lastKey, displayed, tableRows, viewLoaded, trap>>

(* The observer of FBDatabase.listPagination cancelled: completion?(nil),  *)
(* which MainWorker forwards and the interactor ignores.                   *)
ListCancelled(r) ==
  /\ Running /\ DatabaseMayCancel /\ phase[r] = "query"
  /\ Release(r)
  /\ UNCHANGED <<server, sceneVars, viewLoaded, trap>>

(* Main.List(imageDownloadCompletion:objs:), made by MainWorker: without a *)
(* download nothing will ever call its completion.                         *)
MakeList(r, objs) ==
  \E rows \in InitWith(objs) :
    IF SetImageData(rows) = {} THEN Release(r)
    ELSE /\ phase' = [phase EXCEPT ![r] = "page"]
         /\ page' = [page EXCEPT ![r] = rows]
         /\ downloads' = [downloads EXCEPT ![r] = SetImageData(rows)]
         /\ UNCHANGED <<start, scheduled>>

(* The snapshot reaches the observer of FBDatabase.listPagination.         *)
ListSnapshot(r) ==
  /\ Running /\ phase[r] = "query"
  /\ \E children \in OrderedByKey(QueryPage(server, start[r], PAGE_SIZE)) :
       IF RemoveFirstTraps(children, start[r])
       THEN Trap("removeFirst")
       ELSE /\ MakeList(r, RemoveFirst(children, start[r]))
            /\ UNCHANGED <<server, sceneVars, viewLoaded, trap>>

(* imageDownloadCompleteCancelingPrevious: earlier requests are cancelled  *)
(* and one is scheduled 0.5 s ahead.                                       *)
CancelPreviousAndPerform(pending) == 1

(* The callback of FBStorage.imageData: data, or nil after an error.       *)
ImageData(r, d, loaded) ==
  /\ Running /\ d \in downloads[r]
  /\ loaded \/ ImagesMayFail
  /\ downloads' = [downloads EXCEPT ![r] = @ \ {d}]
  /\ page' = [page EXCEPT ![r] = Update(@, d, loaded)]
  /\ scheduled' = [scheduled EXCEPT ![r] = CancelPreviousAndPerform(@)]
  /\ UNCHANGED <<server, phase, start, sceneVars, viewLoaded, trap>>

(* A plausible slip: the paging guard is not opened again.                 *)
DisplayWithoutUnlatch(rows) ==
  /\ list' = rows
  /\ displayed' = TRUE
  /\ tableRows' = Len(rows)
  /\ UNCHANGED getListDone

(* presentGetList and displayGetList, given the list after insertOnce.     *)
Display(rows) ==
  /\ list' = rows
  /\ displayed' = TRUE
  /\ getListDone' = TRUE
  /\ tableRows' = Len(rows)

(* The completion in MainInteractor.getList: append the page, have it      *)
(* presented (which inserts the notification row in the same list object), *)
(* then take the cursor from the last row.                                 *)
Completion(rows) ==
  LET appended  == AppendList(list, rows)
      presented == InsertOnce(appended)
  IN  /\ Display(presented)
      /\ lastKey' = LastKey(presented)

(* The delayed perform of imageDownloadComplete runs.                      *)
ImageDownloadComplete(r) ==
  /\ Running /\ scheduled[r] > 0
  /\ PromptImages => downloads[r] = {}
  /\ LET appended == AppendList(list, page[r])
     IN  CASE InsertTraps(appended)  -> Trap("category")
           [] LastKeyTraps(appended) -> Trap("index")
           [] OTHER ->
                /\ Completion(page[r])
                /\ IF downloads[r] = {} /\ scheduled[r] = 1 THEN Release(r)
                   ELSE /\ scheduled' = [scheduled EXCEPT ![r] = @ - 1]
                        /\ UNCHANGED <<phase, start, page, downloads>>
                /\ UNCHANGED <<server, viewLoaded, trap>>

-----------------------------------------------------------------------------
(* The editors of the database.  Ids are time stamps, so a new entry comes *)
(* after every entry that is or was there.                                 *)
Publish(k) ==
  /\ Running /\ k \in PublishedLater \ server
  /\ \A j \in server : j < k
  /\ server' = server \cup {k}
  /\ UNCHANGED <<getListVars, sceneVars, viewLoaded, trap>>

Remove(k) ==
  /\ Running /\ k \in server \cap Removable
  /\ server' = server \ {k}
  /\ UNCHANGED <<getListVars, sceneVars, viewLoaded, trap>>

Scroll == \E r \in Requests, visibleRow \in 0..(tableRows - 1) : NextPage(r, visibleRow)

Next ==
  \/ \E r \in Requests :
       \/ ViewDidLoad(r)
       \/ ListSnapshot(r)
       \/ ListCancelled(r)
       \/ \E d \in downloads[r], loaded \in BOOLEAN : ImageData(r, d, loaded)
       \/ ImageDownloadComplete(r)
  \/ Scroll
  \/ \E k \in Keys : Publish(k) \/ Remove(k)

Spec == Init /\ [][Next]_vars

(***************************************************************************)
(* Fairness.  UIKit loads the view; Firebase calls one of an observer's    *)
(* two blocks and each download's callback exactly once; the main run loop *)
(* fires due performs.                                                     *)
(***************************************************************************)
Fairness ==
  /\ WF_vars(\E r \in Requests : ViewDidLoad(r))
  /\ \A r \in Requests :
       /\ WF_vars(ListSnapshot(r) \/ ListCancelled(r))
       /\ WF_vars(\E d \in downloads[r], loaded \in BOOLEAN : ImageData(r, d, loaded))
       /\ WF_vars(ImageDownloadComplete(r))

(* The premise of the liveness properties: nothing in the code scrolls.    *)
UserKeepsScrolling == WF_vars(Scroll)

FairSpec == Spec /\ Fairness /\ UserKeepsScrolling

-----------------------------------------------------------------------------
(* Every variable keeps to its values; a request holds rows, downloads and *)
(* a scheduled perform only in the phase in which the code gives them.     *)
TypeOK ==
  /\ server \subseteq Keys
  /\ phase \in [Requests -> {"idle", "query", "page"}]
  /\ start \in [Requests -> Cursor]
  /\ page \in [Requests -> Seq(Row)]
  /\ downloads \in [Requests -> SUBSET Download]
  /\ scheduled \in [Requests -> Nat]
  /\ list \in Seq(Row)
  /\ lastKey \in Cursor
  /\ getListDone \in BOOLEAN
  /\ viewLoaded \in BOOLEAN
  /\ displayed \in BOOLEAN
  /\ tableRows \in Nat
  /\ trap \in {"none", "removeFirst", "category", "index"}

(***************************************************************************)
(* Safety whatever the order of answers, images, timers and scrolls.       *)
(***************************************************************************)

(* insertOnce runs on every completion, against a list it may have changed *)
(* before: still the list starts with a notification row and the keyless   *)
(* row never appears a second time, however often pages complete.          *)
OneHeader ==
  list # <<>> => /\ Category(list[1]) = "noti"
                 /\ \A i \in 2..Len(list) : list[i].key # NoKey

(* A download's closure holds an index computed while entries were being   *)
(* dropped, and runs when the list is complete: the data a row shows was   *)
(* read from a file its own entry names.                                   *)
ImagesBelong ==
  \A i \in 1..Len(list) : \A img \in list[i].data :
    img.owner = list[i].key /\ img.field \in ImagesOf[img.owner]

(* A row is a copy of its page's element, so an image that arrives after   *)
(* the page was shown can only be seen by showing the page again: every    *)
(* image of a shown entry is in one of its rows, or its request has still  *)
(* to download it, or has it and will yet show it.  (While none fails.)    *)
NoImageLost ==
  \A k \in KeysOf(list) : \A f \in ImagesOf[k] :
    \/ \E i \in 1..Len(list) : list[i].key = k /\ [owner |-> k, field |-> f] \in list[i].data
    \/ \E r \in Requests :
         \/ \E d \in downloads[r] : d.owner = k /\ d.field = f
         \/ k \in KeysOf(page[r]) /\ scheduled[r] > 0

(* The feed has no holes: every displayable entry of the database that     *)
(* precedes a shown one is shown, whichever page completes first, again or *)
(* after a later one, and although late completions move the cursor back.  *)
(* (While no entry is removed.)                                            *)
NoGap ==
  \A shown \in KeysOf(list) : \A k \in server :
    DisplayTypeOf[k] # "nil" /\ k < shown => k \in KeysOf(list)

(* No handler reaches a runtime trap, removals and entries without a       *)
(* category aside: a page after the first always finds its cursor entry to *)
(* drop, and a completion always has a row to take the cursor from.        *)
NoTrap == trap = "none"

(* The subscript [-1] of object(indexOf:) is out of reach in every case:   *)
(* only a list with a row that names an image ever completes.              *)
NoIndexTrap == trap # "index"

(* removeFirst traps only on a query whose cursor entry was removed from   *)
(* the database after it was shown.                                        *)
TrapNeedsRemovedCursor ==
  trap = "removeFirst" =>
    \E r \in Requests : phase[r] = "query" /\ start[r] \notin server

(* The list of a state is in the next one's, under the notification row.   *)
ListKept ==
  \E above \in {<<>>, <<Header>>} :
    LET kept == above \o list
    IN  Len(kept) <= Len(list') /\ \A i \in 1..Len(kept) : list'[i] = kept[i]

(* Shown rows stay: a step only ever appends rows to the list or puts the  *)
(* notification row above them, so no completion reorders, drops or        *)
(* rewrites what the user already sees.                                    *)
RowsKept == [][ListKept]_list

(* What the user has seen stays, on every row images of its own entry.     *)
ShownIsKept == RowsKept /\ []ImagesBelong

(***************************************************************************)
(* Why NoGap and NoTrap hold: their inductive invariant.                   *)
(***************************************************************************)

(* A request has rows just while it is a page, and each is an entry's.     *)
PagesHaveRows ==
  \A r \in Requests :
    /\ phase[r] = "page" <=> page[r] # <<>>
    /\ phase[r] # "page" => downloads[r] = {} /\ scheduled[r] = 0
    /\ \A i \in 1..Len(page[r]) : page[r][i].key \in Keys

(* Only entries of the database are shown, or about to be.                 *)
RowsInServer ==
  /\ KeysOf(list) \subseteq server
  /\ \A r \in Requests : KeysOf(page[r]) \subseteq server

(* Every cursor, past or present, is FIRST_KEY or the key of a shown row.  *)
CursorsShown ==
  /\ lastKey \in {FIRST_KEY} \cup KeysOf(list)
  /\ \A r \in Requests : start[r] \in {FIRST_KEY} \cup KeysOf(list)

(* A page has no holes after its cursor.                                   *)
PagesHaveNoGap ==
  \A r \in Requests : \A p \in KeysOf(page[r]) : \A k \in server :
    DisplayTypeOf[k] # "nil" /\ start[r] < k /\ k < p => k \in KeysOf(page[r])

(* However completions are ordered or repeated, each page is appended to a *)
(* list that already covers everything up to that page's own cursor.       *)
FeedInv ==
  PagesHaveRows /\ RowsInServer /\ CursorsShown /\ PagesHaveNoGap /\ NoGap

(***************************************************************************)
(* What holds while the images of a page arrive promptly.                  *)
(***************************************************************************)

(* getListDone serialises the requests: one at most is under way, and none *)
(* while the guard is open.                                                *)
OneRequestAtATime ==
  /\ \A r, q \in Requests : phase[r] # "idle" /\ phase[q] # "idle" => r = q
  /\ getListDone => \A r \in Requests : phase[r] = "idle"

(* The rows below the notification row are in strictly ascending key order *)
(* so that no entry is shown twice.                                        *)
RowsInKeyOrder ==
  \A i, j \in 1..Len(list) : i < j /\ list[i].key # NoKey => list[i].key < list[j].key

(* The entries shown, as the abstract feed.                                *)
FeedOf(rows) ==
  LET skip == IF rows # <<>> /\ rows[1].key = NoKey THEN 1 ELSE 0
  IN  [i \in 1..(Len(rows) - skip) |-> rows[i + skip].key]


(***************************************************************************)
(* Liveness, for a user who keeps scrolling.                               *)
(***************************************************************************)

(* Every displayable entry that was there at the start is shown in the     *)
(* end, when every query is answered and every page holds an image.        *)
EveryEntryShown ==
  \A k \in Keys \ PublishedLater :
    DisplayTypeOf[k] # "nil" => <>(k \in KeysOf(list))

(***************************************************************************)
(* Claims of the repository's tests.                                       *)
(***************************************************************************)

(* MainPresenterTests.swift:80 and MainViewControllerTests.swift:132: the  *)
(* 45 seed entries are presented as 46 rows, each entry once and the       *)
(* notification row.                                                       *)
PresentedCount == displayed => Len(list) = Cardinality(KeysOf(list)) + 1

(* MainInteractorTests.swift:105: getList has the presenter format the     *)
(* result; stated for a query that starts while entries remain to be shown *)
GetListIsPresented ==
  \A r \in Requests :
    (phase[r] = "query" /\ \E k \in server : k > lastKey /\ k \notin KeysOf(list))
      ~> getListDone
=============================================================================
