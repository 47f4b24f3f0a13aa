# AppCard in TLA+

AppCard is an iOS app with one scene: a feed of cards that is paged in from a
Firebase database while the user scrolls, the cards' images loaded from Firebase
Storage, and a panel with a web view that the user pulls over the feed. The app's
own code is small; what makes it hard is that everything it does is a callback:
answers, images, half-second timers, scroll events and pan events reach the main
queue in an order nobody chose, and each changes state the next one reads.

The repository also holds the sources of what the app is built with. Two of
those pods carry logic that is worth a model: `leveldb-library`, the storage
engine that FirebaseDatabase's disk persistence stands on (the app never turns
that persistence on), and `nanopb`, with which Firebase's diagnostics encode
their messages. Threads, crashes, recovery and failed writes are in the first.

These modules say what holds in every order of events, and which order breaks
what. Paths of the app are relative to `src/AppCard/AppCard/`, those of LevelDB
to `src/AppCard/Pods/leveldb-library/`, those of nanopb to `src/AppCard/Pods/nanopb/`.

## The system

### The app

| Part | Source | State | Operations |
|---|---|---|---|
| View controller, feed | `Scene/Main/MainViewController.swift` 47-128 | `list` (shared with the interactor after the first display), `getListDone` | `viewDidLoad`, `displayGetList`, `scrollViewDidScroll` -> `nextPage` |
| Interactor | `Scene/Main/MainInteractor.swift` | `list`, `lastKey` | `getList` and its completion |
| Presenter | `Scene/Main/MainPresenter.swift` | none; changes the interactor's list | `presentGetList` |
| Worker | `Scene/Main/MainWorker.swift` | none; makes a `Main.List` per page | `listPagination` |
| `Main.List` | `Scene/Main/MainModels.swift` 69-239 | rows, completion closure, a pending delayed perform | `initWith`, `initWithHigherOrdering`, `setImageData`, `update`, `append`, `insertOnce`, `object`, `imageDownloadComplete...` |
| `FBDatabase` | `Service/FBDatabase.swift` | none; the node "list" is Firebase's | `listPagination` |
| `FBStorage` | `Service/FBStorage.swift` | none | `imageData` |
| Data source, cells | `MainViewController.swift` 216-243, `Scene/Main/cell/` | the outlets of reused cells | `cellForRowAt`, three `config` functions, `heightForRowAt` |
| Panel and header | `MainViewController.swift` 118-121, 144-211 | panel position, three alphas and colours, `lastScrollY` | `swipeView`, `handlePan`, `moveSwipeView`, `moveToEdge` |
| Router, `Config`, `AppDelegate`, extensions, web view | | none that the app reacts to | not modelled, see below |

Once round the feed: `nextPage` (a scroll event, guarded by `getListDone`) closes
the guard and calls `getList`; that starts a query at `lastKey`. The snapshot's
callback drops the cursor's own row (`removeFirst`) and has a new `Main.List`
built, which starts a download for each image its rows name. Every download's
callback puts the datum in the page and (re)starts a 0.5 s delay. When the delay
is over, the page is appended to the interactor's list, the presenter puts the
notification row on top unless it is there, the view controller opens the guard
and reloads the table, and the interactor takes the last row's key as the next
cursor.

What is hard about it:

- images more than 0.5 s apart complete their page again: rows are appended
  again, the cursor moves back, the guard is opened while another query is
  under way, so queries and pages overlap;
- pages with no image, cancelled queries and the empty page at the end are
  never completed, and the guard stays closed;
- the cursor's entry may be gone when the next query is answered;
- force-unwraps and subscripts that trap (`category!`, `[-1]`, `removeFirst`);
- indices and struct copies captured long before they are used;
- one panel moved by two handlers, of which one knows the dimming view;
- reused cells.

What it must guarantee: the *feed* shows every displayable entry in order, once,
without holes, and goes on while there are entries; *Main.List* drops repeated and
undecodable entries and routes every image to its own row; the *cells* show their
own row; the *panel* rests at an edge, with the feed dimmed exactly while it is
covered.

### LevelDB

| Part | Source | State | Operations |
|---|---|---|---|
| Write queue, background thread | `db/db_impl.cc` | the queue of writers, memtables, logs, the flags of the background call | `Write`, `BuildBatchGroup`, `MakeRoomForWrite`, `BackgroundCall`, `CompactRange`, `~DBImpl` |
| Versions and compactions | `db/version_set.cc`, `db/db_impl.cc` | the files of the levels, compaction pointers, seeks allowed | `PickCompaction`, `CompactRange`, `SetupOtherInputs`, `DoCompactionWork`, `InstallCompactionResults`, `Get` |
| Recovery and files | `db/db_impl.cc`, `db/version_set.cc`, `db/repair.cc` | manifest, `CURRENT`, logs, tables on disk | `Recover`, `LogAndApply`, `RemoveObsoleteFiles`, `RepairDB` |
| Memtable | `db/memtable.cc`, `db/skiplist.h` | a skip list read without a lock | `Add`, `Get`, the iterator's moves |
| Iterators | `db/db_iter.cc`, `table/merger.cc`, `table/two_level_iterator.cc` | positions, direction, status | `Seek`, `Next`, `Prev`, ... |
| Log, tables | `db/log_writer.cc`, `db/log_reader.cc`, `table/` | bytes | append and read, build and look up |
| Caches | `util/cache.cc`, `db/table_cache.cc` | hash table, two lists, reference counts | `Insert`, `Lookup`, `Release`, `Erase`, `FindTable`, `Evict` |
| Environment | `util/env_posix.cc` | the table of locks, limiters, the work queue, buffered files | `LockFile`, `NewRandomAccessFile`, `Schedule`, `WritableFile` |

A writer queues up; the first one writes the log and the memtable for a group of
those behind it, without the mutex. When the memtable is full it becomes `imm_`,
with a new log, and the background thread writes it to a table, records that in
the manifest and removes what became obsolete; the same thread merges levels.
`Open` replays the manifest that `CURRENT` names and the logs it does not cover.
Readers take a version and the memtables, and go on without the mutex.

What is hard about it: writers acknowledged by another thread; batches that
become visible one entry at a time; `imm_` and level 0 at their limits, with all
threads waiting; state read, the mutex released, and used; crashes between
manifest, its sync, `CURRENT` and removals; logs cut at any byte; lock-free
reads of a list being linked; iterators that turn around; entries in use that
the cache dropped; POSIX record locks, which a process loses by closing any
descriptor of the file.

`PROJECT.json`, "hazards", has each of these with its line and the properties
that watch it.

## The modules

| Module | Models | Checked by |
|---|---|---|
| `MainModels` | the ordered query, `removeFirst`, the operations of `Main.List`, as operators | `MCScreen`, which extends `MCFeed` |
| `MainScene` | the feed, one action per handler | `MCFeed` (prompt, late, loading, removal), `MCMainScene` (databases; the violations) |
| `OrderedFeed` | abstract: the shown keys grow, in order, by the next displayable entries | refined by `MainScene` |
| `MainCells` | data source, cell configuration, reuse | `MCScreen` (cells) |
| `SwipeView` | panel, dimming view, header | `MCScreen` (panel, disturbed) |
| `InternalKeys` | keys, tags, their order | |
| `Versions` | picking and widening compactions, lookups, as operators | `MCLsmTree` |
| `LsmTree` | the tree: memtables, levels, snapshots, compactions | `MCLsmTree` (alone, values, manual, seeks, script; the violation) |
| `SnapshotStore` | abstract: a map and its snapshots | refined by `LsmTree` |
| `WriteQueue` | writers, groups, room, background call, manual compactions, destructor | `MCWriteQueue` (groups, manual) |
| `Recovery` | creation, writes, flushes, compactions, removals, crashes, `Open` | `MCRecovery` (crashes, error and iterator, reused logs with kills or with failures, created) |
| `Repair` | `RepairDB` on `Recovery`'s files, interrupted and repeated | `MCRecovery` (repaired) |
| `LogFormat` | the log byte by byte | `MCFormats` (torn, damaged, wounded) |
| `TableFile` | blocks, index, filters, lookups | `MCFormats` (table) |
| `WritableFile` | the buffered file and its failures | `MCFormats` (file) |
| `Cursor` | abstract: a position in a sorted map | refined by `DBIter` |
| `DBIter` | the database's and the merging iterator | `MCIterators` (db) |
| `TwoLevelIterator` | the walk over a table's blocks | `MCIterators` (blocks) |
| `MemTable` | the skip list, store by store and load by load, under weak memory | `MCIterators` (memtable) |
| `KeyedCache` | abstract: what `cache.h` promises | refined by `LRUCache` |
| `LRUCache` | a shard of the cache | `MCShared` (cache, off) |
| `TableCache` | its use for open tables, files removed meanwhile | `MCShared` (tables) |
| `FileLock` | `LockFile`, `UnlockFile`, `DestroyDB` of threads and processes | `MCShared` (threads, alone) |
| `PosixEnv` | limits of open files; queue of the background thread | `MCShared` (limits, work) |
| `Nanopb` | encode, decode, release of messages | `MCFormats` (messages) |
| `MainSceneProofs`, `ScreenProofs` (cells, panel), `WriteQueueProofs`, `VersionsProofs` (lemmas only), `LsmTreeProofs`, `RecoveryProofs`, `IteratorProofs` (memtable, blocks), `EnvironmentProofs` (locks, limits, work, files, caches) | lemmas and theorems | |

Where an MC module checks several parts, a variable (`instance` or `part`) says
which one a behaviour is of, the other parts' variables stay as they are, and
the properties speak of each part by its name.

### The feed: `MainModels`, `MainScene`

All handlers run on the main queue to their end, so each is one action, with
every call it makes: `ImageDownloadComplete` is the delayed perform *and* the
interactor's completion *and* the presenter *and* `displayGetList` *and* the
cursor. The order of these calls is kept where it can be seen: the cursor is
taken from the list after the notification row was inserted; a trap stops
everything before `displayGetList`.

- `phase`, `start`, `page`, `downloads`, `scheduled` are per `getList` call: the
  query and its captured cursor, the `Main.List` it led to, that list's
  outstanding downloads (with the index their closures captured) and its
  pending performs. A page lives as long as a download or a perform refers to
  it, as the closures do in the code.
- `list` is both the interactor's list and, after the first display, the view
  controller's: they are one object. `ListCount` is the view controller's view
  of it. `tableRows` is what the table took at its last `reloadData`, and bounds
  the rows that a scroll can have visible.
- keys are numbers, `FIRST_KEY` below them all; the notification row's nil key
  is `NoKey`. Row data are tagged with the entry and field they were read for.
- `trap` records the runtime trap that ended the process; nothing happens after.
- `Publish` and `Remove` are the database's editors. Ids carry a time stamp,
  so `Publish` adds at the end (`SceneAssumption`).
- `PromptImages` separates the intended case (a page's images follow each other
  within 0.5 s) from the others: with it the perform waits for all downloads;
  without it, it may run at any time. `perform(afterDelay:)` gives no upper
  bound (its timer waits while the table is tracked), so no other assumption on
  time is made.

### Cells, panel

In `MainCells` an outlet holds the element its value came from. `Config` sets what
the element has, resets what the code resets, collapses the rest, which keeps its
old value; `Seen` is what is left for the eye. The table view is external: it asks
for the cells of rows on the screen, takes them back when rows leave it or on
`reloadData`, and may hand out any pooled cell of a kind.

In `SwipeView` lengths are points; alphas are scaled so that `div`, the panel's
relative height, is a difference of positions. `handlePan` takes `div` before it
moves the panel, as in the code. `TableMovesDuringPan` and `TouchesCancelled`
admit what UIKit can do to a pan.

### The storage engine

A *value* is known by the sequence number it was written with. The mutex makes
the code between two waits or unlocks one step, and the modules have one action
for each such stretch.

- `WriteQueue`: `pc` of every writer, the queue, the group a leader took, both
  memtables with the entries inserted so far, their logs with what is synced,
  and the background call. The leader's work without the mutex is a step per
  log record, sync and entry, so that a reader can look in between.
  `memtable_full`, errors and sizes are choices. `has_imm` is kept apart from
  the entries of `imm_`, which may be empty and is flushed all the same.
- `LsmTree`: the tree is the current version. A compaction is started
  (`Versions` picks its inputs as `version_set.cc` does, boundary files
  included), produces its outputs with the drops of `DoCompactionWork`, and is
  installed by one edit; writes, switches, flushes and reads come in between.
  `Get` looks into the files of the version it took without the mutex
  (`getting`), and charges the seek to that version when it has the mutex again,
  current or not.
- `Recovery`: files are records of what they hold and of how much of it is
  synced. A crash of the process keeps all that was given to the kernel. A power
  failure leaves of a log any prefix that is no shorter than what was synced, and
  a manifest whole or at its synced prefix: while it is current, at most one
  of its records stands unsynced, except after an error, when nothing is installed
  or removed any more; the records of a new one precede the `CURRENT` that names it.
  Renames and removals survive in order, and a synced file keeps its name;
  these, and records being lost whole, are the assumptions on the file system
  (bytes are `LogFormat`'s subject). `Repair` shares its state: it is repeated
  until it ends before the database is opened again, and it puts all tables on
  level 0.
- `MemTable`: `memory` is the sequence of all stores; each thread has a view, a
  point in it. A relaxed or acquire load returns the last store of its view or
  any later one, and an acquire load of a release store moves the view up to it.
  This is weaker than any one machine, and what the code's comments argue from.
- `DBIter`: the memtable goes on growing under the iterator. `TwoLevelIterator`
  has one restart point to a block; a read of a block may fail.
- `LRUCache`: `heap` has every entry ever made, the two lists and the hash table
  are kept apart, and `KeyedCache` says what a client may see of them. `CacheInv`
  and what it says of one entry (`EntriesAgree`) are proved, below.
- `LogFormat`: sizes are scaled: blocks of eight bytes, headers of three. A
  checksum is right or wrong. `TableFile` takes a filter as the exact set of its
  keys; `Nanopb` scales 7, 32 and 64 bits to groups of 3 and widths of 7 and 13,
  and keeps all control of `pb_encode.c` and `pb_decode.c` for the kinds of fields
  the pods declare.
- `FileLock`: a thread's `LockFile` is the open, the table of names, and the
  record lock of the process; `UnlockFile` and `DestroyDB` likewise. An
  `UnlockFile` that fails returns at once: the name stays in the table, the
  descriptor open (`leaked`), and maybe the record lock in force.
- `TableCache`: `FindTable` in its three unlocked steps, readers with their
  versions, removals. `BuildTable` may remove a table that it could not open
  (`OpenFails`) or that it has opened and inserted (`GiveUp`), without `Evict`.

## The runs

| Run | Question | Properties |
|---|---|---|
| `FeedLive` | Is every entry shown in the end? With deletions, missing categories and pages without images (removal): which traps? | `LiveEveryEntryShown`, `TrapNeedsRemovedCursor` |
| `Screen` | The feed, whatever is late, fails, is cancelled or published: what is left, and what is promised when images are prompt or none fails? Do cells show their own rows, do panel and header fit? | `TypeOK`, `OneHeader`, `NoGap`, `NoTrap`, `ShownIsKept`, `FeedUnderPremises`; `ShowsOwnRow`, `PanelSettles`, `HeaderMatches` |
| `Tree` | Without snapshots, or without deletions: do readers see a map, whatever is compacted? With both: does every value stay? | `EntriesInPlace`, `FilesInOrder`, `ValuesStay`, `ImplementsSnapshotStore` |
| `Writes` | Are batches visible whole, acknowledged writes kept, synced ones durable, and does every call return? | `QueueInv`, `BatchesAreAtomic`, `AcknowledgedIsKept`, `SyncedIsDurable`, `BackgroundIsSafe`, `CallsReturn` |
| `Crashes` | Is everything that must be there there after any crash? | `OpenHasAll`, `SequencesCovered`, `NothingMissing` |
| `Formats` | Do bytes come back as they were written, cut, damaged or half written? | `TornIsRead`, `WoundsStayContained`, `TableIsRead`, `FileIsWritten`, `DecodesWhatWasSent`, `HeapIsKept` |
| `Iterators` | Do iterators show their snapshot, and all of it? | `ReaderSeesSnapshot`, `IsCursorOfSnapshot`, `NothingSkipped`, `ErrorsStay` |
| `Shared` | Are locks exclusive, caches true to their interface, limits kept, wake-ups not lost? | `OneThreadOfProcess`, `LeftOnlyByFailure`, `AloneOneHolder`, `TablesAreKept`, `EnvironmentKeeps`, `ImplementsKeyedCache` |
| `DuplicateRows` | One row per entry (tests: 46 rows for 45 entries)? | `PresentedCount`: violated |
| `NeverPresented` | Is a `getList` with rows to show presented? | `GetListIsPresented`: violated |
| `MissedEntry` | Is paging by key without holes when entries are deleted? | `NoGap`: violated |
| `Reappears` | Does a deleted entry stay away, with a snapshot and deletions? | `DeletedStaysAway`: violated |

**Findings.** The four violations, in `PROJECT.json`:

- **DuplicateRows**: two images of a page more than 0.5 s apart, and the page is
  appended twice; duplicates are removed within a page only.
- **NeverPresented**: a page whose rows name no image starts no download, so
  nothing completes it, and the guard is closed for good.
- **MissedEntry**: the cursor's entry is deleted, the next page's first entry is
  dropped in its place. With nothing after it, `removeFirst` traps
  (`TrapNeedsRemovedCursor` says that this is the only way).
- **Reappears**: six writes and deletions of two keys. While a snapshot is held, a
  merge writes two versions of a key, and the size limit cuts between them: the
  deletion ends one file of the output level, the older value begins the next.
  The snapshot is released. A later compaction
  into that level overlaps the first file only; `SetupOtherInputs`
  (`version_set.cc:1407`) adds boundary files to the inputs of the upper level, not of
  the lower one, and `IsBaseLevelForKey` looks at the levels below. The deletion is
  dropped as obsolete (`db_impl.cc:958`), the value behind it is not, and is read
  again. The app holds no snapshot, and without one it cannot happen
  (`DeletedStaysAwayAlone`).

**Bounds, and why they are enough.**

| Run | Bounds | Distinct states |
|---|---|---|
| `FeedLive` | the feed, as in `Screen`, one entry with two images; removal: all removable, one without category, one without image | 39,018 |
| `Screen` | the feed: 4 entries, one that does not decode, two with two images; pages of 3, so two new rows a page; 2 requests, as two pages overlap. The rest: 4 cells, 4 entries, up to 4 rows; a screen of 8 points, on which all limits differ | 442,929 |
| `Tree` | 4 levels. alone: 5 writes or deletions of 2 keys (lookups of 3), no snapshot; values: 4 writes of 2 keys, 2 snapshots; manual: 3 writes, compactions of levels 1 and 2; seeks: 6 writes of 3 keys, 2 entries to a file, a reader under way; script: the 6 writes of `Reappears`, each a value or a deletion, without snapshots, or values only, or both and a snapshot (there the abstract store is not claimed) | 216,732 |
| `Writes` | 4 writers (a, b, a synchronous one, a null batch), groups of 2, batches of 2, an error; manual: 3 writers, 2 rounds of a manual compaction | 49,904 |
| `Crashes` | 3 writes, 2 crashes, also with reused logs (see Premises); with an error and an iterator: 2 writes, 1 crash; repaired: 2 writes, a repair that was not needed, a lost descriptor. File numbers up to 6 to 9 | 2,463,021 |
| `Formats` | 3 records of 0 to 12 bytes over 8-byte blocks (no byte, a gap of one or two, three blocks), a cut, a failed append, 2 damaged bytes; tables of up to 5 of 10 keys; 2 messages, heaps of 0 to 30 allocations; 5 bytes in appends of 1, 3, 5 through a buffer of 2, an error | 397,699 |
| `Iterators` | memtable: 2 keys (looked for: 3), height 2, 3 entries, 2 reads; every history of 3 writes to 3 keys or 4 to one, up to 4 entries with those written meanwhile; blocks of 1, 2, 3 entries | 666,522 |
| `Shared` | 2 processes with 2 and 1 threads; caches with room for 2, 1 and 0, 2 clients, 3 keys of which two share a hash; 3 files for 1 place of each sort; 3 databases | 280,777 |

Each bound lets every action fire and every branch be taken, which the coverage
of the runs confirms; a third overlapping page, a third crash or a fourth client
meets no code that the first two did not. What does not depend on such a
judgement is in the proofs.

**Premises.** `NoGap`, `NoTrap` are for a database from which nothing is removed,
`NoTrap` also for entries with a category; `FeedLive` and `MissedEntry` show what
happens otherwise. `NoImageLost` is for downloads that succeed, `HeaderMatches` for
a table that moves by less than the header's height between two scroll events.
LevelDB's properties are stated where they hold; these are what the models met
on the way and what the constants or the properties exclude:

- an append that failed, and a later write in the same block: the reader drops
  both (`log_writer.cc:106` goes on with an offset the file has not);
- a log that was cut and is then reused (`db_impl.cc:464`): the same;
- a synchronous write covers one log; what is in the log of `imm_`, unsynced,
  is lost by a power failure after it (`db_impl.cc:1357`), so `SyncedIsDurable`
  and `OpenHasAll` speak of the synchronous writes themselves and of what a table or
  its own log's sync covers;
- a manual compaction whose caller gave up after an error, while the background
  thread holds its pointer (`db_impl.cc:763`);
- a memtable flushed during a manual compaction, whose table overlaps its
  outputs (`version_set.cc:724`, `db_impl.cc:908`): no reader sees a wrong value,
  but the level is no longer disjoint;
- a snapshot and a deletion: a compaction may take a file of the lower level
  without its neighbour of the same key (`version_set.cc:1407`, the run
  `Reappears`). So `ImplementsSnapshotStore` is claimed, checked and proved for
  trees without snapshots and for trees without deletions only; with both,
  `ValuesStay` says what is left: a value is not lost and does not give way to an
  older one;
- the first manifest of a new database is not synced (`db_impl.cc:202`), so a
  power failure may leave `CURRENT` without what it names;
- with `reuse_logs`, `Open` takes over the manifest without a sync and removes
  the files its last record no longer needs (`db_impl.cc:1503`). If a kill came
  between that record and its sync, a power failure after the removal takes the
  record and with it the data of those files: `OpenHasAll` fails. `Crashes` has
  reused logs with kills anywhere and no power failure, and with power failures
  and kills anywhere but there; the theorems on power failures assume
  `~ReuseLogs`, the default;
- a second `LockFile` in a process, refused by the table, closes its
  descriptor, and with it goes the process's lock; `DestroyDB` unlinks the lock
  file after it has given it up: other processes may then hold "the" lock;
- an `UnlockFile` that fails leaves the name in the table (`env_posix.cc:644`),
  and `~DBImpl` and `DestroyDB` ignore its status: the process is refused every
  later lock on that database for as long as it runs (`LeftOnlyByFailure` says
  that this happens then, and only then);
- a record of the manifest may reach the disk before the directory is synced
  (`WritableFile` keeps the order the code establishes, no more);
- a table that `BuildTable` gives up after it was opened stays in the table cache
  without its file (`builder.cc:59`); its number is not given again, so nobody
  asks for it (`RemovedStaysOut` makes that exception);
- a scroll event between two calls of one pan: `PanelSettles` is for pans that
  nothing disturbs, see Deadlock;
- `BackgroundIsSafe` and `CallsReturn` with a manual compaction are for a
  database without errors, see the manual compaction above;
- `RepairDB` archives a log even when its conversion failed, orders all tables by
  file number, so that an older value may win, and passes `false` where its
  comment says that checksums are checked on purpose (`repair.cc`).

**Refinements.** `MainScene` implements `OrderedFeed` (prompt images), `LsmTree`
implements `SnapshotStore` (no snapshot, or no deletion), `DBIter` implements `Cursor`, `LRUCache` implements
`KeyedCache`; the abstract specification is a PROPERTY of its run.

**Fairness.** `MainScene!Fairness`: UIKit loads the view; Firebase calls one of
an observer's two blocks, and every download's block once; due performs fire.
The code cannot make anybody scroll, so the liveness properties have the premise
`UserKeepsScrolling`, stated apart. `EveryEntryShown` further needs a database
in which every page holds an image, no cancelled query, and no deletion.
`WriteQueue`: every thread that can run runs (weak fairness of each writer, of
the background step, of the manual compaction's caller and of the destructor),
and a compaction ends (strong fairness of `EndCompaction`, as its inputs are
finitely many, however often it flushes a memtable in between).

**Deadlock** is checked by no run: every part ends or may really stop (the guard
closed for good, a trap, all writes made, a database destroyed). Where a dead end
would be a mistake a property says so: `CallsReturn` for threads that wait on
each other, `PanelSettles` (with ENABLED) for the panel. The disturbed panel
has one: with the table still decelerating while the panel is pulled to the top,
the scroll handler moves the panel off the screen and leaves the feed dimmed, and
neither gets touches any more.

## The proofs

Checked by TLAPS for all values of the constants: any finite set of keys, any
page size, any number of requests, writers, threads, processes, files, records,
levels, snapshots, crashes or errors, any height of a skip list, any screen.

| Theorem | Says | Assumes beyond the modules' ASSUMEs |
|---|---|---|
| `TypeCorrect`, `IndexNeverTraps`, `HeaderIsUnique` | `[]TypeOK`, `[]NoIndexTrap`, `[]OneHeader` of the feed | |
| `FeedInvariant`, `FeedHasNoGap` | `[]FeedInv`, `[]NoGap` | `Removable = {}` |
| `SceneNeverTraps` | `[]NoTrap` | `Removable = {}`, every category decodes |
| `TrapTakesRemovedCursor` | `[]TrapNeedsRemovedCursor` | |
| `ShownStays` | `ShownIsKept`: steps only append rows or put the header on top; images are a row's own | |
| `NoImageIsLost` | `[]NoImageLost` | no download fails |
| `RequestsAreSerial`, `RowsAscend` | `[]OneRequestAtATime`, `[]RowsInKeyOrder` | prompt images |
| `FeedIsOrdered` | the feed implements `OrderedFeed` | prompt images, `Removable = {}` |
| `CellsTypeCorrect`, `RowsShowThemselves` | `[]CellsTypeOK`, `[]ShowsOwnRow` | |
| `PanelTypeOK` | the panel keeps its limits | `PanelLimits` |
| `PanelComesToRest` | `[]SettledPanel` | and `Undisturbed` |
| `HeaderFollows` | `[]HeaderMatches` | and `SmallSteps` |
| `QueueIsRight`, `ReadersSeeWholeBatches`, `AcknowledgedStays`, `SyncedStays` | `[]QueueInv`, `[]BatchesAreAtomic`, `[]AcknowledgedIsKept`, `[]SyncedIsDurable` | |
| `BackgroundStaysSafe` | `[]BackgroundIsSafe` | no errors, or no manual compaction |
| `TreeIsSound`, `StoreIsSound` | `[]TreeInv`, `[]StoreInv`: the inductive invariants of the tree | no manual compaction |
| `EveryEntryInPlace`, `FilesStayInOrder` | `[]EntriesInPlace`, `[]FilesInOrder` | no manual compaction |
| `TreeImplementsStore` | the tree implements `SnapshotStore` | no manual compaction; no snapshot or no deletion |
| `DeletedStaysAwayAlone` | `[]DeletedStaysAway` | the same |
| `ValuesAlwaysStay` | `[]ValuesStay` | no manual compaction |
| `OpenFindsAll`, `SequencesAreCovered`, `FilesAreThere` | `[]OpenHasAll`, `[]SequencesCovered`, `[](FilesExist /\ NeverCorrupt)` | the database exists (`~Fresh`), logs are not reused (`~ReuseLogs`) |
| `CreatedFindsAll` | all four, for any database, created or not, logs reused or not | the machine does not fail (`[Step \/ Kill]`) |
| `ReadersSeeTheirSnapshots` | `[]ReaderSeesSnapshot` of the memtable | `Bounds` (a height, types of entries) |
| `NothingIsSkipped`, `ErrorsAreKept` | `[]NothingSkipped`, `ErrorsStay` of the iterator over blocks | |
| `TableExcludes`, `OnlyFailureLeaves` | `[]OneThreadOfProcess`, `[]LeftOnlyByFailure` | |
| `LockExcludes` | `[]OneHolder` | one call at a time in a process, no `DestroyDB` |
| `NeverTooMany`, `NoPlaceIsLost`, `NoLostWakeUp`, `EnvironmentIsKept` | `[]LimitsAreKept`, `[]PlacesComeBack`, `[]NoWorkForgotten`, all three | finitely many files (not for wake-ups) |
| `FileWritten` | `[]FileIsWritten` | |
| `EntriesStayInOrder` | `[]EntriesAgree`, the part of `BooksAgree` about each entry of a cache | |
| `TablesStay` | `[]TablesAreKept` of the table cache | |

The premises are what the code needs: a run, or the list above, shows what happens
with a removed cursor, a late image, a manual compaction that met an error, a
manifest that `NewDB` did not sync or `Open` took over unsynced, a deletion that a snapshot kept apart from
what it deletes. Nothing in the repository outside LevelDB asks for a manual
compaction or a snapshot, so the premises on the tree are the app's case.

The constants' assumptions are the ranges the code declares: `LevelAssumption`,
`MemLevelAssumption`, `BytesAssumption` (every level has a size limit),
`WritesAssumption` (sequence numbers do not run out) for the tree,
`BlocksAssumption` (no block is empty, entries ascend), `BufferAssumption` (sizes
are not negative), `CacheAssumption` (finitely many clients, hashes and charges are
not negative, a table has a bucket), `PanelLimits`, `Bounds` and the like for the
others.

### The feed

`NoGap` alone is not inductive: a page may be appended at any time, again, and
after later pages. What makes that harmless is `FeedInv`:

- `CursorsShown`: every cursor, the current one and those captured by requests
  under way, is `FIRST_KEY` or the key of a shown row. Rows are never taken
  away, so this stays true however old a request gets.
- `PagesHaveNoGap`: a page holds every displayable entry between its cursor and
  any of its rows. It holds when the snapshot arrives (the query returns a
  gapless run, and `removeFirst` drops the cursor itself, which is still in the
  database) and entries published later come after all of them.
- `RowsInServer`, `PagesHaveRows`: rows are entries, and a page that can complete
  is not empty, so it has a last row to take the cursor from.

A completion appends a page to a list that, by `NoGap` and `CursorsShown`, has
no hole up to the page's cursor, and the page has none after it. The same
invariant gives `SceneNeverTraps`: the cursor's entry is in the database, so the
query returns at least that row for `removeFirst` to drop; when entries are
removed, what is left of the argument is `TrapTakesRemovedCursor`.

Images: `ImagesInv` says that a download under way knows the index of the row
that named it, which only grows older, as a page's rows are never moved. For
`NoImageIsLost` there is also `PagesComplete`: every image that a page's row names is
in the row or still on its way, and the perform that its arrival starts appends
the page once more.

Order: under prompt images `SerialInv` (the guard is open only while no request
is under way, and a page has at most one perform scheduled) leaves one page at a time, and
`OrderInv` says that its rows ascend from its cursor, which is the last key of
the list. With `FeedInv` that makes every completion the step `Extend` of
`OrderedFeed` and every other step a stutter.

### Cells and panel

`ShowsOwnRow` with `CellsTypeOK` is inductive as it stands: a cell that is dequeued
serves no row, so configuring it disturbs no other, and `Config` leaves nothing of
the last row to be seen (`ConfigShows`).

For the panel, `OneGesture` (a pan and a scroll exclude each other unless the
table moves during a pan) is what `SettledPanel` needs; `HeaderMatches` needs in
addition that the table cannot jump over the offsets at which the handler looks.

### The write queue

`ThreadsInv` joins `TypeOK`, `QueueShape` (a writer is in the queue, once, from its
call until it has a status, and only the head leads), `GroupInv` (the group is
the front of the queue; it has a synchronous writer only under a synchronous
leader) and `WorkInv` (the background works only while it is scheduled, on no
more inputs than level 0 has). On it rest:

- `EntriesInv`: an acknowledged writer's stored entries are its whole batch, at or
  below `last_sequence`; those of a writer in the group under way are the ones
  its leader has inserted so far, above `last_sequence`; the others have none.
  `last_sequence` moves over the whole group at once, which makes the batches
  atomic, and a memtable that is switched or flushed carries its entries along.
- `SyncInv`: entries of synchronous writers in a memtable lie under a log that was
  synced after their record was written. A leader syncs before it inserts.
- `ManualInv`, or `NoManual`: the two cases in which the pointer to the manual
  compaction cannot dangle.

The counting lemmas (`WithBatchLists`, `BatchedAre`, `EntryBelongs`, `WholeBatch`)
say which entries of a group belong to whom when null batches lie between.

### The tree

`EntriesInPlace` depends on what a compaction leaves out, and the inputs are
chosen long before the outputs are installed, with flushes in between. So the
invariant, `TreeInv`, is about versions and about the compaction at work:

- `MemtablesAre`: entries are within the sequence numbers handed out, and those of
  `mem` newer than those of `imm`, key by key.
- `FilesAre`: the current version is `Settled`: sorted, disjoint below level 0
  (`Orderly`), with newer entries of a key higher and, on level 0, in the younger
  file (`Stacked`), and a number names one file; the memtables are newer.
- `WorkIs`: a compaction is `Sound` for the *current* version: its inputs are
  there, what is left on the upper level is newer where keys are shared, and each
  file left on the lower level lies wholly before or after the inputs and shares
  no key with the upper ones.

Most of the work is in `VersionsProofs`, which says of each operator what it
returns: `GetOverlappingInputs` with its search that starts over on level 0,
`AddBoundaryInputs`, `SetupOtherInputs` with its second, wider choice,
`PickLevelForMemTableOutput`, the order of `Get`. They are recursive functions on
finite sets or numbers; that each exists and stops is shown by the least
counterexample (`LeastNumber`, `RecursionExists`, `Climbing`), which needs no
induction theorem. `LsmTreeProofs` then takes one lemma per action. The case that
matters is a flush during a compaction: the memtable may go to the level of the
outputs, but only if it overlaps none of the files it passes or joins, the inputs
among them. Inputs that the database picks leave no key between them that is in
none of them (`Hulled`), so the memtable lies wholly before or after all of them.
A manual compaction with a range takes several files with gaps, and a
memtable put in a gap overlaps the output that spans it.

For the refinement a lookup is first turned into a statement about the set of
all stored entries: `GetIs` says that the memtables and `FilesToSearch` find the
newest entry of the key at or below the snapshot. `ReadsKept` says when a set of
entries may be replaced by a smaller one unseen: every lost entry has a newer one that
all snapshots prefer, or is a deletion with no older entry behind it.
`DroppedIs` shows the first for the loop of `DoCompactionWork`; the second is
`NothingReappears`: an older entry behind a dropped deletion would be in a lower
level (`IsBaseLevelForKey` excludes it, and `InputsAre` excludes the files that were
flushed there since), on the upper level (it would be newer, by `Sound`), or in a
neighbour on the lower level. The code does not exclude that, as `Reappears`
shows, so there are two cases:

- without snapshots `OneFilePerKey` excludes it: a merge keeps one version of a
  key, so no two files of a level share one;
- when only values are written (`ValuesOnly`) no deletion is dropped, whatever the
  snapshots.

`ReadingsFollow` says that what the last step showed to readers (`reads`) leads to
what they see now by a step of `SnapshotStore` or none; with `StoreInv` it is
inductive, and it is the refinement.

`ValuesAlwaysStay` needs neither case. Whatever a merge drops has a newer entry
that every reader who could see it prefers, or is a deletion (`DroppedIs` again).
If a key reads as a value, the entry read is neither, so it is kept; and no
entry a reader would prefer to it appears, since a compaction only takes away
(`ValuesKept`).

### Recovery

A crash may leave the manifest as it is or cut at what is synced, so the
invariant speaks of both: `Manifest` and `SyncedManifest` are
each `Restorable`: the tables after their edits, with the logs from the number of
their last edit on, hold every acknowledged write, the synced records of those
logs and the tables every durable one, and their numbers cover all that is used.
Around this:

- `ReplayStart`, `ReplayTables`, `ReplayLogs`: during `Open`, an entry is in a
  table already, in memory, or in what is left of the logs. `LogsFrom`, the sorted
  logs that `Recover` reads, leaves none out (shown by an injection of their ranks).
- `MemoryOK`, `VersionOK`, `DescriptorOK`: while it runs, memory, logs and the
  version hold everything; without an error the manifest's tables are the
  version, but for the edit that is logged and not yet installed; after one, the
  manifest may hold edits that were given up, so only their contents are
  compared, and nothing is removed any more.
- `CompactionOK`, `EditOK`, `ApplyingOK`: an edit covers what is there, its outputs
  hold what its inputs held, and files are removed only once the synced manifest,
  the manifest and the new version agree.

The invariant was checked by TLC, on the states of `Crashes` and beyond, before
it was proved. `Restorable(SyncedManifest)` fails for a database that `NewDB` has
just created and for a manifest that `Open` took over without a sync. So the
invariant demands it where every manifest in force is synced (`Syncs`: neither
`Fresh` nor `ReuseLogs`), and power failures are excluded elsewhere.

### The memtable

A reader's loads may each be older than the last, so nothing about the list as it
*is* helps. The invariant is about all stores there have been:

- `Ascends`: every store links a node to a later entry;
- `SetBeforeLinked`: a node's own link is set before it is linked, from the bottom
  level up, so no reader meets an unset link;
- `NonePassed`: if a store to a place skips a node, then it was made before the
  node was linked, and the link replaced it;
- `PublishedOK`: every node up to the published sequence was linked within the
  view that is published with it.

A load therefore cannot pass over a node that was linked within the reader's view
(`LoadIs`), a search stays before its target and ends at the first entry at or
after it, and with `PublishedOK` that entry is the one the snapshot holds
(`WalkingIsSeeing`).

### The iterator over blocks

The two loops of `TwoLevelIterator` are functions of the number of passes, so what
a pass keeps is kept by the loop (`LoopKeeps`, by the least pass that does not).
Every pass leaves the iterator in `States`, where the data iterator is of the block
the index is at, and moves the index past one more block; so `BlockCount` passes
are enough. A block whose read failed, or whose damage was met, has a status that
is not ok, which `SetDataIterator` saves; while the status is ok the first pass
comes to the first entry of the next block, since no block is empty, and
`SuccessorIs`, `PredecessorIs`, `SoughtIs` and `OutermostAre` say that this is the
entry the walk goes on with. `AtWalk`, the invariant, has `NothingSkipped` as a
part and adds that between calls the iterator is at an entry or the index is at no
block.

### Locks and the environment

`OwnersInv` and `LeftInv` tie the table of names to the threads that hold or are
asking, or to an `UnlockFile` that failed; under `Serial`, no process closes a descriptor of a file whose lock one
of its threads has. In `PosixEnv` a counter lacks exactly the places that are
taken or on their way back (`LimitsInv`), which is why it needs no lock; the work
queue is filled only when the thread was started, and signalled when it was empty
(`WorkInv`).

A file that is written divides the bytes that were appended, in their order, at
two points: up to `Passed` they are in the file or were given up, up to `Taken` they
are in the buffer or with `write()`, and the rest is what `Append` has left
(`OnItsWay`). An error moves both points to the end and reports what no call had
flushed (`PassedIs`), which is why an emptied buffer loses nothing in silence and
nothing is written twice. For the names of a manifest's files, what
`SyncDirIfManifest` found must last until the file itself is synced (`NamesAre`):
nothing can be appended in between.

### The caches

`CacheInv` is what a shard of the cache keeps through every operation, as a
statement about the whole state of its entries (`Fits`): an entry has one
reference for the cache and one for each handle, and its value went to the deleter
once if it has none (`Counted`); chain `b` of the table holds, once each, the cached
entries whose hash is `b` modulo the length (`InTable`); the entries on the LRU
list are cached and listed once, so that an eviction or `Prune`, which goes through
the list as it *was*, meets only entries that are still there; and no key is
cached twice (`KeysOnce`). The steps of the code are functions of that state, and
each has its lemma: `RefFits`, `UnrefFits`, `RemovedFits`, `ErasedFits`,
`InsertFits`. `Resize` moves entries one by one to the front of their new chains;
`ResizedIs` shows by its passes that none is lost, and `EvictionFits` does the same
for the loops of `Insert` and `Prune`.

The table cache looks a table up, opens it and inserts it in three steps without a
lock. `TablesInv` adds to `CacheInv` that files in use are on disk (`FilesInv`), that
a client has at most the handle of the table it looks for (`OneHandle`), and what
keeps removed tables out: a new table that is being checked belongs to one client
only (`OwnTable`), and while it looks for it the cache has it by its handle or not
at all (`CheckedAlone`), so a table that cannot be opened and is removed at once
was never inserted, and one that is given up later is in `rejected`; any other
table is removed only when no version that a client keeps has it, and whoever
could still insert it keeps such a version. When nobody uses a table, its open
copies have no handles, so they are cached ones, and of a key there is one
(`OneWhenIdle`).

### Model-checked only

- Liveness and ENABLED, out of the prover's reach: `LiveEveryEntryShown`,
  `GetListIsPresented`, `CallsReturn`, the last part of `PanelSettles`.
- What a recursive function computes for every input: `TornIsRead`,
  `WoundsStayContained`, `TableIsRead`, `DecodesWhatWasSent`, `HeapIsKept`. (An
  induction over numbers is within reach, by the least counterexample; these are
  over data and the backends cannot use the library's induction theorems.)
- The tree with manual compactions: part of `FilesInOrder` fails there (see
  Premises), so the invariant would have to be another one. With snapshots
  *and* deletions the refinement does not hold (`Reappears`).
- Not attempted: the database's iterator (`IsCursorOfSnapshot`), the order and
  the sums of the cache (that `usage_` and `elems_` add up and the oldest idle entries
  make room: the refinement of `KeyedCache`), and `Repair` (`NothingMissing` as a
  whole; its parts without a repair are `FilesAreThere` and `CreatedFindsAll`).

## Not modelled

- `MainRouter` (no route), `Config` (unused singleton), `AppDelegate` (one call),
  the extensions (stateless), the web view (one load, nothing reacts to it).
- `heightForRowAt`, the text of the day count, colours; selection only prints.
- Core Animation: end values are set at once, the label animation's completion
  block included.
- `initWithHigherOrdering`: a second way to build a `Main.List`, which nobody calls.
- A scroll event inside `reloadData`, before `lastKey` is set.
- LevelDB: compression, checksums' arithmetic, the arena, the Bloom filter's bits,
  read sampling, the C bindings, coding; statistics and `GetProperty`.
- nanopb: callbacks with a stream of their own, extensions, oneofs.
- Firebase and the other pods: clients of remote services in Objective-C, of which
  the repository has mostly headers. Taken from them: one callback per query and
  per download, on the main queue, and snapshots in the query's order.

The models map about 15 % of the repository's C, C++ and header lines, and the
app's Swift on top. All C and C++ implementation files together are a third of those
lines; the rest are headers that declare Objective-C and C++ interfaces and hold
no behaviour to model.

## Plan

1. `LRUCache`: the rest of `BooksAgree`, and the step of the refinement of
   `KeyedCache`.
2. `Repair`: that a repair that was repeated to its end leaves a `Restorable`
   manifest.
3. `DBIter`: on `GetIs` and `ReadsKept`, that the merged children hold each
   snapshot's entries, then the step of the refinement of `Cursor`.
