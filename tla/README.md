# Calligra in TLA+

Specifications, model-checking configurations and machine-checked proofs for
parts of Calligra (`src/calligra`), the suite's parts whose correctness rests on
the order of events: in Krita, the update scheduler of the image, the store of
the tiles that hold its pixels, and undo, which reaches from those tiles over the
undo stack of the suite to the modified flag and the autosave of documents.

Contents: 1 inventory of the system, 2 modules and their correspondence to the
code, 3 runs, 4 what disagrees with the documentation, 5 proofs, 6 what is left
out, 7 plan.

## 1. Inventory

Calligra is a suite of office and painting programs in C++/Qt: some twenty
thousand files, most of them event handlers of a GUI thread, converters of file
formats and numeric code. What is worth a model checker is where several threads
share state, where calls must come in an order, or where an index or a
rectangle must not go wrong at a boundary. `PROJECT.json` lists every component;
these carry state of that kind:

| component (all under `krita/image` unless said) | state | operations | interacts with |
|---|---|---|---|
| update scheduler, `kis_update_scheduler.cpp` | `processingBlocked`, `updatesLockCounter`, `updatesStartLock` | requests, strokes, `lock`, `unlock`, `barrierLock`, `tryBarrierLock`, `waitForDone`, `fullRefresh`, `blockUpdates`, `unblockUpdates`, `processQueues` | calls both queues; called by every client and, by the signal `sigJobFinished`, by every worker |
| updates queue, `kis_simple_update_queue.cpp` | lists of walkers and of spontaneous jobs under one mutex | add, split, join, collect, hand out | `KisUpdaterContext::addMergeJob`, `addSpontaneousJob` |
| strokes queue, `kis_strokes_queue.cpp` | queue of strokes, `needsExclusiveAccess` | start, add, end, cancel, process | `KisStroke`, `addStrokeJob` |
| stroke, `kis_stroke.cpp` | queue of jobs, initialized / ended / cancelled | the same, for one stroke | strategies, which make jobs |
| updater context and job items, `kis_updater_context.cpp`, `kis_update_job_item.h` | one slot per thread, thread pool, exclusive-job lock | snapshot, admission, start, run, wait | shared by both queues; runs strokes and merges |
| lazy wait condition, `kis_lazy_wait_condition.h` | two counters and a wait condition | initWaiting, wait, wakeAll, endWaiting | `blockUpdates`, `wakeUpWaitingThreads` |
| stroke strategies | what a stroke does to the scheduler | callbacks of jobs | add jobs, block updates, ask for updates |
| transactions, undo adapters, saved commands | memento, default pixels, the first redo | begin, end, commit, revert, undo, redo | the data manager of a device; the undo stack; undo and redo as strokes |
| image facade, `kis_image.cc` | nesting of locks | forwards to the scheduler | clients |
| tile data store, pooler, swapper, `tiles3/` | reference counts, pre-clones, swap state, lists and their locks | copy on write, load, swap, free | every painting thread and two service threads |
| memento manager, tiled data manager, `tiles3/` | revisions of tiles | commit, rollback, rollforward, purge | undo |
| swap file: chunk allocator, `tiles3/swap/` | list of chunks | get, free, grow | tile data store |
| lockless stack, memory pool, `tiles3/` | linked nodes, counters | push, pop, clear | pre-clones of tiles |
| undo stack, `libs/kundo2` | commands, index, clean index, macros | push, merge, undo, redo, jump, limit, set clean | all applications; tells documents of its index |
| documents, `libs/main` | modified flag, autosave flag and timer, upload | save, export, upload, autosave | undo stack; Krita locks the image while it saves |

What is hard about them:

- **Who processes the queues.** There is no scheduling thread: whoever adds a
  job, unlocks something or finishes a job runs `processQueues()`. Any number of
  threads are inside it at once, and whatever nobody starts stays where it is
  until somebody calls again.
- **Flags without locks.** `processingBlocked` and `needsExclusiveAccess` are
  read once, before the locks are taken, and the decision is used afterwards.
- **Slots that are reused early.** A slot becomes empty while its worker is still
  inside `run()` and on its way through `processQueues()`.
- **Three ways to stop updates**: the lock of the image, the counter of
  `blockUpdates()`, an exclusive stroke. Each has its own way of waiting.
- **Cancellation.** A stroke may be cancelled before its first job, between
  dabs, after its end and after its last job was handed out.
- **Patches.** Requests are split on a grid and joined again by other threads in
  between; no pixel may be forgotten.
- **Shared pixels.** A tile's data is shared by devices and by history, copied on
  write, copied beforehand by one thread and moved to a file by another. Its
  lifetime is counted twice (`m_usersCount`, `m_refCount`), its presence in memory
  is a read lock, and two locks are taken in both orders.
- **Two histories.** The undo stack and the revisions of each device never name
  each other: `rollback()` takes the last revision, whatever it belongs to. They
  agree only if everybody keeps the order, with strokes cancelled, commands
  deleted and the limit reached in between.
- **Numbers for states.** Whether a document is modified is decided by
  comparing an index, perhaps of a signal sent a while ago, with the clean index.

What makes the modelled components correct: under a lock nothing is executed
(`LockedMeansQuiet`); between `blockUpdates()` and `unblockUpdates()` no merge
runs (`UpdatesStayBlocked`) and the counters do not drift (`BlockersCounted`);
merges that run together do not overlap (`MergesDisjoint`); each job is executed
by one thread (`OneRunnerPerJob`); a sequential job is alone (`SequentialAlone`),
a stroke outlives its running jobs (`RunningStrokeIsHead`), and strokes as a whole
behave like `StrokeLifecycle`; requests, strokes and calls get done
(`UpdatesAreServed`, `StrokesAreRetired`, `BlockUpdatesReturns`, `CallsReturn`);
the updates queue loses no cell (`NoCellIsLost`, `SplitCoversRequest`,
`WalkersStaySplit`).

For the tiles: what a tile and a committed revision show is what was written to
them (`TilesKeepTheirPixels`, `HistoryKeepsItsPixels`); who has blocked data finds
it in memory (`BlockedDataIsLoaded`); data lives exactly as long as its users
(`FreedWithTheLastUser`) and is either in the list of the store or in the file
(`ListedOrSwappedOut`), in chunks that neither overlap nor leak (`ChunksAreSane`);
and the two locks do not wait for each other (`ListLockNeverWaits`). For undo: the
image is the one that belongs to the index of the stack (`ImageFollowsHistory`),
because revisions and commands agree (`RevisionsMatchCommands`); a document that
is not marked is saved (`UnmodifiedMeansSaved`), one that is not saved will be
autosaved (`WorkIsAutosaved`), and the window title knows (`CleanIsHeard`). The hazards
behind all of these, line by line, are in `PROJECT.json`.

## 2. Modules

`KisStroke` (operators on strokes) is extended by `KisUpdaterContext` (slots, pool,
exclusive-job lock), that by `KisStrokesQueue`; `KisUpdateScheduler` extends it
and `KisLazyWaitCondition`, adds the updates queue, the flags and the threads, and
composes everything. `StrokeLifecycle` is the abstract specification of strokes,
instantiated by the scheduler with a refinement mapping. `KisSimpleUpdateQueue`
stands alone: the same updates queue with its rectangles.
`KisUpdateSchedulerProofs` and `KisStrokesQueueProofs`, which extends it, hold the proofs
of the scheduler, the second also that of the refinement, and
`KisSimpleUpdateQueueProofs` those of the queue with its rectangles. `MC...` modules
give the constants values.

`KisTileDataStore` extends `KisChunkAllocator` (the swap file's chunks, a small state
machine of its own). `KisTileLocksProofs` proves who holds which lock of the store;
`KisTileDataStoreProofs`, which extends it, that the chunks are disjoint, who uses which
data and where it is; `KisTilePixelsProofs`, on top, what the data shows. `KisUndo` extends
`KisMementoManager` (the history of one device) and `KoDocument` (flags of a
document), which extends `KUndo2QStack`; these three are operators on values, and
`KisUndo` says who calls them, when, and in which order. `KisUndoProofs` proves
what concerns the stack, the types and a single device, `KisUndoHistoryProofs`, which
extends it, that stack and devices agree, and what follows for the document.

### 2.1 The scheduler

**Grain.** A thread is a label in `pc`; `ret` is where a called part returns to.
A step ends wherever another thread can change what the next line uses: at a
lock, at a read of an unlocked flag, at a wait. `processQueues()` is thirteen
actions and takes up to a dozen steps. Sections under one lock are one step,
with one exception: the two loops of the queues hold the lock of the
context over several jobs, but slots become *empty* without that lock, so each
iteration is a step and the thread stays at `"strokes"` or `"updates"`, which is what
holding the lock means. Locks are therefore sets of labels
(`ContextUnlocked`, `StrokesUnlocked`, `NoReader`).

**Correspondence that is not one to one.**

- The two `isEmpty()` calls of a waiting loop are one step: both queues are
  looked at together. Each takes its own mutex in the code; a job that arrives
  between the two is also possible just before or after.
- `waitForDone()` of the pool and its idle workers: `PoolDone` is true when no
  slot is started and no worker is inside `run()`.
- `wakeAll()` tests `m_waitCounter` without the mutex first; a thread that
  registers after the test is one that registers after the whole call.
- `updatesQueue` in the scheduler holds whole areas: a request for a queued
  area joins it. Two areas conflict as given by `accessRect` and `changeRect`.
- A job body is one of four: `plain`; `dirty` (asks for an update, as a dab of a
  freehand stroke does); `block` (a section with blocked updates, as cancelling
  a move does); `populate` (a cancel job adds undo jobs to its own stroke).
  Strategies choose from these through the constant `Strategies`.
- Clients follow the assertions of `KisStroke`: jobs and one end while a stroke is
  open, one cancel. Who waits for empty queues has ended its strokes before
  (`noOpenStroke`), as `KisImage` asks the tools to. `unlock()` is called by the
  client that locked.
- `handed` in `KisStrokesQueue`, and `dirty` and `requests` in `KisSimpleUpdateQueue`, are history
  variables.
- The quotient in `joinRects()` is a comparison of products, which is false for
  the quotient of zero by zero, as in the code.

**Constants** of the scheduler are sizes and identities: `Clients`, `Workers`, `NumThreads`, `Strokes`,
`Areas`, `Spontaneous`, `Strategies`, the operations that clients may call outside and
under the lock. Two of them are bounds, not parts of the code: `MaxCalls` (calls
of all clients together) and `MaxDebt` (how far below zero the counter of wake-ups
is followed). `KisSimpleUpdateQueue` has `MaxRequests`.

**Fairness** (`FairSpec`): weak fairness per thread of `processQueues`, of
`blockUpdates`, of `run` for each worker, and of a client that is *inside* a method.
The operating system schedules threads, and locks are never held across an
unbounded wait except the exclusive-job lock. Nothing makes a client call a
method; a client that has locked is taken to unlock.

### 2.2 The tile store

**Agents** are painting threads, the swapper and the pooler. Each has a label, the
tile and the tile data it works on, and where it goes when a nested call returns
(`next` after loading or freeing, `resume` after swapping). A step ends at a lock; what
lies between two locks, or inside a section that another agent cannot observe, is
one step.

| code | model |
|---|---|
| `KisTileData`, its counters, `m_swapLock` held for reading, `m_clonesStack` | a record of `td`; `readers` |
| `m_data` | the set of the writes it has received, or `NoData` |
| `KisTile`, `m_swapBarrierLock`, `m_COWMutex`, `m_oldTileData` | a record of `tile` |
| `KisTile::lockForRead`, `lockForWrite`, `unlock` | `lockTile`, then `checkLazyCopying` to `installTileData`; `unlockTile`, `releaseOldTileData` |
| `duplicateTileData` | `popClone`, or `missClone` and `copyTileData`; then `registerTileData` |
| `ensureTileDataLoaded` | `findSwappedOut`, `lockList`, `swapInTileData`, `lockLoaded` |
| `freeTileData` | `freeTileData` |
| `checkFreeMemory`, `doJob`, `pass`, `trySwapTileData` | `beginCycle`, `beginPass`, `trySwapOut`, `endPass`, by the swapper and by any thread that finds the memory full |
| the pooler's cycle | `freeClones`, `beginCloning`, `copyClone`, `pushClone` |
| `bitBlt`, destruction of a tile, `KisMementoItem::commit`, its destructor | `copyTile`, `dropTile`, `commit`, `purge` |
| `KisChunkAllocator` | `getChunk` (forward, wrapped around, grown), `freeChunk` |

What is assumed of callers: one thread writes a tile at a time (`OneWriter`), and
nobody copies or commits a tile that is being written. Abstractions: ages and the
position of the clock become any order of a pass; below eight tiles every
threshold of `KisStoreLimits` equals its limit; a pooler's cycle over several tile
data is several cycles over one; a copied tile has no memento manager, so no item in an
index; each write lock is for one write; the compressed size belongs to the tile
data. When the swap file may not grow further the program ends (`qFatal`), and
no step models that; one slab is supposed to fit into it (the defaults are 64 and 4096
MiB, `kis_image_config.cpp:85` and `:95`). `expected` of a tile and of a revision is a history variable, as
is `raced`: it is set when the pooler pushes a copy of outdated data
(run `preclone`), after which pixels are no longer compared.

### 2.3 Undo

**Actors** are the GUI thread and one worker: strokes of an image are executed one
after the other, and how their jobs are scheduled is the business of 2.1. `strokes` is
the queue of the image, painting strokes and the strokes of saved commands alike;
`quiet` says that it is empty and no macro is being composed.

| code | model |
|---|---|
| `KisTiledDataManager` with its `KisMementoManager` | a record of `devices`; an item of a revision is what it says of its tile (`now`) and what its parent says (`before`) |
| `KisTransactionData` | a transaction; `undone`, `redone`; its destructor in `purged` |
| `KisSavedCommand`; a command of the legacy adapter; a macro | a command with `saved` and its `parts` |
| `KUndo2QStack` | `stack`; `push`, `moveTo` |
| `UndoStack::undo`, `redo`, `setIndex` of `KisDoc2`, under `tryBarrierLock()` | `startHandling`, then `giveUp`, or `undo`, `redo`, `setIndex` when no stroke is left |
| init, paint, finish and cancel jobs of a painting stroke | `initStrokeCallback`, `doStrokeCallback`, `finishStrokeCallback`, `cancelStrokeCallback` |
| a worker's `indexChanged()`, queued to the GUI thread | `events`, `deliver` |
| `saveFile`, `saveToUrl`, `exportDocument`, upload, autosave | `save`, `failToSave`, `exportDocument`, `saveRemote`, `uploadFinished`, `slotAutoSave` |

A handler of the GUI thread is entered when what was posted before is delivered;
the worker may finish strokes and push while the handler waits for the
lock. Legacy transactions are made whole under the lock. A document begins as
loading leaves it: all tiles in a revision that is not committed yet. Not
modelled: merging (no command of Krita has an id), nested macros, strokes
inside a macro, events processed inside a save, indirect painting (its
temporary target is merged into the device within one job). The autosave file
that an export removes is that of the exported file, so the document's own
one stays.

`Liberties` are five things that may happen in the program though the code makes
no provision for them. Each, alone, breaks a property; the run `undo` has none of
them and so shows that there is no sixth within its bounds.

| liberty | what it allows | breaks |
|---|---|---|
| `revertAfterUndo` | a stroke is cancelled while a command of its device can be redone | `ImageFollowsHistory` (run `revert`) |
| `exportModified` | a modified document is exported: the stack is set clean, the flag is put back; undo to and redo from there unmark and mark it wrongly | `UnmodifiedMeansSaved`, `WorkIsAutosaved` |
| `editWhileUploading` | strokes and commands while an upload is on its way, whose end unmarks the document | the same |
| `uploadFails` | the upload fails after the stack was set clean and the autosave file removed | the same |
| `jumpMixed` | the history docker jumps over commands of both kinds; legacy ones act at once, saved ones later | all three |

To see one, put its name in `Liberties` of `MC_undo.cfg`.

## 3. Runs

| run | module, configuration | question | instance | outcome |
|---|---|---|---|---|
| `threads` | `MCKisUpdateScheduler`, `MC_threads` | Do the counters, the exclusion of updates and the admission of merges stand two clients and two workers? | 2 clients, 2 workers, 2 slots, 2 areas, 1 kind of spontaneous job, 3 calls | `BlockersCounted`, `UpdatesStayBlocked`, `MergesDisjoint`, `OneRunnerPerJob` hold, 1 005 847 states |
| `strokes` | same, `MC_strokes` | Do the strokes implement `StrokeLifecycle`? | 1 client, 2 workers, 2 slots, 2 strokes with dabs of each sequentiality, 4 calls | `SequentialAlone`, `RunningStrokeIsHead`, `StrokesKeepLifecycle` hold, 636 892 states |
| `jobs` | same, `MC_jobs` | What do jobs that call the scheduler themselves do to the exclusions? | 1 client, 2 workers, 2 strokes (exclusive and not) with bodies `block`, `dirty`, `populate`, 4 calls | `TypeOK`, `UpdatesStayBlocked`, `LockedMeansQuiet` hold, 1 160 907 states |
| `live` | same, `MC_live` | Is nothing executed under the lock, however it is taken, and is everything served in the end? | 1 client with every locking, waiting, refreshing and blocking method, 2 workers, 1 stroke whose jobs ask for an update, block updates and add an undo job, 3 calls, fairness | `LockedMeansQuiet`, `UpdatesAreServed`, `StrokesAreRetired`, `BlockUpdatesReturns`, `CallsReturn` hold, 164 770 states |
| `queue` | `MCKisSimpleUpdateQueue`, `MC_queue` | Do splitting, joining and collecting lose a cell? | 2 threads, image of 4 x 4, patches of 2 x 2, 2 requests out of all shapes | `NoCellIsLost`, `WalkersStaySplit`, `SplitCoversRequest` hold, 138 741 states |
| `tiles` | `MCKisTileDataStore`, `MC_tiles` | Do tiles and history keep their pixels while data is shared, copied, pre-cloned, swapped and freed? | 2 painting threads, swapper and pooler; a tile, and one that is copied from it and dropped; 4 tile data, one tile allowed in memory, 1 clone each, 1 committed item, 2 writes; chunks of 1 and 2 cells in a file that grows by 3 up to 9 | the eight invariants hold, 1 532 582 states |
| `undo` | `MCKisUndo`, `MC_undo` | Do undo and redo put the image back, and does the modified flag tell the truth? | 2 devices of one tile, 2 default pixels, 3 transactions of one change, undo limit 2, all operations | the six invariants hold, 3 074 487 states |
| `lockrace` | `MCKisUpdateScheduler`, `MC_lockrace` | Is nothing executed under the lock with two clients? | 2 clients, 2 workers, 2 areas, 2 calls | `LockedMeansQuiet` is violated |
| `try` | same, `MC_try` | Does a failed `tryBarrierLock()` delay requests for good? | 2 clients, 2 workers, 2 areas, 2 calls, fairness | `UpdatesAreServed` is violated |
| `lostwake` | same, `MC_lostwake` | Can a waiting thread be forgotten? | 2 clients, 1 worker, 1 area, 5 calls | `NobodyIsForgotten` is violated |
| `preclone` | `MCKisTileDataStore`, `MC_preclone` | Are the clones of shared data copies of it? | as `tiles` | `ClonesAreFresh` is violated |
| `revert` | `MCKisUndo`, `MC_revert` | Does a stroke that is cancelled leave the history alone? | as `undo`, with `revertAfterUndo` | `ImageFollowsHistory` is violated |

Safety runs use symmetry of threads, strokes and areas; the runs with
liveness do not. Every bound that is hit is a guard, so no run prunes states by
a constraint. Deadlock is checked everywhere: the explicit `Rest` steps say that
the system may stop only with every thread idle and nothing started.

*Why the bounds are enough.* The races found and excluded involve two threads at
one flag and a third event (a request, a finished job): two clients and two
workers, or one client and two workers, cover them. Two strokes are what a queue of strokes needs for a successor, four calls are
start, one job, end or cancel, and one more. One area in the strokes
runs keeps merges and strokes competing for slots; two where merges must be
compared. For the updates queue, an image of 4 x 4 cells with patches of 2 x 2
gives requests that are smaller than a patch, larger one way, larger both ways,
on and off the grid, outside the image, and of two types.
For the tiles, one tile data allowed in memory makes every second one a candidate
for the file, two tiles and one item of history give data up to three users, two
threads a reader or a loader next to each writer, and four tile data a copy in the
making next to all the others; chunks of two sizes in a file of three slabs
leave gaps that fit and gaps that do not, and the iterator wraps around. For undo,
three transactions give a revision to undo, one to redo and one that a stroke in
progress or the limit of two takes away; a second device shows whether
histories are mixed up; a second default pixel, a change without a tile.

Every property of a passing run has a mutant in its module (operators named
`Mutant...`): the definition changed the way a plausible bug would change it, for
which TLC finds the property violated under the same configuration.

## 4. Where code and documentation disagree

Five runs are expected to end in a violation. Each states what a
comment of the repository says.

- `lockrace`: `lock()` "will wait until all the executing jobs are finished", and
  later jobs "will be delayed". A thread that has read `processingBlocked` just
  before starts a job just after `lock()` has returned. With a single client the
  property holds (runs `live` and `jobs`): the workers are all waited for.
- `try`: a `tryBarrierLock()` that fails has blocked the queues for a while, and
  leaves without processing them. What another thread queued meanwhile stays.
- `lostwake`: two threads in `blockUpdates()`. A fast one consumes two wake-ups of
  one `wakeAll()`, the counter ends below zero, and the next `wakeAll()` only
  brings it back to zero. Nothing is running, and both sleep until
  some third thread wakes them. The note in the header asks users for a stable
  condition; `wakeUpWaitingThreads()` tests and wakes in two steps and cannot
  provide it.

- `preclone`: "We need to ensure the clones in the stack are consistent with the
  data" (`kis_tile_data.h`). The pooler finds data with two users and begins to copy;
  one user goes, the other, alone now, writes in place; a new user acquires the
  data, finds no clone to throw away, and then the pooler pushes its copy. The
  next copy on write takes it, and a tile loses a write.
- `revert`: a rolled forward memento "restores the image data to the state at the
  time of the rollback call of the memento" (`kis_datamanager.h`). Undo a command,
  start a stroke on the same device (its transaction forgets the undone
  revision), cancel it (its revision is put in front of the undone ones), redo: the
  command is told to redo and the cancelled stroke is what comes back.

`BlockUpdatesReturns` is accordingly claimed for one blocking thread at a time
(run `live`). An exclusive stroke whose next job is a barrier, with updates pending,
waits for them while they wait for it, and its jobs may find merges next to them,
against an assertion in `checkExclusiveProperty()`: these are listed as hazards, because
only tests make a stroke exclusive. The other liberties of 2.3 contradict no
document and are listed there and as hazards.

## 5. Proofs

Proved by the TLA+ proof system for every value of the constants that satisfies
the named assumptions: `SchedulerAssumption` (threads are finitely many and a
client is no worker; the operations are among those modelled; `MaxDebt` is
positive), `ContextAssumption` (there is at least one slot),
`StrokesAssumption` (the value of a stroke that was not started is no stroke),
`QueueAssumption` (patches have cells, and the image begins at the origin, as
`KisImage::bounds()` does), `AllocatorAssumption` (sizes are positive), `StackAssumption` (the undo limit is a
natural number), `MementoAssumption` (the value for no tile is no pixel),
`UndoAssumption` (the two bounds are natural numbers) and `StoreAssumption` (threads, tiles and tile data are finitely many
and distinct from the values for none of them; every compressed size is a chunk
size; a slab fits into the swap file).
Numbers of threads, slots, strokes, areas, calls, requests, tiles, tile data, devices and pixels are
arbitrary, and so are the sizes of images, patches, chunks and files.

| module | theorem | property | argument |
|---|---|---|---|
| `KisUpdateSchedulerProofs` | `TypeCorrect` | `TypeOK` | one lemma per action; the records of jobs and strokes keep their fields |
| | `ControlCorrect` | `Control` | see below |
| | `OneRunner` | `OneRunnerPerJob` | inductive together with `Control` |
| | `CountersExact` | `BlockersCounted` | inductive: each counter moves by one exactly when one thread enters or leaves the set it counts (`SetsMove`) |
| | `BlockedUpdates` | `UpdatesStayBlocked` | by `Sealed`, if no client calls `fullRefresh()` |
| | `MergesApart` | `MergesDisjoint` | by `isJobAllowed()`, if no client calls `fullRefresh()` |
| | `LockedQuiet` | `LockedMeansQuiet` | by `LockDiscipline`, if there is one client |
| `KisStrokesQueueProofs` | `HeadOwnsJobs` | `RunningStrokeIsHead` | inductive with `TypeOK`: the head stays while stroke jobs run |
| | `SequentialRunsAlone` | `SequentialAlone` | by `SequentialNoted` |
| | `LifecycleImplemented` | `StrokesKeepLifecycle` | by `StrokesShaped`, if every strategy is whole |
| `KisSimpleUpdateQueueProofs` | `CellsKept` | `NoCellIsLost` | by `QueueInv`; induction over the walkers that `collectJobs()` looks at |
| | `SplitKept` | `WalkersStaySplit` | by `QueueInv` |
| | `SplitExact` | `SplitCoversRequest` | arithmetic of `trySplitJob()` |
| `KisTileDataStoreProofs` | `ChunksStaySane` | `SanityCheck` | inductive with the types; one lemma for inserting, one for removing a chunk |
| | `FreedRight` | `FreedWithTheLastUser` | by `Ordered` and `Counted` |
| | `TypesKept` | `TypeOK` | by all layers: a counter is not negative because of what it counts |
| | `BlockedDataStays` | `BlockedDataIsLoaded` | by `Placed`: `ReadersCounted` and `InMemory` |
| | `ListedOrFiled` | `ListedOrSwappedOut` | by `Placed`: `Listed` and `InMemory` |
| | `SwapLockIsFree` | `ListLockNeverWaits` | by `ReadersCounted`: nobody who could hold the lock is where it is held |
| | `SwapFileIsSane` | `ChunksAreSane` | by `Placed`: `Filed`, and the lemmas about the allocator |
| `KisTilePixelsProofs` | `PixelsKept` | `TilesKeepTheirPixels` | by `Painted`, while no two threads write one tile |
| | `HistoryKept` | `HistoryKeepsItsPixels` | the same |
| `KisUndoProofs` | `CleanKnown` | `CleanIsHeard` | by `StackInv`: one lemma per operation of the stack |
| | `IndicesInside` | | by `StackInv` |
| | `TypesKept` | `TypeOK` | by `TypedInv`; every waiting stroke has a memento left to take |
| `KisUndoHistoryProofs` | `HistoryFollowed` | `ImageFollowsHistory` | by `HistoryInv`, if `historyMeantFor` |
| | `RevisionsMatched` | `RevisionsMatchCommands` | by `HistoryInv`: parts and revisions are counted against each other |
| | `UnmodifiedAlwaysSaved` | `UnmodifiedMeansSaved` | by `DocumentInv`, if `historyMeantFor` and `savingMeantFor` |
| | `WorkAlwaysAutosaved` | `WorkIsAutosaved` | the same |

*The strengthenings.* None of the deeper properties is inductive alone.

- `Control` says where a thread may return to from where it is, and how the
  place of a worker goes with its slot. Every other proof needs it:
  without it a worker that returns from `processQueues()` could turn up inside a
  locking method. The "moves" lemmas (`ProcessMoves`, `BlockMoves`, `RunMoves`,
  `ClientMoves`) say once for each part of the program where its steps lead, the
  "fills" lemmas what they do to slots; later proofs cite them in place of
  the actions.
- `Sealed`: a thread that has blocked updates excludes merges in slots *and*
  readers of `updatesStartLock`. The second half is what the lock is for: a
  reader saw the counter at zero and may still start a merge. Since
  `haveUpdatesRunning()` takes the lock for writing, there is no reader
  when it finds no merge; later readers see the counter, which `CountersExact`
  shows to be positive while anybody holds updates blocked.
- `LockDiscipline`: `processingBlocked` is set exactly at certain places of the
  client; under the lock its `processQueues()` calls turn back at the flag; and
  the pool is done from the wait to the release. With two clients the first
  part is false, and so is the property (run `lockrace`).
- `SequentialNoted`: while a sequential job is executed, its stroke remembers it
  as the previous one. The head owns all running jobs, so `checkSequentialProperty()`
  asks the right stroke; and cancelling replaces the queued jobs but not the
  memory of the previous one.

*The refinement.* `LifecycleImplemented` shows that the initial state maps to an
initial state of `StrokeLifecycle` and every step to a step of it or a stutter,
`Next` by `Next`. What it needs of the scheduler is `StrokesShaped`: which jobs a
stroke still has, as a function of its flags and of the jobs it has handed out. It has
its init job exactly as long as that was not handed out; the dabs follow; finish or
cancel comes last and is there exactly when the stroke has ended; a cancelled
stroke has the cancel job and undo jobs only. Together with `HeadOwnsJobs` and
`SequentialRunsAlone` it says that what is handed out is allowed by the lifecycle.
The hypothesis `WholeStrategies` describes the strategies for which the lifecycle is
meant, those of the tools: one init, one finish and one cancel job, made with the null data of
`KisStrokeStrategy::createInitData()` and its like, and so sequential
(`KisStrokeJob::isSequential`). A strategy may leave any of them out; its strokes then
skip a phase of the lifecycle, and neither the runs nor the theorem speak of them.

`NoRefresh` and `OneClient` are hypotheses of theorems, not assumptions of
modules: the runs `live` and `threads` go beyond them.

*The rectangles of the updates queue.* `QueueInv` adds to the two invariants the types,
and that patches on their way to the queue are split too: between a failed
`tryMergeJob()` and the append the queue may change in any way, and the patch is
appended to whatever it has become. `collectJobs()` is a recursion over the list, and
an induction rule cannot be applied here (below). `Least`, every set of
numbers has a least element, replaces it: `CollectingDefined` shows in this way that
the recursion has a solution, and `AllVisited` that after each walker (`Gathered`) every one
seen so far was either taken into the base, which holds all its cells, or has stayed.
`SplitExact` is arithmetic: every cell of the image lies in the row and the column of
patches computed for it, and `RowAndColumn` finds its piece. It is where the
rounding of negative coordinates towards zero is harmless: it only adds a
patch, or leaves out cells that are outside the image.

*The chunks of the swap file.* `AllocatorAssumption` says that sizes are positive.
`GAP_SIZE` is used with a lower bound that is the last cell of the previous chunk,
excluded, and, for the first gap, with the first cell of the file, included. The proof shows
that the one comparison suffices for both: it is exact for every later gap, and
for the first it only refuses a gap that would just do. `SwapFileIsSane`
adds, for the tile store that uses it, that every chunk belongs to one tile data.

*The tile store.* The invariant has four layers, each proved inductive with the help of
the ones before it.

- `Ordered` (`KisTileLocksProofs`) gives every label its meaning: the fields a
  record has there, the locks that are held, and what the agent is to its tile. An
  agent inside the swapper or inside `ensureTileDataLoaded()` remains what it was
  (`where`), which is what makes nested calls tractable. For each tile it
  follows that `m_lockCounter` is the number of threads between lock and unlock,
  that `m_swapBarrierLock` is held by the first user while it loads or by the last
  while it releases old data, in both cases alone, and that `m_COWMutex` is held from
  the second look at the number of users to the exchange of the data.
- `Counted`: `m_usersCount` and `m_refCount` are the sizes of sets, summed over
  tiles, old data, memento items, copies on their way and indices. Each action moves an
  element between two of the sets, or in or out of one; the lemmas about finite sets
  (`OneMoves`) turn that into the increments of the code.
- `PassTyped` is about the two running sums of a pass.
- `Placed`: the read locks of tile data are counted like its users (`ReadersCounted`);
  what is locked, listed or being made is in memory (`InMemory`); what an agent has
  seen under the list lock remains so until it gives the lock back (`Visited`); and
  every tile data outside memory is all there is in its own chunk (`Filed`).

None of it needs `OneWriter`: locks, counters and places are right with any number of
writers of one tile, only the pixels are not.

*The pixels.* `Painted` stands on these layers and on `OneWriter`, which is what the code
asks of its callers (2.2). A tile with one writer (`WriterAlone`) has data that
the writer shares with nobody, and so has a copy on its way to its tile (`Pens`): the look
at the number of users under `m_COWMutex` cannot be outdated, because every
other thread that would become a user starts from a tile that points to the data. Clones
that somebody may still take are copies of the data (`Fresh`), and a copy in the
making shows what its tile shows (`Hands`). `Fresh` and `Hands` end when the
pooler pushes an outdated copy (`raced`), which it can do (run `preclone`); so
the two theorems, like the properties, speak of the time before.

*The undo stack.* `StackAssumption` says that the limit is a natural number. `StackInv`
strengthens `CleanIsHeard` by what each operation needs of the one before: between
calls `heard` is whether the clean index is the index, *in a macro too*, where
`isClean()` says no; both indices lie inside the list; and exactly in a macro one
command, the last, is not counted yet. The last part is why the limit, which shifts
the indices, never takes more commands than were counted, and why `endMacro()`
cannot make a clean state. Cutting off the redone or the oldest commands tells no
listener, and need not: it drops the clean index only where it is not the index.
The proof does not look into the commands, because what undo does to devices never
touches the stack.

*One device.* A device has revisions and cancelled revisions, a command has a memento, and
nothing in the code says that `rollback()` finds the revision of the memento it
is given. The proof invents worlds: W[n] is the image after memento n. For a set of
transactions and a place c between two mementos, `behind` says that the
revisions are, in order, of the transactions up to c (below them may lie
revisions that are older than all the stack remembers), each with the tiles
of its world and of the world before, and `ahead` the same of the cancelled ones, with the next one
first. `kept` is a device at rest at c, `busy` one on which a transaction is open.
There is one lemma for each method of `KisMementoManager`: `rollback()`
moves a device to the place before its last transaction, `rollforward()` to the place
after its next one, `commit()` makes a new place, `getMemento()` forgets what is ahead,
`purgeHistory()` forgets the oldest or finds nothing to forget.

*Stack and devices.* `HistoryInv` joins the devices by one list of commands. Command i is
marked with the last memento in it, marks rise (`marked`), and the devices stand at a place
of the list (`at`). With jobs in the queue, that place is not the index:
`placed` says that the jobs, in order, are the commands from one to the other,
so that each job meets its devices where it needs them (`NextStep`). A command
that acts at once is only reached when no job waits. That is where `historyMeantFor`
enters: a jump over commands of both kinds would carry out the legacy ones before the saved
ones. A stroke in progress and a macro in the making are one world ahead (`painted`,
`situated`). A cancelled stroke rolls back to where it began, which is the
same place only if there was nothing to redo on its device: the second half of
`historyMeantFor`. `push()` is the hardest step: after a commit, the commands that could be
redone are deleted, and their destructors find nothing to purge, since what is undone is not
among the revisions (`DeletedNothing`). On the device of the commit it is gone; on others
it lies among the cancelled revisions until their next transaction, and `ahead` allows for such
leftovers. Then the limit deletes the oldest commands, whose revisions are the oldest
(`OldestGone`); the marks shift.

`HistoryFollowed` is then that the images remembered are the worlds at the marks.
`RevisionsMatched` counts: from a part of a command to the index there are as many parts on
its device as revisions, because mementos match them one to one (`Matched`).

*The document.* `DocumentInv` relates index, clean index, posted signals, flags and the four
places an image can be. The last signal on its way tells of an index after the clean one, or else the
stack is at the clean index (`announced`); once all are delivered the flag is that of the
index (`flagged`); the image of the clean index is in the file or uploading, and the present one
is somewhere if the next autosave would leave it out (`stored`);
and nothing is edited while an upload is on its way (`unedited`). `savingMeantFor` excludes the
three liberties of 2.3 that the code has no answer to. Before it was proved the invariant was
checked by TLC on the run `undo`.

`historyMeantFor` and `savingMeantFor` are hypotheses on `Liberties` and on nothing
else; the run `undo` meets both, the run `revert` shows that the first is needed. The
devices, tiles, pixels, the limit of the stack and the bounds on transactions and
changes are arbitrary.

*Recursion.* What commands do to devices is a recursive function over a
sequence (`carrying`, `executing`). The library's rules of induction take an operator, which the
provers cannot instantiate; `StepByStep` is the rule for a set of numbers instead, proved
from the least element, and each use names its set.

### Only model-checked

- Liveness: fairness and `ENABLED` are out of the prover's reach.
- `OneWriter`, `WholeStrategies`, `NoRefresh`, `OneClient`, `historyMeantFor` and `savingMeantFor`
  are hypotheses: what happens without them is the matter of the runs that expect a
  violation and of 2.3.

Every invariant of a passing run, and the refinement, is stated by a theorem of the table.

## 6. Not modelled

In the scheduler: progress reporting, `updateSettings()`, the destructor, the
testing variants of the context. In the strategies: what is painted. In
`waitForDone` and `lock` of `KisImage`: the nesting count, which belongs to
the GUI thread alone. Requests with negative coordinates: the division in
`trySplitJob()` rounds towards zero and can leave cells out, but only cells outside
the image, which walkers crop; the property speaks of the image's cells.

In the tile store: two threads that write one tile; the lists and iterators of the
store as objects (`kis_tile_data_store_iterators.h`); the lockless stack that
holds the clones, each of whose operations is one step here; compression, the
memory window over the file, statistics. In undo: what 2.3 names, and
offsets, selections and the outline cache of transactions. In documents: formats,
loading, dialogs, and the recovery of autosave files at the next start.

The rest of the suite, with the reason for each part, is listed in `PROJECT.json`
under components: libraries of sequential data transformation, GUI code,
import and export filters, vendored code.

## 7. Plan

1. (done) Scheduler, its parts, `StrokeLifecycle`, updates queue; the safety
   invariants of the scheduler proved.
2. (done) Proofs: every step of the scheduler is a step of `StrokeLifecycle` or a
   stutter; `KisSimpleUpdateQueue` splits exactly and keeps cells.
3. (done) `KisTileDataStore` with `KisChunkAllocator`; `KisMementoManager`, `KUndo2QStack`,
   `KoDocument` and their composition `KisUndo`; chunks proved disjoint.
4. (done) Proofs about the tile store: locks, users and references, places, pixels.
5. (done) Proofs about undo: the stack, the types, the history of a device, the agreement of stack
   and devices, the document.
6. `KisLocklessStack`: push, pop and clear by two or three threads with
   reclamation; no value twice, none lost. The tile store then takes it for the
   implementation of its sequence of clones.
7. Walkers and merger: need and access rectangles of a stack of layers.
