--------------------------- MODULE KisTileDataStore ---------------------------
(***************************************************************************)
(* The tiles of Krita's paint devices and the store of their data          *)
(* (krita/image/tiles3: KisTile, KisTileData, KisTileDataStore, its pooler *)
(* and its swapper, KisMementoItem, KisSwappedDataStore).                  *)
(*                                                                         *)
(* Tiles share tile data and copy it when one of the users wants to write. *)
(* A pooler thread makes such copies beforehand.  A swapper thread, and    *)
(* every thread that finds the memory full, moves data that nobody has     *)
(* blocked into the swap file, whose chunks KisChunkAllocator hands out.   *)
(*                                                                         *)
(* The pixels of a tile are the set of the writes it has received; two     *)
(* writes never touch the same pixel.  Every agent carries a label, the    *)
(* tile and the tile data it works on, and where it goes when a nested     *)
(* call returns.  What a thread does between two locks is one step.        *)
(***************************************************************************)
EXTENDS KisChunkAllocator, FiniteSets

CONSTANTS
    Threads,                \* threads that paint, update and undo
    Swapper, Pooler,        \* the two threads of the store
    NoOne,                  \* the owner of a free lock
    NoTile,
    TileData,               \* the objects of type KisTileData that fit the bounds
    Tiles,
    Copies,                 \* tiles that are made by copying another, and dropped
    NoData,                 \* m_data of tile data that is swapped out
    SoftLimit, HardLimit,   \* tiles in memory; below eight KisStoreLimits makes
                            \* every threshold equal to its limit
    MaxClones,              \* MAX_NUM_CLONES of the pooler
    OneWriter,              \* whether callers never write one tile from two threads
    MaxWrites, MaxItems,    \* bounds: writes, and committed memento items
    CompressedSize          \* what every tile data measures in the swap file, in cells

NoTileData == 0
NoChunk == -1

ASSUME StoreAssumption ==
    /\ TileData \subseteq Nat \ {NoTileData} /\ IsFiniteSet(TileData)
    /\ IsFiniteSet(Tiles) /\ Copies \subseteq Tiles /\ NoTile \notin Tiles
    /\ IsFiniteSet(Threads)
    /\ {Swapper, Pooler, NoOne} \cap Threads = {}
    /\ Swapper # Pooler /\ NoOne \notin {Swapper, Pooler}
    /\ \A data \in SUBSET (1..MaxWrites) : data # NoData
    /\ {SoftLimit, HardLimit, MaxClones, MaxWrites, MaxItems} \subseteq Nat
    /\ CompressedSize \in [TileData -> ChunkSizes]
    /\ SlabSize <= MaxStoreSize

VARIABLES
    td,             \* the tile data
    tile,           \* the tiles
    items,          \* committed memento items, the oldest first
    at,             \* where every agent is
    listLock,       \* owner of m_listLock of the store
    cycleLock,      \* owner of cycleLock of the swapper
    pass,           \* what the swapper counts, and the tile data still to be visited
    preclone,       \* the pooler's copy that is not yet pushed, and how many follow
    swapFile,       \* the cells of the swap file
    written,        \* bound: writes so far
    raced           \* history: the pooler has pushed a copy of outdated data

swapVars == <<swapFile, allocatorVars>>
history == <<written, raced>>
vars == <<td, tile, items, at, listLock, cycleLock, pass, preclone, swapVars, history>>

Agents == Threads \cup {Swapper, Pooler}

KisTileData ==
    [exists : BOOLEAN, m_data : (SUBSET (1..MaxWrites)) \cup {NoData}, listed : BOOLEAN,
     m_usersCount : Nat, m_refCount : Nat, readers : Nat, m_mementoFlag : Int,
     m_clonesStack : Seq(SUBSET (1..MaxWrites)), m_swapChunk : Nat \cup {NoChunk}]

NewTileData(data) ==
    [exists |-> TRUE, m_data |-> data, listed |-> FALSE, m_usersCount |-> 0, m_refCount |-> 0,
     readers |-> 0, m_mementoFlag |-> 0, m_clonesStack |-> <<>>, m_swapChunk |-> NoChunk]

Deleted == [NewTileData(NoData) EXCEPT !.exists = FALSE]

KisTile ==
    [m_tileData : TileData \cup {NoTileData}, m_lockCounter : Nat, m_oldTileData : Seq(TileData),
     m_swapBarrierLock : Threads \cup {NoOne}, m_COWMutex : Threads \cup {NoOne},
     indexed : TileData \cup {NoTileData}, expected : SUBSET (1..MaxWrites)]

NewTile(x, expected) ==
    [m_tileData |-> x, m_lockCounter |-> 0, m_oldTileData |-> <<>>, m_swapBarrierLock |-> NoOne,
     m_COWMutex |-> NoOne, indexed |-> NoTileData, expected |-> expected]

NoPass == [memoryMetric |-> 0, candidates |-> {}]
NoPreclone == [data |-> NoData, left |-> 0]

Idle ==
    [pc |-> "idle", tile |-> NoTile, write |-> FALSE, td |-> NoTileData,
     loading |-> NoTileData, next |-> "idle", resume |-> "idle"]

goto(a, pc) == at' = [at EXCEPT ![a].pc = pc]

\* The identity of an object that is about to be constructed.
isFresh(x) ==
    /\ ~td[x].exists
    /\ \A y \in TileData : y < x => td[y].exists

loaded(x) == td[x].m_data # NoData
memoryMetric == Cardinality({x \in TileData : td[x].listed})

(***************************************************************************)
(* KisTileData                                                             *)
(***************************************************************************)

\* Mutant: the clones stay although the data may have been written since.
MutantAcquired(objects, x) ==
    [objects EXCEPT ![x].m_usersCount = @ + 1, ![x].m_refCount = @ + 1]

\* The clones of data with a single user may be outdated: it is written to in
\* place.
acquired(objects, x) ==
    [objects EXCEPT
        ![x].m_usersCount = @ + 1,
        ![x].m_refCount = @ + 1,
        ![x].m_clonesStack = IF objects[x].m_usersCount = 1 THEN <<>> ELSE @]

\* Mutant: only the references are counted down.
MutantReleased(objects, x) == [objects EXCEPT ![x].m_refCount = @ - 1]

released(objects, x) ==
    [objects EXCEPT ![x].m_usersCount = @ - 1, ![x].m_refCount = @ - 1]

\* Mutant: the lock is given back twice.
MutantUnblocked(objects, x) == [objects EXCEPT ![x].readers = @ - 2]

unblocked(objects, x) == [objects EXCEPT ![x].readers = @ - 1]

\* The last reference takes the agent to freeTileData().
afterRelease(x, next) ==
    IF td[x].m_refCount = 1
    THEN [Idle EXCEPT !.pc = "free", !.td = x, !.next = next]
    ELSE [Idle EXCEPT !.pc = next]

\* Mutant: the data of the history is not copied.
MutantLazyCopying(x) ==
    td[tile[x].m_tileData].m_usersCount > 1 /\ td[tile[x].m_tileData].m_mementoFlag = 0

lazyCopying(x) == td[tile[x].m_tileData].m_usersCount > 1

\* checkFreeMemory(): with the memory full the agent swaps before it goes on.
checkFreeMemory(there, after) ==
    IF memoryMetric > HardLimit
    THEN [there EXCEPT !.pc = "cycle", !.resume = after]
    ELSE [there EXCEPT !.pc = after]

\* blockSwapping(): the read lock if the data is in memory, otherwise the
\* agent goes through ensureTileDataLoaded() first.
blockSwapping(a, x, there) ==
    \/ /\ loaded(x)
       /\ td' = [td EXCEPT ![x].readers = @ + 1]
       /\ at' = [at EXCEPT ![a] = there]
    \/ /\ ~loaded(x)
       /\ at' = [at EXCEPT ![a] =
            checkFreeMemory([there EXCEPT !.loading = x, !.next = there.pc], "load")]
       /\ UNCHANGED td

(***************************************************************************)
(* KisTileDataStore::ensureTileDataLoaded                                  *)
(***************************************************************************)
\* The barrier of a tile whose first user has been waiting here is left with
\* the data in memory and blocked.
releaseBarrier(a) ==
    tile' = [x \in Tiles |->
        [tile[x] EXCEPT !.m_swapBarrierLock = IF @ = a THEN NoOne ELSE @]]

lockLoaded(a) ==
    /\ at[a].pc = "load"
    /\ loaded(at[a].loading)
    /\ td' = [td EXCEPT ![at[a].loading].readers = @ + 1]
    /\ at' = [at EXCEPT ![a] = [@ EXCEPT !.pc = at[a].next, !.loading = NoTileData, !.next = "idle"]]
    /\ releaseBarrier(a)
    /\ UNCHANGED <<items, listLock, cycleLock, pass, preclone, swapVars, history>>

findSwappedOut(a) ==
    /\ at[a].pc = "load"
    /\ ~loaded(at[a].loading)
    /\ goto(a, "loadList")
    /\ UNCHANGED <<td, tile, items, listLock, cycleLock, pass, preclone, swapVars, history>>

\* Mutant: without the second look.
MutantLockList(a) ==
    /\ at[a].pc = "loadList"
    /\ listLock = NoOne
    /\ goto(a, "loadWrite") /\ listLock' = a
    /\ UNCHANGED <<td, tile, items, cycleLock, pass, preclone, swapVars, history>>

\* Under the list lock the data is looked at again: another thread may have
\* loaded and blocked it, and be waiting for the list lock.
lockList(a) ==
    /\ at[a].pc = "loadList"
    /\ listLock = NoOne
    /\ IF loaded(at[a].loading)
       THEN goto(a, "load") /\ UNCHANGED listLock
       ELSE goto(a, "loadWrite") /\ listLock' = a
    /\ UNCHANGED <<td, tile, items, cycleLock, pass, preclone, swapVars, history>>

(***************************************************************************)
(* KisSwappedDataStore                                                     *)
(***************************************************************************)
chunkCells(first, end) == first..end

\* A tile is decompressed from all the cells of its chunk; cells that belong
\* to different tiles do not decompress to any of them.
stored(x) ==
    LET chunk == CHOOSE c \in ToSet(m_list) : c.begin = td[x].m_swapChunk
        pieces == {swapFile[cell] : cell \in chunkCells(chunk.begin, chunk.end)}
    IN  IF Cardinality(pieces) = 1 THEN CHOOSE piece \in pieces : TRUE ELSE NoData

\* Nobody reads a cell outside the chunks: its contents are forgotten.
erased(x) ==
    [cell \in DOMAIN swapFile |->
        IF \E c \in ToSet(m_list) : c.begin = td[x].m_swapChunk /\ cell \in chunkCells(c.begin, c.end)
        THEN NoData ELSE swapFile[cell]]

\* Mutant: the data is written to the file and stays in the list.
MutantSwapOutTileData(x) ==
    /\ getChunk(CompressedSize[x])
    /\ LET chunk == m_list'[m_iterator' - 1] IN
        /\ swapFile' = [cell \in DOMAIN swapFile |->
                IF cell \in chunkCells(chunk.begin, chunk.end) THEN td[x].m_data ELSE swapFile[cell]]
        /\ td' = [td EXCEPT ![x].m_data = NoData,
                            ![x].m_clonesStack = <<>>, ![x].m_swapChunk = chunk.begin]

swapOutTileData(x) ==
    /\ getChunk(CompressedSize[x])
    /\ LET chunk == m_list'[m_iterator' - 1] IN
        /\ swapFile' = [cell \in DOMAIN swapFile |->
                IF cell \in chunkCells(chunk.begin, chunk.end) THEN td[x].m_data ELSE swapFile[cell]]
        /\ td' = [td EXCEPT ![x].m_data = NoData, ![x].listed = FALSE,
                            ![x].m_clonesStack = <<>>, ![x].m_swapChunk = chunk.begin]

swapInTileData(a) ==
    LET x == at[a].loading IN
    /\ at[a].pc = "loadWrite"
    /\ td[x].readers = 0
    /\ td' = [td EXCEPT ![x].m_data = stored(x), ![x].listed = TRUE, ![x].m_swapChunk = NoChunk]
    /\ swapFile' = erased(x)
    /\ freeChunk(td[x].m_swapChunk)
    /\ listLock' = NoOne
    /\ goto(a, "load")
    /\ UNCHANGED <<tile, items, cycleLock, pass, preclone, history>>

(***************************************************************************)
(* KisTileDataStore::freeTileData                                          *)
(***************************************************************************)
\* With the list lock held the swap lock is free (ListLockNeverWaits).
freeTileData(a) ==
    LET x == at[a].td IN
    /\ at[a].pc = "free"
    /\ listLock = NoOne
    /\ td[x].readers = 0
    /\ IF loaded(x)
       THEN UNCHANGED swapVars
       ELSE freeChunk(td[x].m_swapChunk) /\ swapFile' = erased(x)
    /\ td' = [td EXCEPT ![x] = Deleted]
    /\ at' = [at EXCEPT ![a] = [at[a] EXCEPT !.pc = at[a].next, !.td = NoTileData, !.next = "idle"]]
    /\ UNCHANGED <<tile, items, listLock, cycleLock, pass, preclone, history>>

(***************************************************************************)
(* KisTile                                                                 *)
(***************************************************************************)
writers(x) == {t \in Threads : at[t].tile = x /\ at[t].write}

\* lockForRead() and the beginning of lockForWrite(): the first user of a tile
\* blocks its data; the others wait at the barrier until it is loaded.
lockTile(t, x, write) ==
    LET there == [Idle EXCEPT !.pc = IF write THEN "checkCOW" ELSE "reading",
                              !.tile = x, !.write = write]
        first == tile[x].m_lockCounter = 0
        data == tile[x].m_tileData
    IN
    /\ at[t].pc = "idle"
    /\ data # NoTileData
    /\ tile[x].m_swapBarrierLock = NoOne
    /\ write => /\ written + Cardinality({u \in Threads : at[u].write /\ at[u].pc # "wrote"}) < MaxWrites
                /\ OneWriter => writers(x) = {}
    /\ tile' = [tile EXCEPT
            ![x].m_lockCounter = @ + 1,
            ![x].m_swapBarrierLock = IF first /\ ~loaded(data) THEN t ELSE @]
    /\ IF first
       THEN blockSwapping(t, data, there)
       ELSE at' = [at EXCEPT ![t] = there] /\ UNCHANGED td
    /\ UNCHANGED <<items, listLock, cycleLock, pass, preclone, swapVars, history>>

lockForRead(t) == \E x \in Tiles : lockTile(t, x, FALSE)
lockForWrite(t) == \E x \in Tiles : lockTile(t, x, TRUE)

\* The writer fetches the pointer to the pixels when it needs no copy.
startWriting(t, x) ==
    at' = [at EXCEPT ![t] = [@ EXCEPT !.pc = "writing", !.td = tile[x].m_tileData]]

checkLazyCopying(t) ==
    LET x == at[t].tile IN
    /\ at[t].pc = "checkCOW"
    /\ IF lazyCopying(x) THEN goto(t, "lockCOW") ELSE startWriting(t, x)
    /\ UNCHANGED <<td, tile, items, listLock, cycleLock, pass, preclone, swapVars, history>>

\* Everything could have happened before the mutex was taken: check again.
lockCOW(t) ==
    LET x == at[t].tile IN
    /\ at[t].pc = "lockCOW"
    /\ tile[x].m_COWMutex = NoOne
    /\ IF lazyCopying(x)
       THEN goto(t, "clone") /\ tile' = [tile EXCEPT ![x].m_COWMutex = t]
       ELSE startWriting(t, x) /\ UNCHANGED tile
    /\ UNCHANGED <<td, items, listLock, cycleLock, pass, preclone, swapVars, history>>

\* duplicateTileData(): a pre-clone if there is one, ...
popClone(t) ==
    LET x == tile[at[t].tile].m_tileData
        clones == td[x].m_clonesStack
    IN
    /\ at[t].pc = "clone"
    /\ clones # <<>>
    /\ \E y \in TileData :
        /\ isFresh(y)
        /\ td' = [td EXCEPT ![x].m_clonesStack = Front(clones), ![y] = NewTileData(Last(clones))]
        /\ at' = [at EXCEPT ![t].pc = "register", ![t].td = y]
    /\ UNCHANGED <<tile, items, listLock, cycleLock, pass, preclone, swapVars, history>>

\* ... otherwise the data, which is blocked already, is blocked once more, the
\* memory is checked, and the data is copied.
missClone(t) ==
    LET x == tile[at[t].tile].m_tileData IN
    /\ at[t].pc = "clone"
    /\ td[x].m_clonesStack = <<>>
    /\ td' = [td EXCEPT ![x].readers = @ + 1]
    /\ at' = [at EXCEPT ![t] = checkFreeMemory([@ EXCEPT !.td = x], "copy")]
    /\ UNCHANGED <<tile, items, listLock, cycleLock, pass, preclone, swapVars, history>>

copyTileData(t) ==
    LET x == at[t].td IN
    /\ at[t].pc = "copy"
    /\ \E y \in TileData :
        /\ isFresh(y)
        /\ td' = unblocked([td EXCEPT ![y] = NewTileData(td[x].m_data)], x)
        /\ at' = [at EXCEPT ![t].pc = "register", ![t].td = y]
    /\ UNCHANGED <<tile, items, listLock, cycleLock, pass, preclone, swapVars, history>>

registerTileData(t) ==
    LET x == at[t].td IN
    /\ at[t].pc = "register"
    /\ listLock = NoOne
    /\ td' = acquired([td EXCEPT ![x].listed = TRUE], x)
    /\ goto(t, "blockNew")
    /\ UNCHANGED <<tile, items, listLock, cycleLock, pass, preclone, swapVars, history>>

\* Mutant: the copy is used without being blocked.
MutantBlockNewTileData(t) ==
    /\ at[t].pc = "blockNew"
    /\ goto(t, "install")
    /\ UNCHANGED <<td, tile, items, listLock, cycleLock, pass, preclone, swapVars, history>>

\* The copy is in the list before it is blocked: the swapper may have been faster.
blockNewTileData(t) ==
    /\ at[t].pc = "blockNew"
    /\ blockSwapping(t, at[t].td, [at[t] EXCEPT !.pc = "install"])
    /\ UNCHANGED <<tile, items, listLock, cycleLock, pass, preclone, swapVars, history>>

\* The old data stays blocked until the last user has left the tile
\* (safeReleaseOldTileData), and the memento manager hears of the change.
installTileData(t) ==
    LET x == at[t].tile
        old == tile[x].m_tileData
        index == tile[x].indexed
        derefed == IF index = NoTileData THEN td ELSE [td EXCEPT ![index].m_refCount = @ - 1]
    IN
    /\ at[t].pc = "install"
    /\ tile[x].m_swapBarrierLock = NoOne
    /\ tile' = [tile EXCEPT
            ![x].m_tileData = at[t].td,
            ![x].m_oldTileData = Append(@, old),
            ![x].indexed = IF x \in Copies THEN NoTileData ELSE at[t].td,
            ![x].m_COWMutex = NoOne]
    /\ td' = IF x \in Copies THEN td ELSE [derefed EXCEPT ![at[t].td].m_refCount = @ + 1]
    /\ goto(t, "writing")
    /\ UNCHANGED <<items, listLock, cycleLock, pass, preclone, swapVars, history>>

writePixel(t) ==
    /\ at[t].pc = "writing"
    /\ written' = written + 1
    /\ td' = [td EXCEPT ![at[t].td].m_data = @ \cup {written'}]
    /\ tile' = [tile EXCEPT ![at[t].tile].expected = @ \cup {written'}]
    /\ goto(t, "wrote")
    /\ UNCHANGED <<items, listLock, cycleLock, pass, preclone, swapVars, raced>>

unlockTile(t) ==
    LET x == at[t].tile
        last == tile[x].m_lockCounter = 1
        old == last /\ tile[x].m_oldTileData # <<>>
    IN
    /\ at[t].pc \in {"reading", "wrote"}
    /\ tile[x].m_swapBarrierLock = NoOne
    /\ tile' = [tile EXCEPT ![x].m_lockCounter = @ - 1,
                            ![x].m_swapBarrierLock = IF old THEN t ELSE @]
    /\ td' = IF last THEN unblocked(td, tile[x].m_tileData) ELSE td
    /\ at' = [at EXCEPT ![t] = IF old THEN [Idle EXCEPT !.pc = "releaseOld", !.tile = x] ELSE Idle]
    /\ UNCHANGED <<items, listLock, cycleLock, pass, preclone, swapVars, history>>

releaseOldTileData(t) ==
    LET x == at[t].tile
        old == tile[x].m_oldTileData
    IN
    /\ at[t].pc = "releaseOld"
    /\ IF old = <<>>
       THEN /\ tile' = [tile EXCEPT ![x].m_swapBarrierLock = NoOne]
            /\ at' = [at EXCEPT ![t] = Idle]
            /\ UNCHANGED td
       ELSE /\ tile' = [tile EXCEPT ![x].m_oldTileData = Tail(@)]
            /\ td' = released(unblocked(td, Head(old)), Head(old))
            /\ at' = [at EXCEPT ![t] = [afterRelease(Head(old), "releaseOld") EXCEPT !.tile = x]]
    /\ UNCHANGED <<items, listLock, cycleLock, pass, preclone, swapVars, history>>

(***************************************************************************)
(* What paint devices and the memento manager do with tiles.  Their        *)
(* callers do not copy, commit or roll back a tile that is written to.     *)
(***************************************************************************)
isQuiet(x) == tile[x].m_tileData # NoTileData /\ writers(x) = {}

\* bitBlt() copies a tile that it has locked for reading.
copyTile(t, y) ==
    LET x == at[t].tile IN
    /\ at[t].pc = "reading"
    /\ isQuiet(x)
    /\ tile[y].m_tileData = NoTileData
    /\ td' = acquired(td, tile[x].m_tileData)
    /\ tile' = [tile EXCEPT ![y] = NewTile(tile[x].m_tileData, tile[x].expected)]
    /\ UNCHANGED <<items, at, listLock, cycleLock, pass, preclone, swapVars, history>>

dropTile(t, y) ==
    LET x == tile[y].m_tileData IN
    /\ at[t].pc = "idle"
    /\ x # NoTileData
    /\ {u \in Threads : at[u].tile = y} = {}
    /\ tile' = [tile EXCEPT ![y] = NewTile(NoTileData, {})]
    /\ td' = released(td, x)
    /\ at' = [at EXCEPT ![t] = afterRelease(x, "idle")]
    /\ UNCHANGED <<items, listLock, cycleLock, pass, preclone, swapVars, history>>

\* KisMementoItem::commit(): from now on the item takes part in copy-on-write.
commit(t, x) ==
    LET data == tile[x].indexed
        taken == acquired(td, data)
    IN
    /\ at[t].pc = "idle"
    /\ isQuiet(x)
    /\ data # NoTileData
    /\ Len(items) < MaxItems
    /\ td' = [taken EXCEPT ![data].m_refCount = @ - 1, ![data].m_mementoFlag = @ + 1]
    /\ items' = Append(items, [td |-> data, expected |-> tile[x].expected])
    /\ tile' = [tile EXCEPT ![x].indexed = NoTileData]
    /\ UNCHANGED <<at, listLock, cycleLock, pass, preclone, swapVars, history>>

\* The item dies with the history that holds it.
purge(t) ==
    LET x == Head(items).td IN
    /\ at[t].pc = "idle"
    /\ items # <<>>
    /\ items' = Tail(items)
    /\ td' = released([td EXCEPT ![x].m_mementoFlag = @ - 1], x)
    /\ at' = [at EXCEPT ![t] = afterRelease(x, "idle")]
    /\ UNCHANGED <<tile, listLock, cycleLock, pass, preclone, swapVars, history>>

(***************************************************************************)
(* KisTileDataSwapper: doJob() by its own thread, or by any thread in      *)
(* checkFreeMemory().  The order of a pass, by age and by the position of  *)
(* the clock, is any order.                                                *)
(***************************************************************************)
return(a) == at' = [at EXCEPT ![a].pc = at[a].resume, ![a].resume = "idle"]

\* The amount to free is counted down from what was in memory at the start.
beginCycle(a) ==
    /\ at[a].pc \in (IF a = Swapper THEN {"idle"} ELSE {"cycle"})
    /\ cycleLock = NoOne
    /\ IF memoryMetric > SoftLimit
       THEN /\ goto(a, "soft")
            /\ cycleLock' = a
            /\ pass' = [pass EXCEPT !.memoryMetric = memoryMetric]
       ELSE return(a) /\ UNCHANGED <<cycleLock, pass>>
    /\ UNCHANGED <<td, tile, items, listLock, preclone, swapVars, history>>

beginPass(a) ==
    /\ at[a].pc \in {"soft", "hard"}
    /\ listLock = NoOne
    /\ listLock' = a
    /\ pass' = [pass EXCEPT !.candidates = {x \in TileData : td[x].listed}]
    /\ goto(a, IF at[a].pc = "soft" THEN "softPass" ELSE "hardPass")
    /\ UNCHANGED <<td, tile, items, cycleLock, preclone, swapVars, history>>

limitOf == [softPass |-> SoftLimit, hardPass |-> HardLimit]
isOver(a) == pass.memoryMetric <= limitOf[at[a].pc]

isInteresting(a, x) ==
    at[a].pc = "softPass" => td[x].m_mementoFlag # 0 /\ td[x].m_usersCount <= 1

\* trySwapTileData(): tile data that is blocked or of no interest is skipped.
trySwapOut(a, x) ==
    /\ at[a].pc \in {"softPass", "hardPass"}
    /\ ~isOver(a)
    /\ x \in pass.candidates
    /\ IF isInteresting(a, x) /\ td[x].readers = 0
       THEN /\ swapOutTileData(x)
            /\ pass' = [memoryMetric |-> pass.memoryMetric - 1, candidates |-> pass.candidates \ {x}]
       ELSE /\ pass' = [pass EXCEPT !.candidates = @ \ {x}]
            /\ UNCHANGED <<td, swapVars>>
    /\ UNCHANGED <<tile, items, at, listLock, cycleLock, preclone, history>>

endPass(a) ==
    /\ at[a].pc \in {"softPass", "hardPass"}
    /\ isOver(a) \/ pass.candidates = {}
    /\ listLock' = NoOne
    /\ IF at[a].pc = "softPass" /\ pass.memoryMetric > HardLimit
       THEN /\ goto(a, "hard")
            /\ pass' = [pass EXCEPT !.candidates = {}]
            /\ UNCHANGED cycleLock
       ELSE /\ return(a)
            /\ pass' = NoPass
            /\ cycleLock' = NoOne
    /\ UNCHANGED <<td, tile, items, preclone, swapVars, history>>

(***************************************************************************)
(* KisTileDataPooler.  It visits the list under the list lock: clones       *)
(* beyond the need are freed, old data gives its clones away when memory   *)
(* is short, and data with several users gets the clones it misses.  A     *)
(* cycle over several tile data is modelled as several cycles over one.    *)
(***************************************************************************)
smaller(m, n) == IF m < n THEN m ELSE n
totalClones(x) == smaller(td[x].m_usersCount - 1, MaxClones)
numClonesNeeded(x) == totalClones(x) - Len(td[x].m_clonesStack)

pools(x) == at[Pooler].pc = "idle" /\ listLock = NoOne /\ td[x].listed

freeClones(x) ==
    /\ pools(x)
    /\ td[x].m_clonesStack # <<>>
    /\ \E left \in {0} \cup {totalClones(x)} :
        /\ left \in 0..(Len(td[x].m_clonesStack) - 1)
        /\ td' = [td EXCEPT ![x].m_clonesStack = SubSeq(@, 1, left)]
    /\ UNCHANGED <<tile, items, at, listLock, cycleLock, pass, preclone, swapVars, history>>

beginCloning(x) ==
    /\ pools(x)
    /\ numClonesNeeded(x) > 0
    /\ listLock' = Pooler
    /\ td' = [td EXCEPT ![x].readers = @ + 1]
    /\ preclone' = [data |-> NoData, left |-> numClonesNeeded(x)]
    /\ at' = [at EXCEPT ![Pooler].pc = "cloning", ![Pooler].td = x]
    /\ UNCHANGED <<tile, items, cycleLock, pass, swapVars, history>>

copyClone ==
    /\ at[Pooler].pc = "cloning"
    /\ preclone' = [preclone EXCEPT !.data = td[at[Pooler].td].m_data]
    /\ goto(Pooler, "pushing")
    /\ UNCHANGED <<td, tile, items, listLock, cycleLock, pass, swapVars, history>>

pushClone ==
    LET x == at[Pooler].td
        pushed == [td EXCEPT ![x].m_clonesStack = Append(@, preclone.data)]
    IN
    /\ at[Pooler].pc = "pushing"
    /\ raced' = (raced \/ preclone.data # td[x].m_data)
    /\ IF preclone.left > 1
       THEN /\ td' = pushed
            /\ preclone' = [data |-> NoData, left |-> preclone.left - 1]
            /\ goto(Pooler, "cloning")
            /\ UNCHANGED listLock
       ELSE /\ td' = unblocked(pushed, x)
            /\ preclone' = NoPreclone
            /\ at' = [at EXCEPT ![Pooler] = Idle]
            /\ listLock' = NoOne
    /\ UNCHANGED <<tile, items, cycleLock, pass, swapVars, written>>

(***************************************************************************)
(* The specification.  In the beginning every tile that is not a copy has  *)
(* been written to once, so that it has data and an index item of its own. *)
(***************************************************************************)
Init ==
    \E firstData \in [Tiles \ Copies -> TileData] :
        /\ \A x, y \in Tiles \ Copies : firstData[x] = firstData[y] => x = y
        /\ \A x \in Tiles \ Copies : firstData[x] <= Cardinality(Tiles \ Copies)
        /\ td = [x \in TileData |->
                IF \E y \in Tiles \ Copies : firstData[y] = x
                THEN [NewTileData({}) EXCEPT !.listed = TRUE, !.m_usersCount = 1, !.m_refCount = 2]
                ELSE Deleted]
        /\ tile = [x \in Tiles |->
                IF x \in Copies THEN NewTile(NoTileData, {})
                ELSE [NewTile(firstData[x], {}) EXCEPT !.indexed = firstData[x]]]
        /\ items = <<>>
        /\ at = [a \in Agents |-> Idle]
        /\ listLock = NoOne /\ cycleLock = NoOne
        /\ pass = NoPass
        /\ preclone = NoPreclone
        /\ swapFile = [cell \in 0..(MaxStoreSize - 1) |-> NoData]
        /\ AllocatorInit
        /\ written = 0 /\ raced = FALSE

Loading(a) ==
    \/ lockLoaded(a)
    \/ findSwappedOut(a)
    \/ lockList(a)
    \/ swapInTileData(a)

Swapping(a) ==
    \/ beginCycle(a)
    \/ beginPass(a)
    \/ \E x \in TileData : trySwapOut(a, x)
    \/ endPass(a)

CopyingOnWrite(t) ==
    \/ checkLazyCopying(t)
    \/ lockCOW(t)
    \/ popClone(t)
    \/ missClone(t)
    \/ copyTileData(t)
    \/ registerTileData(t)
    \/ blockNewTileData(t)
    \/ installTileData(t)

UsingTiles(t) ==
    \/ lockForRead(t)
    \/ lockForWrite(t)
    \/ writePixel(t)
    \/ unlockTile(t)
    \/ releaseOldTileData(t)
    \/ \E y \in Copies : copyTile(t, y)
    \/ \E y \in Copies : dropTile(t, y)
    \/ \E x \in Tiles : commit(t, x)
    \/ purge(t)

Pooling ==
    \/ \E x \in TileData : freeClones(x)
    \/ \E x \in TileData : beginCloning(x)
    \/ copyClone
    \/ pushClone

Next ==
    \/ \E t \in Threads : UsingTiles(t) \/ CopyingOnWrite(t) \/ Loading(t) \/ freeTileData(t) \/ Swapping(t)
    \/ Swapping(Swapper)
    \/ Pooling

Spec == Init /\ [][Next]_vars

-------------------------------------------------------------------------------
\* Every variable keeps its type.
TypeOK ==
    /\ td \in [TileData -> KisTileData]
    /\ tile \in [Tiles -> KisTile]
    /\ listLock \in Agents \cup {NoOne}
    /\ cycleLock \in Agents \cup {NoOne}
    /\ swapFile \in [0..(MaxStoreSize - 1) -> (SUBSET (1..MaxWrites)) \cup {NoData}]

\* The pixels of tile data, wherever they are.
contents(x) == IF loaded(x) THEN td[x].m_data ELSE stored(x)

\* What a tile shows is what was written to it, whatever has been shared,
\* copied, swapped out and loaded since; unless the pooler has pushed an
\* outdated copy.
TilesKeepTheirPixels ==
    \A x \in Tiles : tile[x].m_tileData # NoTileData /\ ~raced =>
        contents(tile[x].m_tileData) = tile[x].expected

\* The data of a committed memento item "won't be ever changed since then"
\* (kis_memento_manager.h): it is the image of the moment of the commit.
HistoryKeepsItsPixels ==
    \A i \in DOMAIN items : ~raced => contents(items[i].td) = items[i].expected

\* Data that somebody has blocked is in memory: a reader or a writer of a tile
\* never meets a null pointer (the assertion in KisTile::blockSwapping), and
\* the swapper never takes data from under a copy in progress.
BlockedDataIsLoaded ==
    /\ \A x \in TileData : td[x].readers > 0 => td[x].exists /\ loaded(x)
    /\ \A t \in Threads : at[t].pc \in {"checkCOW", "lockCOW", "clone", "install", "writing", "wrote", "reading"} =>
        td[tile[at[t].tile].m_tileData].readers > 0
    /\ \A t \in Threads : at[t].pc \in {"writing", "wrote"} => loaded(at[t].td)

\* The users and the references of tile data are the tiles, the old data of
\* locked tiles, the memento items and the copies in the making: data is freed
\* when the last of them is gone, not before and not never.
count(S) == Cardinality(S)
oldUses(y, x) == {y} \X {k \in DOMAIN tile[y].m_oldTileData : tile[y].m_oldTileData[k] = x}
ownsCopy(t) == at[t].pc = "blockNew" \/ "install" \in {at[t].pc, at[t].next}

tileUsers(x) ==
    count({y \in Tiles : tile[y].m_tileData = x})
      + count(UNION {oldUses(y, x) : y \in Tiles})
      + count({i \in DOMAIN items : items[i].td = x})
      + count({t \in Threads : at[t].td = x /\ ownsCopy(t)})
indexUsers(x) == count({y \in Tiles : tile[y].indexed = x})
beingFreed(x) == \E t \in Threads : at[t].pc = "free" /\ at[t].td = x
beingMade(x) == \E t \in Threads : at[t].pc = "register" /\ at[t].td = x

FreedWithTheLastUser ==
    \A x \in TileData :
        /\ td[x].m_usersCount = tileUsers(x)
        /\ td[x].m_refCount = tileUsers(x) + indexUsers(x)
        /\ td[x].exists <=> td[x].m_refCount > 0 \/ beingFreed(x) \/ beingMade(x)

\* Tile data is in the list of the store while it is in memory and has a chunk
\* while it is not.
ListedOrSwappedOut ==
    \A x \in TileData : td[x].exists /\ ~beingMade(x) =>
        /\ td[x].listed <=> loaded(x)
        /\ td[x].m_swapChunk # NoChunk <=> ~loaded(x)

\* A thread that holds the list lock never waits for a swap lock that somebody
\* holds (the comment in ensureTileDataLoaded): its owner may need the list
\* lock to register a copy.
ListLockNeverWaits ==
    \A t \in Threads :
        /\ at[t].pc = "loadWrite" => td[at[t].loading].readers = 0
        /\ at[t].pc = "free" /\ listLock = NoOne => td[at[t].td].readers = 0

\* The clones of data that is shared are copies of it ("We need to ensure the
\* clones in the stack are consistent with the data", KisTileData::acquire).
ClonesAreFresh ==
    \A x \in TileData : td[x].m_usersCount > 1 /\ loaded(x) =>
        \A i \in DOMAIN td[x].m_clonesStack : td[x].m_clonesStack[i] = td[x].m_data

\* The chunks in use do not overlap and lie inside the file (sanityCheck() of
\* the allocator), and every one of them belongs to exactly one tile data that
\* is swapped out: no chunk leaks when data is loaded or freed.
swappedOut == {x \in TileData : td[x].exists /\ ~loaded(x)}

ChunksAreSane ==
    /\ SanityCheck
    /\ {chunk.begin : chunk \in ToSet(m_list)} = {td[x].m_swapChunk : x \in swappedOut}
    /\ Len(m_list) = Cardinality(swappedOut)
=============================================================================
