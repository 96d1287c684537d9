-------------------------- MODULE KisTileLocksProofs --------------------------
(***************************************************************************)
(* Who holds which lock of the tile store, for any number of threads,      *)
(* tiles and tile data. Control says what a label means: the locks a       *)
(* thread holds, the tile it uses, the data it copies, loads or frees.     *)
(* From it follow the owners of the locks of the store and, for each tile, *)
(* the owners of m_swapBarrierLock and m_COWMutex, the value of            *)
(* m_lockCounter and what a user of the tile finds in it. Their            *)
(* conjunction, Ordered, is inductive, and the first layer of what         *)
(* KisTileDataStoreProofs proves.                                          *)
(***************************************************************************)
EXTENDS KisTileDataStore, FiniteSetTheorems, TLAPS

-------------------------------------------------------------------------------
(***************************************************************************)
(* What an agent is to a tile and to tile data, wherever swapping or       *)
(* loading may have taken it in between.                                   *)
(***************************************************************************)
SwapLabels == {"cycle", "soft", "hard", "softPass", "hardPass"}
LoadLabels == {"load", "loadList", "loadWrite"}
CopyLabels == {"clone", "copy", "register", "blockNew", "install"}

\* The label of a record, and the one it comes back to when it is inside the swapper.
where(r) == IF r.pc \in SwapLabels THEN r.resume ELSE r.pc

loads(r) == where(r) \in LoadLabels
locks(r) == loads(r) /\ r.next # "install"          \* the first user of a tile
owns(r) == where(r) \in {"blockNew", "install"} \/ (loads(r) /\ r.next = "install")
copies(r) == where(r) \in CopyLabels \/ owns(r)     \* the owner of m_COWMutex
releases(r) == where(r) = "releaseOld" \/ (where(r) = "free" /\ r.next = "releaseOld")
frees(r) == where(r) = "free"
makes(r) == where(r) = "register"
blocks(r) == where(r) \in {"copy", "install"}       \* has a read lock of its own
points(r) == where(r) \in {"writing", "wrote"}
uses(r) == r.tile # NoTile /\ ~releases(r)
writes(r) == r.write /\ r.pc # "wrote"

\* What an agent's record may be, and how its fields hang together with its label.
ThreadLabels ==
    SwapLabels \cup LoadLabels \cup CopyLabels
      \cup {"idle", "checkCOW", "lockCOW", "reading", "writing", "wrote", "releaseOld", "free"}

AgentRecord ==
    [pc : ThreadLabels \cup {"cloning", "pushing"}, tile : Tiles \cup {NoTile}, write : BOOLEAN,
     td : TileData \cup {NoTileData}, loading : TileData \cup {NoTileData},
     next : {"idle", "checkCOW", "reading", "install", "releaseOld"},
     resume : {"idle", "load", "copy"}]

ThreadShape(r) ==
    /\ r.pc \in ThreadLabels
    /\ r.pc \in SwapLabels <=> r.resume # "idle"
    /\ loads(r) <=> r.loading # NoTileData
    /\ loads(r) => r.next \in {"checkCOW", "reading", "install"}
    /\ frees(r) => r.next \in {"idle", "releaseOld"}
    /\ ~loads(r) /\ ~frees(r) => r.next = "idle"
    /\ r.tile = NoTile <=> where(r) = "idle" \/ (frees(r) /\ r.next = "idle")
    /\ r.td = NoTileData <=> ~((copies(r) /\ where(r) # "clone") \/ points(r) \/ frees(r))
    /\ owns(r) /\ loads(r) => r.loading = r.td
    /\ r.write <=> \/ copies(r) \/ points(r) \/ where(r) \in {"checkCOW", "lockCOW"}
                   \/ loads(r) /\ r.next = "checkCOW"

\* The swapper and the pooler have nothing to do with a tile.
Aloof(r) ==
    /\ r.tile = NoTile /\ r.write = FALSE /\ r.loading = NoTileData
    /\ r.next = "idle" /\ r.resume = "idle"

SwapperShape(r) ==
    /\ Aloof(r) /\ r.td = NoTileData
    /\ r.pc \in {"idle", "soft", "hard", "softPass", "hardPass"}

PoolerShape(r) ==
    /\ Aloof(r)
    /\ \/ r.pc = "idle" /\ r.td = NoTileData
       \/ r.pc \in {"cloning", "pushing"} /\ r.td \in TileData

Control ==
    /\ at \in [Agents -> AgentRecord]
    /\ \A t \in Threads : ThreadShape(at[t])
    /\ SwapperShape(at[Swapper])
    /\ PoolerShape(at[Pooler])

\* m_listLock and cycleLock of the store are held at these labels, and at no other.
ListLabels == {"loadWrite", "softPass", "hardPass", "cloning", "pushing"}
CycleLabels == {"soft", "hard", "softPass", "hardPass"}

StoreLocks ==
    /\ listLock \in Agents \cup {NoOne}
    /\ cycleLock \in Agents \cup {NoOne}
    /\ \A a \in Agents : listLock = a <=> at[a].pc \in ListLabels
    /\ \A a \in Agents : cycleLock = a <=> at[a].pc \in CycleLabels

\* The bound on the writes is checked before a thread starts one.
WritesBounded ==
    /\ written \in Nat
    /\ written + Cardinality({t \in Threads : writes(at[t])}) <= MaxWrites

\* Who is between lockForRead() or lockForWrite() of tile y and its unlock().
users(y) == {t \in Threads : at[t].tile = y /\ uses(at[t])}

\* The two locks of a tile and the counter of its users.
TileLocked(y) ==
    /\ tile[y].m_lockCounter = Cardinality(users(y))
    /\ \A t \in Threads :
        /\ tile[y].m_swapBarrierLock = t <=> at[t].tile = y /\ (locks(at[t]) \/ releases(at[t]))
        /\ tile[y].m_COWMutex = t <=> at[t].tile = y /\ copies(at[t])
        /\ at[t].tile = y /\ locks(at[t]) => users(y) = {t}
        /\ at[t].tile = y /\ releases(at[t]) => users(y) = {}

\* What the users of a tile hold of its data.
TileShared(y) ==
    /\ tile[y].m_tileData = NoTileData =>
        /\ \A t \in Threads : at[t].tile # y
        /\ tile[y] = NewTile(NoTileData, {})
    /\ tile[y].m_oldTileData # <<>> => users(y) # {} \/ tile[y].m_swapBarrierLock # NoOne
    /\ tile[y].indexed \in {NoTileData, tile[y].m_tileData}
    /\ y \in Copies => tile[y].indexed = NoTileData
    /\ \A t \in Threads : at[t].tile = y =>
        /\ locks(at[t]) => at[t].loading = tile[y].m_tileData
        /\ where(at[t]) = "copy" => at[t].td = tile[y].m_tileData
        /\ points(at[t]) => \/ at[t].td = tile[y].m_tileData
                            \/ \E k \in DOMAIN tile[y].m_oldTileData : tile[y].m_oldTileData[k] = at[t].td

TilesLocked ==
    /\ tile \in [Tiles -> KisTile]
    /\ \A y \in Tiles : TileLocked(y) /\ TileShared(y)

ItemsTyped == items \in Seq([td : TileData, expected : SUBSET (1..MaxWrites)])

Ordered == Control /\ StoreLocks /\ WritesBounded /\ TilesLocked /\ ItemsTyped

-------------------------------------------------------------------------------
(***************************************************************************)
(* Where the agents are.                                                   *)
(***************************************************************************)
Detour(s, there, after) ==
    \/ s = [there EXCEPT !.pc = "cycle", !.resume = after]
    \/ s = [there EXCEPT !.pc = after]

\* With the memory full or not, the agent gets to the same place in the end.
LEMMA MemoryDetour ==
    ASSUME NEW there \in AgentRecord, there.resume = "idle", NEW after \in {"load", "copy"}
    PROVE  /\ checkFreeMemory(there, after) \in AgentRecord
           /\ Detour(checkFreeMemory(there, after), there, after)
BY DEF checkFreeMemory, Detour, AgentRecord, ThreadLabels, SwapLabels, LoadLabels, CopyLabels

\* What a thread is to the tiles.
SameRole(r, s) ==
    /\ s.tile = r.tile
    /\ locks(s) <=> locks(r)
    /\ releases(s) <=> releases(r)
    /\ copies(s) <=> copies(r)

\* One agent moves.
Moves(a, s) ==
    /\ at'[a] = s
    /\ \A b \in Agents : b # a => at'[b] = at[b]

\* A thread that keeps its shape moves alone.
LEMMA ThreadMoves ==
    ASSUME Control, NEW t \in Threads, NEW s \in AgentRecord, ThreadShape(s),
           at' = [at EXCEPT ![t] = s]
    PROVE  Control' /\ Moves(t, s)
BY StoreAssumption DEF Control, Moves, Agents

\* A step inside the swapper or inside ensureTileDataLoaded() changes no role.
LEMMA SwapStep ==
    ASSUME NEW r \in AgentRecord, ThreadShape(r), r.pc \in SwapLabels,
           NEW s, \/ \E pc \in SwapLabels : s = [r EXCEPT !.pc = pc]
                  \/ s = [r EXCEPT !.pc = r.resume, !.resume = "idle"]
    PROVE  /\ s \in AgentRecord /\ ThreadShape(s) /\ SameRole(r, s)
           /\ where(s) = where(r) /\ s.td = r.td /\ s.loading = r.loading /\ s.next = r.next
           /\ s.write = r.write
BY DEF AgentRecord, ThreadShape, SameRole, where, loads, locks, owns, copies, releases, frees,
       points, ThreadLabels, SwapLabels, LoadLabels, CopyLabels

\* Inside ensureTileDataLoaded() a thread stays what it is to the tiles.
LEMMA LoadStep ==
    ASSUME NEW r \in AgentRecord, ThreadShape(r), r.pc \in LoadLabels,
           NEW s, NEW pc \in LoadLabels, s = [r EXCEPT !.pc = pc]
    PROVE  /\ s \in AgentRecord /\ ThreadShape(s) /\ SameRole(r, s)
           /\ where(s) = pc /\ s.td = r.td /\ s.loading = r.loading /\ s.next = r.next
           /\ s.write = r.write
BY DEF AgentRecord, ThreadShape, SameRole, where, loads, locks, owns, copies, releases, frees,
       points, ThreadLabels, SwapLabels, LoadLabels, CopyLabels

\* The end of ensureTileDataLoaded() and of freeTileData().
LEMMA LoadedStep ==
    ASSUME NEW r \in AgentRecord, ThreadShape(r), r.pc = "load",
           NEW s, s = [r EXCEPT !.pc = r.next, !.loading = NoTileData, !.next = "idle"]
    PROVE  /\ s \in AgentRecord /\ ThreadShape(s)
           /\ where(s) = r.next /\ where(s) \in {"checkCOW", "reading", "install"}
           /\ s.tile = r.tile /\ s.td = r.td /\ s.write = r.write
           /\ ~locks(s) /\ ~releases(s) /\ ~releases(r) /\ (copies(s) <=> copies(r))
           /\ locks(r) <=> where(s) # "install"
BY DEF AgentRecord, ThreadShape, SameRole, where, loads, locks, owns, copies, releases, frees,
       points, ThreadLabels, SwapLabels, LoadLabels, CopyLabels

\* The end of freeTileData().
LEMMA FreedStep ==
    ASSUME NEW r \in AgentRecord, ThreadShape(r), r.pc = "free",
           NEW s, s = [r EXCEPT !.pc = r.next, !.td = NoTileData, !.next = "idle"]
    PROVE  /\ s \in AgentRecord /\ ThreadShape(s) /\ SameRole(r, s)
           /\ where(s) = r.next /\ where(s) \in {"idle", "releaseOld"}
           /\ s.td = NoTileData /\ s.write = r.write
BY DEF AgentRecord, ThreadShape, SameRole, where, loads, locks, owns, copies, releases, frees,
       points, ThreadLabels, SwapLabels, LoadLabels, CopyLabels

\* lockForRead() and lockForWrite(): the thread has the tile, or waits for its data.
entering(y, write) ==
    [Idle EXCEPT !.pc = IF write THEN "checkCOW" ELSE "reading", !.tile = y, !.write = write]

waitingFor(y, write, data) ==
    checkFreeMemory([entering(y, write) EXCEPT !.loading = data, !.next = entering(y, write).pc], "load")

\* A user of tile y without the mutex for copying on write.
Entered(r, y, write) ==
    /\ r \in AgentRecord /\ ThreadShape(r) /\ r.tile = y /\ r.write = write
    /\ ~releases(r) /\ ~copies(r) /\ ~points(r) /\ where(r) # "copy"
    /\ r.pc \in {"checkCOW", "reading", "cycle", "load"} /\ r.td = NoTileData

\* The first user of a tile is in it at once, or waits in ensureTileDataLoaded().
LEMMA EnteredStep ==
    ASSUME NEW y \in Tiles, NEW write \in BOOLEAN, NEW data \in TileData
    PROVE  /\ Entered(entering(y, write), y, write) /\ ~locks(entering(y, write))
           /\ Entered(waitingFor(y, write, data), y, write) /\ locks(waitingFor(y, write, data))
           /\ waitingFor(y, write, data).loading = data
<1> DEFINE there == entering(y, write)
<1>1. NoTile \notin Tiles /\ NoTileData \notin TileData
  BY StoreAssumption
<1>2. /\ there \in AgentRecord
      /\ there.pc = IF write THEN "checkCOW" ELSE "reading"
      /\ there.tile = y /\ there.write = write /\ there.td = NoTileData
      /\ there.loading = NoTileData /\ there.next = "idle" /\ there.resume = "idle"
  BY DEF Idle, AgentRecord, ThreadLabels, SwapLabels, LoadLabels, CopyLabels, entering
<1> HIDE DEF there
<1> DEFINE waiting == [there EXCEPT !.loading = data, !.next = there.pc]
           s == waitingFor(y, write, data)
<1>3. /\ waiting \in AgentRecord
      /\ waiting.next = there.pc /\ waiting.loading = data
      /\ waiting.tile = y /\ waiting.write = write /\ waiting.td = NoTileData
      /\ waiting.resume = "idle"
  BY <1>2 DEF AgentRecord
<1>4. s = checkFreeMemory(waiting, "load")
  BY DEF waitingFor, there
<1> HIDE DEF waiting, s
<1>5. /\ s \in AgentRecord /\ where(s) = "load" /\ s.pc \in {"cycle", "load"}
      /\ s.pc = "cycle" <=> s.resume # "idle"
      /\ s.next = there.pc /\ s.loading = data
      /\ s.tile = y /\ s.write = write /\ s.td = NoTileData
  <2>1. s \in AgentRecord /\ Detour(s, waiting, "load")
    BY <1>3, <1>4, MemoryDetour
  <2>2. CASE s = [waiting EXCEPT !.pc = "cycle", !.resume = "load"]
    BY <2>1, <2>2, <1>3 DEF AgentRecord, where, SwapLabels
  <2>3. CASE s = [waiting EXCEPT !.pc = "load"]
    BY <2>1, <2>3, <1>3 DEF AgentRecord, where, SwapLabels
  <2>4. QED
    BY <2>1, <2>2, <2>3 DEF Detour
<1>6. Entered(s, y, write) /\ locks(s)
  BY <1>1, <1>2, <1>5 DEF AgentRecord, ThreadShape, SameRole, where, loads, locks, owns, copies, releases, frees,
       points, ThreadLabels, SwapLabels, LoadLabels, CopyLabels, Entered
<1>7. Entered(there, y, write) /\ ~locks(there)
  BY <1>1, <1>2 DEF AgentRecord, ThreadShape, SameRole, where, loads, locks, owns, copies, releases, frees,
       points, ThreadLabels, SwapLabels, LoadLabels, CopyLabels, Entered
<1>8. QED
  BY <1>5, <1>6, <1>7 DEF there, s

\* Copying on write, up to the copy that is blocked.
CopyMove(r, x, s) ==
    \/ r.pc = "clone" /\ s = [r EXCEPT !.pc = "register", !.td = x]
    \/ r.pc = "clone" /\ s = checkFreeMemory([r EXCEPT !.td = x], "copy")
    \/ r.pc = "copy" /\ s = [r EXCEPT !.pc = "register", !.td = x]
    \/ r.pc = "register" /\ s = [r EXCEPT !.pc = "blockNew"]
    \/ r.pc = "blockNew" /\ s = [r EXCEPT !.pc = "install"]
    \/ /\ r.pc = "blockNew" /\ x = r.td
       /\ s = checkFreeMemory([[r EXCEPT !.pc = "install"] EXCEPT !.loading = x, !.next = "install"], "load")

\* Copy-on-write from duplicateTileData() to the copy that is blocked, label by label.
LEMMA CopyStep ==
    ASSUME NEW r \in AgentRecord, ThreadShape(r), r.pc \in CopyLabels, NEW x \in TileData,
           NEW s, CopyMove(r, x, s)
    PROVE  /\ s \in AgentRecord /\ ThreadShape(s) /\ SameRole(r, s)
           /\ where(s) # r.pc /\ where(s) \in {"copy", "register", "blockNew", "install", "load"}
           /\ where(s) = "load" => r.pc = "blockNew" /\ s.next = "install" /\ s.pc # "loadWrite"
           /\ r.pc = "clone" => where(s) \in {"copy", "register"} /\ s.td = x
           /\ r.pc = "copy" => where(s) = "register" /\ s.td = x
           /\ r.pc = "register" => where(s) = "blockNew" /\ s.td = r.td
           /\ r.pc = "blockNew" => where(s) \in {"install", "load"} /\ s.td = r.td
           /\ where(s) = "copy" => r.pc = "clone"
           /\ s.write = r.write /\ ~locks(s) /\ ~points(s)
           /\ s.pc \in {"cycle", "copy", "load", "register", "blockNew", "install"}
<1>1. x # NoTileData
  BY StoreAssumption
<1>2. r.resume = "idle" /\ r.next = "idle" /\ r.loading = NoTileData /\ r.tile # NoTile /\ r.write
  BY DEF AgentRecord, ThreadShape, SameRole, where, loads, locks, owns, copies, releases, frees,
       points, ThreadLabels, SwapLabels, LoadLabels, CopyLabels
<1>3. CASE r.pc = "clone" /\ s = checkFreeMemory([r EXCEPT !.td = x], "copy")
  <2> DEFINE there == [r EXCEPT !.td = x]
  <2>1. /\ there \in AgentRecord /\ there.td = x /\ there.pc = r.pc
        /\ there.tile = r.tile /\ there.write = r.write /\ there.next = r.next
        /\ there.loading = r.loading /\ there.resume = r.resume
    BY DEF AgentRecord
  <2> HIDE DEF there
  <2>2. s \in AgentRecord /\ Detour(s, there, "copy")
    BY <1>2, <1>3, <2>1, MemoryDetour DEF there
  <2>3. /\ s.td = x /\ s.tile = r.tile /\ s.write = r.write /\ s.next = r.next
        /\ s.loading = r.loading /\ s.pc \in {"cycle", "copy"}
        /\ where(s) = "copy" /\ (s.pc = "cycle" <=> s.resume # "idle")
    BY ZenonT(60), <2>1, <2>2, <1>2 DEF Detour, AgentRecord, where, SwapLabels
  <2>4. QED
    BY <1>1, <1>2, <1>3, <2>2, <2>3 DEF AgentRecord, ThreadShape, SameRole, where, loads, locks, owns, copies, releases, frees,
       points, ThreadLabels, SwapLabels, LoadLabels, CopyLabels
<1>4. CASE /\ r.pc = "blockNew" /\ x = r.td
           /\ s = checkFreeMemory([[r EXCEPT !.pc = "install"] EXCEPT !.loading = x, !.next = "install"], "load")
  <2> DEFINE there == [[r EXCEPT !.pc = "install"] EXCEPT !.loading = x, !.next = "install"]
  <2>1. /\ there \in AgentRecord /\ there.td = x /\ there.pc = "install"
        /\ there.tile = r.tile /\ there.write = r.write /\ there.next = "install"
        /\ there.loading = x /\ there.resume = r.resume
    BY <1>4 DEF AgentRecord, ThreadLabels, CopyLabels
  <2> HIDE DEF there
  <2>2. s \in AgentRecord /\ Detour(s, there, "load")
    BY <1>2, <1>4, <2>1, MemoryDetour DEF there
  <2>3. /\ s.td = x /\ s.tile = r.tile /\ s.write = r.write /\ s.next = "install"
        /\ s.loading = x /\ s.pc \in {"cycle", "load"}
        /\ where(s) = "load" /\ (s.pc = "cycle" <=> s.resume # "idle")
    BY <2>1, <2>2, <1>2 DEF Detour, AgentRecord, where, SwapLabels
  <2>4. QED
    BY <1>1, <1>2, <1>4, <2>2, <2>3 DEF AgentRecord, ThreadShape, SameRole, where, loads, locks, owns, copies, releases, frees,
       points, ThreadLabels, SwapLabels, LoadLabels, CopyLabels
<1>5. CASE \/ r.pc = "clone" /\ s = [r EXCEPT !.pc = "register", !.td = x]
           \/ r.pc = "copy" /\ s = [r EXCEPT !.pc = "register", !.td = x]
  BY ZenonT(60), <1>1, <1>2, <1>5 DEF AgentRecord, ThreadShape, SameRole, where, loads, locks, owns, copies, releases, frees,
       points, ThreadLabels, SwapLabels, LoadLabels, CopyLabels
<1>6. CASE r.pc = "register" /\ s = [r EXCEPT !.pc = "blockNew"]
  BY <1>1, <1>2, <1>6 DEF AgentRecord, ThreadShape, SameRole, where, loads, locks, owns, copies, releases, frees,
       points, ThreadLabels, SwapLabels, LoadLabels, CopyLabels
<1>7. CASE r.pc = "blockNew" /\ s = [r EXCEPT !.pc = "install"]
  BY <1>1, <1>2, <1>7 DEF AgentRecord, ThreadShape, SameRole, where, loads, locks, owns, copies, releases, frees,
       points, ThreadLabels, SwapLabels, LoadLabels, CopyLabels
<1>8. QED
  BY <1>3, <1>4, <1>5, <1>6, <1>7 DEF CopyMove

\* From the lock of a tile to the write.
WriteMove(r, x, s) ==
    \/ r.pc = "checkCOW" /\ s = [r EXCEPT !.pc = "lockCOW"]
    \/ r.pc \in {"checkCOW", "lockCOW"} /\ s = [r EXCEPT !.pc = "writing", !.td = x]
    \/ r.pc = "lockCOW" /\ s = [r EXCEPT !.pc = "clone"]
    \/ r.pc = "install" /\ s = [r EXCEPT !.pc = "writing"]
    \/ r.pc = "writing" /\ s = [r EXCEPT !.pc = "wrote"]

\* Around the copy: the check, the mutex, the new data in place, the pixel.
LEMMA WriteStep ==
    ASSUME NEW r \in AgentRecord, ThreadShape(r), NEW x \in TileData, NEW s, WriteMove(r, x, s)
    PROVE  /\ s \in AgentRecord /\ ThreadShape(s) /\ s.tile = r.tile /\ s.write = r.write
           /\ r.pc \in {"checkCOW", "lockCOW", "install", "writing"}
           /\ ~locks(r) /\ ~locks(s) /\ ~releases(r) /\ ~releases(s)
           /\ copies(r) <=> r.pc = "install"
           /\ copies(s) <=> s.pc = "clone"
           /\ where(s) = s.pc /\ s.td = IF r.pc # "install" /\ s.pc = "writing" THEN x ELSE r.td
           /\ s.pc \in {"lockCOW", "clone", "writing", "wrote"}
<1>1. x # NoTileData
  BY StoreAssumption
<1>2. r.pc \in {"checkCOW", "lockCOW", "install", "writing"}
  BY DEF WriteMove
<1>3. r.resume = "idle" /\ r.next = "idle" /\ r.loading = NoTileData /\ r.tile # NoTile /\ r.write
  BY <1>2 DEF AgentRecord, ThreadShape, SameRole, where, loads, locks, owns, copies, releases, frees,
       points, ThreadLabels, SwapLabels, LoadLabels, CopyLabels
<1>4. CASE \/ r.pc = "checkCOW" /\ s = [r EXCEPT !.pc = "lockCOW"]
           \/ r.pc = "lockCOW" /\ s = [r EXCEPT !.pc = "clone"]
  BY ZenonT(60), <1>1, <1>3, <1>4 DEF AgentRecord, ThreadShape, SameRole, where, loads, locks, owns, copies, releases, frees,
       points, ThreadLabels, SwapLabels, LoadLabels, CopyLabels
<1>5. CASE r.pc \in {"checkCOW", "lockCOW"} /\ s = [r EXCEPT !.pc = "writing", !.td = x]
  BY <1>1, <1>3, <1>5 DEF AgentRecord, ThreadShape, SameRole, where, loads, locks, owns, copies, releases, frees,
       points, ThreadLabels, SwapLabels, LoadLabels, CopyLabels
<1>6. CASE \/ r.pc = "install" /\ s = [r EXCEPT !.pc = "writing"]
           \/ r.pc = "writing" /\ s = [r EXCEPT !.pc = "wrote"]
  BY ZenonT(60), <1>1, <1>3, <1>6 DEF AgentRecord, ThreadShape, SameRole, where, loads, locks, owns, copies, releases, frees,
       points, ThreadLabels, SwapLabels, LoadLabels, CopyLabels
<1>7. QED
  BY <1>2, <1>4, <1>5, <1>6 DEF WriteMove

\* An idle thread has nothing.
LEMMA IdleShape ==
    /\ Idle \in AgentRecord /\ ThreadShape(Idle)
    /\ ~locks(Idle) /\ ~releases(Idle) /\ ~copies(Idle) /\ ~writes(Idle)
    /\ where(Idle) = "idle" /\ Idle.tile = NoTile /\ Idle.td = NoTileData
BY DEF Idle, writes, AgentRecord, ThreadShape, SameRole, where, loads, locks, owns, copies, releases, frees,
       points, ThreadLabels, SwapLabels, LoadLabels, CopyLabels

\* A thread that is about to release the old data of tile y, or is freeing some
\* of it; and one that frees data for itself.
Releasing(y, x, s) ==
    \/ s = [Idle EXCEPT !.pc = "releaseOld", !.tile = y]
    \/ s = [afterRelease(x, "releaseOld") EXCEPT !.tile = y]

\* The last user of a tile keeps the barrier while it releases old data and frees it.
LEMMA ReleaseShape ==
    ASSUME NEW y \in Tiles, NEW x \in TileData, NEW s, Releasing(y, x, s)
    PROVE  /\ s \in AgentRecord /\ ThreadShape(s) /\ s.tile = y /\ ~s.write
           /\ ~locks(s) /\ releases(s) /\ ~copies(s)
           /\ \/ where(s) = "releaseOld" /\ s.pc = "releaseOld" /\ s.td = NoTileData
              \/ where(s) = "free" /\ s.pc = "free" /\ s.td = x
<1>1. x # NoTileData /\ y # NoTile
  BY StoreAssumption
<1>2. \/ s = [Idle EXCEPT !.pc = "releaseOld", !.tile = y]
      \/ s = [[Idle EXCEPT !.pc = "free", !.td = x, !.next = "releaseOld"] EXCEPT !.tile = y]
      \/ s = [[Idle EXCEPT !.pc = "releaseOld"] EXCEPT !.tile = y]
  BY DEF Releasing, afterRelease
<1>3. QED
  BY ZenonT(60), <1>1, <1>2 DEF Idle, AgentRecord, ThreadShape, SameRole, where, loads, locks, owns, copies, releases, frees,
       points, ThreadLabels, SwapLabels, LoadLabels, CopyLabels

\* A thread that frees what it has dropped has no tile.
LEMMA FreeShape ==
    ASSUME NEW x \in TileData, NEW s, s = [Idle EXCEPT !.pc = "free", !.td = x, !.next = "idle"]
    PROVE  /\ s \in AgentRecord /\ ThreadShape(s) /\ s.tile = NoTile /\ ~s.write
           /\ ~locks(s) /\ ~releases(s) /\ ~copies(s)
           /\ where(s) = "free" /\ s.pc = "free" /\ s.td = x
<1>1. x # NoTileData
  BY StoreAssumption
<1>2. QED
  BY <1>1 DEF Idle, AgentRecord, ThreadShape, SameRole, where, loads, locks, owns, copies, releases, frees,
       points, ThreadLabels, SwapLabels, LoadLabels, CopyLabels

-------------------------------------------------------------------------------
(***************************************************************************)
(* Counting: a set of which one element comes, goes or stays.              *)
(***************************************************************************)
bit(p) == IF p THEN 1 ELSE 0

\* Two finite sets that agree on all elements but one differ in size by that one.
LEMMA OneMoves ==
    ASSUME NEW A, NEW B, NEW e, IsFiniteSet(A), \A z : z # e => (z \in A <=> z \in B)
    PROVE  /\ IsFiniteSet(B) /\ Cardinality(A) \in Nat /\ Cardinality(B) \in Nat
           /\ Cardinality(B) = Cardinality(A) + bit(e \in B) - bit(e \in A)
<1>1. Cardinality(A) \in Nat
  BY FS_CardinalityType
<1>2. CASE e \in A <=> e \in B
  <2>1. A = B
    BY <1>2
  <2>2. bit(e \in B) = bit(e \in A) /\ bit(e \in A) \in {0, 1}
    BY <1>2 DEF bit
  <2>3. QED
    BY <1>1, <2>1, <2>2
<1>3. CASE e \in A /\ e \notin B
  <2>1. B = A \ {e}
    BY <1>3
  <2>2. IsFiniteSet(B) /\ Cardinality(B) = Cardinality(A) - 1
    BY <1>3, <2>1, FS_RemoveElement
  <2>3. Cardinality(B) \in Nat
    BY <2>2, FS_CardinalityType
  <2>4. QED
    BY <1>1, <1>3, <2>2, <2>3 DEF bit
<1>4. CASE e \notin A /\ e \in B
  <2>1. B = A \cup {e}
    BY <1>4
  <2>2. IsFiniteSet(B) /\ Cardinality(B) = Cardinality(A) + 1
    BY <1>4, <2>1, FS_AddElement
  <2>3. Cardinality(B) \in Nat
    BY <2>2, FS_CardinalityType
  <2>4. QED
    BY <1>1, <1>4, <2>2, <2>3 DEF bit
<1>5. QED
  BY <1>2, <1>3, <1>4

\* A part of a finite set is finite, and not empty when it counts more than 0.
LEMMA Counts ==
    ASSUME NEW S, IsFiniteSet(S), NEW A, A \subseteq S
    PROVE  /\ IsFiniteSet(A) /\ Cardinality(A) \in Nat
           /\ Cardinality(A) > 0 <=> A # {}
<1>1. IsFiniteSet(A)
  BY FS_Subset
<1>2. Cardinality(A) \in Nat /\ (Cardinality(A) = 0 <=> A = {})
  BY <1>1, FS_CardinalityType, FS_EmptySet
<1>3. QED
  BY <1>1, <1>2

-------------------------------------------------------------------------------
(***************************************************************************)
(* The locks of the store.                                                 *)
(***************************************************************************)

\* An agent that stays on its side of both store locks leaves them alone.
LEMMA LocksKept ==
    ASSUME Control, StoreLocks, NEW a \in Agents, NEW s, Moves(a, s),
           s.pc \in ListLabels <=> at[a].pc \in ListLabels,
           s.pc \in CycleLabels <=> at[a].pc \in CycleLabels,
           UNCHANGED <<listLock, cycleLock>>
    PROVE  StoreLocks'
BY StoreAssumption DEF StoreLocks, Moves

\* m_listLock is taken: it was free, and its owner goes where owners are.
LEMMA ListLockTaken ==
    ASSUME Control, StoreLocks, NEW a \in Agents, NEW s, Moves(a, s),
           listLock = NoOne, listLock' = a, s.pc \in ListLabels,
           s.pc \in CycleLabels <=> at[a].pc \in CycleLabels,
           UNCHANGED cycleLock
    PROVE  StoreLocks'
BY StoreAssumption DEF StoreLocks, Moves, Agents

\* m_listLock is given back, by the swapper together with cycleLock.
LEMMA ListLockReleased ==
    ASSUME Control, StoreLocks, NEW a \in Agents, NEW s, Moves(a, s),
           at[a].pc \in ListLabels, listLock' = NoOne, s.pc \notin ListLabels,
           \/ /\ s.pc \in CycleLabels <=> at[a].pc \in CycleLabels
              /\ UNCHANGED cycleLock
           \/ /\ at[a].pc \in CycleLabels /\ s.pc \notin CycleLabels
              /\ cycleLock' = NoOne
    PROVE  StoreLocks'
BY StoreAssumption DEF StoreLocks, Moves, Agents

\* cycleLock is taken by the agent that begins a cycle.
LEMMA CycleLockTaken ==
    ASSUME Control, StoreLocks, NEW a \in Agents, NEW s, Moves(a, s),
           cycleLock = NoOne, cycleLock' = a, s.pc \in CycleLabels,
           s.pc \in ListLabels <=> at[a].pc \in ListLabels,
           UNCHANGED listLock
    PROVE  StoreLocks'
BY StoreAssumption DEF StoreLocks, Moves, Agents

-------------------------------------------------------------------------------
(***************************************************************************)
(* The locks of the tiles.                                                 *)
(***************************************************************************)

\* A thread that changes no role changes neither the users of a tile nor its locks.
LEMMA LockedSame ==
    ASSUME NEW t \in Threads, NEW s, Moves(t, s), SameRole(at[t], s),
           NEW y \in Tiles, TileLocked(y),
           tile'[y].m_lockCounter = tile[y].m_lockCounter,
           tile'[y].m_swapBarrierLock = tile[y].m_swapBarrierLock,
           tile'[y].m_COWMutex = tile[y].m_COWMutex
    PROVE  TileLocked(y)' /\ users(y)' = users(y)
<1>1. \A u \in Threads : u \in Agents
  BY DEF Agents
<1>2. \A u \in Threads : SameRole(at[u], at'[u])
  BY <1>1 DEF Moves, SameRole
<1>3. \A u \in Threads : uses(at'[u]) <=> uses(at[u])
  BY <1>2 DEF SameRole, uses
<1>4. users(y)' = users(y)
  BY <1>2, <1>3 DEF users, SameRole
<1>5. QED
  BY <1>2, <1>4 DEF TileLocked, SameRole

\* ... nor what the users of a tile hold of its data.
LEMMA SharedSame ==
    ASSUME NEW t \in Threads, NEW s, Moves(t, s), SameRole(at[t], s),
           NEW y \in Tiles, TileShared(y), tile'[y] = tile[y], users(y)' = users(y),
           s.tile = y /\ locks(s) => s.loading = at[t].loading,
           s.tile = y /\ where(s) = "copy" => s.td = tile[y].m_tileData,
           s.tile = y /\ points(s) => s.td = tile[y].m_tileData \/ (points(at[t]) /\ s.td = at[t].td)
    PROVE  TileShared(y)'
<1>1. \A u \in Threads : u # t => at'[u] = at[u]
  BY DEF Moves, Agents
<1>2. at'[t] = s /\ s.tile = at[t].tile /\ (locks(s) <=> locks(at[t]))
  BY DEF Moves, SameRole
<1>3. ASSUME tile'[y].m_tileData = NoTileData
      PROVE  /\ \A u \in Threads : at'[u].tile # y
             /\ tile'[y] = NewTile(NoTileData, {})
  BY <1>1, <1>2, <1>3 DEF TileShared
<1>4. ASSUME NEW u \in Threads, at'[u].tile = y
      PROVE  /\ locks(at'[u]) => at'[u].loading = tile'[y].m_tileData
             /\ where(at'[u]) = "copy" => at'[u].td = tile'[y].m_tileData
             /\ points(at'[u]) => \/ at'[u].td = tile'[y].m_tileData
                                  \/ \E k \in DOMAIN tile'[y].m_oldTileData :
                                        tile'[y].m_oldTileData[k] = at'[u].td
  <2>1. CASE u = t
    <3>1. /\ locks(at[t]) => at[t].loading = tile[y].m_tileData
          /\ points(at[t]) => \/ at[t].td = tile[y].m_tileData
                              \/ \E k \in DOMAIN tile[y].m_oldTileData : tile[y].m_oldTileData[k] = at[t].td
      BY <1>2, <1>4, <2>1 DEF TileShared
    <3>2. QED
      BY <1>2, <1>4, <2>1, <3>1
  <2>2. CASE u # t
    BY <1>1, <1>4, <2>2 DEF TileShared
  <2>3. QED
    BY <2>1, <2>2
<1>5. QED
  BY <1>3, <1>4 DEF TileShared

\* A tile that the thread neither leaves nor enters stays as it was.
LEMMA Elsewhere ==
    ASSUME NEW t \in Threads, NEW s, Moves(t, s),
           NEW y \in Tiles, TileLocked(y), TileShared(y),
           at[t].tile # y, s.tile # y, tile'[y] = tile[y]
    PROVE  TileLocked(y)' /\ TileShared(y)'
<1>1. at'[t] = s /\ \A u \in Threads : u # t => at'[u] = at[u]
  BY DEF Moves, Agents
<1>2. \A u \in Threads : at'[u].tile = y <=> at[u].tile = y
  BY <1>1
<1>3. \A u \in Threads : at[u].tile = y => at'[u] = at[u]
  BY <1>1
<1>4. users(y)' = users(y)
  BY <1>2, <1>3 DEF users
<1>5. TileLocked(y)'
  <2>1. y \in Tiles /\ NoTile \notin Tiles
    BY StoreAssumption
  <2>2. QED
    BY <2>1, <1>2, <1>3, <1>4 DEF TileLocked
<1>6. TileShared(y)'
  BY <1>2, <1>3, <1>4 DEF TileShared
<1>7. QED
  BY <1>5, <1>6

\* A tile in use has data.
LEMMA UsedTile ==
    ASSUME Ordered, NEW t \in Threads, at[t].tile # NoTile
    PROVE  /\ at[t].tile \in Tiles
           /\ tile[at[t].tile].m_tileData \in TileData
<1>1. at[t] \in AgentRecord
  BY DEF Ordered, Control, Agents
<1>2. at[t].tile \in Tiles
  BY <1>1 DEF AgentRecord
<1>3. tile[at[t].tile] \in KisTile /\ TileShared(at[t].tile)
  BY <1>2 DEF Ordered, TilesLocked
<1>4. QED
  BY <1>2, <1>3 DEF KisTile, TileShared

\* What is known of the label of a thread.
LEMMA ThreadRecord ==
    ASSUME Ordered, NEW t \in Threads
    PROVE  /\ at[t] \in AgentRecord /\ ThreadShape(at[t]) /\ t \in Agents
           /\ at \in [Agents -> AgentRecord]
BY DEF Ordered, Control, Agents

\* A step that leaves the tiles and the roles alone.
LEMMA SameRoles ==
    ASSUME Ordered, NEW t \in Threads, NEW s \in AgentRecord, ThreadShape(s),
           at' = [at EXCEPT ![t] = s],
           SameRole(at[t], s), writes(s) <=> writes(at[t]),
           UNCHANGED <<tile, written>>,
           locks(s) => s.loading = at[t].loading,
           where(s) = "copy" => s.td = tile[s.tile].m_tileData,
           points(s) => s.td = tile[s.tile].m_tileData \/ (points(at[t]) /\ s.td = at[t].td)
    PROVE  Control' /\ Moves(t, s) /\ WritesBounded' /\ TilesLocked'
<1>1. Control' /\ Moves(t, s)
  BY ThreadMoves DEF Ordered
<1>2. \A u \in Threads : writes(at'[u]) <=> writes(at[u])
  BY <1>1 DEF Moves, Agents
<1>3. WritesBounded'
  <2>1. {u \in Threads : writes(at'[u])} = {u \in Threads : writes(at[u])}
    BY <1>2
  <2>2. QED
    BY <2>1 DEF Ordered, WritesBounded
<1>4. ASSUME NEW y \in Tiles
      PROVE  TileLocked(y)' /\ TileShared(y)'
  <2>1. TileLocked(y) /\ TileShared(y) /\ tile'[y] = tile[y]
    BY DEF Ordered, TilesLocked
  <2>2. TileLocked(y)' /\ users(y)' = users(y)
    BY <1>1, <2>1, LockedSame
  <2>3. QED
    BY <1>1, <2>1, <2>2, SharedSame
<1>5. QED
  BY <1>1, <1>3, <1>4 DEF Ordered, TilesLocked

\* A step that keeps the role of a thread, and that of nobody else, keeps all of it.
LEMMA QuietStep ==
    ASSUME Ordered, NEW t \in Threads, NEW s \in AgentRecord, ThreadShape(s),
           at' = [at EXCEPT ![t] = s], StoreLocks',
           SameRole(at[t], s), writes(s) <=> writes(at[t]),
           UNCHANGED <<tile, items, written>>,
           locks(s) => s.loading = at[t].loading,
           where(s) = "copy" => s.td = tile[s.tile].m_tileData,
           points(s) => s.td = tile[s.tile].m_tileData \/ (points(at[t]) /\ s.td = at[t].td)
    PROVE  Ordered' /\ Moves(t, s)
<1>1. Control' /\ Moves(t, s) /\ WritesBounded' /\ TilesLocked'
  BY SameRoles
<1>2. ItemsTyped'
  BY DEF Ordered, ItemsTyped
<1>3. QED
  BY <1>1, <1>2 DEF Ordered

\* A step of the swapper or the pooler.
LEMMA StoreThreadStep ==
    ASSUME Ordered, NEW a \in {Swapper, Pooler}, NEW s \in AgentRecord,
           at' = [at EXCEPT ![a] = s], StoreLocks',
           a = Swapper => SwapperShape(s), a = Pooler => PoolerShape(s),
           UNCHANGED <<tile, items, written>>
    PROVE  Ordered' /\ Moves(a, s)
<1>1. a \in Agents /\ a \notin Threads /\ Swapper # Pooler
  BY StoreAssumption DEF Agents
<1>2. /\ at' \in [Agents -> AgentRecord] /\ Moves(a, s)
      /\ \A u \in Threads : at'[u] = at[u]
  BY <1>1 DEF Ordered, Control, Moves, Agents
<1>3. Control'
  BY <1>1, <1>2 DEF Ordered, Control, Moves, Agents
<1>4. WritesBounded'
  <2>1. {u \in Threads : writes(at'[u])} = {u \in Threads : writes(at[u])}
    BY <1>2
  <2>2. QED
    BY <2>1 DEF Ordered, WritesBounded
<1>5. ASSUME NEW y \in Tiles
      PROVE  TileLocked(y)' /\ TileShared(y)'
  <2>1. users(y)' = users(y)
    BY <1>2 DEF users
  <2>2. TileLocked(y) /\ TileShared(y) /\ tile'[y] = tile[y]
    BY DEF Ordered, TilesLocked
  <2>3. QED
    BY <1>2, <2>1, <2>2 DEF TileLocked, TileShared
<1>6. TilesLocked' /\ ItemsTyped'
  BY <1>5 DEF Ordered, TilesLocked, ItemsTyped
<1>7. QED
  BY <1>2, <1>3, <1>4, <1>6 DEF Ordered

-------------------------------------------------------------------------------
(***************************************************************************)
(* Loading, freeing and swapping leave the tiles alone.                    *)
(***************************************************************************)

\* The first look, without the list lock.
LEMMA FindSwappedOutOrdered ==
    ASSUME Ordered, NEW t \in Threads, findSwappedOut(t)
    PROVE  Ordered'
<1> DEFINE s == [at[t] EXCEPT !.pc = "loadList"]
<1>1. at[t] \in AgentRecord /\ ThreadShape(at[t]) /\ t \in Agents
  BY ThreadRecord
<1>2. at[t].pc = "load" /\ at' = [at EXCEPT ![t] = s] /\ UNCHANGED <<tile, items, listLock, cycleLock, written>>
  BY DEF findSwappedOut, goto, history
<1>3. /\ s \in AgentRecord /\ ThreadShape(s) /\ SameRole(at[t], s) /\ where(s) = "loadList"
      /\ s.td = at[t].td /\ s.loading = at[t].loading /\ s.write = at[t].write /\ s.pc = "loadList"
  BY <1>1, <1>2, LoadStep DEF LoadLabels, AgentRecord
<1> HIDE DEF s
<1>4. Moves(t, s)
  BY <1>1, <1>2, <1>3, ThreadMoves DEF Ordered
<1>5. StoreLocks'
  BY <1>1, <1>2, <1>3, <1>4, LocksKept DEF Ordered, ListLabels, CycleLabels
<1>6. QED
  BY <1>1, <1>2, <1>3, <1>5, QuietStep DEF writes, points

\* The second look under the list lock: back, or on with the lock.
LEMMA LockListOrdered ==
    ASSUME Ordered, NEW t \in Threads, lockList(t)
    PROVE  Ordered'
<1>1. at[t] \in AgentRecord /\ ThreadShape(at[t]) /\ t \in Agents
  BY ThreadRecord
<1>2. PICK pc \in {"load", "loadWrite"} :
      /\ at[t].pc = "loadList" /\ at' = [at EXCEPT ![t] = [at[t] EXCEPT !.pc = pc]]
      /\ \/ pc = "load" /\ listLock' = listLock
         \/ pc = "loadWrite" /\ listLock = NoOne /\ listLock' = t
      /\ UNCHANGED <<tile, items, cycleLock, written>>
  BY DEF lockList, goto, history
<1> DEFINE s == [at[t] EXCEPT !.pc = pc]
<1>3. /\ s \in AgentRecord /\ ThreadShape(s) /\ SameRole(at[t], s) /\ where(s) = s.pc
      /\ s.td = at[t].td /\ s.loading = at[t].loading /\ s.write = at[t].write
      /\ s.pc = pc
  BY <1>1, <1>2, LoadStep DEF LoadLabels, AgentRecord
<1>4. at' = [at EXCEPT ![t] = s]
  BY <1>2
<1> HIDE DEF s
<1>5. Moves(t, s)
  BY <1>1, <1>3, <1>4, ThreadMoves DEF Ordered
<1>6. StoreLocks'
  <2>1. CASE s.pc = "load"
    BY <1>1, <1>2, <1>3, <1>5, <2>1, LocksKept DEF Ordered, ListLabels, CycleLabels
  <2>2. CASE s.pc = "loadWrite"
    BY <1>1, <1>2, <1>3, <1>5, <2>2, ListLockTaken DEF Ordered, ListLabels, CycleLabels
  <2>3. QED
    BY <1>2, <1>3, <2>1, <2>2
<1>7. QED
  BY <1>1, <1>2, <1>3, <1>4, <1>6, QuietStep DEF writes, points

\* The thread that has loaded the data gives the list lock back.
LEMMA SwapInOrdered ==
    ASSUME Ordered, NEW t \in Threads, swapInTileData(t)
    PROVE  Ordered'
<1> DEFINE s == [at[t] EXCEPT !.pc = "load"]
<1>1. at[t] \in AgentRecord /\ ThreadShape(at[t]) /\ t \in Agents
  BY ThreadRecord
<1>2. /\ at[t].pc = "loadWrite" /\ at' = [at EXCEPT ![t] = s] /\ listLock' = NoOne
      /\ UNCHANGED <<tile, items, cycleLock, written>>
  BY DEF swapInTileData, goto, history
<1>3. /\ s \in AgentRecord /\ ThreadShape(s) /\ SameRole(at[t], s) /\ where(s) = "load"
      /\ s.td = at[t].td /\ s.loading = at[t].loading /\ s.write = at[t].write /\ s.pc = "load"
  BY <1>1, <1>2, LoadStep DEF LoadLabels, AgentRecord
<1> HIDE DEF s
<1>4. Moves(t, s)
  BY <1>1, <1>2, <1>3, ThreadMoves DEF Ordered
<1>5. StoreLocks'
  BY <1>1, <1>2, <1>3, <1>4, ListLockReleased DEF Ordered, ListLabels, CycleLabels
<1>6. QED
  BY <1>1, <1>2, <1>3, <1>5, QuietStep DEF writes, points

\* freeTileData() takes and gives back the list lock in one step.
LEMMA FreeOrdered ==
    ASSUME Ordered, NEW t \in Threads, freeTileData(t)
    PROVE  Ordered'
<1> DEFINE s == [at[t] EXCEPT !.pc = at[t].next, !.td = NoTileData, !.next = "idle"]
<1>1. at[t] \in AgentRecord /\ ThreadShape(at[t]) /\ t \in Agents
  BY ThreadRecord
<1>2. /\ at[t].pc = "free" /\ at' = [at EXCEPT ![t] = s]
      /\ UNCHANGED <<tile, items, listLock, cycleLock, written>>
  BY DEF freeTileData, history
<1>3. /\ s \in AgentRecord /\ ThreadShape(s) /\ SameRole(at[t], s)
      /\ where(s) = at[t].next /\ where(s) \in {"idle", "releaseOld"}
      /\ s.td = NoTileData /\ s.write = at[t].write
  BY <1>1, <1>2, FreedStep
<1>4. s.pc \in {"idle", "releaseOld"} /\ ~locks(s)
  BY <1>1, <1>3 DEF AgentRecord, locks, loads, LoadLabels
<1> HIDE DEF s
<1>5. Moves(t, s)
  BY <1>1, <1>2, <1>3, ThreadMoves DEF Ordered
<1>6. StoreLocks'
  BY <1>1, <1>2, <1>3, <1>4, <1>5, LocksKept DEF Ordered, ListLabels, CycleLabels
<1>7. QED
  BY <1>1, <1>2, <1>3, <1>4, <1>6, QuietStep DEF writes, points

\* beginCycle(), beginPass(), trySwapOut() and endPass() of any agent: the locks they
\* take and give back.
SwapMove(a, r, s) ==
    /\ \/ \E pc \in SwapLabels : s = [r EXCEPT !.pc = pc]
       \/ s = [r EXCEPT !.pc = r.resume, !.resume = "idle"]
    /\ r.pc = "idle" => a = Swapper
    /\ a = Swapper => r.resume = "idle" /\ s.pc # "cycle"

\* What a swapping agent does to its own label and to the two locks of the store.
LEMMA SwapLocks ==
    ASSUME Ordered, NEW a \in Threads \cup {Swapper}, Swapping(a)
    PROVE  \E s : /\ at' = [at EXCEPT ![a] = s] /\ SwapMove(a, at[a], s)
                  /\ at[a].pc \in SwapLabels \cup {"idle"}
                  /\ Moves(a, s) => StoreLocks'
                  /\ UNCHANGED <<tile, items, written>>
<1>1. a \in Agents /\ at \in [Agents -> AgentRecord] /\ at[a] \in AgentRecord
  BY DEF Ordered, Control, Agents
<1>2. a = Swapper => at[a].resume = "idle" /\ at[a].pc \in {"idle", "soft", "hard", "softPass", "hardPass"}
  BY DEF Ordered, Control, SwapperShape, Aloof
<1>3. ~(at[a].resume \in ListLabels) /\ ~(at[a].resume \in CycleLabels)
  BY <1>1 DEF AgentRecord, ListLabels, CycleLabels
<1> DEFINE back == [at[a] EXCEPT !.pc = at[a].resume, !.resume = "idle"]
<1>4. back.pc = at[a].resume /\ (return(a) => at' = [at EXCEPT ![a] = back])
  BY <1>1 DEF return, AgentRecord
<1>5. CASE beginCycle(a)
  <2>1. CASE memoryMetric > SoftLimit
    <3> DEFINE s == [at[a] EXCEPT !.pc = "soft"]
    <3>1. /\ at' = [at EXCEPT ![a] = s] /\ cycleLock = NoOne /\ cycleLock' = a
          /\ UNCHANGED <<tile, items, written, listLock>> /\ s.pc = "soft"
      BY <1>1, <1>5, <2>1 DEF beginCycle, goto, history, AgentRecord
    <3>2. SwapMove(a, at[a], s)
      BY <1>5, <1>2, <3>1 DEF SwapMove, SwapLabels, beginCycle
    <3> HIDE DEF s
    <3>3. Moves(a, s) => StoreLocks'
      BY <1>1, <3>1, <1>5, CycleLockTaken DEF Ordered, ListLabels, CycleLabels, beginCycle
    <3>4. QED
      BY <1>5, <3>1, <3>2, <3>3 DEF beginCycle, SwapLabels
  <2>2. CASE ~(memoryMetric > SoftLimit)
    <3>1. /\ at' = [at EXCEPT ![a] = back]
          /\ UNCHANGED <<tile, items, written, listLock, cycleLock>>
      BY <1>4, <1>5, <2>2 DEF beginCycle, history
    <3>2. SwapMove(a, at[a], back)
      BY <1>5, <1>2, <1>4 DEF SwapMove, beginCycle
    <3> HIDE DEF back
    <3>3. Moves(a, back) => StoreLocks'
      BY <1>1, <1>3, <1>4, <3>1, <1>5, LocksKept DEF Ordered, ListLabels, CycleLabels, beginCycle
    <3>4. QED
      BY <1>5, <3>1, <3>2, <3>3 DEF beginCycle, SwapLabels
  <2>3. QED
    BY <2>1, <2>2
<1>6. CASE beginPass(a)
  <2> DEFINE s == [at[a] EXCEPT !.pc = IF at[a].pc = "soft" THEN "softPass" ELSE "hardPass"]
  <2>1. /\ at' = [at EXCEPT ![a] = s] /\ listLock = NoOne /\ listLock' = a
        /\ UNCHANGED <<tile, items, written, cycleLock>> /\ s.pc \in {"softPass", "hardPass"}
    BY <1>1, <1>6 DEF beginPass, goto, history, AgentRecord
  <2>2. SwapMove(a, at[a], s)
    BY <1>6, <1>2, <2>1 DEF SwapMove, SwapLabels, beginPass
  <2> HIDE DEF s
  <2>3. Moves(a, s) => StoreLocks'
    BY <1>1, <2>1, <1>6, ListLockTaken DEF Ordered, ListLabels, CycleLabels, beginPass
  <2>4. QED
    BY <1>6, <2>1, <2>2, <2>3 DEF beginPass, SwapLabels
<1>7. CASE \E x \in TileData : trySwapOut(a, x)
  <2>1. /\ at[a].pc \in {"softPass", "hardPass"}
        /\ UNCHANGED <<tile, items, written, at, listLock, cycleLock>>
    BY <1>7 DEF trySwapOut, history
  <2> DEFINE s == [at[a] EXCEPT !.pc = at[a].pc]
  <2>2. at' = [at EXCEPT ![a] = s] /\ s = at[a]
    BY <1>1, <2>1 DEF AgentRecord
  <2>3. SwapMove(a, at[a], s)
    BY <1>2, <2>1, <2>2 DEF SwapMove, SwapLabels
  <2> HIDE DEF s
  <2>4. Moves(a, s) => StoreLocks'
    BY <1>1, <2>1, <2>2, LocksKept DEF Ordered
  <2>5. QED
    BY <2>1, <2>2, <2>3, <2>4 DEF SwapLabels
<1>8. CASE endPass(a)
  <2>1. CASE at[a].pc = "softPass" /\ pass.memoryMetric > HardLimit
    <3> DEFINE s == [at[a] EXCEPT !.pc = "hard"]
    <3>1. /\ at' = [at EXCEPT ![a] = s] /\ listLock' = NoOne
          /\ UNCHANGED <<tile, items, written, cycleLock>> /\ s.pc = "hard"
      BY <1>1, <1>8, <2>1 DEF endPass, goto, history, AgentRecord
    <3>2. SwapMove(a, at[a], s)
      BY <1>8, <1>2, <3>1 DEF SwapMove, SwapLabels, endPass
    <3> HIDE DEF s
    <3>3. Moves(a, s) => StoreLocks'
      BY <1>1, <2>1, <3>1, ListLockReleased DEF Ordered, ListLabels, CycleLabels
    <3>4. QED
      BY <2>1, <3>1, <3>2, <3>3 DEF SwapLabels
  <2>2. CASE ~(at[a].pc = "softPass" /\ pass.memoryMetric > HardLimit)
    <3>1. /\ at' = [at EXCEPT ![a] = back] /\ listLock' = NoOne /\ cycleLock' = NoOne
          /\ at[a].pc \in {"softPass", "hardPass"}
          /\ UNCHANGED <<tile, items, written>>
      BY <1>4, <1>8, <2>2 DEF endPass, history
    <3>2. SwapMove(a, at[a], back)
      BY <1>2, <1>4, <3>1 DEF SwapMove
    <3> HIDE DEF back
    <3>3. Moves(a, back) => StoreLocks'
      BY <1>1, <1>3, <1>4, <3>1, ListLockReleased DEF Ordered, ListLabels, CycleLabels
    <3>4. QED
      BY <3>1, <3>2, <3>3 DEF SwapLabels
  <2>3. QED
    BY <2>1, <2>2
<1>9. QED
  BY <1>5, <1>6, <1>7, <1>8 DEF Swapping

\* Swapping, by the swapper and by a thread whose role it does not change.
LEMMA SwappingOrdered ==
    ASSUME Ordered, NEW a \in Threads \cup {Swapper}, Swapping(a)
    PROVE  Ordered'
<1>1. PICK s : /\ at' = [at EXCEPT ![a] = s] /\ SwapMove(a, at[a], s)
               /\ at[a].pc \in SwapLabels \cup {"idle"}
               /\ Moves(a, s) => StoreLocks'
               /\ UNCHANGED <<tile, items, written>>
  BY SwapLocks
<1>2. CASE a \in Threads
  <2>1. at[a] \in AgentRecord /\ ThreadShape(at[a]) /\ a # Swapper
    BY <1>2, ThreadRecord, StoreAssumption
  <2>2. at[a].pc \in SwapLabels
    BY <1>1, <2>1 DEF SwapMove
  <2>3. /\ s \in AgentRecord /\ ThreadShape(s) /\ SameRole(at[a], s)
        /\ where(s) = where(at[a]) /\ s.td = at[a].td /\ s.loading = at[a].loading
        /\ s.write = at[a].write
    BY <1>1, <2>1, <2>2, SwapStep DEF SwapMove
  <2>4. Moves(a, s)
    BY <1>1, <1>2, <2>3, ThreadMoves DEF Ordered
  <2>5. where(s) \in {"load", "copy"} /\ at[a].pc # "wrote" /\ s.pc # "wrote" /\ ~points(s)
    BY <1>1, <2>1, <2>2, <2>3 DEF SwapMove, where, SwapLabels, ThreadShape, AgentRecord, points
  <2>6. where(s) = "copy" => s.td = tile[s.tile].m_tileData
    <3>1. SUFFICES ASSUME where(s) = "copy" PROVE s.td = tile[s.tile].m_tileData
      OBVIOUS
    <3>2. at[a].tile # NoTile
      BY <2>1, <2>3, <3>1 DEF ThreadShape, frees
    <3>3. TileShared(at[a].tile)
      BY <1>2, <3>2, UsedTile DEF Ordered, TilesLocked
    <3>4. QED
      BY <1>2, <2>3, <3>1, <3>3 DEF TileShared, SameRole
  <2>7. QED
    BY <1>1, <1>2, <2>3, <2>4, <2>5, <2>6, QuietStep DEF writes
<1>3. CASE a = Swapper
  <2>1. SwapperShape(at[a]) /\ at[a] \in AgentRecord
    BY <1>3 DEF Ordered, Control, Agents
  <2>2. SwapperShape(s) /\ s \in AgentRecord
    BY <1>1, <1>3, <2>1 DEF SwapperShape, Aloof, SwapMove, SwapLabels, AgentRecord, ThreadLabels
  <2>3. Moves(a, s)
    BY <1>1, <1>3 DEF Moves, Ordered, Control, Agents
  <2>4. QED
    BY <1>1, <1>3, <2>2, <2>3, StoreThreadStep, StoreAssumption
<1>4. QED
  BY <1>2, <1>3

\* The pooler takes the list lock to visit the list and gives it back at the end.
LEMMA PoolingOrdered ==
    ASSUME Ordered, Pooling
    PROVE  Ordered'
<1>1. PoolerShape(at[Pooler]) /\ at[Pooler] \in AgentRecord /\ Pooler \in Agents
      /\ at \in [Agents -> AgentRecord]
  BY DEF Ordered, Control, Agents
<1>2. CASE \E x \in TileData : freeClones(x)
  <2>1. UNCHANGED <<tile, items, at, listLock, cycleLock, written>>
    BY <1>2 DEF freeClones, history
  <2>2. QED
    BY <2>1 DEF Ordered, Control, StoreLocks, WritesBounded, TilesLocked, TileLocked, TileShared,
       users, ItemsTyped
<1>3. CASE \E x \in TileData : beginCloning(x)
  <2>1. PICK x \in TileData : beginCloning(x)
    BY <1>3
  <2> DEFINE s == [[at[Pooler] EXCEPT !.pc = "cloning"] EXCEPT !.td = x]
  <2>2. /\ at[Pooler].pc = "idle" /\ at' = [at EXCEPT ![Pooler] = s]
        /\ listLock = NoOne /\ listLock' = Pooler
        /\ UNCHANGED <<tile, items, cycleLock, written>>
    BY <1>1, <2>1 DEF beginCloning, pools, history
  <2>3. s \in AgentRecord /\ s.pc = "cloning" /\ s.td = x
    BY <1>1 DEF AgentRecord
  <2>4. PoolerShape(s)
    BY <1>1, <2>2, <2>3 DEF PoolerShape, Aloof, AgentRecord
  <2> HIDE DEF s
  <2>5. Moves(Pooler, s)
    BY <1>1, <2>2, <2>3 DEF Moves
  <2>6. StoreLocks'
    BY <1>1, <2>2, <2>3, <2>5, ListLockTaken DEF Ordered, ListLabels, CycleLabels
  <2>7. QED
    BY <2>2, <2>3, <2>4, <2>6, StoreThreadStep, StoreAssumption
<1>4. CASE copyClone \/ (pushClone /\ preclone.left > 1)
  <2>1. PICK pc \in {"cloning", "pushing"} :
            /\ at[Pooler].pc \in {"cloning", "pushing"}
            /\ at' = [at EXCEPT ![Pooler] = [at[Pooler] EXCEPT !.pc = pc]]
            /\ UNCHANGED <<tile, items, listLock, cycleLock, written>>
    BY <1>4 DEF copyClone, pushClone, goto, history
  <2> DEFINE s == [at[Pooler] EXCEPT !.pc = pc]
  <2>2. s \in AgentRecord /\ PoolerShape(s) /\ s.pc = pc
    BY <1>1, <2>1 DEF PoolerShape, Aloof, AgentRecord, ThreadLabels
  <2> HIDE DEF s
  <2>3. Moves(Pooler, s) /\ at' = [at EXCEPT ![Pooler] = s]
    BY <1>1, <2>1, <2>2 DEF Moves, s
  <2>4. StoreLocks'
    BY <1>1, <2>1, <2>2, <2>3, LocksKept DEF Ordered, ListLabels, CycleLabels
  <2>5. QED
    BY <2>1, <2>2, <2>3, <2>4, StoreThreadStep, StoreAssumption
<1>5. CASE pushClone /\ ~(preclone.left > 1)
  <2>1. /\ at[Pooler].pc = "pushing" /\ at' = [at EXCEPT ![Pooler] = Idle] /\ listLock' = NoOne
        /\ UNCHANGED <<tile, items, cycleLock, written>>
    BY <1>5 DEF pushClone
  <2>2. Idle \in AgentRecord /\ PoolerShape(Idle) /\ Idle.pc = "idle"
    BY IdleShape DEF PoolerShape, Aloof, Idle
  <2>3. Moves(Pooler, Idle)
    BY <1>1, <2>1, <2>2 DEF Moves
  <2>4. StoreLocks'
    BY <1>1, <2>1, <2>2, <2>3, ListLockReleased DEF Ordered, ListLabels, CycleLabels
  <2>5. QED
    BY <2>1, <2>2, <2>4, StoreThreadStep, StoreAssumption
<1>6. QED
  BY <1>2, <1>3, <1>4, <1>5 DEF Pooling

-------------------------------------------------------------------------------
(***************************************************************************)
(* Copying on write.                                                       *)
(***************************************************************************)

\* A step between the COW mutex and the new data in place changes no role.
LEMMA CopyingOrdered ==
    ASSUME Ordered, NEW t \in Threads, at[t].pc \in CopyLabels, NEW x \in TileData, NEW s,
           at' = [at EXCEPT ![t] = s], UNCHANGED <<tile, items, listLock, cycleLock, written>>,
           CopyMove(at[t], x, s),
           where(s) = "copy" => x = tile[at[t].tile].m_tileData
    PROVE  Ordered'
<1>1. at[t] \in AgentRecord /\ ThreadShape(at[t]) /\ t \in Agents
  BY ThreadRecord
<1>2. /\ s \in AgentRecord /\ ThreadShape(s) /\ SameRole(at[t], s)
      /\ s.write = at[t].write /\ ~locks(s) /\ ~points(s)
      /\ s.pc \in {"cycle", "copy", "load", "register", "blockNew", "install"}
      /\ where(s) = "copy" => at[t].pc = "clone"
      /\ at[t].pc = "clone" => s.td = x
  BY <1>1, CopyStep
<1>3. Moves(t, s)
  BY <1>2, ThreadMoves DEF Ordered
<1>4. StoreLocks'
  BY <1>1, <1>2, <1>3, LocksKept DEF Ordered, ListLabels, CycleLabels, CopyLabels
<1>5. where(s) = "copy" => s.td = tile[s.tile].m_tileData
  BY <1>2 DEF SameRole
<1>6. writes(s) <=> writes(at[t])
  BY <1>2 DEF writes, CopyLabels
<1>7. QED
  BY <1>2, <1>4, <1>5, <1>6, QuietStep

\* The five steps of KisTileDataStore that make a copy and register it.
LEMMA CopyOnWriteOrdered ==
    ASSUME Ordered, NEW t \in Threads,
           popClone(t) \/ missClone(t) \/ copyTileData(t) \/ registerTileData(t) \/ blockNewTileData(t)
    PROVE  Ordered'
<1>1. at[t] \in AgentRecord /\ ThreadShape(at[t]) /\ t \in Agents /\ at \in [Agents -> AgentRecord]
  BY ThreadRecord
<1>2. at[t].pc \in CopyLabels
  BY DEF popClone, missClone, copyTileData, registerTileData, blockNewTileData, CopyLabels
<1>3. at[t].tile # NoTile
  BY <1>1, <1>2 DEF ThreadShape, where, frees, CopyLabels, SwapLabels
<1>4. tile[at[t].tile].m_tileData \in TileData
  BY <1>3, UsedTile
<1>5. CASE popClone(t) \/ copyTileData(t)
  <2>1. PICK y \in TileData : /\ at' = [at EXCEPT ![t].pc = "register", ![t].td = y]
                              /\ at[t].pc \in {"clone", "copy"}
                              /\ UNCHANGED <<tile, items, listLock, cycleLock, written>>
    BY <1>5 DEF popClone, copyTileData, history
  <2> DEFINE s == [at[t] EXCEPT !.pc = "register", !.td = y]
  <2>2. at' = [at EXCEPT ![t] = s]
    BY <1>1, <2>1
  <2>3. where(s) = "register"
    BY <1>1 DEF where, SwapLabels, AgentRecord
  <2>4. QED
    BY <1>2, <2>1, <2>2, <2>3, CopyingOrdered DEF CopyMove
<1>6. CASE missClone(t)
  <2> DEFINE x == tile[at[t].tile].m_tileData
             s == checkFreeMemory([at[t] EXCEPT !.td = x], "copy")
  <2>1. /\ at[t].pc = "clone" /\ at' = [at EXCEPT ![t] = s]
        /\ UNCHANGED <<tile, items, listLock, cycleLock, written>>
    BY <1>6 DEF missClone, history
  <2> HIDE DEF x
  <2>2. x \in TileData /\ x = tile[at[t].tile].m_tileData
    BY <1>4 DEF x
  <2>3. QED
    BY <1>2, <2>1, <2>2, CopyingOrdered DEF CopyMove
<1>7. CASE registerTileData(t)
  <2>1. /\ at[t].pc = "register" /\ at' = [at EXCEPT ![t] = [at[t] EXCEPT !.pc = "blockNew"]]
        /\ UNCHANGED <<tile, items, listLock, cycleLock, written>>
    BY <1>7 DEF registerTileData, goto, history
  <2>2. where([at[t] EXCEPT !.pc = "blockNew"]) = "blockNew"
    BY <1>1 DEF where, SwapLabels, AgentRecord
  <2>3. QED
    BY <1>2, <1>4, <2>1, <2>2, CopyingOrdered DEF CopyMove
<1>8. CASE blockNewTileData(t)
  <2> DEFINE there == [at[t] EXCEPT !.pc = "install"]
             x == at[t].td
             s == checkFreeMemory([there EXCEPT !.loading = x, !.next = "install"], "load")
  <2>1. at[t].pc = "blockNew" /\ UNCHANGED <<tile, items, listLock, cycleLock, written>>
    BY <1>8 DEF blockNewTileData, history
  <2>2. there.pc = "install" /\ x \in TileData
    BY <1>1, <2>1 DEF AgentRecord, ThreadShape, copies, where, SwapLabels, CopyLabels
  <2>3. at' = [at EXCEPT ![t] = there] \/ at' = [at EXCEPT ![t] = s]
    BY <1>8, <2>2 DEF blockNewTileData, blockSwapping
  <2>4. CASE at' = [at EXCEPT ![t] = there]
    <3>1. where(there) = "install"
      BY <1>1 DEF where, SwapLabels, AgentRecord
    <3>2. QED
      BY <1>2, <2>1, <2>2, <2>4, <3>1, CopyingOrdered DEF CopyMove
  <2>5. CASE at' = [at EXCEPT ![t] = s]
    <3> HIDE DEF x
    <3>1. CopyMove(at[t], x, s)
      BY <2>1 DEF CopyMove, x
    <3>2. where(s) # "copy"
      BY <1>1, <1>2, <2>1, <2>2, <3>1, CopyStep
    <3>3. QED
      BY <1>2, <2>1, <2>2, <2>5, <3>1, <3>2, CopyingOrdered
  <2>6. QED
    BY <2>3, <2>4, <2>5
<1>9. QED
  BY <1>5, <1>6, <1>7, <1>8

-------------------------------------------------------------------------------
(***************************************************************************)
(* Steps that change a tile.                                               *)
(***************************************************************************)
TileChanges(y) ==
    /\ tile' \in [Tiles -> KisTile]
    /\ \A z \in Tiles : z # y => tile'[z] = tile[z]

\* A step that changes one tile.
LEMMA TileUpdate ==
    ASSUME tile \in [Tiles -> KisTile], NEW y \in Tiles, NEW r \in KisTile,
           tile' = [tile EXCEPT ![y] = r]
    PROVE  TileChanges(y) /\ tile'[y] = r
BY DEF TileChanges

\* A thread moves in, into or out of one tile: the others need no look.
LEMMA TileStep ==
    ASSUME Ordered, NEW t \in Threads, NEW s \in AgentRecord, ThreadShape(s),
           at' = [at EXCEPT ![t] = s], NEW y \in Tiles, TileChanges(y),
           s = at[t] \/ (at[t].tile \in {y, NoTile} /\ s.tile \in {y, NoTile}),
           TileLocked(y)', TileShared(y)', StoreLocks', WritesBounded', ItemsTyped'
    PROVE  Ordered'
<1>1. Control' /\ Moves(t, s)
  BY ThreadMoves DEF Ordered
<1>2. ASSUME NEW z \in Tiles
      PROVE  TileLocked(z)' /\ TileShared(z)'
  <2>1. CASE z = y
    BY <2>1
  <2>2. CASE z # y
    <3>1. TileLocked(z) /\ TileShared(z) /\ tile'[z] = tile[z]
      BY <2>2 DEF Ordered, TilesLocked, TileChanges
    <3>2. CASE s = at[t]
      <4>1. \A u \in Threads : at'[u] = at[u]
        BY <1>1, <3>2 DEF Moves, Agents
      <4>2. users(z)' = users(z)
        BY <4>1 DEF users
      <4>3. QED
        BY <3>1, <4>1, <4>2 DEF TileLocked, TileShared
    <3>3. CASE at[t].tile \in {y, NoTile} /\ s.tile \in {y, NoTile}
      <4>1. at[t].tile # z /\ s.tile # z
        BY <2>2, <3>3, StoreAssumption
      <4>2. QED
        BY <1>1, <3>1, <4>1, Elsewhere
    <3>4. QED
      BY <3>2, <3>3
  <2>3. QED
    BY <2>1, <2>2
<1>3. TilesLocked'
  BY <1>2 DEF TilesLocked, TileChanges
<1>4. QED
  BY <1>1, <1>3 DEF Ordered

\* A thread that has not begun to write writes no more than was allowed for.
LEMMA WritesKept ==
    ASSUME Ordered, NEW t \in Threads, NEW s, Moves(t, s), UNCHANGED written,
           writes(s) => writes(at[t])
    PROVE  WritesBounded'
<1> DEFINE A == {u \in Threads : writes(at[u])}
           B == {u \in Threads : writes(at'[u])}
<1>1. \A u \in Threads : u # t => at'[u] = at[u]
  BY DEF Moves, Agents
<1>2. at'[t] = s
  BY DEF Moves
<1>3. B \subseteq A
  BY <1>1, <1>2
<1>4. IsFiniteSet(A)
  BY StoreAssumption, FS_Subset
<1>5. Cardinality(B) <= Cardinality(A) /\ Cardinality(A) \in Nat /\ Cardinality(B) \in Nat
  <2>1. IsFiniteSet(B) /\ Cardinality(B) <= Cardinality(A)
    BY <1>3, <1>4, FS_Subset
  <2>2. QED
    BY <1>4, <2>1, FS_CardinalityType
<1>6. written \in Nat /\ written + Cardinality(A) <= MaxWrites /\ MaxWrites \in Nat
  BY StoreAssumption DEF Ordered, WritesBounded
<1> HIDE DEF A, B
<1>7. written + Cardinality(B) <= MaxWrites
  BY <1>5, <1>6
<1>8. QED
  BY <1>6, <1>7 DEF WritesBounded, B

\* A thread comes to a tile or leaves it.
LEMMA UsersChange ==
    ASSUME Ordered, NEW t \in Threads, NEW s, Moves(t, s), NEW y \in Tiles
    PROVE  /\ \A u \in Threads : u # t => (u \in users(y)' <=> u \in users(y))
           /\ t \in users(y)' <=> s.tile = y /\ uses(s)
           /\ t \in users(y) <=> at[t].tile = y /\ uses(at[t])
           /\ Cardinality(users(y)) = tile[y].m_lockCounter
           /\ tile[y].m_lockCounter \in Nat
           /\ Cardinality(users(y)') = tile[y].m_lockCounter
                    + bit(t \in users(y)') - bit(t \in users(y))
           /\ tile[y].m_lockCounter > 0 <=> users(y) # {}
           /\ tile[y].m_lockCounter = 1 /\ t \in users(y) => users(y) = {t}
<1>1. \A u \in Threads : u # t => at'[u] = at[u]
  BY DEF Moves, Agents
<1>2. at'[t] = s
  BY DEF Moves
<1>3. \A u : u # t => (u \in users(y)' <=> u \in users(y))
  BY <1>1 DEF users
<1>4. /\ t \in users(y)' <=> s.tile = y /\ uses(s)
      /\ t \in users(y) <=> at[t].tile = y /\ uses(at[t])
  BY <1>2 DEF users
<1>5. IsFiniteSet(users(y))
  BY StoreAssumption, FS_Subset DEF users
<1>6. Cardinality(users(y)) = tile[y].m_lockCounter
  BY DEF Ordered, TilesLocked, TileLocked
<1>7. Cardinality(users(y)') = Cardinality(users(y)) + bit(t \in users(y)') - bit(t \in users(y))
  <2>1. \A u : u # t => (u \in users(y) <=> u \in users(y)')
    BY <1>3
  <2>2. QED
    BY <1>5, <2>1, OneMoves
<1>8. Cardinality(users(y)) \in Nat /\ (Cardinality(users(y)) = 0 <=> users(y) = {})
  BY <1>5, FS_CardinalityType, FS_EmptySet
<1>9. Cardinality(users(y)) = 1 /\ t \in users(y) => users(y) = {t}
  BY <1>5, FS_Singleton
<1>10. QED
  BY <1>3, <1>4, <1>6, <1>7, <1>8, <1>9

\* lockForRead() and lockForWrite(): a further user, or the first one, with its barrier.
LEMMA LockTileOrdered ==
    ASSUME Ordered, NEW t \in Threads, NEW y \in Tiles, NEW write \in BOOLEAN, lockTile(t, y, write)
    PROVE  Ordered'
<1> DEFINE first == tile[y].m_lockCounter = 0
           data == tile[y].m_tileData
           s == IF first /\ ~loaded(data) THEN waitingFor(y, write, data) ELSE entering(y, write)
<1>1. /\ at[t] \in AgentRecord /\ ThreadShape(at[t]) /\ t \in Agents
      /\ tile \in [Tiles -> KisTile] /\ TileLocked(y) /\ TileShared(y)
  BY ThreadRecord DEF Ordered, TilesLocked
<1>2. /\ at[t].pc = "idle" /\ data # NoTileData /\ tile[y].m_swapBarrierLock = NoOne
      /\ tile' = [tile EXCEPT ![y].m_lockCounter = @ + 1,
                              ![y].m_swapBarrierLock = IF first /\ ~loaded(data) THEN t ELSE @]
      /\ at' = [at EXCEPT ![t] = s]
      /\ UNCHANGED <<items, listLock, cycleLock, written>>
  BY DEF lockTile, blockSwapping, history, entering, waitingFor
<1>3. write => written + Cardinality({u \in Threads : at[u].write /\ at[u].pc # "wrote"}) < MaxWrites
  BY DEF lockTile
<1>4. data \in TileData
  BY <1>1, <1>2 DEF KisTile
<1>5. at[t].tile = NoTile /\ ~at[t].write
  BY <1>1, <1>2 DEF ThreadShape, where, loads, copies, owns, points, frees, SwapLabels, LoadLabels, CopyLabels
<1> HIDE DEF data
<1>6. /\ Entered(s, y, write)
      /\ locks(s) <=> first /\ ~loaded(data)
      /\ locks(s) => s.loading = data
  BY <1>4, EnteredStep
<1> HIDE DEF s
<1>7. Moves(t, s)
  BY <1>2, <1>6, ThreadMoves DEF Ordered, Entered
<1>8. uses(s) /\ ~writes(at[t]) /\ (writes(s) <=> write)
  BY <1>5, <1>6, StoreAssumption DEF uses, writes, Entered
<1>9. StoreLocks'
  BY <1>1, <1>2, <1>6, <1>7, LocksKept DEF Ordered, ListLabels, CycleLabels, Entered
<1>10. WritesBounded'
  <2>1. CASE write
    <3> DEFINE A == {u \in Threads : writes(at[u])}
               B == {u \in Threads : writes(at'[u])}
    <3>1. \A u : u # t => (u \in A <=> u \in B)
      BY <1>7 DEF Moves, Agents
    <3>2. t \notin A /\ t \in B
      BY <1>7, <1>8, <2>1 DEF Moves
    <3>3. IsFiniteSet(A)
      BY StoreAssumption, FS_Subset
    <3>4. A = {u \in Threads : at[u].write /\ at[u].pc # "wrote"}
      BY DEF writes
    <3> HIDE DEF A, B
    <3>5. Cardinality(B) = Cardinality(A) + 1 - 0 /\ Cardinality(A) \in Nat
      <4>1. bit(t \in B) = 1 /\ bit(t \in A) = 0
        BY <3>2 DEF bit
      <4>2. QED
        BY <3>1, <3>3, <4>1, OneMoves
    <3>6. written + Cardinality(A) < MaxWrites
      BY <1>3, <2>1, <3>4
    <3>7. written \in Nat /\ MaxWrites \in Nat
      BY StoreAssumption DEF Ordered, WritesBounded
    <3>8. written + Cardinality(B) <= MaxWrites
      BY <3>5, <3>6, <3>7
    <3>9. QED
      BY <1>2, <3>7, <3>8 DEF WritesBounded, B
  <2>2. CASE ~write
    BY <1>2, <1>7, <1>8, <2>2, WritesKept
  <2>3. QED
    BY <2>1, <2>2
<1>11. /\ TileChanges(y)
       /\ tile'[y].m_lockCounter = tile[y].m_lockCounter + 1
       /\ tile'[y].m_swapBarrierLock = IF first /\ ~loaded(data) THEN t ELSE NoOne
       /\ tile'[y].m_COWMutex = tile[y].m_COWMutex /\ tile'[y].m_tileData = tile[y].m_tileData
       /\ tile'[y].m_oldTileData = tile[y].m_oldTileData /\ tile'[y].indexed = tile[y].indexed
  <2> DEFINE barrier == IF first /\ ~loaded(data) THEN t ELSE NoOne
             n == tile[y].m_lockCounter + 1
             r == [tile[y] EXCEPT !.m_lockCounter = n, !.m_swapBarrierLock = barrier]
  <2>1. tile' = [tile EXCEPT ![y] = r]
    BY <1>1, <1>2
  <2>2. barrier \in Threads \cup {NoOne}
    OBVIOUS
  <2>3. tile[y] \in KisTile /\ n \in Nat
    BY <1>1 DEF KisTile
  <2> HIDE DEF barrier, n
  <2>4. /\ r \in KisTile
        /\ r.m_lockCounter = n /\ r.m_swapBarrierLock = barrier
        /\ r.m_COWMutex = tile[y].m_COWMutex /\ r.m_tileData = tile[y].m_tileData
        /\ r.m_oldTileData = tile[y].m_oldTileData /\ r.indexed = tile[y].indexed
    BY <2>2, <2>3 DEF KisTile
  <2> HIDE DEF r
  <2>5. TileChanges(y) /\ tile'[y] = r
    BY <1>1, <2>1, <2>4, TileUpdate
  <2>6. QED
    BY <2>4, <2>5 DEF barrier, n
<1>12. /\ t \notin users(y) /\ t \in users(y)'
       /\ \A u \in Threads : u # t => (u \in users(y)' <=> u \in users(y))
       /\ Cardinality(users(y)') = tile'[y].m_lockCounter
       /\ first => users(y) = {}
  <2>1. t \notin users(y) /\ t \in users(y)'
    BY <1>5, <1>6, <1>7, <1>8, UsersChange, StoreAssumption DEF Entered
  <2>2. bit(t \in users(y)') = 1 /\ bit(t \in users(y)) = 0
    BY <2>1 DEF bit
  <2>3. QED
    BY <1>7, <1>11, <2>1, <2>2, UsersChange
<1>13. /\ \A u \in Threads : u # t => at'[u] = at[u]
       /\ at'[t] = s
  BY <1>7 DEF Moves, Agents
<1>14. \A u \in Threads : u # t => ~(at[u].tile = y /\ (locks(at[u]) \/ releases(at[u])))
  BY <1>1, <1>2, StoreAssumption DEF TileLocked
<1>15. at[t].tile # y /\ t # NoOne
  BY <1>5, StoreAssumption
<1> HIDE DEF first
<1>16. TileLocked(y)'
  <2>1. ASSUME NEW u \in Threads
        PROVE  /\ tile'[y].m_swapBarrierLock = u <=> at'[u].tile = y /\ (locks(at'[u]) \/ releases(at'[u]))
               /\ tile'[y].m_COWMutex = u <=> at'[u].tile = y /\ copies(at'[u])
               /\ at'[u].tile = y /\ locks(at'[u]) => users(y)' = {u}
               /\ at'[u].tile = y /\ releases(at'[u]) => users(y)' = {}
    <3>1. CASE u = t
      <4>1. tile[y].m_COWMutex # t
        BY <1>1, <1>15 DEF TileLocked
      <4>2. locks(s) => users(y)' = {t}
        <5>1. locks(s) => users(y) = {}
          BY <1>6, <1>12
        <5>2. users(y)' \subseteq Threads
          BY DEF users
        <5>3. QED
          BY <1>12, <5>1, <5>2
      <4>3. QED
        BY <1>6, <1>11, <1>13, <1>15, <3>1, <4>1, <4>2 DEF Entered
    <3>2. CASE u # t
      <4>1. at'[u] = at[u] /\ u # NoOne
        BY <1>13, <3>2, StoreAssumption
      <4>2. tile[y].m_COWMutex = u <=> at[u].tile = y /\ copies(at[u])
        BY <1>1 DEF TileLocked
      <4>3. QED
        BY <1>11, <1>14, <3>2, <4>1, <4>2
    <3>3. QED
      BY <3>1, <3>2
  <2>2. QED
    BY <1>12, <2>1 DEF TileLocked
<1>17. TileShared(y)'
  <2>1. ASSUME NEW u \in Threads, at'[u].tile = y
        PROVE  /\ locks(at'[u]) => at'[u].loading = tile'[y].m_tileData
               /\ where(at'[u]) = "copy" => at'[u].td = tile'[y].m_tileData
               /\ points(at'[u]) => \/ at'[u].td = tile'[y].m_tileData
                                    \/ \E k \in DOMAIN tile'[y].m_oldTileData :
                                          tile'[y].m_oldTileData[k] = at'[u].td
    <3>1. CASE u = t
      BY <1>6, <1>11, <1>13, <3>1 DEF data, Entered
    <3>2. CASE u # t
      BY <1>1, <1>11, <1>13, <2>1, <3>2 DEF TileShared
    <3>3. QED
      BY <3>1, <3>2
  <2>2. tile'[y].m_tileData # NoTileData /\ users(y)' # {}
    BY <1>2, <1>11, <1>12 DEF data
  <2>3. QED
    BY <1>1, <1>11, <2>1, <2>2 DEF TileShared
<1>18. ItemsTyped'
  BY <1>2 DEF Ordered, ItemsTyped
<1>19. QED
  BY <1>2, <1>5, <1>6, <1>9, <1>10, <1>11, <1>16, <1>17, <1>18, TileStep DEF Entered

\* checkLazyCopying() without the mutex: on to the mutex, or to the pixels.
LEMMA CheckLazyCopyingOrdered ==
    ASSUME Ordered, NEW t \in Threads, checkLazyCopying(t)
    PROVE  Ordered'
<1> DEFINE y == at[t].tile
           x == tile[y].m_tileData
<1>1. /\ at[t] \in AgentRecord /\ ThreadShape(at[t]) /\ t \in Agents
      /\ at \in [Agents -> AgentRecord]
  BY ThreadRecord
<1>2. /\ at[t].pc = "checkCOW"
      /\ UNCHANGED <<tile, items, listLock, cycleLock, written>>
      /\ \/ at' = [at EXCEPT ![t] = [at[t] EXCEPT !.pc = "lockCOW"]]
         \/ at' = [at EXCEPT ![t] = [at[t] EXCEPT !.pc = "writing", !.td = x]]
  BY <1>1 DEF checkLazyCopying, goto, startWriting, history
<1>3. PICK s : /\ at' = [at EXCEPT ![t] = s]
               /\ \/ s = [at[t] EXCEPT !.pc = "lockCOW"]
                  \/ s = [at[t] EXCEPT !.pc = "writing", !.td = x]
  BY <1>2
<1>4. at[t].tile # NoTile
  BY <1>1, <1>2 DEF ThreadShape, where, frees, CopyLabels, SwapLabels
<1>5. x \in TileData
  BY <1>4, UsedTile
<1> HIDE DEF x
<1>6. /\ s \in AgentRecord /\ ThreadShape(s) /\ s.tile = at[t].tile /\ s.write = at[t].write
      /\ ~locks(at[t]) /\ ~locks(s) /\ ~releases(at[t]) /\ ~releases(s)
      /\ ~copies(at[t]) /\ (copies(s) <=> s.pc = "clone")
      /\ where(s) = s.pc /\ (s.pc = "writing" => s.td = x)
      /\ s.pc \in {"lockCOW", "clone", "writing", "wrote"}
  <2>1. WriteMove(at[t], x, s)
    BY <1>2, <1>3 DEF WriteMove
  <2>2. QED
    BY <1>1, <1>2, <1>5, <2>1, WriteStep
<1>7. s.pc \in {"lockCOW", "writing"}
  BY <1>1, <1>3 DEF AgentRecord
<1>8. Moves(t, s)
  BY <1>3, <1>6, ThreadMoves DEF Ordered
<1>9. StoreLocks'
  BY <1>1, <1>2, <1>7, <1>8, LocksKept DEF Ordered, ListLabels, CycleLabels
<1>10. SameRole(at[t], s) /\ (writes(s) <=> writes(at[t]))
  BY <1>2, <1>6, <1>7 DEF SameRole, writes
<1>11. points(s) => s.td = tile[s.tile].m_tileData
  BY <1>6, <1>7 DEF points, x
<1>12. where(s) # "copy"
  BY <1>6, <1>7
<1>13. QED
  BY <1>2, <1>3, <1>6, <1>9, <1>10, <1>11, <1>12, QuietStep

\* The second check, under the COW mutex: the mutex stays, or is given back at once.
LEMMA LockCOWOrdered ==
    ASSUME Ordered, NEW t \in Threads, lockCOW(t)
    PROVE  Ordered'
<1>1. /\ at[t] \in AgentRecord /\ ThreadShape(at[t]) /\ t \in Agents
      /\ at \in [Agents -> AgentRecord]
  BY ThreadRecord
<1>2. PICK y \in Tiles : y = at[t].tile
  <2>1. at[t].tile # NoTile
    BY <1>1 DEF lockCOW, ThreadShape, where, frees, CopyLabels, SwapLabels
  <2>2. QED
    BY <2>1, UsedTile
<1> DEFINE x == tile[y].m_tileData
<1>3. /\ at[t].pc = "lockCOW" /\ tile[y].m_COWMutex = NoOne
      /\ UNCHANGED <<items, listLock, cycleLock, written>>
      /\ \/ /\ at' = [at EXCEPT ![t] = [at[t] EXCEPT !.pc = "clone"]]
            /\ tile' = [tile EXCEPT ![y].m_COWMutex = t]
         \/ /\ at' = [at EXCEPT ![t] = [at[t] EXCEPT !.pc = "writing", !.td = x]]
            /\ UNCHANGED tile
  BY <1>1, <1>2 DEF lockCOW, goto, startWriting, history
<1>4. PICK s : /\ at' = [at EXCEPT ![t] = s]
               /\ \/ /\ s = [at[t] EXCEPT !.pc = "clone"]
                     /\ tile' = [tile EXCEPT ![y].m_COWMutex = t]
                  \/ /\ s = [at[t] EXCEPT !.pc = "writing", !.td = x]
                     /\ UNCHANGED tile
  BY <1>3
<1>5. x \in TileData
  BY <1>2, UsedTile, StoreAssumption
<1> HIDE DEF x
<1>6. /\ s \in AgentRecord /\ ThreadShape(s) /\ s.tile = at[t].tile /\ s.write = at[t].write
      /\ ~locks(at[t]) /\ ~locks(s) /\ ~releases(at[t]) /\ ~releases(s)
      /\ ~copies(at[t]) /\ (copies(s) <=> s.pc = "clone")
      /\ where(s) = s.pc /\ (s.pc = "writing" => s.td = x)
      /\ s.pc \in {"lockCOW", "clone", "writing", "wrote"}
  <2>1. WriteMove(at[t], x, s)
    BY <1>3, <1>4 DEF WriteMove
  <2>2. QED
    BY <1>1, <1>3, <1>5, <2>1, WriteStep
<1>7. s.pc \in {"clone", "writing"}
  BY <1>1, <1>4 DEF AgentRecord
<1>8. Moves(t, s)
  BY <1>4, <1>6, ThreadMoves DEF Ordered
<1>9. StoreLocks'
  BY <1>1, <1>3, <1>7, <1>8, LocksKept DEF Ordered, ListLabels, CycleLabels
<1>10. writes(s) <=> writes(at[t])
  BY <1>3, <1>6, <1>7 DEF writes
<1>11. ~points(s) \/ s.td = x
  BY <1>6, <1>7 DEF points
<1>12. where(s) # "copy"
  BY <1>6, <1>7
<1>13. CASE s.pc = "writing"
  <2>1. UNCHANGED tile
    BY <1>1, <1>4, <1>13 DEF AgentRecord
  <2>2. SameRole(at[t], s)
    BY <1>6, <1>13 DEF SameRole
  <2>3. QED
    BY <1>3, <1>4, <1>6, <1>9, <1>10, <1>11, <1>12, <2>1, <2>2, <1>2, QuietStep DEF x
<1>14. CASE s.pc = "clone"
  <2> DEFINE r == [tile[y] EXCEPT !.m_COWMutex = t]
  <2>1. tile' = [tile EXCEPT ![y] = r]
    BY <1>1, <1>4, <1>14 DEF AgentRecord
  <2>2. tile \in [Tiles -> KisTile] /\ tile[y] \in KisTile /\ TileLocked(y) /\ TileShared(y)
    BY <1>5 DEF Ordered, TilesLocked
  <2>3. /\ r \in KisTile
        /\ r.m_lockCounter = tile[y].m_lockCounter /\ r.m_swapBarrierLock = tile[y].m_swapBarrierLock
        /\ r.m_COWMutex = t /\ r.m_tileData = tile[y].m_tileData
        /\ r.m_oldTileData = tile[y].m_oldTileData /\ r.indexed = tile[y].indexed
    BY <2>2 DEF KisTile
  <2> HIDE DEF r
  <2>4. TileChanges(y) /\ tile'[y] = r
    BY <1>5, <2>1, <2>2, <2>3, TileUpdate
  <2>5. at'[t] = s /\ \A u \in Threads : u # t => at'[u] = at[u]
    BY <1>8 DEF Moves, Agents
  <2>6. users(y)' = users(y)
    BY <1>2, <1>6, <2>5 DEF users, uses
  <2>7. TileLocked(y)'
    <3>1. t # NoOne /\ NoOne \notin Threads
      BY StoreAssumption
    <3>2. ASSUME NEW u \in Threads
          PROVE  /\ tile'[y].m_swapBarrierLock = u <=> at'[u].tile = y /\ (locks(at'[u]) \/ releases(at'[u]))
                 /\ tile'[y].m_COWMutex = u <=> at'[u].tile = y /\ copies(at'[u])
                 /\ at'[u].tile = y /\ locks(at'[u]) => users(y)' = {u}
                 /\ at'[u].tile = y /\ releases(at'[u]) => users(y)' = {}
      <4>1. CASE u = t
        BY <1>2, <1>6, <1>14, <2>2, <2>3, <2>4, <2>5, <4>1 DEF TileLocked
      <4>2. CASE u # t
        BY <1>3, <2>2, <2>3, <2>4, <2>5, <2>6, <3>1, <4>2 DEF TileLocked
      <4>3. QED
        BY <4>1, <4>2
    <3>3. QED
      BY <2>2, <2>3, <2>4, <2>6, <3>2 DEF TileLocked
  <2>8. TileShared(y)'
    <3>1. \A u \in Threads : at'[u].tile = y <=> at[u].tile = y
      BY <1>2, <1>6, <2>5
    <3>2. ~points(s)
      BY <1>6, <1>14 DEF points
    <3>3. x # NoTileData
      BY <1>5, StoreAssumption
    <3>4. ASSUME NEW u \in Threads, at'[u].tile = y
          PROVE  /\ locks(at'[u]) => at'[u].loading = tile'[y].m_tileData
                 /\ where(at'[u]) = "copy" => at'[u].td = tile'[y].m_tileData
                 /\ points(at'[u]) => \/ at'[u].td = tile'[y].m_tileData
                                      \/ \E k \in DOMAIN tile'[y].m_oldTileData :
                                            tile'[y].m_oldTileData[k] = at'[u].td
      <4>1. CASE u = t
        BY <1>6, <1>12, <2>5, <3>2, <4>1
      <4>2. CASE u # t
        BY <2>2, <2>3, <2>4, <2>5, <3>4, <4>2 DEF TileShared
      <4>3. QED
        BY <4>1, <4>2
    <3>5. /\ tile'[y].m_tileData # NoTileData /\ tile'[y].m_oldTileData = tile[y].m_oldTileData
          /\ tile'[y].indexed = tile[y].indexed /\ tile'[y].m_tileData = tile[y].m_tileData
          /\ tile'[y].m_swapBarrierLock = tile[y].m_swapBarrierLock
      BY <2>3, <2>4, <3>3 DEF x
    <3>6. QED
      BY <2>2, <2>6, <3>4, <3>5 DEF TileShared
  <2>9. WritesBounded' /\ ItemsTyped'
    BY <1>3, <1>8, <1>10, WritesKept DEF Ordered, ItemsTyped
  <2>10. QED
    BY <1>4, <1>2, <1>6, <1>9, <2>4, <2>7, <2>8, <2>9, TileStep
<1>15. QED
  BY <1>7, <1>13, <1>14

\* One thread takes and gives back locks of tile y, whose barrier nobody else holds.
LEMMA LockedStep ==
    ASSUME NEW t \in Threads, NEW s, Moves(t, s), NEW y \in Tiles, TileLocked(y),
           tile[y].m_swapBarrierLock \in {t, NoOne}, tile'[y].m_swapBarrierLock \in {t, NoOne},
           tile'[y].m_swapBarrierLock = t <=> s.tile = y /\ (locks(s) \/ releases(s)),
           \A u \in Threads : u # t => (tile'[y].m_COWMutex = u <=> tile[y].m_COWMutex = u),
           tile'[y].m_COWMutex = t <=> s.tile = y /\ copies(s),
           tile'[y].m_lockCounter = Cardinality(users(y)'),
           s.tile = y /\ locks(s) => users(y)' = {t},
           s.tile = y /\ releases(s) => users(y)' = {}
    PROVE  TileLocked(y)'
<1>1. at'[t] = s /\ \A u \in Threads : u # t => at'[u] = at[u]
  BY DEF Moves, Agents
<1>2. ASSUME NEW u \in Threads
      PROVE  /\ tile'[y].m_swapBarrierLock = u <=> at'[u].tile = y /\ (locks(at'[u]) \/ releases(at'[u]))
             /\ tile'[y].m_COWMutex = u <=> at'[u].tile = y /\ copies(at'[u])
             /\ at'[u].tile = y /\ locks(at'[u]) => users(y)' = {u}
             /\ at'[u].tile = y /\ releases(at'[u]) => users(y)' = {}
  <2>1. CASE u = t
    BY <1>1, <2>1
  <2>2. CASE u # t
    <3>1. tile[y].m_swapBarrierLock # u /\ tile'[y].m_swapBarrierLock # u
      BY <2>2, StoreAssumption
    <3>2. at'[u] = at[u]
      BY <1>1, <2>2
    <3>3. ~(at[u].tile = y /\ (locks(at[u]) \/ releases(at[u])))
      BY <3>1 DEF TileLocked
    <3>4. tile'[y].m_COWMutex = u <=> at[u].tile = y /\ copies(at[u])
      BY <2>2 DEF TileLocked
    <3>5. QED
      BY <3>1, <3>2, <3>3, <3>4
  <2>3. QED
    BY <2>1, <2>2
<1>3. QED
  BY <1>2 DEF TileLocked

\* What thread u holds of the data of tile y.
Shares(u, y) ==
    /\ locks(at[u]) => at[u].loading = tile[y].m_tileData
    /\ where(at[u]) = "copy" => at[u].td = tile[y].m_tileData
    /\ points(at[u]) => \/ at[u].td = tile[y].m_tileData
                        \/ \E k \in DOMAIN tile[y].m_oldTileData : tile[y].m_oldTileData[k] = at[u].td

\* What the users of a tile hold, when every one of them still shares its data.
LEMMA SharedStep ==
    ASSUME NEW y \in Tiles, tile'[y].m_tileData # NoTileData,
           tile'[y].m_oldTileData # <<>> => users(y)' # {} \/ tile'[y].m_swapBarrierLock # NoOne,
           tile'[y].indexed \in {NoTileData, tile'[y].m_tileData},
           y \in Copies => tile'[y].indexed = NoTileData,
           \A u \in Threads : at'[u].tile = y => Shares(u, y)'
    PROVE  TileShared(y)'
BY DEF TileShared, Shares

\* What is known of a tile with data.
LEMMA UsedData ==
    ASSUME Ordered, NEW y \in Tiles, tile[y].m_tileData # NoTileData
    PROVE  /\ tile \in [Tiles -> KisTile] /\ tile[y] \in KisTile
           /\ TileLocked(y) /\ TileShared(y)
           /\ tile[y].m_tileData \in TileData
           /\ \A u \in Threads : at[u].tile = y => Shares(u, y)
<1>1. tile \in [Tiles -> KisTile] /\ tile[y] \in KisTile /\ TileLocked(y) /\ TileShared(y)
  BY DEF Ordered, TilesLocked
<1>2. tile[y].m_tileData \in TileData
  BY <1>1 DEF KisTile
<1>3. ASSUME NEW u \in Threads, at[u].tile = y PROVE Shares(u, y)
  BY <1>1, <1>3 DEF TileShared, Shares
<1>4. QED
  BY <1>1, <1>2, <1>3

\* New data in place: the old goes to m_oldTileData, the mutex is given back.
LEMMA InstallOrdered ==
    ASSUME Ordered, NEW t \in Threads, installTileData(t)
    PROVE  Ordered'
<1>1. /\ at[t] \in AgentRecord /\ ThreadShape(at[t]) /\ t \in Agents
      /\ at \in [Agents -> AgentRecord] /\ at[t].pc = "install"
  BY ThreadRecord DEF installTileData
<1>2. at[t].tile # NoTile
  BY <1>1 DEF ThreadShape, where, frees, CopyLabels, SwapLabels
<1>3. PICK y \in Tiles : y = at[t].tile
  BY <1>2, UsedTile
<1>4. /\ tile[y].m_tileData \in TileData /\ tile \in [Tiles -> KisTile] /\ tile[y] \in KisTile
      /\ TileLocked(y) /\ TileShared(y) /\ tile[y].m_tileData # NoTileData
      /\ \A u \in Threads : at[u].tile = y => Shares(u, y)
  <2>1. tile[y].m_tileData \in TileData
    BY <1>2, <1>3, UsedTile
  <2>2. tile[y].m_tileData # NoTileData
    BY <2>1, StoreAssumption
  <2>3. QED
    BY <2>1, <2>2, UsedData
<1>5. PICK x : x = at[t].td
  OBVIOUS
<1>6. x \in TileData /\ x # NoTileData
  BY <1>1, <1>5, StoreAssumption DEF AgentRecord, ThreadShape, copies, where, SwapLabels, CopyLabels
<1>7. PICK s : s = [at[t] EXCEPT !.pc = "writing"]
  OBVIOUS
<1> DEFINE index == IF y \in Copies THEN NoTileData ELSE x
           old == tile[y].m_tileData
           r == [tile[y] EXCEPT !.m_tileData = x, !.m_oldTileData = Append(@, old),
                                !.indexed = index, !.m_COWMutex = NoOne]
<1>8. /\ tile[y].m_swapBarrierLock = NoOne
      /\ at' = [at EXCEPT ![t] = s]
      /\ tile' = [tile EXCEPT ![y] = r]
      /\ UNCHANGED <<items, listLock, cycleLock, written>>
  BY <1>1, <1>3, <1>4, <1>5, <1>7 DEF installTileData, goto, history
<1>9. /\ s \in AgentRecord /\ ThreadShape(s) /\ s.tile = y /\ s.write = at[t].write
      /\ ~locks(at[t]) /\ ~locks(s) /\ ~releases(at[t]) /\ ~releases(s)
      /\ copies(at[t]) /\ (copies(s) <=> s.pc = "clone")
      /\ where(s) = s.pc /\ s.td = x
  <2>1. WriteMove(at[t], x, s)
    BY <1>1, <1>7 DEF WriteMove
  <2>2. QED
    BY <1>1, <1>3, <1>5, <1>6, <2>1, WriteStep
<1>10. s.pc = "writing" /\ ~copies(s)
  BY <1>1, <1>7, <1>9 DEF AgentRecord
<1>11. Moves(t, s)
  BY <1>8, <1>9, ThreadMoves DEF Ordered
<1>12. StoreLocks'
  BY <1>1, <1>8, <1>10, <1>11, LocksKept DEF Ordered, ListLabels, CycleLabels
<1>13. WritesBounded' /\ ItemsTyped'
  BY <1>1, <1>8, <1>9, <1>10, <1>11, WritesKept DEF Ordered, ItemsTyped, writes
<1>14. /\ TileChanges(y)
       /\ tile'[y].m_lockCounter = tile[y].m_lockCounter /\ tile'[y].m_swapBarrierLock = NoOne
       /\ tile'[y].m_COWMutex = NoOne /\ tile'[y].m_tileData = x
       /\ tile'[y].m_oldTileData = Append(tile[y].m_oldTileData, old) /\ tile'[y].indexed = index
  <2>1. PICK seq : seq = Append(tile[y].m_oldTileData, old)
    OBVIOUS
  <2>2. seq \in Seq(TileData) /\ index \in TileData \cup {NoTileData} /\ tile[y] \in KisTile
    BY <1>4, <1>6, <2>1 DEF KisTile
  <2>3. r = [tile[y] EXCEPT !.m_tileData = x, !.m_oldTileData = seq,
                            !.indexed = index, !.m_COWMutex = NoOne]
    BY <2>1
  <2> HIDE DEF index
  <2>4. /\ r \in KisTile
        /\ r.m_lockCounter = tile[y].m_lockCounter /\ r.m_swapBarrierLock = tile[y].m_swapBarrierLock
        /\ r.m_COWMutex = NoOne /\ r.m_tileData = x
        /\ r.m_oldTileData = seq /\ r.indexed = index
    BY <1>6, <2>2, <2>3 DEF KisTile
  <2> HIDE DEF r
  <2>5. TileChanges(y) /\ tile'[y] = r
    BY <1>4, <1>8, <2>4, TileUpdate
  <2>6. QED
    BY <1>8, <2>1, <2>4, <2>5
<1> HIDE DEF r
<1>15. at'[t] = s /\ \A u \in Threads : u # t => at'[u] = at[u]
  BY <1>11 DEF Moves, Agents
<1>16. users(y)' = users(y) /\ t \in users(y)
  BY <1>3, <1>9, <1>15, StoreAssumption DEF users, uses
<1>17. tile[y].m_COWMutex = t /\ t # NoOne
  BY <1>3, <1>4, <1>9, StoreAssumption DEF TileLocked
<1>18. TileLocked(y)'
  <2>1. tile'[y].m_lockCounter = Cardinality(users(y)')
    BY <1>4, <1>14, <1>16 DEF TileLocked
  <2>2. \A u \in Threads : u # t => (tile'[y].m_COWMutex = u <=> tile[y].m_COWMutex = u)
    BY <1>14, <1>17, StoreAssumption
  <2>3. QED
    BY <1>4, <1>8, <1>9, <1>10, <1>11, <1>14, <1>17, <2>1, <2>2, LockedStep
<1>19. TileShared(y)'
  <2>1. ASSUME NEW u \in Threads, at'[u].tile = y PROVE Shares(u, y)'
    <3>1. CASE u = t
      BY <1>9, <1>10, <1>14, <1>15, <3>1 DEF Shares
    <3>2. CASE u # t
      <4>1. at'[u] = at[u] /\ Shares(u, y)
        BY <1>4, <1>15, <2>1, <3>2
      <4>2. ~locks(at[u])
        BY <1>4, <1>8, <2>1, <4>1, StoreAssumption DEF TileLocked
      <4>3. where(at[u]) # "copy"
        BY <1>4, <1>17, <2>1, <3>2, <4>1 DEF TileLocked, copies, CopyLabels
      <4>4. ASSUME points(at[u])
            PROVE  \E k \in DOMAIN tile'[y].m_oldTileData : tile'[y].m_oldTileData[k] = at[u].td
        <5> DEFINE q == tile[y].m_oldTileData
        <5>1. q \in Seq(TileData)
          BY <1>4 DEF KisTile
        <5>2. /\ DOMAIN Append(q, old) = 1..(Len(q) + 1)
              /\ \A k \in 1..Len(q) : Append(q, old)[k] = q[k]
              /\ Append(q, old)[Len(q) + 1] = old
              /\ DOMAIN q = 1..Len(q) /\ Len(q) \in Nat
          BY <5>1
        <5>3. at[u].td = old \/ \E k \in DOMAIN q : q[k] = at[u].td
          BY <4>1, <4>4 DEF Shares
        <5>4. Len(q) + 1 \in 1..(Len(q) + 1) /\ 1..Len(q) \subseteq 1..(Len(q) + 1)
          BY <5>2
        <5> HIDE DEF q
        <5>5. tile'[y].m_oldTileData = Append(q, old)
          BY <1>14 DEF q
        <5>6. QED
          BY <5>2, <5>3, <5>4, <5>5
      <4>5. QED
        BY <4>1, <4>2, <4>3, <4>4 DEF Shares
    <3>3. QED
      BY <3>1, <3>2
  <2>2. QED
    BY <1>6, <1>14, <1>16, <2>1, SharedStep
<1>20. QED
  BY <1>3, <1>8, <1>9, <1>12, <1>13, <1>14, <1>18, <1>19, TileStep

\* A write counts against the bound that was reserved for it.
LEMMA WritePixelOrdered ==
    ASSUME Ordered, NEW t \in Threads, writePixel(t)
    PROVE  Ordered'
<1>1. /\ at[t] \in AgentRecord /\ ThreadShape(at[t]) /\ t \in Agents
      /\ at \in [Agents -> AgentRecord] /\ at[t].pc = "writing"
  BY ThreadRecord DEF writePixel
<1>2. at[t].tile # NoTile
  BY <1>1 DEF ThreadShape, where, frees, CopyLabels, SwapLabels
<1>3. PICK y \in Tiles : y = at[t].tile
  BY <1>2, UsedTile
<1>4. /\ tile[y].m_tileData \in TileData /\ tile \in [Tiles -> KisTile] /\ tile[y] \in KisTile
      /\ TileLocked(y) /\ TileShared(y) /\ tile[y].m_tileData # NoTileData
      /\ \A u \in Threads : at[u].tile = y => Shares(u, y)
  <2>1. tile[y].m_tileData \in TileData
    BY <1>2, <1>3, UsedTile
  <2>2. tile[y].m_tileData # NoTileData
    BY <2>1, StoreAssumption
  <2>3. QED
    BY <2>1, <2>2, UsedData
<1>5. PICK s : s = [at[t] EXCEPT !.pc = "wrote"]
  OBVIOUS
<1>6. PICK seen : seen = tile[y].expected \cup {written + 1}
  OBVIOUS
<1> DEFINE r == [tile[y] EXCEPT !.expected = seen]
<1>7. /\ at' = [at EXCEPT ![t] = s]
      /\ tile' = [tile EXCEPT ![y] = r]
      /\ written' = written + 1
      /\ UNCHANGED <<items, listLock, cycleLock>>
  BY <1>1, <1>3, <1>4, <1>5, <1>6 DEF writePixel, goto
<1>8. /\ s \in AgentRecord /\ ThreadShape(s) /\ s.tile = y /\ s.write = at[t].write
      /\ ~locks(at[t]) /\ ~locks(s) /\ ~releases(at[t]) /\ ~releases(s)
      /\ ~copies(at[t]) /\ (copies(s) <=> s.pc = "clone")
      /\ where(s) = s.pc /\ s.td = at[t].td
  <2>1. PICK x \in TileData : x = tile[y].m_tileData
    BY <1>4
  <2>2. WriteMove(at[t], x, s) /\ s.pc = "wrote"
    BY <1>1, <1>5 DEF WriteMove, AgentRecord
  <2>3. QED
    BY <1>1, <1>3, <2>1, <2>2, WriteStep
<1>9. s.pc = "wrote" /\ SameRole(at[t], s)
  BY <1>1, <1>3, <1>5, <1>8 DEF AgentRecord, SameRole
<1>10. Moves(t, s)
  BY <1>7, <1>8, ThreadMoves DEF Ordered
<1>11. at'[t] = s /\ \A u \in Threads : u # t => at'[u] = at[u]
  BY <1>10 DEF Moves, Agents
<1>12. StoreLocks'
  BY <1>1, <1>7, <1>9, <1>10, LocksKept DEF Ordered, ListLabels, CycleLabels
\* The write was allowed for when the tile was locked.
<1>13. WritesBounded' /\ written + 1 \in 1..MaxWrites
  <2> DEFINE A == {u \in Threads : writes(at[u])}
             B == {u \in Threads : writes(at'[u])}
  <2>1. \A u : u # t => (u \in A <=> u \in B)
    BY <1>11
  <2>2. at[t].write
    BY <1>1 DEF ThreadShape, points, where, SwapLabels, AgentRecord
  <2>3. t \in A /\ t \notin B
    BY <1>1, <1>9, <1>11, <2>2 DEF writes
  <2>4. IsFiniteSet(A)
    BY StoreAssumption, FS_Subset
  <2>5. written \in Nat /\ written + Cardinality(A) <= MaxWrites /\ MaxWrites \in Nat
    BY StoreAssumption DEF Ordered, WritesBounded
  <2>6. B = {u \in Threads : writes(at[u])'}
    OBVIOUS
  <2> HIDE DEF A, B
  <2>7. /\ Cardinality(B) = Cardinality(A) + 0 - 1
        /\ Cardinality(A) \in Nat /\ Cardinality(B) \in Nat
    <3>1. bit(t \in B) = 0 /\ bit(t \in A) = 1
      BY <2>3 DEF bit
    <3>2. QED
      BY <2>1, <2>4, <3>1, OneMoves
  <2>8. written + 1 \in 1..MaxWrites /\ written' \in Nat /\ written' + Cardinality(B) <= MaxWrites
    BY <1>7, <2>5, <2>7
  <2>9. QED
    BY <2>6, <2>8 DEF WritesBounded
<1>14. /\ TileChanges(y)
       /\ tile'[y].m_lockCounter = tile[y].m_lockCounter
       /\ tile'[y].m_swapBarrierLock = tile[y].m_swapBarrierLock
       /\ tile'[y].m_COWMutex = tile[y].m_COWMutex /\ tile'[y].m_tileData = tile[y].m_tileData
       /\ tile'[y].m_oldTileData = tile[y].m_oldTileData /\ tile'[y].indexed = tile[y].indexed
  <2>1. seen \in SUBSET (1..MaxWrites)
    BY <1>4, <1>6, <1>13 DEF KisTile
  <2>2. /\ r \in KisTile
        /\ r.m_lockCounter = tile[y].m_lockCounter /\ r.m_swapBarrierLock = tile[y].m_swapBarrierLock
        /\ r.m_COWMutex = tile[y].m_COWMutex /\ r.m_tileData = tile[y].m_tileData
        /\ r.m_oldTileData = tile[y].m_oldTileData /\ r.indexed = tile[y].indexed
    BY <1>4, <2>1 DEF KisTile
  <2> HIDE DEF r
  <2>3. TileChanges(y) /\ tile'[y] = r
    BY <1>4, <1>7, <2>2, TileUpdate
  <2>4. QED
    BY <2>2, <2>3
<1> HIDE DEF r
<1>15. TileLocked(y)' /\ users(y)' = users(y)
  BY <1>4, <1>9, <1>10, <1>14, LockedSame
<1>16. TileShared(y)'
  <2>1. ASSUME NEW u \in Threads, at'[u].tile = y PROVE Shares(u, y)'
    <3>1. Shares(u, y)
      BY <1>3, <1>4, <1>11, <2>1
    <3>2. CASE u = t
      BY <1>1, <1>8, <1>9, <1>11, <1>14, <3>1, <3>2 DEF Shares, points, where, SwapLabels
    <3>3. CASE u # t
      BY <1>11, <1>14, <3>1, <3>3 DEF Shares
    <3>4. QED
      BY <3>2, <3>3
  <2>2. QED
    BY <1>4, <1>14, <1>15, <2>1, SharedStep DEF TileShared
<1>17. ItemsTyped'
  BY <1>7 DEF Ordered, ItemsTyped
<1>18. QED
  BY <1>3, <1>7, <1>8, <1>12, <1>13, <1>14, <1>15, <1>16, <1>17, TileStep

\* The last user of a tile with old data keeps the barrier.
LEMMA UnlockTileOrdered ==
    ASSUME Ordered, NEW t \in Threads, unlockTile(t)
    PROVE  Ordered'
<1>1. /\ at[t] \in AgentRecord /\ ThreadShape(at[t]) /\ t \in Agents
      /\ at \in [Agents -> AgentRecord] /\ at[t].pc \in {"reading", "wrote"}
  BY ThreadRecord DEF unlockTile
<1>2. at[t].tile # NoTile
  BY <1>1 DEF ThreadShape, where, frees, CopyLabels, SwapLabels
<1>3. PICK y \in Tiles : y = at[t].tile
  BY <1>2, UsedTile
<1>4. /\ tile[y].m_tileData \in TileData /\ tile \in [Tiles -> KisTile] /\ tile[y] \in KisTile
      /\ TileLocked(y) /\ TileShared(y) /\ tile[y].m_tileData # NoTileData
      /\ \A u \in Threads : at[u].tile = y => Shares(u, y)
  <2>1. tile[y].m_tileData \in TileData
    BY <1>2, <1>3, UsedTile
  <2>2. tile[y].m_tileData # NoTileData
    BY <2>1, StoreAssumption
  <2>3. QED
    BY <2>1, <2>2, UsedData
<1> DEFINE last == tile[y].m_lockCounter = 1
           old == last /\ tile[y].m_oldTileData # <<>>
           n == tile[y].m_lockCounter - 1
           barrier == IF old THEN t ELSE NoOne
           s == IF old THEN [Idle EXCEPT !.pc = "releaseOld", !.tile = y] ELSE Idle
           r == [tile[y] EXCEPT !.m_lockCounter = n, !.m_swapBarrierLock = barrier]
<1>5. /\ tile[y].m_swapBarrierLock = NoOne
      /\ at' = [at EXCEPT ![t] = s]
      /\ tile' = [tile EXCEPT ![y] = r]
      /\ UNCHANGED <<items, listLock, cycleLock, written>>
  BY <1>1, <1>3, <1>4 DEF unlockTile, history
<1>6. /\ s \in AgentRecord /\ ThreadShape(s) /\ s.tile \in {y, NoTile} /\ ~s.write
      /\ ~locks(s) /\ ~copies(s) /\ (releases(s) <=> old)
      /\ s.tile = y <=> old
      /\ s.pc \in {"idle", "releaseOld"} /\ ~uses(s)
  <2>1. CASE old
    <3>1. s = [Idle EXCEPT !.pc = "releaseOld", !.tile = y]
      BY <2>1
    <3> HIDE DEF s, old
    <3>2. /\ s \in AgentRecord /\ ThreadShape(s) /\ s.tile = y /\ ~s.write
          /\ ~locks(s) /\ releases(s) /\ ~copies(s) /\ s.pc = "releaseOld"
      <4>1. s.pc = "releaseOld"
        BY <3>1 DEF Idle
      <4>2. Releasing(y, tile[y].m_tileData, s)
        BY <3>1 DEF Releasing
      <4>3. QED
        BY <1>4, <4>1, <4>2, ReleaseShape
    <3>3. QED
      BY <2>1, <3>2 DEF uses
  <2>2. CASE ~old
    <3>1. s = Idle /\ Idle.pc = "idle" /\ Idle.write = FALSE
      BY <2>2 DEF Idle
    <3> HIDE DEF s, old
    <3>2. QED
      BY <2>2, <3>1, IdleShape, StoreAssumption DEF uses
  <2>3. QED
    BY <2>1, <2>2
<1>7. ~locks(at[t]) /\ ~copies(at[t]) /\ ~releases(at[t]) /\ uses(at[t])
  BY <1>1, <1>2 DEF uses, locks, loads, copies, owns, releases, where, SwapLabels, LoadLabels, CopyLabels
<1> HIDE DEF s
<1>8. Moves(t, s)
  BY <1>5, <1>6, ThreadMoves DEF Ordered
<1>9. at'[t] = s /\ \A u \in Threads : u # t => at'[u] = at[u]
  BY <1>8 DEF Moves, Agents
<1>10. StoreLocks'
  BY <1>1, <1>5, <1>6, <1>8, LocksKept DEF Ordered, ListLabels, CycleLabels
<1>11. WritesBounded' /\ ItemsTyped'
  BY <1>5, <1>6, <1>8, WritesKept DEF Ordered, ItemsTyped, writes
<1>12. /\ t \in users(y) /\ t \notin users(y)'
       /\ \A u \in Threads : u # t => (u \in users(y)' <=> u \in users(y))
       /\ Cardinality(users(y)') = n /\ n \in Nat
       /\ last => users(y) = {t}
       /\ ~last => users(y)' # {}
  <2>1. t \in users(y) /\ t \notin users(y)'
    BY <1>3, <1>6, <1>7, <1>9 DEF users
  <2>2. bit(t \in users(y)') = 0 /\ bit(t \in users(y)) = 1
    BY <2>1 DEF bit
  <2>3. /\ \A u \in Threads : u # t => (u \in users(y)' <=> u \in users(y))
        /\ tile[y].m_lockCounter \in Nat /\ tile[y].m_lockCounter > 0
        /\ Cardinality(users(y)') = tile[y].m_lockCounter + 0 - 1
        /\ last => users(y) = {t}
    BY <1>8, <2>1, <2>2, UsersChange
  <2>4. Cardinality(users(y)') = n /\ n \in Nat
    BY <2>3
  <2>5. ~last => users(y)' # {}
    <3>1. users(y)' = {} => Cardinality(users(y)') = 0
      BY FS_EmptySet
    <3>2. QED
      BY <2>3, <3>1
  <2>6. QED
    BY <2>1, <2>3, <2>4, <2>5
<1>13. /\ TileChanges(y)
       /\ tile'[y].m_lockCounter = n /\ tile'[y].m_swapBarrierLock = barrier
       /\ tile'[y].m_COWMutex = tile[y].m_COWMutex /\ tile'[y].m_tileData = tile[y].m_tileData
       /\ tile'[y].m_oldTileData = tile[y].m_oldTileData /\ tile'[y].indexed = tile[y].indexed
  <2>1. barrier \in Threads \cup {NoOne} /\ tile[y] \in KisTile /\ n \in Nat
    BY <1>4, <1>12
  <2> HIDE DEF barrier, n
  <2>2. /\ r \in KisTile
        /\ r.m_lockCounter = n /\ r.m_swapBarrierLock = barrier
        /\ r.m_COWMutex = tile[y].m_COWMutex /\ r.m_tileData = tile[y].m_tileData
        /\ r.m_oldTileData = tile[y].m_oldTileData /\ r.indexed = tile[y].indexed
    BY <2>1 DEF KisTile
  <2> HIDE DEF r
  <2>3. TileChanges(y) /\ tile'[y] = r
    BY <1>4, <1>5, <2>2, TileUpdate
  <2>4. QED
    BY <2>2, <2>3
<1>14. old => users(y)' = {}
  <2>1. users(y)' \subseteq Threads
    BY DEF users
  <2>2. QED
    BY <1>12, <2>1
<1> HIDE DEF r
<1>15. TileLocked(y)'
  <2>1. tile[y].m_COWMutex # t
    BY <1>3, <1>4, <1>7 DEF TileLocked
  <2>2. barrier \in {t, NoOne} /\ (barrier = t <=> old)
    BY StoreAssumption
  <2> HIDE DEF barrier, old, n
  <2>3. QED
    BY <1>4, <1>5, <1>6, <1>8, <1>12, <1>13, <1>14, <2>1, <2>2, LockedStep
<1>16. TileShared(y)'
  <2>1. ASSUME NEW u \in Threads, at'[u].tile = y PROVE Shares(u, y)'
    <3>1. CASE u = t
      BY <1>6, <1>9, <3>1 DEF Shares, where, points, releases, SwapLabels
    <3>2. CASE u # t
      BY <1>4, <1>9, <1>13, <2>1, <3>2 DEF Shares
    <3>3. QED
      BY <3>1, <3>2
  <2>2. tile'[y].m_oldTileData # <<>> => users(y)' # {} \/ tile'[y].m_swapBarrierLock # NoOne
    BY <1>12, <1>13, StoreAssumption
  <2>3. QED
    BY <1>4, <1>13, <2>1, <2>2, SharedStep DEF TileShared
<1>17. QED
  BY <1>3, <1>5, <1>6, <1>10, <1>11, <1>13, <1>15, <1>16, TileStep

\* safeReleaseOldTileData(): one after the other, and the barrier at the end.
LEMMA ReleaseOldOrdered ==
    ASSUME Ordered, NEW t \in Threads, releaseOldTileData(t)
    PROVE  Ordered'
<1>1. /\ at[t] \in AgentRecord /\ ThreadShape(at[t]) /\ t \in Agents
      /\ at \in [Agents -> AgentRecord] /\ at[t].pc = "releaseOld"
  BY ThreadRecord DEF releaseOldTileData
<1>2. at[t].tile # NoTile
  BY <1>1 DEF ThreadShape, where, frees, CopyLabels, SwapLabels
<1>3. PICK y \in Tiles : y = at[t].tile
  BY <1>2, UsedTile
<1>4. /\ tile[y].m_tileData \in TileData /\ tile \in [Tiles -> KisTile] /\ tile[y] \in KisTile
      /\ TileLocked(y) /\ TileShared(y) /\ tile[y].m_tileData # NoTileData
      /\ \A u \in Threads : at[u].tile = y => Shares(u, y)
  <2>1. tile[y].m_tileData \in TileData
    BY <1>2, <1>3, UsedTile
  <2>2. tile[y].m_tileData # NoTileData
    BY <2>1, StoreAssumption
  <2>3. QED
    BY <2>1, <2>2, UsedData
<1>5. PICK old : old = tile[y].m_oldTileData
  OBVIOUS
<1>6. old \in Seq(TileData)
  BY <1>4, <1>5 DEF KisTile
<1>7. PICK s, rest, barrier :
        /\ at' = [at EXCEPT ![t] = s]
        /\ tile' = [tile EXCEPT ![y] = [tile[y] EXCEPT !.m_oldTileData = rest, !.m_swapBarrierLock = barrier]]
        /\ UNCHANGED <<items, listLock, cycleLock, written>>
        /\ \/ old = <<>> /\ s = Idle /\ rest = old /\ barrier = NoOne
           \/ /\ old # <<>> /\ rest = Tail(old) /\ barrier = tile[y].m_swapBarrierLock
              /\ s = [afterRelease(Head(old), "releaseOld") EXCEPT !.tile = y]
  <2>1. CASE old = <<>>
    <3>1. [tile[y] EXCEPT !.m_oldTileData = old, !.m_swapBarrierLock = NoOne]
            = [tile[y] EXCEPT !.m_swapBarrierLock = NoOne]
      BY <1>4, <1>5 DEF KisTile
    <3>2. /\ at' = [at EXCEPT ![t] = Idle]
          /\ tile' = [tile EXCEPT ![y] = [tile[y] EXCEPT !.m_swapBarrierLock = NoOne]]
          /\ UNCHANGED <<items, listLock, cycleLock, written>>
      BY <1>1, <1>3, <1>4, <1>5, <2>1 DEF releaseOldTileData, history
    <3>3. QED
      BY <2>1, <3>1, <3>2
  <2>2. CASE old # <<>>
    <3>1. [tile[y] EXCEPT !.m_oldTileData = Tail(old), !.m_swapBarrierLock = tile[y].m_swapBarrierLock]
            = [tile[y] EXCEPT !.m_oldTileData = Tail(old)]
      BY <1>4 DEF KisTile
    <3>2. /\ at' = [at EXCEPT ![t] = [afterRelease(Head(old), "releaseOld") EXCEPT !.tile = y]]
          /\ tile' = [tile EXCEPT ![y] = [tile[y] EXCEPT !.m_oldTileData = Tail(old)]]
          /\ UNCHANGED <<items, listLock, cycleLock, written>>
      BY <1>1, <1>3, <1>4, <1>5, <2>2 DEF releaseOldTileData, history
    <3>3. QED
      BY <2>2, <3>1, <3>2
  <2>3. QED
    BY <2>1, <2>2
<1>8. /\ s \in AgentRecord /\ ThreadShape(s) /\ s.tile \in {y, NoTile} /\ ~s.write
      /\ ~locks(s) /\ ~copies(s) /\ (releases(s) <=> old # <<>>)
      /\ s.tile = y <=> old # <<>>
      /\ s.pc \in {"idle", "releaseOld", "free"} /\ ~uses(s)
  <2>1. CASE old # <<>>
    <3>1. Head(old) \in TileData
      BY <1>6, <2>1
    <3>2. PICK x \in TileData : x = Head(old)
      BY <3>1
    <3>3. Releasing(y, x, s)
      BY <1>7, <2>1, <3>2 DEF Releasing
    <3>4. /\ s \in AgentRecord /\ ThreadShape(s) /\ s.tile = y /\ ~s.write
          /\ ~locks(s) /\ releases(s) /\ ~copies(s)
          /\ \/ where(s) = "releaseOld" /\ s.pc = "releaseOld" /\ s.td = NoTileData
             \/ where(s) = "free" /\ s.pc = "free" /\ s.td = x
      BY <3>3, ReleaseShape
    <3>5. QED
      BY <2>1, <3>4 DEF uses
  <2>2. CASE old = <<>>
    <3>1. s = Idle /\ Idle.pc = "idle" /\ Idle.write = FALSE
      BY <1>7, <2>2 DEF Idle
    <3>2. QED
      BY <2>2, <3>1, IdleShape, StoreAssumption DEF uses
  <2>3. QED
    BY <2>1, <2>2
<1>9. ~locks(at[t]) /\ ~copies(at[t]) /\ releases(at[t]) /\ ~uses(at[t])
  BY <1>1, <1>2 DEF uses, locks, loads, copies, owns, releases, where, SwapLabels, LoadLabels, CopyLabels
<1>10. Moves(t, s)
  BY <1>7, <1>8, ThreadMoves DEF Ordered
<1>11. at'[t] = s /\ \A u \in Threads : u # t => at'[u] = at[u]
  BY <1>10 DEF Moves, Agents
<1>12. StoreLocks'
  BY <1>1, <1>7, <1>8, <1>10, LocksKept DEF Ordered, ListLabels, CycleLabels
<1>13. WritesBounded' /\ ItemsTyped'
  BY <1>7, <1>8, <1>10, WritesKept DEF Ordered, ItemsTyped, writes
<1>14. users(y)' = users(y) /\ users(y) = {} /\ tile[y].m_swapBarrierLock = t
  <2>1. users(y) = {} /\ tile[y].m_swapBarrierLock = t
    BY <1>3, <1>4, <1>9 DEF TileLocked
  <2>2. users(y)' = users(y)
    BY <1>8, <1>9, <1>11 DEF users
  <2>3. QED
    BY <2>1, <2>2
<1>15. /\ TileChanges(y)
       /\ tile'[y].m_lockCounter = tile[y].m_lockCounter /\ tile'[y].m_swapBarrierLock = barrier
       /\ tile'[y].m_COWMutex = tile[y].m_COWMutex /\ tile'[y].m_tileData = tile[y].m_tileData
       /\ tile'[y].m_oldTileData = rest /\ tile'[y].indexed = tile[y].indexed
  <2> DEFINE r == [tile[y] EXCEPT !.m_oldTileData = rest, !.m_swapBarrierLock = barrier]
  <2>1. barrier \in Threads \cup {NoOne} /\ tile[y] \in KisTile /\ rest \in Seq(TileData)
    BY SMTT(30), <1>4, <1>6, <1>7, <1>14
  <2>2. /\ r \in KisTile
        /\ r.m_lockCounter = tile[y].m_lockCounter /\ r.m_swapBarrierLock = barrier
        /\ r.m_COWMutex = tile[y].m_COWMutex /\ r.m_tileData = tile[y].m_tileData
        /\ r.m_oldTileData = rest /\ r.indexed = tile[y].indexed
    BY <2>1 DEF KisTile
  <2>3. tile' = [tile EXCEPT ![y] = r]
    BY <1>7
  <2> HIDE DEF r
  <2>4. TileChanges(y) /\ tile'[y] = r
    BY <1>4, <2>2, <2>3, TileUpdate
  <2>5. QED
    BY <2>2, <2>4
<1>16. TileLocked(y)'
  <2>1. tile[y].m_COWMutex # t
    BY <1>3, <1>4, <1>9 DEF TileLocked
  <2>2. barrier \in {t, NoOne} /\ (barrier = t <=> old # <<>>)
    BY <1>7, <1>14, StoreAssumption
  <2>3. tile'[y].m_lockCounter = Cardinality(users(y)')
    BY <1>4, <1>14, <1>15 DEF TileLocked
  <2>4. QED
    BY <1>4, <1>8, <1>10, <1>14, <1>15, <2>1, <2>2, <2>3, LockedStep
<1>17. TileShared(y)'
  <2>1. ASSUME NEW u \in Threads, at'[u].tile = y PROVE Shares(u, y)'
    <3>1. CASE u = t
      BY <1>8, <1>11, <3>1 DEF Shares, where, points, SwapLabels
    <3>2. CASE u # t
      <4>1. at'[u] = at[u] /\ Shares(u, y)
        BY <1>4, <1>11, <2>1, <3>2
      <4>2. ~points(at[u])
        BY <1>3, <1>14, <1>2, <2>1, <4>1 DEF users, uses, points, releases
      <4>3. QED
        BY <1>15, <4>1, <4>2 DEF Shares
    <3>3. QED
      BY <3>1, <3>2
  <2>2. tile'[y].m_oldTileData # <<>> => tile'[y].m_swapBarrierLock # NoOne
    BY <1>7, <1>14, <1>15, StoreAssumption
  <2>3. QED
    BY <1>4, <1>15, <2>1, <2>2, SharedStep DEF TileShared
<1>18. QED
  BY <1>3, <1>7, <1>8, <1>12, <1>13, <1>15, <1>16, <1>17, TileStep

\* The barrier of the tile, if it is this thread's, is the only one it holds.
LEMMA LockLoadedOrdered ==
    ASSUME Ordered, NEW t \in Threads, lockLoaded(t)
    PROVE  Ordered'
<1>1. /\ at[t] \in AgentRecord /\ ThreadShape(at[t]) /\ t \in Agents
      /\ at \in [Agents -> AgentRecord] /\ at[t].pc = "load"
  BY ThreadRecord DEF lockLoaded
<1>2. at[t].tile # NoTile
  BY <1>1 DEF ThreadShape, where, frees, CopyLabels, SwapLabels
<1>3. PICK y \in Tiles : y = at[t].tile
  BY <1>2, UsedTile
<1>4. /\ tile[y].m_tileData \in TileData /\ tile \in [Tiles -> KisTile] /\ tile[y] \in KisTile
      /\ TileLocked(y) /\ TileShared(y) /\ tile[y].m_tileData # NoTileData
      /\ \A u \in Threads : at[u].tile = y => Shares(u, y)
  <2>1. tile[y].m_tileData \in TileData
    BY <1>2, <1>3, UsedTile
  <2>2. tile[y].m_tileData # NoTileData
    BY <2>1, StoreAssumption
  <2>3. QED
    BY <2>1, <2>2, UsedData
<1>5. PICK s : s = [at[t] EXCEPT !.pc = at[t].next, !.loading = NoTileData, !.next = "idle"]
  OBVIOUS
<1>6. /\ at' = [at EXCEPT ![t] = s]
      /\ tile' = [z \in Tiles |->
            [tile[z] EXCEPT !.m_swapBarrierLock = IF tile[z].m_swapBarrierLock = t THEN NoOne ELSE tile[z].m_swapBarrierLock]]
      /\ UNCHANGED <<items, listLock, cycleLock, written>>
  BY <1>1, <1>5 DEF lockLoaded, releaseBarrier, history
<1>7. /\ s \in AgentRecord /\ ThreadShape(s)
      /\ where(s) = at[t].next /\ where(s) \in {"checkCOW", "reading", "install"}
      /\ s.tile = y /\ s.td = at[t].td /\ s.write = at[t].write
      /\ ~locks(s) /\ ~releases(s) /\ ~releases(at[t]) /\ (copies(s) <=> copies(at[t]))
      /\ locks(at[t]) <=> where(s) # "install"
  BY <1>1, <1>3, <1>5, LoadedStep
<1>8. s.pc = where(s)
  BY <1>1, <1>5, <1>7 DEF AgentRecord
<1>9. Moves(t, s)
  BY <1>6, <1>7, ThreadMoves DEF Ordered
<1>10. at'[t] = s /\ \A u \in Threads : u # t => at'[u] = at[u]
  BY <1>9 DEF Moves, Agents
<1>11. StoreLocks'
  BY <1>1, <1>6, <1>7, <1>8, <1>9, LocksKept DEF Ordered, ListLabels, CycleLabels
<1>12. WritesBounded' /\ ItemsTyped'
  BY <1>1, <1>6, <1>7, <1>9, WritesKept DEF Ordered, ItemsTyped, writes
<1>13. ASSUME NEW z \in Tiles, tile[z].m_swapBarrierLock # t
       PROVE  tile'[z] = tile[z]
  <2>1. tile[z] \in KisTile
    BY <1>4
  <2>2. QED
    BY <1>6, <1>13, <2>1 DEF KisTile
<1>14. ASSUME NEW z \in Tiles, z # y
       PROVE  tile'[z] = tile[z]
  <2>1. TileLocked(z)
    BY DEF Ordered, TilesLocked
  <2>2. tile[z].m_swapBarrierLock # t
    BY <1>3, <1>14, <2>1 DEF TileLocked
  <2>3. QED
    BY <1>13, <2>2
<1>15. /\ TileChanges(y)
       /\ tile'[y].m_lockCounter = tile[y].m_lockCounter
       /\ tile'[y].m_swapBarrierLock = IF locks(at[t]) THEN NoOne ELSE tile[y].m_swapBarrierLock
       /\ tile'[y].m_COWMutex = tile[y].m_COWMutex /\ tile'[y].m_tileData = tile[y].m_tileData
       /\ tile'[y].m_oldTileData = tile[y].m_oldTileData /\ tile'[y].indexed = tile[y].indexed
  <2>1. tile[y].m_swapBarrierLock = t <=> locks(at[t])
    BY <1>3, <1>4, <1>7 DEF TileLocked
  <2>2. PICK barrier : barrier = IF locks(at[t]) THEN NoOne ELSE tile[y].m_swapBarrierLock
    OBVIOUS
  <2>3. barrier \in Threads \cup {NoOne}
    BY <1>4, <2>2 DEF KisTile
  <2> DEFINE r == [tile[y] EXCEPT !.m_swapBarrierLock = barrier]
  <2>4. tile'[y] = r
    BY <1>6, <2>1, <2>2
  <2>5. /\ r \in KisTile
        /\ r.m_lockCounter = tile[y].m_lockCounter /\ r.m_swapBarrierLock = barrier
        /\ r.m_COWMutex = tile[y].m_COWMutex /\ r.m_tileData = tile[y].m_tileData
        /\ r.m_oldTileData = tile[y].m_oldTileData /\ r.indexed = tile[y].indexed
    BY <1>4, <2>3 DEF KisTile
  <2> HIDE DEF r
  <2>6. ASSUME NEW z \in Tiles PROVE tile'[z] \in KisTile
    <3>1. CASE z = y
      BY <2>4, <2>5, <3>1
    <3>2. CASE z # y
      BY <1>4, <1>14, <3>2
    <3>3. QED
      BY <3>1, <3>2
  <2>7. DOMAIN tile' = Tiles /\ tile' = [z \in DOMAIN tile' |-> tile'[z]]
    BY <1>6
  <2>8. tile' \in [Tiles -> KisTile]
    BY <2>6, <2>7
  <2>9. QED
    BY <1>14, <2>2, <2>4, <2>5, <2>8 DEF TileChanges
<1>16. users(y)' = users(y) /\ t \in users(y)
  BY <1>3, <1>7, <1>10, StoreAssumption DEF users, uses
<1>17. TileLocked(y)'
  <2>1. tile[y].m_swapBarrierLock = t <=> locks(at[t])
    BY <1>3, <1>4, <1>7 DEF TileLocked
  <2>2. tile[y].m_COWMutex = t <=> copies(at[t])
    BY <1>3, <1>4 DEF TileLocked
  <2>3. CASE locks(at[t])
    <3>1. tile'[y].m_lockCounter = Cardinality(users(y)')
      BY <1>4, <1>15, <1>16 DEF TileLocked
    <3>2. /\ tile[y].m_swapBarrierLock \in {t, NoOne} /\ tile'[y].m_swapBarrierLock \in {t, NoOne}
          /\ tile'[y].m_swapBarrierLock # t
      BY <1>15, <2>1, <2>3, StoreAssumption
    <3>3. QED
      BY <1>4, <1>7, <1>9, <1>15, <2>2, <3>1, <3>2, LockedStep
  <2>4. CASE ~locks(at[t])
    <3>1. SameRole(at[t], s)
      BY <1>3, <1>7, <2>4 DEF SameRole
    <3>2. QED
      BY <1>4, <1>9, <1>15, <2>4, <3>1, LockedSame
  <2>5. QED
    BY <2>3, <2>4
<1>18. TileShared(y)'
  <2>1. ASSUME NEW u \in Threads, at'[u].tile = y PROVE Shares(u, y)'
    <3>1. CASE u = t
      BY <1>7, <1>8, <1>10, <3>1 DEF Shares, points
    <3>2. CASE u # t
      BY <1>4, <1>10, <1>15, <2>1, <3>2 DEF Shares
    <3>3. QED
      BY <3>1, <3>2
  <2>2. QED
    BY <1>4, <1>15, <1>16, <2>1, SharedStep DEF TileShared
<1>19. QED
  BY <1>3, <1>6, <1>7, <1>11, <1>12, <1>15, <1>17, <1>18, TileStep

-------------------------------------------------------------------------------
(***************************************************************************)
(* Steps of a thread that uses no tile.                                    *)
(***************************************************************************)
\* Of a tile that nobody uses.
LEMMA UnusedTile ==
    ASSUME NEW y \in Tiles, TileLocked(y), tile \in [Tiles -> KisTile],
           \A u \in Threads : at[u].tile # y
    PROVE  /\ users(y) = {} /\ tile[y].m_lockCounter = 0
           /\ tile[y].m_swapBarrierLock = NoOne /\ tile[y].m_COWMutex = NoOne
<1>1. users(y) = {}
  BY DEF users
<1>2. tile[y].m_lockCounter = 0
  BY <1>1, FS_EmptySet DEF TileLocked
<1>3. tile[y] \in KisTile
  OBVIOUS
<1>4. QED
  BY <1>1, <1>2, <1>3 DEF TileLocked, KisTile

\* A new tile has no users.
LEMMA NewTileLocked ==
    ASSUME NEW y \in Tiles, NEW x, NEW expected, tile'[y] = NewTile(x, expected),
           \A u \in Threads : at'[u].tile # y
    PROVE  TileLocked(y)' /\ users(y)' = {}
<1>1. users(y)' = {}
  BY DEF users
<1>2. tile'[y].m_lockCounter = 0 /\ tile'[y].m_swapBarrierLock = NoOne /\ tile'[y].m_COWMutex = NoOne
  BY DEF NewTile
<1>3. QED
  BY <1>1, <1>2, FS_EmptySet, StoreAssumption DEF TileLocked

\* A copy of a tile starts without users.
LEMMA CopyTileOrdered ==
    ASSUME Ordered, NEW t \in Threads, NEW y \in Copies, copyTile(t, y)
    PROVE  Ordered'
<1>1. y \in Tiles /\ tile \in [Tiles -> KisTile] /\ TileLocked(y) /\ TileShared(y)
  BY StoreAssumption DEF Ordered, TilesLocked
<1>2. /\ at[t] \in AgentRecord /\ ThreadShape(at[t]) /\ t \in Agents
      /\ at \in [Agents -> AgentRecord] /\ at[t].pc = "reading"
  BY ThreadRecord DEF copyTile
<1>3. at[t].tile # NoTile
  BY <1>2 DEF ThreadShape, where, frees, CopyLabels, SwapLabels
<1>4. PICK x, expected : x = tile[at[t].tile].m_tileData /\ expected = tile[at[t].tile].expected
  OBVIOUS
<1>5. x \in TileData /\ x # NoTileData /\ expected \in SUBSET (1..MaxWrites)
  BY <1>1, <1>3, <1>4, UsedTile, StoreAssumption DEF KisTile
<1>6. /\ tile[y].m_tileData = NoTileData
      /\ tile' = [tile EXCEPT ![y] = NewTile(x, expected)]
      /\ UNCHANGED <<items, at, listLock, cycleLock, written>>
  BY <1>4 DEF copyTile, history
<1>7. NewTile(x, expected) \in KisTile
  BY <1>5 DEF NewTile, KisTile
<1>8. TileChanges(y) /\ tile'[y] = NewTile(x, expected)
  BY <1>1, <1>6, <1>7, TileUpdate
<1>9. \A u \in Threads : at'[u].tile # y
  BY <1>1, <1>6 DEF TileShared
<1>10. TileLocked(y)'
  BY <1>1, <1>8, <1>9, NewTileLocked
<1>11. TileShared(y)'
  BY <1>5, <1>8, <1>9 DEF TileShared, NewTile
<1>12. StoreLocks' /\ WritesBounded' /\ ItemsTyped'
  BY <1>6 DEF Ordered, StoreLocks, WritesBounded, ItemsTyped
<1>13. at' = [at EXCEPT ![t] = at[t]]
  BY <1>2, <1>6
<1>14. QED
  BY <1>1, <1>2, <1>8, <1>10, <1>11, <1>12, <1>13, TileStep

\* The agent that gives up a reference is idle or frees the data next.
LEMMA ReleaseStep ==
    ASSUME NEW x \in TileData, NEW s, s = afterRelease(x, "idle")
    PROVE  /\ s \in AgentRecord /\ ThreadShape(s) /\ s.tile = NoTile /\ ~s.write
           /\ ~locks(s) /\ ~releases(s) /\ ~copies(s) /\ ~points(s) /\ where(s) # "copy"
           /\ s.pc \in {"idle", "free"}
<1>1. \/ s = [Idle EXCEPT !.pc = "free", !.td = x, !.next = "idle"]
      \/ s = [Idle EXCEPT !.pc = "idle"]
  BY DEF afterRelease
<1>2. [Idle EXCEPT !.pc = "idle"] = Idle /\ Idle.pc = "idle" /\ Idle.write = FALSE
  <2>1. Idle.pc = "idle" /\ Idle.write = FALSE /\ Idle \in AgentRecord
    BY IdleShape DEF Idle
  <2>2. QED
    BY <2>1 DEF AgentRecord
<1>3. CASE s = Idle
  BY <1>2, <1>3, IdleShape DEF points
<1>4. CASE s = [Idle EXCEPT !.pc = "free", !.td = x, !.next = "idle"]
  <2>1. /\ s \in AgentRecord /\ ThreadShape(s) /\ s.tile = NoTile /\ ~s.write
        /\ ~locks(s) /\ ~releases(s) /\ ~copies(s)
        /\ where(s) = "free" /\ s.pc = "free" /\ s.td = x
    BY <1>4, FreeShape
  <2>2. QED
    BY <2>1 DEF points
<1>5. QED
  BY <1>1, <1>2, <1>3, <1>4

\* A tile is dropped when nobody is in it.
LEMMA DropTileOrdered ==
    ASSUME Ordered, NEW t \in Threads, NEW y \in Copies, dropTile(t, y)
    PROVE  Ordered'
<1>1. y \in Tiles /\ tile \in [Tiles -> KisTile] /\ TileLocked(y) /\ TileShared(y)
  BY StoreAssumption DEF Ordered, TilesLocked
<1>2. /\ at[t] \in AgentRecord /\ ThreadShape(at[t]) /\ t \in Agents
      /\ at \in [Agents -> AgentRecord] /\ at[t].pc = "idle"
  BY ThreadRecord DEF dropTile
<1>3. at[t].tile = NoTile
  BY <1>2 DEF ThreadShape, where, SwapLabels
<1>4. PICK x : x = tile[y].m_tileData
  OBVIOUS
<1>5. PICK s : s = afterRelease(x, "idle")
  OBVIOUS
<1>6. /\ x # NoTileData
      /\ {u \in Threads : at[u].tile = y} = {}
      /\ tile' = [tile EXCEPT ![y] = NewTile(NoTileData, {})]
      /\ at' = [at EXCEPT ![t] = s]
      /\ UNCHANGED <<items, listLock, cycleLock, written>>
  BY <1>4, <1>5 DEF dropTile, history
<1>7. x \in TileData
  BY <1>1, <1>4, <1>6 DEF KisTile
<1>8. /\ s \in AgentRecord /\ ThreadShape(s) /\ s.tile = NoTile /\ ~s.write
      /\ s.pc \in {"idle", "free"}
  BY <1>5, <1>7, ReleaseStep
<1>9. NewTile(NoTileData, {}) \in KisTile
  BY DEF NewTile, KisTile
<1>10. TileChanges(y) /\ tile'[y] = NewTile(NoTileData, {})
  BY <1>1, <1>6, <1>9, TileUpdate
<1>11. Moves(t, s)
  BY <1>6, <1>8, ThreadMoves DEF Ordered
<1>12. ASSUME NEW u \in Threads PROVE at'[u].tile # y
  <2>1. CASE u = t
    BY <1>1, <1>8, <1>11, <2>1, StoreAssumption DEF Moves
  <2>2. CASE u # t
    BY <1>6, <1>11, <2>2 DEF Moves, Agents
  <2>3. QED
    BY <2>1, <2>2
<1>13. TileLocked(y)'
  BY <1>1, <1>10, <1>12, NewTileLocked
<1>14. TileShared(y)'
  BY <1>10, <1>12 DEF TileShared, NewTile
<1>15. StoreLocks'
  BY <1>2, <1>6, <1>8, <1>11, LocksKept DEF Ordered, ListLabels, CycleLabels
<1>16. WritesBounded' /\ ItemsTyped'
  BY <1>6, <1>8, <1>11, WritesKept DEF Ordered, ItemsTyped, writes
<1>17. QED
  BY <1>1, <1>3, <1>6, <1>8, <1>10, <1>13, <1>14, <1>15, <1>16, TileStep

\* commit() touches the index of a tile only.
LEMMA CommitOrdered ==
    ASSUME Ordered, NEW t \in Threads, NEW y \in Tiles, commit(t, y)
    PROVE  Ordered'
<1>1. /\ tile \in [Tiles -> KisTile] /\ TileLocked(y) /\ TileShared(y)
      /\ at[t] \in AgentRecord /\ ThreadShape(at[t]) /\ at \in [Agents -> AgentRecord] /\ t \in Agents
  BY ThreadRecord DEF Ordered, TilesLocked
<1> DEFINE r == [tile[y] EXCEPT !.indexed = NoTileData]
           item == [td |-> tile[y].indexed, expected |-> tile[y].expected]
<1>2. /\ tile[y].indexed # NoTileData
      /\ tile' = [tile EXCEPT ![y] = r]
      /\ items' = Append(items, item)
      /\ UNCHANGED <<at, listLock, cycleLock, written>>
  BY <1>1 DEF commit, history
<1>3. /\ r \in KisTile
      /\ r.m_lockCounter = tile[y].m_lockCounter /\ r.m_swapBarrierLock = tile[y].m_swapBarrierLock
      /\ r.m_COWMutex = tile[y].m_COWMutex /\ r.m_tileData = tile[y].m_tileData
      /\ r.m_oldTileData = tile[y].m_oldTileData /\ r.indexed = NoTileData
  <2>1. tile[y] \in KisTile
    BY <1>1
  <2>2. QED
    BY <2>1 DEF KisTile
<1> HIDE DEF r
<1>4. TileChanges(y) /\ tile'[y] = r
  BY <1>1, <1>2, <1>3, TileUpdate
<1>5. \A u \in Threads : at'[u] = at[u]
  BY <1>2
<1>6. users(y)' = users(y)
  BY <1>5 DEF users
<1>7. TileLocked(y)'
  BY <1>1, <1>3, <1>4, <1>5, <1>6 DEF TileLocked
<1>8. tile[y].m_tileData # NoTileData
  BY <1>1, <1>2 DEF TileShared
<1>9. TileShared(y)'
  <2>1. ASSUME NEW u \in Threads, at'[u].tile = y PROVE Shares(u, y)'
    <3>1. Shares(u, y)
      BY <1>5, <1>8, <2>1, UsedData
    <3>2. QED
      BY <1>3, <1>4, <1>5, <3>1 DEF Shares
  <2>2. QED
    BY <1>1, <1>3, <1>4, <1>6, <1>8, <2>1, SharedStep DEF TileShared
<1>10. ItemsTyped'
  <2>1. tile[y].indexed \in TileData /\ tile[y].expected \in SUBSET (1..MaxWrites)
    BY <1>1, <1>2 DEF KisTile
  <2>2. item \in [td : TileData, expected : SUBSET (1..MaxWrites)]
    BY <2>1
  <2> HIDE DEF item
  <2>3. QED
    BY <1>2, <2>2 DEF Ordered, ItemsTyped
<1>11. StoreLocks' /\ WritesBounded'
  BY <1>2 DEF Ordered, StoreLocks, WritesBounded
<1>12. at' = [at EXCEPT ![t] = at[t]]
  BY <1>1, <1>2
<1>13. QED
  BY <1>1, <1>4, <1>7, <1>9, <1>10, <1>11, <1>12, TileStep

\* The memento item goes, and its owner may have to free the data.
LEMMA PurgeOrdered ==
    ASSUME Ordered, NEW t \in Threads, purge(t)
    PROVE  Ordered'
<1>1. /\ at[t] \in AgentRecord /\ ThreadShape(at[t]) /\ t \in Agents
      /\ at \in [Agents -> AgentRecord] /\ at[t].pc = "idle"
  BY ThreadRecord DEF purge
<1>2. PICK x : x = Head(items).td
  OBVIOUS
<1>3. PICK s : s = afterRelease(x, "idle")
  OBVIOUS
<1>4. /\ items # <<>> /\ items' = Tail(items)
      /\ at' = [at EXCEPT ![t] = s]
      /\ UNCHANGED <<tile, listLock, cycleLock, written>>
  BY <1>2, <1>3 DEF purge, history
<1>5. x \in TileData /\ ItemsTyped'
  <2>1. PICK Item : Item = [td : TileData, expected : SUBSET (1..MaxWrites)]
    OBVIOUS
  <2>2. items \in Seq(Item)
    BY <2>1 DEF Ordered, ItemsTyped
  <2>3. Head(items) \in Item /\ Tail(items) \in Seq(Item)
    BY <1>4, <2>2
  <2>4. QED
    BY <1>2, <1>4, <2>1, <2>3 DEF ItemsTyped
<1>6. /\ s \in AgentRecord /\ ThreadShape(s) /\ s.tile = NoTile /\ ~s.write
      /\ ~locks(s) /\ ~releases(s) /\ ~copies(s) /\ ~points(s) /\ where(s) # "copy"
      /\ s.pc \in {"idle", "free"}
  BY <1>3, <1>5, ReleaseStep
<1>7. /\ at[t].tile = NoTile /\ ~at[t].write
      /\ ~locks(at[t]) /\ ~releases(at[t]) /\ ~copies(at[t])
  BY <1>1 DEF ThreadShape, where, loads, locks, copies, owns, releases, points, SwapLabels, LoadLabels, CopyLabels
<1>8. Moves(t, s)
  BY <1>4, <1>6, ThreadMoves DEF Ordered
<1>9. StoreLocks'
  BY <1>1, <1>4, <1>6, <1>8, LocksKept DEF Ordered, ListLabels, CycleLabels
<1>10. SameRole(at[t], s) /\ (writes(s) <=> writes(at[t]))
  BY <1>6, <1>7 DEF SameRole, writes
<1>11. Control' /\ WritesBounded' /\ TilesLocked'
  BY <1>4, <1>6, <1>10, SameRoles
<1>12. QED
  BY <1>5, <1>9, <1>11 DEF Ordered

-------------------------------------------------------------------------------

\* In the beginning everybody is idle.
LEMMA InitOrdered == Init => Ordered
<1> SUFFICES ASSUME Init PROVE Ordered
  OBVIOUS
<1>1. PICK firstData \in [Tiles \ Copies -> TileData] :
        tile = [y \in Tiles |->
                IF y \in Copies THEN NewTile(NoTileData, {})
                ELSE [NewTile(firstData[y], {}) EXCEPT !.indexed = firstData[y]]]
  BY DEF Init
<1>2. /\ at = [a \in Agents |-> Idle] /\ items = <<>> /\ written = 0
      /\ listLock = NoOne /\ cycleLock = NoOne
  BY DEF Init
<1>3. Control
  <2>1. SwapperShape(Idle) /\ PoolerShape(Idle)
    BY DEF SwapperShape, PoolerShape, Aloof, Idle
  <2>2. QED
    BY <1>2, <2>1, IdleShape DEF Control, Agents
<1>4. StoreLocks
  <2>1. Idle.pc \notin ListLabels /\ Idle.pc \notin CycleLabels
    BY DEF Idle, ListLabels, CycleLabels
  <2>2. NoOne \notin Agents
    BY StoreAssumption DEF Agents
  <2>3. QED
    BY <1>2, <2>1, <2>2 DEF StoreLocks
<1>5. WritesBounded
  <2>1. {u \in Threads : writes(at[u])} = {}
    BY <1>2, IdleShape DEF Agents
  <2>2. Cardinality({u \in Threads : writes(at[u])}) = 0
    BY <2>1, FS_EmptySet
  <2>3. MaxWrites \in Nat
    BY StoreAssumption
  <2>4. QED
    BY <1>2, <2>2, <2>3 DEF WritesBounded
<1>6. ASSUME NEW y \in Tiles
      PROVE  tile[y] \in KisTile /\ TileLocked(y) /\ TileShared(y)
  <2>1. /\ tile[y] \in KisTile
        /\ tile[y].m_lockCounter = 0 /\ tile[y].m_swapBarrierLock = NoOne
        /\ tile[y].m_COWMutex = NoOne /\ tile[y].m_oldTileData = <<>>
        /\ tile[y].indexed \in {NoTileData, tile[y].m_tileData}
        /\ y \in Copies => tile[y].indexed = NoTileData
        /\ tile[y].m_tileData = NoTileData => tile[y] = NewTile(NoTileData, {})
    <3>1. CASE y \in Copies
      BY <1>1, <3>1 DEF NewTile, KisTile
    <3>2. CASE y \notin Copies
      <4>1. PICK x \in TileData : x = firstData[y]
        BY <1>1, <3>2
      <4>2. tile[y] = [NewTile(x, {}) EXCEPT !.indexed = x]
        BY <1>1, <3>2, <4>1
      <4>3. x # NoTileData
        BY StoreAssumption
      <4>4. /\ NewTile(x, {}) \in KisTile
            /\ NewTile(x, {}).m_tileData = x
            /\ NewTile(x, {}).m_lockCounter = 0 /\ NewTile(x, {}).m_swapBarrierLock = NoOne
            /\ NewTile(x, {}).m_COWMutex = NoOne /\ NewTile(x, {}).m_oldTileData = <<>>
        BY DEF NewTile, KisTile
      <4>5. QED
        BY <3>2, <4>1, <4>2, <4>3, <4>4 DEF KisTile
    <3>3. QED
      BY <3>1, <3>2
  <2>2. \A u \in Threads : at[u].tile # y /\ at[u].tile = NoTile
    BY <1>2, IdleShape, StoreAssumption DEF Agents
  <2>3. users(y) = {}
    BY <2>2 DEF users
  <2>4. TileLocked(y)
    BY <2>1, <2>2, <2>3, FS_EmptySet, StoreAssumption DEF TileLocked
  <2>5. TileShared(y)
    BY <2>1, <2>2 DEF TileShared
  <2>6. QED
    BY <2>1, <2>4, <2>5
<1>7. TilesLocked
  BY <1>1, <1>6 DEF TilesLocked
<1>8. ItemsTyped
  BY <1>2 DEF ItemsTyped
<1>9. QED
  BY <1>3, <1>4, <1>5, <1>7, <1>8 DEF Ordered

\* Every step of every agent keeps the locks in order.
LEMMA NextOrdered == Ordered /\ [Next]_vars => Ordered'
<1> SUFFICES ASSUME Ordered, [Next]_vars PROVE Ordered'
  OBVIOUS
<1>1. ASSUME NEW t \in Threads, UsingTiles(t) PROVE Ordered'
  <2>1. ASSUME NEW y \in Tiles, NEW write \in BOOLEAN, lockTile(t, y, write) PROVE Ordered'
    BY <2>1, LockTileOrdered
  <2>2. CASE lockForRead(t) \/ lockForWrite(t)
    BY <2>1, <2>2 DEF lockForRead, lockForWrite
  <2>3. CASE writePixel(t) \/ unlockTile(t) \/ releaseOldTileData(t)
    BY <2>3, WritePixelOrdered, UnlockTileOrdered, ReleaseOldOrdered
  <2>4. CASE \E y \in Copies : copyTile(t, y) \/ dropTile(t, y)
    BY <2>4, CopyTileOrdered, DropTileOrdered
  <2>5. CASE (\E y \in Tiles : commit(t, y)) \/ purge(t)
    BY <2>5, CommitOrdered, PurgeOrdered
  <2>6. QED
    BY <1>1, <2>2, <2>3, <2>4, <2>5 DEF UsingTiles
<1>2. ASSUME NEW t \in Threads, CopyingOnWrite(t) PROVE Ordered'
  BY <1>2, CheckLazyCopyingOrdered, LockCOWOrdered, CopyOnWriteOrdered, InstallOrdered DEF CopyingOnWrite
<1>3. ASSUME NEW t \in Threads, Loading(t) PROVE Ordered'
  BY <1>3, LockLoadedOrdered, FindSwappedOutOrdered, LockListOrdered, SwapInOrdered DEF Loading
<1>4. ASSUME NEW t \in Threads, freeTileData(t) PROVE Ordered'
  BY <1>4, FreeOrdered
<1>5. ASSUME NEW a \in Threads \cup {Swapper}, Swapping(a) PROVE Ordered'
  BY <1>5, SwappingOrdered
<1>6. CASE Pooling
  BY <1>6, PoolingOrdered
<1>7. CASE UNCHANGED vars
  <2>1. /\ at' = at /\ tile' = tile /\ items' = items /\ written' = written
        /\ listLock' = listLock /\ cycleLock' = cycleLock
    BY <1>7 DEF vars, history
  <2>2. Control' /\ StoreLocks' /\ WritesBounded' /\ ItemsTyped'
    BY <2>1 DEF Ordered, Control, StoreLocks, WritesBounded, ItemsTyped
  <2>3. \A y \in Tiles : users(y)' = users(y)
    BY <2>1 DEF users
  <2>4. TilesLocked'
    BY <2>1, <2>3 DEF Ordered, TilesLocked, TileLocked, TileShared
  <2>5. QED
    BY <2>2, <2>4 DEF Ordered
<1>8. QED
  BY <1>1, <1>2, <1>3, <1>4, <1>5, <1>6, <1>7 DEF Next

\* The locks of the store and of the tiles stay in order.
LEMMA OrderedKept == Spec => []Ordered
<1>1. Init => Ordered
  BY InitOrdered
<1>2. Ordered /\ [Next]_vars => Ordered'
  BY NextOrdered
<1>3. QED
  BY <1>1, <1>2, PTL DEF Spec
===============================================================================
