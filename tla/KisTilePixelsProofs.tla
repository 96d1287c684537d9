-------------------------- MODULE KisTilePixelsProofs --------------------------
(***************************************************************************)
(* The pixels of the tile store, for any number of threads, tiles and tile *)
(* data, when callers never write one tile from two threads (OneWriter):   *)
(* a tile shows what was written to it and a memento item keeps the image  *)
(* of its commit, unless the pooler has pushed an outdated clone.          *)
(*                                                                         *)
(* The argument, on top of Ordered, Counted and Placed:                    *)
(*   WriterAlone  a tile has one writer;                                   *)
(*   Pens         a thread that writes, or has a copy it is going to write *)
(*                to, is the only user of the data;                        *)
(*   Fresh        clones that somebody may still take are copies;          *)
(*   Hands        a copy in the making shows what its tile shows.          *)
(* With the two properties themselves they are inductive.                  *)
(***************************************************************************)
EXTENDS KisTileDataStoreProofs

-------------------------------------------------------------------------------
\* A tile has one writer.
WriterAlone ==
    \A t, u \in Threads : at[t].write /\ at[u].write /\ at[t].tile = at[u].tile => t = u

\* The data a thread writes to is that of its tile and of nobody else; the same
\* goes for a copy that is not installed yet.
PenRight(t) ==
    /\ points(at[t]) => at[t].td = tile[at[t].tile].m_tileData
    /\ at[t].pc = "writing" \/ owns(at[t]) => td[at[t].td].m_usersCount = 1

Pens == \A t \in Threads : PenRight(t)

\* A thread has decided to copy x.
cloning(t, x) == at[t].pc = "clone" /\ tile[at[t].tile].m_tileData = x

\* The clones that a thread may take.
Fresh ==
    \A x \in TileData :
        /\ ~loaded(x) => td[x].m_clonesStack = <<>>
        /\ ~raced /\ (td[x].m_usersCount > 1 \/ \E t \in Threads : cloning(t, x)) =>
            \A i \in DOMAIN td[x].m_clonesStack : td[x].m_clonesStack[i] = td[x].m_data

\* A copy, from its construction to its installation.
holds(r) == makes(r) \/ owns(r)

HandRight(t) == holds(at[t]) /\ ~raced => contents(at[t].td) = tile[at[t].tile].expected

Hands == \A t \in Threads : HandRight(t)

Painted ==
    OneWriter =>
        WriterAlone /\ Pens /\ Fresh /\ Hands /\ TilesKeepTheirPixels /\ HistoryKeepsItsPixels

\* What Painted stands on.
Store == Ordered /\ Counted /\ PassTyped /\ Placed

-------------------------------------------------------------------------------
(***************************************************************************)
(* Where the pixels are.                                                   *)
(***************************************************************************)
\* The chunk of x holds this piece, and nothing else.
inFile(x, piece) ==
    \E c \in ToSet(m_list) :
        c.begin = td[x].m_swapChunk /\ \A cell \in cellsOf(c) : swapFile[cell] = piece

\* Tile data decompresses to what its chunk holds.
LEMMA StoredPiece ==
    Filed => \A x \in swappedOut : \A piece : inFile(x, piece) => stored(x) = piece
<1> SUFFICES ASSUME Filed, NEW x \in swappedOut, NEW piece, inFile(x, piece)
             PROVE  stored(x) = piece
  OBVIOUS
<1>1. PICK c \in ToSet(m_list) :
        c.begin = td[x].m_swapChunk /\ \A cell \in cellsOf(c) : swapFile[cell] = piece
  BY DEF inFile
<1>2. AllocatorInv
  BY DEF Filed
<1>3. \A d \in ToSet(m_list) : d.begin = td[x].m_swapChunk <=> d = c
  BY <1>1, <1>2, ChunksApart
<1>4. (CHOOSE d \in ToSet(m_list) : d.begin = td[x].m_swapChunk) = c
  BY <1>3
<1>5. {swapFile[cell] : cell \in chunkCells(c.begin, c.end)} = {piece}
  <2>1. c.begin \in cellsOf(c)
    BY <1>2, ChunksApart
  <2>2. chunkCells(c.begin, c.end) = cellsOf(c)
    BY DEF chunkCells, cellsOf
  <2>3. QED
    BY <1>1, <2>1, <2>2
<1>6. Cardinality({piece}) = 1
  BY FS_Singleton
<1>7. QED
  BY <1>4, <1>5, <1>6 DEF stored

\* ... after a step as well as before it.
LEMMA StoredPieceNext ==
    Filed' => \A x \in swappedOut' : \A piece : inFile(x, piece)' => stored(x)' = piece
<1>1. Filed' => (\A x \in swappedOut : \A piece : inFile(x, piece) => stored(x) = piece)'
  BY StoredPiece, PTL
<1>2. QED
  BY <1>1

\* Tile data that stays in the file, in a chunk that is not written to.
LEMMA StoredKept ==
    ASSUME Filed, Filed', NEW x \in swappedOut, x \in swappedOut',
           td'[x].m_swapChunk = td[x].m_swapChunk,
           \A d \in ToSet(m_list) : d.begin = td[x].m_swapChunk =>
                /\ d \in ToSet(m_list')
                /\ \A cell \in cellsOf(d) : swapFile'[cell] = swapFile[cell]
    PROVE  stored(x)' = stored(x)
<1>1. PICK c \in ToSet(m_list) : inChunk(x, c)
  BY DEF Filed
<1>2. PICK piece : \A cell \in cellsOf(c) : swapFile[cell] = piece
  BY <1>1 DEF inChunk
<1>3. inFile(x, piece) /\ inFile(x, piece)'
  BY <1>1, <1>2 DEF inFile, inChunk, cellsOf
<1>4. QED
  BY <1>3, StoredPiece, StoredPieceNext

-------------------------------------------------------------------------------
(***************************************************************************)
(* What it means to be the only user.                                      *)
(***************************************************************************)
\* Tile data that somebody uses exists.
UseCounted(x) ==
    /\ td[x].m_usersCount \in Nat
    /\ showing(x) # {} \/ kept(x) # {} \/ owning(x) # {} =>
        td[x].m_usersCount # 0 /\ td[x].exists = TRUE

\* The counters say so.
LEMMA UsesCounted == Ordered /\ Counted => \A x \in TileData : UseCounted(x)
<1> SUFFICES ASSUME Ordered, Counted, NEW x \in TileData PROVE UseCounted(x)
  OBVIOUS
<1>1. tileUsers(x) \in Nat /\ indexUsers(x) \in Nat
  BY UsersCounted
<1>2. td[x].m_usersCount = tileUsers(x) /\ td[x].m_refCount = tileUsers(x) + indexUsers(x)
      /\ td[x].exists \in BOOLEAN /\ (td[x].m_refCount > 0 => td[x].exists)
  BY DEF Counted
<1>3. tileUsers(x) # 0 => td[x].m_refCount > 0
  BY <1>1, <1>2
<1>4. QED
  BY <1>1, <1>2, <1>3, UsersCounted DEF UseCounted

\* A copy in the making belongs to its maker.
HandKnown(t) ==
    holds(at[t]) =>
        /\ at[t].td \in TileData /\ at[t].tile \in Tiles /\ at[t].write
        /\ td[at[t].td].exists = TRUE
        /\ owns(at[t]) => t \in owning(at[t].td)
        /\ makes(at[t]) => td[at[t].td].m_usersCount = 0

\* The labels of the thread and the list of its tile data say so.
LEMMA HeldData == Ordered /\ Counted => \A t \in Threads : HandKnown(t)
<1> SUFFICES ASSUME Ordered, Counted, NEW t \in Threads, holds(at[t]) PROVE HandKnown(t)
  BY DEF HandKnown
<1>1. at[t] \in AgentRecord /\ ThreadShape(at[t])
  BY ThreadRecord
<1>2. at[t].td \in TileData /\ at[t].tile \in Tiles /\ at[t].write
  BY <1>1 DEF AgentRecord, ThreadShape, holds, where, loads, owns, copies, makes, frees, points,
              SwapLabels, LoadLabels, CopyLabels
<1>3. owns(at[t]) => t \in owning(at[t].td)
  BY <1>1 DEF AgentRecord, ThreadShape, where, loads, owns, owning, ownsCopy, SwapLabels, LoadLabels
<1>4. makes(at[t]) => busy(t, at[t].td)
  BY DEF busy
<1>5. makes(at[t]) => td[at[t].td].exists = TRUE /\ td[at[t].td].m_usersCount = 0
  BY <1>2, <1>4, BusyData
<1>6. owns(at[t]) => td[at[t].td].exists = TRUE
  BY <1>2, <1>3, UsesCounted DEF UseCounted
<1>7. QED
  BY <1>2, <1>3, <1>5, <1>6 DEF holds, HandKnown

\* A writer is in its tile.
PenKnown(t) ==
    points(at[t]) =>
        /\ at[t].td \in TileData /\ at[t].tile \in Tiles /\ at[t].write
        /\ at[t].td = tile[at[t].tile].m_tileData => at[t].tile \in showing(at[t].td)

\* The labels say so.
LEMMA PenData == Ordered => \A t \in Threads : PenKnown(t)
<1> SUFFICES ASSUME Ordered, NEW t \in Threads, points(at[t])
             PROVE  at[t].td \in TileData /\ at[t].tile \in Tiles /\ at[t].write
  BY DEF showing, PenKnown
<1>1. at[t] \in AgentRecord /\ ThreadShape(at[t])
  BY ThreadRecord
<1>2. QED
  BY <1>1 DEF AgentRecord, ThreadShape, where, loads, owns, copies, frees, points,
              SwapLabels, LoadLabels, CopyLabels

\* The three of them after a step.
LEMMA UsersNext ==
    Ordered' /\ Counted' =>
        /\ \A x \in TileData : UseCounted(x)'
        /\ \A t \in Threads : HandKnown(t)' /\ PenKnown(t)'
<1>1. (Ordered /\ Counted)' => (\A x \in TileData : UseCounted(x))'
  BY UsesCounted, PTL
<1>2. (Ordered /\ Counted)' => (\A t \in Threads : HandKnown(t))'
  BY HeldData, PTL
<1>3. Ordered' => (\A t \in Threads : PenKnown(t))'
  BY PenData, PTL
<1>4. QED
  BY <1>1, <1>2, <1>3

\* Tile data with one user has no other.
LEMMA OneUser ==
    ASSUME Ordered, Counted, NEW x \in TileData, td[x].m_usersCount = 1
    PROVE  /\ \A y, z \in showing(x) : y = z
           /\ \A t, u \in owning(x) : t = u
           /\ showing(x) # {} => kept(x) = {} /\ owning(x) = {}
           /\ owning(x) # {} => kept(x) = {} /\ showing(x) = {}
<1>1. /\ IsFiniteSet(showing(x)) /\ IsFiniteSet(aging(x)) /\ IsFiniteSet(kept(x))
      /\ IsFiniteSet(owning(x))
  BY UsesFinite
<1>2. PICK a \in Nat : a = Cardinality(showing(x)) /\ (a = 0 <=> showing(x) = {})
  BY <1>1, FS_CardinalityType, FS_EmptySet
<1>3. PICK b \in Nat : b = Cardinality(aging(x))
  BY <1>1, FS_CardinalityType
<1>4. PICK c \in Nat : c = Cardinality(kept(x)) /\ (c = 0 <=> kept(x) = {})
  BY <1>1, FS_CardinalityType, FS_EmptySet
<1>5. PICK d \in Nat : d = Cardinality(owning(x)) /\ (d = 0 <=> owning(x) = {})
  BY <1>1, FS_CardinalityType, FS_EmptySet
<1>6. a + b + c + d = 1
  BY <1>2, <1>3, <1>4, <1>5, UsersAdded DEF Counted
<1>7. a \in {0, 1} /\ d \in {0, 1} /\ (a # 0 => c = 0 /\ d = 0) /\ (d # 0 => c = 0 /\ a = 0)
  BY <1>6
<1>8. \A y, z \in showing(x) : y = z
  BY <1>1, <1>2, <1>7, FS_Singleton
<1>9. \A t, u \in owning(x) : t = u
  BY <1>1, <1>5, <1>7, FS_Singleton
<1>10. QED
  BY <1>2, <1>4, <1>5, <1>7, <1>8, <1>9

-------------------------------------------------------------------------------
(***************************************************************************)
(* Steps after which everything has at most the users it had, shows what   *)
(* it showed and offers the clones it offered.                             *)
(***************************************************************************)
\* A thread that does not come to write to pixels, to copy or to hold a copy.
Continues(r, s) ==
    /\ points(s) \/ holds(s) \/ s.pc = "clone" => s.tile = r.tile
    /\ points(s) => points(r) /\ s.td = r.td
    /\ s.pc = "writing" => r.pc = "writing"
    /\ owns(s) => owns(r)
    /\ holds(s) => holds(r) /\ s.td = r.td
    /\ s.pc = "clone" => r.pc = "clone"

\* ... nor to lock a tile for writing.
Follows(r, s) == (s.write => r.write /\ s.tile = r.tile) /\ Continues(r, s)

\* A tile stays as it is to its users, or nobody is in it and it is dropped.
TileStays(y) == tile'[y].m_tileData = tile[y].m_tileData /\ tile'[y].expected = tile[y].expected

TilesStay ==
    \A y \in Tiles :
        \/ TileStays(y)
        \/ tile'[y].m_tileData = NoTileData /\ \A u \in Threads : at[u].tile # y

\* No tile data gets a second user, ...
UserStays(x) == td'[x].m_usersCount > 1 => td[x].m_usersCount > 1
UsersStay == \A x \in TileData : UserStays(x)

\* ... or a clone.
ClonesStay ==
    \A x \in TileData :
        /\ UserStays(x) \/ td'[x].m_clonesStack = <<>>
        /\ ~loaded(x)' => td'[x].m_clonesStack = <<>>
        /\ \A i \in DOMAIN td'[x].m_clonesStack :
            /\ i \in DOMAIN td[x].m_clonesStack
            /\ td'[x].m_clonesStack[i] = td[x].m_clonesStack[i]
            /\ td'[x].m_data = td[x].m_data

\* Tile data that does not die keeps its pixels.
ImageStays(x) == td[x].exists = TRUE /\ td'[x].exists = TRUE => contents(x)' = contents(x)
ImagesStay == \A x \in TileData : ImageStays(x)

\* All of that.
PixelsStay == UsersStay /\ ClonesStay /\ ImagesStay

\* Memento items are dropped, never made.
ItemsStay == \A i \in DOMAIN items' : \E j \in DOMAIN items : items'[i] = items[j]

\* Who writes to a tile and who does not.
LEMMA WritersShape ==
    ASSUME NEW r \in AgentRecord, ThreadShape(r)
    PROVE  /\ points(r) \/ holds(r) \/ r.pc = "clone" => r.write /\ r.tile \in Tiles
           /\ r.pc = "writing" => points(r)
           /\ owns(r) => holds(r)
BY DEF AgentRecord, ThreadShape, where, loads, holds, owns, makes, copies, frees, points,
       SwapLabels, LoadLabels, CopyLabels

\* Nobody becomes a writer.
LEMMA WriterStaysAlone ==
    ASSUME WriterAlone, \A u \in Threads : at'[u].write => at[u].write /\ at'[u].tile = at[u].tile
    PROVE  WriterAlone'
BY DEF WriterAlone

\* Who wrote alone still does.
LEMMA PenStays ==
    ASSUME Ordered, Ordered', Counted, Counted', NEW t \in Threads, PenRight(t),
           Continues(at[t], at'[t]),
           at[t].tile \in Tiles => TilesStay \/ TileStays(at[t].tile),
           at[t].pc = "writing" \/ owns(at[t]) => \A x \in TileData : x = at[t].td => UserStays(x)
    PROVE  PenRight(t)'
<1>1. Continues(at[t], at'[t]) /\ at'[t] \in AgentRecord /\ ThreadShape(at'[t])
  BY ThreadRecord DEF Ordered, Control, Agents
<1>2. /\ \A x \in TileData : UseCounted(x)'
      /\ HandKnown(t)' /\ PenKnown(t)'
  BY UsersNext
<1>3. ASSUME points(at'[t]) PROVE at'[t].td = tile'[at'[t].tile].m_tileData
  <2>1. at'[t].write /\ at'[t].tile \in Tiles
    BY <1>1, <1>3, WritersShape
  <2>2. at'[t].tile = at[t].tile /\ points(at[t]) /\ at'[t].td = at[t].td
    BY <1>1, <1>3, <2>1 DEF Continues
  <2>3. at[t].td = tile[at[t].tile].m_tileData
    BY <2>2 DEF PenRight
  <2>4. TileStays(at[t].tile)
    BY <2>1, <2>2 DEF TilesStay
  <2>5. QED
    BY <2>1, <2>2, <2>3, <2>4 DEF TileStays
<1>4. ASSUME at'[t].pc = "writing" \/ owns(at'[t]) PROVE td'[at'[t].td].m_usersCount = 1
  <2>1. (points(at'[t]) \/ holds(at'[t])) /\ (at[t].pc = "writing" \/ owns(at[t])) /\ at'[t].td = at[t].td
    BY <1>1, <1>4, WritersShape DEF Continues
  <2>2. at'[t].td \in TileData
    BY <1>2, <2>1 DEF HandKnown, PenKnown
  <2>3. PICK x \in TileData : x = at'[t].td
    BY <2>2
  <2>4. td[x].m_usersCount = 1
    BY <2>1, <2>3 DEF PenRight
  <2>5. td'[x].m_usersCount # 0 /\ td'[x].m_usersCount \in Nat
    <3>1. showing(x)' # {} \/ owning(x)' # {}
      <4>1. CASE owns(at'[t])
        BY <1>1, <1>2, <2>3, <4>1, WritersShape DEF HandKnown
      <4>2. CASE at'[t].pc = "writing"
        BY <1>1, <1>2, <1>3, <2>3, <4>2, WritersShape DEF PenKnown
      <4>3. QED
        BY <1>4, <4>1, <4>2
    <3>2. QED
      BY <1>2, <3>1 DEF UseCounted
  <2>6. UserStays(x)
    BY <2>1, <2>3
  <2>7. ~(td'[x].m_usersCount > 1)
    BY <2>4, <2>6 DEF UserStays
  <2>8. QED
    BY <2>3, <2>5, <2>7
<1>5. QED
  BY <1>3, <1>4 DEF PenRight

\* Who was about to copy is still about to.
LEMMA CloningStays ==
    ASSUME Ordered', TilesStay, NEW t \in Threads, Continues(at[t], at'[t]), NEW x \in TileData,
           cloning(t, x)'
    PROVE  cloning(t, x)
<1>1. at'[t].pc = "clone" /\ tile'[at'[t].tile].m_tileData = x
  BY DEF cloning
<1>2. at'[t].tile \in Tiles
  <2>1. at'[t] \in AgentRecord /\ ThreadShape(at'[t])
    BY DEF Ordered, Control, Agents
  <2>2. QED
    BY <1>1, <2>1, WritersShape
<1>3. at'[t].tile = at[t].tile /\ at[t].pc = "clone"
  BY <1>1 DEF Continues
<1>4. tile'[at[t].tile].m_tileData = tile[at[t].tile].m_tileData
  BY <1>2, <1>3 DEF TilesStay, TileStays
<1>5. QED
  BY <1>1, <1>3, <1>4 DEF cloning

\* Clones stay fresh.
LEMMA FreshStays ==
    ASSUME Fresh, ClonesStay, raced => raced' = TRUE,
           \A x \in TileData : \A t \in Threads :
                cloning(t, x)' => cloning(t, x) \/ td[x].m_usersCount > 1
    PROVE  Fresh'
<1> SUFFICES ASSUME NEW x \in TileData, ~raced',
                    td'[x].m_usersCount > 1 \/ \E t \in Threads : cloning(t, x)',
                    NEW i \in DOMAIN td'[x].m_clonesStack
             PROVE  td'[x].m_clonesStack[i] = td'[x].m_data
  BY DEF Fresh, ClonesStay
<1>1. DOMAIN <<>> = {}
  OBVIOUS
<1>2. td'[x].m_usersCount > 1 => td[x].m_usersCount > 1
  BY <1>1 DEF ClonesStay, UserStays
<1>3. td[x].m_usersCount > 1 \/ \E t \in Threads : cloning(t, x)
  BY <1>2
<1>4. td[x].m_clonesStack[i] = td[x].m_data
  BY <1>3 DEF Fresh, ClonesStay
<1>5. QED
  BY <1>4 DEF ClonesStay

\* A memento item has data.
LEMMA ItemData ==
    ASSUME Ordered, NEW i \in DOMAIN items
    PROVE  items[i].td \in TileData /\ items[i].expected \in SUBSET (1..MaxWrites)
<1>1. PICK S : S = [td : TileData, expected : SUBSET (1..MaxWrites)]
  OBVIOUS
<1>2. items \in Seq(S)
  BY <1>1 DEF Ordered, ItemsTyped
<1>3. items[i] \in S
  BY <1>2
<1>4. QED
  BY <1>1, <1>3

\* A copy in the making keeps its pixels.
LEMMA HandStays ==
    ASSUME Ordered, Ordered', Counted, Counted', raced => raced' = TRUE,
           NEW t \in Threads, HandRight(t), Continues(at[t], at'[t]),
           at[t].tile \in Tiles => TilesStay \/ tile'[at[t].tile].expected = tile[at[t].tile].expected,
           \A x \in TileData : x = at[t].td => ImageStays(x)
    PROVE  HandRight(t)'
<1> SUFFICES ASSUME holds(at'[t]), ~raced'
             PROVE  contents(at[t].td)' = tile'[at'[t].tile].expected
  BY DEF HandRight
<1>1. HandKnown(t) /\ HandKnown(t)'
  BY HeldData, UsersNext
<1>2. /\ holds(at[t]) /\ at'[t].td = at[t].td /\ at'[t].tile = at[t].tile
      /\ at[t].td \in TileData /\ at[t].tile \in Tiles
      /\ td[at[t].td].exists = TRUE /\ td'[at[t].td].exists = TRUE
  BY <1>1 DEF Continues, HandKnown
<1>3. contents(at[t].td) = tile[at[t].tile].expected
  BY <1>2 DEF HandRight
<1>4. contents(at[t].td)' = contents(at[t].td)
  <2>1. PICK x \in TileData : x = at[t].td
    BY <1>2
  <2>2. contents(x)' = contents(x)
    BY <1>2, <2>1 DEF ImageStays
  <2>3. at'[t].td = x
    BY <1>2, <2>1
  <2>4. contents(at[t].td)' = contents(x)'
    BY <2>3 DEF contents, loaded, stored
  <2>5. QED
    BY <2>1, <2>2, <2>4
<1>5. tile'[at[t].tile].expected = tile[at[t].tile].expected
  BY <1>2 DEF TilesStay, TileStays
<1>6. QED
  BY <1>2, <1>3, <1>4, <1>5

\* A tile shows what was written to it.
TileRight(y) ==
    tile[y].m_tileData # NoTileData /\ ~raced => contents(tile[y].m_tileData) = tile[y].expected

\* ... and still does when neither the tile nor its data changes.
LEMMA TileStaysRight ==
    ASSUME Ordered, Counted, Counted', Ordered', raced => raced' = TRUE, NEW y \in Tiles,
           TileRight(y), TileStays(y),
           \A x \in TileData : x = tile[y].m_tileData => ImageStays(x)
    PROVE  TileRight(y)'
<1> SUFFICES ASSUME tile'[y].m_tileData # NoTileData, ~raced'
             PROVE  contents(tile[y].m_tileData)' = tile'[y].expected
  BY DEF TileRight
<1>1. tile'[y].m_tileData = tile[y].m_tileData /\ tile'[y].expected = tile[y].expected
  BY DEF TileStays
<1>2. PICK x \in TileData : x = tile[y].m_tileData
  <2>1. tile[y] \in KisTile
    BY DEF Ordered, TilesLocked
  <2>2. QED
    BY <1>1, <2>1 DEF KisTile
<1>3. y \in showing(x) /\ y \in showing(x)'
  BY <1>1, <1>2 DEF showing
<1>4. td[x].exists = TRUE /\ td'[x].exists = TRUE
  BY <1>3, UsesCounted, UsersNext DEF UseCounted
<1>5. contents(x)' = contents(x) /\ contents(x) = tile[y].expected
  BY <1>1, <1>2, <1>4 DEF ImageStays, TileRight
<1>6. tile'[y].m_tileData = x
  BY <1>1, <1>2
<1>7. contents(tile[y].m_tileData)' = contents(x)'
  BY <1>6 DEF contents, loaded, stored
<1>8. QED
  BY <1>1, <1>5, <1>7

\* Every tile shows what was written to it.
LEMMA TilesStayRight ==
    ASSUME Ordered, Ordered', Counted, Counted', raced => raced' = TRUE,
           TilesKeepTheirPixels, TilesStay, ImagesStay
    PROVE  TilesKeepTheirPixels'
<1> SUFFICES ASSUME NEW y \in Tiles PROVE TileRight(y)'
  BY DEF TilesKeepTheirPixels, TileRight
<1>1. TileRight(y)
  BY DEF TilesKeepTheirPixels, TileRight
<1>2. CASE TileStays(y)
  BY <1>1, <1>2, TileStaysRight DEF ImagesStay
<1>3. CASE tile'[y].m_tileData = NoTileData
  BY <1>3 DEF TileRight
<1>4. QED
  BY <1>2, <1>3 DEF TilesStay

\* A memento item shows the image of its commit.
ItemRight(i) == ~raced => contents(items[i].td) = items[i].expected

\* ... and still does when its data stays what it is.
LEMMA ItemStaysRight ==
    ASSUME Ordered, Ordered', Counted, Counted', raced => raced' = TRUE, HistoryKeepsItsPixels,
           NEW i \in DOMAIN items', NEW j \in DOMAIN items, items'[i] = items[j],
           \A x \in TileData : x = items[j].td => ImageStays(x)
    PROVE  ItemRight(i)'
<1> SUFFICES ASSUME ~raced'
             PROVE  contents(items[i].td)' = items'[i].expected
  BY DEF ItemRight
<1>1. PICK x \in TileData : x = items[j].td
  BY ItemData
<1>2. j \in kept(x) /\ i \in kept(x)'
  BY <1>1 DEF kept
<1>3. td[x].exists = TRUE /\ td'[x].exists = TRUE
  BY <1>2, UsesCounted, UsersNext DEF UseCounted
<1>4. contents(x)' = contents(x) /\ contents(x) = items[j].expected
  <2>1. contents(x)' = contents(x)
    BY <1>1, <1>3 DEF ImageStays
  <2>2. contents(items[j].td) = items[j].expected
    BY DEF HistoryKeepsItsPixels
  <2>3. QED
    BY <1>1, <2>1, <2>2
<1>5. items'[i].td = x /\ items'[i].expected = items[j].expected
  BY <1>1
<1>6. contents(items[i].td)' = contents(x)'
  BY <1>5 DEF contents, loaded, stored
<1>7. QED
  BY <1>4, <1>5, <1>6

\* Every memento item shows the image of its commit.
LEMMA ItemsStayRight ==
    ASSUME Ordered, Ordered', Counted, Counted', raced => raced' = TRUE,
           HistoryKeepsItsPixels, ItemsStay, ImagesStay
    PROVE  HistoryKeepsItsPixels'
<1> SUFFICES ASSUME NEW i \in DOMAIN items' PROVE ItemRight(i)'
  BY DEF HistoryKeepsItsPixels, ItemRight
<1>1. PICK j \in DOMAIN items : items'[i] = items[j]
  BY DEF ItemsStay
<1>2. QED
  BY <1>1, ItemStaysRight DEF ImagesStay

\* All of it: a step after which nobody has more than before.
LEMMA PaintedContinues ==
    ASSUME Store, Store', Painted, \A u \in Threads : Continues(at[u], at'[u]),
           OneWriter => WriterAlone', TilesStay, OneWriter => PixelsStay,
           ItemsStay, raced' = raced
    PROVE  Painted'
<1> SUFFICES ASSUME OneWriter
             PROVE  Pens' /\ Fresh' /\ Hands' /\ TilesKeepTheirPixels' /\ HistoryKeepsItsPixels'
  BY DEF Painted
<1>1. /\ Pens /\ Fresh /\ Hands /\ TilesKeepTheirPixels /\ HistoryKeepsItsPixels
      /\ UsersStay /\ ClonesStay /\ ImagesStay /\ (raced => raced' = TRUE)
  BY DEF Painted, PixelsStay
<1>2. Ordered /\ Ordered' /\ Counted /\ Counted'
  BY DEF Store
<1>3. Pens'
  <2>1. ASSUME NEW u \in Threads PROVE PenRight(u)'
    BY <1>1, <1>2, PenStays DEF Pens, UsersStay
  <2>2. QED
    BY <2>1 DEF Pens
<1>4. Fresh'
  BY <1>1, <1>2, CloningStays, FreshStays
<1>5. Hands'
  <2>1. ASSUME NEW u \in Threads PROVE HandRight(u)'
    BY <1>1, <1>2, HandStays DEF Hands, ImagesStay
  <2>2. QED
    BY <2>1 DEF Hands
<1>6. QED
  BY <1>1, <1>2, <1>3, <1>4, <1>5, TilesStayRight, ItemsStayRight

\* ... and nobody comes to lock a tile for writing.
LEMMA PaintedStays ==
    ASSUME Store, Store', Painted, \A u \in Threads : Follows(at[u], at'[u]),
           TilesStay, OneWriter => PixelsStay, ItemsStay, raced' = raced
    PROVE  Painted'
<1>1. OneWriter => WriterAlone'
  BY WriterStaysAlone DEF Painted, Follows
<1>2. QED
  BY <1>1, PaintedContinues DEF Follows

\* A step of one thread.
LEMMA OneFollows ==
    ASSUME Ordered, NEW t \in Threads, NEW s, Moves(t, s), Follows(at[t], s)
    PROVE  \A u \in Threads : Follows(at[u], at'[u])
<1> SUFFICES ASSUME NEW u \in Threads PROVE Follows(at[u], at'[u])
  OBVIOUS
<1>1. CASE u = t
  BY <1>1 DEF Moves
<1>2. CASE u # t
  <2>1. at'[u] = at[u]
    BY <1>2 DEF Moves, Agents
  <2>2. QED
    BY <2>1 DEF Follows, Continues
<1>3. QED
  BY <1>1, <1>2

\* A thread that neither writes, nor holds a copy, nor is about to.
LEMMA IdleFollows ==
    ASSUME NEW r, NEW s \in AgentRecord, ThreadShape(s), ~s.write
    PROVE  Follows(r, s)
BY WritersShape DEF Follows, Continues

\* A thread that does not leave its tile and comes no closer to writing to it.
LEMMA SameFollows ==
    ASSUME NEW r \in AgentRecord, NEW s \in AgentRecord, ThreadShape(r), ThreadShape(s),
           s.tile = r.tile, s.write = r.write,
           \/ where(s) \notin {"clone", "register", "blockNew", "install", "writing", "wrote"} /\ ~owns(s)
           \/ where(s) = where(r) /\ s.td = r.td /\ (loads(s) => s.next = r.next)
           \/ owns(r) /\ owns(s) /\ s.td = r.td
    PROVE  Follows(r, s)
BY DEF Follows, Continues, AgentRecord, ThreadShape, where, loads, holds, owns, makes, copies, frees, points,
       SwapLabels, LoadLabels, CopyLabels

-------------------------------------------------------------------------------
(***************************************************************************)
(* The steps that move no pixels.                                          *)
(***************************************************************************)
\* The store of tile data with other locks and flags, and no more users.
Alike(objects) ==
    /\ objects \in [TileData -> Object]
    /\ \A x \in TileData :
        /\ objects[x].exists = td[x].exists
        /\ objects[x].m_data = td[x].m_data
        /\ objects[x].m_swapChunk = td[x].m_swapChunk
        /\ objects[x].m_clonesStack = td[x].m_clonesStack
        /\ objects[x].m_usersCount <= td[x].m_usersCount

\* The store is like itself.
LEMMA AlikeItself ==
    ASSUME Placed
    PROVE  Alike(td)
<1>1. td \in [TileData -> Object]
  BY DEF Placed, ObjectsTyped
<1>2. \A x \in TileData : td[x].m_usersCount \in Int
  BY <1>1 DEF Object
<1>3. QED
  BY <1>1, <1>2 DEF Alike

\* One object changes.
LEMMA AlikeObject ==
    ASSUME NEW objects, Alike(objects), NEW x \in TileData, NEW r \in Object,
           r.exists = objects[x].exists, r.m_data = objects[x].m_data,
           r.m_swapChunk = objects[x].m_swapChunk, r.m_clonesStack = objects[x].m_clonesStack,
           r.m_usersCount <= objects[x].m_usersCount, td[x].m_usersCount \in Int,
           NEW changed, changed = [objects EXCEPT ![x] = r]
    PROVE  Alike(changed)
<1>1. /\ changed \in [TileData -> Object] /\ changed[x] = r
      /\ \A w \in TileData : w # x => changed[w] = objects[w]
  BY DEF Alike
<1>2. changed[x].m_usersCount <= td[x].m_usersCount
  <2>1. objects[x].m_usersCount <= td[x].m_usersCount /\ objects[x].m_usersCount \in Int /\ r.m_usersCount \in Int
    BY DEF Alike, Object
  <2>2. QED
    BY <1>1, <2>1
<1>3. QED
  BY <1>1, <1>2 DEF Alike

\* A read lock is taken or given back, a memento item or a reference comes or goes.
LEMMA AlikeLocked ==
    ASSUME Placed, NEW objects, Alike(objects), NEW x \in TileData, NEW n \in Int, NEW changed,
           \/ changed = [objects EXCEPT ![x].readers = n]
           \/ changed = [objects EXCEPT ![x].m_mementoFlag = n]
           \/ changed = [objects EXCEPT ![x].m_refCount = n]
    PROVE  Alike(changed)
<1>1. objects[x] \in Object /\ objects \in [TileData -> Object] /\ td[x].m_usersCount \in Int
  BY DEF Alike, Placed, ObjectsTyped, Object
<1>3. PICK r : /\ \/ r = [objects[x] EXCEPT !.readers = n]
                  \/ r = [objects[x] EXCEPT !.m_mementoFlag = n]
                  \/ r = [objects[x] EXCEPT !.m_refCount = n]
               /\ changed = [objects EXCEPT ![x] = r]
  BY <1>1
<1>4. /\ r \in Object /\ r.exists = objects[x].exists /\ r.m_data = objects[x].m_data
      /\ r.m_swapChunk = objects[x].m_swapChunk /\ r.m_clonesStack = objects[x].m_clonesStack
      /\ r.m_usersCount = objects[x].m_usersCount
  BY <1>1, <1>3 DEF Object
<1>5. r.m_usersCount <= objects[x].m_usersCount
  BY <1>1, <1>4 DEF Object
<1>6. QED
  BY <1>1, <1>3, <1>4, <1>5, AlikeObject

\* A user goes.
LEMMA AlikeReleased ==
    ASSUME Placed, NEW objects, Alike(objects), NEW x \in TileData, NEW changed, changed = released(objects, x)
    PROVE  Alike(changed)
<1>1. objects[x] \in Object /\ objects \in [TileData -> Object] /\ td[x].m_usersCount \in Int
  BY DEF Alike, Placed, ObjectsTyped, Object
<1>2. objects[x].m_usersCount - 1 \in Int /\ objects[x].m_refCount - 1 \in Int
  BY <1>1 DEF Object
<1>3. PICK r : r = [objects[x] EXCEPT !.m_usersCount = @ - 1, !.m_refCount = @ - 1]
  OBVIOUS
<1>4. /\ r \in Object /\ r.exists = objects[x].exists /\ r.m_data = objects[x].m_data
      /\ r.m_swapChunk = objects[x].m_swapChunk /\ r.m_clonesStack = objects[x].m_clonesStack
      /\ r.m_usersCount = objects[x].m_usersCount - 1
  BY <1>1, <1>2, <1>3 DEF Object
<1>5. r.m_usersCount <= objects[x].m_usersCount
  BY <1>1, <1>4 DEF Object
<1>6. changed = [objects EXCEPT ![x] = r]
  BY <1>1, <1>3 DEF released
<1>7. QED
  BY <1>1, <1>4, <1>5, <1>6, AlikeObject

\* Nothing moves in the file.
LEMMA ContentsSame ==
    ASSUME NEW x, td'[x].m_data = td[x].m_data, td'[x].m_swapChunk = td[x].m_swapChunk,
           UNCHANGED swapVars
    PROVE  contents(x)' = contents(x) /\ (loaded(x)' <=> loaded(x))
BY DEF contents, loaded, stored, swapVars, allocatorVars

\* The locks, the users and the flags of tile data say nothing about its pixels.
LEMMA AlikeStays ==
    ASSUME Placed, Fresh, Alike(td'), UNCHANGED swapVars
    PROVE  PixelsStay
<1>1. ASSUME NEW x \in TileData PROVE contents(x)' = contents(x) /\ (loaded(x)' <=> loaded(x))
  BY ContentsSame DEF Alike
<1>2. ASSUME NEW x \in TileData PROVE UserStays(x)
  <2>1. td'[x].m_usersCount \in Int /\ td[x].m_usersCount \in Int
        /\ td'[x].m_usersCount <= td[x].m_usersCount
    BY DEF Alike, Placed, ObjectsTyped, Object
  <2>2. QED
    BY <2>1 DEF UserStays
<1>3. ClonesStay
  BY <1>1, <1>2 DEF Alike, ClonesStay, Fresh
<1>4. QED
  BY <1>1, <1>2, <1>3 DEF ImagesStay, ImageStays, UsersStay, PixelsStay

\* A step of one thread that moves no pixels.
LEMMA PaintedQuietly ==
    ASSUME Store, Store', Painted, NEW t \in Threads, NEW s, Moves(t, s), Follows(at[t], s),
           TilesStay, Alike(td'), UNCHANGED swapVars, ItemsStay, raced' = raced
    PROVE  Painted'
<1>1. \A u \in Threads : Follows(at[u], at'[u])
  BY OneFollows DEF Store
<1>2. OneWriter => PixelsStay
  BY AlikeStays DEF Painted, Store
<1>3. QED
  BY <1>1, <1>2, PaintedStays

\* After the step of one thread.
LEMMA Stepped ==
    ASSUME Store, Store', NEW t \in Threads, NEW s, at' = [at EXCEPT ![t] = s]
    PROVE  /\ Moves(t, s) /\ s \in AgentRecord /\ ThreadShape(s)
           /\ at[t] \in AgentRecord /\ ThreadShape(at[t])
<1>1. at \in [Agents -> AgentRecord] /\ t \in Agents /\ at[t] \in AgentRecord /\ ThreadShape(at[t])
  BY ThreadRecord DEF Store
<1>2. Moves(t, s)
  BY <1>1 DEF Moves
<1>3. at'[t] \in AgentRecord /\ ThreadShape(at'[t])
  BY <1>1 DEF Store, Ordered, Control
<1>4. QED
  BY <1>1, <1>2, <1>3 DEF Moves

\* What stays when nothing of it changes.
LEMMA TilesUntouched ==
    ASSUME UNCHANGED tile
    PROVE  TilesStay
BY DEF TilesStay, TileStays

\* ... of the memento items.
LEMMA ItemsUntouched ==
    ASSUME UNCHANGED items
    PROVE  ItemsStay
BY DEF ItemsStay

\* ... of the tile data.
LEMMA StoreUntouched ==
    ASSUME Placed, UNCHANGED td
    PROVE  Alike(td')
BY AlikeItself

\* Outside of these labels a thread writes nothing.
LEMMA RestingShape ==
    ASSUME NEW s \in AgentRecord, ThreadShape(s), s.pc \in {"idle", "reading", "free", "releaseOld"}
    PROVE  ~s.write
BY DEF AgentRecord, ThreadShape, where, loads, owns, copies, frees, points, SwapLabels, LoadLabels, CopyLabels

\* ensureTileDataLoaded() with the data in memory, and up to the write lock.
LEMMA LoadingPainted ==
    ASSUME Store, Store', Painted, NEW t \in Threads, lockLoaded(t) \/ findSwappedOut(t) \/ lockList(t)
    PROVE  Painted'
<1>1. at[t] \in AgentRecord /\ ThreadShape(at[t]) /\ at[t].pc \in LoadLabels /\ Placed
  BY ThreadRecord DEF Store, lockLoaded, findSwappedOut, lockList, LoadLabels
<1>2. ItemsStay /\ UNCHANGED swapVars /\ raced' = raced
  BY ItemsUntouched DEF lockLoaded, findSwappedOut, lockList, history
<1>3. CASE lockLoaded(t)
  <2>1. PICK s : s = [at[t] EXCEPT !.pc = at[t].next, !.loading = NoTileData, !.next = "idle"]
    OBVIOUS
  <2>2. at' = [at EXCEPT ![t] = s] /\ at[t].pc = "load"
    BY <1>3, <2>1 DEF lockLoaded
  <2>3. Moves(t, s) /\ s \in AgentRecord /\ ThreadShape(s)
    BY <2>2, Stepped
  <2>4. /\ where(s) = at[t].next /\ where(s) \in {"checkCOW", "reading", "install"}
        /\ s.tile = at[t].tile /\ s.td = at[t].td /\ s.write = at[t].write
    BY <1>1, <2>1, <2>2, LoadedStep
  <2>5. Follows(at[t], s)
    <3>1. where(s) = "install" => owns(s) /\ owns(at[t])
      BY <1>1, <2>2, <2>4 DEF owns, loads, where, LoadLabels, SwapLabels
    <3>2. where(s) # "install" => ~owns(s)
      BY <2>4 DEF owns, loads, LoadLabels
    <3>3. QED
      BY <1>1, <2>3, <2>4, <3>1, <3>2, SameFollows
  <2>6. TilesStay
    <3>1. tile' = [x \in Tiles |-> [tile[x] EXCEPT !.m_swapBarrierLock = IF @ = t THEN NoOne ELSE @]]
      BY <1>3 DEF lockLoaded, releaseBarrier
    <3>2. \A x \in Tiles : tile[x] \in KisTile
      BY DEF Store, Ordered, TilesLocked
    <3>3. QED
      BY <3>1, <3>2 DEF TilesStay, TileStays, KisTile
  <2>7. Alike(td')
    <3>1. at[t].loading \in TileData
      BY <1>1, <2>2 DEF AgentRecord, ThreadShape, loads, where, LoadLabels, SwapLabels
    <3>2. PICK x \in TileData : x = at[t].loading
      BY <3>1
    <3>3. td' = [td EXCEPT ![x].readers = @ + 1]
      BY <1>3, <3>2 DEF lockLoaded
    <3>4. Alike(td)
      BY <1>1, AlikeItself
    <3>5. PICK n \in Int : n = td[x].readers + 1
      BY <3>4 DEF Alike, Object
    <3>6. td' = [td EXCEPT ![x].readers = n]
      BY <3>3, <3>5
    <3>7. QED
      BY <1>1, <3>4, <3>6, AlikeLocked
  <2>8. QED
    BY <1>2, <2>3, <2>5, <2>6, <2>7, PaintedQuietly
<1>4. CASE findSwappedOut(t) \/ lockList(t)
  <2>1. PICK pc \in LoadLabels : at' = [at EXCEPT ![t].pc = pc]
    BY <1>4 DEF findSwappedOut, lockList, goto, LoadLabels
  <2>2. PICK s : s = [at[t] EXCEPT !.pc = pc] /\ at' = [at EXCEPT ![t] = s]
    BY <2>1
  <2>3. Moves(t, s) /\ s \in AgentRecord /\ ThreadShape(s)
    BY <2>2, Stepped
  <2>4. /\ where(s) = pc /\ s.td = at[t].td /\ s.next = at[t].next
        /\ s.tile = at[t].tile /\ s.write = at[t].write
    BY <1>1, <2>2, LoadStep DEF SameRole
  <2>5. Follows(at[t], s)
    <3>1. owns(s) <=> owns(at[t])
      BY <1>1, <2>4 DEF owns, loads, where, LoadLabels, SwapLabels
    <3>2. where(s) \in LoadLabels
      BY <2>4
    <3>3. QED
      BY <1>1, <2>3, <2>4, <3>1, <3>2, SameFollows DEF LoadLabels
  <2>6. TilesStay /\ Alike(td')
    BY <1>1, <1>4, TilesUntouched, StoreUntouched DEF findSwappedOut, lockList
  <2>7. QED
    BY <1>2, <2>3, <2>5, <2>6, PaintedQuietly
<1>5. QED
  BY <1>3, <1>4

\* missClone() and blockNewTileData() make no data yet.
LEMMA BlockingPainted ==
    ASSUME Store, Store', Painted, NEW t \in Threads, missClone(t) \/ blockNewTileData(t)
    PROVE  Painted'
<1>1. at[t] \in AgentRecord /\ ThreadShape(at[t]) /\ at[t].pc \in CopyLabels /\ Placed
  BY ThreadRecord DEF Store, missClone, blockNewTileData, CopyLabels
<1>2. ItemsStay /\ TilesStay /\ UNCHANGED swapVars /\ raced' = raced
  BY ItemsUntouched, TilesUntouched DEF missClone, blockNewTileData, history
<1>3. PICK x, s :
        /\ x \in TileData
        /\ CopyMove(at[t], x, s) /\ at' = [at EXCEPT ![t] = s]
        /\ td' = td \/ td' = [td EXCEPT ![x].readers = @ + 1]
  <2>1. CASE missClone(t)
    <3>1. tile[at[t].tile].m_tileData \in TileData
      <4>1. at[t].tile # NoTile
        BY <1>1, <2>1 DEF missClone, ThreadShape, where, frees, SwapLabels
      <4>2. QED
        BY <4>1, UsedTile DEF Store
    <3>2. PICK x \in TileData : x = tile[at[t].tile].m_tileData
      BY <3>1
    <3>3. PICK s : s = checkFreeMemory([at[t] EXCEPT !.td = x], "copy")
      OBVIOUS
    <3>4. /\ at[t].pc = "clone" /\ at' = [at EXCEPT ![t] = s]
          /\ td' = [td EXCEPT ![x].readers = @ + 1]
      BY <2>1, <3>2, <3>3 DEF missClone
    <3>5. QED
      BY <3>3, <3>4 DEF CopyMove
  <2>2. CASE blockNewTileData(t)
    <3>1. PICK x \in TileData : x = at[t].td
      BY <1>1, <2>2 DEF blockNewTileData, ThreadShape, AgentRecord, where, owns, copies, SwapLabels, CopyLabels
    <3>2. PICK there : there = [at[t] EXCEPT !.pc = "install"]
      OBVIOUS
    <3>3. there.pc = "install"
      BY <1>1, <3>2 DEF AgentRecord
    <3>4. \/ at' = [at EXCEPT ![t] = there] /\ td' = [td EXCEPT ![x].readers = @ + 1]
          \/ /\ at' = [at EXCEPT ![t] = checkFreeMemory([there EXCEPT !.loading = x, !.next = "install"], "load")]
             /\ td' = td
      BY <2>2, <3>1, <3>2, <3>3 DEF blockNewTileData, blockSwapping
    <3>5. at[t].pc = "blockNew"
      BY <2>2 DEF blockNewTileData
    <3>6. QED
      BY <3>1, <3>2, <3>4, <3>5 DEF CopyMove
  <2>3. QED
    BY <2>1, <2>2
<1>4. Moves(t, s) /\ s \in AgentRecord /\ ThreadShape(s)
  BY <1>3, Stepped
<1>5. Follows(at[t], s)
  <2>1. at[t].pc \in {"clone", "blockNew"}
    BY DEF missClone, blockNewTileData
  <2>2. /\ s.tile = at[t].tile /\ s.write = at[t].write
        /\ at[t].pc = "clone" => where(s) \in {"copy", "register"}
        /\ at[t].pc = "blockNew" => where(s) \in {"install", "load"} /\ s.td = at[t].td
        /\ where(s) = "load" => s.next = "install"
    BY <1>1, <1>3, CopyStep DEF SameRole
  <2>3. CASE at[t].pc = "blockNew"
    <3>1. owns(at[t]) /\ owns(s)
      BY <2>2, <2>3 DEF owns, loads, where, LoadLabels, SwapLabels
    <3>2. QED
      BY <1>1, <1>4, <2>2, <2>3, <3>1, SameFollows
  <2>4. CASE at[t].pc = "clone"
    <3>1. missClone(t)
      BY <2>4 DEF blockNewTileData
    <3>2. PICK y : at' = [at EXCEPT ![t] = checkFreeMemory([at[t] EXCEPT !.td = y], "copy")]
      BY <3>1 DEF missClone
    <3>3. s = checkFreeMemory([at[t] EXCEPT !.td = y], "copy")
      <4>1. t \in Agents /\ at \in [Agents -> AgentRecord]
        BY ThreadRecord DEF Store
      <4>2. QED
        BY <1>3, <3>2, <4>1
    <3>4. s.pc \in {"cycle", "copy"}
      BY <1>1, <3>3 DEF checkFreeMemory, AgentRecord
    <3>5. where(s) = "copy"
      BY <1>4, <2>2, <2>4, <3>4 DEF where, SwapLabels, AgentRecord
    <3>6. ~owns(s)
      BY <3>5 DEF owns, loads, LoadLabels
    <3>7. QED
      BY <1>1, <1>4, <2>2, <3>5, <3>6, SameFollows
  <2>5. QED
    BY <2>1, <2>3, <2>4
<1>6. Alike(td')
  <2>1. Alike(td)
    BY <1>1, AlikeItself
  <2>2. x \in TileData
    BY <1>3
  <2>3. PICK n \in Int : n = td[x].readers + 1
    BY <2>1, <2>2 DEF Alike, Object
  <2>4. CASE td' = td
    BY <2>1, <2>4
  <2>5. CASE td' = [td EXCEPT ![x].readers = n]
    BY <1>1, <2>1, <2>2, <2>5, AlikeLocked
  <2>6. QED
    BY <1>3, <2>3, <2>4, <2>5
<1>7. QED
  BY <1>2, <1>4, <1>5, <1>6, PaintedQuietly

\* unlock(), with or without old data to release.
LEMMA UnlockPainted ==
    ASSUME Store, Store', Painted, NEW t \in Threads, unlockTile(t)
    PROVE  Painted'
<1>1. PICK s : /\ s \in {Idle, [Idle EXCEPT !.pc = "releaseOld", !.tile = at[t].tile]}
               /\ at' = [at EXCEPT ![t] = s]
  BY DEF unlockTile
<1>2. Moves(t, s) /\ s \in AgentRecord /\ ThreadShape(s)
  BY <1>1, Stepped
<1>3. Follows(at[t], s)
  <2>1. s.pc \in {"idle", "releaseOld"}
    <3>1. Idle.pc = "idle" /\ [Idle EXCEPT !.pc = "releaseOld", !.tile = at[t].tile].pc = "releaseOld"
      BY DEF Idle
    <3>2. QED
      BY <1>1, <3>1
  <2>2. QED
    BY <1>2, <2>1, RestingShape, IdleFollows
<1>4. PICK y \in Tiles : y = at[t].tile
  <2>1. at[t].tile # NoTile
    BY ThreadRecord DEF Store, unlockTile, ThreadShape, where, frees, SwapLabels
  <2>2. QED
    BY <2>1, UsedTile DEF Store
<1>5. TilesStay
  <2>1. \A z \in Tiles : tile[z] \in KisTile
    BY DEF Store, Ordered, TilesLocked
  <2>2. tile \in [Tiles -> KisTile]
    BY DEF Store, Ordered, TilesLocked
  <2>3. PICK owner : tile' = [tile EXCEPT ![y].m_lockCounter = @ - 1, ![y].m_swapBarrierLock = owner]
    BY <1>4 DEF unlockTile
  <2>4. QED
    BY <2>1, <2>2, <2>3 DEF TilesStay, TileStays, KisTile
<1>6. Alike(td')
  <2>1. PICK x : x = tile[y].m_tileData
    OBVIOUS
  <2>2. td' = td \/ td' = [td EXCEPT ![x].readers = @ - 1]
    BY <1>4, <2>1 DEF unlockTile, unblocked
  <2>3. x \in TileData
    <3>1. at[t].tile # NoTile
      BY <1>4, StoreAssumption
    <3>2. QED
      BY <1>4, <2>1, <3>1, UsedTile DEF Store
  <2>4. Alike(td)
    BY AlikeItself DEF Store
  <2>5. CASE td' = [td EXCEPT ![x].readers = @ - 1]
    <3>1. PICK n \in Int : n = td[x].readers - 1
      BY <2>3, <2>4 DEF Alike, Object
    <3>2. td' = [td EXCEPT ![x].readers = n]
      BY <2>5, <3>1
    <3>3. QED
      BY <2>3, <2>4, <3>2, AlikeLocked DEF Store
  <2>6. QED
    BY <2>2, <2>4, <2>5
<1>7. ItemsStay /\ UNCHANGED swapVars /\ raced' = raced
  BY ItemsUntouched DEF unlockTile, history
<1>8. QED
  BY <1>2, <1>3, <1>5, <1>6, <1>7, PaintedQuietly

\* Where release() takes a thread, it has nothing to write.
LEMMA ReleasedFollows ==
    ASSUME Store, Store', NEW t \in Threads, NEW s, at' = [at EXCEPT ![t] = s],
           NEW x, NEW y, NEW next \in {"idle", "releaseOld"},
           s \in {afterRelease(x, next), [afterRelease(x, next) EXCEPT !.tile = y]}
    PROVE  Moves(t, s) /\ Follows(at[t], s)
<1>1. Moves(t, s) /\ s \in AgentRecord /\ ThreadShape(s)
  BY Stepped
<1>2. s.pc \in {"free", "idle", "releaseOld"}
  BY DEF afterRelease, Idle
<1>3. QED
  BY <1>1, <1>2, RestingShape, IdleFollows

\* The history drops its oldest item.
LEMMA PurgePainted ==
    ASSUME Store, Store', Painted, NEW t \in Threads, purge(t)
    PROVE  Painted'
<1>1. 1 \in DOMAIN items /\ Head(items) = items[1] /\ items # <<>> /\ items' = Tail(items)
      /\ DOMAIN items' = 1..(Len(items) - 1) /\ DOMAIN items = 1..Len(items) /\ Len(items) \in Nat
      /\ \A k \in 1..(Len(items) - 1) : items'[k] = items[k + 1]
  BY Tails DEF purge, Store, Ordered, ItemsTyped
<1>2. PICK x \in TileData : x = Head(items).td
  BY <1>1, ItemData DEF Store
<1>3. PICK s : s = afterRelease(x, "idle")
  OBVIOUS
<1>4. Moves(t, s) /\ Follows(at[t], s)
  <2>1. at' = [at EXCEPT ![t] = s]
    BY <1>2, <1>3 DEF purge
  <2>2. QED
    BY <1>3, <2>1, ReleasedFollows
<1>5. Alike(td')
  <2>1. PICK objects : objects = [td EXCEPT ![x].m_mementoFlag = @ - 1]
    OBVIOUS
  <2>2. td' = released(objects, x)
    BY <1>2, <2>1 DEF purge
  <2>3. Alike(td)
    BY AlikeItself DEF Store
  <2>4. PICK n \in Int : n = td[x].m_mementoFlag - 1
    BY <2>3 DEF Alike, Object
  <2>5. Alike(objects)
    <3>1. objects = [td EXCEPT ![x].m_mementoFlag = n]
      BY <2>1, <2>4
    <3>2. QED
      BY <2>3, <3>1, AlikeLocked DEF Store
  <2>6. QED
    BY <2>2, <2>5, AlikeReleased DEF Store
<1>6. ItemsStay
  <2>1. ASSUME NEW k \in DOMAIN items' PROVE \E j \in DOMAIN items : items'[k] = items[j]
    <3>1. k + 1 \in DOMAIN items
      BY <1>1
    <3>2. QED
      BY <1>1, <3>1
  <2>2. QED
    BY <2>1 DEF ItemsStay
<1>7. TilesStay /\ UNCHANGED swapVars /\ raced' = raced
  BY TilesUntouched DEF purge, history
<1>8. QED
  BY <1>4, <1>5, <1>6, <1>7, PaintedQuietly

\* A copy of a tile is dropped.
LEMMA DropPainted ==
    ASSUME Store, Store', Painted, NEW t \in Threads, NEW y \in Copies, dropTile(t, y)
    PROVE  Painted'
<1>1. PICK x \in TileData : x = tile[y].m_tileData
  <2>1. y \in Tiles /\ tile[y] \in KisTile
    BY StoreAssumption DEF Store, Ordered, TilesLocked
  <2>2. QED
    BY <2>1 DEF dropTile, KisTile
<1>2. PICK s : s = afterRelease(x, "idle")
  OBVIOUS
<1>3. Moves(t, s) /\ Follows(at[t], s)
  <2>1. at' = [at EXCEPT ![t] = s]
    BY <1>1, <1>2 DEF dropTile
  <2>2. QED
    BY <1>2, <2>1, ReleasedFollows
<1>4. Alike(td')
  <2>1. td' = released(td, x)
    BY <1>1 DEF dropTile
  <2>2. QED
    BY <2>1, AlikeItself, AlikeReleased DEF Store
<1>5. TilesStay
  <2>1. tile \in [Tiles -> KisTile] /\ y \in Tiles
    BY StoreAssumption DEF Store, Ordered, TilesLocked
  <2>2. tile' = [tile EXCEPT ![y] = NewTile(NoTileData, {})] /\ \A u \in Threads : at[u].tile # y
    BY DEF dropTile
  <2>3. NewTile(NoTileData, {}).m_tileData = NoTileData
    BY DEF NewTile
  <2>4. QED
    BY <2>1, <2>2, <2>3 DEF TilesStay, TileStays
<1>6. ItemsStay /\ UNCHANGED swapVars /\ raced' = raced
  BY ItemsUntouched DEF dropTile, history
<1>7. QED
  BY <1>3, <1>4, <1>5, <1>6, PaintedQuietly

\* The last user of a tile releases its old data.
LEMMA ReleaseOldPainted ==
    ASSUME Store, Store', Painted, NEW t \in Threads, releaseOldTileData(t)
    PROVE  Painted'
<1>1. PICK y \in Tiles : y = at[t].tile
  <2>1. at[t].tile # NoTile
    BY ThreadRecord DEF Store, releaseOldTileData, ThreadShape, where, frees, SwapLabels
  <2>2. QED
    BY <2>1, UsedTile DEF Store
<1>2. tile \in [Tiles -> KisTile] /\ tile[y] \in KisTile /\ Alike(td)
  BY AlikeItself DEF Store, Ordered, TilesLocked
<1>3. PICK old \in Seq(TileData) : old = tile[y].m_oldTileData
  BY <1>2 DEF KisTile
<1>4. ItemsStay /\ UNCHANGED swapVars /\ raced' = raced
  BY ItemsUntouched DEF releaseOldTileData, history
<1>5. CASE old = <<>>
  <2>1. at' = [at EXCEPT ![t] = Idle] /\ tile' = [tile EXCEPT ![y].m_swapBarrierLock = NoOne] /\ td' = td
    BY <1>1, <1>3, <1>5 DEF releaseOldTileData
  <2>2. Moves(t, Idle) /\ Follows(at[t], Idle)
    <3>1. Idle.pc = "idle"
      BY DEF Idle
    <3>2. QED
      BY <2>1, <3>1, Stepped, RestingShape, IdleFollows
  <2>3. TilesStay
    BY <1>2, <2>1 DEF TilesStay, TileStays, KisTile
  <2>4. QED
    BY <1>2, <1>4, <2>1, <2>2, <2>3, PaintedQuietly
<1>6. CASE old # <<>>
  <2>1. PICK x \in TileData : x = Head(old)
    BY <1>6
  <2>2. PICK s : s = [afterRelease(x, "releaseOld") EXCEPT !.tile = y]
    OBVIOUS
  <2>3. /\ at' = [at EXCEPT ![t] = s]
        /\ tile' = [tile EXCEPT ![y].m_oldTileData = Tail(@)]
        /\ td' = released(unblocked(td, x), x)
    BY <1>1, <1>3, <1>6, <2>1, <2>2 DEF releaseOldTileData
  <2>4. Moves(t, s) /\ Follows(at[t], s)
    BY <2>2, <2>3, ReleasedFollows
  <2>5. Alike(td')
    <3>1. PICK n \in Int : n = td[x].readers - 1
      BY <1>2 DEF Alike, Object
    <3>2. unblocked(td, x) = [td EXCEPT ![x].readers = n]
      BY <3>1 DEF unblocked
    <3>3. Alike(unblocked(td, x))
      BY <1>2, <3>2, AlikeLocked DEF Store
    <3>4. QED
      BY <2>3, <3>3, AlikeReleased DEF Store
  <2>6. TilesStay
    BY <1>2, <2>3 DEF TilesStay, TileStays, KisTile
  <2>7. QED
    BY <1>4, <2>4, <2>5, <2>6, PaintedQuietly
<1>7. QED
  BY <1>5, <1>6

\* Who enters a tile has no data of its own yet.
LEMMA EnteredContinues ==
    ASSUME NEW r, NEW y, NEW write, NEW s, Entered(s, y, write)
    PROVE  Continues(r, s)
BY DEF Entered, Continues, ThreadShape, AgentRecord, where, loads, holds, owns, makes, copies, points,
       SwapLabels, LoadLabels, CopyLabels

\* lockForRead() and lockForWrite(): a second writer does not come.
LEMMA LockTilePainted ==
    ASSUME Store, Store', Painted, NEW t \in Threads, NEW y \in Tiles, NEW write \in BOOLEAN,
           lockTile(t, y, write)
    PROVE  Painted'
<1>1. tile \in [Tiles -> KisTile] /\ tile[y] \in KisTile /\ Alike(td)
  BY AlikeItself DEF Store, Ordered, TilesLocked
<1>2. PICK x \in TileData : x = tile[y].m_tileData
  BY <1>1 DEF lockTile, KisTile
<1>3. PICK s : /\ s \in {waitingFor(y, write, x), entering(y, write)}
               /\ at' = [at EXCEPT ![t] = s]
               /\ td' = td \/ td' = [td EXCEPT ![x].readers = @ + 1]
  <2>1. IF tile[y].m_lockCounter = 0
        THEN blockSwapping(t, x, entering(y, write))
        ELSE at' = [at EXCEPT ![t] = entering(y, write)] /\ UNCHANGED td
    BY <1>2 DEF lockTile, entering
  <2>2. CASE tile[y].m_lockCounter = 0 /\ ~loaded(x)
    BY <2>1, <2>2 DEF blockSwapping, waitingFor
  <2>3. CASE tile[y].m_lockCounter = 0 /\ loaded(x)
    BY <2>1, <2>3 DEF blockSwapping
  <2>4. CASE tile[y].m_lockCounter # 0
    BY <2>1, <2>4
  <2>5. QED
    BY <2>2, <2>3, <2>4
<1>4. Entered(s, y, write)
  BY <1>3, EnteredStep
<1>5. Moves(t, s)
  BY <1>3, Stepped
<1>6. \A u \in Threads : u # t => at'[u] = at[u]
  BY <1>5 DEF Moves, Agents
<1>7. \A u \in Threads : Continues(at[u], at'[u])
  <2>1. Continues(at[t], at'[t])
    BY <1>4, <1>5, EnteredContinues DEF Moves
  <2>2. \A u \in Threads : Continues(at[u], at[u])
    BY DEF Continues
  <2>3. QED
    BY <1>6, <2>1, <2>2
<1>8. ASSUME OneWriter PROVE WriterAlone'
  <2>1. WriterAlone /\ (write => writers(y) = {})
    BY <1>8 DEF Painted, lockTile
  <2>2. at'[t].write = write /\ at'[t].tile = y
    BY <1>4, <1>5 DEF Moves, Entered
  <2>3. write => \A u \in Threads : u # t => ~(at'[u].write /\ at'[u].tile = y)
    BY <1>6, <2>1 DEF writers
  <2>4. QED
    BY <1>6, <2>1, <2>2, <2>3 DEF WriterAlone
<1>9. TilesStay
  <2>1. PICK owner : tile' = [tile EXCEPT ![y].m_lockCounter = @ + 1, ![y].m_swapBarrierLock = owner]
    BY DEF lockTile
  <2>2. QED
    BY <1>1, <2>1 DEF TilesStay, TileStays, KisTile
<1>10. Alike(td')
  <2>1. PICK n \in Int : n = td[x].readers + 1
    BY <1>1 DEF Alike, Object
  <2>2. CASE td' = td
    BY <1>1, <2>2
  <2>3. CASE td' = [td EXCEPT ![x].readers = n]
    BY <1>1, <2>3, AlikeLocked DEF Store
  <2>4. QED
    BY <1>3, <2>1, <2>2, <2>3
<1>11. ItemsStay /\ UNCHANGED swapVars /\ raced' = raced
  BY ItemsUntouched DEF lockTile, history
<1>12. OneWriter => PixelsStay
  BY <1>10, <1>11, AlikeStays DEF Painted, Store
<1>13. QED
  BY <1>7, <1>8, <1>9, <1>11, <1>12, PaintedContinues

-------------------------------------------------------------------------------
(***************************************************************************)
(* Swapping: the pixels change their place.                                *)
(***************************************************************************)
\* Two chunks have no cell in common.
LEMMA CellsApart ==
    AllocatorInv => \A c, d \in ToSet(m_list) : \A cell \in cellsOf(c) : cell \in cellsOf(d) => c = d
BY ChunksApart

\* ... after a step as well as before it.
LEMMA CellsApartNext ==
    AllocatorInv' => \A c, d \in ToSet(m_list') : \A cell \in cellsOf(c) : cell \in cellsOf(d) => c = d
<1>1. AllocatorInv' =>
        (\A c, d \in ToSet(m_list) : \A cell \in cellsOf(c) : cell \in cellsOf(d) => c = d)'
  BY CellsApart, PTL
<1>2. QED
  BY <1>1 DEF cellsOf

\* A cell of a chunk is in the file.
LEMMA CellsInFile ==
    ASSUME Filed, NEW c \in ToSet(m_list), NEW cell \in cellsOf(c)
    PROVE  cell \in DOMAIN swapFile
<1>1. AllocatorInv /\ m_storeSize \in Int /\ m_storeSize <= MaxStoreSize /\ MaxStoreSize \in Nat
      /\ DOMAIN swapFile = 0..(MaxStoreSize - 1)
  BY AllocatorAssumption DEF Filed, AllocatorInv, AllocatorTypeOK
<1>2. cell \in Nat /\ cell < m_storeSize
  BY <1>1, ChunksApart
<1>3. QED
  BY <1>1, <1>2

\* ... after a step as well as before it.
LEMMA CellsInFileNext ==
    Filed' => \A c \in ToSet(m_list') : \A cell \in cellsOf(c) : cell \in DOMAIN swapFile'
<1>1. Filed => \A c \in ToSet(m_list) : \A cell \in cellsOf(c) : cell \in DOMAIN swapFile
  BY CellsInFile
<1>2. Filed' => (\A c \in ToSet(m_list) : \A cell \in cellsOf(c) : cell \in DOMAIN swapFile)'
  BY <1>1, PTL
<1>3. QED
  BY <1>2 DEF cellsOf

\* A swapping agent changes neither its tile nor what it is to do there.
LEMMA SwappingFollows ==
    ASSUME Store, Store', NEW a \in Threads \cup {Swapper}, Swapping(a)
    PROVE  (\A u \in Threads : Follows(at[u], at'[u])) /\ UNCHANGED <<tile, items>>
<1>1. PICK s : /\ at' = [at EXCEPT ![a] = s] /\ SwapMove(a, at[a], s)
               /\ at[a].pc \in SwapLabels \cup {"idle"}
               /\ UNCHANGED <<tile, items, written>>
  BY SwapLocks DEF Store
<1>2. ASSUME NEW u \in Threads PROVE Follows(at[u], at'[u])
  <2>1. CASE u # a
    <3>1. at'[u] = at[u]
      BY <1>1, <2>1, ThreadRecord DEF Store
    <3>2. QED
      BY <3>1 DEF Follows, Continues
  <2>2. CASE u = a
    <3>1. at'[u] = s /\ at[u] \in AgentRecord /\ ThreadShape(at[u]) /\ at[u].pc \in SwapLabels
      BY <1>1, <2>2, StoreAssumption, ThreadRecord DEF SwapMove, Store
    <3>2. /\ \/ \E pc \in SwapLabels : s = [at[u] EXCEPT !.pc = pc]
             \/ s = [at[u] EXCEPT !.pc = at[u].resume, !.resume = "idle"]
      BY <1>1, <2>2 DEF SwapMove
    <3>3. /\ s \in AgentRecord /\ ThreadShape(s) /\ SameRole(at[u], s) /\ where(s) = where(at[u])
          /\ s.td = at[u].td /\ s.next = at[u].next /\ s.write = at[u].write
      BY <3>1, <3>2, SwapStep
    <3>4. QED
      BY <3>1, <3>3, SameFollows DEF SameRole
  <2>3. QED
    BY <2>1, <2>2
<1>3. QED
  BY <1>1, <1>2

\* The data of x goes into the file; all that is there already stays.
LEMMA SwapOutContents ==
    ASSUME Store, Store', Fresh, NEW x \in TileData, td[x].listed, swapOutTileData(x)
    PROVE  PixelsStay
<1>1. td \in [TileData -> Object] /\ td[x] \in Object /\ loaded(x) /\ td[x].exists = TRUE /\ Filed /\ Filed'
  BY DEF Store, Placed, ObjectsTyped, InMemory, Listed, Object
<1>2. PICK chunk : chunk = m_list'[m_iterator' - 1]
  OBVIOUS
<1>3. PICK begin : begin = chunk.begin
  OBVIOUS
<1>4. PICK r : r = [td[x] EXCEPT !.m_data = NoData, !.listed = FALSE,
                        !.m_clonesStack = <<>>, !.m_swapChunk = begin]
  OBVIOUS
<1>5. /\ getChunk(CompressedSize[x])
      /\ swapFile' = [cell \in DOMAIN swapFile |->
            IF cell \in cellsOf(chunk) THEN td[x].m_data ELSE swapFile[cell]]
      /\ td' = [td EXCEPT ![x] = r]
  <2>1. /\ getChunk(CompressedSize[x])
        /\ swapFile' = [cell \in DOMAIN swapFile |->
              IF cell \in cellsOf(chunk) THEN td[x].m_data ELSE swapFile[cell]]
        /\ td' = [td EXCEPT ![x].m_data = NoData, ![x].listed = FALSE,
                            ![x].m_clonesStack = <<>>, ![x].m_swapChunk = begin]
    BY <1>2, <1>3 DEF swapOutTileData, cellsOf, chunkCells
  <2>2. QED
    BY <1>1, <1>4, <2>1
<1>6. /\ r.exists = TRUE /\ r.m_data = NoData /\ r.m_swapChunk = begin
      /\ r.m_clonesStack = <<>> /\ r.m_usersCount = td[x].m_usersCount
  BY <1>1, <1>4 DEF Object
<1>7. /\ td'[x] = r /\ ~loaded(x)'
      /\ \A w \in TileData : w # x => td'[w] = td[w] /\ (loaded(w)' <=> loaded(w))
  BY <1>1, <1>5, <1>6 DEF loaded
<1>8. UsersStay /\ ClonesStay
  <2>1. \A w \in TileData : td[w].m_usersCount \in Int
    BY <1>1 DEF Object
  <2>2. DOMAIN <<>> = {}
    OBVIOUS
  <2>3. ASSUME NEW w \in TileData, w # x
        PROVE  /\ UserStays(w)
               /\ ~loaded(w)' => td'[w].m_clonesStack = <<>>
               /\ td'[w] = td[w]
    BY <1>7, <2>1, <2>3 DEF Fresh, UserStays
  <2>4. UserStays(x) /\ td'[x].m_clonesStack = <<>>
    BY <1>6, <1>7, <2>1 DEF UserStays
  <2>5. QED
    BY <2>2, <2>3, <2>4 DEF UsersStay, ClonesStay
<1>9. /\ AllocatorInv' /\ chunk \in ToSet(m_list')
      /\ ToSet(m_list') = ToSet(m_list) \cup {chunk} /\ chunk \notin ToSet(m_list)
  <2>1. CompressedSize[x] \in ChunkSizes
    BY StoreAssumption
  <2>2. QED
    BY <1>1, <1>2, <1>5, <2>1, ChunkAdded DEF Filed
<1>10. ImagesStay
  <2>1. contents(x)' = contents(x)
    <3> PICK piece : piece = td[x].m_data
      OBVIOUS
    <3>1. inFile(x, piece)'
      <4>1. \A cell \in cellsOf(chunk) : swapFile'[cell] = piece
        <5>1. \A cell \in cellsOf(chunk) : cell \in DOMAIN swapFile'
          BY <1>1, <1>9, CellsInFileNext
        <5>2. QED
          BY <1>5, <5>1
      <4>2. chunk.begin = td'[x].m_swapChunk
        BY <1>3, <1>6, <1>7
      <4>3. QED
        BY <1>9, <4>1, <4>2 DEF inFile, cellsOf
    <3>2. x \in swappedOut'
      BY <1>6, <1>7 DEF swappedOut
    <3>3. stored(x)' = piece
      BY <1>1, <3>1, <3>2, StoredPieceNext
    <3>4. QED
      BY <1>1, <1>7, <3>3 DEF contents
  <2>2. ASSUME NEW w \in TileData, w # x, td[w].exists = TRUE PROVE contents(w)' = contents(w)
    <3>1. CASE loaded(w)
      BY <1>7, <2>2, <3>1 DEF contents
    <3>2. CASE ~loaded(w)
      <4>1. w \in swappedOut /\ w \in swappedOut'
        BY <1>7, <2>2, <3>2 DEF swappedOut
      <4>2. ASSUME NEW d \in ToSet(m_list)
            PROVE  d \in ToSet(m_list') /\ \A cell \in cellsOf(d) : swapFile'[cell] = swapFile[cell]
        <5>1. d \in ToSet(m_list') /\ d # chunk
          BY <1>9
        <5>2. \A cell \in cellsOf(d) : cell \notin cellsOf(chunk) /\ cell \in DOMAIN swapFile
          BY <1>1, <1>9, <5>1, CellsApartNext, CellsInFile
        <5>3. QED
          BY <1>5, <5>1, <5>2
      <4>3. td'[w].m_swapChunk = td[w].m_swapChunk
        BY <1>7, <2>2
      <4>4. stored(w)' = stored(w)
        BY <1>1, <4>1, <4>2, <4>3, StoredKept
      <4>5. QED
        BY <1>7, <2>2, <3>2, <4>4 DEF contents
    <3>3. QED
      BY <3>1, <3>2
  <2>3. QED
    BY <2>1, <2>2 DEF ImagesStay, ImageStays
<1>11. QED
  BY <1>8, <1>10 DEF PixelsStay

\* Swapping, whatever becomes of the candidate.
LEMMA SwappingPainted ==
    ASSUME Store, Store', Painted, NEW a \in Threads \cup {Swapper}, Swapping(a)
    PROVE  Painted'
<1>1. (\A u \in Threads : Follows(at[u], at'[u])) /\ UNCHANGED <<tile, items>>
  BY SwappingFollows
<1>2. TilesStay /\ ItemsStay
  BY <1>1, TilesUntouched, ItemsUntouched
<1>3. raced' = raced
  BY DEF Swapping, beginCycle, beginPass, trySwapOut, endPass, history
<1>4. CASE UNCHANGED <<td, swapVars>>
  <2>1. Alike(td')
    BY <1>4, StoreUntouched DEF Store
  <2>2. OneWriter => PixelsStay
    BY <1>4, <2>1, AlikeStays DEF Painted, Store
  <2>3. QED
    BY <1>1, <1>2, <1>3, <2>2, PaintedStays
<1>5. ASSUME NEW x \in TileData, trySwapOut(a, x), swapOutTileData(x)
      PROVE  Painted'
  <2>1. at[a].pc \in {"softPass", "hardPass"} /\ x \in pass.candidates /\ a \in Agents
    BY <1>5 DEF trySwapOut, Agents
  <2>2. td[x].listed
    BY <2>1 DEF Store, Placed, Visited
  <2>3. OneWriter => PixelsStay
    BY <1>5, <2>2, SwapOutContents DEF Painted
  <2>4. QED
    BY <1>1, <1>2, <1>3, <2>3, PaintedStays
<1>6. QED
  <2>1. \/ UNCHANGED <<td, swapVars>>
        \/ \E x \in TileData : trySwapOut(a, x) /\ swapOutTileData(x)
    BY DEF Swapping, beginCycle, beginPass, trySwapOut, endPass
  <2>2. QED
    BY <1>4, <1>5, <2>1

\* The chunk of x goes; the chunks of the others stay.
LEMMA ChunkGone ==
    ASSUME Filed, Filed', NEW x \in swappedOut, freeChunk(td[x].m_swapChunk), swapFile' = erased(x),
           NEW w \in swappedOut, w \in swappedOut', w # x, td'[w].m_swapChunk = td[w].m_swapChunk
    PROVE  stored(w)' = stored(w)
<1>1. PICK c \in ToSet(m_list) : inChunk(x, c)
  BY DEF Filed
<1>2. c.begin = td[x].m_swapChunk /\ AllocatorInv
  BY <1>1 DEF inChunk, Filed
<1>3. ToSet(m_list') = ToSet(m_list) \ {c}
  BY <1>2, ChunkRemoved
<1>4. td[w].m_swapChunk # td[x].m_swapChunk
  BY DEF Filed
<1>5. ASSUME NEW d \in ToSet(m_list), d.begin = td[w].m_swapChunk
      PROVE  d \in ToSet(m_list') /\ \A cell \in cellsOf(d) : swapFile'[cell] = swapFile[cell]
  <2>1. d # c
    BY <1>2, <1>4, <1>5
  <2>2. ASSUME NEW cell \in cellsOf(d) PROVE swapFile'[cell] = swapFile[cell]
    <3>1. cell \in DOMAIN swapFile
      BY <2>2, CellsInFile
    <3>2. ~\E e \in ToSet(m_list) : e.begin = td[x].m_swapChunk /\ cell \in cellsOf(e)
      <4>1. SUFFICES ASSUME NEW e \in ToSet(m_list), e.begin = td[x].m_swapChunk, cell \in cellsOf(e)
                     PROVE  FALSE
        OBVIOUS
      <4>2. e = d
        BY <1>2, <2>2, <4>1, CellsApart
      <4>3. QED
        BY <1>4, <1>5, <4>1, <4>2
    <3>3. QED
      BY <3>1, <3>2 DEF erased, cellsOf, chunkCells
  <2>3. QED
    BY <1>3, <2>1, <2>2
<1>6. QED
  BY <1>5, StoredKept

\* ensureTileDataLoaded() decompresses what the swapper has compressed.
LEMMA SwapInPainted ==
    ASSUME Store, Store', Painted, NEW t \in Threads, swapInTileData(t)
    PROVE  Painted'
<1>1. at[t] \in AgentRecord /\ ThreadShape(at[t]) /\ at[t].pc \in LoadLabels /\ at[t].pc = "loadWrite"
  BY ThreadRecord DEF Store, swapInTileData, LoadLabels
<1>2. PICK x \in TileData : x = at[t].loading /\ td[x].exists = TRUE
  BY <1>1, LoadingData DEF Store, loads, where, LoadLabels, SwapLabels
<1>3. ~loaded(x) /\ x \in swappedOut /\ Filed /\ Filed'
  BY <1>1, <1>2 DEF Store, Placed, Visited, swappedOut
<1>4. PICK data : data = stored(x)
  OBVIOUS
<1>5. data # NoData
  BY <1>3, <1>4, StoredData, StoreAssumption
<1>6. PICK s : s = [at[t] EXCEPT !.pc = "load"] /\ at' = [at EXCEPT ![t] = s]
  BY DEF swapInTileData, goto
<1>7. Moves(t, s) /\ s \in AgentRecord /\ ThreadShape(s)
  BY <1>6, Stepped
<1>8. Follows(at[t], s)
  <2>1. /\ where(s) = "load" /\ s.td = at[t].td /\ s.next = at[t].next
        /\ s.tile = at[t].tile /\ s.write = at[t].write
    BY <1>1, <1>6, LoadStep DEF SameRole, LoadLabels
  <2>2. owns(s) <=> owns(at[t])
    BY <1>1, <2>1 DEF owns, loads, where, LoadLabels, SwapLabels
  <2>3. QED
    BY <1>1, <1>7, <2>1, <2>2, SameFollows
<1>9. td \in [TileData -> Object] /\ td[x] \in Object
  BY DEF Store, Placed, ObjectsTyped
<1>10. PICK r : r = [td[x] EXCEPT !.m_data = data, !.listed = TRUE, !.m_swapChunk = NoChunk]
  OBVIOUS
<1>11. td' = [td EXCEPT ![x] = r] /\ freeChunk(td[x].m_swapChunk) /\ swapFile' = erased(x)
  BY <1>2, <1>4, <1>10 DEF swapInTileData
<1>12. /\ r.exists = TRUE /\ r.m_data = data /\ r.m_clonesStack = td[x].m_clonesStack
       /\ r.m_usersCount = td[x].m_usersCount
  BY <1>2, <1>9, <1>10 DEF Object
<1>13. /\ td'[x] = r /\ loaded(x)'
       /\ \A w \in TileData : w # x => td'[w] = td[w] /\ (loaded(w)' <=> loaded(w))
  BY <1>5, <1>9, <1>11, <1>12 DEF loaded
<1>14. ASSUME OneWriter PROVE UsersStay /\ ClonesStay
  <2>1. \A w \in TileData : td[w].m_usersCount \in Int
    BY <1>9 DEF Object
  <2>2. Fresh /\ DOMAIN <<>> = {}
    BY <1>14 DEF Painted
  <2>3. td[x].m_clonesStack = <<>>
    BY <1>3, <2>2 DEF Fresh
  <2>4. ASSUME NEW w \in TileData, w # x
        PROVE  /\ UserStays(w)
               /\ ~loaded(w)' => td'[w].m_clonesStack = <<>>
               /\ td'[w] = td[w]
    BY <1>13, <2>1, <2>2, <2>4 DEF Fresh, UserStays
  <2>5. UserStays(x) /\ td'[x].m_clonesStack = <<>>
    BY <1>12, <1>13, <2>1, <2>3 DEF UserStays
  <2>6. QED
    BY <2>2, <2>4, <2>5 DEF UsersStay, ClonesStay
<1>15. ImagesStay
  <2>1. contents(x)' = contents(x)
    <3>1. td'[x].m_data = data
      BY <1>12, <1>13
    <3>2. QED
      BY <1>3, <1>4, <1>13, <3>1 DEF contents
  <2>2. ASSUME NEW w \in TileData, w # x, td[w].exists = TRUE PROVE contents(w)' = contents(w)
    <3>1. CASE loaded(w)
      BY <1>13, <2>2, <3>1 DEF contents
    <3>2. CASE ~loaded(w)
      <4>1. w \in swappedOut /\ w \in swappedOut' /\ td'[w].m_swapChunk = td[w].m_swapChunk
        BY <1>13, <2>2, <3>2 DEF swappedOut
      <4>2. stored(w)' = stored(w)
        BY <1>3, <1>11, <2>2, <4>1, ChunkGone
      <4>3. QED
        BY <1>13, <2>2, <3>2, <4>2 DEF contents
    <3>3. QED
      BY <3>1, <3>2
  <2>3. QED
    BY <2>1, <2>2 DEF ImagesStay, ImageStays
<1>16. TilesStay /\ ItemsStay /\ raced' = raced
  BY TilesUntouched, ItemsUntouched DEF swapInTileData, history
<1>17. \A u \in Threads : Follows(at[u], at'[u])
  BY <1>7, <1>8, OneFollows DEF Store
<1>18. OneWriter => PixelsStay
  BY <1>14, <1>15 DEF PixelsStay
<1>19. QED
  BY <1>16, <1>17, <1>18, PaintedStays

\* freeTileData() takes pixels away that nobody has.
LEMMA FreePainted ==
    ASSUME Store, Store', Painted, NEW t \in Threads, freeTileData(t)
    PROVE  Painted'
<1>1. at[t] \in AgentRecord /\ ThreadShape(at[t]) /\ at[t].pc = "free"
  BY ThreadRecord DEF Store, freeTileData
<1>2. PICK x \in TileData : x = at[t].td
  BY <1>1 DEF frees, where, ThreadShape, AgentRecord, SwapLabels
<1>3. PICK s : /\ s = [at[t] EXCEPT !.pc = at[t].next, !.td = NoTileData, !.next = "idle"]
               /\ at' = [at EXCEPT ![t] = s]
  BY DEF freeTileData
<1>4. Moves(t, s) /\ s \in AgentRecord /\ ThreadShape(s)
  BY <1>3, Stepped
<1>5. Follows(at[t], s)
  <2>1. s.pc \in {"idle", "releaseOld"}
    <3>1. s.pc = at[t].next
      BY <1>1, <1>3 DEF AgentRecord
    <3>2. frees(at[t])
      BY <1>1 DEF frees, where, SwapLabels
    <3>3. QED
      BY <1>1, <3>1, <3>2 DEF ThreadShape
  <2>2. QED
    BY <1>4, <2>1, RestingShape, IdleFollows
<1>6. td \in [TileData -> Object] /\ Filed /\ Filed'
  BY DEF Store, Placed, ObjectsTyped
<1>7. PICK r : r = Deleted
  OBVIOUS
<1>8. r.exists = FALSE /\ r.m_data = NoData /\ r.m_clonesStack = <<>> /\ r.m_usersCount = 0
  BY <1>7 DEF Deleted, NewTileData
<1>9. /\ td' = [td EXCEPT ![x] = r]
      /\ loaded(x) => UNCHANGED swapVars
      /\ ~loaded(x) => freeChunk(td[x].m_swapChunk) /\ swapFile' = erased(x)
  BY <1>2, <1>7 DEF freeTileData
<1>10. /\ td'[x] = r /\ ~loaded(x)'
       /\ \A w \in TileData : w # x => td'[w] = td[w] /\ (loaded(w)' <=> loaded(w))
  BY <1>6, <1>8, <1>9 DEF loaded
<1>11. ASSUME OneWriter PROVE UsersStay /\ ClonesStay
  <2>1. \A w \in TileData : td[w].m_usersCount \in Int
    BY <1>6 DEF Object
  <2>2. Fresh /\ DOMAIN <<>> = {}
    BY <1>11 DEF Painted
  <2>3. ASSUME NEW w \in TileData, w # x
        PROVE  /\ UserStays(w)
               /\ ~loaded(w)' => td'[w].m_clonesStack = <<>>
               /\ td'[w] = td[w]
    BY <1>10, <2>1, <2>2, <2>3 DEF Fresh, UserStays
  <2>4. td[x].m_usersCount \in Nat
    BY UsesCounted DEF UseCounted, Store
  <2>5. UserStays(x) /\ td'[x].m_clonesStack = <<>>
    BY <1>8, <1>10, <2>4 DEF UserStays
  <2>6. QED
    BY <2>2, <2>3, <2>5 DEF UsersStay, ClonesStay
<1>12. ImagesStay
  <2>1. ASSUME NEW w \in TileData, w # x, td[w].exists = TRUE PROVE contents(w)' = contents(w)
    <3>1. CASE loaded(w)
      BY <1>10, <2>1, <3>1 DEF contents
    <3>2. CASE ~loaded(w)
      <4>1. w \in swappedOut /\ w \in swappedOut' /\ td'[w].m_swapChunk = td[w].m_swapChunk
        BY <1>10, <2>1, <3>2 DEF swappedOut
      <4>2. stored(w)' = stored(w)
        <5>1. CASE loaded(x)
          <6>1. UNCHANGED <<swapFile, m_list>>
            BY <1>9, <5>1 DEF swapVars, allocatorVars
          <6>2. QED
            BY <4>1, <6>1 DEF stored
        <5>2. CASE ~loaded(x)
          <6>1. CASE td[x].exists = TRUE
            BY <1>6, <1>9, <2>1, <4>1, <5>2, <6>1, ChunkGone DEF swappedOut
          <6>2. CASE td[x].exists # TRUE
            <7>1. frees(at[t]) /\ at[t].td = x
              BY <1>1, <1>2 DEF frees, where, SwapLabels
            <7>2. busy(t, x)
              BY <7>1 DEF busy
            <7>3. QED
              BY <6>2, <7>2, BusyData DEF Store
          <6>3. QED
            BY <6>1, <6>2
        <5>3. QED
          BY <5>1, <5>2
      <4>3. QED
        BY <1>10, <2>1, <3>2, <4>2 DEF contents
    <3>3. QED
      BY <3>1, <3>2
  <2>2. td'[x].exists = FALSE
    BY <1>8, <1>10
  <2>3. QED
    BY <2>1, <2>2 DEF ImagesStay, ImageStays
<1>13. TilesStay /\ ItemsStay /\ raced' = raced
  BY TilesUntouched, ItemsUntouched DEF freeTileData, history
<1>14. \A u \in Threads : Follows(at[u], at'[u])
  BY <1>4, <1>5, OneFollows DEF Store
<1>15. OneWriter => PixelsStay
  BY <1>11, <1>12 DEF PixelsStay
<1>16. QED
  BY <1>13, <1>14, <1>15, PaintedStays

-------------------------------------------------------------------------------
(***************************************************************************)
(* Copy-on-write.                                                          *)
(***************************************************************************)
\* A step of one thread that may come to write or to copy; the others see
\* nothing of it.
LEMMA ActorPainted ==
    ASSUME Store, Store', Painted, NEW t \in Threads, NEW s, Moves(t, s),
           s.write => at[t].write /\ s.tile = at[t].tile,
           TilesStay, ItemsStay, raced' = raced, OneWriter => PixelsStay,
           OneWriter => PenRight(t)' /\ HandRight(t)',
           \A x \in TileData : cloning(t, x)' => cloning(t, x) \/ td[x].m_usersCount > 1
    PROVE  Painted'
<1> SUFFICES ASSUME OneWriter
             PROVE  /\ WriterAlone' /\ Pens' /\ Fresh' /\ Hands'
                    /\ TilesKeepTheirPixels' /\ HistoryKeepsItsPixels'
  BY DEF Painted
<1>1. /\ WriterAlone /\ Pens /\ Fresh /\ Hands /\ TilesKeepTheirPixels /\ HistoryKeepsItsPixels
      /\ UsersStay /\ ClonesStay /\ ImagesStay /\ (raced => raced' = TRUE)
  BY DEF Painted, PixelsStay
<1>2. Ordered /\ Ordered' /\ Counted /\ Counted'
  BY DEF Store
<1>3. at'[t] = s /\ \A u \in Threads : u # t => at'[u] = at[u]
  BY DEF Moves, Agents
<1>4. \A u \in Threads : u # t => Continues(at[u], at'[u])
  BY <1>3 DEF Continues
<1>5. WriterAlone'
  BY <1>1, <1>3, WriterStaysAlone
<1>6. Pens'
  <2>1. ASSUME NEW u \in Threads, u # t PROVE PenRight(u)'
    BY <1>1, <1>2, <1>4, <2>1, PenStays DEF Pens, UsersStay
  <2>2. QED
    BY <2>1 DEF Pens
<1>7. Fresh'
  <2>1. \A x \in TileData : \A u \in Threads : u # t => (cloning(u, x)' => cloning(u, x))
    BY <1>2, <1>4, CloningStays
  <2>2. QED
    BY <1>1, <2>1, FreshStays
<1>8. Hands'
  <2>1. ASSUME NEW u \in Threads, u # t PROVE HandRight(u)'
    BY <1>1, <1>2, <1>4, <2>1, HandStays DEF Hands, ImagesStay
  <2>2. QED
    BY <2>1 DEF Hands
<1>9. QED
  BY <1>1, <1>2, <1>5, <1>6, <1>7, <1>8, TilesStayRight, ItemsStayRight

\* The check that finds one user makes a pen, the one that finds more makes a copier.
LEMMA CheckingPainted ==
    ASSUME Store, Store', Painted, NEW t \in Threads, checkLazyCopying(t) \/ lockCOW(t)
    PROVE  Painted'
<1>1. at[t] \in AgentRecord /\ ThreadShape(at[t]) /\ at[t].pc \in {"checkCOW", "lockCOW"}
      /\ at \in [Agents -> AgentRecord] /\ t \in Agents
  BY ThreadRecord DEF Store, checkLazyCopying, lockCOW
<1>2. at[t].tile # NoTile
  BY <1>1 DEF ThreadShape, where, frees, SwapLabels
<1>3. PICK y \in Tiles : y = at[t].tile
  BY <1>2, UsedTile DEF Store
<1>4. PICK x \in TileData : x = tile[y].m_tileData
  BY <1>2, <1>3, UsedTile DEF Store
<1>5. PICK s :
        /\ at' = [at EXCEPT ![t] = s] /\ WriteMove(at[t], x, s)
        /\ s.pc = "clone" => td[x].m_usersCount > 1
        /\ s.pc = "writing" => ~(td[x].m_usersCount > 1)
  <2>1. \/ at' = [at EXCEPT ![t] = [at[t] EXCEPT !.pc = "lockCOW"]] /\ at[t].pc = "checkCOW"
        \/ /\ at' = [at EXCEPT ![t] = [at[t] EXCEPT !.pc = "clone"]] /\ at[t].pc = "lockCOW"
           /\ td[x].m_usersCount > 1
        \/ /\ at' = [at EXCEPT ![t] = [at[t] EXCEPT !.pc = "writing", !.td = x]]
           /\ at[t].pc \in {"checkCOW", "lockCOW"} /\ ~(td[x].m_usersCount > 1)
    BY <1>1, <1>3, <1>4 DEF checkLazyCopying, lockCOW, goto, startWriting, lazyCopying
  <2>2. [at[t] EXCEPT !.pc = "lockCOW"].pc = "lockCOW" /\ [at[t] EXCEPT !.pc = "clone"].pc = "clone"
        /\ [at[t] EXCEPT !.pc = "writing", !.td = x].pc = "writing"
    BY <1>1 DEF AgentRecord
  <2>3. QED
    BY <2>1, <2>2 DEF WriteMove
<1>6. /\ Moves(t, s) /\ s.tile = y /\ s.write = at[t].write /\ where(s) = s.pc
      /\ s.pc = "writing" => s.td = x
      /\ s.pc \in {"lockCOW", "clone", "writing"} /\ s \in AgentRecord /\ ThreadShape(s)
  <2>1. s.pc # "wrote"
    BY <1>1, <1>5 DEF WriteMove, AgentRecord
  <2>2. QED
    BY <1>1, <1>3, <1>5, <2>1, WriteStep, Stepped
<1>7. /\ td' = td /\ UNCHANGED swapVars /\ ItemsStay /\ raced' = raced
      /\ tile' = tile \/ \E owner : tile' = [tile EXCEPT ![y].m_COWMutex = owner]
  BY <1>3, ItemsUntouched DEF checkLazyCopying, lockCOW, history
<1>8. TilesStay
  <2>1. tile \in [Tiles -> KisTile]
    BY DEF Store, Ordered, TilesLocked
  <2>2. CASE \E owner : tile' = [tile EXCEPT ![y].m_COWMutex = owner]
    BY <2>1, <2>2 DEF TilesStay, TileStays, KisTile
  <2>3. QED
    BY <1>7, <2>2, TilesUntouched
<1>9. OneWriter => PixelsStay
  BY <1>7, StoreUntouched, AlikeStays DEF Painted, Store
<1>10. at'[t] = s
  BY <1>6 DEF Moves
<1>11. ~holds(s)
  BY <1>6 DEF holds, makes, owns, loads, LoadLabels
<1>12. tile'[y].m_tileData = x
  BY <1>3, <1>4, <1>8 DEF TilesStay, TileStays
<1>13. PenRight(t)'
  <2>1. CASE s.pc # "writing"
    <3>1. ~points(s) /\ ~owns(s)
      BY <1>6, <1>11, <2>1 DEF points, holds
    <3>2. QED
      BY <1>10, <2>1, <3>1 DEF PenRight
  <2>2. CASE s.pc = "writing"
    <3>1. s.td = x
      BY <1>6, <2>2
    <3>2. y \in showing(x)
      BY <1>4 DEF showing
    <3>3. td[x].m_usersCount \in Nat /\ td[x].m_usersCount # 0
      BY <3>2, UsesCounted DEF UseCounted, Store
    <3>4. td'[x].m_usersCount = 1
      BY <1>5, <1>7, <2>2, <3>3
    <3>5. QED
      BY <1>6, <1>10, <1>12, <3>1, <3>4 DEF PenRight
  <2>3. QED
    BY <2>1, <2>2
<1>14. HandRight(t)'
  BY <1>10, <1>11 DEF HandRight
<1>15. ASSUME NEW w \in TileData, cloning(t, w)' PROVE td[w].m_usersCount > 1
  <2>1. s.pc = "clone" /\ w = x
    BY <1>6, <1>10, <1>12, <1>15 DEF cloning
  <2>2. QED
    BY <1>5, <2>1
<1>16. QED
  BY <1>3, <1>6, <1>7, <1>8, <1>9, <1>13, <1>14, <1>15, ActorPainted

\* What a new object is made of, and what becomes of the others.
Made(t, x, z, data) ==
    /\ x = tile[at[t].tile].m_tileData /\ at[t].tile \in Tiles
    /\ loaded(x) /\ x # z /\ td[z].exists # TRUE
    /\ td'[z] = NewTileData(data)
    /\ \A w \in TileData : w # z =>
        /\ td'[w].m_data = td[w].m_data /\ td'[w].m_swapChunk = td[w].m_swapChunk
        /\ td'[w].m_usersCount = td[w].m_usersCount
        /\ w # x => td'[w].m_clonesStack = td[w].m_clonesStack
    /\ \A i \in DOMAIN td'[x].m_clonesStack :
        i \in DOMAIN td[x].m_clonesStack /\ td'[x].m_clonesStack[i] = td[x].m_clonesStack[i]
    /\ \/ data = td[x].m_data
       \/ /\ cloning(t, x)
          /\ \E i \in DOMAIN td[x].m_clonesStack : data = td[x].m_clonesStack[i]
    /\ at' = [at EXCEPT ![t] = [at[t] EXCEPT !.pc = "register", !.td = z]]

\* All but the last of a sequence, and the last.
LEMMA FrontAndLast ==
    ASSUME NEW S, NEW q \in Seq(S), q # <<>>
    PROVE  /\ \A i \in DOMAIN Front(q) : i \in DOMAIN q /\ Front(q)[i] = q[i]
           /\ \E i \in DOMAIN q : Last(q) = q[i]
           /\ Last(q) \in S
<1>1. Len(q) \in Nat /\ Len(q) # 0 /\ DOMAIN q = 1..Len(q)
  OBVIOUS
<1>2. Front(q) = [i \in 1..(Len(q) - 1) |-> q[i]]
  BY <1>1 DEF Front
<1>3. Last(q) = q[Len(q)] /\ Len(q) \in DOMAIN q
  BY <1>1 DEF Last
<1>4. q[Len(q)] \in S
  BY <1>1
<1>5. QED
  BY <1>1, <1>2, <1>3, <1>4

\* duplicateTileData(), with a pre-clone and without.
LEMMA MadeShape ==
    ASSUME Store, NEW t \in Threads, popClone(t) \/ copyTileData(t)
    PROVE  \E x, z \in TileData : \E data \in SUBSET (1..MaxWrites) : Made(t, x, z, data)
<1>1. /\ at[t] \in AgentRecord /\ ThreadShape(at[t]) /\ at[t].pc \in {"clone", "copy"}
      /\ at \in [Agents -> AgentRecord] /\ t \in Agents
  BY ThreadRecord DEF Store, popClone, copyTileData
<1>2. /\ at[t].tile # NoTile /\ ~locks(at[t]) /\ ~releases(at[t])
      /\ at[t].pc = "copy" => where(at[t]) = "copy"
  BY <1>1 DEF ThreadShape, where, frees, locks, loads, releases, SwapLabels, LoadLabels
<1>3. PICK x \in TileData : x = tile[at[t].tile].m_tileData /\ at[t].tile \in Tiles
  BY <1>2, UsedTile DEF Store
<1>4. loaded(x)
  <2>1. at[t].tile \in blocked(x)
    BY <1>2, <1>3, UserBlocks DEF blocked, Store
  <2>2. QED
    BY <2>1, BlockedLoaded DEF Store
<1>5. td \in [TileData -> Object] /\ td[x] \in Object /\ td[x].exists = TRUE
  BY <1>3, UsedExists DEF Store, Placed, ObjectsTyped
<1>6. CASE popClone(t)
  <2>1. PICK clones \in Seq(SUBSET (1..MaxWrites)) : clones = td[x].m_clonesStack
    BY <1>5 DEF Object
  <2>2. PICK z \in TileData :
            /\ isFresh(z) /\ clones # <<>>
            /\ td' = [td EXCEPT ![x].m_clonesStack = Front(clones), ![z] = NewTileData(Last(clones))]
            /\ at' = [at EXCEPT ![t].pc = "register", ![t].td = z]
    BY <1>3, <1>6, <2>1 DEF popClone
  <2>3. ~td[z].exists /\ x # z
    BY <1>5, <2>2 DEF isFresh
  <2>4. PICK data \in SUBSET (1..MaxWrites) : data = Last(clones) /\ \E i \in DOMAIN clones : data = clones[i]
    BY <2>1, <2>2, FrontAndLast
  <2>5. PICK left : left = Front(clones) /\ \A i \in DOMAIN left : i \in DOMAIN clones /\ left[i] = clones[i]
    BY <2>1, <2>2, FrontAndLast
  <2>6. PICK new : new = NewTileData(data)
    OBVIOUS
  <2>7. td' = [td EXCEPT ![x].m_clonesStack = left, ![z] = new]
    BY <2>2, <2>4, <2>5, <2>6
  <2>8. /\ td'[z] = new /\ td'[x] = [td[x] EXCEPT !.m_clonesStack = left]
        /\ \A w \in TileData : w # z /\ w # x => td'[w] = td[w]
    BY <1>5, <2>3, <2>7
  <2>9. /\ td'[x].m_data = td[x].m_data /\ td'[x].m_swapChunk = td[x].m_swapChunk
        /\ td'[x].m_usersCount = td[x].m_usersCount /\ td'[x].m_clonesStack = left
    BY <1>5, <2>8 DEF Object
  <2>10. cloning(t, x)
    BY <1>3, <1>6 DEF cloning, popClone
  <2>11. at' = [at EXCEPT ![t] = [at[t] EXCEPT !.pc = "register", !.td = z]]
    BY <1>1, <2>2
  <2>12. Made(t, x, z, data)
    BY ZenonT(60), <1>3, <1>4, <2>1, <2>3, <2>4, <2>5, <2>6, <2>8, <2>9, <2>10, <2>11 DEF Made
  <2>13. QED
    BY <2>12
<1>7. CASE copyTileData(t)
  <2>1. x = at[t].td
    BY <1>1, <1>2, <1>3, <1>7 DEF copyTileData, Store, Ordered, TilesLocked, TileShared
  <2>2. PICK z \in TileData :
            /\ isFresh(z)
            /\ td' = unblocked([td EXCEPT ![z] = NewTileData(td[x].m_data)], x)
            /\ at' = [at EXCEPT ![t].pc = "register", ![t].td = z]
    BY <1>7, <2>1 DEF copyTileData
  <2>3. ~td[z].exists /\ x # z
    BY <1>5, <2>2 DEF isFresh
  <2>4. PICK data \in SUBSET (1..MaxWrites) : data = td[x].m_data
    BY <1>4, <1>5 DEF Object, loaded
  <2>5. PICK new : new = NewTileData(data)
    OBVIOUS
  <2>6. PICK objects : objects = [td EXCEPT ![z] = new]
    OBVIOUS
  <2>7. td' = [objects EXCEPT ![x].readers = @ - 1]
    BY <2>2, <2>4, <2>5, <2>6 DEF unblocked
  <2>8. /\ td'[z] = new /\ td'[x] = [td[x] EXCEPT !.readers = @ - 1]
        /\ \A w \in TileData : w # z /\ w # x => td'[w] = td[w]
    BY <1>5, <2>3, <2>6, <2>7
  <2>9. /\ td'[x].m_data = td[x].m_data /\ td'[x].m_swapChunk = td[x].m_swapChunk
        /\ td'[x].m_usersCount = td[x].m_usersCount /\ td'[x].m_clonesStack = td[x].m_clonesStack
    BY <1>5, <2>8 DEF Object
  <2>10. at' = [at EXCEPT ![t] = [at[t] EXCEPT !.pc = "register", !.td = z]]
    BY <1>1, <2>2
  <2>11. Made(t, x, z, data)
    BY <1>3, <1>4, <2>3, <2>4, <2>5, <2>8, <2>9, <2>10 DEF Made
  <2>12. QED
    BY <2>11
<1>8. QED
  BY <1>6, <1>7

\* The new object shows what the tile shows.
LEMMA MadePainted ==
    ASSUME Store, Store', Painted, NEW t \in Threads, popClone(t) \/ copyTileData(t)
    PROVE  Painted'
<1>1. PICK x, z \in TileData : \E data \in SUBSET (1..MaxWrites) : Made(t, x, z, data)
  BY MadeShape
<1>2. PICK data \in SUBSET (1..MaxWrites) : Made(t, x, z, data)
  BY <1>1
<1>3. UNCHANGED <<tile, items, swapVars, raced>>
  BY DEF popClone, copyTileData, history
<1>4. TilesStay /\ ItemsStay
  BY <1>3, TilesUntouched, ItemsUntouched
<1>5. PICK s : s = [at[t] EXCEPT !.pc = "register", !.td = z]
  OBVIOUS
<1>6. Moves(t, s) /\ at[t] \in AgentRecord /\ at'[t] = s
  <2>1. Moves(t, s) /\ at[t] \in AgentRecord
    BY <1>2, <1>5, Stepped DEF Made
  <2>2. QED
    BY <2>1 DEF Moves
<1>7. s.pc = "register" /\ s.td = z /\ s.tile = at[t].tile /\ s.write = at[t].write
  BY <1>5, <1>6 DEF AgentRecord
<1>8. /\ td'[z].m_data = data /\ td'[z].m_usersCount = 0 /\ td'[z].m_clonesStack = <<>>
      /\ loaded(z)' /\ td[z].exists # TRUE
  <2>1. td'[z] = NewTileData(data) /\ td[z].exists # TRUE
    BY <1>2 DEF Made
  <2>2. data # NoData
    BY StoreAssumption
  <2>3. td'[z].m_data = data /\ td'[z].m_usersCount = 0 /\ td'[z].m_clonesStack = <<>>
    BY <2>1 DEF NewTileData
  <2>4. QED
    BY <2>1, <2>2, <2>3 DEF loaded
<1>9. \A w \in TileData : w # z => contents(w)' = contents(w) /\ (loaded(w)' <=> loaded(w))
  BY <1>2, <1>3, ContentsSame DEF Made
<1>10. UsersStay
  <2>1. ASSUME NEW w \in TileData, w # z PROVE UserStays(w)
    <3>1. td'[w].m_usersCount = td[w].m_usersCount
      BY <1>2, <2>1 DEF Made
    <3>2. QED
      BY <3>1 DEF UserStays
  <2>2. UserStays(z)
    <3>1. ~(0 > 1)
      OBVIOUS
    <3>2. QED
      BY <1>8, <3>1 DEF UserStays
  <2>3. QED
    BY <2>1, <2>2 DEF UsersStay
<1>11. ImagesStay
  BY <1>8, <1>9 DEF ImagesStay, ImageStays
<1>12. ASSUME OneWriter PROVE ClonesStay
  <2>1. Fresh /\ DOMAIN <<>> = {}
    BY <1>12 DEF Painted
  <2>2. ASSUME NEW w \in TileData, w # z
        PROVE  /\ ~loaded(w)' => td'[w].m_clonesStack = <<>>
               /\ \A i \in DOMAIN td'[w].m_clonesStack :
                    /\ i \in DOMAIN td[w].m_clonesStack
                    /\ td'[w].m_clonesStack[i] = td[w].m_clonesStack[i]
                    /\ td'[w].m_data = td[w].m_data
    BY <1>2, <1>9, <2>1, <2>2 DEF Made, Fresh
  <2>3. QED
    BY <1>8, <1>10, <2>1, <2>2 DEF ClonesStay, UsersStay
<1>13. ~points(s) /\ ~owns(s) /\ s.pc # "writing"
  BY <1>7 DEF points, owns, where, loads, SwapLabels, LoadLabels
<1>14. PenRight(t)'
  BY <1>6, <1>13 DEF PenRight
<1>15. ASSUME OneWriter PROVE HandRight(t)'
  <2>1. SUFFICES ASSUME ~raced' PROVE contents(z)' = tile'[at[t].tile].expected
    <3>1. at'[t].td = z /\ at'[t].tile = at[t].tile
      BY <1>6, <1>7
    <3>2. contents(at[t].td)' = contents(z)'
      BY <3>1 DEF contents, loaded, stored
    <3>3. QED
      BY <3>1, <3>2 DEF HandRight
  <2>2. ~raced /\ tile' = tile
    BY <1>3, <2>1
  <2>3. contents(z)' = data
    BY <1>8 DEF contents
  <2>4. data = td[x].m_data
    <3>1. Fresh
      BY <1>15 DEF Painted
    <3>2. QED
      BY <1>2, <2>2, <3>1 DEF Made, Fresh
  <2>5. contents(x) = td[x].m_data
    BY <1>2 DEF Made, contents
  <2>6. contents(x) = tile[at[t].tile].expected
    <3>1. x # NoTileData /\ x = tile[at[t].tile].m_tileData /\ at[t].tile \in Tiles
      BY <1>2, StoreAssumption DEF Made
    <3>2. QED
      BY <1>15, <2>2, <3>1 DEF Painted, TilesKeepTheirPixels
  <2>7. QED
    BY <2>2, <2>3, <2>4, <2>5, <2>6
<1>16. \A w \in TileData : ~cloning(t, w)'
  BY <1>6, <1>7 DEF cloning
<1>17. QED
  BY <1>3, <1>4, <1>6, <1>7, <1>10, <1>11, <1>12, <1>14, <1>15, <1>16, ActorPainted DEF PixelsStay

\* acquire(): one more user, and the clones of data with one user are gone.
LEMMA AcquiredUsers ==
    ASSUME NEW objects \in [TileData -> Object], NEW x \in TileData,
           NEW changed, changed = acquired(objects, x)
    PROVE  /\ \A w \in TileData : w # x => changed[w] = objects[w]
           /\ changed[x].m_usersCount = objects[x].m_usersCount + 1
           /\ changed[x].m_clonesStack =
                IF objects[x].m_usersCount = 1 THEN <<>> ELSE objects[x].m_clonesStack
<1>1. objects[x] \in Object
  OBVIOUS
<1>2. PICK clones : clones = IF objects[x].m_usersCount = 1 THEN <<>> ELSE objects[x].m_clonesStack
  OBVIOUS
<1>3. PICK n : n = objects[x].m_usersCount + 1
  OBVIOUS
<1>4. PICK m : m = objects[x].m_refCount + 1
  OBVIOUS
<1>5. PICK r : r = [objects[x] EXCEPT !.m_usersCount = n, !.m_refCount = m, !.m_clonesStack = clones]
  OBVIOUS
<1>6. changed = [objects EXCEPT ![x] = r]
  BY <1>1, <1>2, <1>3, <1>4, <1>5 DEF acquired
<1>7. r.m_usersCount = n /\ r.m_clonesStack = clones
  BY <1>1, <1>5 DEF Object
<1>8. QED
  BY <1>2, <1>3, <1>6, <1>7

\* The new object gets its first user, which is its maker.
LEMMA RegisterPainted ==
    ASSUME Store, Store', Painted, NEW t \in Threads, registerTileData(t)
    PROVE  Painted'
<1>1. /\ at[t] \in AgentRecord /\ ThreadShape(at[t]) /\ at[t].pc = "register" /\ makes(at[t])
      /\ at \in [Agents -> AgentRecord] /\ t \in Agents
  BY ThreadRecord DEF Store, registerTileData, makes, where, SwapLabels
<1>2. PICK x \in TileData : x = at[t].td
  BY <1>1, HeldData DEF HandKnown, holds, Store
<1>3. td[x].m_usersCount = 0 /\ td \in [TileData -> Object] /\ td[x] \in Object
  BY <1>1, <1>2, HeldData DEF HandKnown, holds, Store, Placed, ObjectsTyped
<1>4. PICK s : s = [at[t] EXCEPT !.pc = "blockNew"]
  OBVIOUS
<1>5. PICK objects : objects = [td EXCEPT ![x].listed = TRUE]
  OBVIOUS
<1>6. /\ td' = acquired(objects, x) /\ at' = [at EXCEPT ![t] = s]
      /\ UNCHANGED <<tile, items, swapVars, raced>>
  BY <1>2, <1>4, <1>5 DEF registerTileData, goto, history
<1>7. /\ objects \in [TileData -> Object]
      /\ \A w \in TileData : w # x => objects[w] = td[w]
      /\ objects[x].m_data = td[x].m_data /\ objects[x].m_swapChunk = td[x].m_swapChunk
      /\ objects[x].m_usersCount = 0 /\ objects[x].m_clonesStack = td[x].m_clonesStack
      /\ objects[x].exists = td[x].exists
  BY <1>3, <1>5 DEF Object
<1>8. /\ \A w \in TileData : w # x => td'[w] = td[w]
      /\ td'[x].m_usersCount = 1 /\ td'[x].m_clonesStack = td[x].m_clonesStack
  BY <1>6, <1>7, AcquiredUsers
<1>9. td'[x].m_data = td[x].m_data /\ td'[x].m_swapChunk = td[x].m_swapChunk
  BY <1>6, <1>7, AcquiredFields
<1>10. Moves(t, s) /\ at'[t] = s /\ s \in AgentRecord
  <2>1. Moves(t, s) /\ s \in AgentRecord
    BY <1>6, Stepped
  <2>2. QED
    BY <2>1 DEF Moves
<1>11. s.pc = "blockNew" /\ s.td = x /\ s.tile = at[t].tile /\ s.write = at[t].write
  BY <1>1, <1>2, <1>4 DEF AgentRecord
<1>12. \A w \in TileData :
            /\ td'[w].m_data = td[w].m_data /\ td'[w].m_swapChunk = td[w].m_swapChunk
            /\ td'[w].m_clonesStack = td[w].m_clonesStack
            /\ UserStays(w)
  <2>1. ASSUME NEW w \in TileData, w # x
        PROVE  /\ td'[w].m_data = td[w].m_data /\ td'[w].m_swapChunk = td[w].m_swapChunk
               /\ td'[w].m_clonesStack = td[w].m_clonesStack
               /\ UserStays(w)
    BY <1>8, <2>1 DEF UserStays
  <2>2. UserStays(x)
    <3>1. ~(1 > 1)
      OBVIOUS
    <3>2. QED
      BY <1>8, <3>1 DEF UserStays
  <2>3. QED
    BY <1>8, <1>9, <2>1, <2>2
<1>13. \A w \in TileData : contents(w)' = contents(w) /\ (loaded(w)' <=> loaded(w))
  BY <1>6, <1>12, ContentsSame
<1>14. ASSUME OneWriter PROVE PixelsStay
  <2>1. Fresh
    BY <1>14 DEF Painted
  <2>2. ClonesStay
    BY <1>12, <1>13, <2>1 DEF ClonesStay, Fresh
  <2>3. QED
    BY <1>12, <1>13, <2>2 DEF PixelsStay, UsersStay, ImagesStay, ImageStays
<1>15. PenRight(t)'
  <2>1. ~points(s) /\ s.pc # "writing"
    BY <1>11 DEF points, where, SwapLabels
  <2>2. td'[s.td].m_usersCount = 1
    BY <1>8, <1>11
  <2>3. QED
    BY <1>10, <2>1, <2>2 DEF PenRight
<1>16. ASSUME OneWriter PROVE HandRight(t)'
  <2>1. SUFFICES ASSUME ~raced' PROVE contents(x)' = tile'[at[t].tile].expected
    <3>1. at'[t].td = x /\ at'[t].tile = at[t].tile
      BY <1>10, <1>11
    <3>2. contents(at[t].td)' = contents(x)'
      BY <3>1 DEF contents, loaded, stored
    <3>3. QED
      BY <3>1, <3>2 DEF HandRight
  <2>2. ~raced /\ tile' = tile /\ contents(x)' = contents(x)
    BY <1>6, <1>13, <2>1
  <2>3. HandRight(t)
    BY <1>16 DEF Painted, Hands
  <2>4. QED
    BY <1>1, <1>2, <2>2, <2>3 DEF HandRight, holds
<1>17. \A w \in TileData : ~cloning(t, w)'
  BY <1>10, <1>11 DEF cloning
<1>18. TilesStay /\ ItemsStay /\ raced' = raced
  BY <1>6, TilesUntouched, ItemsUntouched
<1>19. QED
  BY <1>10, <1>11, <1>14, <1>15, <1>16, <1>17, <1>18, ActorPainted

\* Nobody but its writer points to the data of a tile, copies it or has a copy of it.
LEMMA OneWriterOnly ==
    ASSUME Ordered, WriterAlone, NEW t \in Threads, at[t].write,
           NEW u \in Threads, u # t, at[u].tile = at[t].tile
    PROVE  ~points(at[u]) /\ ~holds(at[u]) /\ at[u].pc # "clone" /\ ~owns(at[u]) /\ at[u].pc # "writing"
<1>1. ~at[u].write
  BY DEF WriterAlone
<1>2. QED
  BY <1>1, ThreadRecord, WritersShape

\* The copy takes the place of the data.
LEMMA InstallShape ==
    ASSUME Store, NEW t \in Threads, installTileData(t), NEW y \in Tiles, y = at[t].tile,
           NEW x \in TileData, x = at[t].td
    PROVE  /\ tile'[y].m_tileData = x /\ tile'[y].expected = tile[y].expected
           /\ \A z \in Tiles : z # y => TileStays(z)
           /\ Alike(td')
<1>1. tile[y] \in KisTile /\ tile \in [Tiles -> KisTile]
  BY DEF Store, Ordered, TilesLocked
<1>2. PICK index, new, seq :
        /\ index = tile[y].indexed /\ new = (IF y \in Copies THEN NoTileData ELSE x)
        /\ seq = Append(tile[y].m_oldTileData, tile[y].m_tileData)
  OBVIOUS
<1>3. tile' = [tile EXCEPT ![y].m_tileData = x, ![y].m_oldTileData = seq, ![y].indexed = new,
                           ![y].m_COWMutex = NoOne]
  <2>1. tile' = [tile EXCEPT
          ![y].m_tileData = x,
          ![y].m_oldTileData = Append(@, tile[y].m_tileData),
          ![y].indexed = IF y \in Copies THEN NoTileData ELSE x,
          ![y].m_COWMutex = NoOne]
    BY DEF installTileData
  <2>2. QED
    BY <1>1, <1>2, <2>1
<1>4. /\ tile'[y].m_tileData = x /\ tile'[y].expected = tile[y].expected
      /\ \A z \in Tiles : z # y => tile'[z] = tile[z]
  BY <1>1, <1>3 DEF KisTile
<1>5. Alike(td) /\ Placed /\ index \in TileData \cup {NoTileData}
  BY <1>1, <1>2, AlikeItself DEF Store, KisTile
<1>6. Alike(td')
  <2>1. CASE y \in Copies
    <3>1. td' = td
      BY <2>1 DEF installTileData
    <3>2. QED
      BY <1>5, <3>1
  <2>2. CASE y \notin Copies
    <3>1. PICK objects : objects = IF index = NoTileData THEN td ELSE [td EXCEPT ![index].m_refCount = @ - 1]
      OBVIOUS
    <3>2. td' = [objects EXCEPT ![x].m_refCount = @ + 1]
      BY <1>2, <2>2, <3>1 DEF installTileData
    <3>3. Alike(objects)
      <4>1. CASE index = NoTileData
        BY <1>5, <3>1, <4>1
      <4>2. CASE index # NoTileData
        <5>1. PICK n \in Int : n = td[index].m_refCount - 1
          BY <1>5, <4>2 DEF Alike, Object
        <5>2. objects = [td EXCEPT ![index].m_refCount = n]
          BY <3>1, <4>2, <5>1
        <5>3. index \in TileData
          BY <1>5, <4>2
        <5>4. QED
          BY <1>5, <5>2, <5>3, AlikeLocked
      <4>3. QED
        BY <4>1, <4>2
    <3>4. PICK n \in Int : n = objects[x].m_refCount + 1
      BY <3>3 DEF Alike, Object
    <3>5. td' = [objects EXCEPT ![x].m_refCount = n]
      BY <3>2, <3>4
    <3>6. QED
      BY <1>5, <3>3, <3>5, AlikeLocked
  <2>3. QED
    BY <2>1, <2>2
<1>7. QED
  BY <1>4, <1>6 DEF TileStays

\* The tile shows the copy instead of what it has shown; to nobody else it
\* makes a difference, for the writer is alone.
LEMMA InstallPainted ==
    ASSUME Store, Store', Painted, NEW t \in Threads, installTileData(t)
    PROVE  Painted'
<1> SUFFICES ASSUME OneWriter
             PROVE  /\ WriterAlone' /\ Pens' /\ Fresh' /\ Hands'
                    /\ TilesKeepTheirPixels' /\ HistoryKeepsItsPixels'
  BY DEF Painted
<1>1. /\ WriterAlone /\ Pens /\ Fresh /\ Hands /\ TilesKeepTheirPixels /\ HistoryKeepsItsPixels
      /\ Ordered /\ Ordered' /\ Counted /\ Counted'
  BY DEF Painted, Store
<1>2. /\ at[t] \in AgentRecord /\ ThreadShape(at[t]) /\ at[t].pc = "install"
      /\ at \in [Agents -> AgentRecord] /\ t \in Agents
  BY ThreadRecord DEF Store, installTileData
<1>3. owns(at[t]) /\ holds(at[t])
  BY <1>2 DEF owns, holds, where, SwapLabels
<1>4. PICK y \in Tiles, x \in TileData : y = at[t].tile /\ x = at[t].td
  BY <1>1, <1>3, HeldData DEF HandKnown
<1>5. at[t].write
  BY <1>1, <1>3, HeldData DEF HandKnown
<1>6. /\ tile'[y].m_tileData = x /\ tile'[y].expected = tile[y].expected
      /\ \A z \in Tiles : z # y => TileStays(z)
      /\ Alike(td')
  BY <1>4, InstallShape
<1>7. UNCHANGED <<items, swapVars, raced>>
  BY DEF installTileData, history
<1>8. ItemsStay /\ (raced => raced' = TRUE)
  BY <1>7, ItemsUntouched
<1>9. UsersStay /\ ClonesStay /\ ImagesStay
  BY <1>1, <1>6, <1>7, AlikeStays DEF PixelsStay, Store
<1>10. PICK s : s = [at[t] EXCEPT !.pc = "writing"]
  OBVIOUS
<1>11. /\ Moves(t, s) /\ s.pc = "writing" /\ s.tile = y /\ s.td = x /\ s.write
       /\ s \in AgentRecord /\ ThreadShape(s)
  <2>1. at' = [at EXCEPT ![t] = s]
    BY <1>10 DEF installTileData, goto
  <2>2. QED
    BY <1>2, <1>4, <1>5, <1>10, <2>1, Stepped DEF AgentRecord
<1>12. at'[t] = s /\ \A u \in Threads : u # t => at'[u] = at[u]
  BY <1>11 DEF Moves, Agents
<1>13. ASSUME NEW u \in Threads, u # t, at[u].tile = y
       PROVE  ~points(at[u]) /\ ~holds(at[u]) /\ at[u].pc # "clone" /\ ~owns(at[u]) /\ at[u].pc # "writing"
  BY <1>1, <1>4, <1>5, <1>13, OneWriterOnly
<1>14. WriterAlone'
  BY <1>1, <1>4, <1>5, <1>11, <1>12, WriterStaysAlone
<1>15. Pens'
  <2>1. ASSUME NEW u \in Threads, u # t, at[u].tile = y PROVE PenRight(u)'
    BY <1>12, <1>13, <2>1 DEF PenRight
  <2>2. ASSUME NEW u \in Threads, u # t, at[u].tile # y PROVE PenRight(u)'
    <3>1. Continues(at[u], at'[u])
      BY <1>12, <2>2 DEF Continues
    <3>2. at[u].tile \in Tiles => TileStays(at[u].tile)
      BY <1>6, <2>2
    <3>3. QED
      BY <1>1, <1>9, <3>1, <3>2, PenStays DEF Pens, UsersStay
  <2>3. PenRight(t)'
    <3>1. td[x].m_usersCount = 1
      BY <1>1, <1>3, <1>4 DEF Pens, PenRight
    <3>2. td'[x].m_usersCount \in Nat /\ td'[x].m_usersCount # 0
      <4>1. y \in showing(x)'
        BY <1>6 DEF showing
      <4>2. QED
        BY <1>1, <4>1, UsersNext DEF UseCounted
    <3>3. td'[x].m_usersCount = 1
      <4>1. ~(td'[x].m_usersCount > 1)
        BY <1>9, <3>1 DEF UsersStay, UserStays
      <4>2. QED
        BY <3>2, <4>1
    <3>4. QED
      BY <1>6, <1>11, <1>12, <3>3 DEF PenRight
  <2>4. QED
    BY <2>1, <2>2, <2>3 DEF Pens
<1>16. Fresh'
  <2>1. ASSUME NEW w \in TileData, NEW u \in Threads, cloning(u, w)' PROVE cloning(u, w)
    <3>1. u # t
      BY <1>11, <1>12, <2>1 DEF cloning
    <3>2. at[u].pc = "clone" /\ at'[u] = at[u]
      BY <1>12, <2>1, <3>1 DEF cloning
    <3>3. at[u].tile \in Tiles /\ at[u].tile # y
      BY <1>1, <1>13, <3>1, <3>2, ThreadRecord, WritersShape
    <3>4. QED
      BY <1>6, <2>1, <3>2, <3>3 DEF cloning, TileStays
  <2>2. QED
    BY <1>1, <1>8, <1>9, <2>1, FreshStays
<1>17. Hands'
  <2>1. ASSUME NEW u \in Threads, u # t, at[u].tile = y PROVE HandRight(u)'
    BY <1>12, <1>13, <2>1 DEF HandRight, holds
  <2>2. ASSUME NEW u \in Threads, u # t, at[u].tile # y PROVE HandRight(u)'
    <3>1. Continues(at[u], at'[u])
      BY <1>12, <2>2 DEF Continues
    <3>2. at[u].tile \in Tiles => tile'[at[u].tile].expected = tile[at[u].tile].expected
      BY <1>6, <2>2 DEF TileStays
    <3>3. QED
      BY <1>1, <1>8, <1>9, <3>1, <3>2, HandStays DEF Hands, ImagesStay
  <2>3. HandRight(t)'
    <3>1. ~holds(s)
      BY <1>11 DEF holds, makes, owns, loads, where, SwapLabels, LoadLabels
    <3>2. QED
      BY <1>12, <3>1 DEF HandRight, holds
  <2>4. QED
    BY <2>1, <2>2, <2>3 DEF Hands
<1>18. TilesKeepTheirPixels'
  <2>1. ASSUME NEW z \in Tiles, z # y PROVE TileRight(z)'
    <3>1. TileRight(z) /\ TileStays(z)
      BY <1>1, <1>6, <2>1 DEF TilesKeepTheirPixels, TileRight
    <3>2. QED
      BY <1>1, <1>8, <1>9, <3>1, TileStaysRight DEF ImagesStay
  <2>2. TileRight(y)'
    <3>1. SUFFICES ASSUME ~raced' PROVE contents(x)' = tile'[y].expected
      <4>1. tile'[y].m_tileData = x
        BY <1>6
      <4>2. contents(tile[y].m_tileData)' = contents(x)'
        BY <4>1 DEF contents, loaded, stored
      <4>3. QED
        BY <3>1, <4>1, <4>2 DEF TileRight
    <3>2. contents(x)' = contents(x)
      BY <1>6, <1>7, ContentsSame DEF Alike
    <3>3. ~raced
      BY <1>7, <3>1
    <3>4. contents(x) = tile[y].expected
      BY <1>1, <1>3, <1>4, <3>3 DEF Hands, HandRight
    <3>5. QED
      BY <1>6, <3>2, <3>4
  <2>3. QED
    BY <2>1, <2>2 DEF TilesKeepTheirPixels, TileRight
<1>19. HistoryKeepsItsPixels'
  BY <1>1, <1>8, <1>9, ItemsStayRight
<1>20. QED
  BY <1>14, <1>15, <1>16, <1>17, <1>18, <1>19

-------------------------------------------------------------------------------
(***************************************************************************)
(* The write.                                                              *)
(***************************************************************************)
\* The pixel goes into the data of the tile, and into no other.
Penned(t, y, x, number) ==
    /\ y = at[t].tile /\ x = at[t].td /\ x = tile[y].m_tileData
    /\ td[x].m_usersCount = 1 /\ loaded(x) /\ loaded(x)'
    /\ td'[x].m_data = td[x].m_data \cup {number} /\ td'[x].m_usersCount = 1
    /\ \A w \in TileData : w # x => td'[w] = td[w]
    /\ tile'[y].m_tileData = x /\ tile'[y].expected = tile[y].expected \cup {number}
    /\ \A z \in Tiles : z # y => TileStays(z)

\* A writer points to data in memory, after the step too.
LEMMA PointerLoadedNext ==
    Ordered' /\ Placed' => \A t \in Threads : points(at'[t]) => td'[at'[t].td].m_data # NoData
<1>1. Ordered /\ Placed => \A t \in Threads : points(at[t]) => td[at[t].td].m_data # NoData
  BY PointerLoaded DEF loaded
<1>2. (Ordered /\ Placed)' => (\A t \in Threads : points(at[t]) => td[at[t].td].m_data # NoData)'
  BY <1>1, PTL
<1>3. QED
  BY <1>2

\* The shape of writePixel().
LEMMA PennedShape ==
    ASSUME Store, Store', NEW t \in Threads, PenRight(t), writePixel(t)
    PROVE  \E y \in Tiles, x \in TileData : Penned(t, y, x, written')
<1>1. at[t] \in AgentRecord /\ ThreadShape(at[t]) /\ at[t].pc = "writing"
  BY ThreadRecord DEF Store, writePixel
<1>2. points(at[t]) /\ at[t].tile # NoTile
  BY <1>1 DEF points, where, ThreadShape, frees, SwapLabels
<1>3. PICK x \in TileData : x = at[t].td /\ loaded(x)
  BY <1>2, PointerLoaded DEF Store
<1>4. PICK y \in Tiles : y = at[t].tile
  BY <1>2, UsedTile DEF Store
<1>5. x = tile[y].m_tileData /\ td[x].m_usersCount = 1
  BY <1>1, <1>2, <1>3, <1>4 DEF PenRight
<1>6. PICK number : number = written'
  OBVIOUS
<1>7. PICK r, p : r = [td[x] EXCEPT !.m_data = @ \cup {number}]
                  /\ p = [tile[y] EXCEPT !.expected = @ \cup {number}]
  OBVIOUS
<1>8. td' = [td EXCEPT ![x] = r] /\ tile' = [tile EXCEPT ![y] = p]
  BY <1>3, <1>4, <1>6, <1>7 DEF writePixel
<1>9. /\ td \in [TileData -> Object] /\ td[x] \in Object
      /\ tile \in [Tiles -> KisTile] /\ tile[y] \in KisTile
  BY DEF Store, Placed, ObjectsTyped, Ordered, TilesLocked
<1>10. /\ r.m_data = td[x].m_data \cup {number} /\ r.m_usersCount = 1
       /\ p.m_tileData = x /\ p.expected = tile[y].expected \cup {number}
  BY <1>5, <1>7, <1>9 DEF Object, KisTile
<1>11. /\ td'[x] = r /\ tile'[y] = p
       /\ \A w \in TileData : w # x => td'[w] = td[w]
       /\ \A z \in Tiles : z # y => tile'[z] = tile[z]
  BY <1>8, <1>9
<1>12. loaded(x)'
  <2>1. at'[t].pc = "wrote" /\ at'[t].td = x
    BY <1>1, <1>3, ThreadRecord DEF writePixel, goto, Store, AgentRecord
  <2>2. points(at'[t])
    BY <2>1 DEF points, where, SwapLabels
  <2>3. QED
    BY <2>1, <2>2, PointerLoadedNext DEF Store, loaded
<1>13. QED
  BY <1>3, <1>4, <1>5, <1>6, <1>10, <1>11, <1>12 DEF Penned, TileStays

\* Nobody else sees the data that is written to.
LEMMA WritePainted ==
    ASSUME Store, Store', Painted, NEW t \in Threads, writePixel(t)
    PROVE  Painted'
<1> SUFFICES ASSUME OneWriter
             PROVE  /\ WriterAlone' /\ Pens' /\ Fresh' /\ Hands'
                    /\ TilesKeepTheirPixels' /\ HistoryKeepsItsPixels'
  BY DEF Painted
<1>1. /\ WriterAlone /\ Pens /\ Fresh /\ Hands /\ TilesKeepTheirPixels /\ HistoryKeepsItsPixels
      /\ Ordered /\ Ordered' /\ Counted /\ Counted'
  BY DEF Painted, Store
<1>2. /\ at[t] \in AgentRecord /\ ThreadShape(at[t]) /\ at[t].pc = "writing"
      /\ at \in [Agents -> AgentRecord] /\ t \in Agents
  BY ThreadRecord DEF Store, writePixel
<1>3. PICK number : number = written'
  OBVIOUS
<1>4. PICK y \in Tiles, x \in TileData : Penned(t, y, x, number)
  BY <1>1, <1>3, PennedShape DEF Pens
<1>5. points(at[t]) /\ at[t].write
  BY <1>2, WritersShape DEF points, where, SwapLabels
<1>6. /\ showing(x) = {y} /\ kept(x) = {} /\ owning(x) = {}
  <2>1. y \in showing(x)
    BY <1>4 DEF showing, Penned
  <2>2. \A z \in showing(x) : z = y
    BY <1>1, <1>4, <2>1, OneUser DEF Penned
  <2>3. kept(x) = {} /\ owning(x) = {}
    BY <1>1, <1>4, <2>1, OneUser DEF Penned
  <2>4. QED
    BY <2>1, <2>2, <2>3
<1>7. UNCHANGED <<items, swapVars, raced>> /\ (raced => raced' = TRUE)
  BY DEF writePixel
<1>8. PICK s : s = [at[t] EXCEPT !.pc = "wrote"]
  OBVIOUS
<1>9. /\ Moves(t, s) /\ s.pc = "wrote" /\ s.tile = y /\ s.td = x /\ s.write
      /\ s \in AgentRecord /\ ThreadShape(s)
  <2>1. at' = [at EXCEPT ![t] = s]
    BY <1>8 DEF writePixel, goto
  <2>2. QED
    BY <1>2, <1>4, <1>5, <1>8, <2>1, Stepped DEF AgentRecord, Penned
<1>10. at'[t] = s /\ \A u \in Threads : u # t => at'[u] = at[u]
  BY <1>9 DEF Moves, Agents
<1>11. ASSUME NEW u \in Threads, u # t, at[u].tile = y
       PROVE  ~points(at[u]) /\ ~holds(at[u]) /\ at[u].pc # "clone" /\ ~owns(at[u]) /\ at[u].pc # "writing"
  BY <1>1, <1>4, <1>5, <1>11, OneWriterOnly DEF Penned
<1>12. \A w \in TileData : UserStays(w)
  BY <1>4 DEF Penned, UserStays
<1>13. ASSUME NEW w \in TileData, w # x PROVE ImageStays(w) /\ (loaded(w)' <=> loaded(w))
  <2>1. td'[w] = td[w]
    BY <1>4, <1>13 DEF Penned
  <2>2. QED
    BY <1>7, <2>1, ContentsSame DEF ImageStays
<1>14. WriterAlone'
  BY <1>1, <1>4, <1>5, <1>9, <1>10, WriterStaysAlone DEF Penned
<1>15. Pens'
  <2>1. ASSUME NEW u \in Threads, u # t, at[u].tile = y PROVE PenRight(u)'
    BY <1>10, <1>11, <2>1 DEF PenRight
  <2>2. ASSUME NEW u \in Threads, u # t, at[u].tile # y PROVE PenRight(u)'
    <3>1. Continues(at[u], at'[u])
      BY <1>10, <2>2 DEF Continues
    <3>2. at[u].tile \in Tiles => TileStays(at[u].tile)
      BY <1>4, <2>2 DEF Penned
    <3>3. QED
      BY <1>1, <1>12, <3>1, <3>2, PenStays DEF Pens
  <2>3. PenRight(t)'
    <3>1. ~owns(s)
      BY <1>9 DEF owns, loads, where, SwapLabels, LoadLabels
    <3>2. tile'[y].m_tileData = x
      BY <1>4 DEF Penned
    <3>3. QED
      BY <1>9, <1>10, <3>1, <3>2 DEF PenRight
  <2>4. QED
    BY <2>1, <2>2, <2>3 DEF Pens
<1>16. \A w \in TileData : \A u \in Threads : cloning(u, w)' => cloning(u, w) /\ w # x
  <2>1. SUFFICES ASSUME NEW w \in TileData, NEW u \in Threads, cloning(u, w)'
                 PROVE  cloning(u, w) /\ w # x
    OBVIOUS
  <2>2. u # t
    BY <1>9, <1>10, <2>1 DEF cloning
  <2>3. at[u].pc = "clone" /\ at'[u] = at[u] /\ tile'[at[u].tile].m_tileData = w
    BY <1>10, <2>1, <2>2 DEF cloning
  <2>4. at[u].tile \in Tiles /\ at[u].tile # y
    BY <1>1, <1>11, <2>2, <2>3, ThreadRecord, WritersShape
  <2>5. tile[at[u].tile].m_tileData = w
    BY <1>4, <2>3, <2>4 DEF Penned, TileStays
  <2>6. at[u].tile \in showing(w)
    BY <2>4, <2>5 DEF showing
  <2>7. QED
    BY <1>6, <2>3, <2>4, <2>5, <2>6 DEF cloning
<1>17. Fresh'
  <2>1. ~(1 > 1)
    OBVIOUS
  <2>2. loaded(x)' /\ td'[x].m_usersCount = 1 /\ ~(td'[x].m_usersCount > 1)
    BY <1>4, <2>1 DEF Penned
  <2>3. ASSUME NEW w \in TileData, w # x
        PROVE  /\ td'[w] = td[w] /\ (loaded(w)' <=> loaded(w))
               /\ \A u \in Threads : cloning(u, w)' => cloning(u, w)
    BY <1>4, <1>13, <1>16, <2>3 DEF Penned
  <2>4. ASSUME NEW u \in Threads PROVE ~cloning(u, x)'
    BY <1>16
  <2>5. QED
    BY <1>1, <1>7, <2>2, <2>3, <2>4 DEF Fresh
<1>18. Hands'
  <2>1. ASSUME NEW u \in Threads, u # t, at[u].tile = y PROVE HandRight(u)'
    BY <1>10, <1>11, <2>1 DEF HandRight, holds
  <2>2. ASSUME NEW u \in Threads, u # t, at[u].tile # y, holds(at[u]) PROVE HandRight(u)'
    <3>1. Continues(at[u], at'[u])
      BY <1>10, <2>2 DEF Continues
    <3>2. at[u].tile \in Tiles => tile'[at[u].tile].expected = tile[at[u].tile].expected
      BY <1>4, <2>2 DEF Penned, TileStays
    <3>3. at[u].td # x
      <4>1. HandKnown(u)
        BY <1>1, HeldData
      <4>2. makes(at[u]) => td[at[u].td].m_usersCount = 0
        BY <2>2, <4>1 DEF HandKnown
      <4>3. owns(at[u]) => u \in owning(at[u].td)
        BY <2>2, <4>1 DEF HandKnown
      <4>4. td[x].m_usersCount = 1
        BY <1>4 DEF Penned
      <4>5. QED
        BY <1>6, <2>2, <4>2, <4>3, <4>4 DEF holds
    <3>4. \A w \in TileData : w = at[u].td => ImageStays(w)
      BY <1>13, <3>3
    <3>5. HandRight(u)
      BY <1>1 DEF Hands
    <3>6. QED
      BY <1>1, <1>7, <3>1, <3>2, <3>4, <3>5, HandStays
  <2>3. ASSUME NEW u \in Threads, u # t, ~holds(at[u]) PROVE HandRight(u)'
    BY <1>10, <2>3 DEF HandRight, holds
  <2>4. HandRight(t)'
    <3>1. ~holds(s)
      BY <1>9 DEF holds, makes, owns, loads, where, SwapLabels, LoadLabels
    <3>2. QED
      BY <1>10, <3>1 DEF HandRight, holds
  <2>5. QED
    BY <2>1, <2>2, <2>3, <2>4 DEF Hands
<1>19. TilesKeepTheirPixels'
  <2>1. ASSUME NEW z \in Tiles, z # y PROVE TileRight(z)'
    <3>1. TileRight(z) /\ TileStays(z)
      BY <1>1, <1>4, <2>1 DEF TilesKeepTheirPixels, TileRight, Penned
    <3>2. tile[z].m_tileData # x
      BY <1>6, <2>1 DEF showing
    <3>3. \A w \in TileData : w = tile[z].m_tileData => ImageStays(w)
      BY <1>13, <3>2
    <3>4. QED
      BY <1>1, <1>7, <3>1, <3>3, TileStaysRight
  <2>2. TileRight(y)'
    <3>1. SUFFICES ASSUME ~raced' PROVE contents(x)' = tile'[y].expected
      <4>1. tile'[y].m_tileData = x
        BY <1>4 DEF Penned
      <4>2. contents(tile[y].m_tileData)' = contents(x)'
        BY <4>1 DEF contents, loaded, stored
      <4>3. QED
        BY <3>1, <4>1, <4>2 DEF TileRight
    <3>2. contents(x)' = td[x].m_data \cup {number}
      BY <1>4 DEF Penned, contents
    <3>3. contents(x) = td[x].m_data
      BY <1>4 DEF Penned, contents
    <3>4. contents(x) = tile[y].expected
      <4>1. x # NoTileData /\ x = tile[y].m_tileData /\ ~raced
        BY <1>4, <1>7, <3>1, StoreAssumption DEF Penned
      <4>2. QED
        BY <1>1, <4>1 DEF TilesKeepTheirPixels
    <3>5. tile'[y].expected = tile[y].expected \cup {number}
      BY <1>4 DEF Penned
    <3>6. QED
      BY <3>2, <3>3, <3>4, <3>5
  <2>3. QED
    BY <2>1, <2>2 DEF TilesKeepTheirPixels, TileRight
<1>20. HistoryKeepsItsPixels'
  <2>1. ASSUME NEW i \in DOMAIN items' PROVE ItemRight(i)'
    <3>1. i \in DOMAIN items /\ items'[i] = items[i]
      BY <1>7
    <3>2. items[i].td # x
      BY <1>6, <3>1 DEF kept
    <3>3. \A w \in TileData : w = items[i].td => ImageStays(w)
      BY <1>13, <3>2
    <3>4. QED
      BY <1>1, <1>7, <3>1, <3>3, ItemStaysRight
  <2>2. QED
    BY <2>1 DEF HistoryKeepsItsPixels, ItemRight
<1>21. QED
  BY <1>14, <1>15, <1>17, <1>18, <1>19, <1>20

-------------------------------------------------------------------------------
(***************************************************************************)
(* The data of a quiet tile gets one more user.                            *)
(***************************************************************************)
GainsUser(x) ==
    /\ \A w \in TileData :
        /\ td'[w].m_data = td[w].m_data /\ td'[w].m_swapChunk = td[w].m_swapChunk
        /\ w # x => td'[w].m_usersCount = td[w].m_usersCount
                    /\ td'[w].m_clonesStack = td[w].m_clonesStack
    /\ td'[x].m_clonesStack = IF td[x].m_usersCount = 1 THEN <<>> ELSE td[x].m_clonesStack

\* A tile stays, or it is new and shows what the quiet tile y shows.
TileCopies(z, y) ==
    \/ TileStays(z)
    \/ /\ \A u \in Threads : at[u].tile # z
       /\ tile'[z].m_tileData = tile[y].m_tileData
       /\ tile'[z].expected = tile[y].expected

\* The same for a memento item.
ItemCopies(i, y) ==
    \/ i \in DOMAIN items /\ items'[i] = items[i]
    \/ items'[i].td = tile[y].m_tileData /\ items'[i].expected = tile[y].expected

\* acquire() forgets clones of data that may have been written to.
LEMMA GainedClones ==
    ASSUME Ordered, Counted, Fresh, NEW y \in Tiles, NEW x \in TileData, x = tile[y].m_tileData,
           GainsUser(x), UNCHANGED swapVars
    PROVE  /\ ClonesStay /\ ImagesStay
           /\ \A w \in TileData : contents(w)' = contents(w)
           /\ \A w \in TileData : w # x => UserStays(w)
<1>1. \A w \in TileData : contents(w)' = contents(w) /\ (loaded(w)' <=> loaded(w))
  BY ContentsSame DEF GainsUser
<1>2. \A w \in TileData : w # x => UserStays(w)
  BY DEF GainsUser, UserStays
<1>3. y \in showing(x)
  BY DEF showing
<1>4. td[x].m_usersCount \in Nat /\ td[x].m_usersCount # 0
  BY <1>3, UsesCounted DEF UseCounted
<1>5. td[x].m_usersCount = 1 \/ td[x].m_usersCount > 1
  BY <1>4
<1>6. UserStays(x) \/ td'[x].m_clonesStack = <<>>
  BY <1>5 DEF UserStays, GainsUser
<1>7. DOMAIN <<>> = {}
  OBVIOUS
<1>8. ClonesStay
  BY <1>1, <1>2, <1>6, <1>7 DEF GainsUser, ClonesStay, Fresh
<1>9. QED
  BY <1>1, <1>2, <1>8 DEF ImagesStay, ImageStays

\* Somebody who writes to the data, or is going to, has it alone.
LEMMA NobodyElse ==
    ASSUME Ordered, Counted, Pens, NEW y \in Tiles, NEW x \in TileData, x = tile[y].m_tileData,
           writers(y) = {}, NEW u \in Threads, at[u].pc = "writing" \/ owns(at[u])
    PROVE  at[u].td # x
<1> SUFFICES ASSUME at[u].td = x PROVE FALSE
  OBVIOUS
<1>1. PenRight(u) /\ PenKnown(u) /\ HandKnown(u) /\ at[u] \in AgentRecord /\ ThreadShape(at[u])
  BY HeldData, PenData, ThreadRecord DEF Pens
<1>2. td[x].m_usersCount = 1 /\ y \in showing(x)
  BY <1>1 DEF PenRight, showing
<1>3. (\A z \in showing(x) : z = y) /\ owning(x) = {}
  BY <1>2, OneUser
<1>4. CASE owns(at[u])
  <2>1. u \in owning(x)
    BY <1>1, <1>4, WritersShape DEF HandKnown
  <2>2. QED
    BY <1>3, <2>1
<1>5. CASE at[u].pc = "writing"
  <2>1. points(at[u]) /\ at[u].write
    BY <1>1, <1>5, WritersShape
  <2>2. at[u].tile \in showing(x)
    BY <1>1, <2>1 DEF PenRight, PenKnown
  <2>3. u \in writers(y)
    BY <1>3, <2>1, <2>2 DEF writers
  <2>4. QED
    BY <2>3
<1>6. QED
  BY <1>4, <1>5

\* One more tile or memento item shows what a quiet tile shows.
LEMMA SharedPainted ==
    ASSUME Store, Store', Painted, NEW y \in Tiles, NEW x \in TileData, x = tile[y].m_tileData,
           writers(y) = {}, GainsUser(x), UNCHANGED <<at, swapVars, raced>>,
           \A z \in Tiles : TileCopies(z, y), \A i \in DOMAIN items' : ItemCopies(i, y)
    PROVE  Painted'
<1> SUFFICES ASSUME OneWriter
             PROVE  /\ WriterAlone' /\ Pens' /\ Fresh' /\ Hands'
                    /\ TilesKeepTheirPixels' /\ HistoryKeepsItsPixels'
  BY DEF Painted
<1>1. /\ WriterAlone /\ Pens /\ Fresh /\ Hands /\ TilesKeepTheirPixels /\ HistoryKeepsItsPixels
      /\ Ordered /\ Ordered' /\ Counted /\ Counted' /\ (raced => raced' = TRUE)
  BY DEF Painted, Store
<1>2. /\ ClonesStay /\ ImagesStay
      /\ \A w \in TileData : contents(w)' = contents(w)
      /\ \A w \in TileData : w # x => UserStays(w)
  BY <1>1, GainedClones
<1>3. \A u \in Threads : Continues(at[u], at'[u])
  BY DEF Continues
<1>4. ASSUME NEW u \in Threads, at[u].tile \in Tiles PROVE TileStays(at[u].tile)
  BY <1>4 DEF TileCopies
<1>5. WriterAlone'
  BY <1>1, WriterStaysAlone
<1>6. Pens'
  <2>1. ASSUME NEW u \in Threads PROVE PenRight(u)'
    <3>1. at[u].pc = "writing" \/ owns(at[u]) => at[u].td # x
      BY <1>1, NobodyElse
    <3>2. at[u].pc = "writing" \/ owns(at[u]) => \A w \in TileData : w = at[u].td => UserStays(w)
      BY <1>2, <3>1
    <3>3. QED
      BY <1>1, <1>3, <1>4, <3>2, PenStays DEF Pens
  <2>2. QED
    BY <2>1 DEF Pens
<1>7. Fresh'
  <2>1. ASSUME NEW w \in TileData, NEW u \in Threads, cloning(u, w)' PROVE cloning(u, w)
    <3>1. at[u].pc = "clone" /\ tile'[at[u].tile].m_tileData = w
      BY <2>1 DEF cloning
    <3>2. at[u].tile \in Tiles
      BY <1>1, <3>1, ThreadRecord, WritersShape
    <3>3. QED
      BY <1>4, <3>1, <3>2 DEF cloning, TileStays
  <2>2. QED
    BY <1>1, <1>2, <2>1, FreshStays
<1>8. Hands'
  <2>1. ASSUME NEW u \in Threads PROVE HandRight(u)'
    <3>1. at[u].tile \in Tiles => tile'[at[u].tile].expected = tile[at[u].tile].expected
      BY <1>4 DEF TileStays
    <3>2. QED
      BY <1>1, <1>2, <1>3, <3>1, HandStays DEF Hands, ImagesStay
  <2>2. QED
    BY <2>1 DEF Hands
<1>9. x # NoTileData /\ ~raced => contents(x)' = tile[y].expected
  BY <1>1, <1>2 DEF TilesKeepTheirPixels
<1>10. x # NoTileData
  BY StoreAssumption
<1>11. TilesKeepTheirPixels'
  <2>1. ASSUME NEW z \in Tiles, TileStays(z) PROVE TileRight(z)'
    <3>1. TileRight(z)
      BY <1>1 DEF TilesKeepTheirPixels, TileRight
    <3>2. QED
      BY <1>1, <1>2, <2>1, <3>1, TileStaysRight DEF ImagesStay
  <2>2. ASSUME NEW z \in Tiles, tile'[z].m_tileData = x, tile'[z].expected = tile[y].expected
        PROVE  TileRight(z)'
    <3>1. contents(tile[z].m_tileData)' = contents(x)'
      BY <2>2 DEF contents, loaded, stored
    <3>2. QED
      BY <1>9, <1>10, <2>2, <3>1 DEF TileRight
  <2>3. ASSUME NEW z \in Tiles PROVE TileRight(z)'
    BY <2>1, <2>2 DEF TileCopies
  <2>4. QED
    BY <2>3 DEF TilesKeepTheirPixels, TileRight
<1>12. HistoryKeepsItsPixels'
  <2>1. ASSUME NEW i \in DOMAIN items', i \in DOMAIN items, items'[i] = items[i] PROVE ItemRight(i)'
    BY <1>1, <1>2, <2>1, ItemStaysRight DEF ImagesStay
  <2>2. ASSUME NEW i \in DOMAIN items', items'[i].td = x, items'[i].expected = tile[y].expected
        PROVE  ItemRight(i)'
    <3>1. contents(items[i].td)' = contents(x)'
      BY <2>2 DEF contents, loaded, stored
    <3>2. QED
      BY <1>9, <1>10, <2>2, <3>1 DEF ItemRight
  <2>3. ASSUME NEW i \in DOMAIN items' PROVE ItemRight(i)'
    BY <2>1, <2>2 DEF ItemCopies
  <2>4. QED
    BY <2>3 DEF HistoryKeepsItsPixels, ItemRight
<1>13. QED
  BY <1>5, <1>6, <1>7, <1>8, <1>11, <1>12

\* bitBlt() makes a tile that shares its data.
LEMMA CopyTilePainted ==
    ASSUME Store, Store', Painted, NEW t \in Threads, NEW z \in Copies, copyTile(t, z)
    PROVE  Painted'
<1>1. z \in Tiles /\ tile \in [Tiles -> KisTile] /\ TileShared(z) /\ td \in [TileData -> Object]
  BY StoreAssumption DEF Store, Ordered, TilesLocked, Placed, ObjectsTyped
<1>2. at[t] \in AgentRecord /\ ThreadShape(at[t]) /\ at[t].pc = "reading"
  BY ThreadRecord DEF Store, copyTile
<1>3. at[t].tile # NoTile
  BY <1>2 DEF ThreadShape, frees, where, SwapLabels
<1>4. PICK y \in Tiles : y = at[t].tile
  BY <1>3, UsedTile DEF Store
<1>5. PICK x \in TileData : x = tile[y].m_tileData
  BY <1>3, <1>4, UsedTile DEF Store
<1>6. PICK expected : expected = tile[y].expected
  OBVIOUS
<1>7. /\ tile[z].m_tileData = NoTileData /\ writers(y) = {}
      /\ tile' = [tile EXCEPT ![z] = NewTile(x, expected)]
      /\ td' = acquired(td, x)
      /\ UNCHANGED <<at, items, swapVars, raced>>
  BY <1>4, <1>5, <1>6 DEF copyTile, isQuiet, history
<1>8. GainsUser(x)
  BY <1>1, <1>7, AcquiredFields, AcquiredUsers DEF GainsUser
<1>9. ASSUME NEW w \in Tiles PROVE TileCopies(w, y)
  <2>1. CASE w # z
    BY <1>1, <1>7, <2>1 DEF TileCopies, TileStays
  <2>2. CASE w = z
    <3>1. tile'[z].m_tileData = x /\ tile'[z].expected = expected
      BY <1>1, <1>7 DEF NewTile
    <3>2. \A u \in Threads : at[u].tile # z
      BY <1>1, <1>7 DEF TileShared
    <3>3. QED
      BY <1>5, <1>6, <2>2, <3>1, <3>2 DEF TileCopies
  <2>3. QED
    BY <2>1, <2>2
<1>10. \A i \in DOMAIN items' : ItemCopies(i, y)
  BY <1>7 DEF ItemCopies
<1>11. QED
  BY <1>5, <1>7, <1>8, <1>9, <1>10, SharedPainted

\* commit() takes the data of a tile that nobody writes to into the history.
LEMMA CommitPainted ==
    ASSUME Store, Store', Painted, NEW t \in Threads, NEW y \in Tiles, commit(t, y)
    PROVE  Painted'
<1>1. /\ tile[y] \in KisTile /\ tile \in [Tiles -> KisTile] /\ TileShared(y)
      /\ td \in [TileData -> Object]
  BY DEF Store, Ordered, TilesLocked, Placed, ObjectsTyped
<1>2. PICK x \in TileData : x = tile[y].indexed /\ x = tile[y].m_tileData
  BY <1>1 DEF commit, TileShared, KisTile
<1>3. PICK taken : taken = acquired(td, x)
  OBVIOUS
<1>4. /\ td' = [taken EXCEPT ![x].m_refCount = @ - 1, ![x].m_mementoFlag = @ + 1]
      /\ tile' = [tile EXCEPT ![y].indexed = NoTileData]
      /\ writers(y) = {}
      /\ items' = Append(items, [td |-> x, expected |-> tile[y].expected])
      /\ UNCHANGED <<at, swapVars, raced>>
  BY <1>2, <1>3 DEF commit, isQuiet, history
<1>5. /\ taken \in [TileData -> Object]
      /\ \A w \in TileData :
            taken[w].m_data = td[w].m_data /\ taken[w].m_swapChunk = td[w].m_swapChunk
      /\ \A w \in TileData : w # x => taken[w] = td[w]
      /\ taken[x].m_clonesStack = IF td[x].m_usersCount = 1 THEN <<>> ELSE td[x].m_clonesStack
  BY <1>1, <1>3, AcquiredFields, AcquiredUsers
<1>6. PICK r : r = [taken[x] EXCEPT !.m_refCount = @ - 1, !.m_mementoFlag = @ + 1]
  OBVIOUS
<1>7. td' = [taken EXCEPT ![x] = r]
  BY <1>4, <1>5, <1>6
<1>8. /\ r.m_data = taken[x].m_data /\ r.m_swapChunk = taken[x].m_swapChunk
      /\ r.m_clonesStack = taken[x].m_clonesStack
  BY <1>5, <1>6 DEF Object
<1>9. td'[x] = r /\ \A w \in TileData : w # x => td'[w] = taken[w]
  BY <1>5, <1>7
<1>10. GainsUser(x)
  BY <1>5, <1>8, <1>9 DEF GainsUser
<1>11. \A w \in Tiles : TileCopies(w, y)
  BY <1>1, <1>4 DEF TileCopies, TileStays, KisTile
<1>12. ASSUME NEW i \in DOMAIN items' PROVE ItemCopies(i, y)
  <2>1. PICK S : S = [td : TileData, expected : SUBSET (1..MaxWrites)]
    OBVIOUS
  <2>2. PICK item : item = [td |-> x, expected |-> tile[y].expected]
    OBVIOUS
  <2>3. items \in Seq(S) /\ items' = Append(items, item)
    BY <1>4, <2>1, <2>2 DEF Store, Ordered, ItemsTyped
  <2>4. i \in 1..(Len(items) + 1) /\ Len(items) \in Nat /\ DOMAIN items = 1..Len(items)
    BY <2>3
  <2>5. CASE i = Len(items) + 1
    <3>1. items'[i] = item
      BY <2>3, <2>4, <2>5
    <3>2. QED
      BY <1>2, <2>2, <3>1 DEF ItemCopies
  <2>6. CASE i # Len(items) + 1
    <3>1. i \in DOMAIN items /\ items'[i] = items[i]
      BY <2>3, <2>4, <2>6
    <3>2. QED
      BY <3>1 DEF ItemCopies
  <2>7. QED
    BY <2>5, <2>6
<1>13. QED
  BY <1>2, <1>4, <1>10, <1>11, <1>12, SharedPainted

-------------------------------------------------------------------------------
(***************************************************************************)
(* The pooler.                                                             *)
(***************************************************************************)
\* To the threads it is a bystander.
LEMMA PoolerFollows ==
    ASSUME Ordered, \A a \in Agents : a # Pooler => at'[a] = at[a]
    PROVE  \A u \in Threads : at'[u] = at[u] /\ Follows(at[u], at'[u])
<1>1. \A u \in Threads : at'[u] = at[u]
  BY StoreAssumption DEF Agents
<1>2. QED
  BY <1>1 DEF Follows, Continues

\* Clones are freed, or the pooler begins or copies: nothing of it shows.
LEMMA PoolingPainted ==
    ASSUME Store, Store', Painted,
           \/ \E x \in TileData : freeClones(x) \/ beginCloning(x)
           \/ copyClone
    PROVE  Painted'
<1>1. at \in [Agents -> AgentRecord] /\ td \in [TileData -> Object]
  BY DEF Store, Ordered, Control, Placed, ObjectsTyped
<1>2. \A a \in Agents : a # Pooler => at'[a] = at[a]
  BY <1>1 DEF freeClones, beginCloning, copyClone, goto
<1>3. \A u \in Threads : Follows(at[u], at'[u])
  BY <1>2, PoolerFollows DEF Store
<1>4. UNCHANGED <<tile, items, swapVars, raced>>
  BY DEF freeClones, beginCloning, copyClone, history
<1>5. TilesStay /\ ItemsStay /\ raced' = raced
  BY <1>4, TilesUntouched, ItemsUntouched
<1>6. ASSUME OneWriter, NEW x \in TileData, freeClones(x) PROVE PixelsStay
  <2>1. PICK left \in 0..(Len(td[x].m_clonesStack) - 1) :
            td' = [td EXCEPT ![x].m_clonesStack = SubSeq(@, 1, left)]
    BY <1>6 DEF freeClones
  <2>2. PICK clones \in Seq(SUBSET (1..MaxWrites)) : clones = td[x].m_clonesStack
    BY <1>1 DEF Object
  <2>3. PICK some : some = SubSeq(clones, 1, left)
    OBVIOUS
  <2>4. \A i \in DOMAIN some : i \in DOMAIN clones /\ some[i] = clones[i]
    <3>1. Len(clones) \in Nat /\ DOMAIN clones = 1..Len(clones) /\ left \in 0..(Len(clones) - 1)
      BY <2>1, <2>2
    <3>2. some = [i \in 1..left |-> clones[i]]
      BY <2>3, <3>1
    <3>3. QED
      BY <3>1, <3>2
  <2>5. PICK r : r = [td[x] EXCEPT !.m_clonesStack = some]
    OBVIOUS
  <2>6. td' = [td EXCEPT ![x] = r]
    BY <1>1, <2>1, <2>2, <2>3, <2>5
  <2>7. /\ td'[x].m_data = td[x].m_data /\ td'[x].m_swapChunk = td[x].m_swapChunk
        /\ td'[x].m_usersCount = td[x].m_usersCount /\ td'[x].m_clonesStack = some
        /\ \A w \in TileData : w # x => td'[w] = td[w]
    BY <1>1, <2>5, <2>6 DEF Object
  <2>8. \A w \in TileData : UserStays(w) /\ contents(w)' = contents(w) /\ (loaded(w)' <=> loaded(w))
    <3>1. \A w \in TileData : td'[w].m_data = td[w].m_data /\ td'[w].m_swapChunk = td[w].m_swapChunk
                              /\ td'[w].m_usersCount = td[w].m_usersCount
      BY <2>7
    <3>2. QED
      BY <1>4, <3>1, ContentsSame DEF UserStays
  <2>9. Fresh
    BY <1>6 DEF Painted
  <2>10. loaded(x)
    BY <1>6 DEF freeClones, pools, Store, Placed, InMemory
  <2>11. ClonesStay
    <3>1. ASSUME NEW w \in TileData
          PROVE  /\ ~loaded(w)' => td'[w].m_clonesStack = <<>>
                 /\ \A i \in DOMAIN td'[w].m_clonesStack :
                    /\ i \in DOMAIN td[w].m_clonesStack
                    /\ td'[w].m_clonesStack[i] = td[w].m_clonesStack[i]
                    /\ td'[w].m_data = td[w].m_data
      <4>1. CASE w = x
        BY <2>2, <2>4, <2>7, <2>8, <2>10, <4>1
      <4>2. CASE w # x
        BY <2>7, <2>8, <2>9, <4>2 DEF Fresh
      <4>3. QED
        BY <4>1, <4>2
    <3>2. QED
      BY <2>8, <3>1 DEF ClonesStay
  <2>12. QED
    BY <2>8, <2>11 DEF PixelsStay, UsersStay, ImagesStay, ImageStays
<1>7. ASSUME OneWriter, NEW x \in TileData, beginCloning(x) PROVE PixelsStay
  <2>1. Alike(td) /\ Placed /\ Fresh
    BY <1>7, AlikeItself DEF Store, Painted
  <2>2. PICK n \in Int : n = td[x].readers + 1
    BY <2>1 DEF Alike, Object
  <2>3. td' = [td EXCEPT ![x].readers = n]
    BY <1>7, <2>2 DEF beginCloning
  <2>4. Alike(td')
    BY <2>1, <2>3, AlikeLocked
  <2>5. QED
    BY <1>4, <2>1, <2>4, AlikeStays
<1>8. ASSUME OneWriter, copyClone PROVE PixelsStay
  <2>1. Placed /\ Fresh /\ td' = td
    BY <1>8 DEF Store, Painted, copyClone
  <2>2. QED
    BY <1>4, <2>1, StoreUntouched, AlikeStays
<1>9. OneWriter => PixelsStay
  BY <1>6, <1>7, <1>8
<1>10. QED
  BY <1>3, <1>5, <1>9, PaintedStays

\* A clone is pushed: a copy of the data, or the history says that it is none.
LEMMA PushShape ==
    ASSUME Store, pushClone
    PROVE  \E x \in TileData : \E clone :
            /\ loaded(x)
            /\ \A w \in TileData :
                /\ td'[w].m_data = td[w].m_data /\ td'[w].m_swapChunk = td[w].m_swapChunk
                /\ td'[w].m_usersCount = td[w].m_usersCount
                /\ w # x => td'[w].m_clonesStack = td[w].m_clonesStack
            /\ \A i \in DOMAIN td'[x].m_clonesStack :
                \/ i \in DOMAIN td[x].m_clonesStack
                   /\ td'[x].m_clonesStack[i] = td[x].m_clonesStack[i]
                \/ td'[x].m_clonesStack[i] = clone
            /\ raced' = (raced \/ clone # td[x].m_data)
<1>1. at[Pooler].pc = "pushing" /\ td \in [TileData -> Object]
  BY DEF pushClone, Store, Placed, ObjectsTyped
<1>2. PICK x \in TileData : x = at[Pooler].td
  BY <1>1 DEF Store, Ordered, Control, PoolerShape
<1>3. loaded(x)
  BY <1>2, BlockedLoaded DEF Store
<1>4. PICK clone \in SUBSET (1..MaxWrites) : clone = preclone.data
  BY <1>1 DEF Store, Placed, ObjectsTyped
<1>5. PICK clones \in Seq(SUBSET (1..MaxWrites)) : clones = td[x].m_clonesStack
  BY <1>1 DEF Object
<1>6. PICK more : more = Append(clones, clone)
  OBVIOUS
<1>7. \A i \in DOMAIN more : (i \in DOMAIN clones /\ more[i] = clones[i]) \/ more[i] = clone
  <2>1. PICK S : S = SUBSET (1..MaxWrites)
    OBVIOUS
  <2>2. clones \in Seq(S) /\ clone \in S
    BY <2>1
  <2>3. QED
    BY <1>6, <2>2
<1>8. PICK pushed : pushed = [td EXCEPT ![x].m_clonesStack = more]
  OBVIOUS
<1>9. /\ raced' = (raced \/ clone # td[x].m_data)
      /\ td' = pushed \/ td' = [pushed EXCEPT ![x].readers = @ - 1]
  <2>1. pushed = [td EXCEPT ![x].m_clonesStack = Append(@, preclone.data)]
    BY <1>1, <1>4, <1>5, <1>6, <1>8
  <2>2. QED
    BY <1>2, <1>4, <2>1 DEF pushClone, unblocked
<1>10. \A w \in TileData :
            /\ td'[w].m_data = td[w].m_data /\ td'[w].m_swapChunk = td[w].m_swapChunk
            /\ td'[w].m_usersCount = td[w].m_usersCount
            /\ w # x => td'[w].m_clonesStack = td[w].m_clonesStack
            /\ w = x => td'[w].m_clonesStack = more
  <2>1. PICK r : r = [td[x] EXCEPT !.m_clonesStack = more]
    OBVIOUS
  <2>2. /\ r.m_data = td[x].m_data /\ r.m_swapChunk = td[x].m_swapChunk
        /\ r.m_usersCount = td[x].m_usersCount /\ r.m_clonesStack = more
        /\ DOMAIN r = DOMAIN td[x]
    BY <1>1, <2>1 DEF Object
  <2>3. pushed[x] = r /\ (\A w \in TileData : w # x => pushed[w] = td[w]) /\ DOMAIN pushed = TileData
    BY <1>1, <1>8, <2>1
  <2>4. CASE td' = pushed
    BY <2>2, <2>3, <2>4
  <2>5. CASE td' = [pushed EXCEPT ![x].readers = @ - 1]
    <3>1. td'[x] = [r EXCEPT !.readers = @ - 1] /\ \A w \in TileData : w # x => td'[w] = td[w]
      BY <2>3, <2>5
    <3>2. /\ td'[x].m_data = r.m_data /\ td'[x].m_swapChunk = r.m_swapChunk
          /\ td'[x].m_usersCount = r.m_usersCount /\ td'[x].m_clonesStack = r.m_clonesStack
      BY <1>1, <2>1, <3>1 DEF Object
    <3>3. QED
      BY <2>2, <3>1, <3>2
  <2>6. QED
    BY <1>9, <2>4, <2>5
<1>11. QED
  BY <1>3, <1>5, <1>7, <1>9, <1>10

\* Clones that somebody may take are copies, unless the history says otherwise.
LEMMA PushPainted ==
    ASSUME Store, Store', Painted, pushClone
    PROVE  Painted'
<1> SUFFICES ASSUME OneWriter
             PROVE  /\ WriterAlone' /\ Pens' /\ Fresh' /\ Hands'
                    /\ TilesKeepTheirPixels' /\ HistoryKeepsItsPixels'
  BY DEF Painted
<1>1. /\ WriterAlone /\ Pens /\ Fresh /\ Hands /\ TilesKeepTheirPixels /\ HistoryKeepsItsPixels
      /\ Ordered /\ Ordered' /\ Counted /\ Counted'
  BY DEF Painted, Store
<1>2. PICK x \in TileData : \E clone :
        /\ loaded(x)
        /\ \A w \in TileData :
            /\ td'[w].m_data = td[w].m_data /\ td'[w].m_swapChunk = td[w].m_swapChunk
            /\ td'[w].m_usersCount = td[w].m_usersCount
            /\ w # x => td'[w].m_clonesStack = td[w].m_clonesStack
        /\ \A i \in DOMAIN td'[x].m_clonesStack :
            \/ i \in DOMAIN td[x].m_clonesStack
               /\ td'[x].m_clonesStack[i] = td[x].m_clonesStack[i]
            \/ td'[x].m_clonesStack[i] = clone
        /\ raced' = (raced \/ clone # td[x].m_data)
  BY PushShape
<1>3. /\ loaded(x) /\ (raced => raced' = TRUE)
      /\ \A w \in TileData :
            /\ td'[w].m_data = td[w].m_data /\ td'[w].m_swapChunk = td[w].m_swapChunk
            /\ td'[w].m_usersCount = td[w].m_usersCount
            /\ w # x => td'[w].m_clonesStack = td[w].m_clonesStack
      /\ ~raced' => \A i \in DOMAIN td'[x].m_clonesStack :
            \/ i \in DOMAIN td[x].m_clonesStack
               /\ td'[x].m_clonesStack[i] = td[x].m_clonesStack[i]
            \/ td'[x].m_clonesStack[i] = td[x].m_data
  BY <1>2
<1>4. UNCHANGED <<tile, items, swapVars>>
  BY DEF pushClone
<1>5. TilesStay /\ ItemsStay
  BY <1>4, TilesUntouched, ItemsUntouched
<1>6. \A u \in Threads : at'[u] = at[u] /\ Follows(at[u], at'[u])
  <2>1. at \in [Agents -> AgentRecord]
    BY DEF Store, Ordered, Control
  <2>2. \A a \in Agents : a # Pooler => at'[a] = at[a]
    BY <2>1 DEF pushClone, goto
  <2>3. QED
    BY <1>1, <2>2, PoolerFollows
<1>7. \A w \in TileData : UserStays(w) /\ ImageStays(w) /\ (loaded(w)' <=> loaded(w))
  BY <1>3, <1>4, ContentsSame DEF UserStays, ImageStays
<1>8. WriterAlone'
  BY <1>1, <1>6, WriterStaysAlone DEF Follows
<1>9. Pens'
  <2>1. ASSUME NEW u \in Threads PROVE PenRight(u)'
    BY <1>1, <1>5, <1>6, <1>7, PenStays DEF Pens, Follows
  <2>2. QED
    BY <2>1 DEF Pens
<1>10. Fresh'
  <2>1. \A w \in TileData : \A u \in Threads : cloning(u, w)' => cloning(u, w)
    BY <1>1, <1>5, <1>6, CloningStays DEF Follows
  <2>2. ASSUME NEW w \in TileData, ~loaded(w)' PROVE td'[w].m_clonesStack = <<>>
    BY <1>1, <1>3, <1>7, <2>2 DEF Fresh
  <2>3. ASSUME NEW w \in TileData, ~raced',
               td'[w].m_usersCount > 1 \/ \E u \in Threads : cloning(u, w)',
               NEW i \in DOMAIN td'[w].m_clonesStack
        PROVE  td'[w].m_clonesStack[i] = td'[w].m_data
    <3>1. ~raced /\ (td[w].m_usersCount > 1 \/ \E u \in Threads : cloning(u, w))
      BY <1>3, <2>1, <2>3
    <3>2. \A j \in DOMAIN td[w].m_clonesStack : td[w].m_clonesStack[j] = td[w].m_data
      BY <1>1, <3>1 DEF Fresh
    <3>3. QED
      BY <1>3, <2>3, <3>2
  <2>4. QED
    BY <2>2, <2>3 DEF Fresh
<1>11. Hands'
  <2>1. ASSUME NEW u \in Threads PROVE HandRight(u)'
    BY <1>1, <1>3, <1>5, <1>6, <1>7, HandStays DEF Hands, Follows
  <2>2. QED
    BY <2>1 DEF Hands
<1>12. TilesKeepTheirPixels' /\ HistoryKeepsItsPixels'
  BY <1>1, <1>3, <1>5, <1>7, TilesStayRight, ItemsStayRight DEF ImagesStay
<1>13. QED
  BY <1>8, <1>9, <1>10, <1>11, <1>12

-------------------------------------------------------------------------------
(***************************************************************************)
(* The invariant and the theorems.                                         *)
(***************************************************************************)
\* In the beginning nobody writes, there are no clones and every tile is blank.
LEMMA InitPainted == Init => Painted
<1> SUFFICES ASSUME Init PROVE Painted
  OBVIOUS
<1>1. PICK firstData \in [Tiles \ Copies -> TileData] :
        /\ td = [x \in TileData |->
                IF \E y \in Tiles \ Copies : firstData[y] = x
                THEN [NewTileData({}) EXCEPT !.listed = TRUE, !.m_usersCount = 1, !.m_refCount = 2]
                ELSE Deleted]
        /\ tile = [x \in Tiles |->
                IF x \in Copies THEN NewTile(NoTileData, {})
                ELSE [NewTile(firstData[x], {}) EXCEPT !.indexed = firstData[x]]]
  BY DEF Init
<1>2. at = [a \in Agents |-> Idle] /\ items = <<>>
  BY DEF Init
<1>3. \A t \in Threads : at[t] = Idle
  BY <1>2 DEF Agents
<1>4. ~Idle.write /\ Idle.pc = "idle" /\ ~points(Idle) /\ ~holds(Idle) /\ ~owns(Idle)
  BY DEF Idle, points, holds, owns, makes, copies, frees, loads, where, SwapLabels, LoadLabels, CopyLabels
<1>5. ASSUME NEW x \in TileData PROVE td[x].m_clonesStack = <<>>
  <2>1. CASE \E y \in Tiles \ Copies : firstData[y] = x
    BY <1>1, <2>1 DEF NewTileData
  <2>2. CASE ~\E y \in Tiles \ Copies : firstData[y] = x
    BY <1>1, <2>2 DEF NewTileData, Deleted
  <2>3. QED
    BY <2>1, <2>2
<1>6. Fresh
  <2>1. DOMAIN <<>> = {}
    OBVIOUS
  <2>2. QED
    BY <1>5, <2>1 DEF Fresh
<1>7. ASSUME NEW y \in Tiles, tile[y].m_tileData # NoTileData
      PROVE  contents(tile[y].m_tileData) = tile[y].expected
  <2>1. y \notin Copies
    BY <1>1, <1>7 DEF NewTile
  <2>2. PICK x \in TileData : x = firstData[y]
    BY <2>1
  <2>3. tile[y].m_tileData = x /\ tile[y].expected = {}
    BY <1>1, <2>1, <2>2 DEF NewTile
  <2>4. td[x].m_data = {}
    BY <1>1, <2>1, <2>2 DEF NewTileData
  <2>5. {} # NoData
    BY StoreAssumption
  <2>6. QED
    BY <2>3, <2>4, <2>5 DEF contents, loaded
<1>8. WriterAlone /\ Pens /\ Hands
  BY <1>3, <1>4 DEF WriterAlone, Pens, PenRight, Hands, HandRight
<1>9. HistoryKeepsItsPixels
  <2>1. DOMAIN items = {}
    BY <1>2
  <2>2. QED
    BY <2>1 DEF HistoryKeepsItsPixels
<1>10. QED
  BY <1>6, <1>7, <1>8, <1>9 DEF Painted, TilesKeepTheirPixels

\* Nothing happens.
LEMMA SamePainted ==
    ASSUME Store, Store', Painted, UNCHANGED vars
    PROVE  Painted'
<1>1. UNCHANGED <<td, tile, items, at, raced, swapVars>>
  BY DEF vars, history
<1>2. \A u \in Threads : Follows(at[u], at'[u])
  BY <1>1 DEF Follows, Continues
<1>3. TilesStay /\ ItemsStay /\ Alike(td')
  BY <1>1, TilesUntouched, ItemsUntouched, StoreUntouched DEF Store
<1>4. OneWriter => PixelsStay
  BY <1>1, <1>3, AlikeStays DEF Painted, Store
<1>5. QED
  BY <1>1, <1>2, <1>3, <1>4, PaintedStays

\* Every step of every agent keeps the pixels.
LEMMA NextPainted == Store /\ Store' /\ Painted /\ [Next]_vars => Painted'
<1> SUFFICES ASSUME Store, Store', Painted, [Next]_vars PROVE Painted'
  OBVIOUS
<1>1. ASSUME NEW t \in Threads, UsingTiles(t) PROVE Painted'
  <2>1. CASE lockForRead(t) \/ lockForWrite(t)
    <3>1. PICK y \in Tiles, write \in BOOLEAN : lockTile(t, y, write)
      BY <2>1 DEF lockForRead, lockForWrite
    <3>2. QED
      BY <3>1, LockTilePainted
  <2>2. CASE writePixel(t) \/ unlockTile(t) \/ releaseOldTileData(t)
    BY <2>2, WritePainted, UnlockPainted, ReleaseOldPainted
  <2>3. CASE \E y \in Copies : copyTile(t, y) \/ dropTile(t, y)
    BY <2>3, CopyTilePainted, DropPainted
  <2>4. CASE (\E y \in Tiles : commit(t, y)) \/ purge(t)
    BY <2>4, CommitPainted, PurgePainted
  <2>5. QED
    BY <1>1, <2>1, <2>2, <2>3, <2>4 DEF UsingTiles
<1>2. ASSUME NEW t \in Threads, CopyingOnWrite(t) PROVE Painted'
  BY <1>2, CheckingPainted, MadePainted, BlockingPainted, RegisterPainted, InstallPainted
  DEF CopyingOnWrite
<1>3. ASSUME NEW t \in Threads, Loading(t) PROVE Painted'
  BY <1>3, LoadingPainted, SwapInPainted DEF Loading
<1>4. ASSUME NEW t \in Threads, freeTileData(t) PROVE Painted'
  BY <1>4, FreePainted
<1>5. ASSUME NEW a \in Threads \cup {Swapper}, Swapping(a) PROVE Painted'
  BY <1>5, SwappingPainted
<1>6. CASE Pooling
  BY <1>6, PoolingPainted, PushPainted DEF Pooling
<1>7. CASE UNCHANGED vars
  BY <1>7, SamePainted
<1>8. QED
  BY <1>1, <1>2, <1>3, <1>4, <1>5, <1>6, <1>7 DEF Next

\* The locks, the counters, the places and the pixels are right.
LEMMA PaintedKeptAlways == Spec => [](Store /\ Painted)
<1>1. Init => Store /\ Painted
  BY InitOrdered, InitCounted, InitPassTyped, InitPlaced, InitPainted DEF Store
<1>2. Store /\ Painted /\ [Next]_vars => (Store /\ Painted)'
  <2>1. Store /\ [Next]_vars => Store'
    BY NextOrdered, NextCounted, NextPassTyped, NextPlaced DEF Store
  <2>2. QED
    BY <2>1, NextPainted
<1>3. QED
  BY <1>1, <1>2, PTL DEF Spec

\* A tile shows what was written to it, whatever its data went through: shared with other
\* tiles and memento items, copied on write from a clone or from the original, swapped out
\* and in again. It holds when no two threads write one tile at once, and as long as the
\* pooler has not pushed a clone that was copied before the last write
\* (KisTile::lockForWrite, KisTileData::clone and KisTileDataPooler).
THEOREM PixelsKept == Spec => [](OneWriter => TilesKeepTheirPixels)
<1>1. Store /\ Painted => (OneWriter => TilesKeepTheirPixels)
  BY DEF Painted
<1>2. QED
  BY <1>1, PaintedKeptAlways, PTL

\* "Memento items won't be ever changed since then" (kis_memento_manager.h): under the same
\* conditions the data of a committed item is the image of its tile at the commit, for as
\* long as the history holds the item.
THEOREM HistoryKept == Spec => [](OneWriter => HistoryKeepsItsPixels)
<1>1. Store /\ Painted => (OneWriter => HistoryKeepsItsPixels)
  BY DEF Painted
<1>2. QED
  BY <1>1, PaintedKeptAlways, PTL
===============================================================================
