-------------------------- MODULE KisMementoManager --------------------------
(* The history of one paint device of Krita: KisMementoManager, and the       *)
(* methods of KisTiledDataManager that go through it                          *)
(* (krita/image/tiles3). A manager is a record, its methods are operators     *)
(* from a manager to a manager; who calls them under which lock is said in    *)
(* KisUndo.                                                                   *)
(*                                                                            *)
(* A KisMementoItem is reduced to what its users ask of it: what the item     *)
(* says about the tile (`now`) and what its parent says (`before`). An item   *)
(* of type DELETED, as the root of every chain of parents, is NoTile.         *)
EXTENDS Integers, Sequences, SequencesExt

CONSTANTS
    Positions,      \* of tiles: column and row
    Pixels,         \* what a tile may hold
    DefaultPixels,  \* what is seen where there is no tile
    NoTile

ASSUME MementoAssumption == NoTile \notin Pixels

Contents == [Positions -> Pixels \cup {NoTile}]
NoMemento == 0

\* The items that a revision holds, by position.
ItemLists ==
    UNION {[changed -> [now : Pixels \cup {NoTile}, before : Pixels \cup {NoTile}]] :
              changed \in SUBSET Positions}
Revisions == [memento : Nat, items : ItemLists]

\* m_hashTable and m_defaultPixel belong to the data manager, the rest to the
\* memento manager. m_index holds an item for each tile touched since the last
\* commit; the item shares the tile's data until then.
Managers ==
    [m_hashTable : Contents, m_defaultPixel : DefaultPixels,
     m_index : SUBSET Positions, m_headsHashTable : Contents,
     m_revisions : Seq(Revisions), m_cancelledRevisions : Seq(Revisions),
     m_currentMemento : Nat]

-----------------------------------------------------------------------------
\* registerTileChange() and registerTileDeleted(): the tile's own calls when it
\* is detached from shared data, created or removed.
writeTile(m, position, pixels) ==
    [m EXCEPT !.m_hashTable[position] = pixels, !.m_index = @ \cup {position}]

setDefaultPixel(m, pixel) == [m EXCEPT !.m_defaultPixel = pixel]

\* A bug: an empty transaction leaves no revision.
MutantCommit(m) ==
    IF m.m_index = {} THEN [m EXCEPT !.m_currentMemento = NoMemento]
    ELSE [m EXCEPT
             !.m_revisions = Append(@,
                 [memento |-> m.m_currentMemento,
                  items |-> [p \in m.m_index |-> [now |-> m.m_hashTable[p],
                                                  before |-> m.m_headsHashTable[p]]]]),
             !.m_headsHashTable = [p \in Positions |-> IF p \in m.m_index
                                                       THEN m.m_hashTable[p] ELSE @[p]],
             !.m_index = {},
             !.m_currentMemento = NoMemento]

\* An empty index makes a revision only inside a named transaction.
commit(m) ==
    IF m.m_index = {} /\ m.m_currentMemento = NoMemento THEN m
    ELSE [m EXCEPT
             !.m_revisions = Append(@,
                 [memento |-> m.m_currentMemento,
                  items |-> [p \in m.m_index |-> [now |-> m.m_hashTable[p],
                                                  before |-> m.m_headsHashTable[p]]]]),
             !.m_headsHashTable = [p \in Positions |-> IF p \in m.m_index
                                                       THEN m.m_hashTable[p] ELSE @[p]],
             !.m_index = {},
             !.m_currentMemento = NoMemento]

\* Starting a transaction forgets what could be redone on this device.
getMemento(m, memento) ==
    [commit([m EXCEPT !.m_cancelledRevisions = <<>>]) EXCEPT !.m_currentMemento = memento]

\* The tiles of the items are replaced with registration blocked.
replaced(contents, items, from, to) ==
    [p \in Positions |->
        IF p \notin DOMAIN items THEN contents[p]
        ELSE IF items[p][to] # NoTile THEN items[p][to]
        ELSE IF items[p][from] # NoTile THEN NoTile
        ELSE contents[p]]

\* A bug: what is undone last is redone last.
MutantRollback(m) ==
    LET c == commit(m)
        changeList == Last(c.m_revisions)
    IN  IF c.m_revisions = <<>> THEN c
        ELSE [c EXCEPT
                 !.m_hashTable = replaced(@, changeList.items, "now", "before"),
                 !.m_headsHashTable =
                     [p \in Positions |-> IF p \in DOMAIN changeList.items
                                          THEN changeList.items[p].before ELSE @[p]],
                 !.m_revisions = Front(@),
                 !.m_cancelledRevisions = Append(@, changeList),
                 !.m_currentMemento = NoMemento]

\* What is not committed becomes a revision first, and is the one taken back.
\* Without a revision the call returns silently.
rollback(m) ==
    LET c == commit(m)
        changeList == Last(c.m_revisions)
    IN  IF c.m_revisions = <<>> THEN c
        ELSE [c EXCEPT
                 !.m_hashTable = replaced(@, changeList.items, "now", "before"),
                 !.m_headsHashTable =
                     [p \in Positions |-> IF p \in DOMAIN changeList.items
                                          THEN changeList.items[p].before ELSE @[p]],
                 !.m_revisions = Front(@),
                 !.m_cancelledRevisions = <<changeList>> \o @,
                 !.m_currentMemento = NoMemento]

\* The revision is committed again under the memento it had.
rollforward(m) ==
    LET c == commit(m)
        changeList == Head(c.m_cancelledRevisions)
    IN  IF c.m_cancelledRevisions = <<>> THEN c
        ELSE commit([c EXCEPT
                 !.m_hashTable = replaced(@, changeList.items, "before", "now"),
                 !.m_index = DOMAIN changeList.items,
                 !.m_cancelledRevisions = Tail(@),
                 !.m_currentMemento = changeList.memento])

\* findRevisionByMemento(); 0 is the code's -1.
findRevisionByMemento(m, memento) ==
    SelectInSeq(m.m_revisions, LAMBDA revision : revision.memento = memento)

\* resetRevisionHistory(): the parents become the roots of their chains.
resetRevisionHistory(revision) ==
    [revision EXCEPT !.items = [p \in DOMAIN @ |-> [@[p] EXCEPT !.before = NoTile]]]

\* The revision itself stays, as the oldest one; it can no more be taken back.
purgeHistory(m, oldestMemento) ==
    LET c == IF m.m_currentMemento = oldestMemento THEN commit(m) ELSE m
        index == findRevisionByMemento(c, oldestMemento)
    IN  IF index = 0 THEN c
        ELSE [c EXCEPT !.m_revisions =
                 <<resetRevisionHistory(@[index])>> \o SubSeq(@, index + 1, Len(@))]
=============================================================================
