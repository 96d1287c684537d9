-------------------------- MODULE KisChunkAllocator --------------------------
(***************************************************************************)
(* The allocator of the swap file                                          *)
(* (krita/image/tiles3/swap/kis_chunk_allocator.cpp): a linked list of the *)
(* chunks in use, in the order of the file, and an iterator that remembers *)
(* where the last chunk was placed.                                        *)
(*                                                                         *)
(* An iterator is the position of the chunk it points to; the position     *)
(* behind the last chunk is the end of the list.  A KisChunk is known by   *)
(* the first cell of its chunk.  getChunk() out of swap space is qFatal(): *)
(* the program is gone, and no step models it.                             *)
(***************************************************************************)
EXTENDS Integers, SequencesExt

CONSTANTS
    ChunkSizes,         \* what a compressed tile may measure, in cells
    SlabSize,           \* by how much the file grows
    MaxStoreSize        \* how far

ASSUME AllocatorAssumption ==
    /\ ChunkSizes \subseteq Nat \ {0}
    /\ SlabSize \in Nat \ {0}
    /\ MaxStoreSize \in Nat

VARIABLES
    m_list,         \* the chunks in use
    m_iterator,     \* where the next search begins
    m_storeSize     \* the size of the file

allocatorVars == <<m_list, m_iterator, m_storeSize>>

Chunk(first, size) == [begin |-> first, end |-> first + size - 1]

Positions == 1..(Len(m_list) + 1)

\* Mutant: the chunk begins in the last cell of the one before it.
MutantFreeCell(p) == IF p = 1 THEN 0 ELSE m_list[p - 1].end

\* The first cell behind the previous chunk, and the bounds of the gap as the
\* macro GAP_SIZE takes them: without a previous chunk the gap is said to be
\* one cell shorter than it is.
lowBound(p) == IF p = 1 THEN 0 ELSE m_list[p - 1].end
freeCell(p) == IF p = 1 THEN 0 ELSE m_list[p - 1].end + 1

highBound(p, storeSize) == IF p = Len(m_list) + 1 THEN storeSize ELSE m_list[p].begin
fits(p, size, storeSize) == highBound(p, storeSize) - lowBound(p) - 1 >= size

insertChunk(p, size) ==
    /\ m_list' = InsertAt(m_list, p, Chunk(freeCell(p), size))
    /\ m_iterator' = p + 1

firstFit(from, p, size) ==
    /\ p >= from
    /\ fits(p, size, m_storeSize)
    /\ \A q \in Positions : q >= from /\ q < p => ~fits(q, size, m_storeSize)

noFit(size) == \A p \in Positions : ~fits(p, size, m_storeSize)

\* From the iterator to the end, then from the beginning to where the search
\* started, then behind the last chunk in a file that grows slab by slab.
getChunkForward(size) ==
    \E p \in Positions :
        /\ firstFit(m_iterator, p, size)
        /\ insertChunk(p, size)
        /\ UNCHANGED m_storeSize

getChunkWrapped(size) ==
    \E p \in Positions :
        /\ \A q \in Positions : q >= m_iterator => ~fits(q, size, m_storeSize)
        /\ firstFit(1, p, size)
        /\ insertChunk(p, size)
        /\ UNCHANGED m_storeSize

grownTo(slabs) == m_storeSize + slabs * SlabSize

getChunkGrown(size) ==
    \E slabs \in 1..MaxStoreSize :
        /\ noFit(size)
        /\ grownTo(slabs) <= MaxStoreSize
        /\ fits(Len(m_list) + 1, size, grownTo(slabs))
        /\ \A fewer \in 1..(slabs - 1) : ~fits(Len(m_list) + 1, size, grownTo(fewer))
        /\ insertChunk(Len(m_list) + 1, size)
        /\ m_storeSize' = grownTo(slabs)

getChunk(size) ==
    \/ getChunkForward(size)
    \/ getChunkWrapped(size)
    \/ getChunkGrown(size)

\* Erasing the chunk under the iterator moves the iterator to the next one.
freeChunk(first) ==
    \E p \in DOMAIN m_list :
        /\ m_list[p].begin = first
        /\ m_list' = RemoveAt(m_list, p)
        /\ m_iterator' = IF p < m_iterator THEN m_iterator - 1 ELSE m_iterator
        /\ UNCHANGED m_storeSize

AllocatorInit ==
    /\ m_list = <<>>
    /\ m_iterator = 1
    /\ m_storeSize = SlabSize

AllocatorNext ==
    \/ \E size \in ChunkSizes : getChunk(size)
    \/ \E chunk \in ToSet(m_list) : freeChunk(chunk.begin)

AllocatorSpec == AllocatorInit /\ [][AllocatorNext]_allocatorVars

(***************************************************************************)
(* What sanityCheck() looks for: no two chunks share a cell and the last   *)
(* one ends inside the file.                                               *)
(***************************************************************************)
SanityCheck ==
    /\ \A p, q \in DOMAIN m_list : p < q => m_list[p].end < m_list[q].begin
    /\ \A p \in DOMAIN m_list :
        /\ m_list[p].begin \in 0..m_list[p].end
        /\ m_list[p].end < m_storeSize
=============================================================================
