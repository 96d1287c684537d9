------------------------ MODULE KisTileDataStoreProofs ------------------------
(***************************************************************************)
(* The tile store: who counts as a user of tile data, when data is freed,  *)
(* and where its bytes are meanwhile. Three layers on top of Ordered:      *)
(*   Counted    m_usersCount and m_refCount are the numbers of the tiles,  *)
(*              old data, copies and memento items that use the data;      *)
(*   PassTyped  the running sums of a pass of the swapper are numbers;     *)
(*   Placed     what is blocked is in memory, what is listed can be        *)
(*              visited, and what is in neither has its own chunk of the   *)
(*              swap file.                                                 *)
(* All of it for any number of threads, tiles and tile data, any size of   *)
(* the swap file, and any number of writers of one tile.                   *)
(***************************************************************************)
EXTENDS KisTileLocksProofs

-------------------------------------------------------------------------------
(***************************************************************************)
(* The swap file. Its chunks never overlap and never leave the file, for   *)
(* every set of sizes and every size of the file. The comparison that      *)
(* GAP_SIZE makes is enough in spite of its two readings of the lower      *)
(* bound: it errs only by refusing a first gap that would just do.         *)
(***************************************************************************)
Chunks == [begin : Int, end : Int]

AllocatorTypeOK ==
    /\ m_list \in Seq(Chunks)
    /\ m_iterator \in 1..(Len(m_list) + 1)
    /\ m_storeSize \in Int

AllocatorInv == AllocatorTypeOK /\ SanityCheck

\* What a list holds after a concatenation, an insertion and a removal.
LEMMA ConcatElements ==
    ASSUME NEW S, NEW s \in Seq(S), NEW t \in Seq(S)
    PROVE  /\ s \o t \in Seq(S)
           /\ Len(s \o t) = Len(s) + Len(t)
           /\ \A i \in 1..(Len(s) + Len(t)) :
                (s \o t)[i] = IF i <= Len(s) THEN s[i] ELSE t[i - Len(s)]
OBVIOUS

IsInserted(S, s, p, e, t) ==
    /\ t \in Seq(S)
    /\ Len(t) = Len(s) + 1
    /\ \A i \in 1..(Len(s) + 1) :
         t[i] = IF i < p THEN s[i] ELSE IF i = p THEN e ELSE s[i - 1]

\* What a list holds after an insertion.
LEMMA InsertAtElements ==
    ASSUME NEW S, NEW s \in Seq(S), NEW e \in S, NEW p \in 1..(Len(s) + 1)
    PROVE  IsInserted(S, s, p, e, InsertAt(s, p, e))
<1> DEFINE front == SubSeq(s, 1, p - 1)
           back == SubSeq(s, p, Len(s))
<1>1. /\ front \in Seq(S)
      /\ Len(front) = p - 1
      /\ \A i \in 1..(p - 1) : front[i] = s[i]
  OBVIOUS
<1>2. /\ back \in Seq(S)
      /\ Len(back) = Len(s) - p + 1
      /\ \A i \in 1..(Len(s) - p + 1) : back[i] = s[i + p - 1]
  OBVIOUS
<1>3. InsertAt(s, p, e) = (front \o <<e>>) \o back
  BY DEF InsertAt
<1> HIDE DEF front, back
<1> DEFINE start == front \o <<e>>
<1>4. /\ start \in Seq(S)
      /\ Len(start) = p
      /\ \A i \in 1..p : start[i] = IF i < p THEN s[i] ELSE e
  BY <1>1
<1> HIDE DEF start
<1>5. /\ start \o back \in Seq(S)
      /\ Len(start \o back) = p + (Len(s) - p + 1)
      /\ \A i \in 1..(p + (Len(s) - p + 1)) :
            (start \o back)[i] = IF i <= p THEN start[i] ELSE back[i - p]
  BY <1>2, <1>4, ConcatElements
<1>6. p + (Len(s) - p + 1) = Len(s) + 1 /\ p \in Int /\ Len(s) \in Nat
  OBVIOUS
<1>7. \A i \in 1..(Len(s) + 1) : i > p => i - p \in 1..(Len(s) - p + 1) /\ (i - p) + p - 1 = i - 1
  BY <1>6
<1>8. \A i \in 1..(Len(s) + 1) : (start \o back)[i] =
            IF i < p THEN s[i] ELSE IF i = p THEN e ELSE s[i - 1]
  <2> TAKE i \in 1..(Len(s) + 1)
  <2>1. CASE i <= p
    BY <2>1, <1>4, <1>5, <1>6
  <2>2. CASE i > p
    <3>1. (start \o back)[i] = back[i - p]
      BY <2>2, <1>5, <1>6
    <3>2. back[i - p] = s[i - 1]
      BY <2>2, <1>2, <1>7
    <3>3. QED
      BY <2>2, <3>1, <3>2, <1>6
  <2>3. i <= p \/ i > p
    BY <1>6
  <2>4. QED
    BY <2>1, <2>2, <2>3
<1>9. InsertAt(s, p, e) = start \o back
  BY <1>3 DEF start
<1>10. QED
  BY <1>5, <1>6, <1>8, <1>9 DEF IsInserted

\* What a list holds after a removal.
LEMMA RemoveAtElements ==
    ASSUME NEW S, NEW s \in Seq(S), NEW p \in 1..Len(s)
    PROVE  /\ RemoveAt(s, p) \in Seq(S)
           /\ Len(RemoveAt(s, p)) = Len(s) - 1
           /\ \A i \in 1..(Len(s) - 1) : RemoveAt(s, p)[i] = IF i < p THEN s[i] ELSE s[i + 1]
<1> DEFINE front == SubSeq(s, 1, p - 1)
           back == SubSeq(s, p + 1, Len(s))
<1>1. /\ front \in Seq(S)
      /\ Len(front) = p - 1
      /\ \A i \in 1..(p - 1) : front[i] = s[i]
  OBVIOUS
<1>2. /\ back \in Seq(S)
      /\ Len(back) = Len(s) - p
      /\ \A i \in 1..(Len(s) - p) : back[i] = s[i + p]
  OBVIOUS
<1>3. RemoveAt(s, p) = front \o back
  BY DEF RemoveAt
<1> HIDE DEF front, back
<1>4. /\ front \o back \in Seq(S)
      /\ Len(front \o back) = (p - 1) + (Len(s) - p)
      /\ \A i \in 1..((p - 1) + (Len(s) - p)) :
            (front \o back)[i] = IF i <= p - 1 THEN front[i] ELSE back[i - (p - 1)]
  <2>1. /\ front \o back \in Seq(S)
        /\ Len(front \o back) = Len(front) + Len(back)
        /\ \A i \in 1..(Len(front) + Len(back)) :
            (front \o back)[i] = IF i <= Len(front) THEN front[i] ELSE back[i - Len(front)]
    BY <1>1, <1>2, ConcatElements
  <2>2. QED
    BY <2>1, <1>1, <1>2
<1>5. (p - 1) + (Len(s) - p) = Len(s) - 1 /\ p \in Int /\ Len(s) \in Nat
  OBVIOUS
<1>6. \A i \in 1..(Len(s) - 1) :
            i >= p => i - (p - 1) \in 1..(Len(s) - p) /\ (i - (p - 1)) + p = i + 1
  BY <1>5
<1>7. \A i \in 1..(Len(s) - 1) : (front \o back)[i] = IF i < p THEN s[i] ELSE s[i + 1]
  <2> TAKE i \in 1..(Len(s) - 1)
  <2>1. CASE i < p
    BY <2>1, <1>1, <1>4, <1>5
  <2>2. CASE i >= p
    <3>1. (front \o back)[i] = back[i - (p - 1)]
      BY <2>2, <1>4, <1>5
    <3>2. back[i - (p - 1)] = s[i + 1]
      BY <2>2, <1>2, <1>6
    <3>3. QED
      BY <2>2, <3>1, <3>2, <1>5
  <2>3. i < p \/ i >= p
    BY <1>5
  <2>4. QED
    BY <2>1, <2>2, <2>3
<1>8. QED
  BY <1>3, <1>4, <1>5, <1>7

\* A chunk that fits a gap of the file is sane in it.
LEMMA InsertKeepsOrder ==
    ASSUME AllocatorInv, NEW size \in Nat \ {0}, NEW p \in Positions, m_storeSize' \in Int,
           m_storeSize' >= m_storeSize, fits(p, size, m_storeSize'), insertChunk(p, size),
           m_storeSize >= 0
    PROVE  AllocatorInv'
<1> DEFINE new == Chunk(freeCell(p), size)
<1>1. m_list \in Seq(Chunks) /\ p \in 1..(Len(m_list) + 1)
  BY DEF AllocatorInv, AllocatorTypeOK, Positions
<1>2. /\ freeCell(p) \in Int /\ new \in Chunks
      /\ new.begin = freeCell(p) /\ new.end = freeCell(p) + size - 1
  <2>1. CASE p = 1
    BY <2>1 DEF freeCell, Chunk, Chunks
  <2>2. CASE p # 1
    <3>1. p - 1 \in 1..Len(m_list)
      BY <2>2, <1>1
    <3>2. m_list[p - 1] \in Chunks
      BY <3>1, <1>1
    <3>3. QED
      BY <2>2, <3>2 DEF freeCell, Chunk, Chunks
  <2>3. QED
    BY <2>1, <2>2
<1>3. /\ m_list' \in Seq(Chunks)
      /\ Len(m_list') = Len(m_list) + 1
      /\ \A i \in 1..(Len(m_list) + 1) : m_list'[i] =
            IF i < p THEN m_list[i] ELSE IF i = p THEN new ELSE m_list[i - 1]
  <2>1. m_list' = InsertAt(m_list, p, new)
    BY DEF insertChunk
  <2> HIDE DEF new
  <2>2. new \in Chunks /\ m_list \in Seq(Chunks) /\ p \in 1..(Len(m_list) + 1)
    BY <1>1, <1>2
  <2>3. IsInserted(Chunks, m_list, p, new, InsertAt(m_list, p, new))
    BY <2>2, InsertAtElements
  <2>4. QED
    BY <2>1, <2>3 DEF IsInserted
<1> DEFINE n == Len(m_list)
<1>4. n \in Nat /\ p \in 1..(n + 1) /\ DOMAIN m_list = 1..n /\ DOMAIN m_list' = 1..(n + 1)
  BY <1>1, <1>3
<1>5. \A i \in 1..n : m_list[i].begin \in Int /\ m_list[i].end \in Int
  <2>1. \A i \in 1..n : m_list[i] \in Chunks
    BY <1>1
  <2>2. QED
    BY <2>1 DEF Chunks
<1>6. \A i, j \in 1..n : i < j => m_list[i].end < m_list[j].begin
  BY <1>4 DEF AllocatorInv, SanityCheck
<1>7. \A i \in 1..n : m_list[i].begin \in 0..m_list[i].end /\ m_list[i].end < m_storeSize
  BY <1>4 DEF AllocatorInv, SanityCheck
<1>8. \A i \in 1..n : 0 <= m_list[i].begin /\ m_list[i].begin <= m_list[i].end
  BY <1>5, <1>7
<1>9. m_storeSize \in Int
  BY DEF AllocatorInv, AllocatorTypeOK
<1> HIDE DEF n
<1>10. 0 <= new.begin /\ new.begin <= new.end /\ new.end < highBound(p, m_storeSize')
  <2>1. highBound(p, m_storeSize') \in Int
    <3>1. CASE p = n + 1
      BY <3>1, <1>4 DEF highBound, n
    <3>2. CASE p # n + 1
      <4>1. p \in 1..n
        BY <3>2, <1>4
      <4>2. QED
        BY <3>2, <4>1, <1>5 DEF highBound, n
    <3>3. QED
      BY <3>1, <3>2
  <2>2. CASE p = 1
    BY <2>1, <2>2, <1>2 DEF fits, freeCell, lowBound
  <2>3. CASE p # 1
    <3>1. p - 1 \in 1..n
      BY <2>3, <1>4
    <3>2. m_list[p - 1].end \in Int /\ 0 <= m_list[p - 1].end
      <4>1. m_list[p - 1].begin \in Int /\ m_list[p - 1].end \in Int
        BY <3>1, <1>5
      <4>2. 0 <= m_list[p - 1].begin /\ m_list[p - 1].begin <= m_list[p - 1].end
        BY <3>1, <1>8
      <4>3. QED
        BY <4>1, <4>2
    <3>3. QED
      BY <2>1, <2>3, <3>2, <1>2 DEF fits, freeCell, lowBound
  <2>4. QED
    BY <2>2, <2>3
<1>11. \A i \in 1..n : i < p => m_list[i].end < new.begin
  <2> SUFFICES ASSUME NEW i \in 1..n, i < p
               PROVE  m_list[i].end < new.begin
    OBVIOUS
  <2>1. p - 1 \in 1..n /\ p # 1 /\ (i = p - 1 \/ i < p - 1)
    BY <1>4
  <2>2. new.begin = m_list[p - 1].end + 1
    BY <2>1, <1>2 DEF freeCell
  <2>3. /\ m_list[p - 1].end \in Int /\ m_list[i].end \in Int /\ m_list[p - 1].begin \in Int
        /\ m_list[p - 1].begin <= m_list[p - 1].end
    BY <2>1, <1>5, <1>8
  <2>4. CASE i = p - 1
    BY <2>2, <2>3, <2>4
  <2>5. CASE i < p - 1
    <3>1. m_list[i].end < m_list[p - 1].begin
      BY <2>1, <2>5, <1>6
    <3>2. QED
      BY <2>2, <2>3, <3>1
  <2>6. QED
    BY <2>1, <2>4, <2>5
<1>12. \A i \in 1..n : i >= p => new.end < m_list[i].begin
  <2> SUFFICES ASSUME NEW i \in 1..n, i >= p
               PROVE  new.end < m_list[i].begin
    OBVIOUS
  <2>1. p \in 1..n /\ p # n + 1 /\ (i = p \/ p < i)
    BY <1>4
  <2>2. new.end < m_list[p].begin
    BY <2>1, <1>10 DEF highBound, n
  <2>3. /\ m_list[p].end \in Int /\ m_list[p].begin \in Int /\ m_list[i].begin \in Int
        /\ m_list[p].begin <= m_list[p].end /\ new.end \in Int
    BY <2>1, <1>2, <1>5, <1>8 DEF Chunks
  <2>4. CASE i = p
    BY <2>2, <2>4
  <2>5. CASE p < i
    <3>1. m_list[p].end < m_list[i].begin
      BY <2>1, <2>5, <1>6
    <3>2. QED
      BY <2>2, <2>3, <3>1
  <2>6. QED
    BY <2>1, <2>4, <2>5
<1>13. new.end < m_storeSize'
  <2>1. CASE p = n + 1
    BY <2>1, <1>10 DEF highBound, n
  <2>2. CASE p # n + 1
    <3>1. p \in 1..n
      BY <2>2, <1>4
    <3>2. new.end < m_list[p].begin
      BY <3>1, <1>4, <1>12
    <3>3. /\ m_list[p].begin <= m_list[p].end /\ m_list[p].end < m_storeSize
          /\ m_list[p].begin \in Int /\ m_list[p].end \in Int /\ new.end \in Int
      BY <3>1, <1>2, <1>5, <1>7, <1>8 DEF Chunks
    <3>4. QED
      BY <3>2, <3>3, <1>9
  <2>3. QED
    BY <2>1, <2>2
<1>14. /\ \A i \in 1..(n + 1) : i < p => m_list'[i] = m_list[i] /\ i \in 1..n
       /\ m_list'[p] = new
       /\ \A i \in 1..(n + 1) : i > p => m_list'[i] = m_list[i - 1] /\ i - 1 \in 1..n
  BY <1>3, <1>4 DEF n
<1> HIDE DEF new
<1>15. \A i, j \in 1..(n + 1) : i < j => m_list'[i].end < m_list'[j].begin
  <2> SUFFICES ASSUME NEW i \in 1..(n + 1), NEW j \in 1..(n + 1), i < j
               PROVE  m_list'[i].end < m_list'[j].begin
    OBVIOUS
  <2>1. CASE j < p
    <3>1. i < p
      BY <2>1, <1>4
    <3>2. QED
      BY <2>1, <3>1, <1>14, <1>6
  <2>2. CASE j = p
    BY <2>2, <1>14, <1>11
  <2>3. CASE j > p /\ i = p
    <3>1. j - 1 \in 1..n /\ j - 1 >= p /\ m_list'[j] = m_list[j - 1]
      BY <2>3, <1>4, <1>14
    <3>2. QED
      BY <2>3, <3>1, <1>12, <1>14
  <2>4. CASE j > p /\ i < p
    <3>1. j - 1 \in 1..n /\ i < j - 1 /\ m_list'[j] = m_list[j - 1]
      BY <2>4, <1>4, <1>14
    <3>2. i \in 1..n /\ m_list'[i] = m_list[i]
      BY <2>4, <1>14
    <3>3. QED
      BY <3>1, <3>2, <1>6
  <2>5. CASE j > p /\ i > p
    <3>1. /\ j - 1 \in 1..n /\ m_list'[j] = m_list[j - 1]
          /\ i - 1 \in 1..n /\ m_list'[i] = m_list[i - 1]
      BY <2>5, <1>14
    <3>2. i - 1 < j - 1
      BY <1>4
    <3>3. QED
      BY <3>1, <3>2, <1>6
  <2>6. QED
    BY <2>1, <2>2, <2>3, <2>4, <2>5, <1>4
<1>16. \A i \in 1..(n + 1) : /\ m_list'[i].begin \in Int /\ m_list'[i].end \in Int
                             /\ 0 <= m_list'[i].begin
                             /\ m_list'[i].begin <= m_list'[i].end
                             /\ m_list'[i].end < m_storeSize'
  <2> SUFFICES ASSUME NEW i \in 1..(n + 1)
               PROVE  /\ m_list'[i].begin \in Int /\ m_list'[i].end \in Int
                      /\ 0 <= m_list'[i].begin
                      /\ m_list'[i].begin <= m_list'[i].end
                      /\ m_list'[i].end < m_storeSize'
    OBVIOUS
  <2>1. CASE i = p
    <3>1. new.begin \in Int /\ new.end \in Int
      BY <1>2 DEF Chunks
    <3>2. QED
      BY <2>1, <3>1, <1>10, <1>13, <1>14
  <2>2. CASE i # p
    <3>1. PICK k \in 1..n : m_list'[i] = m_list[k]
      BY <2>2, <1>4, <1>14
    <3>2. /\ m_list[k].begin \in Int /\ m_list[k].end \in Int
          /\ 0 <= m_list[k].begin /\ m_list[k].begin <= m_list[k].end
          /\ m_list[k].end < m_storeSize
      BY <1>5, <1>7, <1>8
    <3>3. QED
      BY <3>1, <3>2, <1>9
  <2>3. QED
    BY <2>1, <2>2
<1>17. m_iterator' \in 1..(Len(m_list') + 1)
  BY <1>3, <1>4 DEF insertChunk, n
<1>18. SanityCheck'
  <2>1. \A i \in 1..(n + 1) : m_list'[i].begin \in 0..m_list'[i].end
    BY <1>16
  <2>2. QED
    BY <2>1, <1>4, <1>15, <1>16 DEF SanityCheck
<1>19. QED
  BY <1>3, <1>17, <1>18 DEF AllocatorInv, AllocatorTypeOK

\* A list of chunks stays in order without one of them.
LEMMA FreeKeepsOrder ==
    ASSUME AllocatorInv, NEW first, freeChunk(first)
    PROVE  AllocatorInv'
<1>1. PICK p \in DOMAIN m_list :
            /\ m_list' = RemoveAt(m_list, p)
            /\ m_iterator' = IF p < m_iterator THEN m_iterator - 1 ELSE m_iterator
            /\ UNCHANGED m_storeSize
  BY DEF freeChunk
<1>2. m_list \in Seq(Chunks) /\ p \in 1..Len(m_list)
  BY DEF AllocatorInv, AllocatorTypeOK
<1>3. /\ m_list' \in Seq(Chunks)
      /\ Len(m_list') = Len(m_list) - 1
      /\ \A i \in 1..(Len(m_list) - 1) : m_list'[i] = IF i < p THEN m_list[i] ELSE m_list[i + 1]
  BY <1>1, <1>2, RemoveAtElements
<1> DEFINE n == Len(m_list)
<1>4. n \in Nat /\ p \in 1..n /\ DOMAIN m_list = 1..n /\ DOMAIN m_list' = 1..(n - 1)
  BY <1>2, <1>3
<1> HIDE DEF n
<1> DEFINE old(i) == IF i < p THEN i ELSE i + 1
<1>5. SanityCheck'
  <2>1. \A i \in 1..(n - 1) : old(i) \in 1..n /\ m_list'[i] = m_list[old(i)]
    BY <1>3, <1>4 DEF n
  <2>2. \A i, j \in 1..(n - 1) : i < j => old(i) < old(j)
    BY <1>4
  <2> HIDE DEF old
  <2>3. \A i, j \in 1..(n - 1) : i < j => m_list'[i].end < m_list'[j].begin
    BY <2>1, <2>2, <1>4 DEF AllocatorInv, SanityCheck
  <2>4. \A i \in 1..(n - 1) : m_list'[i].begin \in 0..m_list'[i].end /\ m_list'[i].end < m_storeSize
    BY <2>1, <1>4 DEF AllocatorInv, SanityCheck
  <2>5. QED
    BY <2>3, <2>4, <1>1, <1>4 DEF SanityCheck
<1>6. AllocatorTypeOK'
  BY <1>1, <1>2, <1>3 DEF AllocatorInv, AllocatorTypeOK
<1>7. QED
  BY <1>5, <1>6 DEF AllocatorInv

\* sanityCheck() never fails: the chunks in use are in the order of the file,
\* share no cell and end inside the file.
THEOREM ChunksStaySane == AllocatorSpec => []SanityCheck
<1> DEFINE IInv == AllocatorInv /\ m_storeSize >= 0
<1>1. AllocatorInit => IInv
  BY AllocatorAssumption DEF AllocatorInit, AllocatorInv, AllocatorTypeOK, SanityCheck, Chunks
<1>2. IInv /\ [AllocatorNext]_allocatorVars => IInv'
  <2> SUFFICES ASSUME IInv, [AllocatorNext]_allocatorVars
               PROVE  IInv'
    OBVIOUS
  <2>1. CASE UNCHANGED allocatorVars
    BY <2>1 DEF allocatorVars, AllocatorInv, AllocatorTypeOK, SanityCheck
  <2>2. ASSUME NEW size \in ChunkSizes, getChunkForward(size)
        PROVE  IInv'
    <3>1. PICK p \in Positions : /\ fits(p, size, m_storeSize')
                                 /\ insertChunk(p, size)
                                 /\ m_storeSize' = m_storeSize
      BY <2>2 DEF getChunkForward, firstFit
    <3>2. AllocatorInv'
      BY <3>1, AllocatorAssumption, InsertKeepsOrder DEF AllocatorInv, AllocatorTypeOK
    <3>3. QED
      BY <3>1, <3>2
  <2>3. ASSUME NEW size \in ChunkSizes, getChunkWrapped(size)
        PROVE  IInv'
    <3>1. PICK p \in Positions : /\ fits(p, size, m_storeSize')
                                 /\ insertChunk(p, size)
                                 /\ m_storeSize' = m_storeSize
      BY <2>3 DEF getChunkWrapped, firstFit
    <3>2. AllocatorInv'
      BY <3>1, AllocatorAssumption, InsertKeepsOrder DEF AllocatorInv, AllocatorTypeOK
    <3>3. QED
      BY <3>1, <3>2
  <2>4. ASSUME NEW size \in ChunkSizes, getChunkGrown(size)
        PROVE  IInv'
    <3>1. PICK slabs \in 1..MaxStoreSize :
                /\ fits(Len(m_list) + 1, size, grownTo(slabs))
                /\ insertChunk(Len(m_list) + 1, size)
                /\ m_storeSize' = grownTo(slabs)
      BY <2>4 DEF getChunkGrown
    <3>2. m_storeSize' \in Int /\ m_storeSize' >= m_storeSize
      <4>1. SlabSize \in Nat \ {0} /\ slabs \in Nat \ {0} /\ m_storeSize \in Int
        BY <3>1, AllocatorAssumption DEF AllocatorInv, AllocatorTypeOK
      <4>2. slabs * SlabSize \in Nat
        BY <4>1
      <4>3. QED
        BY <3>1, <4>1, <4>2 DEF grownTo
    <3>3. Len(m_list) + 1 \in Positions
      BY DEF AllocatorInv, AllocatorTypeOK, Positions
    <3>4. AllocatorInv'
      BY <3>1, <3>2, <3>3, AllocatorAssumption, InsertKeepsOrder
    <3>5. QED
      BY <3>2, <3>4 DEF AllocatorInv, AllocatorTypeOK
  <2>5. ASSUME NEW chunk \in ToSet(m_list), freeChunk(chunk.begin)
        PROVE  IInv'
    <3>1. AllocatorInv'
      BY <2>5, FreeKeepsOrder
    <3>2. m_storeSize' = m_storeSize
      BY <2>5 DEF freeChunk
    <3>3. QED
      BY <3>1, <3>2
  <2>6. QED
    BY <2>1, <2>2, <2>3, <2>4, <2>5 DEF AllocatorNext, getChunk
<1>3. IInv => SanityCheck
  BY DEF AllocatorInv
<1>4. QED
  BY <1>1, <1>2, <1>3, PTL DEF AllocatorSpec

-------------------------------------------------------------------------------
(***************************************************************************)
(* The store.                                                              *)
(***************************************************************************)
\* The fields of a KisTileData.
Fields ==
    {"exists", "m_data", "listed", "m_usersCount", "m_refCount", "readers", "m_mementoFlag",
     "m_clonesStack", "m_swapChunk"}

\* A thread frees data x, or has constructed it and is about to register it.
busy(t, x) == at[t].td = x /\ (frees(at[t]) \/ makes(at[t]))

\* The counters of tile data, and its life: it exists while it is used or a thread frees
\* or makes it, and one thread at most does that.
Counted ==
    /\ DOMAIN td = TileData
    /\ \A x \in TileData :
        /\ DOMAIN td[x] = Fields
        /\ td[x].m_usersCount = tileUsers(x)
        /\ td[x].m_refCount = tileUsers(x) + indexUsers(x)
        /\ td[x].exists \in BOOLEAN
        /\ td[x].exists <=> td[x].m_refCount > 0 \/ \E t \in Threads : busy(t, x)
        /\ \A t \in Threads : busy(t, x) => td[x].m_refCount = 0
        /\ \A t, u \in Threads : busy(t, x) /\ busy(u, x) => t = u

-------------------------------------------------------------------------------
(***************************************************************************)
(* The users of tile data, by what they are.                               *)
(***************************************************************************)
showing(x) == {y \in Tiles : tile[y].m_tileData = x}
aging(x) == UNION {oldUses(y, x) : y \in Tiles}
kept(x) == {i \in DOMAIN items : items[i].td = x}
owning(x) == {t \in Threads : at[t].td = x /\ ownsCopy(t)}
indexing(x) == {y \in Tiles : tile[y].indexed = x}

\* Which old data is what, one entry at a time.
LEMMA Aging ==
    ASSUME NEW x
    PROVE  /\ \A p : p \in aging(x) <=>
                \E y \in Tiles : \E k \in DOMAIN tile[y].m_oldTileData :
                    p = <<y, k>> /\ tile[y].m_oldTileData[k] = x
           /\ \A p : p \in aging(x)' <=>
                \E y \in Tiles : \E k \in DOMAIN tile'[y].m_oldTileData :
                    p = <<y, k>> /\ tile'[y].m_oldTileData[k] = x
BY DEF aging, oldUses

\* The users of tile data are finitely many.
LEMMA UsesFinite ==
    ASSUME Ordered, NEW x
    PROVE  /\ IsFiniteSet(showing(x)) /\ IsFiniteSet(aging(x)) /\ IsFiniteSet(kept(x))
           /\ IsFiniteSet(owning(x)) /\ IsFiniteSet(indexing(x))
<1>1. IsFiniteSet(showing(x)) /\ IsFiniteSet(indexing(x)) /\ IsFiniteSet(owning(x))
  BY StoreAssumption, FS_Subset DEF showing, indexing, owning
<1>2. IsFiniteSet(kept(x))
  <2>1. items \in Seq([td : TileData, expected : SUBSET (1..MaxWrites)])
    BY DEF Ordered, ItemsTyped
  <2>2. DOMAIN items = 1..Len(items) /\ Len(items) \in Nat
    BY <2>1
  <2>3. IsFiniteSet(DOMAIN items)
    BY <2>2, FS_Interval
  <2>4. QED
    BY <2>3, FS_Subset DEF kept
<1>3. IsFiniteSet(aging(x))
  <2> DEFINE pieces == {oldUses(y, x) : y \in Tiles}
             f == [y \in Tiles |-> oldUses(y, x)]
  <2>1. ASSUME NEW y \in Tiles PROVE IsFiniteSet(oldUses(y, x))
    <3>1. tile[y].m_oldTileData \in Seq(TileData)
      BY DEF Ordered, TilesLocked, KisTile
    <3>2. DOMAIN tile[y].m_oldTileData = 1..Len(tile[y].m_oldTileData) /\ Len(tile[y].m_oldTileData) \in Nat
      BY <3>1
    <3>3. IsFiniteSet({k \in DOMAIN tile[y].m_oldTileData : tile[y].m_oldTileData[k] = x})
      <4>1. IsFiniteSet(DOMAIN tile[y].m_oldTileData)
        BY <3>2, FS_Interval
      <4>2. QED
        BY <4>1, FS_Subset
    <3>4. IsFiniteSet({y})
      BY FS_Singleton
    <3>5. QED
      BY <3>3, <3>4, FS_Product DEF oldUses
  <2>2. f \in Surjection(Tiles, pieces)
    BY DEF Surjection
  <2>3. IsFiniteSet(pieces)
    BY <2>2, StoreAssumption, FS_Surjection
  <2>4. IsFiniteSet(UNION pieces)
    BY <2>1, <2>3, FS_UNION
  <2>5. QED
    BY <2>4 DEF aging
<1>4. QED
  BY <1>1, <1>2, <1>3

\* The counters, by kind of user.
LEMMA UsersAdded ==
    ASSUME NEW x
    PROVE  /\ tileUsers(x) = Cardinality(showing(x)) + Cardinality(aging(x))
                                + Cardinality(kept(x)) + Cardinality(owning(x))
           /\ indexUsers(x) = Cardinality(indexing(x))
BY DEF tileUsers, indexUsers, count, showing, aging, kept, owning, indexing

\* A user keeps its data referenced.
LEMMA UsersCounted ==
    ASSUME Ordered, NEW x
    PROVE  /\ tileUsers(x) \in Nat /\ indexUsers(x) \in Nat
           /\ tileUsers(x) = 0 <=> /\ showing(x) = {} /\ aging(x) = {}
                                   /\ kept(x) = {} /\ owning(x) = {}
           /\ indexUsers(x) = 0 <=> indexing(x) = {}
<1>1. /\ IsFiniteSet(showing(x)) /\ IsFiniteSet(aging(x)) /\ IsFiniteSet(kept(x))
      /\ IsFiniteSet(owning(x)) /\ IsFiniteSet(indexing(x))
  BY UsesFinite
<1>2. /\ Cardinality(showing(x)) \in Nat /\ (Cardinality(showing(x)) = 0 <=> showing(x) = {})
      /\ Cardinality(aging(x)) \in Nat /\ (Cardinality(aging(x)) = 0 <=> aging(x) = {})
      /\ Cardinality(kept(x)) \in Nat /\ (Cardinality(kept(x)) = 0 <=> kept(x) = {})
      /\ Cardinality(owning(x)) \in Nat /\ (Cardinality(owning(x)) = 0 <=> owning(x) = {})
      /\ Cardinality(indexing(x)) \in Nat /\ (Cardinality(indexing(x)) = 0 <=> indexing(x) = {})
  BY <1>1, FS_CardinalityType, FS_EmptySet
<1>3. ASSUME NEW a \in Nat, NEW b \in Nat, NEW c \in Nat, NEW d \in Nat
      PROVE  a + b + c + d \in Nat /\ (a + b + c + d = 0 <=> a = 0 /\ b = 0 /\ c = 0 /\ d = 0)
  OBVIOUS
<1>4. tileUsers(x) \in Nat
  BY <1>2, <1>3, UsersAdded
<1>5. tileUsers(x) = 0 <=> /\ Cardinality(showing(x)) = 0 /\ Cardinality(aging(x)) = 0
                           /\ Cardinality(kept(x)) = 0 /\ Cardinality(owning(x)) = 0
  <2>1. PICK a \in Nat : a = Cardinality(showing(x))
    BY <1>2
  <2>2. PICK b \in Nat : b = Cardinality(aging(x))
    BY <1>2
  <2>3. PICK c \in Nat : c = Cardinality(kept(x))
    BY <1>2
  <2>4. PICK d \in Nat : d = Cardinality(owning(x))
    BY <1>2
  <2>5. tileUsers(x) = a + b + c + d
    BY <2>1, <2>2, <2>3, <2>4, UsersAdded
  <2>6. a + b + c + d = 0 <=> a = 0 /\ b = 0 /\ c = 0 /\ d = 0
    BY <1>3
  <2>7. QED
    BY <2>1, <2>2, <2>3, <2>4, <2>5, <2>6
<1>6. indexUsers(x) = Cardinality(indexing(x))
  BY UsersAdded
<1>7. QED
  BY <1>2, <1>4, <1>5, <1>6

\* One tile, one thread, one item or one old tile data comes or goes.
LEMMA ShowingMoves ==
    ASSUME Ordered, NEW y \in Tiles, NEW x,
           \A z \in Tiles : z # y => tile'[z].m_tileData = tile[z].m_tileData
    PROVE  Cardinality(showing(x)') =
                Cardinality(showing(x)) + bit(tile'[y].m_tileData = x) - bit(tile[y].m_tileData = x)
<1>1. \A z : z # y => (z \in showing(x) <=> z \in showing(x)')
  BY DEF showing
<1>2. (y \in showing(x) <=> tile[y].m_tileData = x) /\ (y \in showing(x)' <=> tile'[y].m_tileData = x)
  BY DEF showing
<1>3. Cardinality(showing(x)') = Cardinality(showing(x)) + bit(y \in showing(x)') - bit(y \in showing(x))
  BY <1>1, UsesFinite, OneMoves
<1>4. QED
  BY <1>2, <1>3 DEF bit

\* One tile changes its index item.
LEMMA IndexingMoves ==
    ASSUME Ordered, NEW y \in Tiles, NEW x,
           \A z \in Tiles : z # y => tile'[z].indexed = tile[z].indexed
    PROVE  Cardinality(indexing(x)') =
                Cardinality(indexing(x)) + bit(tile'[y].indexed = x) - bit(tile[y].indexed = x)
<1>1. \A z : z # y => (z \in indexing(x) <=> z \in indexing(x)')
  BY DEF indexing
<1>2. (y \in indexing(x) <=> tile[y].indexed = x) /\ (y \in indexing(x)' <=> tile'[y].indexed = x)
  BY DEF indexing
<1>3. Cardinality(indexing(x)') = Cardinality(indexing(x)) + bit(y \in indexing(x)') - bit(y \in indexing(x))
  BY <1>1, UsesFinite, OneMoves
<1>4. QED
  BY <1>2, <1>3 DEF bit

\* One thread moves, which may own a copy that is not installed yet.
LEMMA OwningMoves ==
    ASSUME Ordered, NEW t \in Threads, NEW s, Moves(t, s), NEW x
    PROVE  Cardinality(owning(x)') =
                Cardinality(owning(x)) + bit(t \in owning(x)') - bit(t \in owning(x))
<1>1. \A u \in Threads : u # t => at'[u] = at[u]
  BY DEF Moves, Agents
<1>2. \A u : u # t => (u \in owning(x) <=> u \in owning(x)')
  BY <1>1 DEF owning, ownsCopy
<1>3. QED
  BY <1>2, UsesFinite, OneMoves

\* Nothing happens to old data.
LEMMA AgingSame ==
    ASSUME NEW x, \A z \in Tiles : tile'[z].m_oldTileData = tile[z].m_oldTileData
    PROVE  aging(x)' = aging(x)
<1>1. \A z \in Tiles : oldUses(z, x)' = oldUses(z, x)
  BY DEF oldUses
<1>2. QED
  BY <1>1 DEF aging

\* installTileData() makes data old.
LEMMA AgingAppended ==
    ASSUME Ordered, NEW y \in Tiles, NEW old \in TileData, NEW x,
           tile'[y].m_oldTileData = Append(tile[y].m_oldTileData, old),
           \A z \in Tiles : z # y => tile'[z].m_oldTileData = tile[z].m_oldTileData
    PROVE  Cardinality(aging(x)') = Cardinality(aging(x)) + bit(old = x)
<1> DEFINE q == tile[y].m_oldTileData
           e == <<y, Len(q) + 1>>
<1>1. q \in Seq(TileData)
  BY DEF Ordered, TilesLocked, KisTile
<1>2. /\ DOMAIN Append(q, old) = 1..(Len(q) + 1)
      /\ \A k \in 1..Len(q) : Append(q, old)[k] = q[k]
      /\ Append(q, old)[Len(q) + 1] = old
      /\ DOMAIN q = 1..Len(q) /\ Len(q) \in Nat
  BY <1>1
<1>3. /\ \A k : k \in DOMAIN Append(q, old) <=> k \in DOMAIN q \/ k = Len(q) + 1
      /\ Len(q) + 1 \notin DOMAIN q
  BY <1>2
<1>4. tile'[y].m_oldTileData = Append(q, old)
  OBVIOUS
<1> DEFINE has(p) == \E z \in Tiles : \E k \in DOMAIN tile[z].m_oldTileData :
                        p = <<z, k>> /\ tile[z].m_oldTileData[k] = x
           gets(p) == \E z \in Tiles : \E k \in DOMAIN tile'[z].m_oldTileData :
                        p = <<z, k>> /\ tile'[z].m_oldTileData[k] = x
<1>5. \A p : (p \in aging(x) <=> has(p)) /\ (p \in aging(x)' <=> gets(p))
  BY Aging
<1> HIDE DEF q
<1>6. ASSUME NEW p, p # e PROVE has(p) <=> gets(p)
  <2>1. ASSUME has(p) PROVE gets(p)
    <3>1. PICK z \in Tiles : \E k \in DOMAIN tile[z].m_oldTileData : p = <<z, k>> /\ tile[z].m_oldTileData[k] = x
      BY <2>1
    <3>2. PICK k \in DOMAIN tile[z].m_oldTileData : p = <<z, k>> /\ tile[z].m_oldTileData[k] = x
      BY <3>1
    <3>3. CASE z = y
      BY <1>2, <1>3, <1>4, <3>2, <3>3 DEF q
    <3>4. CASE z # y
      BY <3>2, <3>4
    <3>5. QED
      BY <3>3, <3>4
  <2>2. ASSUME gets(p) PROVE has(p)
    <3>1. PICK z \in Tiles : \E k \in DOMAIN tile'[z].m_oldTileData : p = <<z, k>> /\ tile'[z].m_oldTileData[k] = x
      BY <2>2
    <3>2. PICK k \in DOMAIN tile'[z].m_oldTileData : p = <<z, k>> /\ tile'[z].m_oldTileData[k] = x
      BY <3>1
    <3>3. CASE z = y
      <4>1. k \in DOMAIN q /\ q[k] = x
        BY <1>2, <1>3, <1>4, <1>6, <3>2, <3>3
      <4>2. QED
        BY <3>2, <3>3, <4>1 DEF q
    <3>4. CASE z # y
      BY <3>2, <3>4
    <3>5. QED
      BY <3>3, <3>4
  <2>3. QED
    BY <2>1, <2>2
<1>7. ~has(e) /\ (gets(e) <=> old = x)
  <2>1. ~has(e)
    BY <1>3 DEF q
  <2>2. ASSUME gets(e) PROVE old = x
    BY <1>2, <1>4, <2>2
  <2>3. ASSUME old = x PROVE gets(e)
    BY <1>2, <1>3, <1>4, <2>3
  <2>4. QED
    BY <2>1, <2>2, <2>3
<1> HIDE DEF has, gets, e
<1>8. \A p : p # e => (p \in aging(x) <=> p \in aging(x)')
  BY <1>5, <1>6
<1>9. Cardinality(aging(x)') = Cardinality(aging(x)) + bit(e \in aging(x)') - bit(e \in aging(x))
  BY <1>8, UsesFinite, OneMoves
<1>10. bit(e \in aging(x)) = 0 /\ bit(e \in aging(x)') = bit(old = x)
  BY <1>5, <1>7 DEF bit
<1>11. Cardinality(aging(x)) \in Nat /\ bit(old = x) \in {0, 1}
  BY UsesFinite, FS_CardinalityType DEF bit
<1>12. QED
  BY <1>9, <1>10, <1>11

\* Of a sequence that loses its head, the other positions move down by one.
LEMMA Tails ==
    ASSUME NEW S, NEW q \in Seq(S), q # <<>>
    PROVE  /\ Len(q) \in Nat \ {0} /\ DOMAIN q = 1..Len(q) /\ Head(q) = q[1] /\ Head(q) \in S
           /\ DOMAIN Tail(q) = 1..(Len(q) - 1)
           /\ \A k \in 1..(Len(q) - 1) : Tail(q)[k] = q[k + 1]
OBVIOUS

\* A set that matches another without one element.
LEMMA OneLeaves ==
    ASSUME NEW A, NEW B, NEW e, NEW f, IsFiniteSet(A), f \in Bijection(A \ {e}, B)
    PROVE  /\ Cardinality(A) \in Nat
           /\ Cardinality(B) = Cardinality(A) - bit(e \in A)
<1>1. IsFiniteSet(A \ {e}) /\ Cardinality(A \ {e}) = Cardinality(A) - bit(e \in A) /\ Cardinality(A) \in Nat
  <2>1. IsFiniteSet(A \ {e})
        /\ Cardinality(A \ {e}) = IF e \in A THEN Cardinality(A) - 1 ELSE Cardinality(A)
    BY FS_RemoveElement
  <2>2. Cardinality(A) \in Nat
    BY FS_CardinalityType
  <2>3. QED
    BY <2>1, <2>2 DEF bit
<1>2. ExistsBijection(A \ {e}, B)
  BY DEF ExistsBijection
<1>3. QED
  BY <1>1, <1>2, FS_Bijection

\* The oldest memento item goes.
LEMMA KeptTail ==
    ASSUME Ordered, NEW x, items # <<>>, items' = Tail(items)
    PROVE  Cardinality(kept(x)') = Cardinality(kept(x)) - bit(Head(items).td = x)
<1>1. /\ Len(items) \in Nat \ {0} /\ DOMAIN items = 1..Len(items) /\ Head(items) = items[1]
      /\ DOMAIN Tail(items) = 1..(Len(items) - 1)
      /\ \A k \in 1..(Len(items) - 1) : Tail(items)[k] = items[k + 1]
  BY Tails DEF Ordered, ItemsTyped
<1> DEFINE n == Len(items)
           A == kept(x)
           B == kept(x)'
           f == [k \in A \ {1} |-> k - 1]
<1>2. \A k : /\ k \in A <=> k \in 1..n /\ items[k].td = x
             /\ k \in B <=> k \in 1..(n - 1) /\ items[k + 1].td = x
  BY <1>1 DEF kept
<1> HIDE DEF A, B
<1>3. f \in [A \ {1} -> B]
  <2>1. ASSUME NEW k \in A \ {1} PROVE k - 1 \in B
    <3>1. k \in 1..n /\ items[k].td = x /\ k # 1
      BY <1>2
    <3>2. k - 1 \in 1..(n - 1) /\ (k - 1) + 1 = k
      BY <1>1, <3>1
    <3>3. QED
      BY <1>2, <3>1, <3>2
  <2>2. QED
    BY <2>1
<1>4. \A j, k \in A \ {1} : f[j] = f[k] => j = k
  BY <1>1, <1>2
<1>5. ASSUME NEW k \in B PROVE \E j \in A \ {1} : f[j] = k
  <2>1. k \in 1..(n - 1) /\ items[k + 1].td = x
    BY <1>2
  <2>2. k + 1 \in 1..n /\ k + 1 # 1 /\ (k + 1) - 1 = k
    BY <1>1, <2>1
  <2>3. k + 1 \in A \ {1}
    BY <1>2, <2>1, <2>2
  <2>4. QED
    BY <2>2, <2>3
<1>6. f \in Bijection(A \ {1}, B)
  BY <1>3, <1>4, <1>5 DEF Bijection, Injection, Surjection, IsInjective
<1>7. 1 \in A <=> Head(items).td = x
  BY <1>1, <1>2
<1>8. IsFiniteSet(A)
  BY UsesFinite DEF A
<1> HIDE DEF f
<1>9. Cardinality(B) = Cardinality(A) - bit(1 \in A)
  BY <1>6, <1>8, OneLeaves
<1>10. QED
  BY <1>7, <1>9 DEF A, B, bit

\* safeReleaseOldTileData() takes the oldest of the old data.
LEMMA AgingTail ==
    ASSUME Ordered, NEW y \in Tiles, NEW x, tile[y].m_oldTileData # <<>>,
           tile'[y].m_oldTileData = Tail(tile[y].m_oldTileData),
           \A z \in Tiles : z # y => tile'[z].m_oldTileData = tile[z].m_oldTileData
    PROVE  Cardinality(aging(x)') = Cardinality(aging(x)) - bit(Head(tile[y].m_oldTileData) = x)
<1> DEFINE q == tile[y].m_oldTileData
           n == Len(q)
           e == <<y, 1>>
           A == aging(x)
           B == aging(x)'
           f == [p \in A \ {e} |-> IF p[1] = y THEN <<y, p[2] - 1>> ELSE p]
<1>1. /\ n \in Nat \ {0} /\ DOMAIN q = 1..n /\ Head(q) = q[1]
      /\ DOMAIN Tail(q) = 1..(n - 1)
      /\ \A k \in 1..(n - 1) : Tail(q)[k] = q[k + 1]
  <2>1. q \in Seq(TileData)
    BY DEF Ordered, TilesLocked, KisTile
  <2>2. QED
    BY <2>1, Tails
\* The pairs of y, and those of the other tiles.
<1>2. /\ \A k : <<y, k>> \in A <=> k \in 1..n /\ q[k] = x
      /\ \A k : <<y, k>> \in B <=> k \in 1..(n - 1) /\ q[k + 1] = x
  <2>1. \A k : <<y, k>> \in A <=> k \in DOMAIN q /\ q[k] = x
    BY Aging
  <2>2. ASSUME NEW k PROVE <<y, k>> \in B <=> k \in DOMAIN tile'[y].m_oldTileData /\ tile'[y].m_oldTileData[k] = x
    <3>1. ASSUME <<y, k>> \in B PROVE k \in DOMAIN tile'[y].m_oldTileData /\ tile'[y].m_oldTileData[k] = x
      <4>1. PICK z \in Tiles : \E j \in DOMAIN tile'[z].m_oldTileData :
                <<y, k>> = <<z, j>> /\ tile'[z].m_oldTileData[j] = x
        BY <3>1, Aging
      <4>2. QED
        BY <4>1
    <3>2. ASSUME k \in DOMAIN tile'[y].m_oldTileData, tile'[y].m_oldTileData[k] = x PROVE <<y, k>> \in B
      BY <3>2, Aging
    <3>3. QED
      BY <3>1, <3>2
  <2>3. tile'[y].m_oldTileData = Tail(q)
    OBVIOUS
  <2> HIDE DEF A, B, q
  <2>4. QED
    BY <1>1, <2>1, <2>2, <2>3
<1>3. /\ \A z, k : z # y => (<<z, k>> \in A <=> <<z, k>> \in B)
      /\ \A p \in A : p = <<p[1], p[2]>>
      /\ \A p \in B : p = <<p[1], p[2]>>
  BY DEF aging, oldUses
<1>4. \A p \in A \ {e} : p[1] = y => p[2] \in 2..n /\ <<y, p[2]>> = p /\ q[p[2]] = x
  <2>1. SUFFICES ASSUME NEW p \in A \ {e}, p[1] = y PROVE p[2] \in 2..n /\ <<y, p[2]>> = p /\ q[p[2]] = x
    OBVIOUS
  <2>2. p = <<y, p[2]>>
    BY <1>3, <2>1
  <2>3. p[2] \in 1..n /\ q[p[2]] = x /\ p[2] # 1
    BY <1>2, <2>1, <2>2
  <2>4. QED
    BY <1>1, <2>2, <2>3
<1> HIDE DEF A, B, q, n
<1>5. f \in [A \ {e} -> B]
  <2>1. ASSUME NEW p \in A \ {e} PROVE (IF p[1] = y THEN <<y, p[2] - 1>> ELSE p) \in B
    <3>1. CASE p[1] = y
      <4>1. PICK k \in 2..n : k = p[2] /\ q[k] = x
        BY <1>4, <3>1
      <4>2. k - 1 \in 1..(n - 1) /\ (k - 1) + 1 = k
        BY <1>1, <4>1
      <4>3. <<y, k - 1>> \in B
        BY <1>2, <4>1, <4>2
      <4>4. QED
        BY <3>1, <4>1, <4>3
    <3>2. CASE p[1] # y
      <4>1. p = <<p[1], p[2]>>
        BY <1>3
      <4>2. QED
        BY <1>3, <3>2, <4>1
    <3>3. QED
      BY <3>1, <3>2
  <2>2. QED
    BY <2>1
<1>6. ASSUME NEW p \in A \ {e}, NEW r \in A \ {e}, f[p] = f[r] PROVE p = r
  <2>1. /\ p[1] = y => f[p] = <<y, p[2] - 1>> /\ p[2] \in 2..n /\ p = <<y, p[2]>>
        /\ r[1] = y => f[r] = <<y, r[2] - 1>> /\ r[2] \in 2..n /\ r = <<y, r[2]>>
        /\ p[1] # y => f[p] = p
        /\ r[1] # y => f[r] = r
    BY <1>4
  <2>2. CASE p[1] = y /\ r[1] = y
    <3>1. p[2] - 1 = r[2] - 1
      BY <1>6, <2>1, <2>2
    <3>2. p[2] = r[2]
      BY <1>1, <2>1, <2>2, <3>1
    <3>3. QED
      BY <2>1, <2>2, <3>2
  <2>3. CASE ~(p[1] = y /\ r[1] = y)
    BY <1>6, <2>1, <2>3
  <2>4. QED
    BY <2>2, <2>3
<1>7. ASSUME NEW r \in B PROVE \E p \in A \ {e} : f[p] = r
  <2>1. r = <<r[1], r[2]>>
    BY <1>3
  <2>2. CASE r[1] = y
    <3>1. r[2] \in 1..(n - 1) /\ q[r[2] + 1] = x
      BY <1>2, <2>1, <2>2
    <3>2. r[2] + 1 \in 1..n /\ r[2] + 1 # 1 /\ (r[2] + 1) - 1 = r[2]
      BY <1>1, <3>1
    <3>3. <<y, r[2] + 1>> \in A \ {e}
      BY <1>2, <3>1, <3>2
    <3>4. f[<<y, r[2] + 1>>] = <<y, (r[2] + 1) - 1>>
      BY <3>3
    <3>5. QED
      BY <2>1, <2>2, <3>2, <3>3, <3>4
  <2>3. CASE r[1] # y
    <3>1. r \in A
      BY <1>3, <2>1, <2>3
    <3>2. r \in A \ {e} /\ f[r] = r
      BY <2>3, <3>1
    <3>3. QED
      BY <3>2
  <2>4. QED
    BY <2>2, <2>3
<1>8. f \in Bijection(A \ {e}, B)
  BY <1>5, <1>6, <1>7 DEF Bijection, Injection, Surjection, IsInjective
<1>9. e \in A <=> Head(q) = x
  BY <1>1, <1>2
<1>10. IsFiniteSet(A)
  BY UsesFinite DEF A
<1> HIDE DEF f, e
<1>11. Cardinality(B) = Cardinality(A) - bit(e \in A)
  BY <1>8, <1>10, OneLeaves
<1>12. QED
  BY <1>9, <1>11 DEF A, B, bit, q

\* A memento item is committed.
LEMMA KeptAppended ==
    ASSUME Ordered, NEW x, NEW item, item \in [td : TileData, expected : SUBSET (1..MaxWrites)],
           items' = Append(items, item)
    PROVE  Cardinality(kept(x)') = Cardinality(kept(x)) + bit(item.td = x)
<1> DEFINE n == Len(items)
<1>1. /\ n \in Nat /\ DOMAIN items = 1..n /\ DOMAIN items' = 1..(n + 1)
      /\ \A k \in 1..n : items'[k] = items[k]
      /\ items'[n + 1] = item
  BY DEF Ordered, ItemsTyped
<1> HIDE DEF n
<1>2. \A k : k \in 1..(n + 1) <=> k \in 1..n \/ k = n + 1
  BY <1>1
<1>3. \A k : k # n + 1 => (k \in kept(x) <=> k \in kept(x)')
  BY <1>1, <1>2 DEF kept
<1>4. n + 1 \notin kept(x) /\ (n + 1 \in kept(x)' <=> item.td = x)
  BY <1>1, <1>2 DEF kept
<1>5. Cardinality(kept(x)') = Cardinality(kept(x)) + bit(n + 1 \in kept(x)') - bit(n + 1 \in kept(x))
  BY <1>3, UsesFinite, OneMoves
<1>6. bit(n + 1 \in kept(x)) = 0 /\ bit(n + 1 \in kept(x)') = bit(item.td = x)
  BY <1>4 DEF bit
<1>7. Cardinality(kept(x)) \in Nat /\ bit(item.td = x) \in {0, 1}
  BY UsesFinite, FS_CardinalityType DEF bit
<1>8. QED
  BY <1>5, <1>6, <1>7

-------------------------------------------------------------------------------
(***************************************************************************)
(* Steps that leave the users of all tile data alone.                      *)
(***************************************************************************)
owned(r) == r.pc = "blockNew" \/ "install" \in {r.pc, r.next}
pending(r) == frees(r) \/ makes(r)

SameClaim(r, s) ==
    /\ owned(s) <=> owned(r)
    /\ pending(s) <=> pending(r)
    /\ owned(r) \/ pending(r) => s.td = r.td

TilesKept ==
    \A y \in Tiles :
        /\ tile'[y].m_tileData = tile[y].m_tileData
        /\ tile'[y].m_oldTileData = tile[y].m_oldTileData
        /\ tile'[y].indexed = tile[y].indexed

CountsKept ==
    /\ DOMAIN td' = TileData
    /\ \A x \in TileData :
        /\ DOMAIN td'[x] = Fields
        /\ td'[x].exists = td[x].exists
        /\ td'[x].m_usersCount = td[x].m_usersCount
        /\ td'[x].m_refCount = td[x].m_refCount

\* Nobody gains or loses a claim, no counter changes.
LEMMA CountedKept ==
    ASSUME Counted, TilesKept, CountsKept, items' = items,
           \A u \in Threads : SameClaim(at[u], at'[u])
    PROVE  Counted'
<1>1. ASSUME NEW x \in TileData
      PROVE  tileUsers(x)' = tileUsers(x) /\ indexUsers(x)' = indexUsers(x)
  <2>1. showing(x)' = showing(x) /\ indexing(x)' = indexing(x) /\ kept(x)' = kept(x)
    BY DEF TilesKept, showing, indexing, kept
  <2>2. aging(x)' = aging(x)
    BY AgingSame DEF TilesKept
  <2>3. owning(x)' = owning(x)
    BY DEF owning, ownsCopy, SameClaim, owned
  <2>4. QED
    BY <2>1, <2>2, <2>3 DEF tileUsers, indexUsers, count, showing, aging, kept, owning, indexing
<1>2. ASSUME NEW x \in TileData, NEW u \in Threads
      PROVE  busy(u, x)' <=> busy(u, x)
  BY DEF busy, pending, SameClaim
<1>3. QED
  BY <1>1, <1>2 DEF Counted, CountsKept

\* Which steps change no claim.
LEMMA ClaimKept ==
    ASSUME NEW r \in AgentRecord, NEW s \in AgentRecord, s.td = r.td, s.next = r.next,
           {r.pc, s.pc} \cap {"blockNew", "install", "free", "register"} = {}
    PROVE  SameClaim(r, s)
BY DEF SameClaim, owned, pending, frees, makes, where, SwapLabels, AgentRecord

\* ... or has none, before and after.
LEMMA NoClaim ==
    ASSUME NEW r \in AgentRecord, NEW s \in AgentRecord, r.next # "install", s.next # "install",
           {r.pc, s.pc} \cap {"blockNew", "install", "free", "register"} = {}
    PROVE  SameClaim(r, s)
BY DEF SameClaim, owned, pending, frees, makes, where, SwapLabels, AgentRecord

\* A step of one thread that keeps its claim.
LEMMA CountedQuietly ==
    ASSUME Ordered, Counted, NEW t \in Threads, NEW s, at' = [at EXCEPT ![t] = s],
           SameClaim(at[t], s), TilesKept, CountsKept, items' = items
    PROVE  Counted'
<1>1. \A u \in Threads : u # t => at'[u] = at[u]
  BY DEF Ordered, Control, Agents
<1>2. at'[t] = s
  BY DEF Ordered, Control, Agents
<1>3. \A u \in Threads : SameClaim(at[u], at'[u])
  BY <1>1, <1>2 DEF SameClaim
<1>4. QED
  BY <1>3, CountedKept

\* The tiles show what they showed.
LEMMA SameTiles ==
    ASSUME UNCHANGED tile
    PROVE  TilesKept
BY DEF TilesKept

\* The counters are what they were.
LEMMA SameTileData ==
    ASSUME Counted, UNCHANGED td
    PROVE  CountsKept
BY DEF Counted, CountsKept

\* The steps of copy-on-write that make no data and register none.
LEMMA CopyingCounted ==
    ASSUME Ordered, Counted, NEW t \in Threads,
           checkLazyCopying(t) \/ lockCOW(t) \/ missClone(t) \/ blockNewTileData(t)
    PROVE  Counted'
<1>1. at[t] \in AgentRecord /\ ThreadShape(at[t]) /\ at \in [Agents -> AgentRecord] /\ t \in Agents
  BY ThreadRecord
<1>2. DOMAIN td = TileData /\ \A x \in TileData : DOMAIN td[x] = Fields
  BY DEF Counted
<1>3. at[t].pc \in {"checkCOW", "lockCOW", "clone", "blockNew"} /\ at[t].resume = "idle"
  BY <1>1 DEF checkLazyCopying, lockCOW, missClone, blockNewTileData, ThreadShape, SwapLabels
<1>4. at[t].next = "idle" /\ at[t].tile # NoTile
  BY <1>1, <1>3 DEF ThreadShape, loads, frees, where, SwapLabels, LoadLabels, CopyLabels
<1>5. PICK x : x = tile[at[t].tile].m_tileData
  OBVIOUS
<1>6. at[t].tile \in Tiles /\ x \in TileData
  BY <1>4, <1>5, UsedTile
<1>7. items' = items
  BY DEF checkLazyCopying, lockCOW, missClone, blockNewTileData
<1>8. TilesKept
  <2>1. tile' = tile \/ tile' = [tile EXCEPT ![at[t].tile].m_COWMutex = t]
    BY DEF checkLazyCopying, lockCOW, missClone, blockNewTileData
  <2>2. tile \in [Tiles -> KisTile]
    BY DEF Ordered, TilesLocked
  <2>3. CASE tile' = tile
    BY <2>3 DEF TilesKept
  <2>4. CASE tile' = [tile EXCEPT ![at[t].tile].m_COWMutex = t]
    <3>1. PICK y \in Tiles : y = at[t].tile
      BY <1>6
    <3>2. tile' = [tile EXCEPT ![y].m_COWMutex = t]
      BY <2>4, <3>1
    <3>3. QED
      BY <2>2, <3>2 DEF TilesKept, KisTile
  <2>5. QED
    BY <2>1, <2>3, <2>4
<1>9. CASE checkLazyCopying(t) \/ lockCOW(t)
  <2>1. PICK s : /\ at' = [at EXCEPT ![t] = s]
                 /\ \/ s = [at[t] EXCEPT !.pc = "lockCOW"]
                    \/ s = [at[t] EXCEPT !.pc = "clone"]
                    \/ s = [at[t] EXCEPT !.pc = "writing", !.td = x]
    BY <1>5, <1>9 DEF checkLazyCopying, lockCOW, goto, startWriting
  <2>2. s \in AgentRecord /\ s.next = "idle" /\ s.pc \in {"lockCOW", "clone", "writing"}
    BY <1>1, <1>4, <1>6, <2>1 DEF AgentRecord, ThreadLabels, CopyLabels
  <2>3. UNCHANGED td
    BY <1>9 DEF checkLazyCopying, lockCOW
  <2>4. at[t].pc \in {"checkCOW", "lockCOW"}
    BY <1>9 DEF checkLazyCopying, lockCOW
  <2>5. SameClaim(at[t], s)
    BY <1>1, <1>4, <2>2, <2>4, NoClaim
  <2>6. QED
    BY <1>7, <1>8, <2>1, <2>3, <2>5, SameTileData, CountedQuietly
<1>10. CASE missClone(t)
  <2> DEFINE there == [at[t] EXCEPT !.td = x]
  <2>1. PICK s : s = checkFreeMemory(there, "copy")
    OBVIOUS
  <2>2. /\ at' = [at EXCEPT ![t] = s] /\ at[t].pc = "clone"
        /\ td' = [td EXCEPT ![x].readers = @ + 1]
    BY <1>5, <1>10, <2>1 DEF missClone
  <2>3. there \in AgentRecord /\ there.next = "idle" /\ there.resume = "idle"
    BY <1>1, <1>3, <1>4, <1>6 DEF AgentRecord
  <2> HIDE DEF there
  <2>4. s \in AgentRecord /\ Detour(s, there, "copy")
    BY <2>1, <2>3, MemoryDetour
  <2>5. s.next = "idle" /\ s.pc \in {"cycle", "copy"}
    BY <2>3, <2>4 DEF Detour, AgentRecord
  <2>6. SameClaim(at[t], s)
    BY <1>1, <1>4, <2>2, <2>4, <2>5, NoClaim
  <2>7. CountsKept
    BY <1>2, <1>6, <2>2 DEF CountsKept, Fields
  <2>8. QED
    BY <1>7, <1>8, <2>2, <2>6, <2>7, CountedQuietly
<1>11. CASE blockNewTileData(t)
  <2> DEFINE there == [at[t] EXCEPT !.pc = "install"]
  <2>1. PICK z : z = at[t].td
    OBVIOUS
  <2> DEFINE waiting == [there EXCEPT !.loading = z, !.next = "install"]
  <2>2. there.pc = "install" /\ z \in TileData /\ at[t].pc = "blockNew"
    BY <1>1, <1>11, <2>1 DEF AgentRecord, ThreadShape, copies, where, SwapLabels, CopyLabels, blockNewTileData
  <2>3. /\ \/ at' = [at EXCEPT ![t] = there]
           \/ at' = [at EXCEPT ![t] = checkFreeMemory(waiting, "load")]
        /\ td' = td \/ td' = [td EXCEPT ![z].readers = @ + 1]
    BY <1>11, <2>1, <2>2 DEF blockNewTileData, blockSwapping
  <2>4. CountsKept
    BY <1>2, <2>2, <2>3 DEF CountsKept, Fields
  <2>5. CASE at' = [at EXCEPT ![t] = there]
    <3>1. there \in AgentRecord /\ there.td = at[t].td /\ there.pc = "install" /\ there.next = "idle"
      BY <1>1, <1>4 DEF AgentRecord, ThreadLabels, CopyLabels
    <3> HIDE DEF there
    <3>2. SameClaim(at[t], there)
      BY <1>4, <2>2, <3>1 DEF SameClaim, owned, pending, frees, makes, where, SwapLabels
    <3>3. QED
      BY <1>7, <1>8, <2>4, <2>5, <3>2, CountedQuietly
  <2>6. CASE at' = [at EXCEPT ![t] = checkFreeMemory(waiting, "load")]
    <3>1. PICK s : s = checkFreeMemory(waiting, "load")
      OBVIOUS
    <3>2. waiting \in AgentRecord /\ waiting.td = at[t].td /\ waiting.next = "install" /\ waiting.resume = "idle"
      BY <1>1, <1>3, <2>2 DEF AgentRecord, ThreadLabels, CopyLabels
    <3> HIDE DEF waiting
    <3>3. s \in AgentRecord /\ Detour(s, waiting, "load")
      BY <3>1, <3>2, MemoryDetour
    <3>4. s.next = "install" /\ s.pc \in {"cycle", "load"} /\ s.td = at[t].td /\ (s.pc = "cycle" => s.resume = "load")
      BY <3>2, <3>3 DEF Detour, AgentRecord
    <3>5. SameClaim(at[t], s)
      BY <1>4, <2>2, <3>4 DEF SameClaim, owned, pending, frees, makes, where, SwapLabels
    <3>6. QED
      BY <1>7, <1>8, <2>4, <2>6, <3>1, <3>5, CountedQuietly
  <2>7. QED
    BY <2>3, <2>5, <2>6
<1>12. QED
  BY <1>9, <1>10, <1>11

\* Loading concerns where data is, not who uses it.
LEMMA LoadingCounted ==
    ASSUME Ordered, Counted, NEW t \in Threads, Loading(t)
    PROVE  Counted'
<1>1. at[t] \in AgentRecord /\ ThreadShape(at[t]) /\ at \in [Agents -> AgentRecord] /\ t \in Agents
  BY ThreadRecord
<1>2. DOMAIN td = TileData /\ \A x \in TileData : DOMAIN td[x] = Fields
  BY DEF Counted
<1>3. PICK x : x = at[t].loading
  OBVIOUS
<1>4. at[t].pc \in LoadLabels /\ items' = items
  BY DEF Loading, lockLoaded, findSwappedOut, lockList, swapInTileData, LoadLabels
<1>5. x \in TileData
  BY <1>1, <1>3, <1>4 DEF AgentRecord, ThreadShape, loads, where, SwapLabels, LoadLabels
<1>6. CountsKept
  <2>1. \/ td' = td
        \/ td' = [td EXCEPT ![x].readers = @ + 1]
        \/ \E data : td' = [td EXCEPT ![x].m_data = data, ![x].listed = TRUE, ![x].m_swapChunk = NoChunk]
    BY <1>3 DEF Loading, lockLoaded, findSwappedOut, lockList, swapInTileData
  <2>2. CASE td' = td
    BY <1>2, <2>2 DEF CountsKept
  <2>3. CASE td' = [td EXCEPT ![x].readers = @ + 1]
    BY <1>2, <1>5, <2>3 DEF CountsKept, Fields
  <2>4. ASSUME NEW data, td' = [td EXCEPT ![x].m_data = data, ![x].listed = TRUE, ![x].m_swapChunk = NoChunk]
        PROVE  CountsKept
    <3>1. DOMAIN td' = TileData /\ \A z \in TileData : z # x => td'[z] = td[z]
      BY <1>2, <1>5, <2>4
    <3>2. td'[x] = [td[x] EXCEPT !.m_data = data, !.listed = TRUE, !.m_swapChunk = NoChunk]
      BY <1>2, <1>5, <2>4
    <3>3. /\ DOMAIN td'[x] = Fields /\ td'[x].exists = td[x].exists
          /\ td'[x].m_usersCount = td[x].m_usersCount /\ td'[x].m_refCount = td[x].m_refCount
      BY <1>2, <1>5, <3>2 DEF Fields
    <3>4. QED
      BY <1>2, <3>1, <3>3 DEF CountsKept
  <2>5. QED
    BY <2>1, <2>2, <2>3, <2>4
<1>7. TilesKept
  <2>1. tile' = tile \/ releaseBarrier(t)
    BY DEF Loading, lockLoaded, findSwappedOut, lockList, swapInTileData
  <2>2. tile \in [Tiles -> KisTile]
    BY DEF Ordered, TilesLocked
  <2>3. QED
    BY <2>1, <2>2 DEF TilesKept, KisTile, releaseBarrier
<1>8. PICK s : /\ at' = [at EXCEPT ![t] = s]
               /\ \/ at[t].pc = "load" /\ s = [at[t] EXCEPT !.pc = at[t].next, !.loading = NoTileData, !.next = "idle"]
                  \/ \E pc \in LoadLabels : s = [at[t] EXCEPT !.pc = pc]
  BY DEF Loading, lockLoaded, findSwappedOut, lockList, swapInTileData, goto, LoadLabels
<1>9. at[t].next \in {"checkCOW", "reading", "install"}
  BY <1>1, <1>4 DEF ThreadShape, loads, where, LoadLabels, SwapLabels
<1>10. SameClaim(at[t], s)
  <2>1. CASE at[t].pc = "load" /\ s = [at[t] EXCEPT !.pc = at[t].next, !.loading = NoTileData, !.next = "idle"]
    <3>1. s.pc = at[t].next /\ s.next = "idle" /\ s.td = at[t].td
      BY <1>1, <2>1 DEF AgentRecord
    <3>2. QED
      BY <1>9, <2>1, <3>1 DEF SameClaim, owned, pending, frees, makes, where, SwapLabels
  <2>2. CASE \E pc \in LoadLabels : s = [at[t] EXCEPT !.pc = pc]
    <3>1. s \in AgentRecord /\ s.pc \in LoadLabels /\ s.next = at[t].next /\ s.td = at[t].td
      BY <1>1, <2>2 DEF AgentRecord, ThreadLabels
    <3>2. QED
      BY <1>1, <1>4, <3>1, ClaimKept DEF LoadLabels
  <2>3. QED
    BY <1>8, <2>1, <2>2
<1>11. QED
  BY <1>4, <1>6, <1>7, <1>8, <1>10, CountedQuietly

\* Tile data of which only other fields change.
LEMMA CountsKeptAt ==
    ASSUME Counted, NEW x \in TileData, NEW r, td' = [td EXCEPT ![x] = r],
           DOMAIN r = Fields, r.exists = td[x].exists,
           r.m_usersCount = td[x].m_usersCount, r.m_refCount = td[x].m_refCount
    PROVE  CountsKept
<1>1. DOMAIN td = TileData /\ \A z \in TileData : DOMAIN td[z] = Fields
  BY DEF Counted
<1>2. QED
  BY <1>1 DEF CountsKept

\* One tile changes and keeps what it shows.
LEMMA TilesKeptAt ==
    ASSUME Ordered, NEW y \in Tiles, NEW r, tile' = [tile EXCEPT ![y] = r],
           r.m_tileData = tile[y].m_tileData, r.m_oldTileData = tile[y].m_oldTileData,
           r.indexed = tile[y].indexed
    PROVE  TilesKept
<1>1. DOMAIN tile = Tiles
  BY DEF Ordered, TilesLocked
<1>2. QED
  BY <1>1 DEF TilesKept

\* lockForRead() and lockForWrite() block data and count nothing.
LEMMA LockTileCounted ==
    ASSUME Ordered, Counted, NEW t \in Threads, NEW y \in Tiles, NEW write \in BOOLEAN,
           lockTile(t, y, write)
    PROVE  Counted'
<1> DEFINE first == tile[y].m_lockCounter = 0
           data == tile[y].m_tileData
           s == IF first /\ ~loaded(data) THEN waitingFor(y, write, data) ELSE entering(y, write)
           r == [tile[y] EXCEPT !.m_lockCounter = @ + 1,
                                !.m_swapBarrierLock = IF first /\ ~loaded(data) THEN t ELSE @]
<1>1. at[t] \in AgentRecord /\ ThreadShape(at[t]) /\ tile[y] \in KisTile
  BY ThreadRecord DEF Ordered, TilesLocked
<1>2. /\ at[t].pc = "idle" /\ data # NoTileData
      /\ tile' = [tile EXCEPT ![y] = r]
      /\ at' = [at EXCEPT ![t] = s]
      /\ td' = td \/ td' = [td EXCEPT ![data].readers = @ + 1]
      /\ items' = items
  BY DEF lockTile, blockSwapping, history, entering, waitingFor
<1>3. data \in TileData
  BY <1>1, <1>2 DEF KisTile
<1>4. TilesKept
  <2>1. r.m_tileData = tile[y].m_tileData /\ r.m_oldTileData = tile[y].m_oldTileData /\ r.indexed = tile[y].indexed
    BY <1>1 DEF KisTile
  <2> HIDE DEF r
  <2>2. QED
    BY <1>2, <2>1, TilesKeptAt
<1>5. CountsKept
  <2>1. DOMAIN td = TileData /\ \A x \in TileData : DOMAIN td[x] = Fields
    BY DEF Counted
  <2> HIDE DEF data
  <2>2. CASE td' = td
    BY <2>1, <2>2 DEF CountsKept
  <2>3. CASE td' = [td EXCEPT ![data].readers = @ + 1]
    BY <1>3, <2>1, <2>3 DEF CountsKept, Fields
  <2>4. QED
    BY <1>2, <2>2, <2>3
<1> HIDE DEF data
<1>6. Entered(s, y, write)
  BY <1>3, EnteredStep
<1> HIDE DEF s
<1>7. SameClaim(at[t], s)
  BY <1>1, <1>2, <1>6 DEF Entered, SameClaim, owned, pending, frees, makes, copies, owns, loads, where,
       ThreadShape, AgentRecord, SwapLabels, LoadLabels, CopyLabels
<1>8. QED
  BY <1>2, <1>4, <1>5, <1>7, CountedQuietly

\* A write changes pixels.
LEMMA WritePixelCounted ==
    ASSUME Ordered, Counted, NEW t \in Threads, writePixel(t)
    PROVE  Counted'
<1>1. at[t] \in AgentRecord /\ ThreadShape(at[t]) /\ at[t].pc = "writing"
  BY ThreadRecord DEF writePixel
<1>2. at[t].tile # NoTile /\ at[t].td \in TileData /\ at[t].next = "idle"
  BY <1>1 DEF ThreadShape, where, frees, loads, points, AgentRecord, SwapLabels, LoadLabels
<1>3. PICK y \in Tiles : y = at[t].tile
  BY <1>2, UsedTile
<1>4. PICK x \in TileData : x = at[t].td
  BY <1>2
<1>5. PICK s : s = [at[t] EXCEPT !.pc = "wrote"]
  OBVIOUS
<1> DEFINE r == [tile[y] EXCEPT !.expected = @ \cup {written'}]
           z == [td[x] EXCEPT !.m_data = @ \cup {written'}]
<1>6. /\ at' = [at EXCEPT ![t] = s] /\ items' = items
      /\ tile' = [tile EXCEPT ![y] = r] /\ td' = [td EXCEPT ![x] = z]
  BY <1>3, <1>4, <1>5 DEF writePixel, goto
<1>7. r.m_tileData = tile[y].m_tileData /\ r.m_oldTileData = tile[y].m_oldTileData /\ r.indexed = tile[y].indexed
  BY DEF Ordered, TilesLocked, KisTile
<1>8. DOMAIN z = Fields /\ z.exists = td[x].exists /\ z.m_usersCount = td[x].m_usersCount
      /\ z.m_refCount = td[x].m_refCount
  BY DEF Counted, Fields
<1> HIDE DEF r, z
<1>9. TilesKept /\ CountsKept
  BY <1>6, <1>7, <1>8, TilesKeptAt, CountsKeptAt
<1>10. SameClaim(at[t], s)
  <2>1. s \in AgentRecord /\ s.next = "idle" /\ s.pc = "wrote"
    BY <1>1, <1>2, <1>5 DEF AgentRecord, ThreadLabels
  <2>2. QED
    BY <1>1, <1>2, <2>1, NoClaim
<1>11. QED
  BY <1>6, <1>9, <1>10, CountedQuietly

\* The last user unblocks the data; the old data is not touched yet.
LEMMA UnlockTileCounted ==
    ASSUME Ordered, Counted, NEW t \in Threads, unlockTile(t)
    PROVE  Counted'
<1>1. at[t] \in AgentRecord /\ ThreadShape(at[t]) /\ at[t].pc \in {"reading", "wrote"}
  BY ThreadRecord DEF unlockTile
<1>2. at[t].tile # NoTile /\ at[t].next = "idle"
  BY <1>1 DEF ThreadShape, where, frees, loads, AgentRecord, SwapLabels, LoadLabels
<1>3. PICK y \in Tiles : y = at[t].tile
  BY <1>2, UsedTile
<1>4. PICK x \in TileData : x = tile[y].m_tileData
  BY <1>2, <1>3, UsedTile
<1> DEFINE last == tile[y].m_lockCounter = 1
           old == last /\ tile[y].m_oldTileData # <<>>
           r == [tile[y] EXCEPT !.m_lockCounter = @ - 1, !.m_swapBarrierLock = IF old THEN t ELSE @]
           z == [td[x] EXCEPT !.readers = @ - 1]
<1>5. PICK s : s = IF old THEN [Idle EXCEPT !.pc = "releaseOld", !.tile = y] ELSE Idle
  OBVIOUS
<1>6. /\ at' = [at EXCEPT ![t] = s] /\ items' = items
      /\ tile' = [tile EXCEPT ![y] = r]
      /\ td' = td \/ td' = [td EXCEPT ![x] = z]
  BY <1>3, <1>4, <1>5 DEF unlockTile, unblocked
<1>7. r.m_tileData = tile[y].m_tileData /\ r.m_oldTileData = tile[y].m_oldTileData /\ r.indexed = tile[y].indexed
  BY DEF Ordered, TilesLocked, KisTile
<1>8. DOMAIN z = Fields /\ z.exists = td[x].exists /\ z.m_usersCount = td[x].m_usersCount
      /\ z.m_refCount = td[x].m_refCount
  BY DEF Counted, Fields
<1> HIDE DEF r, z, old
<1>9. TilesKept
  BY <1>6, <1>7, TilesKeptAt
<1>10. CountsKept
  <2>1. ASSUME td' = td PROVE CountsKept
    BY <2>1, SameTileData
  <2>2. ASSUME td' = [td EXCEPT ![x] = z] PROVE CountsKept
    BY <1>8, <2>2, CountsKeptAt
  <2>3. QED
    BY <1>6, <2>1, <2>2
<1>11. SameClaim(at[t], s)
  <2>1. s \in AgentRecord /\ s.next = "idle" /\ s.pc \in {"idle", "releaseOld"}
    BY <1>5 DEF Idle, AgentRecord, ThreadLabels
  <2>2. QED
    BY <1>1, <1>2, <2>1, NoClaim
<1>12. QED
  BY <1>6, <1>9, <1>10, <1>11, CountedQuietly

\* Swapping concerns where data is, not who uses it.
LEMMA SwappingCounted ==
    ASSUME Ordered, Counted, NEW a \in Threads \cup {Swapper}, Swapping(a)
    PROVE  Counted'
<1>1. PICK s : /\ at' = [at EXCEPT ![a] = s] /\ SwapMove(a, at[a], s)
               /\ at[a].pc \in SwapLabels \cup {"idle"}
               /\ UNCHANGED <<tile, items, written>>
  BY SwapLocks
<1>2. at \in [Agents -> AgentRecord] /\ a \in Agents /\ Threads \subseteq Agents
  BY DEF Ordered, Control, Agents
<1>3. ASSUME NEW u \in Threads PROVE SameClaim(at[u], at'[u])
  <2>1. CASE u # a
    BY <1>1, <1>2, <2>1 DEF SameClaim
  <2>2. CASE u = a
    <3>1. at[u] \in AgentRecord /\ ThreadShape(at[u]) /\ at[u].pc \in SwapLabels /\ at'[u] = s
      BY <1>1, <1>2, <2>2, StoreAssumption, ThreadRecord DEF SwapMove
    <3>2. /\ s \in AgentRecord /\ where(s) = where(at[u]) /\ s.td = at[u].td /\ s.next = at[u].next
          /\ s.pc \in SwapLabels \cup {"load", "copy"}
      <4>1. \/ \E pc \in SwapLabels : s = [at[u] EXCEPT !.pc = pc]
            \/ s = [at[u] EXCEPT !.pc = at[u].resume, !.resume = "idle"]
        BY <1>1, <2>2 DEF SwapMove
      <4>2. at[u].resume \in {"load", "copy"}
        BY <3>1 DEF ThreadShape, AgentRecord
      <4>3. s.pc \in SwapLabels \cup {"load", "copy"}
        BY <3>1, <4>1, <4>2 DEF AgentRecord
      <4>4. QED
        BY <3>1, <4>1, <4>3, SwapStep
    <3>3. QED
      BY <3>1, <3>2 DEF SameClaim, owned, pending, frees, makes, SwapLabels
  <2>3. QED
    BY <2>1, <2>2
<1>4. CountsKept
  <2>1. td' = td \/ \E x \in TileData : swapOutTileData(x)
    BY DEF Swapping, beginCycle, beginPass, trySwapOut, endPass
  <2>2. ASSUME td' = td PROVE CountsKept
    BY <2>2, SameTileData
  <2>3. ASSUME NEW x \in TileData, swapOutTileData(x) PROVE CountsKept
    <3>1. PICK begin : td' = [td EXCEPT ![x].m_data = NoData, ![x].listed = FALSE,
                            ![x].m_clonesStack = <<>>, ![x].m_swapChunk = begin]
      BY <2>3 DEF swapOutTileData
    <3> DEFINE z == [td[x] EXCEPT !.m_data = NoData, !.listed = FALSE,
                            !.m_clonesStack = <<>>, !.m_swapChunk = begin]
    <3>2. td' = [td EXCEPT ![x] = z]
      BY <3>1
    <3>3. DOMAIN z = Fields /\ z.exists = td[x].exists /\ z.m_usersCount = td[x].m_usersCount
          /\ z.m_refCount = td[x].m_refCount
      BY DEF Counted, Fields
    <3> HIDE DEF z
    <3>4. QED
      BY <3>2, <3>3, CountsKeptAt
  <2>4. QED
    BY <2>1, <2>2, <2>3
<1>5. TilesKept
  BY <1>1, SameTiles
<1>6. QED
  BY <1>1, <1>3, <1>4, <1>5, CountedKept

\* The pooler fills and empties the stacks of clones.
LEMMA PoolingCounted ==
    ASSUME Ordered, Counted, Pooling
    PROVE  Counted'
<1>1. UNCHANGED <<tile, items>>
  BY DEF Pooling, freeClones, beginCloning, copyClone, pushClone
<1>2. ASSUME NEW u \in Threads PROVE SameClaim(at[u], at'[u])
  <2>1. u \in Agents /\ u # Pooler /\ at \in [Agents -> AgentRecord]
    BY StoreAssumption DEF Ordered, Control, Agents
  <2>2. at' = at \/ \E s : at' = [at EXCEPT ![Pooler] = s]
    BY DEF Pooling, freeClones, beginCloning, copyClone, pushClone, goto
  <2>3. QED
    BY <2>1, <2>2 DEF SameClaim
<1>3. CountsKept
  <2>1. ASSUME NEW x \in TileData, freeClones(x) PROVE CountsKept
    <3>1. PICK stack : td' = [td EXCEPT ![x] = [td[x] EXCEPT !.m_clonesStack = stack]]
      BY <2>1 DEF freeClones
    <3> DEFINE z == [td[x] EXCEPT !.m_clonesStack = stack]
    <3>2. DOMAIN z = Fields /\ z.exists = td[x].exists /\ z.m_usersCount = td[x].m_usersCount
          /\ z.m_refCount = td[x].m_refCount
      BY DEF Counted, Fields
    <3> HIDE DEF z
    <3>3. QED
      BY <3>1, <3>2, CountsKeptAt DEF z
  <2>2. ASSUME NEW x \in TileData, beginCloning(x) PROVE CountsKept
    <3> DEFINE z == [td[x] EXCEPT !.readers = @ + 1]
    <3>1. td' = [td EXCEPT ![x] = z]
      BY <2>2 DEF beginCloning
    <3>2. DOMAIN z = Fields /\ z.exists = td[x].exists /\ z.m_usersCount = td[x].m_usersCount
          /\ z.m_refCount = td[x].m_refCount
      BY DEF Counted, Fields
    <3> HIDE DEF z
    <3>3. QED
      BY <3>1, <3>2, CountsKeptAt
  <2>3. ASSUME copyClone PROVE CountsKept
    BY <2>3, SameTileData DEF copyClone
  <2>4. ASSUME pushClone PROVE CountsKept
    <3>1. PICK x \in TileData : x = at[Pooler].td
      BY <2>4 DEF pushClone, Ordered, Control, PoolerShape
    <3>2. PICK stack : stack = Append(td[x].m_clonesStack, preclone.data)
      OBVIOUS
    <3> DEFINE z == [td[x] EXCEPT !.m_clonesStack = stack]
               w == [z EXCEPT !.readers = @ - 1]
    <3>3. td' = [td EXCEPT ![x] = z] \/ td' = [[td EXCEPT ![x] = z] EXCEPT ![x].readers = @ - 1]
      BY <2>4, <3>1, <3>2 DEF pushClone, unblocked
    <3>4. DOMAIN td = TileData
      BY DEF Counted
    <3>5. /\ DOMAIN z = Fields /\ z.exists = td[x].exists /\ z.m_usersCount = td[x].m_usersCount
          /\ z.m_refCount = td[x].m_refCount
          /\ DOMAIN w = Fields /\ w.exists = td[x].exists /\ w.m_usersCount = td[x].m_usersCount
          /\ w.m_refCount = td[x].m_refCount
      BY DEF Counted, Fields
    <3> HIDE DEF z
    <3>6. td' = [td EXCEPT ![x] = z] \/ td' = [td EXCEPT ![x] = w]
      BY <3>3, <3>4
    <3> HIDE DEF w
    <3>7. ASSUME td' = [td EXCEPT ![x] = z] PROVE CountsKept
      BY <3>5, <3>7, CountsKeptAt
    <3>8. ASSUME td' = [td EXCEPT ![x] = w] PROVE CountsKept
      BY <3>5, <3>8, CountsKeptAt
    <3>9. QED
      BY <3>6, <3>7, <3>8
  <2>5. QED
    BY <2>1, <2>2, <2>3, <2>4 DEF Pooling
<1>4. TilesKept
  BY <1>1, SameTiles
<1>5. QED
  BY <1>1, <1>2, <1>3, <1>4, CountedKept

-------------------------------------------------------------------------------
(***************************************************************************)
(* Steps in which users of tile data come or go.                           *)
(***************************************************************************)

\* The counters, when the users of each kind change by known numbers.
LEMMA UsersMove ==
    ASSUME Ordered, NEW x, NEW a \in Int, NEW b \in Int, NEW c \in Int, NEW d \in Int, NEW e \in Int,
           Cardinality(showing(x)') = Cardinality(showing(x)) + a,
           Cardinality(aging(x)') = Cardinality(aging(x)) + b,
           Cardinality(kept(x)') = Cardinality(kept(x)) + c,
           Cardinality(owning(x)') = Cardinality(owning(x)) + d,
           Cardinality(indexing(x)') = Cardinality(indexing(x)) + e
    PROVE  /\ tileUsers(x)' = tileUsers(x) + (a + b + c + d)
           /\ indexUsers(x)' = indexUsers(x) + e
<1>1. PICK k \in Nat : k = Cardinality(showing(x))
  BY UsesFinite, FS_CardinalityType
<1>2. PICK l \in Nat : l = Cardinality(aging(x))
  BY UsesFinite, FS_CardinalityType
<1>3. PICK m \in Nat : m = Cardinality(kept(x))
  BY UsesFinite, FS_CardinalityType
<1>4. PICK n \in Nat : n = Cardinality(owning(x))
  BY UsesFinite, FS_CardinalityType
<1>5. tileUsers(x) = k + l + m + n /\ indexUsers(x) = Cardinality(indexing(x))
  BY <1>1, <1>2, <1>3, <1>4, UsersAdded
<1>6. /\ tileUsers(x)' = (k + a) + (l + b) + (m + c) + (n + d)
      /\ indexUsers(x)' = Cardinality(indexing(x)')
  BY <1>1, <1>2, <1>3, <1>4 DEF tileUsers, indexUsers, count, showing, aging, kept, owning, indexing
<1>7. (k + a) + (l + b) + (m + c) + (n + d) = (k + l + m + n) + (a + b + c + d)
  OBVIOUS
<1>8. QED
  BY <1>5, <1>6, <1>7

\* Nothing of a kind moves: the same as moving by zero.
LEMMA ShowingSame ==
    ASSUME Ordered, NEW x, \A y \in Tiles : tile'[y].m_tileData = tile[y].m_tileData
    PROVE  Cardinality(showing(x)') = Cardinality(showing(x)) + 0
<1>1. showing(x)' = showing(x)
  BY DEF showing
<1>2. QED
  BY <1>1, UsesFinite, FS_CardinalityType

\* No tile changes its index item.
LEMMA IndexingSame ==
    ASSUME Ordered, NEW x, \A y \in Tiles : tile'[y].indexed = tile[y].indexed
    PROVE  Cardinality(indexing(x)') = Cardinality(indexing(x)) + 0
<1>1. indexing(x)' = indexing(x)
  BY DEF indexing
<1>2. QED
  BY <1>1, UsesFinite, FS_CardinalityType

\* No old data comes or goes.
LEMMA OldSame ==
    ASSUME Ordered, NEW x, \A y \in Tiles : tile'[y].m_oldTileData = tile[y].m_oldTileData
    PROVE  Cardinality(aging(x)') = Cardinality(aging(x)) + 0
<1>1. aging(x)' = aging(x)
  BY AgingSame
<1>2. QED
  BY <1>1, UsesFinite, FS_CardinalityType

\* No memento item comes or goes.
LEMMA KeptSame ==
    ASSUME Ordered, NEW x, items' = items
    PROVE  Cardinality(kept(x)') = Cardinality(kept(x)) + 0
<1>1. kept(x)' = kept(x)
  BY DEF kept
<1>2. QED
  BY <1>1, UsesFinite, FS_CardinalityType

\* What the one thread that moves owned before, and what it owns now.
LEMMA OwningChange ==
    ASSUME Ordered, NEW t \in Threads, NEW s, Moves(t, s), NEW x
    PROVE  Cardinality(owning(x)') =
                Cardinality(owning(x)) + (bit(owned(s) /\ s.td = x) - bit(owned(at[t]) /\ at[t].td = x))
<1>1. Cardinality(owning(x)') = Cardinality(owning(x)) + bit(t \in owning(x)') - bit(t \in owning(x))
  BY OwningMoves
<1>2. /\ t \in owning(x)' <=> owned(s) /\ s.td = x
      /\ t \in owning(x) <=> owned(at[t]) /\ at[t].td = x
  BY DEF Moves, owning, ownsCopy, owned
<1>3. /\ bit(t \in owning(x)') = bit(owned(s) /\ s.td = x)
      /\ bit(t \in owning(x)) = bit(owned(at[t]) /\ at[t].td = x)
  BY <1>2 DEF bit
<1>4. PICK m \in Nat : m = Cardinality(owning(x))
  BY UsesFinite, FS_CardinalityType
<1>5. /\ bit(owned(s) /\ s.td = x) \in {0, 1}
      /\ bit(owned(at[t]) /\ at[t].td = x) \in {0, 1}
  BY DEF bit
<1>6. QED
  BY <1>1, <1>3, <1>4, <1>5

\* The tiles show, keep and index what they did.
LEMMA TilesSame ==
    ASSUME Ordered, NEW x, TilesKept
    PROVE  /\ Cardinality(showing(x)') = Cardinality(showing(x)) + 0
           /\ Cardinality(aging(x)') = Cardinality(aging(x)) + 0
           /\ Cardinality(indexing(x)') = Cardinality(indexing(x)) + 0
BY ShowingSame, IndexingSame, OldSame DEF TilesKept

\* What one tile data must look like after the step of one thread.
Settled(t, s, x) ==
    /\ DOMAIN td'[x] = Fields
    /\ td'[x].m_usersCount = tileUsers(x)'
    /\ td'[x].m_refCount = tileUsers(x)' + indexUsers(x)'
    /\ td'[x].exists \in BOOLEAN
    /\ LET others == \E u \in Threads : u # t /\ busy(u, x)
           mine == pending(s) /\ s.td = x
       IN  /\ td'[x].exists <=> td'[x].m_refCount > 0 \/ mine \/ others
           /\ mine \/ others => td'[x].m_refCount = 0
           /\ mine => ~others

\* A step of one thread that settles the account of every object.
LEMMA CountedStep ==
    ASSUME Ordered, Counted, NEW t \in Threads, NEW s, Moves(t, s), DOMAIN td' = TileData,
           \A x \in TileData : Settled(t, s, x)
    PROVE  Counted'
<1>1. ASSUME NEW x, NEW u \in Threads
      PROVE  busy(u, x)' <=> IF u = t THEN pending(s) /\ s.td = x ELSE busy(u, x)
  <2>1. CASE u = t
    BY <2>1 DEF Moves, busy, pending
  <2>2. CASE u # t
    <3>1. at'[u] = at[u]
      BY <2>2 DEF Moves, Agents
    <3>2. QED
      BY <2>2, <3>1 DEF busy
  <2>3. QED
    BY <2>1, <2>2
<1>2. ASSUME NEW x \in TileData
      PROVE  /\ td'[x].exists <=> td'[x].m_refCount > 0 \/ \E u \in Threads : busy(u, x)'
             /\ \A u \in Threads : busy(u, x)' => td'[x].m_refCount = 0
             /\ \A u, v \in Threads : busy(u, x)' /\ busy(v, x)' => u = v
  <2>1. PICK mine \in BOOLEAN : mine <=> pending(s) /\ s.td = x
    OBVIOUS
  <2>2. PICK others \in BOOLEAN : others <=> \E u \in Threads : u # t /\ busy(u, x)
    OBVIOUS
  <2>3. /\ td'[x].exists <=> td'[x].m_refCount > 0 \/ mine \/ others
        /\ mine \/ others => td'[x].m_refCount = 0
        /\ mine => ~others
    BY <2>1, <2>2 DEF Settled
  <2>4. mine \/ others <=> \E u \in Threads : busy(u, x)'
    BY <1>1, <2>1, <2>2
  <2>5. \A u, v \in Threads : busy(u, x) /\ busy(v, x) => u = v
    BY DEF Counted
  <2>6. ASSUME NEW u \in Threads, NEW v \in Threads, busy(u, x)', busy(v, x)' PROVE u = v
    BY <1>1, <2>1, <2>2, <2>3, <2>5, <2>6
  <2>7. QED
    BY <2>3, <2>4, <2>6
<1>3. QED
  BY <1>2 DEF Counted, Settled

\* Tile data that is not concerned.
LEMMA SettledSame ==
    ASSUME Ordered, Counted, NEW t \in Threads, NEW s, NEW x \in TileData,
           td'[x] = td[x], tileUsers(x)' = tileUsers(x), indexUsers(x)' = indexUsers(x),
           pending(s) => s.td # x, pending(at[t]) => at[t].td # x
    PROVE  Settled(t, s, x)
<1>1. /\ DOMAIN td[x] = Fields
      /\ td[x].m_usersCount = tileUsers(x) /\ td[x].m_refCount = tileUsers(x) + indexUsers(x)
      /\ td[x].exists \in BOOLEAN
      /\ td[x].exists <=> td[x].m_refCount > 0 \/ \E u \in Threads : busy(u, x)
      /\ \A u \in Threads : busy(u, x) => td[x].m_refCount = 0
  BY DEF Counted
<1>2. ~busy(t, x)
  BY DEF busy, pending
<1>3. (\E u \in Threads : busy(u, x)) <=> \E u \in Threads : u # t /\ busy(u, x)
  BY <1>2
<1>4. QED
  BY <1>1, <1>3 DEF Settled

\* Tile data that does not exist has neither users nor claims.
LEMMA FreshData ==
    ASSUME Ordered, Counted, NEW x \in TileData, ~td[x].exists
    PROVE  /\ tileUsers(x) = 0 /\ indexUsers(x) = 0
           /\ \A u \in Threads : ~busy(u, x)
<1>1. tileUsers(x) \in Nat /\ indexUsers(x) \in Nat
  BY UsersCounted
<1>2. ~(td[x].m_refCount > 0) /\ td[x].m_refCount = tileUsers(x) + indexUsers(x)
      /\ \A u \in Threads : ~busy(u, x)
  BY DEF Counted
<1>3. QED
  BY <1>1, <1>2

\* An object that is being made or freed has no users either, and one owner.
LEMMA BusyData ==
    ASSUME Ordered, Counted, NEW x \in TileData, NEW t \in Threads, busy(t, x)
    PROVE  /\ tileUsers(x) = 0 /\ indexUsers(x) = 0 /\ td[x].m_usersCount = 0 /\ td[x].m_refCount = 0
           /\ td[x].exists = TRUE
           /\ ~\E u \in Threads : u # t /\ busy(u, x)
<1>1. tileUsers(x) \in Nat /\ indexUsers(x) \in Nat
  BY UsersCounted
<1>2. /\ td[x].m_refCount = 0 /\ td[x].m_refCount = tileUsers(x) + indexUsers(x)
      /\ td[x].m_usersCount = tileUsers(x) /\ td[x].exists = TRUE
      /\ \A u \in Threads : busy(u, x) => u = t
  BY DEF Counted
<1>3. QED
  BY <1>1, <1>2

\* Tile data with references is neither being made nor being freed.
LEMMA ReferencedData ==
    ASSUME Ordered, Counted, NEW x \in TileData, td[x].m_refCount # 0
    PROVE  /\ td[x].m_refCount \in Nat \ {0} /\ td[x].exists = TRUE
           /\ \A u \in Threads : ~busy(u, x)
<1>1. tileUsers(x) \in Nat /\ indexUsers(x) \in Nat
  BY UsersCounted
<1>2. td[x].m_refCount \in Nat \ {0}
  BY <1>1 DEF Counted
<1>3. \A u \in Threads : ~busy(u, x)
  BY DEF Counted
<1>4. td[x].m_refCount > 0
  BY <1>2
<1>5. QED
  BY <1>2, <1>3, <1>4 DEF Counted

\* duplicateTileData(): a new object, which its maker owns.
LEMMA CloneCounted ==
    ASSUME Ordered, Counted, NEW t \in Threads, popClone(t) \/ copyTileData(t)
    PROVE  Counted'
<1>1. at[t] \in AgentRecord /\ ThreadShape(at[t]) /\ at[t].pc \in {"clone", "copy"}
  BY ThreadRecord DEF popClone, copyTileData
<1>2. at[t].next = "idle" /\ at[t].tile # NoTile /\ ~owned(at[t]) /\ ~pending(at[t])
  BY <1>1 DEF ThreadShape, loads, frees, makes, owned, pending, where, SwapLabels, LoadLabels, CopyLabels
<1>3. PICK x : x = IF popClone(t) THEN tile[at[t].tile].m_tileData ELSE at[t].td
  OBVIOUS
<1>4. x \in TileData
  <2>1. popClone(t) => x \in TileData
    BY <1>2, <1>3, UsedTile
  <2>2. ~popClone(t) => x \in TileData
    BY <1>1, <1>3 DEF copyTileData, ThreadShape, copies, where, AgentRecord, SwapLabels, CopyLabels
  <2>3. QED
    BY <2>1, <2>2
<1>5. PICK y \in TileData : \E data :
            /\ ~td[y].exists
            /\ at' = [at EXCEPT ![t] = [at[t] EXCEPT !.pc = "register", !.td = y]]
            /\ \/ \E clones : td' = [[td EXCEPT ![x].m_clonesStack = clones] EXCEPT ![y] = NewTileData(data)]
               \/ td' = [[td EXCEPT ![y] = NewTileData(data)] EXCEPT ![x].readers = @ - 1]
            /\ UNCHANGED <<tile, items>>
  <2>1. CASE popClone(t)
    <3>1. PICK clones : clones = td[x].m_clonesStack
      OBVIOUS
    <3>2. PICK y \in TileData :
            /\ isFresh(y)
            /\ td' = [td EXCEPT ![x].m_clonesStack = Front(clones), ![y] = NewTileData(Last(clones))]
            /\ at' = [at EXCEPT ![t].pc = "register", ![t].td = y]
            /\ UNCHANGED <<tile, items>>
      BY <1>3, <2>1, <3>1 DEF popClone
    <3>3. PICK data, left : data = Last(clones) /\ left = Front(clones)
      OBVIOUS
    <3>4. td' = [[td EXCEPT ![x].m_clonesStack = left] EXCEPT ![y] = NewTileData(data)]
      BY <3>2, <3>3
    <3>5. at' = [at EXCEPT ![t] = [at[t] EXCEPT !.pc = "register", !.td = y]] /\ ~td[y].exists
      BY <3>2 DEF isFresh
    <3>6. QED
      BY <3>2, <3>4, <3>5
  <2>2. CASE ~popClone(t)
    <3>1. copyTileData(t)
      BY <2>2
    <3>2. PICK y \in TileData :
            /\ isFresh(y)
            /\ td' = unblocked([td EXCEPT ![y] = NewTileData(td[x].m_data)], x)
            /\ at' = [at EXCEPT ![t].pc = "register", ![t].td = y]
            /\ UNCHANGED <<tile, items>>
      BY <1>3, <2>2, <3>1 DEF copyTileData
    <3>3. td' = [[td EXCEPT ![y] = NewTileData(td[x].m_data)] EXCEPT ![x].readers = @ - 1]
      BY <3>2 DEF unblocked
    <3>4. at' = [at EXCEPT ![t] = [at[t] EXCEPT !.pc = "register", !.td = y]] /\ ~td[y].exists
      BY <3>2 DEF isFresh
    <3>5. QED
      BY <3>2, <3>3, <3>4
  <2>3. QED
    BY <2>1, <2>2
<1> PICK s : s = [at[t] EXCEPT !.pc = "register", !.td = y]
  OBVIOUS
<1> PICK data, z :
            /\ z = [td EXCEPT ![y] = NewTileData(data)]
            /\ at' = [at EXCEPT ![t] = s]
            /\ \/ \E clones : td' = [[td EXCEPT ![x].m_clonesStack = clones] EXCEPT ![y] = NewTileData(data)]
               \/ td' = [z EXCEPT ![x].readers = @ - 1]
            /\ UNCHANGED <<tile, items>>
  BY <1>5
<1>6. /\ s \in AgentRecord /\ s.pc = "register" /\ s.td = y /\ s.next = "idle" /\ Moves(t, s)
      /\ pending(s) /\ ~owned(s)
  <2>1. s \in AgentRecord /\ s.pc = "register" /\ s.td = y /\ s.next = "idle"
    BY <1>1, <1>2, <1>5 DEF AgentRecord, ThreadLabels, CopyLabels
  <2>2. Moves(t, s)
    BY <1>5, ThreadRecord DEF Moves
  <2>3. QED
    BY <2>1, <2>2 DEF pending, owned, makes, where, SwapLabels
<1>7. ASSUME NEW w \in TileData
      PROVE  tileUsers(w)' = tileUsers(w) /\ indexUsers(w)' = indexUsers(w)
  <2>1. bit(owned(s) /\ s.td = w) = 0 /\ bit(owned(at[t]) /\ at[t].td = w) = 0
    BY <1>2, <1>6 DEF bit
  <2>2. Cardinality(owning(w)') = Cardinality(owning(w)) + 0
    BY <1>6, <2>1, OwningChange
  <2>3. TilesKept /\ items' = items
    BY <1>5, SameTiles
  <2>4. /\ tileUsers(w)' = tileUsers(w) + (0 + 0 + 0 + 0)
        /\ indexUsers(w)' = indexUsers(w) + 0
    BY <2>2, <2>3, UsersMove, TilesSame, KeptSame
  <2>5. tileUsers(w) \in Nat /\ indexUsers(w) \in Nat
    BY UsersCounted
  <2>6. QED
    BY <2>4, <2>5
<1>8. /\ DOMAIN td' = TileData
      /\ \A w \in TileData :
            /\ DOMAIN td'[w] = Fields
            /\ w # y => /\ td'[w].exists = td[w].exists /\ td'[w].m_usersCount = td[w].m_usersCount
                        /\ td'[w].m_refCount = td[w].m_refCount
      /\ td'[y].exists = TRUE /\ td'[y].m_usersCount = 0 /\ td'[y].m_refCount = 0
  <2>1. DOMAIN td = TileData /\ \A w \in TileData : DOMAIN td[w] = Fields
    BY DEF Counted
  <2>2. PICK new : new = NewTileData(data)
    OBVIOUS
  <2>3. DOMAIN new = Fields /\ new.exists = TRUE /\ new.m_usersCount = 0 /\ new.m_refCount = 0
    BY <2>2 DEF NewTileData, Fields
  <2>4. CASE \E clones : td' = [[td EXCEPT ![x].m_clonesStack = clones] EXCEPT ![y] = NewTileData(data)]
    BY <1>4, <2>1, <2>2, <2>3, <2>4 DEF Fields
  <2>5. CASE td' = [z EXCEPT ![x].readers = @ - 1]
    <3>1. DOMAIN z = TileData /\ z[y] = new /\ \A w \in TileData : w # y => z[w] = td[w]
      BY <1>5, <2>1, <2>2
    <3>2. QED
      BY <1>4, <2>1, <2>3, <2>5, <3>1 DEF Fields
  <2>6. QED
    BY <1>5, <2>4, <2>5
<1>9. ASSUME NEW w \in TileData PROVE Settled(t, s, w)
  <2>1. CASE w = y
    <3>1. tileUsers(y) = 0 /\ indexUsers(y) = 0 /\ \A u \in Threads : ~busy(u, y)
      BY <1>5, FreshData
    <3>2. /\ tileUsers(y)' = 0 /\ indexUsers(y)' = 0 /\ DOMAIN td'[y] = Fields
          /\ td'[y].exists = TRUE /\ td'[y].m_usersCount = 0 /\ td'[y].m_refCount = 0
      BY <1>7, <1>8, <3>1
    <3>3. /\ td'[y].m_usersCount = tileUsers(y)'
          /\ td'[y].m_refCount = tileUsers(y)' + indexUsers(y)'
      BY <3>2
    <3>4. pending(s) /\ s.td = y /\ ~\E u \in Threads : u # t /\ busy(u, y)
      BY <1>6, <3>1
    <3>5. QED
      BY <2>1, <3>2, <3>3, <3>4 DEF Settled
  <2>2. CASE w # y
    <3>1. ~busy(t, w)
      BY <1>2 DEF busy, pending
    <3>2. /\ td'[w].exists = td[w].exists /\ td'[w].m_usersCount = td[w].m_usersCount
          /\ td'[w].m_refCount = td[w].m_refCount /\ DOMAIN td'[w] = Fields
      BY <1>8, <2>2
    <3>3. ~(pending(s) /\ s.td = w)
      BY <1>6, <2>2
    <3>4. QED
      BY <1>7, <3>1, <3>2, <3>3 DEF Settled, Counted
  <2>3. QED
    BY <2>1, <2>2
<1>10. QED
  BY <1>6, <1>8, <1>9, CountedStep

\* registerTileData(): the maker becomes the first user.
LEMMA RegisterCounted ==
    ASSUME Ordered, Counted, NEW t \in Threads, registerTileData(t)
    PROVE  Counted'
<1>1. at[t] \in AgentRecord /\ ThreadShape(at[t]) /\ at[t].pc = "register"
  BY ThreadRecord DEF registerTileData
<1>2. at[t].next = "idle" /\ at[t].td \in TileData /\ pending(at[t]) /\ ~owned(at[t])
  BY <1>1 DEF ThreadShape, AgentRecord, loads, frees, makes, copies, owned, pending, where,
              SwapLabels, LoadLabels, CopyLabels
<1>3. PICK x \in TileData : x = at[t].td
  BY <1>2
<1>4. PICK s : s = [at[t] EXCEPT !.pc = "blockNew"]
  OBVIOUS
<1>5. /\ s \in AgentRecord /\ s.pc = "blockNew" /\ s.td = x /\ s.next = "idle"
      /\ owned(s) /\ ~pending(s)
  <2>1. s \in AgentRecord /\ s.pc = "blockNew" /\ s.td = x /\ s.next = "idle"
    BY <1>1, <1>2, <1>3, <1>4 DEF AgentRecord, ThreadLabels, CopyLabels
  <2>2. QED
    BY <2>1 DEF owned, pending, frees, makes, where, SwapLabels
<1>6. Moves(t, s) /\ UNCHANGED <<tile, items>>
  BY <1>4, ThreadRecord DEF registerTileData, goto, Moves
<1>7. busy(t, x)
  BY <1>2, <1>3 DEF busy, pending
<1>8. /\ tileUsers(x) = 0 /\ indexUsers(x) = 0 /\ td[x].m_usersCount = 0 /\ td[x].m_refCount = 0
      /\ td[x].exists = TRUE
      /\ ~\E u \in Threads : u # t /\ busy(u, x)
  BY <1>7, BusyData
<1>9. /\ DOMAIN td' = TileData
      /\ \A w \in TileData : w # x => td'[w] = td[w]
      /\ DOMAIN td'[x] = Fields /\ td'[x].exists = TRUE
      /\ td'[x].m_usersCount = 1 /\ td'[x].m_refCount = 1
  <2>1. DOMAIN td = TileData /\ DOMAIN td[x] = Fields
    BY DEF Counted
  <2> DEFINE z == [td EXCEPT ![x].listed = TRUE]
  <2>2. PICK stack : td' = [z EXCEPT ![x].m_usersCount = @ + 1, ![x].m_refCount = @ + 1,
                                     ![x].m_clonesStack = stack]
    BY <1>3 DEF registerTileData, acquired
  <2>3. /\ DOMAIN z = TileData /\ \A w \in TileData : w # x => z[w] = td[w]
        /\ DOMAIN z[x] = Fields /\ z[x].exists = TRUE /\ z[x].m_usersCount = 0 /\ z[x].m_refCount = 0
    BY <1>8, <2>1 DEF Fields
  <2> HIDE DEF z
  <2>4. td' = [z EXCEPT ![x] = [z[x] EXCEPT !.m_usersCount = @ + 1, !.m_refCount = @ + 1,
                                     !.m_clonesStack = stack]]
    BY <2>2, <2>3
  <2>5. DOMAIN td' = TileData /\ \A w \in TileData : w # x => td'[w] = td[w]
    BY <2>3, <2>4
  <2>6. td'[x] = [z[x] EXCEPT !.m_usersCount = @ + 1, !.m_refCount = @ + 1, !.m_clonesStack = stack]
    BY <2>3, <2>4
  <2>7. QED
    BY <2>3, <2>5, <2>6 DEF Fields
<1>10. ASSUME NEW w \in TileData
       PROVE  /\ tileUsers(w)' = tileUsers(w) + bit(w = x)
              /\ indexUsers(w)' = indexUsers(w)
  <2>1. bit(owned(s) /\ s.td = w) = bit(w = x) /\ bit(owned(at[t]) /\ at[t].td = w) = 0
        /\ bit(w = x) \in {0, 1}
    BY <1>2, <1>5 DEF bit
  <2>2. Cardinality(owning(w)') = Cardinality(owning(w)) + (bit(w = x) - 0)
    BY <1>6, <2>1, OwningChange
  <2>3. TilesKept /\ items' = items
    BY <1>6, SameTiles
  <2>4. PICK d \in Int : d = bit(w = x) /\ d - 0 = d
    BY <2>1
  <2>5. Cardinality(owning(w)') = Cardinality(owning(w)) + d
    BY <2>2, <2>4
  <2>6. /\ tileUsers(w)' = tileUsers(w) + (0 + 0 + 0 + d)
        /\ indexUsers(w)' = indexUsers(w) + 0
    BY <2>3, <2>5, UsersMove, TilesSame, KeptSame
  <2>7. tileUsers(w) \in Nat /\ indexUsers(w) \in Nat
    BY UsersCounted
  <2>8. QED
    BY <2>4, <2>6, <2>7
<1>11. ASSUME NEW w \in TileData PROVE Settled(t, s, w)
  <2>1. CASE w = x
    <3>1. tileUsers(x)' = 1 /\ indexUsers(x)' = 0
      BY <1>8, <1>10 DEF bit
    <3>2. td'[x].m_refCount = tileUsers(x)' + indexUsers(x)' /\ td'[x].m_refCount > 0
      BY <1>9, <3>1
    <3>3. QED
      BY <1>5, <1>8, <1>9, <2>1, <3>1, <3>2 DEF Settled
  <2>2. CASE w # x
    <3>1. tileUsers(w)' = tileUsers(w) /\ indexUsers(w)' = indexUsers(w)
      BY <1>10, <2>2, UsersCounted DEF bit
    <3>2. QED
      BY <1>2, <1>3, <1>5, <1>9, <2>2, <3>1, SettledSame
  <2>3. QED
    BY <2>1, <2>2
<1>12. QED
  BY <1>6, <1>9, <1>11, CountedStep

\* freeTileData(): the object is gone, and nobody was left.
LEMMA FreeCounted ==
    ASSUME Ordered, Counted, NEW t \in Threads, freeTileData(t)
    PROVE  Counted'
<1>1. at[t] \in AgentRecord /\ ThreadShape(at[t]) /\ at[t].pc = "free"
  BY ThreadRecord DEF freeTileData
<1>2. /\ at[t].next \in {"idle", "releaseOld"} /\ at[t].td \in TileData
      /\ pending(at[t]) /\ ~owned(at[t])
  BY <1>1 DEF ThreadShape, AgentRecord, loads, frees, owned, pending, where, SwapLabels
<1>3. PICK x \in TileData : x = at[t].td
  BY <1>2
<1>4. PICK s : s = [at[t] EXCEPT !.pc = at[t].next, !.td = NoTileData, !.next = "idle"]
  OBVIOUS
<1>5. ~owned(s) /\ ~pending(s)
  <2>1. s.pc \in {"idle", "releaseOld"} /\ s.next = "idle"
    BY <1>1, <1>2, <1>4 DEF AgentRecord
  <2>2. QED
    BY <2>1 DEF owned, pending, frees, makes, where, SwapLabels
<1>6. Moves(t, s) /\ UNCHANGED <<tile, items>> /\ td' = [td EXCEPT ![x] = Deleted]
  BY <1>3, <1>4, ThreadRecord DEF freeTileData, Moves
<1>7. busy(t, x)
  BY <1>2, <1>3 DEF busy, pending
<1>8. /\ tileUsers(x) = 0 /\ indexUsers(x) = 0
      /\ ~\E u \in Threads : u # t /\ busy(u, x)
  BY <1>7, BusyData
<1>9. /\ DOMAIN td' = TileData
      /\ \A w \in TileData : w # x => td'[w] = td[w]
      /\ DOMAIN td'[x] = Fields /\ td'[x].exists = FALSE
      /\ td'[x].m_usersCount = 0 /\ td'[x].m_refCount = 0
  <2>1. DOMAIN td = TileData
    BY DEF Counted
  <2>2. PICK z : z = Deleted
    OBVIOUS
  <2>3. DOMAIN z = Fields /\ z.exists = FALSE /\ z.m_usersCount = 0 /\ z.m_refCount = 0
    BY <2>2 DEF Deleted, NewTileData, Fields
  <2>4. QED
    BY <1>6, <2>1, <2>2, <2>3
<1>10. ASSUME NEW w \in TileData
       PROVE  tileUsers(w)' = tileUsers(w) /\ indexUsers(w)' = indexUsers(w)
  <2>1. bit(owned(s) /\ s.td = w) = 0 /\ bit(owned(at[t]) /\ at[t].td = w) = 0
    BY <1>2, <1>5 DEF bit
  <2>2. Cardinality(owning(w)') = Cardinality(owning(w)) + 0
    BY <1>6, <2>1, OwningChange
  <2>3. TilesKept /\ items' = items
    BY <1>6, SameTiles
  <2>4. /\ tileUsers(w)' = tileUsers(w) + (0 + 0 + 0 + 0)
        /\ indexUsers(w)' = indexUsers(w) + 0
    BY <2>2, <2>3, UsersMove, TilesSame, KeptSame
  <2>5. tileUsers(w) \in Nat /\ indexUsers(w) \in Nat
    BY UsersCounted
  <2>6. QED
    BY <2>4, <2>5
<1>11. ASSUME NEW w \in TileData PROVE Settled(t, s, w)
  <2>1. CASE w = x
    <3>1. tileUsers(x)' = 0 /\ indexUsers(x)' = 0
      BY <1>8, <1>10
    <3>2. td'[x].m_refCount = tileUsers(x)' + indexUsers(x)' /\ ~(td'[x].m_refCount > 0)
      BY <1>9, <3>1
    <3>3. QED
      BY <1>5, <1>8, <1>9, <2>1, <3>1, <3>2 DEF Settled
  <2>2. CASE w # x
    BY <1>2, <1>3, <1>5, <1>9, <1>10, <2>2, SettledSame
  <2>3. QED
    BY <2>1, <2>2
<1>12. QED
  BY <1>6, <1>9, <1>11, CountedStep

\* acquire() of one tile data, release() of one, and the agent after release().
Acquiring(objects, x) ==
    /\ DOMAIN objects = TileData
    /\ \A w \in TileData : w # x => objects[w] = td[w]
    /\ DOMAIN objects[x] = Fields /\ objects[x].exists = td[x].exists
    /\ objects[x].m_usersCount = td[x].m_usersCount + 1 /\ objects[x].m_refCount = td[x].m_refCount + 1

\* acquire() counts one user and one reference more.
LEMMA AcquiredData ==
    ASSUME Counted, NEW x \in TileData
    PROVE  Acquiring(acquired(td, x), x)
<1>1. DOMAIN td = TileData /\ DOMAIN td[x] = Fields
  BY DEF Counted
<1>2. PICK stack : acquired(td, x) = [td EXCEPT ![x].m_usersCount = @ + 1, ![x].m_refCount = @ + 1,
                                     ![x].m_clonesStack = stack]
  BY DEF acquired
<1>3. PICK z : z = [td[x] EXCEPT !.m_usersCount = @ + 1, !.m_refCount = @ + 1, !.m_clonesStack = stack]
  OBVIOUS
<1>4. acquired(td, x) = [td EXCEPT ![x] = z]
  BY <1>1, <1>2, <1>3
<1>5. DOMAIN z = Fields /\ z.exists = td[x].exists
      /\ z.m_usersCount = td[x].m_usersCount + 1 /\ z.m_refCount = td[x].m_refCount + 1
  BY <1>1, <1>3 DEF Fields
<1>6. QED
  BY <1>1, <1>4, <1>5 DEF Acquiring

Releases(x) ==
    /\ DOMAIN td' = TileData
    /\ \A w \in TileData : w # x => td'[w] = td[w]
    /\ DOMAIN td'[x] = Fields /\ td'[x].exists = td[x].exists
    /\ td'[x].m_usersCount = td[x].m_usersCount - 1 /\ td'[x].m_refCount = td[x].m_refCount - 1

\* release() counts one user and one reference less.
LEMMA ReleasedData ==
    ASSUME NEW x \in TileData, NEW objects,
           DOMAIN objects = TileData, \A w \in TileData : w # x => objects[w] = td[w],
           DOMAIN objects[x] = Fields, objects[x].exists = td[x].exists,
           objects[x].m_usersCount = td[x].m_usersCount, objects[x].m_refCount = td[x].m_refCount,
           td' = released(objects, x)
    PROVE  Releases(x)
<1>1. PICK z : z = [objects[x] EXCEPT !.m_usersCount = @ - 1, !.m_refCount = @ - 1]
  OBVIOUS
<1>2. td' = [objects EXCEPT ![x] = z]
  BY <1>1 DEF released
<1>3. DOMAIN z = Fields /\ z.exists = td[x].exists
      /\ z.m_usersCount = td[x].m_usersCount - 1 /\ z.m_refCount = td[x].m_refCount - 1
  BY <1>1 DEF Fields
<1>4. QED
  BY <1>2, <1>3 DEF Releases

\* release() of an object of which something else has changed.
LEMMA ReleasedAt ==
    ASSUME Counted, NEW x \in TileData, NEW objects, NEW r,
           objects = [td EXCEPT ![x] = r], DOMAIN r = Fields, r.exists = td[x].exists,
           r.m_usersCount = td[x].m_usersCount, r.m_refCount = td[x].m_refCount,
           td' = released(objects, x)
    PROVE  Releases(x)
<1>1. DOMAIN td = TileData
  BY DEF Counted
<1>2. /\ objects[x] = r /\ DOMAIN objects = TileData
      /\ \A w \in TileData : w # x => objects[w] = td[w]
  BY <1>1
<1>3. QED
  BY <1>2, ReleasedData

\* Who gives the last reference back has to free the data, and nobody else has.
LEMMA ReleaseClaim ==
    ASSUME NEW x \in TileData, NEW y, NEW next \in {"idle", "releaseOld"},
           NEW s, s = afterRelease(x, next) \/ s = [afterRelease(x, next) EXCEPT !.tile = y]
    PROVE  /\ ~owned(s)
           /\ pending(s) <=> td[x].m_refCount = 1
           /\ pending(s) => s.td = x
<1>1. PICK r : r = afterRelease(x, next)
  OBVIOUS
<1>2. /\ r \in AgentRecord /\ r.next \in {"idle", next} /\ r.pc \in {"free", next}
      /\ r.pc = "free" <=> td[x].m_refCount = 1
      /\ r.pc = "free" => r.td = x
  <2>1. r = IF td[x].m_refCount = 1 THEN [Idle EXCEPT !.pc = "free", !.td = x, !.next = next]
            ELSE [Idle EXCEPT !.pc = next]
    BY <1>1 DEF afterRelease
  <2>2. QED
    BY <2>1 DEF Idle, AgentRecord, ThreadLabels
<1>3. s.pc = r.pc /\ s.next = r.next /\ s.td = r.td
  BY <1>1, <1>2 DEF AgentRecord
<1>4. QED
  BY <1>2, <1>3 DEF owned, pending, frees, makes, where, SwapLabels

\* One user gives its data back.
LEMMA ReleaseCounted ==
    ASSUME Ordered, Counted, NEW t \in Threads, NEW s, Moves(t, s), ~pending(at[t]),
           NEW x \in TileData, Releases(x),
           pending(s) <=> td[x].m_refCount = 1, pending(s) => s.td = x,
           \A w \in TileData : /\ tileUsers(w)' = tileUsers(w) - bit(w = x)
                               /\ indexUsers(w)' = indexUsers(w),
           tileUsers(x) # 0
    PROVE  Counted'
<1>1. \A w \in TileData : tileUsers(w) \in Nat /\ indexUsers(w) \in Nat
  BY UsersCounted
<1>2. /\ td[x].m_usersCount = tileUsers(x)
      /\ td[x].m_refCount = tileUsers(x) + indexUsers(x)
  BY DEF Counted
<1>3. td[x].m_refCount # 0
  BY <1>1, <1>2
<1>4. /\ td[x].m_refCount \in Nat \ {0} /\ td[x].exists = TRUE
      /\ \A u \in Threads : ~busy(u, x)
  BY <1>3, ReferencedData
<1>5. ASSUME NEW w \in TileData PROVE Settled(t, s, w)
  <2>1. CASE w = x
    <3>1. tileUsers(x)' = tileUsers(x) - 1 /\ indexUsers(x)' = indexUsers(x)
      BY DEF bit
    <3>2. td'[x].m_usersCount = tileUsers(x)' /\ td'[x].m_refCount = tileUsers(x)' + indexUsers(x)'
      BY <1>1, <1>2, <3>1 DEF Releases
    <3>3. td'[x].exists = TRUE /\ DOMAIN td'[x] = Fields
      BY <1>4 DEF Releases
    <3>4. IF pending(s) THEN td'[x].m_refCount = 0 ELSE td'[x].m_refCount > 0
      BY <1>4 DEF Releases
    <3>5. ~\E u \in Threads : u # t /\ busy(u, x)
      BY <1>4
    <3>6. pending(s) => s.td = x
      OBVIOUS
    <3>7. CASE pending(s)
      BY <2>1, <3>2, <3>3, <3>4, <3>5, <3>6, <3>7 DEF Settled
    <3>8. CASE ~pending(s)
      BY <2>1, <3>2, <3>3, <3>4, <3>5, <3>8 DEF Settled
    <3>9. QED
      BY <3>7, <3>8
  <2>2. CASE w # x
    <3>1. tileUsers(w)' = tileUsers(w) - bit(w = x) /\ indexUsers(w)' = indexUsers(w) /\ bit(w = x) = 0
      BY <2>2 DEF bit
    <3>2. tileUsers(w)' = tileUsers(w)
      BY <1>1, <3>1
    <3>3. td'[w] = td[w]
      BY <2>2 DEF Releases
    <3>4. QED
      BY <2>2, <3>1, <3>2, <3>3, SettledSame
  <2>3. QED
    BY <2>1, <2>2
<1>6. QED
  BY <1>5, CountedStep DEF Releases

\* Old data that the tile lets go is given back.
LEMMA ReleaseOldCounted ==
    ASSUME Ordered, Counted, NEW t \in Threads, releaseOldTileData(t)
    PROVE  Counted'
<1>1. at[t] \in AgentRecord /\ ThreadShape(at[t]) /\ at[t].pc = "releaseOld"
  BY ThreadRecord DEF releaseOldTileData
<1>2. /\ at[t].tile # NoTile /\ at[t].next = "idle" /\ ~owned(at[t]) /\ ~pending(at[t])
  BY <1>1 DEF ThreadShape, loads, frees, makes, owned, pending, where, SwapLabels, LoadLabels
<1>3. PICK y \in Tiles : y = at[t].tile
  BY <1>2, UsedTile
<1>4. PICK q : q = tile[y].m_oldTileData
  OBVIOUS
<1>5. tile[y] \in KisTile /\ q \in Seq(TileData) /\ items' = items
  BY <1>4 DEF Ordered, TilesLocked, KisTile, releaseOldTileData
<1>6. CASE q = <<>>
  <2>1. /\ tile' = [tile EXCEPT ![y] = [tile[y] EXCEPT !.m_swapBarrierLock = NoOne]]
        /\ at' = [at EXCEPT ![t] = Idle] /\ UNCHANGED td
    BY <1>3, <1>4, <1>6 DEF releaseOldTileData
  <2>2. TilesKept
    <3>1. PICK r : r = [tile[y] EXCEPT !.m_swapBarrierLock = NoOne]
      OBVIOUS
    <3>2. r.m_tileData = tile[y].m_tileData /\ r.m_oldTileData = tile[y].m_oldTileData /\ r.indexed = tile[y].indexed
      BY <1>5, <3>1 DEF KisTile
    <3>3. QED
      BY <2>1, <3>1, <3>2, TilesKeptAt
  <2>3. SameClaim(at[t], Idle)
    BY <1>1, <1>2, IdleShape, NoClaim DEF Idle
  <2>4. QED
    BY <1>5, <2>1, <2>2, <2>3, SameTileData, CountedQuietly
<1>7. CASE q # <<>>
  <2>1. PICK x \in TileData : x = Head(q)
    BY <1>5, <1>7, Tails
  <2>2. PICK s : s = [afterRelease(x, "releaseOld") EXCEPT !.tile = y]
    OBVIOUS
  <2>3. PICK r : r = [td[x] EXCEPT !.readers = @ - 1]
    OBVIOUS
  <2>4. /\ tile' = [tile EXCEPT ![y] = [tile[y] EXCEPT !.m_oldTileData = Tail(@)]]
        /\ td' = released([td EXCEPT ![x] = r], x)
        /\ at' = [at EXCEPT ![t] = s]
    BY <1>3, <1>4, <1>7, <2>1, <2>2, <2>3 DEF releaseOldTileData, unblocked
  <2>5. Moves(t, s)
    BY <2>4, ThreadRecord DEF Moves
  <2>6. ~owned(s) /\ (pending(s) <=> td[x].m_refCount = 1) /\ (pending(s) => s.td = x)
    BY <2>2, ReleaseClaim
  <2>7. Releases(x)
    <3>1. DOMAIN r = Fields /\ r.exists = td[x].exists /\ r.m_usersCount = td[x].m_usersCount
          /\ r.m_refCount = td[x].m_refCount
      BY <2>3 DEF Counted, Fields
    <3>2. PICK objects : objects = [td EXCEPT ![x] = r]
      OBVIOUS
    <3>3. QED
      BY <2>4, <3>1, <3>2, ReleasedAt
  <2>8. /\ \A z \in Tiles : tile'[z].m_tileData = tile[z].m_tileData /\ tile'[z].indexed = tile[z].indexed
        /\ tile'[y].m_oldTileData = Tail(q)
        /\ \A z \in Tiles : z # y => tile'[z].m_oldTileData = tile[z].m_oldTileData
    <3>1. PICK p : p = Tail(q)
      OBVIOUS
    <3>2. tile' = [tile EXCEPT ![y] = [tile[y] EXCEPT !.m_oldTileData = p]]
      BY <1>4, <2>4, <3>1
    <3>3. DOMAIN tile = Tiles
      BY DEF Ordered, TilesLocked
    <3>4. QED
      BY <1>5, <3>1, <3>2, <3>3 DEF KisTile
  <2>9. ASSUME NEW w \in TileData
        PROVE  /\ tileUsers(w)' = tileUsers(w) - bit(w = x)
               /\ indexUsers(w)' = indexUsers(w)
    <3>1. Cardinality(aging(w)') = Cardinality(aging(w)) - bit(Head(tile[y].m_oldTileData) = w)
      BY <1>4, <1>7, <2>8, AgingTail
    <3>2. bit(Head(tile[y].m_oldTileData) = w) = bit(w = x) /\ bit(w = x) \in {0, 1}
      BY <1>4, <2>1 DEF bit
    <3>3. PICK b \in Int : b = 0 - bit(w = x) /\ Cardinality(aging(w)') = Cardinality(aging(w)) + b
      <4>1. Cardinality(aging(w)) \in Nat
        BY UsesFinite, FS_CardinalityType
      <4>2. QED
        BY <3>1, <3>2, <4>1
    <3>4. bit(owned(s) /\ s.td = w) = 0 /\ bit(owned(at[t]) /\ at[t].td = w) = 0
      BY <1>2, <2>6 DEF bit
    <3>5. Cardinality(owning(w)') = Cardinality(owning(w)) + 0
      BY <2>5, <3>4, OwningChange
    <3>6. /\ tileUsers(w)' = tileUsers(w) + (0 + b + 0 + 0)
          /\ indexUsers(w)' = indexUsers(w) + 0
      BY <1>5, <2>8, <3>3, <3>5, UsersMove, ShowingSame, IndexingSame, KeptSame
    <3>7. tileUsers(w) \in Nat /\ indexUsers(w) \in Nat
      BY UsersCounted
    <3>8. QED
      BY <3>2, <3>3, <3>6, <3>7
  <2>10. tileUsers(x) # 0
    <3>1. 1 \in DOMAIN q /\ q[1] = x
      BY <1>5, <1>7, <2>1, Tails
    <3>2. <<y, 1>> \in aging(x)
      BY <1>4, <3>1, Aging
    <3>3. QED
      BY <3>2, UsersCounted
  <2>11. QED
    BY <1>2, <2>5, <2>6, <2>7, <2>9, <2>10, ReleaseCounted
<1>8. QED
  BY <1>6, <1>7

\* A dropped tile gives its data back.
LEMMA DropTileCounted ==
    ASSUME Ordered, Counted, NEW t \in Threads, NEW y \in Copies, dropTile(t, y)
    PROVE  Counted'
<1>1. /\ y \in Tiles /\ tile \in [Tiles -> KisTile] /\ tile[y] \in KisTile /\ TileLocked(y) /\ TileShared(y)
  BY StoreAssumption DEF Ordered, TilesLocked
<1>2. at[t] \in AgentRecord /\ ThreadShape(at[t]) /\ at[t].pc = "idle"
  BY ThreadRecord DEF dropTile
<1>3. ~owned(at[t]) /\ ~pending(at[t])
  BY <1>2 DEF ThreadShape, loads, frees, makes, owned, pending, where, SwapLabels, LoadLabels
<1>4. PICK x : x = tile[y].m_tileData
  OBVIOUS
<1>5. PICK s : s = afterRelease(x, "idle")
  OBVIOUS
<1>6. /\ x # NoTileData /\ {u \in Threads : at[u].tile = y} = {}
      /\ tile' = [tile EXCEPT ![y] = NewTile(NoTileData, {})]
      /\ td' = released(td, x)
      /\ at' = [at EXCEPT ![t] = s]
      /\ items' = items
  BY <1>4, <1>5 DEF dropTile
<1>7. x \in TileData
  BY <1>1, <1>4, <1>6 DEF KisTile
<1>8. Moves(t, s)
  BY <1>6, ThreadRecord DEF Moves
<1>9. ~owned(s) /\ (pending(s) <=> td[x].m_refCount = 1) /\ (pending(s) => s.td = x)
  BY <1>1, <1>5, <1>7, ReleaseClaim
<1>10. Releases(x)
  <2>1. DOMAIN td = TileData /\ DOMAIN td[x] = Fields
    BY <1>7 DEF Counted
  <2>2. QED
    BY <1>6, <1>7, <2>1, ReleasedData
\* Nobody uses the tile: it has no old data.
<1>11. tile[y].m_oldTileData = <<>> /\ tile[y].indexed = NoTileData
  <2>1. users(y) = {} /\ tile[y].m_swapBarrierLock = NoOne
    BY <1>1, <1>6, UnusedTile
  <2>2. QED
    BY <1>1, <2>1 DEF TileShared
<1>12. /\ tile'[y].m_tileData = NoTileData /\ tile'[y].m_oldTileData = <<>> /\ tile'[y].indexed = NoTileData
       /\ \A z \in Tiles : z # y => tile'[z] = tile[z]
  <2>1. NewTile(NoTileData, {}) \in KisTile
    BY DEF NewTile, KisTile
  <2>2. TileChanges(y) /\ tile'[y] = NewTile(NoTileData, {})
    BY <1>1, <1>6, <2>1, TileUpdate
  <2>3. QED
    BY <2>2 DEF TileChanges, NewTile
<1>13. ASSUME NEW w \in TileData
       PROVE  /\ tileUsers(w)' = tileUsers(w) - bit(w = x)
              /\ indexUsers(w)' = indexUsers(w)
  <2>1. Cardinality(showing(w)') = Cardinality(showing(w)) + bit(tile'[y].m_tileData = w) - bit(tile[y].m_tileData = w)
    BY <1>1, <1>12, ShowingMoves
  <2>2. /\ bit(tile'[y].m_tileData = w) = 0 /\ bit(tile[y].m_tileData = w) = bit(w = x)
        /\ bit(w = x) \in {0, 1}
    BY <1>4, <1>12, StoreAssumption DEF bit
  <2>3. PICK a \in Int : a = 0 - bit(w = x) /\ Cardinality(showing(w)') = Cardinality(showing(w)) + a
    <3>1. Cardinality(showing(w)) \in Nat
      BY UsesFinite, FS_CardinalityType
    <3>2. QED
      BY <2>1, <2>2, <3>1
  <2>4. bit(owned(s) /\ s.td = w) = 0 /\ bit(owned(at[t]) /\ at[t].td = w) = 0
    BY <1>3, <1>9 DEF bit
  <2>5. Cardinality(owning(w)') = Cardinality(owning(w)) + 0
    BY <1>8, <2>4, OwningChange
  <2>6. \A z \in Tiles : tile'[z].m_oldTileData = tile[z].m_oldTileData /\ tile'[z].indexed = tile[z].indexed
    BY <1>11, <1>12
  <2>7. /\ tileUsers(w)' = tileUsers(w) + (a + 0 + 0 + 0)
        /\ indexUsers(w)' = indexUsers(w) + 0
    <3>1. /\ Cardinality(aging(w)') = Cardinality(aging(w)) + 0
          /\ Cardinality(indexing(w)') = Cardinality(indexing(w)) + 0
          /\ Cardinality(kept(w)') = Cardinality(kept(w)) + 0
      BY <1>6, <2>6, OldSame, IndexingSame, KeptSame
    <3>2. QED
      BY <2>3, <2>5, <3>1, UsersMove
  <2>8. tileUsers(w) \in Nat /\ indexUsers(w) \in Nat
    BY UsersCounted
  <2>9. QED
    BY <2>2, <2>3, <2>7, <2>8
<1>14. tileUsers(x) # 0
  <2>1. y \in showing(x)
    BY <1>1, <1>4 DEF showing
  <2>2. QED
    BY <2>1, UsersCounted
<1>15. QED
  BY <1>3, <1>7, <1>8, <1>9, <1>10, <1>13, <1>14, ReleaseCounted

\* A purged memento item gives its data back.
LEMMA PurgeCounted ==
    ASSUME Ordered, Counted, NEW t \in Threads, purge(t)
    PROVE  Counted'
<1>1. at[t] \in AgentRecord /\ ThreadShape(at[t]) /\ at[t].pc = "idle"
  BY ThreadRecord DEF purge
<1>2. ~owned(at[t]) /\ ~pending(at[t])
  BY <1>1 DEF ThreadShape, loads, frees, makes, owned, pending, where, SwapLabels, LoadLabels
<1>3. PICK x : x = Head(items).td
  OBVIOUS
<1>4. PICK s : s = afterRelease(x, "idle")
  OBVIOUS
<1>5. PICK r : r = [td[x] EXCEPT !.m_mementoFlag = @ - 1]
  OBVIOUS
<1>6. /\ items # <<>> /\ items' = Tail(items)
      /\ td' = released([td EXCEPT ![x] = r], x)
      /\ at' = [at EXCEPT ![t] = s]
      /\ UNCHANGED tile
  BY <1>3, <1>4, <1>5 DEF purge
<1>7. /\ x \in TileData /\ 1 \in DOMAIN items /\ items[1].td = x
  <2>1. PICK Item : Item = [td : TileData, expected : SUBSET (1..MaxWrites)]
    OBVIOUS
  <2>2. items \in Seq(Item)
    BY <2>1 DEF Ordered, ItemsTyped
  <2>3. Head(items) \in Item /\ Head(items) = items[1] /\ 1 \in DOMAIN items
    BY <1>6, <2>2, Tails
  <2>4. QED
    BY <1>3, <2>1, <2>3
<1>8. Moves(t, s)
  BY <1>6, ThreadRecord DEF Moves
<1>9. ~owned(s) /\ (pending(s) <=> td[x].m_refCount = 1) /\ (pending(s) => s.td = x)
  BY <1>4, <1>7, ReleaseClaim
<1>10. Releases(x)
  <2>1. DOMAIN r = Fields /\ r.exists = td[x].exists /\ r.m_usersCount = td[x].m_usersCount
        /\ r.m_refCount = td[x].m_refCount
    BY <1>5, <1>7 DEF Counted, Fields
  <2>2. PICK objects : objects = [td EXCEPT ![x] = r]
    OBVIOUS
  <2>3. QED
    BY <1>6, <1>7, <2>1, <2>2, ReleasedAt
<1>11. ASSUME NEW w \in TileData
       PROVE  /\ tileUsers(w)' = tileUsers(w) - bit(w = x)
              /\ indexUsers(w)' = indexUsers(w)
  <2>1. Cardinality(kept(w)') = Cardinality(kept(w)) - bit(Head(items).td = w)
    BY <1>6, KeptTail
  <2>2. bit(Head(items).td = w) = bit(w = x) /\ bit(w = x) \in {0, 1}
    BY <1>3 DEF bit
  <2>3. PICK c \in Int : c = 0 - bit(w = x) /\ Cardinality(kept(w)') = Cardinality(kept(w)) + c
    <3>1. Cardinality(kept(w)) \in Nat
      BY UsesFinite, FS_CardinalityType
    <3>2. QED
      BY <2>1, <2>2, <3>1
  <2>4. bit(owned(s) /\ s.td = w) = 0 /\ bit(owned(at[t]) /\ at[t].td = w) = 0
    BY <1>2, <1>9 DEF bit
  <2>5. Cardinality(owning(w)') = Cardinality(owning(w)) + 0
    BY <1>8, <2>4, OwningChange
  <2>6. TilesKept
    BY <1>6, SameTiles
  <2>7. /\ tileUsers(w)' = tileUsers(w) + (0 + 0 + c + 0)
        /\ indexUsers(w)' = indexUsers(w) + 0
    BY <2>3, <2>5, <2>6, UsersMove, TilesSame
  <2>8. tileUsers(w) \in Nat /\ indexUsers(w) \in Nat
    BY UsersCounted
  <2>9. QED
    BY <2>2, <2>3, <2>7, <2>8
<1>12. tileUsers(x) # 0
  <2>1. 1 \in kept(x)
    BY <1>7 DEF kept
  <2>2. QED
    BY <2>1, UsersCounted
<1>13. QED
  BY <1>2, <1>7, <1>8, <1>9, <1>10, <1>11, <1>12, ReleaseCounted

\* A step in which no label changes.
LEMMA NobodyMoves ==
    ASSUME Ordered, NEW t \in Threads, at' = at, NEW x
    PROVE  /\ Moves(t, at[t])
           /\ Cardinality(owning(x)') = Cardinality(owning(x)) + 0
<1>1. Moves(t, at[t])
  BY DEF Moves
<1>2. owning(x)' = owning(x)
  BY DEF owning, ownsCopy
<1>3. QED
  BY <1>1, <1>2, UsesFinite, FS_CardinalityType

\* commit(): the reference of the index item becomes a user, the memento item.
LEMMA CommitCounted ==
    ASSUME Ordered, Counted, NEW t \in Threads, NEW y \in Tiles, commit(t, y)
    PROVE  Counted'
<1>1. at[t] \in AgentRecord /\ ThreadShape(at[t]) /\ at[t].pc = "idle" /\ tile[y] \in KisTile
  BY ThreadRecord DEF commit, Ordered, TilesLocked
<1>2. ~pending(at[t])
  BY <1>1 DEF frees, makes, pending, where, SwapLabels
<1>3. PICK x : x = tile[y].indexed
  OBVIOUS
<1>4. PICK taken : taken = acquired(td, x)
  OBVIOUS
<1>5. PICK item : item = [td |-> x, expected |-> tile[y].expected]
  OBVIOUS
<1>6. /\ x # NoTileData
      /\ td' = [taken EXCEPT ![x].m_refCount = @ - 1, ![x].m_mementoFlag = @ + 1]
      /\ items' = Append(items, item)
      /\ tile' = [tile EXCEPT ![y] = [tile[y] EXCEPT !.indexed = NoTileData]]
      /\ at' = at
  BY <1>3, <1>4, <1>5 DEF commit
<1>7. x \in TileData /\ item \in [td : TileData, expected : SUBSET (1..MaxWrites)] /\ item.td = x
  BY <1>1, <1>3, <1>5, <1>6 DEF KisTile
<1>8. /\ \A z \in Tiles : /\ tile'[z].m_tileData = tile[z].m_tileData
                          /\ tile'[z].m_oldTileData = tile[z].m_oldTileData
      /\ tile'[y].indexed = NoTileData
      /\ \A z \in Tiles : z # y => tile'[z].indexed = tile[z].indexed
  BY <1>1, <1>6 DEF Ordered, TilesLocked, KisTile
<1>9. /\ indexUsers(x) # 0 /\ tileUsers(x) \in Nat /\ indexUsers(x) \in Nat
  <2>1. y \in indexing(x)
    BY <1>3 DEF indexing
  <2>2. QED
    BY <2>1, UsersCounted
<1>10. td[x].m_refCount = tileUsers(x) + indexUsers(x) /\ td[x].m_usersCount = tileUsers(x)
  BY <1>7 DEF Counted
<1>11. /\ td[x].m_refCount \in Nat \ {0} /\ td[x].exists = TRUE
       /\ \A u \in Threads : ~busy(u, x)
  <2>1. td[x].m_refCount # 0
    BY <1>9, <1>10
  <2>2. QED
    BY <1>7, <2>1, ReferencedData
<1>12. /\ DOMAIN td' = TileData
       /\ \A w \in TileData : w # x => td'[w] = td[w]
       /\ DOMAIN td'[x] = Fields /\ td'[x].exists = TRUE
       /\ td'[x].m_usersCount = td[x].m_usersCount + 1 /\ td'[x].m_refCount = td[x].m_refCount
  <2>1. Acquiring(taken, x)
    BY <1>4, <1>7, AcquiredData
  <2>2. PICK z : z = [taken[x] EXCEPT !.m_refCount = @ - 1, !.m_mementoFlag = @ + 1]
    OBVIOUS
  <2>3. td' = [taken EXCEPT ![x] = z]
    BY <1>6, <1>7, <2>1, <2>2 DEF Acquiring
  <2>4. DOMAIN z = Fields /\ z.exists = TRUE
        /\ z.m_usersCount = td[x].m_usersCount + 1 /\ z.m_refCount = (td[x].m_refCount + 1) - 1
    BY <1>11, <2>1, <2>2 DEF Acquiring, Fields
  <2>5. (td[x].m_refCount + 1) - 1 = td[x].m_refCount
    BY <1>11
  <2>6. QED
    BY <1>7, <2>1, <2>3, <2>4, <2>5 DEF Acquiring
<1>13. ASSUME NEW w \in TileData
       PROVE  /\ tileUsers(w)' = tileUsers(w) + bit(w = x)
              /\ indexUsers(w)' = indexUsers(w) - bit(w = x)
  <2>1. PICK c \in {0, 1} : c = bit(w = x) /\ c = bit(item.td = w) /\ c = bit(tile[y].indexed = w)
    BY <1>3, <1>7 DEF bit
  <2>2. Cardinality(kept(w)') = Cardinality(kept(w)) + c
    BY <1>6, <1>7, <2>1, KeptAppended
  <2>3. Cardinality(indexing(w)') = Cardinality(indexing(w)) + (0 - c)
    <3>1. bit(tile'[y].indexed = w) = 0
      BY <1>8, StoreAssumption DEF bit
    <3>2. Cardinality(indexing(w)') = Cardinality(indexing(w)) + bit(tile'[y].indexed = w) - bit(tile[y].indexed = w)
      BY <1>8, IndexingMoves
    <3>3. Cardinality(indexing(w)) \in Nat
      BY UsesFinite, FS_CardinalityType
    <3>4. QED
      BY <2>1, <3>1, <3>2, <3>3
  <2>4. /\ Cardinality(showing(w)') = Cardinality(showing(w)) + 0
        /\ Cardinality(aging(w)') = Cardinality(aging(w)) + 0
        /\ Cardinality(owning(w)') = Cardinality(owning(w)) + 0
    BY <1>6, <1>8, ShowingSame, OldSame, NobodyMoves
  <2>5. c \in Int /\ 0 - c \in Int
    BY <2>1
  <2>6. /\ tileUsers(w)' = tileUsers(w) + (0 + 0 + c + 0)
        /\ indexUsers(w)' = indexUsers(w) + (0 - c)
    BY <2>2, <2>3, <2>4, <2>5, UsersMove
  <2>7. tileUsers(w) \in Nat /\ indexUsers(w) \in Nat
    BY UsersCounted
  <2>8. QED
    BY <2>1, <2>6, <2>7
<1>14. ASSUME NEW w \in TileData PROVE Settled(t, at[t], w)
  <2>1. CASE w = x
    <3>1. tileUsers(x)' = tileUsers(x) + 1 /\ indexUsers(x)' = indexUsers(x) - 1
      BY <1>7, <1>13 DEF bit
    <3>2. td'[x].m_usersCount = tileUsers(x)' /\ td'[x].m_refCount = tileUsers(x)' + indexUsers(x)'
      BY <1>9, <1>10, <1>12, <3>1
    <3>3. td'[x].m_refCount > 0
      BY <1>11, <1>12
    <3>4. QED
      BY <1>2, <1>11, <1>12, <2>1, <3>2, <3>3 DEF Settled
  <2>2. CASE w # x
    <3>1. tileUsers(w)' = tileUsers(w) /\ indexUsers(w)' = indexUsers(w)
      BY <1>13, <2>2, UsersCounted DEF bit
    <3>2. QED
      BY <1>2, <1>12, <2>2, <3>1, SettledSame
  <2>3. QED
    BY <2>1, <2>2
<1>15. QED
  BY <1>6, <1>12, <1>14, NobodyMoves, CountedStep

\* A copied tile is one more user of the data.
LEMMA CopyTileCounted ==
    ASSUME Ordered, Counted, NEW t \in Threads, NEW y \in Copies, copyTile(t, y)
    PROVE  Counted'
<1>1. y \in Tiles /\ tile \in [Tiles -> KisTile] /\ TileShared(y)
  BY StoreAssumption DEF Ordered, TilesLocked
<1>2. at[t] \in AgentRecord /\ ThreadShape(at[t]) /\ at[t].pc = "reading"
  BY ThreadRecord DEF copyTile
<1>3. at[t].tile # NoTile /\ ~pending(at[t])
  BY <1>2 DEF ThreadShape, frees, makes, pending, where, SwapLabels
<1>4. PICK z \in Tiles : z = at[t].tile
  BY <1>3, UsedTile
<1>5. PICK x \in TileData : x = tile[z].m_tileData
  BY <1>3, <1>4, UsedTile
<1>6. PICK expected \in SUBSET (1..MaxWrites) : expected = tile[z].expected
  BY <1>1 DEF KisTile
<1>7. /\ tile[y].m_tileData = NoTileData
      /\ tile' = [tile EXCEPT ![y] = NewTile(x, expected)]
      /\ td' = acquired(td, x) /\ items' = items /\ at' = at
  BY <1>4, <1>5, <1>6 DEF copyTile
<1>8. tile[y] = NewTile(NoTileData, {})
  BY <1>1, <1>7 DEF TileShared
<1>9. /\ tile'[y].m_tileData = x
      /\ \A v \in Tiles : v # y => tile'[v].m_tileData = tile[v].m_tileData
      /\ \A v \in Tiles : tile'[v].m_oldTileData = tile[v].m_oldTileData /\ tile'[v].indexed = tile[v].indexed
  <2>1. NewTile(x, expected) \in KisTile
    BY DEF NewTile, KisTile
  <2>2. TileChanges(y) /\ tile'[y] = NewTile(x, expected)
    BY <1>1, <1>7, <2>1, TileUpdate
  <2>3. QED
    BY <1>8, <2>2 DEF TileChanges, NewTile
<1>10. tileUsers(x) # 0 /\ tileUsers(x) \in Nat /\ indexUsers(x) \in Nat
  <2>1. z \in showing(x)
    BY <1>5 DEF showing
  <2>2. QED
    BY <2>1, UsersCounted
<1>11. td[x].m_refCount = tileUsers(x) + indexUsers(x) /\ td[x].m_usersCount = tileUsers(x)
  BY DEF Counted
<1>12. /\ td[x].m_refCount \in Nat \ {0} /\ td[x].exists = TRUE
       /\ \A u \in Threads : ~busy(u, x)
  <2>1. td[x].m_refCount # 0
    BY <1>10, <1>11
  <2>2. QED
    BY <2>1, ReferencedData
<1>13. Acquiring(td', x)
  BY <1>7, AcquiredData
<1>14. ASSUME NEW w \in TileData
       PROVE  /\ tileUsers(w)' = tileUsers(w) + bit(w = x)
              /\ indexUsers(w)' = indexUsers(w)
  <2>1. PICK a \in {0, 1} : a = bit(w = x) /\ a = bit(tile'[y].m_tileData = w)
    BY <1>9 DEF bit
  <2>2. bit(tile[y].m_tileData = w) = 0
    BY <1>7, StoreAssumption DEF bit
  <2>3. Cardinality(showing(w)') = Cardinality(showing(w)) + a
    <3>1. Cardinality(showing(w)') = Cardinality(showing(w)) + bit(tile'[y].m_tileData = w) - bit(tile[y].m_tileData = w)
      BY <1>1, <1>9, ShowingMoves
    <3>2. Cardinality(showing(w)) \in Nat
      BY UsesFinite, FS_CardinalityType
    <3>3. QED
      BY <2>1, <2>2, <3>1, <3>2
  <2>4. /\ Cardinality(aging(w)') = Cardinality(aging(w)) + 0
        /\ Cardinality(indexing(w)') = Cardinality(indexing(w)) + 0
        /\ Cardinality(kept(w)') = Cardinality(kept(w)) + 0
        /\ Cardinality(owning(w)') = Cardinality(owning(w)) + 0
    BY <1>7, <1>9, OldSame, IndexingSame, KeptSame, NobodyMoves
  <2>5. a \in Int
    BY <2>1
  <2>6. /\ tileUsers(w)' = tileUsers(w) + (a + 0 + 0 + 0)
        /\ indexUsers(w)' = indexUsers(w) + 0
    BY <2>3, <2>4, <2>5, UsersMove
  <2>7. tileUsers(w) \in Nat /\ indexUsers(w) \in Nat
    BY UsersCounted
  <2>8. QED
    BY <2>1, <2>6, <2>7
<1>15. ASSUME NEW w \in TileData PROVE Settled(t, at[t], w)
  <2>1. CASE w = x
    <3>1. tileUsers(x)' = tileUsers(x) + 1 /\ indexUsers(x)' = indexUsers(x)
      BY <1>14 DEF bit
    <3>2. td'[x].m_usersCount = tileUsers(x)' /\ td'[x].m_refCount = tileUsers(x)' + indexUsers(x)'
      BY <1>10, <1>11, <1>13, <3>1 DEF Acquiring
    <3>3. td'[x].m_refCount > 0 /\ td'[x].exists = TRUE /\ DOMAIN td'[x] = Fields
      BY <1>12, <1>13 DEF Acquiring
    <3>4. QED
      BY <1>3, <1>12, <2>1, <3>2, <3>3 DEF Settled
  <2>2. CASE w # x
    <3>1. tileUsers(w)' = tileUsers(w) /\ indexUsers(w)' = indexUsers(w)
      BY <1>14, <2>2, UsersCounted DEF bit
    <3>2. td'[w] = td[w]
      BY <1>13, <2>2 DEF Acquiring
    <3>3. QED
      BY <1>3, <2>2, <3>1, <3>2, SettledSame
  <2>3. QED
    BY <2>1, <2>2
<1>16. QED
  BY <1>7, <1>13, <1>15, NobodyMoves, CountedStep DEF Acquiring

\* The copy changes from the hands of the thread to the tile; the old data becomes old;
\* the index item goes with the tile.
LEMMA InstallCounted ==
    ASSUME Ordered, Counted, NEW t \in Threads, installTileData(t)
    PROVE  Counted'
<1>1. at[t] \in AgentRecord /\ ThreadShape(at[t]) /\ at[t].pc = "install"
  BY ThreadRecord DEF installTileData
<1>2. /\ at[t].tile # NoTile /\ at[t].next = "idle" /\ at[t].td \in TileData
      /\ owned(at[t]) /\ ~pending(at[t])
  BY <1>1 DEF ThreadShape, AgentRecord, loads, frees, makes, copies, owned, pending, where,
              SwapLabels, LoadLabels, CopyLabels
<1>3. PICK y \in Tiles : y = at[t].tile
  BY <1>2, UsedTile
<1>4. PICK old \in TileData : old = tile[y].m_tileData
  BY <1>2, <1>3, UsedTile
<1>5. PICK x \in TileData : x = at[t].td
  BY <1>2
<1>6. PICK s : s = [at[t] EXCEPT !.pc = "writing"]
  OBVIOUS
<1>7. PICK index, new : index = tile[y].indexed /\ new = IF y \in Copies THEN NoTileData ELSE x
  OBVIOUS
<1>8. /\ index \in {NoTileData, old} /\ (y \in Copies => index = NoTileData)
      /\ tile[y] \in KisTile /\ tile \in [Tiles -> KisTile]
  BY <1>4, <1>7 DEF Ordered, TilesLocked, TileShared
<1>9. ~owned(s) /\ ~pending(s)
  <2>1. s.pc = "writing" /\ s.next = "idle"
    BY <1>1, <1>2, <1>6 DEF AgentRecord
  <2>2. QED
    BY <2>1 DEF owned, pending, frees, makes, where, SwapLabels
<1>10. Moves(t, s) /\ items' = items
  BY <1>6, ThreadRecord DEF installTileData, goto, Moves
<1>11. /\ tile'[y].m_tileData = x /\ tile'[y].indexed = new
       /\ tile'[y].m_oldTileData = Append(tile[y].m_oldTileData, old)
       /\ \A z \in Tiles : z # y => tile'[z] = tile[z]
  <2>1. PICK seq : seq = Append(tile[y].m_oldTileData, old)
    OBVIOUS
  <2>2. PICK r : r = [tile[y] EXCEPT !.m_tileData = x, !.m_oldTileData = seq, !.indexed = new, !.m_COWMutex = NoOne]
    OBVIOUS
  <2>3. tile' = [tile EXCEPT ![y] = r]
    <3>1. tile' = [tile EXCEPT
            ![y].m_tileData = at[t].td,
            ![y].m_oldTileData = Append(@, old),
            ![y].indexed = IF y \in Copies THEN NoTileData ELSE at[t].td,
            ![y].m_COWMutex = NoOne]
      BY <1>3, <1>4 DEF installTileData
    <3>2. tile' = [tile EXCEPT ![y] = [tile[y] EXCEPT
            !.m_tileData = x, !.m_oldTileData = Append(tile[y].m_oldTileData, old),
            !.indexed = new, !.m_COWMutex = NoOne]]
      BY <1>5, <1>7, <1>8, <3>1
    <3>3. QED
      BY <2>1, <2>2, <3>2
  <2>4. r.m_tileData = x /\ r.m_oldTileData = seq /\ r.indexed = new
    BY <1>8, <2>2 DEF KisTile
  <2>5. QED
    BY <1>8, <2>1, <2>3, <2>4
<1>12. /\ DOMAIN td' = TileData
       /\ \A w \in TileData :
            /\ DOMAIN td'[w] = Fields /\ td'[w].exists = td[w].exists
            /\ td'[w].m_usersCount = td[w].m_usersCount
            /\ td'[w].m_refCount = (td[w].m_refCount - bit(index = w)) + bit(new = w)
            /\ w \notin {x, old} => td'[w] = td[w]
  <2>1. DOMAIN td = TileData /\ \A w \in TileData : DOMAIN td[w] = Fields /\ td[w].m_refCount \in Int
    BY UsersCounted DEF Counted
  <2>2. CASE y \in Copies
    <3>1. td' = td
      BY <1>3, <2>2 DEF installTileData
    <3>2. \A w \in TileData : bit(index = w) = 0 /\ bit(new = w) = 0
      BY <1>7, <1>8, <2>2, StoreAssumption DEF bit
    <3>3. QED
      BY <2>1, <3>1, <3>2
  <2>3. CASE y \notin Copies
    <3>1. PICK derefed : derefed = IF index = NoTileData THEN td ELSE [td EXCEPT ![index].m_refCount = @ - 1]
      OBVIOUS
    <3>2. td' = [derefed EXCEPT ![x].m_refCount = @ + 1] /\ new = x
      BY <1>3, <1>5, <1>7, <2>3, <3>1 DEF installTileData
    <3>3. /\ DOMAIN derefed = TileData
          /\ \A w \in TileData :
                /\ DOMAIN derefed[w] = Fields /\ derefed[w].exists = td[w].exists
                /\ derefed[w].m_usersCount = td[w].m_usersCount
                /\ derefed[w].m_refCount = td[w].m_refCount - bit(index = w)
                /\ w # old => derefed[w] = td[w]
      <4>1. CASE index = NoTileData
        <5>1. \A w \in TileData : bit(index = w) = 0
          BY <4>1, StoreAssumption DEF bit
        <5>2. QED
          BY <2>1, <3>1, <4>1, <5>1
      <4>2. CASE index # NoTileData
        <5>1. index = old /\ derefed = [td EXCEPT ![old].m_refCount = @ - 1]
          BY <1>8, <3>1, <4>2
        <5>2. QED
          BY <2>1, <5>1 DEF bit, Fields
      <4>3. QED
        BY <4>1, <4>2
    <3>4. ASSUME NEW w \in TileData
          PROVE  /\ DOMAIN td'[w] = Fields /\ td'[w].exists = derefed[w].exists
                 /\ td'[w].m_usersCount = derefed[w].m_usersCount
                 /\ td'[w].m_refCount = derefed[w].m_refCount + bit(new = w)
                 /\ w # x => td'[w] = derefed[w]
      <4>1. derefed[w].m_refCount \in Int
        BY <2>1, <3>3 DEF bit
      <4>2. QED
        BY <3>2, <3>3, <4>1 DEF bit, Fields
    <3>5. DOMAIN td' = TileData
      BY <3>2, <3>3
    <3>6. QED
      BY <3>3, <3>4, <3>5
  <2>4. QED
    BY <2>2, <2>3
<1>13. ASSUME NEW w \in TileData
       PROVE  /\ tileUsers(w)' = tileUsers(w) /\ tileUsers(w) \in Nat /\ indexUsers(w) \in Nat
              /\ indexUsers(w)' = indexUsers(w) + (bit(new = w) - bit(index = w))
              /\ indexUsers(w)' \in Nat
  <2>1. PICK a \in {0, 1} : a = bit(x = w) /\ a = bit(tile'[y].m_tileData = w)
    BY <1>11 DEF bit
  <2>2. PICK b \in {0, 1} : b = bit(old = w) /\ b = bit(tile[y].m_tileData = w)
    BY <1>4 DEF bit
  <2>3. PICK c \in {0, 1} : c = bit(new = w) /\ c = bit(tile'[y].indexed = w)
    BY <1>11 DEF bit
  <2>4. PICK d \in {0, 1} : d = bit(index = w) /\ d = bit(tile[y].indexed = w)
    BY <1>7 DEF bit
  <2>5. Cardinality(showing(w)') = Cardinality(showing(w)) + (a - b)
    <3>1. Cardinality(showing(w)') = Cardinality(showing(w)) + bit(tile'[y].m_tileData = w) - bit(tile[y].m_tileData = w)
      BY <1>11, ShowingMoves
    <3>2. Cardinality(showing(w)) \in Nat
      BY UsesFinite, FS_CardinalityType
    <3>3. QED
      BY <2>1, <2>2, <3>1, <3>2
  <2>6. Cardinality(indexing(w)') = Cardinality(indexing(w)) + (c - d)
    <3>1. Cardinality(indexing(w)') = Cardinality(indexing(w)) + bit(tile'[y].indexed = w) - bit(tile[y].indexed = w)
      BY <1>11, IndexingMoves
    <3>2. Cardinality(indexing(w)) \in Nat
      BY UsesFinite, FS_CardinalityType
    <3>3. QED
      BY <2>3, <2>4, <3>1, <3>2
  <2>7. Cardinality(aging(w)') = Cardinality(aging(w)) + b
    <3>1. Cardinality(aging(w)') = Cardinality(aging(w)) + bit(old = w)
      BY <1>11, AgingAppended
    <3>2. QED
      BY <2>2, <3>1
  <2>8. Cardinality(owning(w)') = Cardinality(owning(w)) + (0 - a)
    <3>1. bit(owned(s) /\ s.td = w) = 0 /\ bit(owned(at[t]) /\ at[t].td = w) = a
      BY <1>2, <1>5, <1>9, <2>1 DEF bit
    <3>2. QED
      BY <1>10, <3>1, OwningChange
  <2>9. Cardinality(kept(w)') = Cardinality(kept(w)) + 0
    BY <1>10, KeptSame
  <2>10. a - b \in Int /\ c - d \in Int /\ b \in Int /\ 0 - a \in Int
         /\ (a - b) + b + 0 + (0 - a) = 0
    OBVIOUS
  <2>11. /\ tileUsers(w)' = tileUsers(w) + ((a - b) + b + 0 + (0 - a))
         /\ indexUsers(w)' = indexUsers(w) + (c - d)
    BY <2>5, <2>6, <2>7, <2>8, <2>9, <2>10, UsersMove
  <2>12. tileUsers(w) \in Nat /\ indexUsers(w) \in Nat
    BY UsersCounted
  <2>13. indexUsers(w)' \in Nat
    <3>1. d = 1 => indexUsers(w) # 0
      <4>1. d = 1 => y \in indexing(w)
        BY <2>4 DEF bit, indexing
      <4>2. QED
        BY <4>1, UsersCounted
    <3>2. QED
      BY <2>11, <2>12, <3>1
  <2>14. QED
    BY <2>3, <2>4, <2>10, <2>11, <2>12, <2>13
\* The copy and the old data have users before and after the step.
<1>14. tileUsers(x) # 0 /\ tileUsers(old) # 0
  <2>1. t \in owning(x)
    BY <1>2, <1>5 DEF owning, ownsCopy, owned
  <2>2. y \in showing(old)
    BY <1>4 DEF showing
  <2>3. QED
    BY <2>1, <2>2, UsersCounted
<1>15. ASSUME NEW w \in TileData PROVE Settled(t, s, w)
  <2>1. td[w].m_usersCount = tileUsers(w) /\ td[w].m_refCount = tileUsers(w) + indexUsers(w)
    BY DEF Counted
  <2>2. PICK b, d : b = bit(new = w) /\ d = bit(index = w) /\ b \in {0, 1} /\ d \in {0, 1}
    BY DEF bit
  <2>3. /\ DOMAIN td'[w] = Fields /\ td'[w].exists = td[w].exists
        /\ td'[w].m_usersCount = tileUsers(w)'
        /\ td'[w].m_refCount = tileUsers(w)' + indexUsers(w)'
    <3>1. td'[w].m_refCount = (td[w].m_refCount - d) + b /\ indexUsers(w)' = indexUsers(w) + (b - d)
      BY <1>12, <1>13, <2>2
    <3>2. tileUsers(w) \in Nat /\ indexUsers(w) \in Nat /\ tileUsers(w)' = tileUsers(w)
      BY <1>13
    <3>3. td'[w].m_refCount = tileUsers(w)' + indexUsers(w)'
      BY <2>1, <2>2, <3>1, <3>2
    <3>4. QED
      BY <1>12, <2>1, <3>2, <3>3
  <2>4. CASE w \in {x, old}
    <3>1. tileUsers(w) \in Nat \ {0} /\ tileUsers(w)' = tileUsers(w) /\ indexUsers(w) \in Nat /\ indexUsers(w)' \in Nat
      BY <1>13, <1>14, <2>4
    <3>2. td[w].m_refCount # 0 /\ td'[w].m_refCount > 0
      BY <2>1, <2>3, <3>1
    <3>3. td[w].exists = TRUE /\ \A u \in Threads : ~busy(u, w)
      BY <3>2, ReferencedData
    <3>4. QED
      BY <1>9, <2>3, <3>2, <3>3 DEF Settled
  <2>5. CASE w \notin {x, old}
    <3>1. td'[w] = td[w]
      BY <1>12, <2>5
    <3>2. bit(new = w) = 0 /\ bit(index = w) = 0
      BY <1>7, <1>8, <2>5, StoreAssumption DEF bit
    <3>3. tileUsers(w)' = tileUsers(w) /\ indexUsers(w)' = indexUsers(w)
      BY <1>13, <3>2
    <3>4. QED
      BY <1>2, <1>9, <3>1, <3>3, SettledSame
  <2>6. QED
    BY <2>4, <2>5
<1>16. QED
  BY <1>10, <1>12, <1>15, CountedStep

-------------------------------------------------------------------------------

\* In the beginning every tile and its index item have data of their own.
LEMMA InitCounted == Init => Counted
<1> SUFFICES ASSUME Init PROVE Counted
  OBVIOUS
<1>1. Ordered
  BY InitOrdered
<1>2. PICK firstData \in [Tiles \ Copies -> TileData] :
        /\ \A y, z \in Tiles \ Copies : firstData[y] = firstData[z] => y = z
        /\ td = [x \in TileData |->
                IF \E y \in Tiles \ Copies : firstData[y] = x
                THEN [NewTileData({}) EXCEPT !.listed = TRUE, !.m_usersCount = 1, !.m_refCount = 2]
                ELSE Deleted]
        /\ tile = [x \in Tiles |->
                IF x \in Copies THEN NewTile(NoTileData, {})
                ELSE [NewTile(firstData[x], {}) EXCEPT !.indexed = firstData[x]]]
        /\ items = <<>>
        /\ at = [a \in Agents |-> Idle]
  BY DEF Init
<1>3. ASSUME NEW y \in Tiles
      PROVE  /\ tile[y].m_oldTileData = <<>>
             /\ tile[y].m_tileData = IF y \in Copies THEN NoTileData ELSE firstData[y]
             /\ tile[y].indexed = tile[y].m_tileData
  BY <1>2, <1>3 DEF NewTile
<1>4. \A u \in Threads : \A x : ~owned(at[u]) /\ ~busy(u, x)
  BY <1>2 DEF Agents, Idle, owned, busy, frees, makes, where, SwapLabels
<1>5. ASSUME NEW x \in TileData
      PROVE  LET first == \E y \in Tiles \ Copies : firstData[y] = x
             IN  tileUsers(x) = bit(first) /\ indexUsers(x) = bit(first)
  <2>1. aging(x) = {}
    BY <1>3 DEF aging, oldUses
  <2>2. kept(x) = {} /\ owning(x) = {}
    <3>1. DOMAIN items = {}
      BY <1>2
    <3>2. QED
      BY <1>4, <3>1 DEF kept, owning, ownsCopy, owned
  <2>3. Cardinality({}) = 0
    BY FS_EmptySet
  <2>4. indexing(x) = showing(x)
    BY <1>3 DEF indexing, showing
  <2>5. CASE \E y \in Tiles \ Copies : firstData[y] = x
    <3>1. PICK y \in Tiles \ Copies : firstData[y] = x
      BY <2>5
    <3>2. \A z \in Tiles : tile[z].m_tileData = x <=> z = y
      BY <1>2, <1>3, <3>1, StoreAssumption
    <3>3. showing(x) = {y}
      BY <3>2 DEF showing
    <3>4. Cardinality(showing(x)) = 1
      BY <3>3, FS_Singleton
    <3>5. tileUsers(x) = 1 + 0 + 0 + 0 /\ indexUsers(x) = 1
      BY <2>1, <2>2, <2>3, <2>4, <3>4, UsersAdded
    <3>6. QED
      BY <2>5, <3>5 DEF bit
  <2>6. CASE ~\E y \in Tiles \ Copies : firstData[y] = x
    <3>1. showing(x) = {}
      BY <1>3, <2>6, StoreAssumption DEF showing
    <3>2. tileUsers(x) = 0 + 0 + 0 + 0 /\ indexUsers(x) = 0
      BY <2>1, <2>2, <2>3, <2>4, <3>1, UsersAdded
    <3>3. QED
      BY <2>6, <3>2 DEF bit
  <2>7. QED
    BY <2>5, <2>6
<1>6. ASSUME NEW x \in TileData
      PROVE  /\ DOMAIN td[x] = Fields
             /\ td[x].m_usersCount = tileUsers(x)
             /\ td[x].m_refCount = tileUsers(x) + indexUsers(x)
             /\ td[x].exists \in BOOLEAN
             /\ td[x].exists <=> td[x].m_refCount > 0
  <2>1. CASE \E y \in Tiles \ Copies : firstData[y] = x
    <3>1. td[x] = [NewTileData({}) EXCEPT !.listed = TRUE, !.m_usersCount = 1, !.m_refCount = 2]
      BY <1>2, <2>1
    <3>2. DOMAIN td[x] = Fields /\ td[x].m_usersCount = 1 /\ td[x].m_refCount = 2 /\ td[x].exists = TRUE
      BY <3>1 DEF NewTileData, Fields
    <3>3. tileUsers(x) = 1 /\ indexUsers(x) = 1
      BY <1>5, <2>1 DEF bit
    <3>4. td[x].m_refCount = tileUsers(x) + indexUsers(x)
      BY <3>2, <3>3
    <3>5. td[x].exists \in BOOLEAN /\ (td[x].exists <=> td[x].m_refCount > 0)
      <4>1. td[x].m_refCount > 0
        BY <3>2
      <4>2. td[x].exists = TRUE
        BY <3>2
      <4>3. QED
        BY <4>1, <4>2, Zenon
    <3>6. QED
      BY <3>2, <3>3, <3>4, <3>5
  <2>2. CASE ~\E y \in Tiles \ Copies : firstData[y] = x
    <3>1. td[x] = Deleted
      BY <1>2, <2>2
    <3>2. DOMAIN td[x] = Fields /\ td[x].m_usersCount = 0 /\ td[x].m_refCount = 0 /\ td[x].exists = FALSE
      BY <3>1 DEF Deleted, NewTileData, Fields
    <3>3. tileUsers(x) = 0 /\ indexUsers(x) = 0
      BY <1>5, <2>2 DEF bit
    <3>4. td[x].m_refCount = tileUsers(x) + indexUsers(x)
      BY <3>2, <3>3
    <3>5. td[x].exists \in BOOLEAN /\ (td[x].exists <=> td[x].m_refCount > 0)
      <4>1. ~(td[x].m_refCount > 0)
        BY <3>2
      <4>2. td[x].exists = FALSE
        BY <3>2
      <4>3. QED
        BY <4>1, <4>2, Zenon
    <3>6. QED
      BY <3>2, <3>3, <3>4, <3>5
  <2>3. QED
    BY <2>1, <2>2
<1>7. DOMAIN td = TileData
  BY <1>2
<1>8. QED
  BY <1>4, <1>6, <1>7 DEF Counted

\* Every step of every agent keeps the counters right.
LEMMA NextCounted == Ordered /\ Counted /\ [Next]_vars => Counted'
<1> SUFFICES ASSUME Ordered, Counted, [Next]_vars PROVE Counted'
  OBVIOUS
<1>1. ASSUME NEW t \in Threads, UsingTiles(t) PROVE Counted'
  BY <1>1, LockTileCounted, WritePixelCounted, UnlockTileCounted, ReleaseOldCounted, CopyTileCounted,
     DropTileCounted, CommitCounted, PurgeCounted DEF UsingTiles, lockForRead, lockForWrite
<1>2. ASSUME NEW t \in Threads, CopyingOnWrite(t) PROVE Counted'
  BY <1>2, CopyingCounted, CloneCounted, RegisterCounted, InstallCounted DEF CopyingOnWrite
<1>3. ASSUME NEW t \in Threads, Loading(t) \/ freeTileData(t) \/ Swapping(t) PROVE Counted'
  BY <1>3, LoadingCounted, FreeCounted, SwappingCounted
<1>4. CASE Swapping(Swapper)
  BY <1>4, SwappingCounted
<1>5. CASE Pooling
  BY <1>5, PoolingCounted
<1>6. CASE UNCHANGED vars
  <2>1. td' = td /\ tile' = tile /\ items' = items /\ at' = at
    BY <1>6 DEF vars
  <2>2. \A u \in Threads : SameClaim(at[u], at'[u])
    BY <2>1 DEF SameClaim
  <2>3. QED
    BY <2>1, <2>2, SameTiles, SameTileData, CountedKept
<1>7. QED
  BY <1>1, <1>2, <1>3, <1>4, <1>5, <1>6 DEF Next

\* The property follows, label by label.
LEMMA CountedImplies == Ordered /\ Counted => FreedWithTheLastUser
<1> SUFFICES ASSUME Ordered, Counted PROVE FreedWithTheLastUser
  OBVIOUS
<1>1. ASSUME NEW t \in Threads, NEW x \in TileData
      PROVE  busy(t, x) <=> at[t].td = x /\ at[t].pc \in {"free", "register"}
  <2>1. at[t] \in AgentRecord
    BY ThreadRecord
  <2>2. at[t].resume \in {"idle", "load", "copy"}
    BY <2>1 DEF AgentRecord
  <2>3. QED
    BY <2>2 DEF busy, frees, makes, where, SwapLabels
<1>2. ASSUME NEW x \in TileData
      PROVE  (\E t \in Threads : busy(t, x)) <=> beingFreed(x) \/ beingMade(x)
  BY <1>1 DEF beingFreed, beingMade
<1>3. QED
  BY <1>2 DEF Counted, FreedWithTheLastUser

\* The locks stay in order and the counters right.
LEMMA CountedKeptAlways == Spec => [](Ordered /\ Counted)
<1>1. Init => Ordered /\ Counted
  BY InitOrdered, InitCounted
<1>2. Ordered /\ Counted /\ [Next]_vars => (Ordered /\ Counted)'
  BY NextOrdered, NextCounted
<1>3. QED
  BY <1>1, <1>2, PTL DEF Spec

\* KisTileData::acquire() and release(): the counters of tile data are the numbers of its
\* users, data exists as long as there is one, and freeTileData() is entered by the thread
\* that took the last reference away and by no other.
THEOREM FreedRight == Spec => []FreedWithTheLastUser
<1>1. Ordered /\ Counted => FreedWithTheLastUser
  BY CountedImplies
<1>2. QED
  BY <1>1, CountedKeptAlways, PTL
-------------------------------------------------------------------------------
(***************************************************************************)
(* Where tile data is, and who has blocked it.                             *)
(***************************************************************************)
\* Every variable of the store keeps a type; how the counters are bounded
\* follows from what they count.
Object ==
    [exists : BOOLEAN, m_data : (SUBSET (1..MaxWrites)) \cup {NoData}, listed : BOOLEAN,
     m_usersCount : Int, m_refCount : Int, readers : Int, m_mementoFlag : Int,
     m_clonesStack : Seq(SUBSET (1..MaxWrites)), m_swapChunk : Nat \cup {NoChunk}]

ObjectsTyped ==
    /\ td \in [TileData -> Object]
    /\ preclone \in [data : (SUBSET (1..MaxWrites)) \cup {NoData}, left : Int]
    /\ at[Pooler].pc = "pushing" => preclone.data # NoData

\* The list of the store.
Listed ==
    /\ \A x \in TileData : td[x].listed => td[x].exists /\ ~beingMade(x)
    /\ at[Pooler].td # NoTileData => td[at[Pooler].td].listed

\* The read locks of tile data: one for each tile that is in use, one for each
\* time it is old, one for a thread that copies it or has made it, one for the
\* pooler.
inUse(y) == tile[y].m_lockCounter # 0 /\ tile[y].m_swapBarrierLock = NoOne
blocked(x) == {y \in Tiles : tile[y].m_tileData = x /\ inUse(y)}
blocking(x) == {t \in Threads : at[t].td = x /\ blocks(at[t])}

blockers(x) ==
    Cardinality(blocked(x)) + Cardinality(aging(x)) + Cardinality(blocking(x)) + bit(at[Pooler].td = x)

ReadersCounted == \A x \in TileData : td[x].readers = blockers(x)

\* Tile data that is blocked, in the making or in the list is in memory; what
\* is not in memory has a chunk.
InMemory ==
    \A x \in TileData :
        /\ td[x].readers # 0 => loaded(x)
        /\ beingMade(x) => loaded(x)
        /\ td[x].listed => loaded(x)
        /\ td[x].exists /\ loaded(x) => td[x].listed \/ beingMade(x)
        /\ td[x].exists => (loaded(x) <=> td[x].m_swapChunk = NoChunk)

\* What a thread has seen under the list lock stays true until it gives the
\* lock back.
Visited ==
    /\ \A a \in Agents : at[a].pc \in {"softPass", "hardPass"} =>
        \A x \in pass.candidates : x \in TileData /\ td[x].listed
    /\ \A t \in Threads : at[t].pc = "loadWrite" => ~loaded(at[t].loading)

\* Every tile data that is swapped out is all that is in its chunk.
cellsOf(c) == c.begin..c.end

inChunk(x, c) ==
    /\ c.begin = td[x].m_swapChunk
    /\ \E piece \in SUBSET (1..MaxWrites) : \A cell \in cellsOf(c) : swapFile[cell] = piece

Filed ==
    /\ AllocatorInv /\ m_storeSize >= 0 /\ m_storeSize <= MaxStoreSize
    /\ swapFile \in [0..(MaxStoreSize - 1) -> (SUBSET (1..MaxWrites)) \cup {NoData}]
    /\ \A x \in swappedOut : \E c \in ToSet(m_list) : inChunk(x, c)
    /\ \A c \in ToSet(m_list) : \E x \in swappedOut : inChunk(x, c)
    /\ \A x, y \in swappedOut : td[x].m_swapChunk = td[y].m_swapChunk => x = y
    /\ Len(m_list) = Cardinality(swappedOut)

Placed == ObjectsTyped /\ Listed /\ ReadersCounted /\ InMemory /\ Visited /\ Filed

-------------------------------------------------------------------------------
(***************************************************************************)
(* Counting the read locks.                                                *)
(***************************************************************************)

\* The blockers are finitely many.
LEMMA BlockersFinite ==
    ASSUME Ordered, NEW x
    PROVE  /\ IsFiniteSet(blocked(x)) /\ IsFiniteSet(aging(x)) /\ IsFiniteSet(blocking(x))
           /\ Cardinality(blocked(x)) \in Nat /\ Cardinality(aging(x)) \in Nat
           /\ Cardinality(blocking(x)) \in Nat
           /\ blockers(x) \in Nat
<1>1. IsFiniteSet(blocked(x)) /\ IsFiniteSet(blocking(x)) /\ IsFiniteSet(aging(x))
  BY StoreAssumption, FS_Subset, UsesFinite DEF blocked, blocking
<1>2. /\ Cardinality(blocked(x)) \in Nat /\ Cardinality(aging(x)) \in Nat
      /\ Cardinality(blocking(x)) \in Nat
  BY <1>1, FS_CardinalityType
<1>3. bit(at[Pooler].td = x) \in Nat
  BY DEF bit
<1>4. QED
  BY <1>1, <1>2, <1>3 DEF blockers

\* Nobody has blocked tile data without readers, and the other way round.
LEMMA BlockersKnown ==
    ASSUME Ordered, NEW x
    PROVE  blockers(x) = 0 <=> /\ blocked(x) = {} /\ aging(x) = {} /\ blocking(x) = {}
                               /\ at[Pooler].td # x
<1>1. /\ Cardinality(blocked(x)) = 0 <=> blocked(x) = {}
      /\ Cardinality(aging(x)) = 0 <=> aging(x) = {}
      /\ Cardinality(blocking(x)) = 0 <=> blocking(x) = {}
  BY BlockersFinite, FS_EmptySet
<1>2. PICK k \in Nat : k = Cardinality(blocked(x))
  BY BlockersFinite
<1>3. PICK l \in Nat : l = Cardinality(aging(x))
  BY BlockersFinite
<1>4. PICK m \in Nat : m = Cardinality(blocking(x))
  BY BlockersFinite
<1>5. PICK n \in Nat : n = bit(at[Pooler].td = x) /\ (n = 0 <=> at[Pooler].td # x)
  BY DEF bit
<1>6. blockers(x) = k + l + m + n
  BY <1>2, <1>3, <1>4, <1>5 DEF blockers
<1>7. k + l + m + n = 0 <=> k = 0 /\ l = 0 /\ m = 0 /\ n = 0
  OBVIOUS
<1>8. QED
  BY <1>1, <1>2, <1>3, <1>4, <1>5, <1>6, <1>7

\* One tile comes into use or goes out of use, or changes its data.
LEMMA BlockedMoves ==
    ASSUME Ordered, NEW y \in Tiles, NEW x,
           \A z \in Tiles : z # y => /\ tile'[z].m_tileData = tile[z].m_tileData
                                     /\ inUse(z)' = inUse(z)
    PROVE  Cardinality(blocked(x)') =
                Cardinality(blocked(x)) + (bit(tile'[y].m_tileData = x /\ inUse(y)')
                                            - bit(tile[y].m_tileData = x /\ inUse(y)))
<1>1. \A z : z # y => (z \in blocked(x) <=> z \in blocked(x)')
  BY DEF blocked
<1>2. /\ y \in blocked(x) <=> tile[y].m_tileData = x /\ inUse(y)
      /\ y \in blocked(x)' <=> tile'[y].m_tileData = x /\ inUse(y)'
  BY DEF blocked
<1>3. Cardinality(blocked(x)') = Cardinality(blocked(x)) + bit(y \in blocked(x)') - bit(y \in blocked(x))
  BY <1>1, BlockersFinite, OneMoves
<1>4. /\ bit(y \in blocked(x)) = bit(tile[y].m_tileData = x /\ inUse(y))
      /\ bit(y \in blocked(x)') = bit(tile'[y].m_tileData = x /\ inUse(y)')
  BY <1>2 DEF bit
<1>5. PICK m \in Nat : m = Cardinality(blocked(x))
  BY BlockersFinite
<1>6. /\ bit(tile[y].m_tileData = x /\ inUse(y)) \in {0, 1}
      /\ bit(tile'[y].m_tileData = x /\ inUse(y)') \in {0, 1}
  BY DEF bit
<1>7. QED
  BY <1>3, <1>4, <1>5, <1>6

\* The same tiles are in use.
LEMMA BlockedSame ==
    ASSUME Ordered, NEW x,
           \A z \in Tiles : /\ inUse(z) => tile'[z].m_tileData = tile[z].m_tileData
                            /\ inUse(z)' = inUse(z)
    PROVE  Cardinality(blocked(x)') = Cardinality(blocked(x)) + 0
<1>1. blocked(x)' = blocked(x)
  BY DEF blocked
<1>2. QED
  BY <1>1, BlockersFinite

\* One thread moves.
LEMMA BlockingMoves ==
    ASSUME Ordered, NEW t \in Threads, NEW s, Moves(t, s), NEW x
    PROVE  Cardinality(blocking(x)') =
                Cardinality(blocking(x)) + (bit(s.td = x /\ blocks(s)) - bit(at[t].td = x /\ blocks(at[t])))
<1>1. \A u \in Threads : u # t => at'[u] = at[u]
  BY DEF Moves, Agents
<1>2. \A u : u # t => (u \in blocking(x) <=> u \in blocking(x)')
  BY <1>1 DEF blocking
<1>3. Cardinality(blocking(x)') = Cardinality(blocking(x)) + bit(t \in blocking(x)') - bit(t \in blocking(x))
  BY <1>2, BlockersFinite, OneMoves
<1>4. /\ t \in blocking(x)' <=> s.td = x /\ blocks(s)
      /\ t \in blocking(x) <=> at[t].td = x /\ blocks(at[t])
  BY DEF Moves, blocking
<1>5. /\ bit(t \in blocking(x)') = bit(s.td = x /\ blocks(s))
      /\ bit(t \in blocking(x)) = bit(at[t].td = x /\ blocks(at[t]))
  BY <1>4 DEF bit
<1>6. PICK m \in Nat : m = Cardinality(blocking(x))
  BY BlockersFinite
<1>7. /\ bit(s.td = x /\ blocks(s)) \in {0, 1}
      /\ bit(at[t].td = x /\ blocks(at[t])) \in {0, 1}
  BY DEF bit
<1>8. QED
  BY <1>3, <1>5, <1>6, <1>7

\* The readers of tile data after the step of one thread.
LEMMA ReadersStep ==
    ASSUME Ordered, ReadersCounted, NEW x \in TileData, NEW t \in Threads, NEW s, Moves(t, s),
           NEW a \in Int, NEW b \in Int, NEW c \in Int,
           Cardinality(blocked(x)') = Cardinality(blocked(x)) + a,
           Cardinality(aging(x)') = Cardinality(aging(x)) + b,
           c = bit(s.td = x /\ blocks(s)) - bit(at[t].td = x /\ blocks(at[t])),
           td'[x].readers = td[x].readers + (a + b + c)
    PROVE  td'[x].readers = blockers(x)'
<1>1. PICK k \in Nat : k = Cardinality(blocked(x))
  BY BlockersFinite
<1>2. PICK l \in Nat : l = Cardinality(aging(x))
  BY BlockersFinite
<1>3. PICK m \in Nat : m = Cardinality(blocking(x))
  BY BlockersFinite
<1>4. PICK n \in Nat : n = bit(at[Pooler].td = x)
  BY DEF bit
<1>5. td[x].readers = k + l + m + n
  BY <1>1, <1>2, <1>3, <1>4 DEF ReadersCounted, blockers
<1>6. at'[Pooler] = at[Pooler]
  BY StoreAssumption DEF Moves, Agents
<1>7. Cardinality(blocking(x)') = m + c
  BY <1>3, BlockingMoves
<1>8. blockers(x)' = (k + a) + (l + b) + (m + c) + n
  BY <1>1, <1>2, <1>4, <1>6, <1>7 DEF blockers
<1>9. (k + a) + (l + b) + (m + c) + n = (k + l + m + n) + (a + b + c)
  OBVIOUS
<1>10. QED
  BY <1>5, <1>8, <1>9

\* A step of a thread that neither takes nor gives back a read lock.
LEMMA ReadersSame ==
    ASSUME Ordered, ReadersCounted, NEW t \in Threads, NEW s, Moves(t, s),
           \A x \in TileData : td'[x].readers = td[x].readers,
           \A z \in Tiles : /\ inUse(z) => tile'[z].m_tileData = tile[z].m_tileData
                            /\ tile'[z].m_oldTileData = tile[z].m_oldTileData
                            /\ inUse(z)' = inUse(z),
           blocks(s) <=> blocks(at[t]), blocks(s) => s.td = at[t].td
    PROVE  ReadersCounted'
<1> SUFFICES ASSUME NEW x \in TileData PROVE td'[x].readers = blockers(x)'
  BY DEF ReadersCounted
<1>1. Cardinality(blocked(x)') = Cardinality(blocked(x)) + 0
  BY BlockedSame
<1>2. Cardinality(aging(x)') = Cardinality(aging(x)) + 0
  BY OldSame
<1>3. bit(s.td = x /\ blocks(s)) - bit(at[t].td = x /\ blocks(at[t])) = 0
  <2>1. bit(s.td = x /\ blocks(s)) = bit(at[t].td = x /\ blocks(at[t]))
    BY DEF bit
  <2>2. bit(s.td = x /\ blocks(s)) \in {0, 1}
    BY DEF bit
  <2>3. QED
    BY <2>1, <2>2
<1>4. td'[x].readers = td[x].readers + (0 + 0 + 0)
  <2>1. td[x].readers \in Nat
    BY BlockersFinite DEF ReadersCounted
  <2>2. QED
    BY <2>1
<1>5. QED
  BY <1>1, <1>2, <1>3, <1>4, ReadersStep

-------------------------------------------------------------------------------
(***************************************************************************)
(* Steps after which tile data is where it was.                            *)
(***************************************************************************)
PlacesKept ==
    \A x \in TileData :
        /\ td'[x].exists = td[x].exists
        /\ td'[x].m_data = NoData <=> td[x].m_data = NoData
        /\ td'[x].listed = td[x].listed
        /\ td'[x].m_swapChunk = td[x].m_swapChunk

\* A step of a thread that moves no data, makes none and looks at none.
LEMMA PlacidStep ==
    ASSUME Ordered, Ordered', Placed, NEW t \in Threads, NEW s, Moves(t, s),
           at[t].pc # "register", s.pc # "register", s.pc \notin {"softPass", "hardPass"},
           s.pc = "loadWrite" => ~loaded(s.loading),
           PlacesKept, td' \in [TileData -> Object], ReadersCounted',
           \A x \in TileData : td'[x].readers # 0 => td[x].readers # 0 \/ loaded(x),
           UNCHANGED <<pass, preclone, swapVars>>
    PROVE  Placed'
<1>1. /\ at'[t] = s /\ \A a \in Agents : a # t => at'[a] = at[a]
      /\ at'[Pooler] = at[Pooler]
      /\ Threads \subseteq Agents /\ t \in Agents
  BY StoreAssumption DEF Moves, Agents
<1>2. \A x : beingMade(x)' <=> beingMade(x)
  BY <1>1 DEF beingMade
<1>3. \A x \in TileData : loaded(x)' <=> loaded(x)
  BY DEF PlacesKept, loaded
<1>4. ObjectsTyped'
  BY <1>1 DEF Placed, ObjectsTyped
<1>5. Listed'
  <2>1. at[Pooler].td # NoTileData => at[Pooler].td \in TileData /\ td[at[Pooler].td].listed
    <3>1. at[Pooler] \in AgentRecord
      BY DEF Ordered, Control, Agents
    <3>2. QED
      BY <3>1 DEF Placed, Listed, AgentRecord
  <2>2. QED
    BY <1>1, <1>2, <2>1 DEF Placed, Listed, PlacesKept
<1>6. InMemory'
  BY <1>2, <1>3 DEF Placed, InMemory, PlacesKept
<1>7. Visited'
  <2>1. \A u \in Threads : at'[u].pc = "loadWrite" => at'[u].loading \in TileData
    <3>1. \A u \in Threads : at'[u] \in AgentRecord /\ ThreadShape(at'[u])
      BY <1>1 DEF Ordered, Control
    <3>2. QED
      BY <3>1 DEF AgentRecord, ThreadShape, loads, where, SwapLabels, LoadLabels
  <2>2. QED
    BY <1>1, <1>3, <2>1 DEF Placed, Visited, PlacesKept
<1>8. Filed'
  <2>1. swappedOut' = swappedOut
    BY <1>3 DEF swappedOut, PlacesKept
  <2>2. \A x \in swappedOut : td'[x].m_swapChunk = td[x].m_swapChunk
    BY DEF swappedOut, PlacesKept
  <2>3. UNCHANGED <<swapFile, m_list, m_iterator, m_storeSize>>
    BY DEF swapVars, allocatorVars
  <2>4. \A x \in swappedOut : \A c : inChunk(x, c)' <=> inChunk(x, c)
    BY <2>2, <2>3 DEF inChunk, cellsOf
  <2>5. AllocatorInv'
    BY <2>3 DEF Placed, Filed, AllocatorInv, AllocatorTypeOK, SanityCheck
  <2>6. QED
    BY <2>1, <2>2, <2>3, <2>4, <2>5 DEF Placed, Filed
<1>9. QED
  BY <1>4, <1>5, <1>6, <1>7, <1>8 DEF Placed

\* One tile data changes and stays where it is.
LEMMA OneObject ==
    ASSUME td \in [TileData -> Object], NEW x \in TileData, NEW r \in Object,
           td' = [td EXCEPT ![x] = r],
           r.exists = td[x].exists, r.m_data = td[x].m_data, r.listed = td[x].listed,
           r.m_swapChunk = td[x].m_swapChunk
    PROVE  /\ PlacesKept /\ td' \in [TileData -> Object]
           /\ td'[x] = r /\ \A w \in TileData : w # x => td'[w] = td[w]
BY DEF PlacesKept

\* Objects that are not touched stay in their places.
LEMMA SameObjects ==
    ASSUME td \in [TileData -> Object], td' = td
    PROVE  /\ PlacesKept /\ td' \in [TileData -> Object]
           /\ \A w \in TileData : td'[w].readers = td[w].readers
BY DEF PlacesKept

\* A read lock more, or less.
LEMMA OneReader ==
    ASSUME td \in [TileData -> Object], NEW x \in TileData, NEW d \in {1, -1},
           td' = [td EXCEPT ![x].readers = @ + d]
    PROVE  /\ PlacesKept /\ td' \in [TileData -> Object]
           /\ \A w \in TileData : td'[w].readers = td[w].readers + (IF w = x THEN d ELSE 0)
<1>1. PICK r : r = [td[x] EXCEPT !.readers = @ + d]
  OBVIOUS
<1>2. td[x] \in Object
  OBVIOUS
<1>3. /\ r \in Object /\ r.exists = td[x].exists /\ r.m_data = td[x].m_data /\ r.listed = td[x].listed
      /\ r.m_swapChunk = td[x].m_swapChunk /\ r.readers = td[x].readers + d
  <2>1. td[x].readers + d \in Int
    BY <1>2 DEF Object
  <2>2. QED
    BY <1>1, <1>2, <2>1 DEF Object
<1>4. td' = [td EXCEPT ![x] = r]
  BY <1>1
<1>5. /\ PlacesKept /\ td' \in [TileData -> Object]
      /\ td'[x] = r /\ \A w \in TileData : w # x => td'[w] = td[w]
  BY <1>3, <1>4, OneObject
<1>6. \A w \in TileData : td[w].readers \in Int
  BY DEF Object
<1>7. QED
  BY <1>3, <1>5, <1>6

\* Who is inside a tile keeps it in use.
LEMMA UserBlocks ==
    ASSUME Ordered, NEW t \in Threads, at[t].tile # NoTile, ~releases(at[t]), ~locks(at[t])
    PROVE  /\ inUse(at[t].tile)
           /\ tile[at[t].tile].m_lockCounter \in Nat
           /\ users(at[t].tile) # {}
<1>1. PICK y \in Tiles : y = at[t].tile
  BY UsedTile
<1>2. TileLocked(y) /\ tile[y] \in KisTile
  BY DEF Ordered, TilesLocked
<1>3. t \in users(y)
  BY <1>1 DEF users, uses
<1>4. tile[y].m_lockCounter # 0 /\ tile[y].m_lockCounter \in Nat
  <2>1. Cardinality(users(y)) > 0 /\ Cardinality(users(y)) \in Nat
    BY <1>3, StoreAssumption, Counts DEF users
  <2>2. QED
    BY <1>2, <2>1 DEF TileLocked
<1>5. tile[y].m_swapBarrierLock = NoOne
  <2>1. SUFFICES ASSUME NEW u \in Threads, tile[y].m_swapBarrierLock = u PROVE FALSE
    BY <1>2 DEF KisTile
  <2>2. at[u].tile = y /\ (locks(at[u]) \/ releases(at[u]))
    BY <1>2, <2>1 DEF TileLocked
  <2>3. users(y) = {u} \/ users(y) = {}
    BY <1>2, <2>2 DEF TileLocked
  <2>4. users(y) = {u} => u = t
    BY <1>3
  <2>5. QED
    BY <1>2, <1>3, <2>2, <2>3, <2>4 DEF TileLocked
<1>6. QED
  BY <1>1, <1>3, <1>4, <1>5 DEF inUse

\* Tile data with a claim on its read lock is in memory.
LEMMA BlockedLoaded ==
    ASSUME Ordered, Placed, NEW x \in TileData,
           blocked(x) # {} \/ aging(x) # {} \/ blocking(x) # {} \/ at[Pooler].td = x
    PROVE  td[x].readers # 0 /\ loaded(x) /\ td[x].readers \in Nat
BY BlockersKnown, BlockersFinite DEF Placed, ReadersCounted, InMemory

-------------------------------------------------------------------------------
(***************************************************************************)
(* Loading.                                                                *)
(***************************************************************************)

\* ensureTileDataLoaded() looks for the data without the list lock, then with it.
LEMMA LookingPlaced ==
    ASSUME Ordered, Ordered', Placed, NEW t \in Threads, findSwappedOut(t) \/ lockList(t)
    PROVE  Placed'
<1>1. at[t] \in AgentRecord /\ ThreadShape(at[t]) /\ at[t].pc \in {"load", "loadList"} /\ at[t].resume = "idle"
  BY ThreadRecord DEF findSwappedOut, lockList, ThreadShape, SwapLabels
<1>2. PICK pc \in LoadLabels :
        /\ at' = [at EXCEPT ![t] = [at[t] EXCEPT !.pc = pc]]
        /\ pc = "loadWrite" => ~loaded(at[t].loading)
        /\ UNCHANGED <<td, tile, pass, preclone, swapVars>>
  BY DEF findSwappedOut, lockList, goto, LoadLabels
<1>3. PICK s : s = [at[t] EXCEPT !.pc = pc]
  OBVIOUS
<1>4. s.pc = pc /\ s.loading = at[t].loading /\ s.td = at[t].td
  BY <1>1, <1>3 DEF AgentRecord
<1>5. Moves(t, s)
  BY <1>2, <1>3, ThreadRecord DEF Moves
<1>6. ~blocks(s) /\ ~blocks(at[t])
  BY <1>1, <1>4 DEF blocks, where, SwapLabels, LoadLabels
<1>7. ReadersCounted'
  <2>1. \A z \in Tiles : inUse(z)' = inUse(z)
    BY <1>2 DEF inUse
  <2>2. QED
    BY <1>2, <1>5, <1>6, <2>1, ReadersSame DEF Placed
<1>8. PlacesKept /\ td' \in [TileData -> Object] /\ \A x \in TileData : td'[x].readers = td[x].readers
  BY <1>2, SameObjects DEF Placed, ObjectsTyped
<1>9. QED
  BY <1>1, <1>2, <1>4, <1>5, <1>7, <1>8, PlacidStep DEF LoadLabels

\* Data that is in memory is blocked by who has waited for it.
LEMMA LockLoadedPlaced ==
    ASSUME Ordered, Ordered', Placed, NEW t \in Threads, lockLoaded(t)
    PROVE  Placed'
<1>1. at[t] \in AgentRecord /\ ThreadShape(at[t]) /\ at[t].pc = "load"
  BY ThreadRecord DEF lockLoaded
<1>2. at[t].tile # NoTile /\ at[t].loading \in TileData /\ ~blocks(at[t])
  BY <1>1 DEF ThreadShape, AgentRecord, where, loads, frees, blocks, CopyLabels, LoadLabels, SwapLabels
<1>3. PICK y \in Tiles : y = at[t].tile
  BY <1>2, UsedTile
<1>4. PICK x \in TileData : x = at[t].loading
  BY <1>2
<1>5. PICK s : s = [at[t] EXCEPT !.pc = at[t].next, !.loading = NoTileData, !.next = "idle"]
  OBVIOUS
<1>6. /\ at' = [at EXCEPT ![t] = s] /\ loaded(x)
      /\ td' = [td EXCEPT ![x].readers = @ + 1]
      /\ tile' = [z \in Tiles |->
            [tile[z] EXCEPT !.m_swapBarrierLock = IF tile[z].m_swapBarrierLock = t THEN NoOne ELSE tile[z].m_swapBarrierLock]]
      /\ UNCHANGED <<pass, preclone, swapVars>>
  BY <1>1, <1>4, <1>5 DEF lockLoaded, releaseBarrier
<1>7. /\ where(s) = at[t].next /\ where(s) \in {"checkCOW", "reading", "install"}
      /\ s.td = at[t].td /\ ~releases(at[t])
      /\ locks(at[t]) <=> where(s) # "install"
      /\ s.pc = where(s)
  BY <1>1, <1>5, LoadedStep DEF AgentRecord
<1>8. Moves(t, s)
  BY <1>6, ThreadRecord DEF Moves
<1>9. /\ PlacesKept /\ td' \in [TileData -> Object]
      /\ \A w \in TileData : td'[w].readers = td[w].readers + (IF w = x THEN 1 ELSE 0)
  BY <1>6, OneReader DEF Placed, ObjectsTyped
<1>10. \A z \in Tiles : tile[z] \in KisTile /\ TileLocked(z)
  BY DEF Ordered, TilesLocked
<1>11. ASSUME NEW z \in Tiles
       PROVE  /\ tile'[z].m_tileData = tile[z].m_tileData
              /\ tile'[z].m_oldTileData = tile[z].m_oldTileData
              /\ tile'[z].m_lockCounter = tile[z].m_lockCounter
              /\ tile'[z].m_swapBarrierLock =
                    IF tile[z].m_swapBarrierLock = t THEN NoOne ELSE tile[z].m_swapBarrierLock
  BY <1>6, <1>10 DEF KisTile
<1>12. \A z \in Tiles : z # y => inUse(z)' = inUse(z)
  <2>1. \A z \in Tiles : z # y => tile[z].m_swapBarrierLock # t
    BY <1>3, <1>10 DEF TileLocked
  <2>2. QED
    BY <1>11, <2>1 DEF inUse
<1>13. \A w \in TileData : td[w].readers \in Int
  BY BlockersFinite DEF Placed, ReadersCounted
<1>14. ASSUME NEW w \in TileData PROVE td'[w].readers = blockers(w)'
  <2>1. Cardinality(aging(w)') = Cardinality(aging(w)) + 0
    BY <1>11, OldSame
  <2>2. CASE locks(at[t])
    <3>1. tile[y].m_tileData = x /\ tile[y].m_swapBarrierLock = t /\ users(y) = {t}
      <4>1. TileLocked(y) /\ TileShared(y)
        BY DEF Ordered, TilesLocked
      <4>2. QED
        BY <1>3, <1>4, <2>2, <4>1 DEF TileLocked, TileShared
    <3>2. tile[y].m_lockCounter # 0
      <4>1. tile[y].m_lockCounter = Cardinality({t})
        BY <1>10, <3>1 DEF TileLocked
      <4>2. Cardinality({t}) = 1
        BY FS_Singleton
      <4>3. QED
        BY <4>1, <4>2
    <3>3. inUse(y)' /\ ~inUse(y) /\ tile'[y].m_tileData = x
      BY <1>11, <3>1, <3>2, StoreAssumption DEF inUse
    <3>4. PICK a \in Int : /\ a = bit(tile'[y].m_tileData = w /\ inUse(y)')
                                    - bit(tile[y].m_tileData = w /\ inUse(y))
                           /\ a = IF w = x THEN 1 ELSE 0
      BY <3>3 DEF bit
    <3>5. Cardinality(blocked(w)') = Cardinality(blocked(w)) + a
      BY <1>11, <1>12, <3>4, BlockedMoves
    <3>6. 0 = bit(s.td = w /\ blocks(s)) - bit(at[t].td = w /\ blocks(at[t]))
      <4>1. ~blocks(s)
        BY <1>7, <2>2 DEF blocks
      <4>2. QED
        BY <1>2, <4>1 DEF bit
    <3>7. td'[w].readers = td[w].readers + (a + 0 + 0)
      BY <1>9, <1>13, <3>4
    <3>8. QED
      BY <1>8, <2>1, <3>5, <3>6, <3>7, ReadersStep DEF Placed
  <2>3. CASE ~locks(at[t])
    <3>1. tile[y].m_swapBarrierLock # t
      BY <1>3, <1>7, <1>10, <2>3 DEF TileLocked
    <3>2. inUse(y)' = inUse(y)
      BY <1>11, <3>1 DEF inUse
    <3>3. Cardinality(blocked(w)') = Cardinality(blocked(w)) + 0
      BY <1>11, <1>12, <3>2, BlockedSame
    <3>4. blocks(s) /\ s.td = x
      <4>1. at[t].loading = at[t].td
        BY <1>1, <1>7, <2>3 DEF ThreadShape, owns, loads, where, SwapLabels, LoadLabels
      <4>2. QED
        BY <1>4, <1>7, <2>3, <4>1 DEF blocks
    <3>5. PICK c \in Int : /\ c = bit(s.td = w /\ blocks(s)) - bit(at[t].td = w /\ blocks(at[t]))
                           /\ c = IF w = x THEN 1 ELSE 0
      BY <1>2, <3>4 DEF bit
    <3>6. td'[w].readers = td[w].readers + (0 + 0 + c)
      BY <1>9, <1>13, <3>5
    <3>7. QED
      BY <1>8, <2>1, <3>3, <3>5, <3>6, ReadersStep DEF Placed
  <2>4. QED
    BY <2>2, <2>3
<1>15. ReadersCounted'
  BY <1>14 DEF ReadersCounted
<1>16. \A w \in TileData : td'[w].readers # 0 => td[w].readers # 0 \/ loaded(w)
  BY <1>6, <1>9, <1>13
<1>17. QED
  BY <1>1, <1>6, <1>7, <1>8, <1>9, <1>15, <1>16, PlacidStep


-------------------------------------------------------------------------------
(***************************************************************************)
(* Copying on write.                                                       *)
(***************************************************************************)
\* One tile changes; the data of the others, and whether they are in use, stay.
LEMMA OneTile ==
    ASSUME Ordered, NEW y \in Tiles, NEW r, tile' = [tile EXCEPT ![y] = r]
    PROVE  /\ tile'[y] = r
           /\ \A z \in Tiles : z # y => /\ tile'[z] = tile[z]
                                        /\ inUse(z)' = inUse(z)
<1>1. tile'[y] = r /\ \A z \in Tiles : z # y => tile'[z] = tile[z]
  BY DEF Ordered, TilesLocked
<1>2. QED
  BY <1>1 DEF inUse

\* A look at the counters moves no data.
LEMMA COWMutexPlaced ==
    ASSUME Ordered, Ordered', Placed, NEW t \in Threads, checkLazyCopying(t) \/ lockCOW(t)
    PROVE  Placed'
<1>1. /\ at[t] \in AgentRecord /\ ThreadShape(at[t]) /\ at[t].pc \in {"checkCOW", "lockCOW"}
      /\ at \in [Agents -> AgentRecord] /\ t \in Agents
  BY ThreadRecord DEF checkLazyCopying, lockCOW
<1>2. at[t].tile # NoTile
  BY <1>1 DEF ThreadShape, where, frees, CopyLabels, SwapLabels
<1>3. PICK y \in Tiles : y = at[t].tile
  BY <1>2, UsedTile
<1>4. PICK x \in TileData : x = tile[y].m_tileData
  BY <1>2, <1>3, UsedTile
<1>5. PICK s : /\ at' = [at EXCEPT ![t] = s]
               /\ \/ s = [at[t] EXCEPT !.pc = "lockCOW"]
                  \/ s = [at[t] EXCEPT !.pc = "clone"]
                  \/ s = [at[t] EXCEPT !.pc = "writing", !.td = x]
  BY <1>3, <1>4 DEF checkLazyCopying, lockCOW, goto, startWriting
<1>6. s.pc \in {"lockCOW", "clone", "writing"}
  BY <1>1, <1>5 DEF AgentRecord
<1>7. Moves(t, s)
  BY <1>1, <1>5 DEF Moves
<1>8. ~blocks(s) /\ ~blocks(at[t])
  BY <1>1, <1>6 DEF blocks, where, SwapLabels
<1>9. ASSUME NEW z \in Tiles
      PROVE  /\ tile'[z].m_tileData = tile[z].m_tileData
             /\ tile'[z].m_oldTileData = tile[z].m_oldTileData
             /\ inUse(z)' = inUse(z)
  <2>1. tile' = tile \/ tile' = [tile EXCEPT ![y].m_COWMutex = t]
    BY <1>3 DEF checkLazyCopying, lockCOW
  <2>2. tile \in [Tiles -> KisTile]
    BY DEF Ordered, TilesLocked
  <2>3. /\ tile'[z].m_tileData = tile[z].m_tileData /\ tile'[z].m_oldTileData = tile[z].m_oldTileData
        /\ tile'[z].m_lockCounter = tile[z].m_lockCounter
        /\ tile'[z].m_swapBarrierLock = tile[z].m_swapBarrierLock
    <3>1. CASE tile' = tile
      BY <3>1
    <3>2. CASE tile' = [tile EXCEPT ![y].m_COWMutex = t]
      BY <2>2, <3>2 DEF KisTile
    <3>3. QED
      BY <2>1, <3>1, <3>2
  <2>4. QED
    BY <2>3 DEF inUse
<1>10. UNCHANGED <<td, pass, preclone, swapVars>>
  BY DEF checkLazyCopying, lockCOW
<1>11. /\ PlacesKept /\ td' \in [TileData -> Object]
       /\ \A w \in TileData : td'[w].readers = td[w].readers
  BY <1>10, SameObjects DEF Placed, ObjectsTyped
<1>12. ReadersCounted'
  BY <1>7, <1>8, <1>9, <1>11, ReadersSame DEF Placed
<1>13. QED
  BY <1>1, <1>6, <1>7, <1>10, <1>11, <1>12, PlacidStep

\* A thread takes the read lock of data that is in memory for itself.
LEMMA BlockingPlaced ==
    ASSUME Ordered, Ordered', Placed, NEW t \in Threads, NEW s, Moves(t, s),
           at[t].pc # "register", s.pc \notin {"register", "softPass", "hardPass", "loadWrite"},
           ~blocks(at[t]), blocks(s), s.td \in TileData, loaded(s.td),
           td' = [td EXCEPT ![s.td].readers = @ + 1],
           UNCHANGED <<tile, pass, preclone, swapVars>>
    PROVE  Placed'
<1>1. PICK x \in TileData : x = s.td
  OBVIOUS
<1>2. /\ PlacesKept /\ td' \in [TileData -> Object]
      /\ \A w \in TileData : td'[w].readers = td[w].readers + (IF w = x THEN 1 ELSE 0)
  BY <1>1, OneReader DEF Placed, ObjectsTyped
<1>3. \A w \in TileData : td[w].readers \in Int
  BY BlockersFinite DEF Placed, ReadersCounted
<1>4. ASSUME NEW w \in TileData PROVE td'[w].readers = blockers(w)'
  <2>1. Cardinality(aging(w)') = Cardinality(aging(w)) + 0
    BY OldSame
  <2>2. Cardinality(blocked(w)') = Cardinality(blocked(w)) + 0
    BY BlockedSame DEF inUse
  <2>3. PICK c \in Int : /\ c = bit(s.td = w /\ blocks(s)) - bit(at[t].td = w /\ blocks(at[t]))
                         /\ c = IF w = x THEN 1 ELSE 0
    BY <1>1 DEF bit
  <2>4. td'[w].readers = td[w].readers + (0 + 0 + c)
    BY <1>2, <1>3, <2>3
  <2>5. QED
    BY <2>1, <2>2, <2>3, <2>4, ReadersStep DEF Placed
<1>5. ReadersCounted'
  BY <1>4 DEF ReadersCounted
<1>6. \A w \in TileData : td'[w].readers # 0 => td[w].readers # 0 \/ loaded(w)
  BY <1>1, <1>2, <1>3
<1>7. QED
  BY <1>2, <1>5, <1>6, PlacidStep

\* The data to be copied is blocked once more.
LEMMA MissClonePlaced ==
    ASSUME Ordered, Ordered', Placed, NEW t \in Threads, missClone(t)
    PROVE  Placed'
<1>1. /\ at[t] \in AgentRecord /\ ThreadShape(at[t]) /\ at[t].pc = "clone"
      /\ at \in [Agents -> AgentRecord] /\ t \in Agents
  BY ThreadRecord DEF missClone
<1>2. at[t].tile # NoTile /\ ~releases(at[t]) /\ ~locks(at[t]) /\ ~blocks(at[t]) /\ at[t].resume = "idle"
  BY <1>1 DEF ThreadShape, where, frees, releases, locks, loads, blocks, CopyLabels, SwapLabels, LoadLabels
<1>3. PICK y \in Tiles : y = at[t].tile
  BY <1>2, UsedTile
<1>4. PICK x \in TileData : x = tile[y].m_tileData
  BY <1>2, <1>3, UsedTile
<1>5. PICK there : there = [at[t] EXCEPT !.td = x]
  OBVIOUS
<1>6. PICK s : s = checkFreeMemory(there, "copy")
  OBVIOUS
<1>7. at' = [at EXCEPT ![t] = s] /\ td' = [td EXCEPT ![x].readers = @ + 1]
  BY <1>3, <1>4, <1>5, <1>6 DEF missClone
<1>8. there \in AgentRecord /\ there.resume = "idle" /\ there.td = x
  BY <1>1, <1>2, <1>5 DEF AgentRecord
<1>9. s \in AgentRecord /\ Detour(s, there, "copy")
  BY <1>6, <1>8, MemoryDetour
<1>10. s.pc \in {"cycle", "copy"} /\ s.td = x /\ blocks(s)
  BY <1>8, <1>9 DEF Detour, AgentRecord, blocks, where, SwapLabels
<1>11. Moves(t, s)
  BY <1>1, <1>7 DEF Moves
<1>12. loaded(x)
  <2>1. y \in blocked(x)
    BY <1>2, <1>3, <1>4, UserBlocks DEF blocked
  <2>2. QED
    BY <2>1, BlockedLoaded
<1>13. UNCHANGED <<tile, pass, preclone, swapVars>>
  BY DEF missClone
<1>14. QED
  BY <1>1, <1>2, <1>7, <1>10, <1>11, <1>12, <1>13, BlockingPlaced

\* The copy is blocked if the swapper has not been faster.
LEMMA BlockNewPlaced ==
    ASSUME Ordered, Ordered', Placed, NEW t \in Threads, blockNewTileData(t)
    PROVE  Placed'
<1>1. /\ at[t] \in AgentRecord /\ ThreadShape(at[t]) /\ at[t].pc = "blockNew"
      /\ at \in [Agents -> AgentRecord] /\ t \in Agents
  BY ThreadRecord DEF blockNewTileData
<1>2. at[t].td \in TileData /\ ~blocks(at[t]) /\ at[t].resume = "idle"
  BY <1>1 DEF ThreadShape, AgentRecord, where, copies, blocks, CopyLabels, SwapLabels
<1>3. PICK x \in TileData : x = at[t].td
  BY <1>2
<1>4. PICK there : there = [at[t] EXCEPT !.pc = "install"]
  OBVIOUS
<1>5. PICK waiting : waiting = [there EXCEPT !.loading = x, !.next = "install"]
  OBVIOUS
<1>6. there.pc = "install" /\ there.td = x /\ there \in AgentRecord
  BY <1>1, <1>3, <1>4 DEF AgentRecord, ThreadLabels, CopyLabels
<1>7. waiting \in AgentRecord /\ waiting.resume = "idle"
  BY <1>1, <1>2, <1>4, <1>5, <1>6 DEF AgentRecord
<1>8. UNCHANGED <<tile, pass, preclone, swapVars>>
  BY DEF blockNewTileData
<1>9. CASE /\ loaded(x) /\ td' = [td EXCEPT ![x].readers = @ + 1]
           /\ at' = [at EXCEPT ![t] = there]
  <2>1. Moves(t, there)
    BY <1>1, <1>9 DEF Moves
  <2>2. blocks(there)
    BY <1>6 DEF blocks, where, SwapLabels
  <2>3. QED
    BY <1>1, <1>2, <1>6, <1>8, <1>9, <2>1, <2>2, BlockingPlaced
<1>10. CASE /\ td' = td
            /\ at' = [at EXCEPT ![t] = checkFreeMemory(waiting, "load")]
  <2>1. PICK s : s = checkFreeMemory(waiting, "load")
    OBVIOUS
  <2>2. s \in AgentRecord /\ Detour(s, waiting, "load")
    BY <1>7, <2>1, MemoryDetour
  <2>3. s.pc \in {"cycle", "load"} /\ ~blocks(s)
    BY <1>7, <2>2 DEF Detour, AgentRecord, blocks, where, SwapLabels
  <2>4. Moves(t, s)
    BY <1>1, <1>10, <2>1 DEF Moves
  <2>5. /\ PlacesKept /\ td' \in [TileData -> Object]
        /\ \A w \in TileData : td'[w].readers = td[w].readers
    BY <1>10, SameObjects DEF Placed, ObjectsTyped
  <2>6. ReadersCounted'
    <3>1. \A z \in Tiles : inUse(z)' = inUse(z)
      BY <1>8 DEF inUse
    <3>2. QED
      BY <1>2, <1>8, <2>3, <2>4, <2>5, <3>1, ReadersSame DEF Placed
  <2>7. QED
    BY <1>1, <1>8, <2>3, <2>4, <2>5, <2>6, PlacidStep
<1>11. QED
  <2>1. blockSwapping(t, x, there)
    BY <1>1, <1>3, <1>4 DEF blockNewTileData
  <2>2. there.pc = "install"
    BY <1>6
  <2>3. QED
    BY <1>5, <1>9, <1>10, <2>1, <2>2 DEF blockSwapping

-------------------------------------------------------------------------------
(***************************************************************************)
(* Users of tile data come and go.                                         *)
(***************************************************************************)
Unmoved(objects) ==
    /\ objects \in [TileData -> Object]
    /\ \A x \in TileData :
        /\ objects[x].exists = td[x].exists
        /\ objects[x].m_data = td[x].m_data
        /\ objects[x].listed = td[x].listed
        /\ objects[x].m_swapChunk = td[x].m_swapChunk

\* One more object changes and stays where it is.
LEMMA UnmovedObject ==
    ASSUME NEW objects, Unmoved(objects), NEW x \in TileData, NEW r \in Object,
           r.exists = objects[x].exists, r.m_data = objects[x].m_data,
           r.listed = objects[x].listed, r.m_swapChunk = objects[x].m_swapChunk,
           NEW changed, changed \in [TileData -> Object], changed[x] = r,
           \A w \in TileData : w # x => changed[w] = objects[w]
    PROVE  Unmoved(changed)
BY DEF Unmoved

\* Nothing has moved yet.
LEMMA UnmovedTileData ==
    ASSUME Placed
    PROVE  Unmoved(td)
BY DEF Placed, ObjectsTyped, Unmoved

\* acquire() leaves tile data where it is.
LEMMA AcquiredFields ==
    ASSUME NEW objects \in [TileData -> Object], NEW x \in TileData,
           NEW changed, changed = acquired(objects, x)
    PROVE  /\ changed \in [TileData -> Object]
           /\ \A w \in TileData :
                /\ changed[w].exists = objects[w].exists
                /\ changed[w].m_data = objects[w].m_data
                /\ changed[w].listed = objects[w].listed
                /\ changed[w].m_swapChunk = objects[w].m_swapChunk
                /\ changed[w].readers = objects[w].readers
<1>1. PICK clones : clones = IF objects[x].m_usersCount = 1 THEN <<>> ELSE objects[x].m_clonesStack
  OBVIOUS
<1>2. objects[x] \in Object
  OBVIOUS
<1>3. clones \in Seq(SUBSET (1..MaxWrites)) /\ objects[x].m_usersCount + 1 \in Int
      /\ objects[x].m_refCount + 1 \in Int
  BY <1>1, <1>2 DEF Object
<1>4. PICK r : r = [objects[x] EXCEPT !.m_usersCount = @ + 1, !.m_refCount = @ + 1, !.m_clonesStack = clones]
  OBVIOUS
<1>5. /\ r \in Object /\ r.exists = objects[x].exists /\ r.m_data = objects[x].m_data
      /\ r.listed = objects[x].listed /\ r.m_swapChunk = objects[x].m_swapChunk
      /\ r.readers = objects[x].readers
  BY <1>2, <1>3, <1>4 DEF Object
<1>6. changed = [objects EXCEPT ![x] = r]
  <2>1. changed = [objects EXCEPT ![x].m_usersCount = @ + 1, ![x].m_refCount = @ + 1,
                                  ![x].m_clonesStack = clones]
    <3>1. changed = [objects EXCEPT ![x].m_usersCount = @ + 1, ![x].m_refCount = @ + 1,
                ![x].m_clonesStack = IF objects[x].m_usersCount = 1 THEN <<>> ELSE @]
      BY DEF acquired
    <3>2. QED
      BY <1>1, <1>2, <3>1
  <2>2. QED
    BY <1>2, <1>4, <2>1
<1>7. /\ changed \in [TileData -> Object] /\ changed[x] = r
      /\ \A w \in TileData : w # x => changed[w] = objects[w]
  BY <1>2, <1>5, <1>6
<1>8. QED
  BY <1>5, <1>7

\* acquire() moves no data ...
LEMMA AcquiredObject ==
    ASSUME NEW objects, Unmoved(objects), NEW x \in TileData, NEW changed, changed = acquired(objects, x)
    PROVE  /\ Unmoved(changed)
           /\ \A w \in TileData : changed[w].readers = objects[w].readers
BY AcquiredFields DEF Unmoved

\* ... nor does release().
LEMMA ReleasedObject ==
    ASSUME NEW objects, Unmoved(objects), NEW x \in TileData, NEW changed, changed = released(objects, x)
    PROVE  /\ Unmoved(changed)
           /\ \A w \in TileData : changed[w].readers = objects[w].readers
<1>1. objects[x] \in Object /\ objects \in [TileData -> Object]
  BY DEF Unmoved
<1>2. objects[x].m_usersCount - 1 \in Int /\ objects[x].m_refCount - 1 \in Int
  BY <1>1 DEF Object
<1>3. PICK r : r = [objects[x] EXCEPT !.m_usersCount = @ - 1, !.m_refCount = @ - 1]
  OBVIOUS
<1>4. /\ r \in Object /\ r.exists = objects[x].exists /\ r.m_data = objects[x].m_data
      /\ r.listed = objects[x].listed /\ r.m_swapChunk = objects[x].m_swapChunk
      /\ r.readers = objects[x].readers
  BY <1>1, <1>2, <1>3 DEF Object
<1>5. changed = [objects EXCEPT ![x] = r]
  BY <1>1, <1>3 DEF released
<1>6. /\ changed \in [TileData -> Object] /\ changed[x] = r
      /\ \A w \in TileData : w # x => changed[w] = objects[w]
  BY <1>1, <1>4, <1>5
<1>7. QED
  BY <1>4, <1>6, UnmovedObject

\* The agent after release() of tile data.
LEMMA AfterRelease ==
    ASSUME NEW x \in TileData, NEW y, NEW next \in {"idle", "releaseOld"},
           NEW s, s = afterRelease(x, next) \/ s = [afterRelease(x, next) EXCEPT !.tile = y]
    PROVE  s.pc \in {"free", "idle", "releaseOld"} /\ ~blocks(s)
<1>1. PICK r : r = afterRelease(x, next)
  OBVIOUS
<1>2. r \in AgentRecord /\ r.pc \in {"free", "idle", "releaseOld"}
  BY <1>1 DEF afterRelease, Idle, AgentRecord, ThreadLabels
<1>3. s.pc = r.pc
  BY <1>1, <1>2 DEF AgentRecord
<1>4. QED
  BY <1>2, <1>3 DEF blocks, where, SwapLabels

\* A step that changes who uses tile data, and no read lock.
LEMMA UsersPlaced ==
    ASSUME Ordered, Ordered', Placed, NEW t \in Threads, NEW s, Moves(t, s),
           at[t].pc \in {"idle", "reading", "releaseOld"},
           s.pc \in {"idle", "reading", "free", "releaseOld"},
           ~blocks(s), Unmoved(td'),
           \A x \in TileData : td'[x].readers = td[x].readers,
           \A z \in Tiles : /\ inUse(z) => tile'[z].m_tileData = tile[z].m_tileData
                            /\ tile'[z].m_oldTileData = tile[z].m_oldTileData
                            /\ inUse(z)' = inUse(z),
           UNCHANGED <<pass, preclone, swapVars>>
    PROVE  Placed'
<1>1. ~blocks(at[t])
  BY DEF blocks, where, SwapLabels
<1>2. ReadersCounted'
  BY <1>1, ReadersSame DEF Placed
<1>3. PlacesKept /\ td' \in [TileData -> Object]
  BY DEF Unmoved, PlacesKept
<1>4. QED
  BY <1>2, <1>3, PlacidStep

\* A copied tile is not in use.
LEMMA CopyTilePlaced ==
    ASSUME Ordered, Ordered', Placed, NEW t \in Threads, NEW y \in Copies, copyTile(t, y)
    PROVE  Placed'
<1>1. y \in Tiles /\ tile \in [Tiles -> KisTile] /\ TileShared(y)
  BY StoreAssumption DEF Ordered, TilesLocked
<1>2. at[t] \in AgentRecord /\ ThreadShape(at[t]) /\ at[t].pc = "reading"
  BY ThreadRecord DEF copyTile
<1>3. at[t].tile # NoTile /\ ~blocks(at[t])
  BY <1>2 DEF ThreadShape, frees, where, blocks, SwapLabels
<1>4. PICK z \in Tiles : z = at[t].tile
  BY <1>3, UsedTile
<1>5. PICK x \in TileData : x = tile[z].m_tileData
  BY <1>3, <1>4, UsedTile
<1>6. PICK expected : expected = tile[z].expected
  OBVIOUS
<1>7. /\ tile[y].m_tileData = NoTileData
      /\ tile' = [tile EXCEPT ![y] = NewTile(x, expected)]
      /\ td' = acquired(td, x) /\ at' = at
      /\ UNCHANGED <<pass, preclone, swapVars>>
  BY <1>4, <1>5, <1>6 DEF copyTile
<1>8. tile[y] = NewTile(NoTileData, {})
  BY <1>1, <1>7 DEF TileShared
<1>9. ASSUME NEW w \in Tiles
      PROVE  /\ inUse(w) => tile'[w].m_tileData = tile[w].m_tileData
             /\ tile'[w].m_oldTileData = tile[w].m_oldTileData
             /\ inUse(w)' = inUse(w)
  <2>1. CASE w = y
    <3>1. tile'[y] = NewTile(x, expected)
      BY <1>1, <1>7
    <3>2. tile'[y].m_lockCounter = 0 /\ tile'[y].m_oldTileData = <<>>
      BY <3>1 DEF NewTile
    <3>3. tile[y].m_lockCounter = 0 /\ tile[y].m_oldTileData = <<>>
      BY <1>8 DEF NewTile
    <3>4. inUse(y) = FALSE /\ inUse(y)' = FALSE
      BY <3>2, <3>3 DEF inUse
    <3>5. QED
      BY <2>1, <3>2, <3>3, <3>4
  <2>2. CASE w # y
    <3>1. tile'[w] = tile[w]
      BY <1>1, <1>7, <2>2
    <3>2. QED
      BY <3>1 DEF inUse
  <2>3. QED
    BY <2>1, <2>2
<1>10. Unmoved(td') /\ \A w \in TileData : td'[w].readers = td[w].readers
  BY <1>7, UnmovedTileData, AcquiredObject
<1>11. Moves(t, at[t])
  BY <1>7 DEF Moves
<1>12. QED
  BY <1>2, <1>3, <1>7, <1>9, <1>10, <1>11, UsersPlaced

\* A dropped tile is not in use.
LEMMA DropTilePlaced ==
    ASSUME Ordered, Ordered', Placed, NEW t \in Threads, NEW y \in Copies, dropTile(t, y)
    PROVE  Placed'
<1>1. /\ y \in Tiles /\ tile \in [Tiles -> KisTile] /\ tile[y] \in KisTile /\ TileLocked(y) /\ TileShared(y)
  BY StoreAssumption DEF Ordered, TilesLocked
<1>2. PICK x : x = tile[y].m_tileData
  OBVIOUS
<1>3. PICK s : s = afterRelease(x, "idle")
  OBVIOUS
<1>4. /\ x # NoTileData /\ {u \in Threads : at[u].tile = y} = {} /\ at[t].pc = "idle"
      /\ tile' = [tile EXCEPT ![y] = NewTile(NoTileData, {})]
      /\ td' = released(td, x)
      /\ at' = [at EXCEPT ![t] = s]
      /\ UNCHANGED <<pass, preclone, swapVars>>
  BY <1>2, <1>3 DEF dropTile
<1>5. x \in TileData
  BY <1>1, <1>2, <1>4 DEF KisTile
<1>6. Moves(t, s)
  BY <1>4, ThreadRecord DEF Moves
<1>7. s.pc \in {"free", "idle", "releaseOld"} /\ ~blocks(s)
  BY <1>3, <1>5, AfterRelease
<1>8. tile[y].m_lockCounter = 0 /\ tile[y].m_oldTileData = <<>>
  <2>1. users(y) = {} /\ tile[y].m_swapBarrierLock = NoOne /\ tile[y].m_lockCounter = 0
    BY <1>1, <1>4, UnusedTile
  <2>2. QED
    BY <1>1, <2>1 DEF TileShared
<1>9. ASSUME NEW w \in Tiles
      PROVE  /\ inUse(w) => tile'[w].m_tileData = tile[w].m_tileData
             /\ tile'[w].m_oldTileData = tile[w].m_oldTileData
             /\ inUse(w)' = inUse(w)
  <2>1. CASE w = y
    <3>1. tile'[y] = NewTile(NoTileData, {})
      BY <1>1, <1>4
    <3>2. tile'[y].m_lockCounter = 0 /\ tile'[y].m_oldTileData = <<>>
      BY <3>1 DEF NewTile
    <3>3. tile[y].m_lockCounter = 0 /\ tile[y].m_oldTileData = <<>>
      BY <1>8 DEF NewTile
    <3>4. inUse(y) = FALSE /\ inUse(y)' = FALSE
      BY <3>2, <3>3 DEF inUse
    <3>5. QED
      BY <2>1, <3>2, <3>3, <3>4
  <2>2. CASE w # y
    <3>1. tile'[w] = tile[w]
      BY <1>1, <1>4, <2>2
    <3>2. QED
      BY <3>1 DEF inUse
  <2>3. QED
    BY <2>1, <2>2
<1>10. Unmoved(td') /\ \A w \in TileData : td'[w].readers = td[w].readers
  BY <1>4, <1>5, UnmovedTileData, ReleasedObject
<1>11. QED
  BY <1>4, <1>6, <1>7, <1>9, <1>10, UsersPlaced

\* A memento item blocks nothing.
LEMMA CommitPlaced ==
    ASSUME Ordered, Ordered', Placed, NEW t \in Threads, NEW y \in Tiles, commit(t, y)
    PROVE  Placed'
<1>1. tile[y] \in KisTile /\ tile \in [Tiles -> KisTile] /\ at[t].pc = "idle" /\ ~blocks(at[t])
  BY DEF commit, Ordered, TilesLocked, blocks, where, SwapLabels
<1>2. PICK x : x = tile[y].indexed
  OBVIOUS
<1>3. PICK taken : taken = acquired(td, x)
  OBVIOUS
<1>4. /\ x # NoTileData
      /\ td' = [taken EXCEPT ![x].m_refCount = @ - 1, ![x].m_mementoFlag = @ + 1]
      /\ tile' = [tile EXCEPT ![y] = [tile[y] EXCEPT !.indexed = NoTileData]]
      /\ at' = at
      /\ UNCHANGED <<pass, preclone, swapVars>>
  BY <1>2, <1>3 DEF commit
<1>5. x \in TileData
  BY <1>1, <1>2, <1>4 DEF KisTile
<1>6. Unmoved(taken) /\ \A w \in TileData : taken[w].readers = td[w].readers
  BY <1>3, <1>5, UnmovedTileData, AcquiredObject
<1>7. PICK r : r = [taken[x] EXCEPT !.m_refCount = @ - 1, !.m_mementoFlag = @ + 1]
  OBVIOUS
<1>8. /\ r \in Object /\ r.exists = taken[x].exists /\ r.m_data = taken[x].m_data
      /\ r.listed = taken[x].listed /\ r.m_swapChunk = taken[x].m_swapChunk
      /\ r.readers = taken[x].readers
  <2>1. taken[x] \in Object
    BY <1>5, <1>6 DEF Unmoved
  <2>2. taken[x].m_refCount - 1 \in Int /\ taken[x].m_mementoFlag + 1 \in Int
    BY <2>1 DEF Object
  <2>3. QED
    BY <1>7, <2>1, <2>2 DEF Object
<1>9. td' = [taken EXCEPT ![x] = r]
  BY <1>4, <1>5, <1>6, <1>7 DEF Unmoved
<1>10. Unmoved(td') /\ \A w \in TileData : td'[w].readers = td[w].readers
  <2>1. /\ td' \in [TileData -> Object] /\ td'[x] = r
        /\ \A w \in TileData : w # x => td'[w] = taken[w]
    BY <1>5, <1>6, <1>8, <1>9 DEF Unmoved
  <2>2. Unmoved(td')
    BY <1>5, <1>6, <1>8, <2>1, UnmovedObject
  <2>3. QED
    BY <1>6, <1>8, <2>1, <2>2
<1>11. ASSUME NEW w \in Tiles
       PROVE  /\ tile'[w].m_tileData = tile[w].m_tileData
              /\ tile'[w].m_oldTileData = tile[w].m_oldTileData
              /\ inUse(w)' = inUse(w)
  <2>1. /\ tile'[w].m_tileData = tile[w].m_tileData /\ tile'[w].m_oldTileData = tile[w].m_oldTileData
        /\ tile'[w].m_lockCounter = tile[w].m_lockCounter
        /\ tile'[w].m_swapBarrierLock = tile[w].m_swapBarrierLock
    BY <1>1, <1>4 DEF KisTile
  <2>2. QED
    BY <2>1 DEF inUse
<1>12. Moves(t, at[t])
  BY <1>4 DEF Moves
<1>13. QED
  BY <1>1, <1>4, <1>10, <1>11, <1>12, UsersPlaced

\* A purged memento item has blocked nothing.
LEMMA PurgePlaced ==
    ASSUME Ordered, Ordered', Placed, NEW t \in Threads, purge(t)
    PROVE  Placed'
<1>1. PICK x : x = Head(items).td
  OBVIOUS
<1>2. PICK s : s = afterRelease(x, "idle")
  OBVIOUS
<1>3. PICK r : r = [td[x] EXCEPT !.m_mementoFlag = @ - 1]
  OBVIOUS
<1>4. PICK objects : objects = [td EXCEPT ![x] = r]
  OBVIOUS
<1>5. /\ items # <<>> /\ at[t].pc = "idle"
      /\ td' = released(objects, x)
      /\ at' = [at EXCEPT ![t] = s]
      /\ UNCHANGED <<tile, pass, preclone, swapVars>>
  BY <1>1, <1>2, <1>3, <1>4 DEF purge
<1>6. x \in TileData
  <2>1. PICK Item : Item = [td : TileData, expected : SUBSET (1..MaxWrites)]
    OBVIOUS
  <2>2. items \in Seq(Item)
    BY <2>1 DEF Ordered, ItemsTyped
  <2>3. Head(items) \in Item
    BY <1>5, <2>2, Tails
  <2>4. QED
    BY <1>1, <2>1, <2>3
<1>7. Moves(t, s)
  BY <1>5, ThreadRecord DEF Moves
<1>8. s.pc \in {"free", "idle", "releaseOld"} /\ ~blocks(s)
  BY <1>2, <1>6, AfterRelease
<1>9. /\ r \in Object /\ r.exists = td[x].exists /\ r.m_data = td[x].m_data
      /\ r.listed = td[x].listed /\ r.m_swapChunk = td[x].m_swapChunk
      /\ r.readers = td[x].readers
  <2>1. td[x] \in Object
    BY <1>6 DEF Placed, ObjectsTyped
  <2>2. td[x].m_mementoFlag - 1 \in Int
    BY <2>1 DEF Object
  <2>3. QED
    BY <1>3, <2>1, <2>2 DEF Object
<1>10. Unmoved(objects) /\ \A w \in TileData : objects[w].readers = td[w].readers
  <2>1. /\ objects \in [TileData -> Object] /\ objects[x] = r
        /\ \A w \in TileData : w # x => objects[w] = td[w]
    BY <1>4, <1>6, <1>9 DEF Placed, ObjectsTyped
  <2>2. Unmoved(objects)
    BY <1>6, <1>9, <2>1, UnmovedTileData, UnmovedObject
  <2>3. QED
    BY <1>9, <2>1, <2>2
<1>11. Unmoved(td') /\ \A w \in TileData : td'[w].readers = td[w].readers
  BY <1>5, <1>6, <1>10, ReleasedObject
<1>12. \A w \in Tiles : inUse(w)' = inUse(w)
  BY <1>5 DEF inUse
<1>13. QED
  BY <1>5, <1>7, <1>8, <1>11, <1>12, UsersPlaced

-------------------------------------------------------------------------------
(***************************************************************************)
(* Tiles come into use and go out of use.                                  *)
(***************************************************************************)

\* The first user of a tile blocks its data, or waits for it to be loaded.
LEMMA LockTilePlaced ==
    ASSUME Ordered, Ordered', Placed, NEW t \in Threads, NEW y \in Tiles, NEW write \in BOOLEAN,
           lockTile(t, y, write)
    PROVE  Placed'
<1>1. /\ at[t] \in AgentRecord /\ ThreadShape(at[t]) /\ t \in Agents /\ at[t].pc = "idle"
      /\ tile \in [Tiles -> KisTile] /\ tile[y] \in KisTile /\ ~blocks(at[t])
  BY ThreadRecord DEF Ordered, TilesLocked, lockTile, blocks, where, SwapLabels
<1>2. tile[y].m_tileData # NoTileData /\ tile[y].m_swapBarrierLock = NoOne
  BY DEF lockTile
<1>3. PICK x \in TileData : x = tile[y].m_tileData
  BY <1>1, <1>2 DEF KisTile
<1>4. PICK waits \in BOOLEAN : waits <=> tile[y].m_lockCounter = 0 /\ ~loaded(x)
  OBVIOUS
<1>5. PICK s : s = IF waits THEN waitingFor(y, write, x) ELSE entering(y, write)
  OBVIOUS
<1>6. PICK r : r = [tile[y] EXCEPT !.m_lockCounter = @ + 1, !.m_swapBarrierLock = IF waits THEN t ELSE @]
  OBVIOUS
<1>7. /\ at' = [at EXCEPT ![t] = s]
      /\ tile' = [tile EXCEPT ![y] = r]
      /\ tile[y].m_lockCounter = 0 /\ loaded(x) => td' = [td EXCEPT ![x].readers = @ + 1]
      /\ tile[y].m_lockCounter # 0 \/ ~loaded(x) => td' = td
      /\ UNCHANGED <<pass, preclone, swapVars>>
  <2>1. /\ tile' = [tile EXCEPT ![y].m_lockCounter = @ + 1, ![y].m_swapBarrierLock = IF waits THEN t ELSE @]
        /\ IF tile[y].m_lockCounter = 0
           THEN blockSwapping(t, x, entering(y, write))
           ELSE at' = [at EXCEPT ![t] = entering(y, write)] /\ UNCHANGED td
        /\ UNCHANGED <<pass, preclone, swapVars>>
    BY <1>3, <1>4 DEF lockTile, entering
  <2>2. tile' = [tile EXCEPT ![y] = r]
    BY <1>1, <1>6, <2>1
  <2>3. CASE waits
    BY <1>4, <1>5, <2>1, <2>2, <2>3 DEF blockSwapping, waitingFor
  <2>4. CASE ~waits /\ tile[y].m_lockCounter = 0
    BY <1>4, <1>5, <2>1, <2>2, <2>4 DEF blockSwapping
  <2>5. CASE ~waits /\ tile[y].m_lockCounter # 0
    BY <1>4, <1>5, <2>1, <2>2, <2>5
  <2>6. QED
    BY <2>3, <2>4, <2>5
<1>8. Entered(s, y, write)
  BY <1>3, <1>5, EnteredStep
<1>9. Moves(t, s)
  BY <1>7, ThreadRecord DEF Moves
<1>10. ~blocks(s) /\ s.pc \in {"checkCOW", "reading", "cycle", "load"}
  BY <1>8 DEF Entered, ThreadShape, blocks, where, copies, CopyLabels
<1>11. /\ tile'[y].m_tileData = x /\ tile'[y].m_oldTileData = tile[y].m_oldTileData
       /\ tile'[y].m_lockCounter = tile[y].m_lockCounter + 1
       /\ tile'[y].m_swapBarrierLock = IF waits THEN t ELSE NoOne
       /\ \A z \in Tiles : z # y => tile'[z] = tile[z] /\ inUse(z)' = inUse(z)
  <2>1. /\ r.m_tileData = x /\ r.m_oldTileData = tile[y].m_oldTileData
        /\ r.m_lockCounter = tile[y].m_lockCounter + 1
        /\ r.m_swapBarrierLock = IF waits THEN t ELSE NoOne
    BY <1>1, <1>2, <1>3, <1>6 DEF KisTile
  <2>2. QED
    BY <1>7, <2>1, OneTile
<1>12. tile[y].m_lockCounter \in Nat /\ t # NoOne
  BY <1>1, StoreAssumption DEF KisTile
<1>13. \A z \in Tiles : tile'[z].m_oldTileData = tile[z].m_oldTileData
  BY <1>11
<1>14. CASE tile[y].m_lockCounter = 0 /\ loaded(x)
  <2>1. ~waits
    BY <1>4, <1>14
  <2>2. inUse(y)' /\ ~inUse(y)
    BY <1>11, <1>12, <1>14, <2>1 DEF inUse
  <2>3. /\ PlacesKept /\ td' \in [TileData -> Object]
        /\ \A w \in TileData : td'[w].readers = td[w].readers + (IF w = x THEN 1 ELSE 0)
    BY <1>7, <1>14, OneReader DEF Placed, ObjectsTyped
  <2>4. \A w \in TileData : td[w].readers \in Int
    BY BlockersFinite DEF Placed, ReadersCounted
  <2>5. ASSUME NEW w \in TileData PROVE td'[w].readers = blockers(w)'
    <3>1. PICK a \in Int : /\ a = bit(tile'[y].m_tileData = w /\ inUse(y)')
                                    - bit(tile[y].m_tileData = w /\ inUse(y))
                           /\ a = IF w = x THEN 1 ELSE 0
      BY <1>11, <2>2 DEF bit
    <3>2. Cardinality(blocked(w)') = Cardinality(blocked(w)) + a
      BY <1>11, <3>1, BlockedMoves
    <3>3. Cardinality(aging(w)') = Cardinality(aging(w)) + 0
      BY <1>13, OldSame
    <3>4. 0 = bit(s.td = w /\ blocks(s)) - bit(at[t].td = w /\ blocks(at[t]))
      BY <1>1, <1>10 DEF bit
    <3>5. td'[w].readers = td[w].readers + (a + 0 + 0)
      BY <2>3, <2>4, <3>1
    <3>6. QED
      BY <1>9, <3>2, <3>3, <3>4, <3>5, ReadersStep DEF Placed
  <2>6. ReadersCounted'
    BY <2>5 DEF ReadersCounted
  <2>7. \A w \in TileData : td'[w].readers # 0 => td[w].readers # 0 \/ loaded(w)
    BY <1>14, <2>3, <2>4
  <2>8. QED
    BY <1>1, <1>7, <1>9, <1>10, <2>3, <2>6, <2>7, PlacidStep
<1>15. CASE tile[y].m_lockCounter # 0 \/ ~loaded(x)
  <2>1. inUse(y)' <=> inUse(y)
    <3>1. CASE tile[y].m_lockCounter # 0
      BY <1>2, <1>4, <1>11, <1>12, <3>1 DEF inUse
    <3>2. CASE tile[y].m_lockCounter = 0
      BY <1>4, <1>11, <1>12, <1>15, <3>2 DEF inUse
    <3>3. QED
      BY <3>1, <3>2
  <2>2. inUse(y)' = inUse(y)
    BY <2>1 DEF inUse
  <2>3. /\ PlacesKept /\ td' \in [TileData -> Object]
        /\ \A w \in TileData : td'[w].readers = td[w].readers
    BY <1>7, <1>15, SameObjects DEF Placed, ObjectsTyped
  <2>4. \A z \in Tiles : /\ tile'[z].m_tileData = tile[z].m_tileData
                         /\ inUse(z)' = inUse(z)
    BY <1>3, <1>11, <2>2
  <2>5. ReadersCounted'
    BY <1>1, <1>9, <1>10, <1>13, <2>3, <2>4, ReadersSame DEF Placed
  <2>6. QED
    BY <1>1, <1>7, <1>9, <1>10, <2>3, <2>5, PlacidStep
<1>16. QED
  BY <1>14, <1>15

\* The last user unblocks the data of the tile; the old data stays blocked.
LEMMA UnlockTilePlaced ==
    ASSUME Ordered, Ordered', Placed, NEW t \in Threads, unlockTile(t)
    PROVE  Placed'
<1>1. /\ at[t] \in AgentRecord /\ ThreadShape(at[t]) /\ at[t].pc \in {"reading", "wrote"} /\ t \in Agents
  BY ThreadRecord DEF unlockTile
<1>2. at[t].tile # NoTile /\ ~blocks(at[t]) /\ ~releases(at[t]) /\ ~locks(at[t])
  BY <1>1 DEF ThreadShape, where, frees, loads, blocks, releases, locks, SwapLabels, LoadLabels
<1>3. PICK y \in Tiles : y = at[t].tile
  BY <1>2, UsedTile
<1>4. PICK x \in TileData : x = tile[y].m_tileData
  BY <1>2, <1>3, UsedTile
<1>5. PICK old \in BOOLEAN : old <=> tile[y].m_lockCounter = 1 /\ tile[y].m_oldTileData # <<>>
  OBVIOUS
<1>6. PICK s : s = IF old THEN [Idle EXCEPT !.pc = "releaseOld", !.tile = y] ELSE Idle
  OBVIOUS
<1>7. PICK r : r = [tile[y] EXCEPT !.m_lockCounter = @ - 1, !.m_swapBarrierLock = IF old THEN t ELSE @]
  OBVIOUS
<1>8. /\ at' = [at EXCEPT ![t] = s]
      /\ tile' = [tile EXCEPT ![y] = r]
      /\ tile[y].m_lockCounter = 1 => td' = [td EXCEPT ![x].readers = @ - 1]
      /\ tile[y].m_lockCounter # 1 => td' = td
      /\ tile[y].m_swapBarrierLock = NoOne
      /\ UNCHANGED <<pass, preclone, swapVars>>
  BY <1>3, <1>4, <1>5, <1>6, <1>7 DEF unlockTile, unblocked
<1>9. s.pc \in {"idle", "releaseOld"} /\ ~blocks(s)
  BY <1>6 DEF Idle, blocks, where, SwapLabels
<1>10. Moves(t, s)
  BY <1>8, ThreadRecord DEF Moves
<1>11. /\ tile[y] \in KisTile /\ tile[y].m_lockCounter \in Nat /\ inUse(y)
       /\ tile[y].m_lockCounter # 0
  BY <1>2, <1>3, UserBlocks DEF Ordered, TilesLocked, inUse
<1>12. /\ tile'[y].m_tileData = x /\ tile'[y].m_oldTileData = tile[y].m_oldTileData
       /\ tile'[y].m_lockCounter = tile[y].m_lockCounter - 1
       /\ tile'[y].m_swapBarrierLock = IF old THEN t ELSE NoOne
       /\ \A z \in Tiles : z # y => tile'[z] = tile[z] /\ inUse(z)' = inUse(z)
  <2>1. /\ r.m_tileData = x /\ r.m_oldTileData = tile[y].m_oldTileData
        /\ r.m_lockCounter = tile[y].m_lockCounter - 1
        /\ r.m_swapBarrierLock = IF old THEN t ELSE NoOne
    BY <1>4, <1>7, <1>8, <1>11 DEF KisTile
  <2>2. QED
    BY <1>8, <2>1, OneTile
<1>13. \A z \in Tiles : tile'[z].m_oldTileData = tile[z].m_oldTileData
  BY <1>12
<1>14. \A w \in TileData : td[w].readers \in Int
  BY BlockersFinite DEF Placed, ReadersCounted
<1>15. CASE tile[y].m_lockCounter = 1
  <2>1. ~inUse(y)'
    BY <1>12, <1>15 DEF inUse
  <2>2. /\ PlacesKept /\ td' \in [TileData -> Object]
        /\ \A w \in TileData : td'[w].readers = td[w].readers + (IF w = x THEN -1 ELSE 0)
    <3>1. td \in [TileData -> Object] /\ td[x].readers \in Int
      BY <1>14 DEF Placed, ObjectsTyped
    <3>2. td' = [td EXCEPT ![x].readers = @ + -1]
      BY <1>8, <1>15, <3>1
    <3>3. QED
      BY <3>1, <3>2, OneReader
  <2>3. ASSUME NEW w \in TileData PROVE td'[w].readers = blockers(w)'
    <3>1. PICK a \in Int : /\ a = bit(tile'[y].m_tileData = w /\ inUse(y)')
                                    - bit(tile[y].m_tileData = w /\ inUse(y))
                           /\ a = IF w = x THEN -1 ELSE 0
      BY <1>4, <1>11, <2>1 DEF bit
    <3>2. Cardinality(blocked(w)') = Cardinality(blocked(w)) + a
      BY <1>12, <3>1, BlockedMoves
    <3>3. Cardinality(aging(w)') = Cardinality(aging(w)) + 0
      BY <1>13, OldSame
    <3>4. 0 = bit(s.td = w /\ blocks(s)) - bit(at[t].td = w /\ blocks(at[t]))
      BY <1>2, <1>9 DEF bit
    <3>5. td'[w].readers = td[w].readers + (a + 0 + 0)
      BY <1>14, <2>2, <3>1
    <3>6. QED
      BY <1>10, <3>2, <3>3, <3>4, <3>5, ReadersStep DEF Placed
  <2>4. ReadersCounted'
    BY <2>3 DEF ReadersCounted
  <2>5. td[x].readers # 0
    <3>1. y \in blocked(x)
      BY <1>4, <1>11 DEF blocked
    <3>2. QED
      BY <3>1, BlockedLoaded
  <2>6. \A w \in TileData : td'[w].readers # 0 => td[w].readers # 0 \/ loaded(w)
    BY <1>14, <2>2, <2>5
  <2>7. QED
    BY <1>1, <1>8, <1>9, <1>10, <2>2, <2>4, <2>6, PlacidStep
<1>16. CASE tile[y].m_lockCounter # 1
  <2>1. inUse(y)'
    BY <1>5, <1>11, <1>12, <1>16, StoreAssumption DEF inUse
  <2>2. inUse(y)' = inUse(y)
    BY <1>11, <2>1 DEF inUse
  <2>3. /\ PlacesKept /\ td' \in [TileData -> Object]
        /\ \A w \in TileData : td'[w].readers = td[w].readers
    BY <1>8, <1>16, SameObjects DEF Placed, ObjectsTyped
  <2>4. \A z \in Tiles : /\ tile'[z].m_tileData = tile[z].m_tileData
                         /\ inUse(z)' = inUse(z)
    BY <1>4, <1>12, <2>2
  <2>5. ReadersCounted'
    BY <1>2, <1>9, <1>10, <1>13, <2>3, <2>4, ReadersSame DEF Placed
  <2>6. QED
    BY <1>1, <1>8, <1>9, <1>10, <2>3, <2>5, PlacidStep
<1>17. QED
  BY <1>15, <1>16

\* Old data is unblocked when it is released.
LEMMA ReleaseOldPlaced ==
    ASSUME Ordered, Ordered', Placed, NEW t \in Threads, releaseOldTileData(t)
    PROVE  Placed'
<1>1. at[t] \in AgentRecord /\ ThreadShape(at[t]) /\ at[t].pc = "releaseOld"
  BY ThreadRecord DEF releaseOldTileData
<1>2. at[t].tile # NoTile /\ ~blocks(at[t]) /\ releases(at[t])
  BY <1>1 DEF ThreadShape, frees, blocks, releases, where, SwapLabels
<1>3. PICK y \in Tiles : y = at[t].tile
  BY <1>2, UsedTile
<1>4. PICK q : q = tile[y].m_oldTileData
  OBVIOUS
<1>5. tile[y] \in KisTile /\ q \in Seq(TileData) /\ UNCHANGED <<pass, preclone, swapVars>>
  BY <1>4 DEF Ordered, TilesLocked, KisTile, releaseOldTileData
\* Nobody is left in the tile.
<1>6. tile[y].m_lockCounter = 0
  <2>1. TileLocked(y)
    BY DEF Ordered, TilesLocked
  <2>2. users(y) = {} /\ tile[y].m_lockCounter = Cardinality({})
    BY <1>2, <1>3, <2>1 DEF TileLocked
  <2>3. Cardinality({}) = 0
    BY FS_EmptySet
  <2>4. QED
    BY <2>2, <2>3
<1>7. inUse(y) = FALSE
  BY <1>6 DEF inUse
<1>8. CASE q = <<>>
  <2>1. PICK r : r = [tile[y] EXCEPT !.m_swapBarrierLock = NoOne]
    OBVIOUS
  <2>2. /\ tile' = [tile EXCEPT ![y] = r]
        /\ at' = [at EXCEPT ![t] = Idle] /\ UNCHANGED td
    BY <1>3, <1>4, <1>8, <2>1 DEF releaseOldTileData
  <2>3. /\ r.m_tileData = tile[y].m_tileData /\ r.m_oldTileData = tile[y].m_oldTileData
        /\ r.m_lockCounter = 0
    BY <1>5, <1>6, <2>1 DEF KisTile
  <2>4. tile'[y] = r /\ \A z \in Tiles : z # y => tile'[z] = tile[z] /\ inUse(z)' = inUse(z)
    BY <2>2, OneTile
  <2>5. inUse(y)' = FALSE
    BY <2>3, <2>4 DEF inUse
  <2>6. \A z \in Tiles : /\ tile'[z].m_tileData = tile[z].m_tileData
                         /\ tile'[z].m_oldTileData = tile[z].m_oldTileData
                         /\ inUse(z)' = inUse(z)
    BY <1>7, <2>3, <2>4, <2>5
  <2>7. Moves(t, Idle)
    BY <2>2, ThreadRecord DEF Moves
  <2>8. Idle.pc = "idle" /\ ~blocks(Idle)
    BY DEF Idle, blocks, where, SwapLabels
  <2>9. Unmoved(td') /\ \A w \in TileData : td'[w].readers = td[w].readers
    BY <2>2, UnmovedTileData
  <2>10. QED
    BY <1>1, <1>5, <2>6, <2>7, <2>8, <2>9, UsersPlaced
<1>9. CASE q # <<>>
  <2>1. PICK x \in TileData : x = Head(q)
    BY <1>5, <1>9, Tails
  <2>2. PICK s : s = [afterRelease(x, "releaseOld") EXCEPT !.tile = y]
    OBVIOUS
  <2>3. PICK objects : objects = [td EXCEPT ![x].readers = @ - 1]
    OBVIOUS
  <2>4. PICK p : p = Tail(q)
    OBVIOUS
  <2>5. PICK r : r = [tile[y] EXCEPT !.m_oldTileData = p]
    OBVIOUS
  <2>6. /\ tile' = [tile EXCEPT ![y] = r]
        /\ td' = released(objects, x)
        /\ at' = [at EXCEPT ![t] = s]
    BY <1>3, <1>4, <1>9, <2>1, <2>2, <2>3, <2>4, <2>5 DEF releaseOldTileData, unblocked
  <2>7. s.pc \in {"free", "idle", "releaseOld"} /\ ~blocks(s)
    BY <2>2, AfterRelease
  <2>8. Moves(t, s)
    BY <2>6, ThreadRecord DEF Moves
  <2>9. /\ r.m_tileData = tile[y].m_tileData /\ r.m_oldTileData = p /\ r.m_lockCounter = 0
    BY <1>5, <1>6, <2>5 DEF KisTile
  <2>10. tile'[y] = r /\ \A z \in Tiles : z # y => tile'[z] = tile[z] /\ inUse(z)' = inUse(z)
    BY <2>6, OneTile
  <2>11. inUse(y)' = FALSE
    BY <2>9, <2>10 DEF inUse
  <2>12. \A z \in Tiles : tile'[z].m_tileData = tile[z].m_tileData /\ inUse(z)' = inUse(z)
    BY <1>7, <2>9, <2>10, <2>11
  <2>13. /\ tile'[y].m_oldTileData = Tail(tile[y].m_oldTileData)
         /\ \A z \in Tiles : z # y => tile'[z].m_oldTileData = tile[z].m_oldTileData
    BY <1>4, <2>4, <2>9, <2>10
  <2>14. \A w \in TileData : td[w].readers \in Int
    BY BlockersFinite DEF Placed, ReadersCounted
  <2>15. /\ Unmoved(td')
         /\ \A w \in TileData : td'[w].readers = td[w].readers + (IF w = x THEN -1 ELSE 0)
    <3>1. PICK z : z = [td[x] EXCEPT !.readers = @ - 1]
      OBVIOUS
    <3>2. td \in [TileData -> Object] /\ td[x] \in Object
      BY DEF Placed, ObjectsTyped
    <3>3. /\ z \in Object /\ z.exists = td[x].exists /\ z.m_data = td[x].m_data
          /\ z.listed = td[x].listed /\ z.m_swapChunk = td[x].m_swapChunk
          /\ z.readers = td[x].readers + -1
      <4>1. td[x].readers - 1 \in Int /\ td[x].readers - 1 = td[x].readers + -1
        BY <2>14
      <4>2. QED
        BY <3>1, <3>2, <4>1 DEF Object
    <3>4. /\ objects \in [TileData -> Object] /\ objects[x] = z
          /\ \A w \in TileData : w # x => objects[w] = td[w]
      BY <2>3, <3>1, <3>2, <3>3
    <3>5. Unmoved(objects)
      BY <3>3, <3>4, UnmovedTileData, UnmovedObject
    <3>6. Unmoved(td') /\ \A w \in TileData : td'[w].readers = objects[w].readers
      BY <2>6, <3>5, ReleasedObject
    <3>7. QED
      BY <2>14, <3>3, <3>4, <3>6
  <2>16. ASSUME NEW w \in TileData PROVE td'[w].readers = blockers(w)'
    <3>1. Cardinality(blocked(w)') = Cardinality(blocked(w)) + 0
      BY <2>12, BlockedSame
    <3>2. PICK b \in Int : /\ b = 0 - bit(Head(tile[y].m_oldTileData) = w)
                           /\ b = IF w = x THEN -1 ELSE 0
      BY <1>4, <2>1 DEF bit
    <3>3. Cardinality(aging(w)') = Cardinality(aging(w)) + b
      <4>1. Cardinality(aging(w)') = Cardinality(aging(w)) - bit(Head(tile[y].m_oldTileData) = w)
        BY <1>4, <1>9, <2>13, AgingTail
      <4>2. Cardinality(aging(w)) \in Nat /\ bit(Head(tile[y].m_oldTileData) = w) \in {0, 1}
        BY BlockersFinite DEF bit
      <4>3. QED
        BY <3>2, <4>1, <4>2
    <3>4. 0 = bit(s.td = w /\ blocks(s)) - bit(at[t].td = w /\ blocks(at[t]))
      BY <1>2, <2>7 DEF bit
    <3>5. td'[w].readers = td[w].readers + (0 + b + 0)
      BY <2>14, <2>15, <3>2
    <3>6. QED
      BY <2>8, <3>1, <3>3, <3>4, <3>5, ReadersStep DEF Placed
  <2>17. ReadersCounted'
    BY <2>16 DEF ReadersCounted
  <2>18. td[x].readers # 0
    <3>1. 1 \in DOMAIN q /\ q[1] = x
      BY <1>5, <1>9, <2>1, Tails
    <3>2. <<y, 1>> \in aging(x)
      BY <1>4, <3>1, Aging
    <3>3. QED
      BY <3>2, BlockedLoaded
  <2>19. \A w \in TileData : td'[w].readers # 0 => td[w].readers # 0 \/ loaded(w)
    BY <2>14, <2>15, <2>18
  <2>20. PlacesKept /\ td' \in [TileData -> Object]
    BY <2>15 DEF Unmoved, PlacesKept
  <2>21. QED
    BY <1>1, <1>5, <2>7, <2>8, <2>17, <2>19, <2>20, PlacidStep
<1>10. QED
  BY <1>8, <1>9

\* The read lock of the copier becomes that of the tile; that of the tile stays with the
\* old data.
LEMMA InstallPlaced ==
    ASSUME Ordered, Ordered', Placed, NEW t \in Threads, installTileData(t)
    PROVE  Placed'
<1>1. at[t] \in AgentRecord /\ ThreadShape(at[t]) /\ at[t].pc = "install"
  BY ThreadRecord DEF installTileData
<1>2. /\ at[t].tile # NoTile /\ at[t].td \in TileData
      /\ blocks(at[t]) /\ ~releases(at[t]) /\ ~locks(at[t])
  BY <1>1 DEF ThreadShape, AgentRecord, loads, frees, copies, blocks, releases, locks, where,
              SwapLabels, LoadLabels, CopyLabels
<1>3. PICK y \in Tiles : y = at[t].tile
  BY <1>2, UsedTile
<1>4. PICK old \in TileData : old = tile[y].m_tileData
  BY <1>2, <1>3, UsedTile
<1>5. PICK x \in TileData : x = at[t].td
  BY <1>2
<1>6. PICK s : s = [at[t] EXCEPT !.pc = "writing"]
  OBVIOUS
<1>7. PICK index, new : index = tile[y].indexed /\ new = IF y \in Copies THEN NoTileData ELSE x
  OBVIOUS
<1>8. /\ index \in TileData \cup {NoTileData}
      /\ tile[y] \in KisTile /\ tile \in [Tiles -> KisTile]
  BY <1>7 DEF Ordered, TilesLocked, KisTile
<1>9. s.pc = "writing" /\ ~blocks(s)
  <2>1. s.pc = "writing"
    BY <1>1, <1>6 DEF AgentRecord
  <2>2. QED
    BY <2>1 DEF blocks, where, SwapLabels
<1>10. Moves(t, s) /\ UNCHANGED <<pass, preclone, swapVars>>
  BY <1>6, ThreadRecord DEF installTileData, goto, Moves
<1>11. /\ tile'[y].m_tileData = x
       /\ tile'[y].m_oldTileData = Append(tile[y].m_oldTileData, old)
       /\ inUse(y) /\ inUse(y)'
       /\ \A z \in Tiles : z # y => tile'[z] = tile[z] /\ inUse(z)' = inUse(z)
  <2>1. PICK seq : seq = Append(tile[y].m_oldTileData, old)
    OBVIOUS
  <2>2. PICK r : r = [tile[y] EXCEPT !.m_tileData = x, !.m_oldTileData = seq, !.indexed = new, !.m_COWMutex = NoOne]
    OBVIOUS
  <2>3. tile' = [tile EXCEPT ![y] = r]
    <3>1. tile' = [tile EXCEPT
            ![y].m_tileData = at[t].td,
            ![y].m_oldTileData = Append(@, old),
            ![y].indexed = IF y \in Copies THEN NoTileData ELSE at[t].td,
            ![y].m_COWMutex = NoOne]
      BY <1>3, <1>4 DEF installTileData
    <3>2. tile' = [tile EXCEPT ![y] = [tile[y] EXCEPT
            !.m_tileData = x, !.m_oldTileData = Append(tile[y].m_oldTileData, old),
            !.indexed = new, !.m_COWMutex = NoOne]]
      BY <1>5, <1>7, <1>8, <3>1
    <3>3. QED
      BY <2>1, <2>2, <3>2
  <2>4. /\ r.m_tileData = x /\ r.m_oldTileData = seq
        /\ r.m_lockCounter = tile[y].m_lockCounter /\ r.m_swapBarrierLock = tile[y].m_swapBarrierLock
    BY <1>8, <2>2 DEF KisTile
  <2>5. inUse(y)
    BY <1>2, <1>3, UserBlocks
  <2>6. tile'[y] = r /\ \A z \in Tiles : z # y => tile'[z] = tile[z] /\ inUse(z)' = inUse(z)
    BY <2>3, OneTile
  <2>7. inUse(y)'
    BY <2>4, <2>5, <2>6 DEF inUse
  <2>8. QED
    BY <2>1, <2>4, <2>5, <2>6, <2>7
<1>12. Unmoved(td') /\ \A w \in TileData : td'[w].readers = td[w].readers
  <2>1. CASE y \in Copies
    <3>1. td' = td
      BY <1>3, <2>1 DEF installTileData
    <3>2. QED
      BY <3>1, UnmovedTileData
  <2>2. CASE y \notin Copies
    <3>1. PICK derefed : derefed = IF index = NoTileData THEN td ELSE [td EXCEPT ![index].m_refCount = @ - 1]
      OBVIOUS
    <3>2. td' = [derefed EXCEPT ![x].m_refCount = @ + 1]
      BY <1>3, <1>5, <1>7, <2>2, <3>1 DEF installTileData
    <3>3. Unmoved(derefed) /\ \A w \in TileData : derefed[w].readers = td[w].readers
      <4>1. CASE index = NoTileData
        BY <3>1, <4>1, UnmovedTileData
      <4>2. CASE index # NoTileData
        <5>1. index \in TileData /\ td \in [TileData -> Object] /\ td[index] \in Object
          BY <1>8, <4>2 DEF Placed, ObjectsTyped
        <5>2. PICK z : z = [td[index] EXCEPT !.m_refCount = @ - 1]
          OBVIOUS
        <5>3. /\ z \in Object /\ z.exists = td[index].exists /\ z.m_data = td[index].m_data
              /\ z.listed = td[index].listed /\ z.m_swapChunk = td[index].m_swapChunk
              /\ z.readers = td[index].readers
          <6>1. td[index].m_refCount - 1 \in Int
            BY <5>1 DEF Object
          <6>2. QED
            BY <5>1, <5>2, <6>1 DEF Object
        <5>4. /\ derefed \in [TileData -> Object] /\ derefed[index] = z
              /\ \A w \in TileData : w # index => derefed[w] = td[w]
          BY <3>1, <4>2, <5>1, <5>2, <5>3
        <5>5. Unmoved(derefed)
          BY <5>1, <5>3, <5>4, UnmovedTileData, UnmovedObject
        <5>6. QED
          BY <5>3, <5>4, <5>5
      <4>3. QED
        BY <4>1, <4>2
    <3>4. derefed \in [TileData -> Object] /\ derefed[x] \in Object
      BY <3>3 DEF Unmoved
    <3>5. PICK z : z = [derefed[x] EXCEPT !.m_refCount = @ + 1]
      OBVIOUS
    <3>6. /\ z \in Object /\ z.exists = derefed[x].exists /\ z.m_data = derefed[x].m_data
          /\ z.listed = derefed[x].listed /\ z.m_swapChunk = derefed[x].m_swapChunk
          /\ z.readers = derefed[x].readers
      <4>1. derefed[x].m_refCount + 1 \in Int
        BY <3>4 DEF Object
      <4>2. QED
        BY <3>4, <3>5, <4>1 DEF Object
    <3>7. /\ td' \in [TileData -> Object] /\ td'[x] = z
          /\ \A w \in TileData : w # x => td'[w] = derefed[w]
      BY <3>2, <3>4, <3>5, <3>6
    <3>8. Unmoved(td')
      BY <3>3, <3>6, <3>7, UnmovedObject
    <3>9. QED
      BY <3>3, <3>6, <3>7, <3>8
  <2>3. QED
    BY <2>1, <2>2
\* The copy's own lock becomes that of the tile, and the tile's that of its old data.
<1>13. ASSUME NEW w \in TileData PROVE td'[w].readers = blockers(w)'
  <2>1. PICK a \in {0, 1} : a = bit(x = w)
    BY DEF bit
  <2>2. PICK b \in {0, 1} : b = bit(old = w)
    BY DEF bit
  <2>3. /\ bit(tile'[y].m_tileData = w /\ inUse(y)') = a
        /\ bit(tile[y].m_tileData = w /\ inUse(y)) = b
    BY <1>4, <1>11, <2>1, <2>2 DEF bit
  <2>4. Cardinality(blocked(w)') = Cardinality(blocked(w)) + (a - b)
    BY <1>11, <2>3, BlockedMoves
  <2>5. Cardinality(aging(w)') = Cardinality(aging(w)) + b
    BY <1>11, <2>2, AgingAppended
  <2>6. /\ bit(s.td = w /\ blocks(s)) = 0
        /\ bit(at[t].td = w /\ blocks(at[t])) = a
    BY <1>2, <1>5, <1>9, <2>1 DEF bit
  <2>7. PICK c \in Int : c = bit(s.td = w /\ blocks(s)) - bit(at[t].td = w /\ blocks(at[t])) /\ c = 0 - a
    BY <2>6
  <2>8. PICK d \in Int : d = a - b
    OBVIOUS
  <2>9. PICK e \in Int : e = b
    OBVIOUS
  <2>10. td'[w].readers = td[w].readers + (d + e + c)
    <3>1. td[w].readers \in Int
      BY BlockersFinite DEF Placed, ReadersCounted
    <3>2. d + e + c = 0
      BY <2>7, <2>8, <2>9
    <3>3. QED
      BY <1>12, <3>1, <3>2
  <2>11. Cardinality(blocked(w)') = Cardinality(blocked(w)) + d
    BY <2>4, <2>8
  <2>12. Cardinality(aging(w)') = Cardinality(aging(w)) + e
    BY <2>5, <2>9
  <2>13. QED
    BY <1>10, <2>7, <2>10, <2>11, <2>12, ReadersStep DEF Placed
<1>14. ReadersCounted'
  BY <1>13 DEF ReadersCounted
<1>15. PlacesKept /\ td' \in [TileData -> Object]
  BY <1>12 DEF Unmoved, PlacesKept
<1>16. \A w \in TileData : td'[w].readers # 0 => td[w].readers # 0 \/ loaded(w)
  BY <1>12
<1>17. QED
  BY <1>1, <1>9, <1>10, <1>14, <1>15, <1>16, PlacidStep

-------------------------------------------------------------------------------
(***************************************************************************)
(* What the allocator promises to the swapper.                             *)
(***************************************************************************)

\* A chunk lies inside the store.
LEMMA ChunkBounds ==
    ASSUME AllocatorInv, NEW p \in DOMAIN m_list
    PROVE  /\ m_list[p].begin \in Int /\ m_list[p].end \in Int
           /\ 0 <= m_list[p].begin /\ m_list[p].begin <= m_list[p].end /\ m_list[p].end < m_storeSize
           /\ m_storeSize \in Int
<1>1. m_list \in Seq(Chunks) /\ m_storeSize \in Int
  BY DEF AllocatorInv, AllocatorTypeOK
<1>2. m_list[p].begin \in Int /\ m_list[p].end \in Int
  <2>1. m_list[p] \in Chunks
    BY <1>1
  <2>2. QED
    BY <2>1 DEF Chunks
<1>3. m_list[p].begin \in 0..m_list[p].end /\ m_list[p].end < m_storeSize
  BY DEF AllocatorInv, SanityCheck
<1>4. QED
  BY <1>1, <1>2, <1>3

\* Two chunks have neither a first cell nor any other cell in common.
LEMMA ChunksApart ==
    ASSUME AllocatorInv, NEW c \in ToSet(m_list), NEW d \in ToSet(m_list)
    PROVE  /\ c.begin \in Nat /\ c.begin \in cellsOf(c)
           /\ \A cell \in cellsOf(c) : cell \in Nat /\ cell < m_storeSize
           /\ c.begin = d.begin => c = d
           /\ \A cell \in cellsOf(c) : cell \in cellsOf(d) => c = d
<1>1. PICK p \in DOMAIN m_list : c = m_list[p]
  BY DEF ToSet
<1>2. PICK q \in DOMAIN m_list : d = m_list[q]
  BY DEF ToSet
<1>3. /\ c.begin \in Int /\ c.end \in Int /\ 0 <= c.begin /\ c.begin <= c.end /\ c.end < m_storeSize
      /\ d.begin \in Int /\ d.end \in Int /\ 0 <= d.begin /\ d.begin <= d.end
      /\ m_storeSize \in Int
  BY <1>1, <1>2, ChunkBounds
<1>4. \/ p = q
      \/ c.end < d.begin
      \/ d.end < c.begin
  <2>1. DOMAIN m_list \subseteq Int
    BY DEF AllocatorInv, AllocatorTypeOK
  <2>2. p = q \/ p < q \/ q < p
    BY <2>1
  <2>3. QED
    BY <1>1, <1>2, <2>2 DEF AllocatorInv, SanityCheck
<1>5. QED
  BY <1>1, <1>2, <1>3, <1>4 DEF cellsOf

\* However getChunk() finds the place, the chunk fits where it is inserted.
LEMMA ChunkPlaced ==
    ASSUME AllocatorInv, m_storeSize >= 0, m_storeSize <= MaxStoreSize, NEW size, getChunk(size)
    PROVE  \E p \in Positions :
                /\ fits(p, size, m_storeSize') /\ insertChunk(p, size)
                /\ m_storeSize' \in Int /\ m_storeSize' >= m_storeSize /\ m_storeSize' <= MaxStoreSize
<1>1. m_storeSize \in Int
  BY DEF AllocatorInv, AllocatorTypeOK
<1>2. CASE getChunkForward(size) \/ getChunkWrapped(size)
  BY <1>1, <1>2 DEF getChunkForward, getChunkWrapped, firstFit
<1>3. CASE getChunkGrown(size)
  <2>1. PICK slabs \in 1..MaxStoreSize :
            /\ fits(Len(m_list) + 1, size, grownTo(slabs))
            /\ insertChunk(Len(m_list) + 1, size)
            /\ grownTo(slabs) <= MaxStoreSize
            /\ m_storeSize' = grownTo(slabs)
    BY <1>3 DEF getChunkGrown
  <2>2. slabs * SlabSize \in Nat
    BY AllocatorAssumption
  <2>3. grownTo(slabs) \in Int /\ grownTo(slabs) >= m_storeSize
    BY <1>1, <2>2 DEF grownTo
  <2>4. Len(m_list) + 1 \in Positions
    BY DEF AllocatorInv, AllocatorTypeOK, Positions
  <2>5. QED
    BY <2>1, <2>3, <2>4
<1>4. QED
  BY <1>2, <1>3 DEF getChunk

\* getChunk() adds one chunk, apart from the others.
LEMMA ChunkAdded ==
    ASSUME AllocatorInv, m_storeSize >= 0, m_storeSize <= MaxStoreSize,
           NEW size \in ChunkSizes, getChunk(size)
    PROVE  /\ AllocatorInv' /\ m_storeSize' >= 0 /\ m_storeSize' <= MaxStoreSize
           /\ m_list'[m_iterator' - 1] \in ToSet(m_list')
           /\ ToSet(m_list') = ToSet(m_list) \cup {m_list'[m_iterator' - 1]}
           /\ m_list'[m_iterator' - 1] \notin ToSet(m_list)
           /\ Len(m_list') = Len(m_list) + 1
<1>1. PICK p \in Positions :
            /\ fits(p, size, m_storeSize') /\ insertChunk(p, size)
            /\ m_storeSize' \in Int /\ m_storeSize' >= m_storeSize /\ m_storeSize' <= MaxStoreSize
  BY ChunkPlaced
<1>2. AllocatorInv'
  BY <1>1, AllocatorAssumption, InsertKeepsOrder
<1>3. /\ m_list \in Seq(Chunks) /\ p \in 1..(Len(m_list) + 1) /\ Len(m_list) \in Nat
      /\ m_list' \in Seq(Chunks) /\ m_storeSize \in Int
  BY <1>2 DEF AllocatorInv, AllocatorTypeOK, Positions
<1>4. PICK new : new = Chunk(freeCell(p), size)
  OBVIOUS
<1>5. new \in Chunks
  <2>1. freeCell(p) \in Int
    <3>1. CASE p = 1
      BY <3>1 DEF freeCell
    <3>2. CASE p # 1
      <4>1. p - 1 \in DOMAIN m_list
        BY <1>3, <3>2
      <4>2. m_list[p - 1].end \in Int
        BY <4>1, ChunkBounds
      <4>3. QED
        BY <3>2, <4>2 DEF freeCell
    <3>3. QED
      BY <3>1, <3>2
  <2>2. size \in Int
    BY AllocatorAssumption
  <2>3. QED
    BY <1>4, <2>1, <2>2 DEF Chunk, Chunks
<1>6. IsInserted(Chunks, m_list, p, new, m_list')
  BY <1>1, <1>3, <1>4, <1>5, InsertAtElements DEF insertChunk
<1>7. PICK n \in Nat : n = Len(m_list)
  BY <1>3
<1>8. /\ DOMAIN m_list = 1..n /\ DOMAIN m_list' = 1..(n + 1) /\ p \in 1..(n + 1)
      /\ m_list'[p] = new /\ m_iterator' - 1 = p
      /\ \A i \in 1..(n + 1) : i < p => i \in 1..n /\ m_list'[i] = m_list[i]
      /\ \A i \in 1..(n + 1) : i > p => i - 1 \in 1..n /\ m_list'[i] = m_list[i - 1]
  <2>1. Len(m_list') = n + 1
    BY <1>6, <1>7 DEF IsInserted
  <2>2. DOMAIN m_list = 1..n /\ DOMAIN m_list' = 1..(n + 1)
    BY <1>3, <1>7, <2>1
  <2>3. m_iterator' - 1 = p
    BY <1>1, <1>3 DEF insertChunk
  <2>4. p \in 1..(n + 1)
    BY <1>3, <1>7
  <2>5. \A i \in 1..(n + 1) :
            m_list'[i] = IF i < p THEN m_list[i] ELSE IF i = p THEN new ELSE m_list[i - 1]
    BY <1>6, <1>7 DEF IsInserted
  <2>6. m_list'[p] = new
    BY <2>4, <2>5
  <2>7. \A i \in 1..(n + 1) : /\ i < p => i \in 1..n
                              /\ i > p => i - 1 \in 1..n /\ ~(i < p) /\ i # p
    BY <2>4
  <2>8. QED
    BY <2>2, <2>3, <2>4, <2>5, <2>6, <2>7
<1>9. \A i \in DOMAIN m_list' : i # p => m_list'[i] \in ToSet(m_list)
  <2>1. SUFFICES ASSUME NEW i \in 1..(n + 1), i # p
                 PROVE  m_list'[i] \in ToSet(m_list)
    BY <1>8
  <2>2. i < p \/ i > p
    BY <1>8, <2>1
  <2>3. QED
    BY <1>8, <2>2 DEF ToSet
<1>10. \A i \in DOMAIN m_list : \E j \in DOMAIN m_list' : j # p /\ m_list[i] = m_list'[j]
  <2>1. SUFFICES ASSUME NEW i \in 1..n
                 PROVE  \E j \in 1..(n + 1) : j # p /\ m_list[i] = m_list'[j]
    BY <1>8
  <2>2. CASE i < p
    BY <1>8, <2>2
  <2>3. CASE ~(i < p)
    <3>1. i + 1 \in 1..(n + 1) /\ i + 1 > p /\ (i + 1) - 1 = i /\ i + 1 # p
      BY <1>8, <2>3
    <3>2. m_list'[i + 1] = m_list[i]
      BY <1>8, <3>1
    <3>3. QED
      BY <3>1, <3>2
  <2>4. QED
    BY <2>2, <2>3
<1>11. new \notin ToSet(m_list)
  <2>1. SUFFICES ASSUME NEW j \in DOMAIN m_list', j # p, new = m_list'[j] PROVE FALSE
    BY <1>10 DEF ToSet
  <2>2. j < p \/ p < j
    BY <1>8, <2>1
  <2>3. m_list'[j].end < new.begin \/ new.end < m_list'[j].begin
    BY <1>2, <1>8, <2>1, <2>2 DEF AllocatorInv, SanityCheck
  <2>4. new.begin \in Int /\ new.end \in Int /\ new.begin <= new.end
    <3>1. new.begin \in 0..new.end
      BY <1>2, <1>8 DEF AllocatorInv, SanityCheck
    <3>2. QED
      BY <1>5, <3>1 DEF Chunks
  <2>5. QED
    BY <2>1, <2>3, <2>4
<1>12. ToSet(m_list') = ToSet(m_list) \cup {new}
  BY <1>8, <1>9, <1>10 DEF ToSet
<1>13. Len(m_list') = Len(m_list) + 1
  BY <1>6 DEF IsInserted
<1>14. m_storeSize' >= 0
  BY <1>1, <1>3
<1>15. QED
  BY <1>1, <1>2, <1>8, <1>11, <1>12, <1>13, <1>14

\* freeChunk() takes one chunk away.
LEMMA ChunkRemoved ==
    ASSUME AllocatorInv, NEW c \in ToSet(m_list), freeChunk(c.begin)
    PROVE  /\ AllocatorInv' /\ m_storeSize' = m_storeSize
           /\ ToSet(m_list') = ToSet(m_list) \ {c}
           /\ Len(m_list') = Len(m_list) - 1
<1>1. PICK p \in DOMAIN m_list :
            /\ m_list[p].begin = c.begin
            /\ m_list' = RemoveAt(m_list, p)
            /\ UNCHANGED m_storeSize
  BY DEF freeChunk
<1>2. AllocatorInv'
  BY FreeKeepsOrder
<1>3. m_list[p] = c
  <2>1. m_list[p] \in ToSet(m_list)
    BY DEF ToSet
  <2>2. QED
    BY <1>1, <2>1, ChunksApart
<1>4. PICK n \in Nat : n = Len(m_list) /\ DOMAIN m_list = 1..n
  BY DEF AllocatorInv, AllocatorTypeOK
<1>5. /\ Len(m_list') = n - 1 /\ DOMAIN m_list' = 1..(n - 1)
      /\ \A i \in 1..(n - 1) : m_list'[i] = IF i < p THEN m_list[i] ELSE m_list[i + 1]
  <2>1. m_list \in Seq(Chunks) /\ p \in 1..Len(m_list)
    BY <1>4 DEF AllocatorInv, AllocatorTypeOK
  <2>2. RemoveAt(m_list, p) \in Seq(Chunks) /\ Len(RemoveAt(m_list, p)) = Len(m_list) - 1
        /\ \A i \in 1..(Len(m_list) - 1) :
                RemoveAt(m_list, p)[i] = IF i < p THEN m_list[i] ELSE m_list[i + 1]
    BY <2>1, RemoveAtElements
  <2>3. QED
    BY <1>1, <1>4, <2>2
<1>6. \A i \in 1..n : i # p => m_list[i] # c
  <2>1. SUFFICES ASSUME NEW i \in 1..n, i # p, m_list[i] = m_list[p] PROVE FALSE
    BY <1>3
  <2>2. i < p \/ p < i
    BY <1>4, <2>1
  <2>3. m_list[i].end < m_list[p].begin \/ m_list[p].end < m_list[i].begin
    BY <1>4, <2>2 DEF AllocatorInv, SanityCheck
  <2>4. QED
    BY <1>4, <2>1, <2>3, ChunkBounds
<1>7. ASSUME NEW d PROVE d \in ToSet(m_list') <=> d \in ToSet(m_list) /\ d # c
  <2>1. ASSUME d \in ToSet(m_list') PROVE d \in ToSet(m_list) /\ d # c
    <3>1. PICK i \in 1..(n - 1) : d = m_list'[i]
      BY <1>5, <2>1 DEF ToSet
    <3>2. CASE i < p
      <4>1. i \in 1..n /\ i # p
        BY <1>4, <3>2
      <4>2. QED
        BY <1>4, <1>5, <1>6, <3>1, <3>2, <4>1 DEF ToSet
    <3>3. CASE ~(i < p)
      <4>1. i + 1 \in 1..n /\ i + 1 # p
        BY <1>4, <3>3
      <4>2. QED
        BY <1>4, <1>5, <1>6, <3>1, <3>3, <4>1 DEF ToSet
    <3>4. QED
      BY <3>2, <3>3
  <2>2. ASSUME d \in ToSet(m_list), d # c PROVE d \in ToSet(m_list')
    <3>1. PICK i \in 1..n : d = m_list[i]
      BY <1>4, <2>2 DEF ToSet
    <3>2. i # p
      BY <1>3, <2>2, <3>1
    <3>3. CASE i < p
      <4>1. i \in 1..(n - 1)
        BY <1>4, <3>3
      <4>2. QED
        BY <1>5, <3>1, <3>3, <4>1 DEF ToSet
    <3>4. CASE ~(i < p)
      <4>1. i - 1 \in 1..(n - 1) /\ ~(i - 1 < p) /\ (i - 1) + 1 = i
        BY <1>4, <3>2, <3>4
      <4>2. m_list'[i - 1] = m_list[i]
        BY <1>5, <4>1
      <4>3. QED
        BY <1>5, <3>1, <4>1, <4>2 DEF ToSet
    <3>5. QED
      BY <3>3, <3>4
  <2>3. QED
    BY <2>1, <2>2
<1>8. ToSet(m_list') = ToSet(m_list) \ {c}
  BY <1>7
<1>9. QED
  BY <1>1, <1>2, <1>4, <1>5, <1>8

-------------------------------------------------------------------------------
(***************************************************************************)
(* What is in the file.                                                    *)
(***************************************************************************)

\* So that the data in the file can be counted before and after a step.
LEMMA SwappedOutFinite ==
    /\ IsFiniteSet(swappedOut) /\ Cardinality(swappedOut) \in Nat
    /\ IsFiniteSet(swappedOut') /\ Cardinality(swappedOut') \in Nat
<1>1. swappedOut \subseteq TileData /\ swappedOut' \subseteq TileData
  BY DEF swappedOut
<1>2. QED
  BY <1>1, StoreAssumption, FS_Subset, FS_CardinalityType

\* Nothing is swapped in or out.
LEMMA FiledSame ==
    ASSUME Filed, swappedOut' = swappedOut, UNCHANGED swapVars,
           \A w \in swappedOut : td'[w].m_swapChunk = td[w].m_swapChunk
    PROVE  Filed'
<1>1. UNCHANGED <<swapFile, m_list, m_iterator, m_storeSize>>
  BY DEF swapVars, allocatorVars
<1>2. \A x \in swappedOut : \A c : inChunk(x, c)' <=> inChunk(x, c)
  BY <1>1 DEF inChunk, cellsOf
<1>3. AllocatorInv'
  BY <1>1 DEF Filed, AllocatorInv, AllocatorTypeOK, SanityCheck
<1>4. QED
  BY <1>1, <1>2, <1>3 DEF Filed

\* The chunk of tile data holds all of it.
LEMMA StoredData ==
    ASSUME Filed, NEW x \in swappedOut
    PROVE  stored(x) \in SUBSET (1..MaxWrites)
<1>1. PICK c \in ToSet(m_list) : inChunk(x, c)
  BY DEF Filed
<1>2. PICK piece \in SUBSET (1..MaxWrites) : \A cell \in cellsOf(c) : swapFile[cell] = piece
  BY <1>1 DEF inChunk
<1>3. AllocatorInv
  BY DEF Filed
<1>4. \A d \in ToSet(m_list) : d.begin = td[x].m_swapChunk <=> d = c
  BY <1>1, <1>3, ChunksApart DEF inChunk
<1>5. (CHOOSE d \in ToSet(m_list) : d.begin = td[x].m_swapChunk) = c
  BY <1>4
<1>6. {swapFile[cell] : cell \in chunkCells(c.begin, c.end)} = {piece}
  <2>1. c.begin \in cellsOf(c)
    BY <1>3, ChunksApart
  <2>2. chunkCells(c.begin, c.end) = cellsOf(c)
    BY DEF chunkCells, cellsOf
  <2>3. QED
    BY <1>2, <2>1, <2>2
<1>7. Cardinality({piece}) = 1
  BY FS_Singleton
<1>8. stored(x) = piece
  BY <1>5, <1>6, <1>7 DEF stored
<1>9. QED
  BY <1>8

\* Tile data leaves the file and gives its chunk back.
LEMMA FiledLoses ==
    ASSUME Filed, NEW x \in swappedOut, swappedOut' = swappedOut \ {x},
           \A w \in swappedOut : w # x => td'[w].m_swapChunk = td[w].m_swapChunk,
           freeChunk(td[x].m_swapChunk), swapFile' = erased(x)
    PROVE  Filed'
<1>1. PICK c \in ToSet(m_list) : inChunk(x, c)
  BY DEF Filed
<1>2. /\ AllocatorInv /\ m_storeSize >= 0 /\ m_storeSize <= MaxStoreSize /\ m_storeSize \in Int
      /\ swapFile \in [0..(MaxStoreSize - 1) -> (SUBSET (1..MaxWrites)) \cup {NoData}]
      /\ c.begin = td[x].m_swapChunk /\ MaxStoreSize \in Nat
  BY <1>1, AllocatorAssumption DEF Filed, AllocatorInv, AllocatorTypeOK, inChunk
<1>3. /\ AllocatorInv' /\ m_storeSize' = m_storeSize
      /\ ToSet(m_list') = ToSet(m_list) \ {c}
      /\ Len(m_list') = Len(m_list) - 1
  BY <1>2, ChunkRemoved
<1>4. \A d \in ToSet(m_list) : d.begin = td[x].m_swapChunk <=> d = c
  BY <1>2, ChunksApart
<1>5. /\ swapFile' \in [0..(MaxStoreSize - 1) -> (SUBSET (1..MaxWrites)) \cup {NoData}]
      /\ \A cell \in 0..(MaxStoreSize - 1) : cell \notin cellsOf(c) => swapFile'[cell] = swapFile[cell]
  <2>1. swapFile' = [cell \in 0..(MaxStoreSize - 1) |->
                        IF cell \in cellsOf(c) THEN NoData ELSE swapFile[cell]]
    BY <1>2, <1>4 DEF erased, cellsOf, chunkCells
  <2>2. PICK E : E = (SUBSET (1..MaxWrites)) \cup {NoData}
    OBVIOUS
  <2>3. NoData \in E
    BY <2>2
  <2>4. swapFile \in [0..(MaxStoreSize - 1) -> E]
    BY <1>2, <2>2
  <2>5. swapFile' \in [0..(MaxStoreSize - 1) -> E]
    BY <2>1, <2>3, <2>4
  <2>6. QED
    BY <2>1, <2>2, <2>5
<1>6. ASSUME NEW w \in swappedOut, w # x, NEW d \in ToSet(m_list), inChunk(w, d)
      PROVE  d # c /\ inChunk(w, d)'
  <2>1. td[w].m_swapChunk # td[x].m_swapChunk
    BY <1>6 DEF Filed
  <2>2. d # c
    BY <1>2, <1>6, <2>1 DEF inChunk
  <2>3. \A cell \in cellsOf(d) : cell \in 0..(MaxStoreSize - 1) /\ cell \notin cellsOf(c)
    BY <1>2, <2>2, ChunksApart
  <2>4. \A cell \in cellsOf(d) : swapFile'[cell] = swapFile[cell]
    BY <1>5, <2>3
  <2>5. QED
    BY <1>6, <2>2, <2>4 DEF inChunk, cellsOf
<1>7. \A w \in swappedOut' : \E d \in ToSet(m_list') : inChunk(w, d)'
  BY <1>3, <1>6 DEF Filed
<1>8. \A d \in ToSet(m_list') : \E w \in swappedOut' : inChunk(w, d)'
  <2>1. SUFFICES ASSUME NEW d \in ToSet(m_list), d # c PROVE \E w \in swappedOut' : inChunk(w, d)'
    BY <1>3
  <2>2. PICK w \in swappedOut : inChunk(w, d)
    BY DEF Filed
  <2>3. w # x
    BY <1>4, <2>1, <2>2 DEF inChunk
  <2>4. QED
    BY <1>6, <2>2, <2>3
<1>9. \A v, w \in swappedOut' : td'[v].m_swapChunk = td'[w].m_swapChunk => v = w
  BY DEF Filed
<1>10. Len(m_list') = Cardinality(swappedOut')
  <2>1. Cardinality(swappedOut') = Cardinality(swappedOut) - 1
    BY SwappedOutFinite, FS_RemoveElement
  <2>2. QED
    BY <1>3, <2>1 DEF Filed
<1>11. QED
  BY <1>2, <1>3, <1>5, <1>7, <1>8, <1>9, <1>10 DEF Filed

\* Tile data goes into the file.
LEMMA FiledGains ==
    ASSUME Filed, NEW x \in TileData, x \notin swappedOut, swappedOut' = swappedOut \cup {x},
           td[x].m_data \in SUBSET (1..MaxWrites),
           getChunk(CompressedSize[x]), NEW chunk, chunk = m_list'[m_iterator' - 1],
           swapFile' = [cell \in DOMAIN swapFile |->
                IF cell \in chunkCells(chunk.begin, chunk.end) THEN td[x].m_data ELSE swapFile[cell]],
           td'[x].m_swapChunk = chunk.begin,
           \A w \in swappedOut : td'[w].m_swapChunk = td[w].m_swapChunk
    PROVE  Filed' /\ chunk.begin \in Nat
<1>1. /\ AllocatorInv /\ m_storeSize >= 0 /\ m_storeSize <= MaxStoreSize /\ m_storeSize \in Int
      /\ swapFile \in [0..(MaxStoreSize - 1) -> (SUBSET (1..MaxWrites)) \cup {NoData}]
      /\ MaxStoreSize \in Nat /\ CompressedSize[x] \in ChunkSizes
  BY AllocatorAssumption, StoreAssumption DEF Filed, AllocatorInv, AllocatorTypeOK
<1>2. /\ AllocatorInv' /\ m_storeSize' >= 0 /\ m_storeSize' <= MaxStoreSize
      /\ chunk \in ToSet(m_list') /\ ToSet(m_list') = ToSet(m_list) \cup {chunk}
      /\ chunk \notin ToSet(m_list) /\ Len(m_list') = Len(m_list) + 1
  BY <1>1, ChunkAdded
<1>3. ASSUME NEW c \in ToSet(m_list'), NEW d \in ToSet(m_list')
      PROVE  /\ c.begin \in Nat
             /\ c.begin = d.begin => c = d
             /\ \A cell \in cellsOf(c) : cell \in 0..(MaxStoreSize - 1) /\ (cell \in cellsOf(d) => c = d)
  <2>1. /\ c.begin \in Nat
        /\ c.begin = d.begin => c = d
        /\ \A cell \in cellsOf(c) : cell \in Nat /\ cell < m_storeSize' /\ (cell \in cellsOf(d) => c = d)
    <3>1. PICK p \in DOMAIN m_list' : c = m_list'[p]
      BY DEF ToSet
    <3>2. PICK q \in DOMAIN m_list' : d = m_list'[q]
      BY DEF ToSet
    <3>3. /\ m_list' \in Seq(Chunks) /\ c \in Chunks /\ d \in Chunks /\ m_storeSize' \in Int
          /\ c.begin \in 0..c.end /\ c.end < m_storeSize' /\ d.begin \in 0..d.end
          /\ p < q => c.end < d.begin
          /\ q < p => d.end < c.begin
      BY <1>2, <3>1, <3>2 DEF AllocatorInv, AllocatorTypeOK, SanityCheck
    <3>4. /\ c.begin \in Int /\ c.end \in Int /\ d.begin \in Int /\ d.end \in Int
          /\ 0 <= c.begin /\ c.begin <= c.end /\ d.begin <= d.end /\ 0 <= d.begin
      BY <3>3 DEF Chunks
    <3>5. p = q \/ p < q \/ q < p
      BY <3>3
    <3>6. c = d \/ c.end < d.begin \/ d.end < c.begin
      BY <3>1, <3>2, <3>3, <3>5
    <3>7. QED
      BY <3>3, <3>4, <3>6 DEF cellsOf
  <2>2. m_storeSize' \in Int
    BY <1>2 DEF AllocatorInv, AllocatorTypeOK
  <2>3. QED
    BY <1>1, <1>2, <2>1, <2>2
<1>4. /\ swapFile' \in [0..(MaxStoreSize - 1) -> (SUBSET (1..MaxWrites)) \cup {NoData}]
      /\ \A cell \in 0..(MaxStoreSize - 1) :
            swapFile'[cell] = IF cell \in cellsOf(chunk) THEN td[x].m_data ELSE swapFile[cell]
  <2>1. swapFile' = [cell \in 0..(MaxStoreSize - 1) |->
                        IF cell \in cellsOf(chunk) THEN td[x].m_data ELSE swapFile[cell]]
    BY <1>1 DEF cellsOf, chunkCells
  <2>2. QED
    BY <1>1, <2>1
<1>5. ASSUME NEW w \in swappedOut, NEW d \in ToSet(m_list), inChunk(w, d)
      PROVE  inChunk(w, d)'
  <2>1. d # chunk /\ d \in ToSet(m_list')
    BY <1>2
  <2>2. \A cell \in cellsOf(d) : swapFile'[cell] = swapFile[cell]
    BY <1>2, <1>3, <1>4, <2>1
  <2>3. QED
    BY <1>5, <2>2 DEF inChunk, cellsOf
<1>6. inChunk(x, chunk)'
  <2>1. \A cell \in cellsOf(chunk) : swapFile'[cell] = td[x].m_data
    BY <1>2, <1>3, <1>4
  <2>2. QED
    BY <2>1 DEF inChunk, cellsOf
<1>7. \A w \in swappedOut' : \E d \in ToSet(m_list') : inChunk(w, d)'
  BY <1>2, <1>5, <1>6 DEF Filed
<1>8. \A d \in ToSet(m_list') : \E w \in swappedOut' : inChunk(w, d)'
  BY <1>2, <1>5, <1>6 DEF Filed
<1>9. \A v, w \in swappedOut' : td'[v].m_swapChunk = td'[w].m_swapChunk => v = w
  <2>1. ASSUME NEW w \in swappedOut PROVE td'[w].m_swapChunk # chunk.begin
    <3>1. PICK d \in ToSet(m_list) : d.begin = td[w].m_swapChunk
      BY DEF Filed, inChunk
    <3>2. QED
      BY <1>2, <1>3, <3>1
  <2>2. QED
    BY <2>1 DEF Filed
<1>10. Len(m_list') = Cardinality(swappedOut')
  <2>1. Cardinality(swappedOut') = Cardinality(swappedOut) + 1
    BY SwappedOutFinite, FS_AddElement
  <2>2. QED
    BY <1>2, <2>1 DEF Filed
<1>11. QED
  BY <1>2, <1>3, <1>4, <1>7, <1>8, <1>9, <1>10 DEF Filed

-------------------------------------------------------------------------------
(***************************************************************************)
(* Tile data comes into memory and leaves it.                              *)
(***************************************************************************)
\* With the list lock held by somebody, nobody else is inside a loop over the
\* list, and with the lock free nobody is.
LEMMA ListLockExcludes ==
    ASSUME Ordered, NEW a \in Agents \cup {NoOne}, listLock = a
    PROVE  \A b \in Agents : b # a => at[b].pc \notin ListLabels
BY StoreAssumption DEF Ordered, StoreLocks

\* Tile data that a thread loads has users.
LEMMA LoadingData ==
    ASSUME Ordered, Counted, NEW t \in Threads, loads(at[t])
    PROVE  /\ at[t].loading \in TileData
           /\ td[at[t].loading].exists = TRUE
           /\ \A u \in Threads : ~busy(u, at[t].loading)
<1>1. at[t] \in AgentRecord /\ ThreadShape(at[t])
  BY ThreadRecord
<1>2. PICK x \in TileData : x = at[t].loading
  BY <1>1 DEF ThreadShape, AgentRecord
<1>3. tileUsers(x) # 0
  <2>1. CASE locks(at[t])
    <3>1. at[t].tile # NoTile
      BY <1>1, <2>1 DEF ThreadShape, locks, loads, frees, LoadLabels
    <3>2. at[t].tile \in Tiles
      BY <3>1, UsedTile
    <3>3. tile[at[t].tile].m_tileData = x
      BY <1>2, <2>1, <3>2 DEF Ordered, TilesLocked, TileShared
    <3>4. at[t].tile \in showing(x)
      BY <3>2, <3>3 DEF showing
    <3>5. QED
      BY <3>4, UsersCounted
  <2>2. CASE ~locks(at[t])
    <3>1. at[t].next = "install" /\ at[t].td = x
      BY <1>1, <1>2, <2>2 DEF locks, owns, ThreadShape
    <3>2. t \in owning(x)
      BY <3>1 DEF owning, ownsCopy
    <3>3. QED
      BY <3>2, UsersCounted
  <2>3. QED
    BY <2>1, <2>2
<1>4. td[x].m_refCount # 0
  <2>1. tileUsers(x) \in Nat /\ indexUsers(x) \in Nat /\ td[x].m_refCount = tileUsers(x) + indexUsers(x)
    BY UsersCounted DEF Counted
  <2>2. QED
    BY <1>3, <2>1
<1>5. QED
  BY <1>2, <1>4, ReferencedData

\* Whether an agent is making a copy depends on its label.
LEMMA MakingSame ==
    ASSUME NEW t \in Threads, NEW s, Moves(t, s), at[t].pc # "register", s.pc # "register", NEW x
    PROVE  beingMade(x)' <=> beingMade(x)
<1>1. at'[t] = s /\ \A u \in Threads : u # t => at'[u] = at[u]
  BY DEF Moves, Agents
<1>2. QED
  BY <1>1 DEF beingMade

\* The data is back in memory and its chunk is free.
LEMMA SwapInPlaced ==
    ASSUME Ordered, Ordered', Counted, Placed, NEW t \in Threads, swapInTileData(t)
    PROVE  Placed'
<1>1. /\ at[t] \in AgentRecord /\ ThreadShape(at[t]) /\ at[t].pc = "loadWrite"
      /\ at \in [Agents -> AgentRecord] /\ t \in Agents
  BY ThreadRecord DEF swapInTileData
<1>2. loads(at[t]) /\ ~blocks(at[t])
  BY <1>1 DEF loads, blocks, where, LoadLabels, SwapLabels
<1>3. PICK x \in TileData :
        /\ x = at[t].loading /\ td[x].exists = TRUE
        /\ \A u \in Threads : ~busy(u, x)
  BY <1>2, LoadingData
<1>4. ~loaded(x) /\ x \in swappedOut
  BY <1>1, <1>3 DEF Placed, Visited, swappedOut
<1>5. ~beingMade(x)
  <2>1. \A u \in Threads : at[u].pc = "register" => makes(at[u])
    BY DEF makes, where, SwapLabels
  <2>2. QED
    BY <1>3, <2>1 DEF beingMade, busy
<1>6. PICK data : data = stored(x)
  OBVIOUS
<1>7. data \in SUBSET (1..MaxWrites) /\ data # NoData
  BY <1>4, <1>6, StoredData, StoreAssumption DEF Placed
<1>8. PICK s : s = [at[t] EXCEPT !.pc = "load"]
  OBVIOUS
<1>9. PICK r : r = [td[x] EXCEPT !.m_data = data, !.listed = TRUE, !.m_swapChunk = NoChunk]
  OBVIOUS
<1>10. /\ at' = [at EXCEPT ![t] = s]
       /\ td' = [td EXCEPT ![x] = r]
       /\ swapFile' = erased(x) /\ freeChunk(td[x].m_swapChunk) /\ td[x].readers = 0
       /\ UNCHANGED <<tile, pass, preclone>>
  BY <1>3, <1>6, <1>8, <1>9 DEF swapInTileData, goto
<1>11. s.pc = "load" /\ s.td = at[t].td /\ ~blocks(s) /\ Moves(t, s)
  <2>1. s.pc = "load" /\ s.td = at[t].td
    BY <1>1, <1>8 DEF AgentRecord
  <2>2. QED
    BY <1>1, <1>10, <2>1 DEF Moves, blocks, where, SwapLabels
<1>12. td \in [TileData -> Object] /\ td[x] \in Object
  BY DEF Placed, ObjectsTyped
<1>13. /\ r \in Object /\ r.exists = TRUE /\ r.m_data = data /\ r.listed = TRUE
       /\ r.m_swapChunk = NoChunk /\ r.readers = td[x].readers
  BY <1>3, <1>7, <1>9, <1>12 DEF Object
<1>14. td' \in [TileData -> Object] /\ td'[x] = r /\ \A w \in TileData : w # x => td'[w] = td[w]
  BY <1>10, <1>12, <1>13
<1>15. loaded(x)' /\ \A w \in TileData : w # x => (loaded(w)' <=> loaded(w))
  BY <1>7, <1>13, <1>14 DEF loaded
<1>16. \A w : beingMade(w)' <=> beingMade(w)
  BY <1>1, <1>11, MakingSame
<1>17. Pooler \in Agents /\ Pooler # t /\ at'[Pooler] = at[Pooler]
  BY <1>11, StoreAssumption DEF Moves, Agents
<1>18. ObjectsTyped'
  BY <1>10, <1>14, <1>17 DEF Placed, ObjectsTyped
<1>19. Listed'
  <2>1. at[Pooler].td # NoTileData => at[Pooler].td \in TileData
    BY <1>1, <1>17 DEF AgentRecord
  <2>2. \A w \in TileData : td[w].listed => td'[w].listed
    BY <1>13, <1>14
  <2>3. \A w \in TileData : td'[w].listed => td'[w].exists /\ ~beingMade(w)
    BY <1>5, <1>13, <1>14 DEF Placed, Listed
  <2>4. QED
    BY <1>16, <1>17, <2>1, <2>2, <2>3 DEF Placed, Listed
<1>20. ReadersCounted'
  <2>1. \A z \in Tiles : inUse(z)' = inUse(z)
    BY <1>10 DEF inUse
  <2>2. \A w \in TileData : td'[w].readers = td[w].readers
    BY <1>13, <1>14
  <2>3. QED
    BY <1>2, <1>10, <1>11, <2>1, <2>2, ReadersSame DEF Placed
<1>21. InMemory'
  <2>1. ASSUME NEW w \in TileData, w # x
        PROVE  /\ td'[w].readers # 0 => loaded(w)'
               /\ beingMade(w)' => loaded(w)'
               /\ td'[w].listed => loaded(w)'
               /\ td'[w].exists /\ loaded(w)' => td'[w].listed \/ beingMade(w)'
               /\ td'[w].exists => (loaded(w)' <=> td'[w].m_swapChunk = NoChunk)
    BY <1>14, <1>15, <1>16, <2>1 DEF Placed, InMemory
  <2>2. QED
    BY <1>13, <1>14, <1>15, <2>1 DEF InMemory
<1>22. Visited'
  <2>1. listLock = t
    BY <1>1 DEF Ordered, StoreLocks, ListLabels
  <2>2. \A b \in Agents : b # t => at[b].pc \notin ListLabels
    BY <1>1, <2>1, ListLockExcludes
  <2>3. \A b \in Agents : at'[b].pc \notin {"softPass", "hardPass", "loadWrite"}
    BY <1>11, <2>2 DEF Moves, ListLabels
  <2>4. QED
    BY <2>3 DEF Visited, Agents
<1>23. Filed'
  <2>1. swappedOut' = swappedOut \ {x}
    BY <1>14, <1>15 DEF swappedOut
  <2>2. \A w \in swappedOut : w # x => td'[w].m_swapChunk = td[w].m_swapChunk
    BY <1>14 DEF swappedOut
  <2>3. QED
    BY <1>4, <1>10, <2>1, <2>2, FiledLoses DEF Placed
<1>24. QED
  BY <1>18, <1>19, <1>20, <1>21, <1>22, <1>23 DEF Placed

\* Tile data dies with its last user, in memory or in the file.
LEMMA FreePlaced ==
    ASSUME Ordered, Ordered', Counted, Placed, NEW t \in Threads, freeTileData(t)
    PROVE  Placed'
<1>1. /\ at[t] \in AgentRecord /\ ThreadShape(at[t]) /\ at[t].pc = "free"
      /\ at \in [Agents -> AgentRecord] /\ t \in Agents
  BY ThreadRecord DEF freeTileData
<1>2. at[t].td \in TileData /\ ~blocks(at[t]) /\ frees(at[t])
  BY <1>1 DEF frees, blocks, where, ThreadShape, AgentRecord, SwapLabels
<1>3. PICK x \in TileData : x = at[t].td /\ busy(t, x)
  BY <1>2 DEF busy
<1>4. td[x].exists = TRUE /\ ~\E u \in Threads : u # t /\ busy(u, x)
  BY <1>3, BusyData
<1>5. ~beingMade(x)
  <2>1. \A u \in Threads : at[u].pc = "register" => makes(at[u])
    BY DEF makes, where, SwapLabels
  <2>2. QED
    BY <1>1, <1>4, <2>1 DEF beingMade, busy
<1>6. PICK s : s = [at[t] EXCEPT !.pc = at[t].next, !.td = NoTileData, !.next = "idle"]
  OBVIOUS
<1>7. /\ at' = [at EXCEPT ![t] = s]
      /\ td' = [td EXCEPT ![x] = Deleted]
      /\ listLock = NoOne /\ td[x].readers = 0
      /\ loaded(x) => UNCHANGED swapVars
      /\ ~loaded(x) => freeChunk(td[x].m_swapChunk) /\ swapFile' = erased(x)
      /\ UNCHANGED <<tile, pass, preclone>>
  BY <1>3, <1>6 DEF freeTileData
<1>8. s.pc \in {"idle", "releaseOld"} /\ ~blocks(s) /\ Moves(t, s)
  <2>1. s.pc = at[t].next
    BY <1>1, <1>6 DEF AgentRecord
  <2>2. s.pc \in {"idle", "releaseOld"}
    BY <1>1, <1>2, <2>1 DEF ThreadShape
  <2>3. QED
    BY <1>1, <1>7, <2>2 DEF Moves, blocks, where, SwapLabels
<1>9. td \in [TileData -> Object]
  BY DEF Placed, ObjectsTyped
<1>10. PICK r : r = Deleted
  OBVIOUS
<1>11. /\ r \in Object /\ r.exists = FALSE /\ r.m_data = NoData /\ r.listed = FALSE /\ r.readers = 0
  <2>1. PICK new : new = NewTileData(NoData)
    OBVIOUS
  <2>2. <<>> \in Seq(SUBSET (1..MaxWrites))
    OBVIOUS
  <2>3. new \in Object
    BY <2>1, <2>2 DEF NewTileData, Object
  <2>4. /\ new.listed = FALSE /\ new.readers = 0 /\ new.m_data = NoData
    BY <2>1 DEF NewTileData
  <2>5. r = [new EXCEPT !.exists = FALSE]
    BY <1>10, <2>1 DEF Deleted
  <2>6. QED
    BY <2>3, <2>4, <2>5 DEF Object
<1>12. td' \in [TileData -> Object] /\ td'[x] = r /\ \A w \in TileData : w # x => td'[w] = td[w]
  BY <1>7, <1>9, <1>10, <1>11
<1>13. ~loaded(x)' /\ \A w \in TileData : w # x => (loaded(w)' <=> loaded(w))
  BY <1>11, <1>12 DEF loaded
<1>14. \A w : beingMade(w)' <=> beingMade(w)
  BY <1>1, <1>8, MakingSame
<1>15. Pooler \in Agents /\ Pooler # t /\ at'[Pooler] = at[Pooler]
  BY <1>8, StoreAssumption DEF Moves, Agents
<1>16. ObjectsTyped'
  BY <1>7, <1>12, <1>15 DEF Placed, ObjectsTyped
<1>17. Listed'
  <2>1. at[Pooler].td # x
    BY <1>7, BlockedLoaded
  <2>2. at[Pooler].td # NoTileData => at[Pooler].td \in TileData
    BY <1>1, <1>15 DEF AgentRecord
  <2>3. \A w \in TileData : td'[w].listed => td'[w].exists /\ ~beingMade(w)
    BY <1>11, <1>12 DEF Placed, Listed
  <2>4. QED
    BY <1>12, <1>14, <1>15, <2>1, <2>2, <2>3 DEF Placed, Listed
<1>18. ReadersCounted'
  <2>1. \A z \in Tiles : inUse(z)' = inUse(z)
    BY <1>7 DEF inUse
  <2>2. \A w \in TileData : td'[w].readers = td[w].readers
    BY <1>7, <1>11, <1>12
  <2>3. QED
    BY <1>2, <1>7, <1>8, <2>1, <2>2, ReadersSame DEF Placed
<1>19. InMemory'
  <2>1. ASSUME NEW w \in TileData, w # x
        PROVE  /\ td'[w].readers # 0 => loaded(w)'
               /\ beingMade(w)' => loaded(w)'
               /\ td'[w].listed => loaded(w)'
               /\ td'[w].exists /\ loaded(w)' => td'[w].listed \/ beingMade(w)'
               /\ td'[w].exists => (loaded(w)' <=> td'[w].m_swapChunk = NoChunk)
    BY <1>12, <1>13, <1>14, <2>1 DEF Placed, InMemory
  <2>2. QED
    BY <1>5, <1>11, <1>12, <1>14, <2>1 DEF InMemory
<1>20. Visited'
  <2>1. \A b \in Agents : at[b].pc \notin ListLabels
    BY <1>7, ListLockExcludes, StoreAssumption DEF Agents
  <2>2. \A b \in Agents : at'[b].pc \notin {"softPass", "hardPass", "loadWrite"}
    BY <1>8, <2>1 DEF Moves, ListLabels
  <2>3. QED
    BY <2>2 DEF Visited, Agents
<1>21. Filed'
  <2>1. \A w \in swappedOut : w # x => td'[w].m_swapChunk = td[w].m_swapChunk
    BY <1>12 DEF swappedOut
  <2>2. CASE loaded(x)
    <3>1. x \notin swappedOut /\ swappedOut' = swappedOut
      BY <1>11, <1>12, <1>13, <2>2 DEF swappedOut
    <3>2. \A w \in swappedOut : td'[w].m_swapChunk = td[w].m_swapChunk
      BY <2>1, <3>1
    <3>3. QED
      BY <1>7, <2>2, <3>1, <3>2, FiledSame DEF Placed
  <2>3. CASE ~loaded(x)
    <3>1. x \in swappedOut /\ swappedOut' = swappedOut \ {x}
      BY <1>4, <1>11, <1>12, <1>13, <2>3 DEF swappedOut
    <3>2. QED
      BY <1>7, <2>1, <2>3, <3>1, FiledLoses DEF Placed
  <2>4. QED
    BY <2>2, <2>3
<1>22. QED
  BY <1>16, <1>17, <1>18, <1>19, <1>20, <1>21 DEF Placed

-------------------------------------------------------------------------------
(***************************************************************************)
(* New tile data.                                                          *)
(***************************************************************************)
\* Nobody has blocked tile data without users, but for the pooler.
LEMMA UnusedBlocked ==
    ASSUME Ordered, NEW x \in TileData, tileUsers(x) = 0, at[Pooler].td # x
    PROVE  blockers(x) = 0
<1>1. showing(x) = {} /\ aging(x) = {} /\ owning(x) = {}
  BY UsersCounted
<1>2. blocked(x) = {}
  BY <1>1 DEF blocked, showing
<1>3. blocking(x) = {}
  <2>1. SUFFICES ASSUME NEW t \in Threads, at[t].td = x, blocks(at[t]) PROVE FALSE
    BY DEF blocking
  <2>2. at[t] \in AgentRecord /\ ThreadShape(at[t])
    BY ThreadRecord
  <2>3. CASE where(at[t]) = "copy"
    <3>1. at[t].tile # NoTile
      BY <2>2, <2>3 DEF ThreadShape, frees
    <3>2. at[t].tile \in Tiles
      BY <3>1, UsedTile
    <3>3. tile[at[t].tile].m_tileData = x
      BY <2>1, <2>3, <3>2 DEF Ordered, TilesLocked, TileShared
    <3>4. QED
      BY <1>1, <3>2, <3>3 DEF showing
  <2>4. CASE where(at[t]) = "install"
    <3>1. at[t].pc = "install"
      BY <2>2, <2>4 DEF where, AgentRecord
    <3>2. QED
      BY <1>1, <2>1, <3>1 DEF owning, ownsCopy
  <2>5. QED
    BY <2>1, <2>3, <2>4 DEF blocks
<1>4. QED
  BY <1>1, <1>2, <1>3, BlockersKnown

\* Nobody has blocked tile data that does not exist, and it is not in the list.
LEMMA FreshBlocked ==
    ASSUME Ordered, Counted, Placed, NEW x \in TileData, ~td[x].exists
    PROVE  td[x].readers = 0 /\ td[x].listed = FALSE /\ at[Pooler].td # x
<1>1. td[x].listed = FALSE
  BY DEF Placed, Listed, ObjectsTyped, Object
<1>2. at[Pooler].td # x
  <2>1. x # NoTileData
    BY StoreAssumption
  <2>2. QED
    BY <1>1, <2>1 DEF Placed, Listed
<1>3. tileUsers(x) = 0
  BY FreshData
<1>4. blockers(x) = 0
  BY <1>2, <1>3, UnusedBlocked
<1>5. QED
  BY <1>1, <1>2, <1>4 DEF Placed, ReadersCounted

\* Tile data that comes into being in the hands of a thread.
LEMMA MadePlaced ==
    ASSUME Ordered, Ordered', Counted, Placed, NEW t \in Threads, NEW s, Moves(t, s),
           at[t].pc # "register", s.pc = "register", ~blocks(s),
           NEW y \in TileData, s.td = y, ~td[y].exists,
           NEW data \in SUBSET (1..MaxWrites), td'[y] = NewTileData(data),
           NEW x \in TileData, x # y, td' \in [TileData -> Object],
           \A w \in TileData : w # y =>
                /\ td'[w].exists = td[w].exists
                /\ td'[w].m_data = td[w].m_data
                /\ td'[w].listed = td[w].listed
                /\ td'[w].m_swapChunk = td[w].m_swapChunk
                /\ w # x => td'[w].readers = td[w].readers,
           td'[x].readers = td[x].readers - bit(blocks(at[t])),
           blocks(at[t]) => at[t].td = x,
           UNCHANGED <<tile, pass, preclone, swapVars>>
    PROVE  Placed'
<1>1. /\ at'[t] = s /\ \A a \in Agents : a # t => at'[a] = at[a]
      /\ at'[Pooler] = at[Pooler] /\ Pooler \in Agents
      /\ Threads \subseteq Agents /\ t \in Agents
  BY StoreAssumption DEF Moves, Agents
<1>2. td[y].readers = 0 /\ td[y].listed = FALSE /\ at[Pooler].td # y
  BY FreshBlocked
<1>3. \A u \in Threads : ~busy(u, y)
  BY FreshData
<1>4. \A w : w # y => (beingMade(w)' <=> beingMade(w))
  BY <1>1 DEF beingMade
<1>5. beingMade(y)'
  BY <1>1 DEF beingMade
<1>6. /\ td'[y].exists = TRUE /\ td'[y].m_data = data /\ td'[y].listed = FALSE
      /\ td'[y].readers = 0 /\ td'[y].m_swapChunk = NoChunk
  <2>1. PICK new : new = NewTileData(data)
    OBVIOUS
  <2>2. /\ new.exists = TRUE /\ new.m_data = data /\ new.listed = FALSE
        /\ new.readers = 0 /\ new.m_swapChunk = NoChunk
    BY <2>1 DEF NewTileData
  <2>3. QED
    BY <2>1, <2>2
<1>7. loaded(y)' /\ \A w \in TileData : w # y => (loaded(w)' <=> loaded(w))
  BY <1>6, StoreAssumption DEF loaded
<1>8. ObjectsTyped'
  BY <1>1 DEF Placed, ObjectsTyped
<1>9. Listed'
  <2>1. at[Pooler].td # NoTileData => at[Pooler].td \in TileData
    BY <1>1 DEF Ordered, Control, AgentRecord
  <2>2. QED
    BY <1>1, <1>2, <1>4, <1>6, <2>1 DEF Placed, Listed
<1>10. \A w \in TileData : td[w].readers \in Int
  BY BlockersFinite DEF Placed, ReadersCounted
<1>11. ASSUME NEW w \in TileData PROVE td'[w].readers = blockers(w)'
  <2>1. Cardinality(aging(w)') = Cardinality(aging(w)) + 0
    BY OldSame
  <2>2. Cardinality(blocked(w)') = Cardinality(blocked(w)) + 0
    BY BlockedSame DEF inUse
  <2>3. PICK c \in Int : /\ c = bit(s.td = w /\ blocks(s)) - bit(at[t].td = w /\ blocks(at[t]))
                         /\ c = IF w = x THEN 0 - bit(blocks(at[t])) ELSE 0
    BY DEF bit
  <2>4. td'[w].readers = td[w].readers + (0 + 0 + c)
    <3>1. CASE w = x
      <4>1. bit(blocks(at[t])) \in Int
        BY DEF bit
      <4>2. QED
        BY <1>10, <2>3, <3>1, <4>1
    <3>2. CASE w = y
      BY <1>2, <1>6, <2>3, <3>2
    <3>3. CASE w # x /\ w # y
      BY <1>10, <2>3, <3>3
    <3>4. QED
      BY <3>1, <3>2, <3>3
  <2>5. QED
    BY <2>1, <2>2, <2>3, <2>4, ReadersStep DEF Placed
<1>12. ReadersCounted'
  BY <1>11 DEF ReadersCounted
<1>13. InMemory'
  <2>1. ASSUME NEW w \in TileData, w # y
        PROVE  /\ td'[w].readers # 0 => loaded(w)'
               /\ beingMade(w)' => loaded(w)'
               /\ td'[w].listed => loaded(w)'
               /\ td'[w].exists /\ loaded(w)' => td'[w].listed \/ beingMade(w)'
               /\ td'[w].exists => (loaded(w)' <=> td'[w].m_swapChunk = NoChunk)
    <3>1. td'[w].readers # 0 => td[w].readers # 0
      <4>1. CASE w = x /\ blocks(at[t])
        <5>1. t \in blocking(w)
          BY <4>1 DEF blocking
        <5>2. QED
          BY <5>1, BlockedLoaded
      <4>2. CASE ~(w = x /\ blocks(at[t]))
        <5>1. td'[w].readers = td[w].readers
          BY <1>10, <2>1, <4>2 DEF bit
        <5>2. QED
          BY <5>1
      <4>3. QED
        BY <4>1, <4>2
    <3>2. QED
      BY <1>4, <1>7, <2>1, <3>1 DEF Placed, InMemory
  <2>2. QED
    BY <1>5, <1>6, <1>7, <2>1 DEF InMemory
<1>14. Visited'
  <2>1. \A w \in TileData : td[w].listed => td'[w].listed
    BY <1>2
  <2>2. \A u \in Threads : at'[u].pc = "loadWrite" => u # t /\ at'[u].loading \in TileData \ {y}
    <3>1. ASSUME NEW u \in Threads, at'[u].pc = "loadWrite"
          PROVE  u # t /\ at'[u].loading \in TileData \ {y}
      <4>1. u # t /\ at'[u] = at[u]
        BY <1>1, <3>1
      <4>2. loads(at[u])
        BY <3>1, <4>1 DEF loads, where, LoadLabels, SwapLabels
      <4>3. at[u].loading \in TileData /\ td[at[u].loading].exists = TRUE
        BY <4>2, LoadingData
      <4>4. QED
        BY <4>1, <4>3
    <3>2. QED
      BY <3>1
  <2>3. \A a \in Agents : at'[a].pc \in {"softPass", "hardPass"} => at[a].pc = at'[a].pc
    BY <1>1
  <2>4. QED
    BY <1>1, <1>7, <2>1, <2>2, <2>3 DEF Placed, Visited
<1>15. Filed'
  <2>1. swappedOut' = swappedOut /\ y \notin swappedOut
    BY <1>7 DEF swappedOut
  <2>2. \A w \in swappedOut : td'[w].m_swapChunk = td[w].m_swapChunk
    BY <2>1 DEF swappedOut
  <2>3. QED
    BY <2>1, <2>2, FiledSame DEF Placed
<1>16. QED
  BY <1>8, <1>9, <1>12, <1>13, <1>14, <1>15 DEF Placed

\* The data of a tile that is in use exists.
LEMMA UsedExists ==
    ASSUME Ordered, Counted, NEW y \in Tiles, NEW x \in TileData, tile[y].m_tileData = x
    PROVE  td[x].exists = TRUE
<1>1. y \in showing(x)
  BY DEF showing
<1>2. /\ tileUsers(x) \in Nat /\ indexUsers(x) \in Nat /\ tileUsers(x) # 0
      /\ td[x].m_refCount = tileUsers(x) + indexUsers(x)
  BY <1>1, UsersCounted DEF Counted
<1>3. td[x].m_refCount # 0
  BY <1>2
<1>4. QED
  BY <1>3, ReferencedData

\* A pre-clone becomes an object in memory.
LEMMA PopClonePlaced ==
    ASSUME Ordered, Ordered', Counted, Placed, NEW t \in Threads, popClone(t)
    PROVE  Placed'
<1>1. /\ at[t] \in AgentRecord /\ ThreadShape(at[t]) /\ at[t].pc = "clone"
      /\ at \in [Agents -> AgentRecord] /\ t \in Agents
  BY ThreadRecord DEF popClone
<1>2. at[t].tile # NoTile /\ ~blocks(at[t])
  BY <1>1 DEF ThreadShape, where, frees, blocks, CopyLabels, SwapLabels
<1>3. PICK x \in TileData : x = tile[at[t].tile].m_tileData /\ at[t].tile \in Tiles
  BY <1>2, UsedTile
<1>4. PICK clones : clones = td[x].m_clonesStack
  OBVIOUS
<1>5. PICK y \in TileData :
        /\ isFresh(y) /\ clones # <<>>
        /\ td' = [td EXCEPT ![x].m_clonesStack = Front(clones), ![y] = NewTileData(Last(clones))]
        /\ at' = [at EXCEPT ![t].pc = "register", ![t].td = y]
        /\ UNCHANGED <<tile, pass, preclone, swapVars>>
  BY <1>3, <1>4 DEF popClone
<1>6. ~td[y].exists /\ x # y
  BY <1>3, <1>5, UsedExists DEF isFresh
<1>7. td \in [TileData -> Object] /\ td[x] \in Object /\ td[y] \in Object
  BY DEF Placed, ObjectsTyped
<1>8. Last(clones) \in SUBSET (1..MaxWrites) /\ Front(clones) \in Seq(SUBSET (1..MaxWrites))
  <2>1. clones \in Seq(SUBSET (1..MaxWrites))
    BY <1>4, <1>7 DEF Object
  <2>2. PICK S : S = SUBSET (1..MaxWrites)
    OBVIOUS
  <2>3. clones \in Seq(S) /\ clones # <<>>
    BY <1>5, <2>1, <2>2
  <2>4. Len(clones) \in 1..Len(clones)
    BY <2>3
  <2>5. Last(clones) \in S
    BY <2>3, <2>4 DEF Last
  <2>6. Front(clones) \in Seq(S)
    BY <2>3 DEF Front
  <2>7. QED
    BY <2>2, <2>5, <2>6
<1>9. PICK data \in SUBSET (1..MaxWrites) : data = Last(clones)
  BY <1>8
<1>10. PICK left : left = Front(clones)
  OBVIOUS
<1>11. PICK r : r = [td[x] EXCEPT !.m_clonesStack = left]
  OBVIOUS
<1>12. /\ r \in Object /\ r.exists = td[x].exists /\ r.m_data = td[x].m_data /\ r.listed = td[x].listed
       /\ r.m_swapChunk = td[x].m_swapChunk /\ r.readers = td[x].readers
  BY <1>7, <1>8, <1>10, <1>11 DEF Object
<1>13. PICK new : new = NewTileData(data)
  OBVIOUS
<1>14. new \in Object
  BY <1>13 DEF NewTileData, Object
<1>15. td' = [[td EXCEPT ![x] = r] EXCEPT ![y] = new]
  <2>1. td' = [[td EXCEPT ![x].m_clonesStack = left] EXCEPT ![y] = new]
    BY <1>5, <1>9, <1>10, <1>13
  <2>2. [td EXCEPT ![x].m_clonesStack = left] = [td EXCEPT ![x] = r]
    BY <1>7, <1>11
  <2>3. QED
    BY <2>1, <2>2
<1>16. /\ td' \in [TileData -> Object] /\ td'[y] = new /\ td'[x] = r
       /\ \A w \in TileData : w # x /\ w # y => td'[w] = td[w]
  BY <1>6, <1>7, <1>12, <1>14, <1>15
<1>17. PICK s : s = [at[t] EXCEPT !.pc = "register", !.td = y]
  OBVIOUS
<1>18. s.pc = "register" /\ s.td = y /\ ~blocks(s) /\ Moves(t, s)
  <2>1. at' = [at EXCEPT ![t] = s]
    BY <1>1, <1>5, <1>17
  <2>2. s.pc = "register" /\ s.td = y
    BY <1>1, <1>17 DEF AgentRecord
  <2>3. QED
    BY <1>1, <2>1, <2>2 DEF Moves, blocks, where, SwapLabels
<1>19. td'[x].readers = td[x].readers - bit(blocks(at[t]))
  <2>1. td[x].readers \in Int /\ bit(blocks(at[t])) = 0
    BY <1>2, <1>7 DEF Object, bit
  <2>2. QED
    BY <1>12, <1>16, <2>1
<1>20. \A w \in TileData : w # y =>
                /\ td'[w].exists = td[w].exists
                /\ td'[w].m_data = td[w].m_data
                /\ td'[w].listed = td[w].listed
                /\ td'[w].m_swapChunk = td[w].m_swapChunk
                /\ w # x => td'[w].readers = td[w].readers
  BY <1>12, <1>16
<1>21. QED
  BY <1>1, <1>2, <1>5, <1>6, <1>9, <1>13, <1>16, <1>18, <1>19, <1>20, MadePlaced

\* A copy becomes an object in memory, and the read lock of the copier is given back.
LEMMA CopyDataPlaced ==
    ASSUME Ordered, Ordered', Counted, Placed, NEW t \in Threads, copyTileData(t)
    PROVE  Placed'
<1>1. /\ at[t] \in AgentRecord /\ ThreadShape(at[t]) /\ at[t].pc = "copy"
      /\ at \in [Agents -> AgentRecord] /\ t \in Agents
  BY ThreadRecord DEF copyTileData
<1>2. at[t].tile # NoTile /\ blocks(at[t]) /\ where(at[t]) = "copy"
  BY <1>1 DEF ThreadShape, where, frees, blocks, CopyLabels, SwapLabels
<1>3. at[t].tile \in Tiles /\ tile[at[t].tile].m_tileData \in TileData
  BY <1>2, UsedTile
<1>4. PICK x \in TileData : x = at[t].td /\ x = tile[at[t].tile].m_tileData
  BY <1>2, <1>3 DEF Ordered, TilesLocked, TileShared
<1>5. PICK y \in TileData :
        /\ isFresh(y)
        /\ td' = unblocked([td EXCEPT ![y] = NewTileData(td[x].m_data)], x)
        /\ at' = [at EXCEPT ![t].pc = "register", ![t].td = y]
        /\ UNCHANGED <<tile, pass, preclone, swapVars>>
  BY <1>4 DEF copyTileData
<1>6. ~td[y].exists /\ x # y
  BY <1>3, <1>4, <1>5, UsedExists DEF isFresh
<1>7. td \in [TileData -> Object] /\ td[x] \in Object
  BY DEF Placed, ObjectsTyped
<1>8. loaded(x)
  <2>1. t \in blocking(x)
    BY <1>2, <1>4 DEF blocking
  <2>2. QED
    BY <2>1, BlockedLoaded
<1>9. PICK data \in SUBSET (1..MaxWrites) : data = td[x].m_data
  BY <1>7, <1>8 DEF Object, loaded
<1>10. PICK r : r = [td[x] EXCEPT !.readers = @ - 1]
  OBVIOUS
<1>11. /\ r \in Object /\ r.exists = td[x].exists /\ r.m_data = td[x].m_data /\ r.listed = td[x].listed
       /\ r.m_swapChunk = td[x].m_swapChunk /\ r.readers = td[x].readers - 1
  <2>1. td[x].readers - 1 \in Int
    BY <1>7 DEF Object
  <2>2. QED
    BY <1>7, <1>10, <2>1 DEF Object
<1>12. PICK new : new = NewTileData(data)
  OBVIOUS
<1>13. new \in Object
  BY <1>12 DEF NewTileData, Object
<1>14. td' = [[td EXCEPT ![y] = new] EXCEPT ![x] = r]
  <2>1. PICK z : z = [td EXCEPT ![y] = new]
    OBVIOUS
  <2>2. td' = [z EXCEPT ![x].readers = @ - 1]
    BY <1>5, <1>9, <1>12, <2>1 DEF unblocked
  <2>3. z[x] = td[x] /\ x \in DOMAIN z
    BY <1>6, <1>7, <2>1
  <2>4. QED
    BY <1>10, <2>1, <2>2, <2>3
<1>15. /\ td' \in [TileData -> Object] /\ td'[y] = new /\ td'[x] = r
       /\ \A w \in TileData : w # x /\ w # y => td'[w] = td[w]
  BY <1>6, <1>7, <1>11, <1>13, <1>14
<1>16. PICK s : s = [at[t] EXCEPT !.pc = "register", !.td = y]
  OBVIOUS
<1>17. s.pc = "register" /\ s.td = y /\ ~blocks(s) /\ Moves(t, s)
  <2>1. at' = [at EXCEPT ![t] = s]
    BY <1>1, <1>5, <1>16
  <2>2. s.pc = "register" /\ s.td = y
    BY <1>1, <1>16 DEF AgentRecord
  <2>3. QED
    BY <1>1, <2>1, <2>2 DEF Moves, blocks, where, SwapLabels
<1>18. td'[x].readers = td[x].readers - bit(blocks(at[t]))
  <2>1. bit(blocks(at[t])) = 1
    BY <1>2 DEF bit
  <2>2. QED
    BY <1>11, <1>15, <2>1
<1>19. \A w \in TileData : w # y =>
                /\ td'[w].exists = td[w].exists
                /\ td'[w].m_data = td[w].m_data
                /\ td'[w].listed = td[w].listed
                /\ td'[w].m_swapChunk = td[w].m_swapChunk
                /\ w # x => td'[w].readers = td[w].readers
  BY <1>11, <1>15
<1>20. /\ at[t].pc # "register" /\ td'[y] = NewTileData(data)
       /\ blocks(at[t]) => at[t].td = x
       /\ UNCHANGED <<tile, pass, preclone, swapVars>>
       /\ td' \in [TileData -> Object]
  BY <1>1, <1>4, <1>5, <1>12, <1>15
<1>21. QED
  BY <1>6, <1>17, <1>18, <1>19, <1>20, MadePlaced

\* The new object is listed, and may be swapped out from now on.
LEMMA RegisterPlaced ==
    ASSUME Ordered, Ordered', Counted, Placed, NEW t \in Threads, registerTileData(t)
    PROVE  Placed'
<1>1. /\ at[t] \in AgentRecord /\ ThreadShape(at[t]) /\ at[t].pc = "register"
      /\ at \in [Agents -> AgentRecord] /\ t \in Agents
  BY ThreadRecord DEF registerTileData
<1>2. at[t].td \in TileData /\ ~blocks(at[t]) /\ makes(at[t])
  BY <1>1 DEF makes, blocks, copies, where, ThreadShape, AgentRecord, SwapLabels, CopyLabels
<1>3. PICK x \in TileData : x = at[t].td /\ busy(t, x)
  BY <1>2 DEF busy
<1>4. td[x].exists = TRUE /\ ~\E u \in Threads : u # t /\ busy(u, x)
  BY <1>3, BusyData
<1>5. loaded(x)
  BY <1>1, <1>3 DEF Placed, InMemory, beingMade
<1>6. td \in [TileData -> Object] /\ td[x] \in Object
  BY DEF Placed, ObjectsTyped
<1>7. PICK r : r = [td[x] EXCEPT !.listed = TRUE]
  OBVIOUS
<1>8. PICK objects : objects = [td EXCEPT ![x] = r]
  OBVIOUS
<1>9. PICK s : s = [at[t] EXCEPT !.pc = "blockNew"]
  OBVIOUS
<1>10. /\ td' = acquired(objects, x)
       /\ at' = [at EXCEPT ![t] = s]
       /\ UNCHANGED <<tile, pass, preclone, swapVars>>
  BY <1>3, <1>7, <1>8, <1>9 DEF registerTileData, goto
<1>11. /\ r \in Object /\ r.exists = td[x].exists /\ r.m_data = td[x].m_data /\ r.listed = TRUE
       /\ r.m_swapChunk = td[x].m_swapChunk /\ r.readers = td[x].readers
  BY <1>6, <1>7 DEF Object
<1>12. /\ objects \in [TileData -> Object] /\ objects[x] = r
       /\ \A w \in TileData : w # x => objects[w] = td[w]
  BY <1>6, <1>8, <1>11
<1>13. /\ td' \in [TileData -> Object] /\ td'[x].listed = TRUE
       /\ \A w \in TileData :
            /\ td'[w].exists = td[w].exists
            /\ td'[w].m_data = td[w].m_data
            /\ w # x => td'[w].listed = td[w].listed
            /\ td'[w].m_swapChunk = td[w].m_swapChunk
            /\ td'[w].readers = td[w].readers
  <2>1. /\ td' \in [TileData -> Object]
        /\ \A w \in TileData :
            /\ td'[w].exists = objects[w].exists
            /\ td'[w].m_data = objects[w].m_data
            /\ td'[w].listed = objects[w].listed
            /\ td'[w].m_swapChunk = objects[w].m_swapChunk
            /\ td'[w].readers = objects[w].readers
    BY <1>10, <1>12, AcquiredFields
  <2>2. QED
    BY <1>11, <1>12, <2>1
<1>14. \A w \in TileData : loaded(w)' <=> loaded(w)
  BY <1>13 DEF loaded
<1>15. s.pc = "blockNew" /\ ~blocks(s) /\ Moves(t, s)
  <2>1. s.pc = "blockNew"
    BY <1>1, <1>9 DEF AgentRecord
  <2>2. QED
    BY <1>1, <1>10, <2>1 DEF Moves, blocks, where, SwapLabels
<1>16. at'[t] = s /\ \A a \in Agents : a # t => at'[a] = at[a]
  BY <1>15 DEF Moves
<1>17. Pooler \in Agents /\ at'[Pooler] = at[Pooler] /\ Threads \subseteq Agents
  BY <1>16, StoreAssumption DEF Agents
<1>18. ~beingMade(x)' /\ \A w : w # x => (beingMade(w)' <=> beingMade(w))
  <2>1. \A u \in Threads : at[u].pc = "register" => makes(at[u])
    BY DEF makes, where, SwapLabels
  <2>2. \A u \in Threads : u # t => at[u].pc # "register" \/ at[u].td # x
    BY <1>4, <2>1 DEF busy
  <2>3. QED
    BY <1>1, <1>3, <1>15, <1>16, <1>17, <2>2 DEF beingMade
<1>19. ObjectsTyped'
  BY <1>10, <1>13, <1>17 DEF Placed, ObjectsTyped
<1>20. Listed'
  <2>1. at[Pooler].td # NoTileData => at[Pooler].td \in TileData
    BY <1>1, <1>17 DEF AgentRecord
  <2>2. QED
    BY <1>4, <1>13, <1>17, <1>18, <2>1 DEF Placed, Listed
<1>21. ReadersCounted'
  <2>1. \A z \in Tiles : inUse(z)' = inUse(z)
    BY <1>10 DEF inUse
  <2>2. QED
    BY <1>2, <1>10, <1>13, <1>15, <2>1, ReadersSame DEF Placed
<1>22. InMemory'
  <2>1. ASSUME NEW w \in TileData, w # x
        PROVE  /\ td'[w].readers # 0 => loaded(w)'
               /\ beingMade(w)' => loaded(w)'
               /\ td'[w].listed => loaded(w)'
               /\ td'[w].exists /\ loaded(w)' => td'[w].listed \/ beingMade(w)'
               /\ td'[w].exists => (loaded(w)' <=> td'[w].m_swapChunk = NoChunk)
    BY <1>13, <1>14, <1>18, <2>1 DEF Placed, InMemory
  <2>2. td'[x].exists => (loaded(x)' <=> td'[x].m_swapChunk = NoChunk)
    BY <1>13, <1>14 DEF Placed, InMemory
  <2>3. QED
    BY <1>5, <1>13, <1>14, <1>18, <2>1, <2>2 DEF InMemory
<1>23. Visited'
  <2>1. \A w \in TileData : td[w].listed => td'[w].listed
    BY <1>13
  <2>2. \A u \in Threads : at'[u].pc = "loadWrite" => u # t /\ at'[u] = at[u] /\ at'[u].loading \in TileData
    <3>1. ASSUME NEW u \in Threads, at'[u].pc = "loadWrite"
          PROVE  u # t /\ at'[u] = at[u] /\ at'[u].loading \in TileData
      <4>1. u # t /\ at'[u] = at[u]
        BY <1>15, <1>16, <1>17, <3>1
      <4>2. loads(at[u])
        BY <3>1, <4>1 DEF loads, where, LoadLabels, SwapLabels
      <4>3. QED
        BY <4>1, <4>2, LoadingData
    <3>2. QED
      BY <3>1
  <2>3. \A a \in Agents : at'[a].pc \in {"softPass", "hardPass"} => at[a].pc = at'[a].pc
    BY <1>15, <1>16
  <2>4. QED
    BY <1>10, <1>14, <2>1, <2>2, <2>3 DEF Placed, Visited
<1>24. Filed'
  <2>1. swappedOut' = swappedOut
    BY <1>13, <1>14 DEF swappedOut
  <2>2. \A w \in swappedOut : td'[w].m_swapChunk = td[w].m_swapChunk
    BY <1>13 DEF swappedOut
  <2>3. QED
    BY <1>10, <2>1, <2>2, FiledSame DEF Placed
<1>25. QED
  BY <1>19, <1>20, <1>21, <1>22, <1>23, <1>24 DEF Placed

-------------------------------------------------------------------------------
\* The data that a writer points to is in memory, whoever has installed a copy
\* in the meantime.
LEMMA PointerLoaded ==
    ASSUME Ordered, Placed, NEW t \in Threads, points(at[t])
    PROVE  at[t].td \in TileData /\ loaded(at[t].td)
<1>1. at[t] \in AgentRecord /\ ThreadShape(at[t]) /\ at[t].pc \in {"writing", "wrote"}
  BY ThreadRecord DEF points, where, AgentRecord
<1>2. at[t].tile # NoTile /\ ~releases(at[t]) /\ ~locks(at[t]) /\ at[t].td # NoTileData
  BY <1>1 DEF ThreadShape, points, where, frees, releases, locks, loads, SwapLabels, LoadLabels
<1>3. PICK y \in Tiles : y = at[t].tile
  BY <1>2, UsedTile
<1>4. PICK x \in TileData : x = at[t].td
  BY <1>1, <1>2 DEF AgentRecord
<1>5. \/ x = tile[y].m_tileData
      \/ \E k \in DOMAIN tile[y].m_oldTileData : tile[y].m_oldTileData[k] = x
  BY <1>3, <1>4 DEF Ordered, TilesLocked, TileShared
<1>6. CASE x = tile[y].m_tileData
  <2>1. y \in blocked(x)
    BY <1>2, <1>3, <1>6, UserBlocks DEF blocked
  <2>2. QED
    BY <1>4, <2>1, BlockedLoaded
<1>7. CASE \E k \in DOMAIN tile[y].m_oldTileData : tile[y].m_oldTileData[k] = x
  <2>1. aging(x) # {}
    BY <1>7, Aging
  <2>2. QED
    BY <1>4, <2>1, BlockedLoaded
<1>8. QED
  BY <1>5, <1>6, <1>7

\* A write to data in memory leaves it there.
LEMMA WritePixelPlaced ==
    ASSUME Ordered, Ordered', Placed, NEW t \in Threads, writePixel(t)
    PROVE  Placed'
<1>1. /\ at[t] \in AgentRecord /\ ThreadShape(at[t]) /\ at[t].pc = "writing"
      /\ at \in [Agents -> AgentRecord] /\ t \in Agents
  BY ThreadRecord DEF writePixel
<1>2. points(at[t]) /\ ~blocks(at[t]) /\ at[t].tile # NoTile
  BY <1>1 DEF points, blocks, where, ThreadShape, frees, SwapLabels
<1>3. PICK x \in TileData : x = at[t].td /\ loaded(x)
  BY <1>2, PointerLoaded
<1>4. PICK y \in Tiles : y = at[t].tile
  BY <1>2, UsedTile
<1>5. PICK s : s = [at[t] EXCEPT !.pc = "wrote"]
  OBVIOUS
<1>6. PICK number : number = written'
  OBVIOUS
<1>7. PICK r : r = [td[x] EXCEPT !.m_data = @ \cup {number}]
  OBVIOUS
<1>8. /\ td' = [td EXCEPT ![x] = r]
      /\ tile' = [tile EXCEPT ![y].expected = @ \cup {number}]
      /\ at' = [at EXCEPT ![t] = s]
      /\ UNCHANGED <<pass, preclone, swapVars>>
      /\ number = written + 1
  BY <1>3, <1>4, <1>5, <1>6, <1>7 DEF writePixel, goto
<1>9. number \in 1..MaxWrites
  <2>1. written \in Nat
    BY DEF Ordered, WritesBounded
  <2>2. PICK n \in Nat : n = Cardinality({u \in Threads : writes(at'[u])})
    BY StoreAssumption, Counts
  <2>3. number + n <= MaxWrites /\ MaxWrites \in Nat
    BY <1>6, <2>2, StoreAssumption DEF Ordered, WritesBounded
  <2>4. QED
    BY <1>8, <2>1, <2>2, <2>3
<1>10. td \in [TileData -> Object] /\ td[x] \in Object
  BY DEF Placed, ObjectsTyped
<1>11. td[x].m_data \cup {number} \in SUBSET (1..MaxWrites)
  <2>1. td[x].m_data \in SUBSET (1..MaxWrites)
    BY <1>3, <1>10 DEF Object, loaded
  <2>2. QED
    BY <1>9, <2>1
<1>12. /\ r \in Object /\ r.exists = td[x].exists /\ r.m_data \in SUBSET (1..MaxWrites)
       /\ r.listed = td[x].listed
       /\ r.m_swapChunk = td[x].m_swapChunk /\ r.readers = td[x].readers
  BY <1>7, <1>10, <1>11 DEF Object
<1>13. td' \in [TileData -> Object] /\ td'[x] = r /\ \A w \in TileData : w # x => td'[w] = td[w]
  BY <1>8, <1>10, <1>12
<1>14. PlacesKept
  <2>1. td'[x].m_data # NoData /\ td[x].m_data # NoData
    BY <1>3, <1>12, <1>13, StoreAssumption DEF loaded
  <2>2. QED
    BY <1>12, <1>13, <2>1 DEF PlacesKept
<1>15. s.pc = "wrote" /\ ~blocks(s) /\ Moves(t, s)
  <2>1. s.pc = "wrote"
    BY <1>1, <1>5 DEF AgentRecord
  <2>2. QED
    BY <1>1, <1>8, <2>1 DEF Moves, blocks, where, SwapLabels
<1>16. \A w \in TileData : td'[w].readers = td[w].readers
  BY <1>12, <1>13
<1>17. ASSUME NEW z \in Tiles
       PROVE  /\ tile'[z].m_tileData = tile[z].m_tileData
              /\ tile'[z].m_oldTileData = tile[z].m_oldTileData
              /\ inUse(z)' = inUse(z)
  <2>1. tile \in [Tiles -> KisTile]
    BY DEF Ordered, TilesLocked
  <2>2. /\ tile'[z].m_tileData = tile[z].m_tileData /\ tile'[z].m_oldTileData = tile[z].m_oldTileData
        /\ tile'[z].m_lockCounter = tile[z].m_lockCounter
        /\ tile'[z].m_swapBarrierLock = tile[z].m_swapBarrierLock
    BY <1>8, <2>1 DEF KisTile
  <2>3. QED
    BY <2>2 DEF inUse
<1>18. ReadersCounted'
  BY <1>2, <1>15, <1>16, <1>17, ReadersSame DEF Placed
<1>19. QED
  BY <1>1, <1>8, <1>13, <1>14, <1>15, <1>16, <1>18, PlacidStep

-------------------------------------------------------------------------------
(***************************************************************************)
(* The swapper and the pooler.  To the threads that use tiles they are     *)
(* bystanders.                                                             *)
(***************************************************************************)
Bystanding ==
    /\ UNCHANGED tile
    /\ \A u \in Threads :
        /\ at'[u].td = at[u].td
        /\ blocks(at'[u]) <=> blocks(at[u])
        /\ at'[u].pc = "register" <=> at[u].pc = "register"
        /\ at'[u].pc = "loadWrite" => at[u].pc = "loadWrite" /\ at'[u].loading = at[u].loading

\* To a bystander the blockers are those of the threads and the pooler.
LEMMA BystandersCounted ==
    ASSUME Ordered, Bystanding, NEW x
    PROVE  /\ blockers(x)' = Cardinality(blocked(x)) + Cardinality(aging(x)) + Cardinality(blocking(x))
                                + bit(at'[Pooler].td = x)
           /\ beingMade(x)' <=> beingMade(x)
<1>1. blocked(x)' = blocked(x)
  BY DEF Bystanding, blocked, inUse
<1>2. aging(x)' = aging(x)
  BY AgingSame DEF Bystanding
<1>3. blocking(x)' = blocking(x)
  BY DEF Bystanding, blocking
<1>4. beingMade(x)' <=> beingMade(x)
  BY DEF Bystanding, beingMade
<1>5. QED
  BY <1>1, <1>2, <1>3, <1>4 DEF blockers

\* The read lock of the pooler is the only one that a bystander takes.
LEMMA BystandersStep ==
    ASSUME Ordered, Placed, Bystanding, NEW x \in TileData, NEW c \in Int,
           c = bit(at'[Pooler].td = x) - bit(at[Pooler].td = x),
           td'[x].readers = td[x].readers + c
    PROVE  td'[x].readers = blockers(x)'
<1>1. PICK k \in Nat : k = Cardinality(blocked(x))
  BY BlockersFinite
<1>2. PICK l \in Nat : l = Cardinality(aging(x))
  BY BlockersFinite
<1>3. PICK m \in Nat : m = Cardinality(blocking(x))
  BY BlockersFinite
<1>4. PICK n \in Nat : n = bit(at[Pooler].td = x)
  BY DEF bit
<1>5. PICK o \in Nat : o = bit(at'[Pooler].td = x)
  BY DEF bit
<1>6. td[x].readers = k + l + m + n
  BY <1>1, <1>2, <1>3, <1>4 DEF Placed, ReadersCounted, blockers
<1>7. blockers(x)' = k + l + m + o
  BY <1>1, <1>2, <1>3, <1>5, BystandersCounted
<1>8. QED
  BY <1>4, <1>5, <1>6, <1>7

\* A step of the swapper or the pooler that moves no data.
LEMMA BystandersPlaced ==
    ASSUME Ordered, Ordered', Placed, Bystanding, PlacesKept, ObjectsTyped', Visited', UNCHANGED swapVars,
           at'[Pooler].td # NoTileData => at'[Pooler].td \in TileData /\ td[at'[Pooler].td].listed,
           \A w \in TileData : \E c \in Int :
                /\ c = bit(at'[Pooler].td = w) - bit(at[Pooler].td = w)
                /\ td'[w].readers = td[w].readers + c
    PROVE  Placed'
<1>1. ReadersCounted'
  BY BystandersStep DEF ReadersCounted
<1>2. \A w \in TileData : loaded(w)' <=> loaded(w)
  BY DEF PlacesKept, loaded
<1>3. \A w : beingMade(w)' <=> beingMade(w)
  BY BystandersCounted
<1>4. Listed'
  BY <1>3 DEF Placed, Listed, PlacesKept
<1>5. InMemory'
  <2>1. ASSUME NEW w \in TileData, td'[w].readers # 0 PROVE loaded(w)
    <3>1. blockers(w)' # 0
      BY <1>1, <2>1 DEF ReadersCounted
    <3>2. CASE at'[Pooler].td = w
      <4>1. w # NoTileData
        BY StoreAssumption
      <4>2. QED
        BY <3>2, <4>1 DEF Placed, InMemory
    <3>3. CASE at'[Pooler].td # w
      <4>1. ~(blocked(w) = {} /\ aging(w) = {} /\ blocking(w) = {})
        <5>1. SUFFICES ASSUME blocked(w) = {}, aging(w) = {}, blocking(w) = {} PROVE FALSE
          OBVIOUS
        <5>2. Cardinality(blocked(w)) = 0 /\ Cardinality(aging(w)) = 0 /\ Cardinality(blocking(w)) = 0
          BY <5>1, FS_EmptySet
        <5>3. bit(at'[Pooler].td = w) = 0
          BY <3>3 DEF bit
        <5>4. blockers(w)' = 0
          BY <5>2, <5>3, BystandersCounted
        <5>5. QED
          BY <3>1, <5>4
      <4>2. QED
        BY <4>1, BlockedLoaded
    <3>4. QED
      BY <3>2, <3>3
  <2>2. QED
    BY <1>2, <1>3, <2>1 DEF Placed, InMemory, PlacesKept
<1>6. Filed'
  <2>1. swappedOut' = swappedOut
    BY <1>2 DEF swappedOut, PlacesKept
  <2>2. \A w \in swappedOut : td'[w].m_swapChunk = td[w].m_swapChunk
    BY DEF swappedOut, PlacesKept
  <2>3. QED
    BY <2>1, <2>2, FiledSame DEF Placed
<1>7. QED
  BY <1>1, <1>4, <1>5, <1>6 DEF Placed

\* What is being visited or loaded is so still.
LEMMA VisitedKept ==
    ASSUME Ordered, Ordered', Placed, Bystanding, PlacesKept, pass'.candidates = pass.candidates,
           \A a \in Agents : at'[a].pc \in {"softPass", "hardPass"} => at[a].pc \in {"softPass", "hardPass"}
    PROVE  Visited'
<1>1. \A w \in TileData : (loaded(w)' <=> loaded(w)) /\ (td'[w].listed <=> td[w].listed)
  BY DEF PlacesKept, loaded
<1>2. ASSUME NEW u \in Threads, at'[u].pc = "loadWrite" PROVE ~loaded(at[u].loading)'
  <2>1. at[u].pc = "loadWrite" /\ at'[u].loading = at[u].loading
    BY <1>2 DEF Bystanding
  <2>2. at[u] \in AgentRecord /\ ThreadShape(at[u])
    BY ThreadRecord
  <2>3. at[u].loading \in TileData
    BY <2>1, <2>2 DEF ThreadShape, AgentRecord, loads, where, LoadLabels, SwapLabels
  <2>4. QED
    BY <1>1, <2>1, <2>3 DEF Placed, Visited
<1>3. QED
  BY <1>1, <1>2 DEF Placed, Visited

-------------------------------------------------------------------------------
\* What a swapping agent does to its own label.
LEMMA SwapBystanding ==
    ASSUME Ordered, NEW a \in Threads \cup {Swapper}, Swapping(a)
    PROVE  /\ Bystanding /\ a \in Agents /\ Pooler \in Agents /\ at'[Pooler] = at[Pooler]
           /\ \A b \in Agents : b # a => at'[b] = at[b]
<1>1. PICK s : /\ at' = [at EXCEPT ![a] = s] /\ SwapMove(a, at[a], s)
               /\ at[a].pc \in SwapLabels \cup {"idle"}
               /\ UNCHANGED <<tile, items, written>>
  BY SwapLocks
<1>2. at \in [Agents -> AgentRecord] /\ a \in Agents /\ Threads \subseteq Agents /\ Pooler \in Agents /\ Pooler # a
  BY StoreAssumption DEF Ordered, Control, Agents
<1>3. ASSUME NEW u \in Threads
      PROVE  /\ at'[u].td = at[u].td
             /\ blocks(at'[u]) <=> blocks(at[u])
             /\ at'[u].pc = "register" <=> at[u].pc = "register"
             /\ at'[u].pc = "loadWrite" => at[u].pc = "loadWrite" /\ at'[u].loading = at[u].loading
  <2>1. CASE u # a
    <3>1. at'[u] = at[u]
      BY <1>1, <1>2, <2>1
    <3>2. QED
      BY <3>1
  <2>2. CASE u = a
    <3>1. at[u] \in AgentRecord /\ ThreadShape(at[u]) /\ at[u].pc \in SwapLabels /\ at'[u] = s
      BY <1>1, <1>2, <2>2, StoreAssumption, ThreadRecord DEF SwapMove
    <3>2. /\ s \in AgentRecord /\ where(s) = where(at[u]) /\ s.td = at[u].td
          /\ s.pc \in SwapLabels \cup {"load", "copy"}
      <4>1. \/ \E pc \in SwapLabels : s = [at[u] EXCEPT !.pc = pc]
            \/ s = [at[u] EXCEPT !.pc = at[u].resume, !.resume = "idle"]
        BY <1>1, <2>2 DEF SwapMove
      <4>2. at[u].resume \in {"load", "copy"}
        BY <3>1 DEF ThreadShape, AgentRecord
      <4>3. s.pc \in SwapLabels \cup {"load", "copy"}
        BY <3>1, <4>1, <4>2 DEF AgentRecord
      <4>4. QED
        BY <3>1, <4>1, <4>3, SwapStep
    <3>3. QED
      BY <3>1, <3>2 DEF blocks, SwapLabels
  <2>3. QED
    BY <2>1, <2>2
<1>4. QED
  BY <1>1, <1>2, <1>3 DEF Bystanding

\* A swapping agent that moves no tile data.
LEMMA LookingOnPlaced ==
    ASSUME Ordered, Ordered', Placed, NEW a \in Threads \cup {Swapper}, Swapping(a), Visited',
           UNCHANGED <<td, preclone, swapVars>>
    PROVE  Placed'
<1>1. Bystanding /\ at'[Pooler] = at[Pooler] /\ at[Pooler] \in AgentRecord
  BY SwapBystanding DEF Ordered, Control, Agents
<1>2. PlacesKept
  BY DEF PlacesKept
<1>3. ObjectsTyped'
  BY <1>1 DEF Placed, ObjectsTyped
<1>4. at'[Pooler].td # NoTileData => at'[Pooler].td \in TileData /\ td[at'[Pooler].td].listed
  BY <1>1 DEF Placed, Listed, AgentRecord
<1>5. ASSUME NEW w \in TileData
      PROVE  \E c \in Int : /\ c = bit(at'[Pooler].td = w) - bit(at[Pooler].td = w)
                            /\ td'[w].readers = td[w].readers + c
  <2>1. bit(at'[Pooler].td = w) - bit(at[Pooler].td = w) = 0
    BY <1>1 DEF bit
  <2>2. td[w].readers \in Int
    BY BlockersFinite DEF Placed, ReadersCounted
  <2>3. td'[w].readers = td[w].readers + 0
    BY <2>2
  <2>4. QED
    BY <2>1, <2>3
<1>6. QED
  BY <1>1, <1>2, <1>3, <1>4, <1>5, BystandersPlaced

\* Listed data that nobody has blocked goes to a chunk of its own.
LEMMA SwapOutPlaced ==
    ASSUME Ordered, Ordered', Placed, NEW a \in Threads \cup {Swapper}, Swapping(a), NEW x \in TileData,
           at[a].pc \in {"softPass", "hardPass"}, x \in pass.candidates, td[x].readers = 0,
           swapOutTileData(x), pass'.candidates = pass.candidates \ {x},
           UNCHANGED <<at, tile, preclone>>
    PROVE  Placed'
<1>1. Bystanding /\ a \in Agents /\ Pooler \in Agents
  BY SwapBystanding
<1>2. td[x].listed /\ td[x].exists /\ ~beingMade(x) /\ loaded(x) /\ at[Pooler].td # x
  BY <1>1, BlockedLoaded DEF Placed, Visited, Listed, InMemory
<1>3. td \in [TileData -> Object] /\ td[x] \in Object
  BY DEF Placed, ObjectsTyped
<1>4. td[x].m_data \in SUBSET (1..MaxWrites)
  BY <1>2, <1>3 DEF Object, loaded
<1>5. PICK chunk : chunk = m_list'[m_iterator' - 1]
  OBVIOUS
<1>6. PICK begin : begin = chunk.begin
  OBVIOUS
<1>7. PICK r : r = [td[x] EXCEPT !.m_data = NoData, !.listed = FALSE,
                        !.m_clonesStack = <<>>, !.m_swapChunk = begin]
  OBVIOUS
<1>8. /\ getChunk(CompressedSize[x])
      /\ swapFile' = [cell \in DOMAIN swapFile |->
            IF cell \in chunkCells(chunk.begin, chunk.end) THEN td[x].m_data ELSE swapFile[cell]]
      /\ td' = [td EXCEPT ![x] = r]
  <2>1. /\ getChunk(CompressedSize[x])
        /\ swapFile' = [cell \in DOMAIN swapFile |->
              IF cell \in chunkCells(chunk.begin, chunk.end) THEN td[x].m_data ELSE swapFile[cell]]
        /\ td' = [td EXCEPT ![x].m_data = NoData, ![x].listed = FALSE,
                            ![x].m_clonesStack = <<>>, ![x].m_swapChunk = begin]
    BY <1>5, <1>6 DEF swapOutTileData
  <2>2. QED
    BY <1>3, <1>7, <2>1
<1>9. /\ r.exists = td[x].exists /\ r.m_data = NoData /\ r.listed = FALSE
      /\ r.m_swapChunk = begin /\ r.readers = td[x].readers
  BY <1>3, <1>7 DEF Object
<1>10. td'[x] = r /\ \A w \in TileData : w # x => td'[w] = td[w]
  BY <1>3, <1>8
<1>11. ~loaded(x)' /\ \A w \in TileData : w # x => (loaded(w)' <=> loaded(w))
  BY <1>9, <1>10 DEF loaded
<1>12. Filed' /\ begin \in Nat
  <2>1. x \notin swappedOut /\ swappedOut' = swappedOut \cup {x}
    BY <1>2, <1>9, <1>10, <1>11 DEF swappedOut
  <2>2. \A w \in swappedOut : td'[w].m_swapChunk = td[w].m_swapChunk
    BY <1>10, <2>1 DEF swappedOut
  <2>3. td'[x].m_swapChunk = chunk.begin
    BY <1>6, <1>9, <1>10
  <2>4. Filed' /\ chunk.begin \in Nat
    BY <1>4, <1>5, <1>8, <2>1, <2>2, <2>3, FiledGains DEF Placed
  <2>5. QED
    BY <1>6, <2>4
<1>13. r \in Object
  <2>1. <<>> \in Seq(SUBSET (1..MaxWrites))
    OBVIOUS
  <2>2. QED
    BY <1>3, <1>7, <1>12, <2>1 DEF Object
<1>14. ObjectsTyped'
  BY <1>3, <1>8, <1>13 DEF Placed, ObjectsTyped
<1>15. \A w : beingMade(w)' <=> beingMade(w)
  BY <1>1, BystandersCounted
<1>16. Listed'
  <2>1. at[Pooler].td # NoTileData => at[Pooler].td \in TileData
    BY <1>1 DEF Ordered, Control, AgentRecord
  <2>2. QED
    BY <1>2, <1>9, <1>10, <1>15, <2>1 DEF Placed, Listed
<1>17. ReadersCounted'
  <2>1. ASSUME NEW w \in TileData PROVE td'[w].readers = blockers(w)'
    <3>1. bit(at'[Pooler].td = w) - bit(at[Pooler].td = w) = 0
      BY DEF bit
    <3>2. td[w].readers \in Int
      BY BlockersFinite DEF Placed, ReadersCounted
    <3>3. td'[w].readers = td[w].readers
      BY <1>9, <1>10
    <3>4. td'[w].readers = td[w].readers + 0
      BY <3>2, <3>3
    <3>5. QED
      BY <1>1, <3>1, <3>4, BystandersStep
  <2>2. QED
    BY <2>1 DEF ReadersCounted
<1>18. InMemory'
  <2>1. ASSUME NEW w \in TileData, w # x
        PROVE  /\ td'[w].readers # 0 => loaded(w)'
               /\ beingMade(w)' => loaded(w)'
               /\ td'[w].listed => loaded(w)'
               /\ td'[w].exists /\ loaded(w)' => td'[w].listed \/ beingMade(w)'
               /\ td'[w].exists => (loaded(w)' <=> td'[w].m_swapChunk = NoChunk)
    BY <1>10, <1>11, <1>15, <2>1 DEF Placed, InMemory
  <2>2. begin # NoChunk
    BY <1>12 DEF NoChunk
  <2>3. QED
    BY <1>2, <1>9, <1>10, <1>11, <1>15, <2>1, <2>2 DEF InMemory
<1>19. Visited'
  <2>1. listLock = a
    BY <1>1 DEF Ordered, StoreLocks, ListLabels
  <2>2. \A b \in Agents : b # a => at[b].pc \notin ListLabels
    BY <1>1, <2>1, ListLockExcludes
  <2>3. \A u \in Threads : at'[u].pc # "loadWrite"
    BY <2>2 DEF ListLabels, Agents
  <2>4. \A w \in pass.candidates \ {x} : w \in TileData /\ td'[w].listed
    BY <1>1, <1>10 DEF Placed, Visited
  <2>5. QED
    BY <2>3, <2>4 DEF Visited
<1>20. QED
  BY <1>12, <1>14, <1>16, <1>17, <1>18, <1>19 DEF Placed
-------------------------------------------------------------------------------
\* What the swapper counts, and what it has yet to visit.
PassTyped == pass \in [memoryMetric : Int, candidates : SUBSET TileData]

\* No pass has begun.
LEMMA InitPassTyped == Init => PassTyped
BY DEF Init, NoPass, PassTyped

\* A pass counts down and crosses off.
LEMMA SwappingPassTyped ==
    ASSUME PassTyped, NEW a, Swapping(a)
    PROVE  PassTyped'
<1>1. memoryMetric \in Int
  <2>1. IsFiniteSet({x \in TileData : td[x].listed})
    BY StoreAssumption, FS_Subset
  <2>2. QED
    BY <2>1, FS_CardinalityType DEF memoryMetric
<1>2. CASE beginCycle(a)
  <2>1. UNCHANGED pass \/ pass' = [pass EXCEPT !.memoryMetric = memoryMetric]
    BY <1>2 DEF beginCycle
  <2>2. QED
    BY <1>1, <2>1 DEF PassTyped
<1>3. CASE beginPass(a)
  <2>1. pass' = [pass EXCEPT !.candidates = {x \in TileData : td[x].listed}]
    BY <1>3 DEF beginPass
  <2>2. QED
    BY <2>1 DEF PassTyped
<1>4. ASSUME NEW x \in TileData, trySwapOut(a, x) PROVE PassTyped'
  <2>1. \/ pass' = [memoryMetric |-> pass.memoryMetric - 1, candidates |-> pass.candidates \ {x}]
        \/ pass' = [pass EXCEPT !.candidates = @ \ {x}]
    BY <1>4 DEF trySwapOut
  <2>2. QED
    BY <2>1 DEF PassTyped
<1>5. CASE endPass(a)
  <2>1. pass' = [pass EXCEPT !.candidates = {}] \/ pass' = NoPass
    BY <1>5 DEF endPass
  <2>2. QED
    BY <2>1 DEF PassTyped, NoPass
<1>6. QED
  BY <1>2, <1>3, <1>4, <1>5 DEF Swapping

\* Nobody but the swapping agent touches the pass.
LEMMA NextPassTyped == PassTyped /\ [Next]_vars => PassTyped'
<1> SUFFICES ASSUME PassTyped, [Next]_vars PROVE PassTyped'
  OBVIOUS
<1>1. CASE UNCHANGED vars
  BY <1>1 DEF vars, PassTyped
<1>2. CASE \E a : Swapping(a)
  BY <1>2, SwappingPassTyped
<1>3. ASSUME NEW t \in Threads, UsingTiles(t) PROVE UNCHANGED pass
  BY <1>3 DEF UsingTiles, lockForRead, lockForWrite, lockTile, writePixel, unlockTile,
       releaseOldTileData, copyTile, dropTile, commit, purge
<1>4. ASSUME NEW t \in Threads, CopyingOnWrite(t) PROVE UNCHANGED pass
  BY <1>4 DEF CopyingOnWrite, checkLazyCopying, lockCOW, popClone, missClone, copyTileData,
       registerTileData, blockNewTileData, installTileData
<1>5. ASSUME NEW t \in Threads, Loading(t) \/ freeTileData(t) PROVE UNCHANGED pass
  BY <1>5 DEF Loading, lockLoaded, findSwappedOut, lockList, swapInTileData, freeTileData
<1>6. CASE Pooling
  BY <1>6 DEF Pooling, freeClones, beginCloning, copyClone, pushClone, PassTyped
<1>7. QED
  BY <1>1, <1>2, <1>3, <1>4, <1>5, <1>6 DEF Next, PassTyped

\* beginCycle(): the list lock is nobody's concern yet.
LEMMA BeginCyclePlaced ==
    ASSUME Ordered, Ordered', Placed, NEW a \in Threads \cup {Swapper}, beginCycle(a)
    PROVE  Placed'
<1>1. Swapping(a)
  BY DEF Swapping
<1>2. /\ Bystanding /\ a \in Agents /\ \A b \in Agents : b # a => at'[b] = at[b]
  BY <1>1, SwapBystanding
<1>3. PlacesKept
  BY DEF PlacesKept, beginCycle
<1>4. pass'.candidates = pass.candidates
  <2>1. CASE UNCHANGED pass
    BY <2>1
  <2>2. CASE pass' = [pass EXCEPT !.memoryMetric = memoryMetric]
    BY <2>2
  <2>3. QED
    BY <2>1, <2>2 DEF beginCycle
<1>5. at'[a].pc \notin {"softPass", "hardPass"}
  <2>1. at \in [Agents -> AgentRecord] /\ at[a] \in AgentRecord
    BY <1>2 DEF Ordered, Control
  <2>2. CASE goto(a, "soft")
    BY <1>2, <2>1, <2>2 DEF goto, AgentRecord
  <2>3. CASE return(a)
    <3>1. at'[a].pc = at[a].resume
      BY <1>2, <2>1, <2>3 DEF return, AgentRecord
    <3>2. QED
      BY <2>1, <3>1 DEF AgentRecord
  <2>4. QED
    BY <2>2, <2>3 DEF beginCycle
<1>6. \A b \in Agents : at'[b].pc \in {"softPass", "hardPass"} => at[b].pc \in {"softPass", "hardPass"}
  BY <1>2, <1>5
<1>7. Visited'
  BY <1>2, <1>3, <1>4, <1>6, VisitedKept
<1>8. UNCHANGED <<td, preclone, swapVars>>
  BY DEF beginCycle
<1>9. QED
  BY <1>1, <1>7, <1>8, LookingOnPlaced

\* An agent without the list lock that takes it, or with the lock: nobody else looks at
\* what the swapper visits, or is about to load.
LEMMA VisitedAlone ==
    ASSUME Ordered, Ordered', NEW a \in Agents, listLock = a \/ listLock' = a, at'[a].pc # "loadWrite",
           \A b \in Agents : b # a => at'[b] = at[b],
           at'[a].pc \in {"softPass", "hardPass"} =>
                \A x \in pass'.candidates : x \in TileData /\ td'[x].listed
    PROVE  Visited'
<1>1. ASSUME NEW b \in Agents, b # a PROVE at'[b].pc \notin ListLabels
  <2>1. CASE listLock = a
    BY <1>1, <2>1 DEF Ordered, StoreLocks
  <2>2. CASE listLock' = a
    BY <1>1, <2>2 DEF Ordered, StoreLocks
  <2>3. QED
    BY <2>1, <2>2
<1>2. \A u \in Threads : at'[u].pc # "loadWrite"
  BY <1>1 DEF ListLabels, Agents
<1>3. \A b \in Agents : at'[b].pc \in {"softPass", "hardPass"} => b = a
  BY <1>1 DEF ListLabels
<1>4. QED
  BY <1>2, <1>3 DEF Visited

\* The candidates of a pass are what is listed.
LEMMA BeginPassPlaced ==
    ASSUME Ordered, Ordered', Placed, PassTyped, NEW a \in Threads \cup {Swapper}, beginPass(a)
    PROVE  Placed'
<1>1. Swapping(a)
  BY DEF Swapping
<1>2. /\ Bystanding /\ a \in Agents /\ \A b \in Agents : b # a => at'[b] = at[b]
  BY <1>1, SwapBystanding
<1>3. listLock' = a /\ UNCHANGED <<td, preclone, swapVars>>
  BY DEF beginPass
<1>4. at'[a].pc # "loadWrite"
  <2>1. at \in [Agents -> AgentRecord] /\ at[a] \in AgentRecord
    BY <1>2 DEF Ordered, Control
  <2>2. QED
    BY <1>2, <2>1 DEF beginPass, goto, AgentRecord
<1>5. ASSUME NEW x \in pass'.candidates, at'[a].pc \in {"softPass", "hardPass"}
      PROVE  x \in TileData /\ td'[x].listed
  <2>1. pass' = [pass EXCEPT !.candidates = {w \in TileData : td[w].listed}]
    BY DEF beginPass
  <2>2. pass'.candidates = {w \in TileData : td[w].listed}
    BY <2>1 DEF PassTyped
  <2>3. QED
    BY <1>3, <1>5, <2>2
<1>6. Visited'
  BY <1>2, <1>3, <1>4, <1>5, VisitedAlone
<1>7. QED
  BY <1>1, <1>3, <1>6, LookingOnPlaced

\* trySwapTileData() on tile data that stays where it is.
LEMMA SkipPlaced ==
    ASSUME Ordered, Ordered', Placed, NEW a \in Threads \cup {Swapper}, Swapping(a),
           at[a].pc \in {"softPass", "hardPass"},
           \A x \in pass'.candidates : x \in pass.candidates,
           UNCHANGED <<at, td, preclone, swapVars>>
    PROVE  Placed'
<1>1. a \in Agents /\ listLock = a
  BY SwapBystanding DEF Ordered, StoreLocks, ListLabels
<1>2. at'[a].pc # "loadWrite"
  OBVIOUS
<1>3. \A x \in pass'.candidates : x \in TileData /\ td'[x].listed
  BY <1>1 DEF Placed, Visited
<1>4. \A b \in Agents : b # a => at'[b] = at[b]
  OBVIOUS
<1>5. Visited'
  BY <1>1, <1>2, <1>3, <1>4, VisitedAlone
<1>6. QED
  BY <1>5, LookingOnPlaced

\* A candidate is swapped out, or skipped.
LEMMA TrySwapOutPlaced ==
    ASSUME Ordered, Ordered', Placed, PassTyped, NEW a \in Threads \cup {Swapper},
           NEW x \in TileData, trySwapOut(a, x)
    PROVE  Placed'
<1>1. /\ Swapping(a) /\ at[a].pc \in {"softPass", "hardPass"} /\ x \in pass.candidates
      /\ UNCHANGED <<at, tile, preclone>>
  BY DEF Swapping, trySwapOut
<1>2. CASE isInteresting(a, x) /\ td[x].readers = 0
  <2>1. /\ swapOutTileData(x)
        /\ pass' = [memoryMetric |-> pass.memoryMetric - 1, candidates |-> pass.candidates \ {x}]
    BY <1>2 DEF trySwapOut
  <2>2. pass'.candidates = pass.candidates \ {x}
    BY <2>1
  <2>3. QED
    BY <1>1, <1>2, <2>1, <2>2, SwapOutPlaced
<1>3. CASE ~(isInteresting(a, x) /\ td[x].readers = 0)
  <2>1. pass' = [pass EXCEPT !.candidates = @ \ {x}] /\ UNCHANGED <<td, swapVars>>
    BY <1>3 DEF trySwapOut
  <2>2. \A w \in pass'.candidates : w \in pass.candidates
    BY <2>1 DEF PassTyped
  <2>3. QED
    BY <1>1, <2>1, <2>2, SkipPlaced
<1>4. QED
  BY <1>2, <1>3

\* With the list lock the agent leaves the list alone.
LEMMA EndPassPlaced ==
    ASSUME Ordered, Ordered', Placed, NEW a \in Threads \cup {Swapper}, endPass(a)
    PROVE  Placed'
<1>1. Swapping(a) /\ at[a].pc \in {"softPass", "hardPass"} /\ UNCHANGED <<td, preclone, swapVars>>
  BY DEF Swapping, endPass
<1>2. a \in Agents /\ \A b \in Agents : b # a => at'[b] = at[b]
  BY <1>1, SwapBystanding
<1>3. listLock = a
  BY <1>1, <1>2 DEF Ordered, StoreLocks, ListLabels
<1>4. at'[a].pc \notin {"loadWrite", "softPass", "hardPass"}
  <2>1. at \in [Agents -> AgentRecord] /\ at[a] \in AgentRecord
    BY <1>2 DEF Ordered, Control
  <2>2. CASE goto(a, "hard")
    BY <1>2, <2>1, <2>2 DEF goto, AgentRecord
  <2>3. CASE return(a)
    <3>1. at'[a].pc = at[a].resume
      BY <1>2, <2>1, <2>3 DEF return, AgentRecord
    <3>2. QED
      BY <2>1, <3>1 DEF AgentRecord
  <2>4. QED
    BY <2>2, <2>3 DEF endPass
<1>5. Visited'
  BY <1>2, <1>3, <1>4, VisitedAlone
<1>6. QED
  BY <1>1, <1>5, LookingOnPlaced

\* Swapping keeps everything in its place.
LEMMA SwappingPlaced ==
    ASSUME Ordered, Ordered', Placed, PassTyped, NEW a \in Threads \cup {Swapper}, Swapping(a)
    PROVE  Placed'
BY BeginCyclePlaced, BeginPassPlaced, TrySwapOutPlaced, EndPassPlaced DEF Swapping

-------------------------------------------------------------------------------
\* The pooler is no thread.
LEMMA PoolingBystanding ==
    ASSUME Ordered, UNCHANGED tile, \A b \in Agents : b # Pooler => at'[b] = at[b]
    PROVE  Bystanding
<1>1. Threads \subseteq Agents /\ Pooler \notin Threads
  BY StoreAssumption DEF Agents
<1>2. QED
  BY <1>1 DEF Bystanding

\* The pooler copies and pushes under the list lock.
LEMMA PoolingPlacedIf ==
    ASSUME Ordered, Ordered', Placed, UNCHANGED <<tile, pass, swapVars>>,
           \A b \in Agents : b # Pooler => at'[b] = at[b],
           PlacesKept, ObjectsTyped',
           at'[Pooler].td # NoTileData => at'[Pooler].td \in TileData /\ td[at'[Pooler].td].listed,
           \A w \in TileData : \E c \in Int :
                /\ c = bit(at'[Pooler].td = w) - bit(at[Pooler].td = w)
                /\ td'[w].readers = td[w].readers + c
    PROVE  Placed'
<1>1. Bystanding
  BY PoolingBystanding
<1>2. at'[Pooler].pc \notin {"softPass", "hardPass"}
  BY DEF Ordered, Control, PoolerShape
<1>3. \A b \in Agents : at'[b].pc \in {"softPass", "hardPass"} => at[b].pc \in {"softPass", "hardPass"}
  BY <1>2
<1>4. Visited'
  BY <1>1, <1>3, VisitedKept
<1>5. QED
  BY <1>1, <1>4, BystandersPlaced

\* The beginning of a list.
LEMMA PrefixTyped ==
    ASSUME NEW S, NEW s \in Seq(S), NEW n \in 0..Len(s)
    PROVE  SubSeq(s, 1, n) \in Seq(S)
<1>1. Len(s) \in Nat /\ \A k \in 1..Len(s) : s[k] \in S
  OBVIOUS
<1>2. \A k \in 1..n : s[k] \in S
  BY <1>1
<1>3. QED
  BY <1>1, <1>2

\* Clones that are freed were nobody's data.
LEMMA FreeClonesPlaced ==
    ASSUME Ordered, Ordered', Placed, NEW x \in TileData, freeClones(x)
    PROVE  Placed'
<1>1. PICK left : /\ left \in 0..(Len(td[x].m_clonesStack) - 1)
                  /\ td' = [td EXCEPT ![x].m_clonesStack = SubSeq(@, 1, left)]
  BY DEF freeClones
<1>2. td \in [TileData -> Object] /\ td[x] \in Object
  BY DEF Placed, ObjectsTyped
<1>3. td[x].m_clonesStack \in Seq(SUBSET (1..MaxWrites))
  BY <1>2 DEF Object
<1>4. SubSeq(td[x].m_clonesStack, 1, left) \in Seq(SUBSET (1..MaxWrites))
  <2>1. Len(td[x].m_clonesStack) \in Nat
    BY <1>3
  <2>2. left \in 0..Len(td[x].m_clonesStack)
    BY <1>1, <2>1
  <2>3. QED
    BY <1>3, <2>2, PrefixTyped
<1>5. PICK r : r = [td[x] EXCEPT !.m_clonesStack = SubSeq(td[x].m_clonesStack, 1, left)]
  OBVIOUS
<1>6. td' = [td EXCEPT ![x] = r]
  BY <1>1, <1>2, <1>5
<1>7. /\ r \in Object /\ r.exists = td[x].exists /\ r.m_data = td[x].m_data /\ r.listed = td[x].listed
      /\ r.m_swapChunk = td[x].m_swapChunk /\ r.readers = td[x].readers
  BY <1>2, <1>4, <1>5 DEF Object
<1>8. td'[x] = r /\ (\A w \in TileData : w # x => td'[w] = td[w]) /\ td' \in [TileData -> Object]
  BY <1>2, <1>6, <1>7
<1>9. PlacesKept
  BY <1>7, <1>8 DEF PlacesKept
<1>10. UNCHANGED <<tile, at, pass, preclone, swapVars>>
  BY DEF freeClones
<1>11. ObjectsTyped'
  BY <1>8, <1>10 DEF Placed, ObjectsTyped
<1>12. at'[Pooler].td # NoTileData => at'[Pooler].td \in TileData /\ td[at'[Pooler].td].listed
  BY <1>10 DEF Ordered, Control, Agents, AgentRecord, Placed, Listed
<1>13. ASSUME NEW w \in TileData
       PROVE  \E c \in Int : /\ c = bit(at'[Pooler].td = w) - bit(at[Pooler].td = w)
                             /\ td'[w].readers = td[w].readers + c
  <2>1. bit(at'[Pooler].td = w) - bit(at[Pooler].td = w) = 0
    BY <1>10 DEF bit
  <2>2. td[w].readers \in Int
    BY BlockersFinite DEF Placed, ReadersCounted
  <2>3. td'[w].readers = td[w].readers
    BY <1>7, <1>8
  <2>4. td'[w].readers = td[w].readers + 0
    BY <2>2, <2>3
  <2>5. QED
    BY <2>1, <2>4
<1>14. \A b \in Agents : at'[b] = at[b]
  BY <1>10
<1>15. QED
  BY <1>9, <1>10, <1>11, <1>12, <1>13, <1>14, PoolingPlacedIf

\* The pooler blocks what it is about to copy.
LEMMA BeginCloningPlaced ==
    ASSUME Ordered, Ordered', Placed, NEW x \in TileData, beginCloning(x)
    PROVE  Placed'
<1>1. /\ td' = [td EXCEPT ![x].readers = @ + 1] /\ UNCHANGED <<tile, pass, swapVars>>
      /\ at[Pooler].pc = "idle" /\ td[x].listed
      /\ preclone' = [data |-> NoData, left |-> numClonesNeeded(x)]
      /\ at' = [at EXCEPT ![Pooler].pc = "cloning", ![Pooler].td = x]
  BY DEF beginCloning, pools
<1>2. td \in [TileData -> Object]
  BY DEF Placed, ObjectsTyped
<1>3. PICK d \in {1, -1} : d = 1
  OBVIOUS
<1>4. td' = [td EXCEPT ![x].readers = @ + d]
  BY <1>1, <1>3
<1>5. /\ PlacesKept /\ td' \in [TileData -> Object]
      /\ \A w \in TileData : td'[w].readers = td[w].readers + (IF w = x THEN d ELSE 0)
  BY <1>2, <1>4, OneReader
<1>6. at \in [Agents -> AgentRecord] /\ Pooler \in Agents
  BY DEF Ordered, Control, Agents
<1>7. /\ \A b \in Agents : b # Pooler => at'[b] = at[b]
      /\ at'[Pooler].pc = "cloning" /\ at'[Pooler].td = x
  BY <1>1, <1>6 DEF AgentRecord
<1>8. at[Pooler].td = NoTileData
  BY <1>1 DEF Ordered, Control, PoolerShape
<1>9. ObjectsTyped'
  <2>1. td[x] \in Object /\ MaxClones \in Nat
    BY <1>2, StoreAssumption
  <2>2. td[x].m_usersCount \in Int /\ Len(td[x].m_clonesStack) \in Int
    BY <2>1 DEF Object
  <2>3. numClonesNeeded(x) \in Int
    BY <2>1, <2>2 DEF numClonesNeeded, totalClones, smaller
  <2>4. QED
    BY <1>1, <1>5, <1>7, <2>3 DEF ObjectsTyped
<1>10. ASSUME NEW w \in TileData
       PROVE  \E c \in Int : /\ c = bit(at'[Pooler].td = w) - bit(at[Pooler].td = w)
                             /\ td'[w].readers = td[w].readers + c
  <2>1. w # NoTileData
    BY StoreAssumption
  <2>2. bit(at'[Pooler].td = w) - bit(at[Pooler].td = w) = IF w = x THEN d ELSE 0
    BY <1>3, <1>7, <1>8, <2>1 DEF bit
  <2>3. (IF w = x THEN d ELSE 0) \in Int
    OBVIOUS
  <2>4. QED
    BY <1>5, <2>2, <2>3
<1>11. QED
  BY <1>1, <1>5, <1>7, <1>9, <1>10, PoolingPlacedIf

\* What the pooler copies is in memory.
LEMMA CopyClonePlaced ==
    ASSUME Ordered, Ordered', Placed, copyClone
    PROVE  Placed'
<1>1. /\ UNCHANGED <<td, tile, pass, swapVars>> /\ at[Pooler].pc = "cloning"
      /\ preclone' = [preclone EXCEPT !.data = td[at[Pooler].td].m_data]
      /\ at' = [at EXCEPT ![Pooler].pc = "pushing"]
  BY DEF copyClone, goto
<1>2. at \in [Agents -> AgentRecord] /\ Pooler \in Agents
  BY DEF Ordered, Control, Agents
<1>3. /\ \A b \in Agents : b # Pooler => at'[b] = at[b]
      /\ at'[Pooler].td = at[Pooler].td
  BY <1>1, <1>2 DEF AgentRecord
<1>4. PICK x \in TileData : x = at[Pooler].td
  BY <1>1 DEF Ordered, Control, PoolerShape
<1>5. td[x].listed /\ loaded(x) /\ td[x] \in Object
  BY <1>4, BlockedLoaded, StoreAssumption DEF Placed, Listed, ObjectsTyped
<1>6. td[x].m_data # NoData /\ td[x].m_data \in SUBSET (1..MaxWrites)
  BY <1>5 DEF loaded, Object
<1>7. preclone' \in [data : (SUBSET (1..MaxWrites)) \cup {NoData}, left : Int] /\ preclone'.data # NoData
  BY <1>1, <1>4, <1>6 DEF Placed, ObjectsTyped
<1>8. ObjectsTyped'
  BY <1>1, <1>7 DEF Placed, ObjectsTyped
<1>9. PlacesKept
  BY <1>1 DEF PlacesKept
<1>10. ASSUME NEW w \in TileData
       PROVE  \E c \in Int : /\ c = bit(at'[Pooler].td = w) - bit(at[Pooler].td = w)
                             /\ td'[w].readers = td[w].readers + c
  <2>1. bit(at'[Pooler].td = w) - bit(at[Pooler].td = w) = 0
    BY <1>3 DEF bit
  <2>2. td[w].readers \in Int
    BY BlockersFinite DEF Placed, ReadersCounted
  <2>3. td'[w].readers = td[w].readers + 0
    BY <1>1, <2>2
  <2>4. QED
    BY <2>1, <2>3
<1>11. at'[Pooler].td # NoTileData => at'[Pooler].td \in TileData /\ td[at'[Pooler].td].listed
  BY <1>3, <1>4, <1>5
<1>12. QED
  BY <1>1, <1>3, <1>8, <1>9, <1>10, <1>11, PoolingPlacedIf

\* What the pooler pushes goes to the stack of clones and nowhere else.
withClone(x) == [td EXCEPT ![x].m_clonesStack = Append(@, preclone.data)]

\* What the pooler pushes goes to the stack of clones and nowhere else.
LEMMA PushedObject ==
    ASSUME Placed, at[Pooler].pc = "pushing", NEW x \in TileData, NEW pushed, pushed = withClone(x)
    PROVE  /\ pushed \in [TileData -> Object]
           /\ \A w \in TileData :
                /\ pushed[w].exists = td[w].exists
                /\ pushed[w].m_data = td[w].m_data
                /\ pushed[w].listed = td[w].listed
                /\ pushed[w].m_swapChunk = td[w].m_swapChunk
                /\ pushed[w].readers = td[w].readers
<1>1. td \in [TileData -> Object] /\ td[x] \in Object
  BY DEF Placed, ObjectsTyped
<1>2. preclone.data \in SUBSET (1..MaxWrites)
  BY DEF Placed, ObjectsTyped
<1>3. Append(td[x].m_clonesStack, preclone.data) \in Seq(SUBSET (1..MaxWrites))
  BY <1>1, <1>2 DEF Object
<1>4. PICK r : r = [td[x] EXCEPT !.m_clonesStack = Append(td[x].m_clonesStack, preclone.data)]
  OBVIOUS
<1>5. pushed = [td EXCEPT ![x] = r]
  BY <1>1, <1>4 DEF withClone
<1>6. /\ r \in Object /\ r.exists = td[x].exists /\ r.m_data = td[x].m_data /\ r.listed = td[x].listed
      /\ r.m_swapChunk = td[x].m_swapChunk /\ r.readers = td[x].readers
  BY <1>1, <1>3, <1>4 DEF Object
<1>7. pushed[x] = r /\ (\A w \in TileData : w # x => pushed[w] = td[w]) /\ pushed \in [TileData -> Object]
  BY <1>1, <1>5, <1>6
<1>8. QED
  BY <1>6, <1>7

\* After the last clone the pooler unblocks the data.
LEMMA PushClonePlaced ==
    ASSUME Ordered, Ordered', Placed, pushClone
    PROVE  Placed'
<1>1. at[Pooler].pc = "pushing" /\ UNCHANGED <<tile, pass, swapVars>>
  BY DEF pushClone
<1>2. at \in [Agents -> AgentRecord] /\ Pooler \in Agents
  BY DEF Ordered, Control, Agents
<1>3. PICK x \in TileData : x = at[Pooler].td
  BY <1>1 DEF Ordered, Control, PoolerShape
<1>4. PICK pushed : pushed = withClone(x)
  OBVIOUS
<1>5. /\ pushed \in [TileData -> Object]
      /\ \A w \in TileData :
            /\ pushed[w].exists = td[w].exists
            /\ pushed[w].m_data = td[w].m_data
            /\ pushed[w].listed = td[w].listed
            /\ pushed[w].m_swapChunk = td[w].m_swapChunk
            /\ pushed[w].readers = td[w].readers
  BY <1>1, <1>3, <1>4, PushedObject
<1>6. x # NoTileData /\ td[x].listed
  BY <1>3, StoreAssumption DEF Placed, Listed
<1>7. \A w \in TileData : td[w].readers \in Int
  BY BlockersFinite DEF Placed, ReadersCounted
<1>8. CASE preclone.left > 1
  <2>1. /\ td' = pushed /\ preclone' = [data |-> NoData, left |-> preclone.left - 1]
        /\ at' = [at EXCEPT ![Pooler].pc = "cloning"]
    BY <1>3, <1>4, <1>8 DEF pushClone, goto, withClone
  <2>2. /\ \A b \in Agents : b # Pooler => at'[b] = at[b]
        /\ at'[Pooler].td = x /\ at'[Pooler].pc = "cloning"
    BY <1>2, <1>3, <2>1 DEF AgentRecord
  <2>3. PlacesKept
    BY <1>5, <2>1 DEF PlacesKept
  <2>4. ObjectsTyped'
    BY <1>5, <2>1, <2>2 DEF Placed, ObjectsTyped
  <2>5. ASSUME NEW w \in TileData
        PROVE  \E c \in Int : /\ c = bit(at'[Pooler].td = w) - bit(at[Pooler].td = w)
                              /\ td'[w].readers = td[w].readers + c
    <3>1. bit(at'[Pooler].td = w) - bit(at[Pooler].td = w) = 0
      BY <1>3, <2>2 DEF bit
    <3>2. td'[w].readers = td[w].readers + 0
      BY <1>5, <1>7, <2>1
    <3>3. QED
      BY <3>1, <3>2
  <2>6. QED
    BY <1>1, <1>6, <2>2, <2>3, <2>4, <2>5, PoolingPlacedIf
<1>9. CASE ~(preclone.left > 1)
  <2>1. /\ td' = [pushed EXCEPT ![x].readers = @ - 1] /\ preclone' = NoPreclone
        /\ at' = [at EXCEPT ![Pooler] = Idle]
    BY <1>3, <1>4, <1>9 DEF pushClone, unblocked, withClone
  <2>2. /\ \A b \in Agents : b # Pooler => at'[b] = at[b]
        /\ at'[Pooler].td = NoTileData /\ at'[Pooler].pc = "idle"
    BY <1>2, <2>1 DEF Idle
  <2>3. PICK r : r = [pushed[x] EXCEPT !.readers = td[x].readers - 1]
    OBVIOUS
  <2>4. td' = [pushed EXCEPT ![x] = r]
    BY <1>5, <2>1, <2>3
  <2>5. pushed[x] \in Object /\ td[x].readers - 1 \in Int
    BY <1>5, <1>7
  <2>6. /\ r \in Object /\ r.exists = td[x].exists /\ r.m_data = td[x].m_data /\ r.listed = td[x].listed
        /\ r.m_swapChunk = td[x].m_swapChunk /\ r.readers = td[x].readers - 1
    BY <1>5, <2>3, <2>5 DEF Object
  <2>7. td'[x] = r /\ (\A w \in TileData : w # x => td'[w] = pushed[w]) /\ td' \in [TileData -> Object]
    BY <1>5, <2>4, <2>6
  <2>8. PlacesKept
    BY <1>5, <2>6, <2>7 DEF PlacesKept
  <2>9. ObjectsTyped'
    BY <2>1, <2>2, <2>7 DEF ObjectsTyped, NoPreclone
  <2>10. ASSUME NEW w \in TileData
         PROVE  \E c \in Int : /\ c = bit(at'[Pooler].td = w) - bit(at[Pooler].td = w)
                               /\ td'[w].readers = td[w].readers + c
    <3>1. w # NoTileData
      BY StoreAssumption
    <3>2. bit(at'[Pooler].td = w) = 0
      BY <2>2, <3>1 DEF bit
    <3>3. CASE w = x
      <4>1. bit(at[Pooler].td = w) = 1
        BY <1>3, <3>3 DEF bit
      <4>2. td'[w].readers = td[w].readers + (-1)
        BY <1>7, <2>6, <2>7, <3>3
      <4>3. QED
        BY <3>2, <4>1, <4>2
    <3>4. CASE w # x
      <4>1. bit(at[Pooler].td = w) = 0
        BY <1>3, <3>4 DEF bit
      <4>2. td'[w].readers = td[w].readers + 0
        BY <1>5, <1>7, <2>7, <3>4
      <4>3. QED
        BY <3>2, <4>1, <4>2
    <3>5. QED
      BY <3>3, <3>4
  <2>11. QED
    BY <1>1, <2>2, <2>8, <2>9, <2>10, PoolingPlacedIf
<1>10. QED
  BY <1>8, <1>9

\* Pooling keeps everything in its place.
LEMMA PoolingPlaced ==
    ASSUME Ordered, Ordered', Placed, Pooling
    PROVE  Placed'
BY FreeClonesPlaced, BeginCloningPlaced, CopyClonePlaced, PushClonePlaced DEF Pooling

-------------------------------------------------------------------------------
\* In the beginning every object that exists is in memory and in the list, and nobody
\* has blocked it.
LEMMA InitPlaced == Init => Placed
<1> SUFFICES ASSUME Init PROVE Placed
  OBVIOUS
<1>1. Ordered
  BY InitOrdered
<1>2. PICK firstData \in [Tiles \ Copies -> TileData] :
        /\ td = [x \in TileData |->
                IF \E y \in Tiles \ Copies : firstData[y] = x
                THEN [NewTileData({}) EXCEPT !.listed = TRUE, !.m_usersCount = 1, !.m_refCount = 2]
                ELSE Deleted]
        /\ tile = [x \in Tiles |->
                IF x \in Copies THEN NewTile(NoTileData, {})
                ELSE [NewTile(firstData[x], {}) EXCEPT !.indexed = firstData[x]]]
  BY DEF Init
<1>3. /\ at = [a \in Agents |-> Idle] /\ pass = NoPass /\ preclone = NoPreclone
      /\ swapFile = [cell \in 0..(MaxStoreSize - 1) |-> NoData] /\ AllocatorInit
  BY DEF Init
<1>4. \A a \in Agents : at[a].pc = "idle" /\ at[a].td = NoTileData /\ ~blocks(at[a])
  <2>1. ~blocks(Idle)
    BY DEF blocks, where, Idle, SwapLabels
  <2>2. QED
    BY <1>3, <2>1 DEF Idle
<1>5. ASSUME NEW x \in TileData
      PROVE  /\ td[x] \in Object /\ td[x].readers = 0 /\ td[x].m_swapChunk = NoChunk
             /\ td[x].exists = td[x].listed /\ (td[x].exists <=> td[x].m_data # NoData)
  <2>1. {} \in SUBSET (1..MaxWrites) /\ {} # NoData
    BY StoreAssumption
  <2>2. <<>> \in Seq(SUBSET (1..MaxWrites))
    OBVIOUS
  <2>3. CASE \E y \in Tiles \ Copies : firstData[y] = x
    <3>1. td[x] = [NewTileData({}) EXCEPT !.listed = TRUE, !.m_usersCount = 1, !.m_refCount = 2]
      BY <1>2, <2>3
    <3>2. td[x] = [exists |-> TRUE, m_data |-> {}, listed |-> TRUE, m_usersCount |-> 1, m_refCount |-> 2,
                   readers |-> 0, m_mementoFlag |-> 0, m_clonesStack |-> <<>>, m_swapChunk |-> NoChunk]
      BY <3>1 DEF NewTileData
    <3>3. td[x] \in Object
      BY <2>1, <2>2, <3>2 DEF Object
    <3>4. QED
      BY <2>1, <3>2, <3>3
  <2>4. CASE ~\E y \in Tiles \ Copies : firstData[y] = x
    <3>1. td[x] = Deleted
      BY <1>2, <2>4
    <3>2. td[x] = [exists |-> FALSE, m_data |-> NoData, listed |-> FALSE, m_usersCount |-> 0, m_refCount |-> 0,
                   readers |-> 0, m_mementoFlag |-> 0, m_clonesStack |-> <<>>, m_swapChunk |-> NoChunk]
      BY <3>1 DEF Deleted, NewTileData
    <3>3. td[x] \in Object
      BY <2>1, <2>2, <3>2 DEF Object
    <3>4. QED
      BY <3>2, <3>3
  <2>5. QED
    BY <2>3, <2>4
<1>6. ASSUME NEW y \in Tiles
      PROVE  tile[y].m_oldTileData = <<>> /\ tile[y].m_lockCounter = 0
  BY <1>2, <1>6 DEF NewTile
<1>7. Threads \subseteq Agents /\ Pooler \in Agents
  BY DEF Agents
<1>8. ObjectsTyped
  <2>1. td \in [TileData -> Object]
    BY <1>2, <1>5
  <2>2. QED
    BY <1>3, <1>4, <1>7, <2>1 DEF ObjectsTyped, NoPreclone
<1>9. \A x : ~beingMade(x)
  BY <1>4, <1>7 DEF beingMade
<1>10. Listed
  BY <1>4, <1>5, <1>7, <1>9 DEF Listed
<1>11. ReadersCounted
  <2>1. ASSUME NEW x \in TileData PROVE td[x].readers = blockers(x)
    <3>1. blocked(x) = {} /\ aging(x) = {} /\ blocking(x) = {}
      BY <1>4, <1>6, <1>7 DEF blocked, inUse, aging, oldUses, blocking
    <3>2. bit(at[Pooler].td = x) = 0
      BY <1>4, <1>7, StoreAssumption DEF bit
    <3>3. Cardinality({}) = 0
      BY FS_EmptySet
    <3>4. blockers(x) = 0 + 0 + 0 + 0
      BY <3>1, <3>2, <3>3 DEF blockers
    <3>5. QED
      BY <1>5, <3>4
  <2>2. QED
    BY <2>1 DEF ReadersCounted
<1>12. InMemory
  BY <1>5, <1>9 DEF InMemory, loaded
<1>13. Visited
  BY <1>4, <1>7 DEF Visited
<1>14. Filed
  <2>1. swappedOut = {}
    BY <1>5 DEF swappedOut, loaded
  <2>2. AllocatorInv
    BY <1>3, AllocatorAssumption DEF AllocatorInit, AllocatorInv, AllocatorTypeOK, SanityCheck, Chunks
  <2>3. m_list = <<>> /\ m_storeSize = SlabSize /\ SlabSize \in Nat /\ SlabSize <= MaxStoreSize
    BY <1>3, AllocatorAssumption, StoreAssumption DEF AllocatorInit
  <2>4. ToSet(m_list) = {} /\ Len(m_list) = 0
    BY <2>3 DEF ToSet
  <2>5. Cardinality(swappedOut) = 0
    BY <2>1, FS_EmptySet
  <2>6. swapFile \in [0..(MaxStoreSize - 1) -> (SUBSET (1..MaxWrites)) \cup {NoData}]
    BY <1>3
  <2>7. m_storeSize >= 0 /\ m_storeSize <= MaxStoreSize
    BY <2>3
  <2>8. QED
    BY <2>1, <2>2, <2>4, <2>5, <2>6, <2>7 DEF Filed
<1>15. QED
  BY <1>8, <1>10, <1>11, <1>12, <1>13, <1>14 DEF Placed

\* Nothing happens.
LEMMA SamePlaced ==
    ASSUME Placed, UNCHANGED vars
    PROVE  Placed'
<1>1. /\ UNCHANGED <<td, tile, at, pass, preclone, swapFile, m_list, m_iterator, m_storeSize>>
  BY DEF vars, swapVars, allocatorVars
<1>2. \A x : /\ beingMade(x)' <=> beingMade(x)
             /\ loaded(x)' <=> loaded(x)
             /\ blocked(x)' = blocked(x) /\ aging(x)' = aging(x) /\ blocking(x)' = blocking(x)
  BY <1>1 DEF beingMade, loaded, blocked, inUse, aging, oldUses, blocking
<1>3. \A x : blockers(x)' = blockers(x)
  BY <1>1, <1>2 DEF blockers
<1>4. swappedOut' = swappedOut /\ \A w \in swappedOut : td'[w].m_swapChunk = td[w].m_swapChunk
  BY <1>1, <1>2 DEF swappedOut
<1>5. UNCHANGED swapVars
  BY DEF vars
<1>6. Filed'
  BY <1>4, <1>5, FiledSame DEF Placed
<1>7. ObjectsTyped' /\ Listed' /\ InMemory' /\ ReadersCounted'
  BY <1>1, <1>2, <1>3 DEF Placed, ObjectsTyped, Listed, InMemory, ReadersCounted
<1>8. Visited'
  BY <1>1, <1>2 DEF Placed, Visited
<1>9. QED
  BY <1>6, <1>7, <1>8 DEF Placed

\* Every step of every agent keeps the data where it belongs.
LEMMA NextPlaced == Ordered /\ Counted /\ PassTyped /\ Placed /\ [Next]_vars => Placed'
<1> SUFFICES ASSUME Ordered, Counted, PassTyped, Placed, [Next]_vars PROVE Placed'
  OBVIOUS
<1>1. Ordered'
  BY NextOrdered
<1>2. ASSUME NEW t \in Threads, UsingTiles(t) PROVE Placed'
  <2>1. ASSUME NEW y \in Tiles, NEW write \in BOOLEAN, lockTile(t, y, write) PROVE Placed'
    BY <1>1, <2>1, LockTilePlaced
  <2>2. CASE lockForRead(t) \/ lockForWrite(t)
    BY <2>1, <2>2 DEF lockForRead, lockForWrite
  <2>3. CASE writePixel(t) \/ unlockTile(t) \/ releaseOldTileData(t)
    BY <1>1, <2>3, WritePixelPlaced, UnlockTilePlaced, ReleaseOldPlaced
  <2>4. CASE \E y \in Copies : copyTile(t, y) \/ dropTile(t, y)
    BY <1>1, <2>4, CopyTilePlaced, DropTilePlaced
  <2>5. CASE (\E y \in Tiles : commit(t, y)) \/ purge(t)
    BY <1>1, <2>5, CommitPlaced, PurgePlaced
  <2>6. QED
    BY <1>2, <2>2, <2>3, <2>4, <2>5 DEF UsingTiles
<1>3. ASSUME NEW t \in Threads, CopyingOnWrite(t) PROVE Placed'
  <2>1. CASE checkLazyCopying(t) \/ lockCOW(t)
    BY <1>1, <2>1, COWMutexPlaced
  <2>2. CASE popClone(t) \/ missClone(t) \/ copyTileData(t)
    BY <1>1, <2>2, PopClonePlaced, MissClonePlaced, CopyDataPlaced
  <2>3. CASE registerTileData(t) \/ blockNewTileData(t) \/ installTileData(t)
    BY <1>1, <2>3, RegisterPlaced, BlockNewPlaced, InstallPlaced
  <2>4. QED
    BY <1>3, <2>1, <2>2, <2>3 DEF CopyingOnWrite
<1>4. ASSUME NEW t \in Threads, Loading(t) PROVE Placed'
  BY <1>1, <1>4, LockLoadedPlaced, LookingPlaced, SwapInPlaced DEF Loading
<1>5. ASSUME NEW t \in Threads, freeTileData(t) PROVE Placed'
  BY <1>1, <1>5, FreePlaced
<1>6. ASSUME NEW a \in Threads \cup {Swapper}, Swapping(a) PROVE Placed'
  BY <1>1, <1>6, SwappingPlaced
<1>7. CASE Pooling
  BY <1>1, <1>7, PoolingPlaced
<1>8. CASE UNCHANGED vars
  BY <1>8, SamePlaced
<1>9. QED
  BY <1>2, <1>3, <1>4, <1>5, <1>6, <1>7, <1>8 DEF Next

\* The locks stay in order, the counters right, and the data in its place.
LEMMA PlacedKeptAlways == Spec => [](Ordered /\ Counted /\ PassTyped /\ Placed)
<1>1. Init => Ordered /\ Counted /\ PassTyped /\ Placed
  BY InitOrdered, InitCounted, InitPassTyped, InitPlaced
<1>2. Ordered /\ Counted /\ PassTyped /\ Placed /\ [Next]_vars => (Ordered /\ Counted /\ PassTyped /\ Placed)'
  BY NextOrdered, NextCounted, NextPassTyped, NextPlaced
<1>3. QED
  BY <1>1, <1>2, PTL DEF Spec

-------------------------------------------------------------------------------
(***************************************************************************)
(* What follows from the invariant.                                        *)
(***************************************************************************)

\* What has a user of its pixels is blocked.
LEMMA PlacedBlocked == Ordered /\ Counted /\ Placed => BlockedDataIsLoaded
<1> SUFFICES ASSUME Ordered, Counted, Placed PROVE BlockedDataIsLoaded
  OBVIOUS
<1>1. ASSUME NEW x \in TileData, td[x].readers > 0 PROVE td[x].exists /\ loaded(x)
  <2>1. td[x].readers # 0
    BY <1>1
  <2>2. loaded(x)
    BY <2>1 DEF Placed, InMemory
  <2>3. td[x].exists
    BY <2>1, FreshBlocked
  <2>4. QED
    BY <2>2, <2>3
<1>2. ASSUME NEW t \in Threads,
             at[t].pc \in {"checkCOW", "lockCOW", "clone", "install", "writing", "wrote", "reading"}
      PROVE  td[tile[at[t].tile].m_tileData].readers > 0
  <2>1. at[t] \in AgentRecord /\ ThreadShape(at[t])
    BY ThreadRecord
  <2>2. at[t].tile # NoTile /\ ~releases(at[t]) /\ ~locks(at[t])
    BY <1>2, <2>1 DEF ThreadShape, where, frees, releases, locks, loads, SwapLabels, LoadLabels
  <2>3. PICK y \in Tiles : y = at[t].tile
    BY <2>2, UsedTile
  <2>4. tile[y].m_tileData \in TileData
    BY <2>3 DEF Ordered, TilesLocked, TileShared, KisTile
  <2>5. PICK x \in TileData : x = tile[y].m_tileData
    BY <2>4
  <2>6. y \in blocked(x)
    BY <2>2, <2>3, <2>5, UserBlocks DEF blocked
  <2>7. td[x].readers # 0 /\ td[x].readers \in Nat
    BY <2>6, BlockedLoaded
  <2>8. QED
    BY <2>3, <2>5, <2>7
<1>3. ASSUME NEW t \in Threads, at[t].pc \in {"writing", "wrote"} PROVE loaded(at[t].td)
  <2>1. points(at[t])
    BY <1>3 DEF points, where, SwapLabels
  <2>2. QED
    BY <2>1, PointerLoaded
<1>4. QED
  BY <1>1, <1>2, <1>3 DEF BlockedDataIsLoaded

\* Not in memory is in the file.
LEMMA PlacedListed == Placed => ListedOrSwappedOut
BY DEF Placed, Listed, InMemory, ListedOrSwappedOut

\* Data that is not in memory, or that is freed, is blocked by nobody.
LEMMA PlacedNeverWaits == Ordered /\ Counted /\ Placed => ListLockNeverWaits
<1> SUFFICES ASSUME Ordered, Counted, Placed, NEW t \in Threads
             PROVE  /\ at[t].pc = "loadWrite" => td[at[t].loading].readers = 0
                    /\ at[t].pc = "free" /\ listLock = NoOne => td[at[t].td].readers = 0
  BY DEF ListLockNeverWaits
<1>1. at[t] \in AgentRecord /\ ThreadShape(at[t])
  BY ThreadRecord
<1>2. CASE at[t].pc = "loadWrite"
  <2>1. at[t].loading \in TileData
    BY <1>1, <1>2 DEF ThreadShape, AgentRecord, loads, where, LoadLabels, SwapLabels
  <2>2. QED
    BY <1>2, <2>1 DEF Placed, Visited, InMemory
<1>3. CASE at[t].pc = "free" /\ listLock = NoOne
  <2>1. frees(at[t]) /\ at[t].td \in TileData
    BY <1>1, <1>3 DEF ThreadShape, AgentRecord, frees, where, SwapLabels
  <2>2. PICK x \in TileData : x = at[t].td /\ busy(t, x)
    BY <2>1 DEF busy
  <2>3. tileUsers(x) = 0
    BY <2>2, BusyData
  <2>4. at[Pooler].td # x
    <3>1. NoOne # Pooler /\ Pooler \in Agents /\ x # NoTileData
      BY StoreAssumption DEF Agents
    <3>2. at[Pooler].pc \notin ListLabels
      BY <1>3, <3>1 DEF Ordered, StoreLocks
    <3>3. QED
      BY <3>1, <3>2 DEF Ordered, Control, PoolerShape, ListLabels
  <2>5. blockers(x) = 0
    BY <2>3, <2>4, UnusedBlocked
  <2>6. QED
    BY <1>3, <2>2, <2>5 DEF Placed, ReadersCounted
<1>4. QED
  BY <1>2, <1>3

\* What the swap file holds is what is swapped out.
LEMMA PlacedSane == Placed => ChunksAreSane
<1> SUFFICES ASSUME Placed PROVE ChunksAreSane
  OBVIOUS
<1>1. SanityCheck
  BY DEF Placed, Filed, AllocatorInv
<1>2. \A x \in swappedOut : \E c \in ToSet(m_list) : c.begin = td[x].m_swapChunk
  BY DEF Placed, Filed, inChunk
<1>3. \A c \in ToSet(m_list) : \E x \in swappedOut : c.begin = td[x].m_swapChunk
  BY DEF Placed, Filed, inChunk
<1>4. {chunk.begin : chunk \in ToSet(m_list)} = {td[x].m_swapChunk : x \in swappedOut}
  BY <1>2, <1>3
<1>5. Len(m_list) = Cardinality(swappedOut)
  BY DEF Placed, Filed
<1>6. QED
  BY <1>1, <1>4, <1>5 DEF ChunksAreSane

\* The counters are natural numbers since they count.
LEMMA PlacedTyped == Ordered /\ Counted /\ Placed => TypeOK
<1> SUFFICES ASSUME Ordered, Counted, Placed PROVE TypeOK
  OBVIOUS
<1>1. ASSUME NEW x \in TileData PROVE td[x] \in KisTileData
  <2>1. td[x] \in Object
    BY DEF Placed, ObjectsTyped
  <2>2. td[x].m_usersCount \in Nat /\ td[x].m_refCount \in Nat
    <3>1. PICK m \in Nat : m = tileUsers(x)
      BY UsersCounted
    <3>2. PICK n \in Nat : n = indexUsers(x)
      BY UsersCounted
    <3>3. td[x].m_usersCount = m /\ td[x].m_refCount = m + n
      BY <3>1, <3>2 DEF Counted
    <3>4. QED
      BY <3>3
  <2>3. td[x].readers \in Nat
    BY BlockersFinite DEF Placed, ReadersCounted
  <2>4. QED
    BY <2>1, <2>2, <2>3 DEF Object, KisTileData
<1>2. td \in [TileData -> KisTileData]
  BY <1>1 DEF Placed, ObjectsTyped
<1>3. QED
  BY <1>2 DEF TypeOK, Ordered, TilesLocked, StoreLocks, Placed, Filed

\* Every variable of the store keeps its type; in particular no counter and no lock is
\* given back more often than it was taken (KisTileData::release, unblockSwapping).
THEOREM TypesKept == Spec => []TypeOK
<1>1. Ordered /\ Counted /\ PassTyped /\ Placed => TypeOK
  BY PlacedTyped
<1>2. QED
  BY <1>1, PlacedKeptAlways, PTL

\* Data that is blocked exists and is in memory, and whoever reads or writes a tile has its
\* data blocked (KisTile::blockSwapping): the pointer a thread works through never dangles.
THEOREM BlockedDataStays == Spec => []BlockedDataIsLoaded
<1>1. Ordered /\ Counted /\ PassTyped /\ Placed => BlockedDataIsLoaded
  BY PlacedBlocked
<1>2. QED
  BY <1>1, PlacedKeptAlways, PTL

\* The list of the store and the swap file share the data between them
\* (KisTileDataStore::registerTileDataImp, unregisterTileDataImp and trySwapTileData).
THEOREM ListedOrFiled == Spec => []ListedOrSwappedOut
<1>1. Ordered /\ Counted /\ PassTyped /\ Placed => ListedOrSwappedOut
  BY PlacedListed
<1>2. QED
  BY <1>1, PlacedKeptAlways, PTL

\* The swap lock that ensureTileDataLoaded() and freeTileData() take under the list lock is
\* free: the two locks cannot deadlock.
THEOREM SwapLockIsFree == Spec => []ListLockNeverWaits
<1>1. Ordered /\ Counted /\ PassTyped /\ Placed => ListLockNeverWaits
  BY PlacedNeverWaits
<1>2. QED
  BY <1>1, PlacedKeptAlways, PTL

\* The chunks of the swap file are sane and belong one to one to the data that is swapped
\* out (KisSwappedDataStore::swapOutTileData, swapInTileData and forgetTileData).
THEOREM SwapFileIsSane == Spec => []ChunksAreSane
<1>1. Ordered /\ Counted /\ PassTyped /\ Placed => ChunksAreSane
  BY PlacedSane
<1>2. QED
  BY <1>1, PlacedKeptAlways, PTL
===============================================================================
