---------------------- MODULE KisSimpleUpdateQueueProofs ----------------------
(***************************************************************************)
(* The updates queue, for any number of threads, any requests and any sizes *)
(* of image, patches and thresholds: splitting covers a request exactly,   *)
(* joining loses no cell and makes no walker larger than a patch.          *)
(*                                                                         *)
(* The recursion over the walkers of the list is shown to have a solution, *)
(* and what it computes is proved by looking for the least walker after    *)
(* which it would be wrong.                                                *)
(***************************************************************************)
EXTENDS KisSimpleUpdateQueue, WellFoundedInduction, TLAPS

-------------------------------------------------------------------------------
(***************************************************************************)
(* Induction over the numbers, as the search for a least counterexample.   *)
(***************************************************************************)
\* A set of numbers that is not empty has a least element.
LEMMA Least ==
    ASSUME NEW T, T \subseteq Nat, T # {}
    PROVE  \E m \in T : \A n \in T : m <= n
<1>1. PICK m \in T : \A n \in T : <<n, m>> \notin OpToRel(<, Nat)
  BY NatLessThanWellFounded, WFMin
<1>2. ASSUME NEW n \in T PROVE m <= n
  <2>1. m \in Nat /\ n \in Nat
    OBVIOUS
  <2>2. ~(n < m)
    BY <1>1, <2>1 DEF OpToRel
  <2>3. QED
    BY <2>1, <2>2
<1>3. QED
  BY <1>2

-------------------------------------------------------------------------------
(***************************************************************************)
(* Rectangles.                                                             *)
(***************************************************************************)
\* The rectangle holds the cell.
holds(r, x, y) == r.x <= x /\ x < r.x + r.w /\ r.y <= y /\ y < r.y + r.h

\* The cells of a rectangle are pairs of numbers.
LEMMA InCells ==
    ASSUME NEW r \in Rectangles, NEW cell
    PROVE  cell \in cells(r) <=> \E x, y \in Int : cell = <<x, y>> /\ holds(r, x, y)
<1>1. r.x \in Int /\ r.y \in Int /\ r.w \in Int /\ r.h \in Int
  BY DEF Rectangles
<1>2. ASSUME cell \in cells(r) PROVE \E x, y \in Int : cell = <<x, y>> /\ holds(r, x, y)
  <2>1. PICK x \in r.x..(r.x + r.w - 1), y \in r.y..(r.y + r.h - 1) : cell = <<x, y>>
    BY <1>2 DEF cells
  <2>2. QED
    BY <1>1, <2>1 DEF holds
<1>3. ASSUME NEW x \in Int, NEW y \in Int, cell = <<x, y>>, holds(r, x, y)
      PROVE  cell \in cells(r)
  <2>1. x \in r.x..(r.x + r.w - 1) /\ y \in r.y..(r.y + r.h - 1)
    BY <1>1, <1>3 DEF holds
  <2>2. QED
    BY <1>3, <2>1 DEF cells
<1>4. QED
  BY <1>2, <1>3

\* A rectangle that is null holds no cell.
LEMMA NullHoldsNothing ==
    ASSUME NEW r \in Rectangles, isNull(r), NEW x \in Int, NEW y \in Int
    PROVE  ~holds(r, x, y)
BY DEF Rectangles, isNull, holds

\* What operator& and operator| of QRect return.
LEMMA RectsTyped ==
    ASSUME NEW r \in Rectangles, NEW s \in Rectangles
    PROVE  intersected(r, s) \in Rectangles /\ united(r, s) \in Rectangles
BY DEF Rectangles, intersected, united, NullRect, Rect, Bounded, larger, smaller

\* The cells of an intersection are in both rectangles.
LEMMA Intersection ==
    ASSUME NEW r \in Rectangles, NEW s \in Rectangles, NEW x \in Int, NEW y \in Int
    PROVE  holds(intersected(r, s), x, y) <=> holds(r, x, y) /\ holds(s, x, y)
<1> DEFINE both == Bounded(larger(r.x, s.x), larger(r.y, s.y),
                        smaller(r.x + r.w, s.x + s.w), smaller(r.y + r.h, s.y + s.h))
<1>1. both \in Rectangles
  BY DEF Rectangles, Bounded, Rect, larger, smaller
<1>2. holds(both, x, y) <=> holds(r, x, y) /\ holds(s, x, y)
  BY DEF Rectangles, Bounded, Rect, larger, smaller, holds
<1>3. ~holds(NullRect, x, y)
  BY DEF NullRect, Rect, holds
<1> HIDE DEF both
<1>4. QED
  BY <1>1, <1>2, <1>3, NullHoldsNothing DEF intersected, both

\* The cells of either rectangle are in the union.
LEMMA Union ==
    ASSUME NEW r \in Rectangles, NEW s \in Rectangles, NEW x \in Int, NEW y \in Int,
           holds(r, x, y) \/ holds(s, x, y)
    PROVE  holds(united(r, s), x, y)
<1>1. CASE isNull(r)
  BY <1>1, NullHoldsNothing DEF united
<1>2. CASE ~isNull(r) /\ isNull(s)
  BY <1>2, NullHoldsNothing DEF united
<1>3. CASE ~isNull(r) /\ ~isNull(s)
  BY <1>3 DEF united, Rectangles, Bounded, Rect, larger, smaller, holds
<1>4. QED
  BY <1>1, <1>2, <1>3

\* The cells that a walker for the rectangle brings up to date.
LEMMA WantedCells ==
    ASSUME NEW item, item.rect \in Rectangles, NEW d
    PROVE  d \in wanted(item) <=>
               \E x, y \in Int : /\ d = [node |-> item.node, type |-> item.type, cell |-> <<x, y>>]
                                 /\ holds(item.rect, x, y) /\ holds(CropRect, x, y)
<1>1. CropRect \in Rectangles /\ intersected(item.rect, CropRect) \in Rectangles
  BY QueueAssumption, RectsTyped
<1>2. \A cell : cell \in cells(intersected(item.rect, CropRect)) <=>
          \E x, y \in Int : cell = <<x, y>> /\ holds(item.rect, x, y) /\ holds(CropRect, x, y)
  BY <1>1, InCells, Intersection
<1>3. d \in wanted(item) <=>
          \E cell \in cells(intersected(item.rect, CropRect)) :
              d = [node |-> item.node, type |-> item.type, cell |-> cell]
  BY DEF wanted
<1>4. QED
  BY <1>2, <1>3

\* Where a walker grows it wants more.
LEMMA WantedGrows ==
    ASSUME NEW a, a.rect \in Rectangles, NEW b, b.rect \in Rectangles,
           a.node = b.node, a.type = b.type,
           \A x, y \in Int : holds(a.rect, x, y) => holds(b.rect, x, y)
    PROVE  wanted(a) \subseteq wanted(b)
BY WantedCells

-------------------------------------------------------------------------------
(***************************************************************************)
(* Joining.                                                                *)
(***************************************************************************)
\* A rectangle that is not larger than a patch both ways.
staysSplit(r) == r.w <= PatchWidth \/ r.h <= PatchHeight

\* The recursion of collecting() has a solution, the value after each walker.
LEMMA CollectingDefined ==
    ASSUME Len(m_updatesList) \in Nat, NEW k, NEW rect, NEW maxAlpha
    PROVE  collecting(k, rect, maxAlpha) =
               [j \in 0..Len(m_updatesList) |->
                   IF j = 0 THEN [rect |-> rect, list |-> << >>, at |-> 0]
                   ELSE visitWalker(k, maxAlpha, collecting(k, rect, maxAlpha)[j - 1], j)]
<1> DEFINE N == Len(m_updatesList)
           start == [rect |-> rect, list |-> << >>, at |-> 0]
           Visit(acc, j) == visitWalker(k, maxAlpha, acc, j)
           Solves(f, n) == f = [j \in 0..n |-> IF j = 0 THEN start ELSE Visit(f[j - 1], j)]
           T == {n \in Nat : ~ \E f : Solves(f, n)}
<1>1. \E f : Solves(f, N)
  <2>1. SUFFICES ASSUME T # {} PROVE FALSE
    OBVIOUS
  <2>2. PICK n \in T : \A m \in T : n <= m
    <3>1. T \subseteq Nat
      OBVIOUS
    <3> HIDE DEF T
    <3>2. QED
      BY <2>1, <3>1, Least
  <2> HIDE DEF start, Visit
  <2>3. n # 0
    <3>1. Solves([j \in 0..0 |-> start], 0)
      OBVIOUS
    <3>2. QED
      BY <2>2, <3>1
  <2>4. n - 1 \in Nat /\ n - 1 \notin T
    <3>1. n \in Nat
      OBVIOUS
    <3> HIDE DEF T
    <3>2. QED
      BY <2>2, <2>3, <3>1
  <2>5. PICK g : Solves(g, n - 1)
    BY <2>4
  <2> DEFINE f == [j \in 0..n |-> IF j = n THEN Visit(g[n - 1], n) ELSE g[j]]
  <2>6. \A j \in 0..n : f[j] = IF j = 0 THEN start ELSE Visit(f[j - 1], j)
    <3>1. ASSUME NEW j \in 0..n, j # n PROVE f[j] = IF j = 0 THEN start ELSE Visit(f[j - 1], j)
      <4>1. j \in 0..(n - 1) /\ (j # 0 => j - 1 \in 0..n /\ j - 1 # n)
        BY <2>3, <2>4, <3>1
      <4>2. f[j] = g[j] /\ (j # 0 => f[j - 1] = g[j - 1])
        BY <3>1, <4>1
      <4>3. QED
        BY <2>5, <4>1, <4>2
    <3>2. n \in 0..n /\ n - 1 \in 0..n /\ n - 1 # n
      BY <2>3, <2>4
    <3>3. f[n] = Visit(f[n - 1], n)
      BY <3>2
    <3>4. QED
      BY <2>3, <3>1, <3>3
  <2>7. Solves(f, n)
    BY <2>6
  <2>8. QED
    BY <2>2, <2>7
<1> DEFINE after == CHOOSE f : Solves(f, N)
<1>2. Solves(after, N)
  BY <1>1
<1>3. collecting(k, rect, maxAlpha) = after
  BY DEF collecting
<1> HIDE DEF after
<1>4. QED
  BY <1>2, <1>3

\* Every walker of a list is one.
LEMMA WalkerTyped ==
    ASSUME NEW list \in Seq(KisBaseRectsWalker)
    PROVE  /\ Len(list) \in Nat /\ DOMAIN list = 1..Len(list)
           /\ \A i \in DOMAIN list : list[i] \in KisBaseRectsWalker /\ list[i].rect \in Rectangles
<1>1. /\ Len(list) \in Nat /\ DOMAIN list = 1..Len(list)
      /\ \A i \in DOMAIN list : list[i] \in KisBaseRectsWalker
  OBVIOUS
<1>2. \A item \in KisBaseRectsWalker : item.rect \in Rectangles
  BY DEF KisBaseRectsWalker
<1>3. QED
  BY <1>1, <1>2

\* What has become of the first j walkers: the base at k and what it has taken in,
\* and the walkers that have stayed.
takenIn(k, rect, i) ==
    /\ sameKind(m_updatesList[i], m_updatesList[k])
    /\ \A x, y \in Int : holds(m_updatesList[i].rect, x, y) => holds(rect, x, y)

hasStayed(acc, i) == \E p \in DOMAIN acc.list : p # acc.at /\ acc.list[p] = m_updatesList[i]

Gathered(k, rect, acc, j) ==
    /\ acc \in [rect : Rectangles, list : Seq(KisBaseRectsWalker), at : Nat]
    /\ staysSplit(acc.rect)
    /\ \A p \in DOMAIN acc.list : staysSplit(acc.list[p].rect)
    /\ j < k => acc.at = 0
    /\ j >= k => acc.at \in DOMAIN acc.list /\ acc.list[acc.at] = m_updatesList[k]
    /\ \A x, y \in Int : holds(rect, x, y) => holds(acc.rect, x, y)
    /\ \A i \in 1..j : i # k => takenIn(k, acc.rect, i) \/ hasStayed(acc, i)

\* A walker is appended to those that stay.
LEMMA Stays ==
    ASSUME NEW acc \in [rect : Rectangles, list : Seq(KisBaseRectsWalker), at : Nat],
           NEW item \in KisBaseRectsWalker, NEW l, l = Append(acc.list, item)
    PROVE  /\ l \in Seq(KisBaseRectsWalker) /\ DOMAIN l = 1..(Len(acc.list) + 1)
           /\ DOMAIN acc.list = 1..Len(acc.list) /\ Len(acc.list) \in Nat
           /\ \A p \in DOMAIN acc.list : p \in DOMAIN l /\ l[p] = acc.list[p]
           /\ l[Len(acc.list) + 1] = item /\ Len(acc.list) + 1 \in DOMAIN l
           /\ Len(acc.list) + 1 \notin DOMAIN acc.list
OBVIOUS

\* One more walker is looked at.
LEMMA Visited ==
    ASSUME m_updatesList \in Seq(KisBaseRectsWalker), WalkersStaySplit,
           NEW k \in DOMAIN m_updatesList, NEW j \in DOMAIN m_updatesList, NEW rect, NEW maxAlpha,
           NEW acc, Gathered(k, rect, acc, j - 1)
    PROVE  Gathered(k, rect, visitWalker(k, maxAlpha, acc, j), j)
<1> DEFINE base == m_updatesList[k]
           item == m_updatesList[j]
           new == visitWalker(k, maxAlpha, acc, j)
           l == Append(acc.list, item)
<1>1. /\ acc \in [rect : Rectangles, list : Seq(KisBaseRectsWalker), at : Nat]
      /\ acc.list \in Seq(KisBaseRectsWalker) /\ acc.rect \in Rectangles /\ acc.at \in Nat
  BY DEF Gathered
<1>2. /\ item \in KisBaseRectsWalker /\ item.rect \in Rectangles /\ staysSplit(item.rect)
      /\ k \in Nat /\ j \in Nat /\ j >= 1
  BY WalkerTyped DEF WalkersStaySplit, staysSplit
<1>3. /\ l \in Seq(KisBaseRectsWalker) /\ DOMAIN l = 1..(Len(acc.list) + 1)
      /\ DOMAIN acc.list = 1..Len(acc.list) /\ Len(acc.list) \in Nat
      /\ \A p \in DOMAIN acc.list : p \in DOMAIN l /\ l[p] = acc.list[p]
      /\ l[Len(acc.list) + 1] = item /\ Len(acc.list) + 1 \in DOMAIN l
      /\ Len(acc.list) + 1 \notin DOMAIN acc.list
  BY <1>1, <1>2, Stays
<1>4. \A p \in DOMAIN l : staysSplit(l[p].rect)
  BY <1>2, <1>3 DEF Gathered
<1>5. CASE j = k
  <2>1. new = [acc EXCEPT !.at = Len(acc.list) + 1, !.list = l]
    BY <1>5 DEF visitWalker
  <2> HIDE DEF new, l
  <2>2. /\ new.at = Len(acc.list) + 1 /\ new.list = l /\ new.rect = acc.rect
        /\ new \in [rect : Rectangles, list : Seq(KisBaseRectsWalker), at : Nat]
    <3>1. Len(acc.list) + 1 \in Nat /\ l \in Seq(KisBaseRectsWalker)
      BY <1>3
    <3>2. QED
      BY <1>1, <2>1, <3>1
  <2>3. acc.at = 0
    BY <1>2, <1>5 DEF Gathered
  <2>4. ASSUME NEW i \in 1..j, i # k PROVE takenIn(k, new.rect, i) \/ hasStayed(new, i)
    <3>1. i \in 1..(j - 1)
      BY <1>2, <1>5, <2>4
    <3>2. takenIn(k, acc.rect, i) \/ hasStayed(acc, i)
      BY <2>4, <3>1 DEF Gathered
    <3>3. hasStayed(acc, i) => hasStayed(new, i)
      BY <1>3, <2>2 DEF hasStayed
    <3>4. QED
      BY <2>2, <3>2, <3>3
  <2>5. Gathered(k, rect, new, j)
    BY <1>3, <1>4, <1>5, <2>2, <2>4 DEF Gathered
  <2>6. QED
    BY <2>5 DEF new
<1>6. CASE j # k /\ sameKind(item, base) /\ canJoin(acc.rect, item.rect, maxAlpha)
  <2> DEFINE grown == united(acc.rect, item.rect)
  <2>1. new = [acc EXCEPT !.rect = grown]
    BY <1>6 DEF visitWalker
  <2>2. grown \in Rectangles /\ staysSplit(grown)
    BY <1>1, <1>2, <1>6, RectsTyped DEF canJoin, fitsPatch, staysSplit
  <2>3. \A x, y \in Int : holds(acc.rect, x, y) \/ holds(item.rect, x, y) => holds(grown, x, y)
    BY <1>1, <1>2, Union
  <2> HIDE DEF new, grown
  <2>4. /\ new.at = acc.at /\ new.list = acc.list /\ new.rect = grown
        /\ new \in [rect : Rectangles, list : Seq(KisBaseRectsWalker), at : Nat]
    BY <1>1, <2>1, <2>2
  <2>5. ASSUME NEW i \in 1..j, i # k PROVE takenIn(k, new.rect, i) \/ hasStayed(new, i)
    <3>1. CASE i = j
      BY <1>6, <2>3, <2>4, <3>1 DEF takenIn
    <3>2. CASE i # j
      <4>1. i \in 1..(j - 1)
        BY <1>2, <3>2
      <4>2. takenIn(k, acc.rect, i) \/ hasStayed(acc, i)
        BY <2>5, <4>1 DEF Gathered
      <4>3. takenIn(k, acc.rect, i) => takenIn(k, new.rect, i)
        BY <2>3, <2>4 DEF takenIn
      <4>4. hasStayed(acc, i) => hasStayed(new, i)
        BY <2>4 DEF hasStayed
      <4>5. QED
        BY <4>2, <4>3, <4>4
    <3>3. QED
      BY <3>1, <3>2
  <2>6. \A x, y \in Int : holds(rect, x, y) => holds(new.rect, x, y)
    BY <2>3, <2>4 DEF Gathered
  <2>7. j < k => new.at = 0
    BY <1>2, <2>4 DEF Gathered
  <2>8. j >= k => new.at \in DOMAIN new.list /\ new.list[new.at] = base
    <3>1. j >= k => j - 1 >= k
      BY <1>2, <1>6
    <3>2. QED
      BY <2>4, <3>1 DEF Gathered
  <2>9. staysSplit(new.rect) /\ \A p \in DOMAIN new.list : staysSplit(new.list[p].rect)
    BY <2>2, <2>4 DEF Gathered
  <2>10. Gathered(k, rect, new, j)
    BY <2>4, <2>5, <2>6, <2>7, <2>8, <2>9 DEF Gathered
  <2>11. QED
    BY <2>10 DEF new
<1>7. CASE j # k /\ ~(sameKind(item, base) /\ canJoin(acc.rect, item.rect, maxAlpha))
  <2>1. new = [acc EXCEPT !.list = l]
    BY <1>7 DEF visitWalker
  <2> HIDE DEF new, l
  <2>2. /\ new.at = acc.at /\ new.list = l /\ new.rect = acc.rect
        /\ new \in [rect : Rectangles, list : Seq(KisBaseRectsWalker), at : Nat]
    BY <1>1, <1>3, <2>1
  <2>3. j < k => new.at = 0
    BY <1>2, <2>2 DEF Gathered
  <2>4. j >= k => acc.at \in DOMAIN acc.list /\ acc.list[acc.at] = base
    <3>1. j >= k => j - 1 >= k
      BY <1>2, <1>7
    <3>2. QED
      BY <3>1 DEF Gathered
  <2>5. Len(acc.list) + 1 # acc.at
    <3>1. CASE j < k
      BY <1>1, <1>3, <2>2, <2>3, <3>1
    <3>2. CASE j >= k
      BY <1>3, <2>4, <3>2
    <3>3. QED
      BY <1>2, <3>1, <3>2
  <2>6. ASSUME NEW i \in 1..j, i # k PROVE takenIn(k, new.rect, i) \/ hasStayed(new, i)
    <3>1. CASE i = j
      BY <1>3, <2>2, <2>5, <3>1 DEF hasStayed
    <3>2. CASE i # j
      <4>1. i \in 1..(j - 1)
        BY <1>2, <3>2
      <4>2. takenIn(k, acc.rect, i) \/ hasStayed(acc, i)
        BY <2>6, <4>1 DEF Gathered
      <4>3. hasStayed(acc, i) => hasStayed(new, i)
        BY <1>3, <2>2 DEF hasStayed
      <4>4. QED
        BY <2>2, <4>2, <4>3
    <3>3. QED
      BY <3>1, <3>2
  <2>7. j >= k => new.at \in DOMAIN new.list /\ new.list[new.at] = base
    BY <1>3, <2>2, <2>4
  <2>8. /\ staysSplit(new.rect) /\ \A p \in DOMAIN new.list : staysSplit(new.list[p].rect)
        /\ \A x, y \in Int : holds(rect, x, y) => holds(new.rect, x, y)
    BY <1>4, <2>2 DEF Gathered
  <2>9. Gathered(k, rect, new, j)
    BY <2>2, <2>3, <2>6, <2>7, <2>8 DEF Gathered
  <2>10. QED
    BY <2>9 DEF new
<1>8. QED
  BY <1>5, <1>6, <1>7

\* Nothing is looked at yet, and by induction everything has been looked at.
LEMMA AllVisited ==
    ASSUME m_updatesList \in Seq(KisBaseRectsWalker), WalkersStaySplit,
           NEW k \in DOMAIN m_updatesList, NEW rect \in Rectangles, staysSplit(rect), NEW maxAlpha
    PROVE  Gathered(k, rect, collecting(k, rect, maxAlpha)[Len(m_updatesList)], Len(m_updatesList))
<1> DEFINE N == Len(m_updatesList)
           after == collecting(k, rect, maxAlpha)
           T == {n \in Nat : n <= N /\ ~Gathered(k, rect, after[n], n)}
<1>1. N \in Nat /\ DOMAIN m_updatesList = 1..N
  BY WalkerTyped
<1>2. after = [j \in 0..N |-> IF j = 0 THEN [rect |-> rect, list |-> << >>, at |-> 0]
                             ELSE visitWalker(k, maxAlpha, after[j - 1], j)]
  BY <1>1, CollectingDefined
<1> HIDE DEF after
<1>3. Gathered(k, rect, after[0], 0)
  <2>1. after[0] = [rect |-> rect, list |-> << >>, at |-> 0]
    BY <1>1, <1>2
  <2>2. << >> \in Seq(KisBaseRectsWalker) /\ DOMAIN << >> = {} /\ 0 \in Nat
    OBVIOUS
  <2>3. after[0] \in [rect : Rectangles, list : Seq(KisBaseRectsWalker), at : Nat]
    BY <2>1, <2>2
  <2>4. 0 < k /\ ~(0 >= k)
    BY <1>1
  <2>5. QED
    BY <2>1, <2>2, <2>3, <2>4 DEF Gathered
<1>4. ASSUME NEW j \in DOMAIN m_updatesList, Gathered(k, rect, after[j - 1], j - 1)
      PROVE  Gathered(k, rect, after[j], j)
  <2>1. after[j] = visitWalker(k, maxAlpha, after[j - 1], j)
    BY <1>1, <1>2
  <2>2. QED
    BY <1>4, <2>1, Visited
<1>5. T = {}
  <2>1. SUFFICES ASSUME T # {} PROVE FALSE
    OBVIOUS
  <2>2. T \subseteq Nat /\ \A n \in T : n <= N /\ ~Gathered(k, rect, after[n], n)
    OBVIOUS
  <2>3. \A n \in Nat : n \notin T /\ n <= N => Gathered(k, rect, after[n], n)
    OBVIOUS
  <2> HIDE DEF T
  <2>4. PICK n \in T : \A m \in T : n <= m
    BY <2>1, <2>2, Least
  <2>5. n \in Nat /\ n # 0
    BY <1>3, <2>2, <2>4
  <2>6. n - 1 \in Nat /\ n - 1 \notin T /\ n - 1 <= N /\ n \in DOMAIN m_updatesList
    BY <1>1, <2>2, <2>4, <2>5
  <2>7. Gathered(k, rect, after[n - 1], n - 1)
    BY <2>3, <2>6
  <2>8. QED
    BY <1>4, <2>2, <2>6, <2>7
<1>6. Gathered(k, rect, after[N], N)
  BY <1>1, <1>5
<1>7. QED
  BY <1>6 DEF after

\* collectJobs() keeps every walker or takes it into the base, and stays below a patch.
LEMMA JobsCollected ==
    ASSUME m_updatesList \in Seq(KisBaseRectsWalker), WalkersStaySplit,
           NEW k \in DOMAIN m_updatesList, NEW rect \in Rectangles, staysSplit(rect), NEW maxAlpha,
           \A x, y \in Int : holds(m_updatesList[k].rect, x, y) => holds(rect, x, y),
           NEW list, list = collectJobs(k, rect, maxAlpha)
    PROVE  /\ list \in Seq(KisBaseRectsWalker)
           /\ \A p \in DOMAIN list : staysSplit(list[p].rect)
           /\ \A i \in DOMAIN m_updatesList : \E p \in DOMAIN list :
                  wanted(m_updatesList[i]) \subseteq wanted(list[p])
           /\ \E p \in DOMAIN list : wanted([m_updatesList[k] EXCEPT !.rect = rect]) \subseteq wanted(list[p])
<1> DEFINE N == Len(m_updatesList)
           base == m_updatesList[k]
<1>1. PICK end : end = collecting(k, rect, maxAlpha)[N]
  OBVIOUS
<1>2. Gathered(k, rect, end, N)
  BY <1>1, AllVisited
<1>3. /\ N \in Nat /\ DOMAIN m_updatesList = 1..N /\ k <= N
      /\ \A i \in DOMAIN m_updatesList : m_updatesList[i] \in KisBaseRectsWalker
                                         /\ m_updatesList[i].rect \in Rectangles
  BY WalkerTyped
<1>4. /\ end.list \in Seq(KisBaseRectsWalker) /\ end.rect \in Rectangles
      /\ end.at \in DOMAIN end.list /\ end.list[end.at] = base
  BY <1>2, <1>3 DEF Gathered
<1>5. PICK last : last = [base EXCEPT !.rect = end.rect]
  OBVIOUS
<1>6. /\ last \in KisBaseRectsWalker /\ last.node = base.node /\ last.type = base.type
      /\ last.rect = end.rect
  BY <1>3, <1>4, <1>5 DEF KisBaseRectsWalker
<1>7. list = [end.list EXCEPT ![end.at] = last]
  BY <1>1, <1>4, <1>5 DEF collectJobs
<1>8. /\ list \in Seq(KisBaseRectsWalker) /\ DOMAIN list = DOMAIN end.list
      /\ list[end.at] = last /\ end.at \in DOMAIN list
      /\ \A p \in DOMAIN list : p # end.at => list[p] = end.list[p]
  BY <1>4, <1>6, <1>7
<1>9. \A p \in DOMAIN list : staysSplit(list[p].rect)
  BY <1>2, <1>6, <1>8 DEF Gathered
<1>10. ASSUME NEW i \in DOMAIN m_updatesList
       PROVE  \E p \in DOMAIN list : wanted(m_updatesList[i]) \subseteq wanted(list[p])
  <2>1. CASE i = k
    <3>1. \A x, y \in Int : holds(m_updatesList[i].rect, x, y) => holds(last.rect, x, y)
      BY <1>2, <1>6, <2>1 DEF Gathered
    <3>2. wanted(m_updatesList[i]) \subseteq wanted(last)
      BY <1>3, <1>4, <1>6, <2>1, <3>1, WantedGrows
    <3>3. QED
      BY <1>8, <3>2
  <2>2. CASE i # k /\ takenIn(k, end.rect, i)
    <3>1. wanted(m_updatesList[i]) \subseteq wanted(last)
      BY <1>3, <1>4, <1>6, <2>2, WantedGrows DEF takenIn, sameKind
    <3>2. QED
      BY <1>8, <3>1
  <2>3. CASE i # k /\ hasStayed(end, i)
    BY <1>8, <2>3 DEF hasStayed
  <2>4. QED
    BY <1>2, <1>3, <2>1, <2>2, <2>3 DEF Gathered
<1>11. \E p \in DOMAIN list : wanted([base EXCEPT !.rect = rect]) \subseteq wanted(list[p])
  <2>1. PICK grown : grown = [base EXCEPT !.rect = rect]
    OBVIOUS
  <2>2. grown.rect = rect /\ grown.node = base.node /\ grown.type = base.type
    BY <1>3, <2>1 DEF KisBaseRectsWalker
  <2>3. \A x, y \in Int : holds(grown.rect, x, y) => holds(last.rect, x, y)
    BY <1>2, <1>6, <2>2 DEF Gathered
  <2>4. wanted(grown) \subseteq wanted(last)
    BY <1>4, <1>6, <2>2, <2>3, WantedGrows
  <2>5. QED
    BY <1>8, <2>1, <2>4
<1>12. QED
  BY <1>8, <1>9, <1>10, <1>11

-------------------------------------------------------------------------------
(***************************************************************************)
(* Splitting.                                                              *)
(***************************************************************************)
\* Division with remainder.
LEMMA Quotient ==
    ASSUME NEW v \in Nat, NEW size \in Nat \ {0}
    PROVE  /\ v \div size \in Nat /\ v % size \in Nat /\ v % size < size
           /\ v = (v \div size) * size + (v % size)
OBVIOUS

\* There is only one way to divide.
LEMMA QuotientUnique ==
    ASSUME NEW q \in Nat, NEW r \in Nat, NEW p \in Nat, NEW s \in Nat, NEW size \in Nat \ {0},
           r < size, s < size, q * size + r = p * size + s
    PROVE  q = p /\ r = s
<1>1. ASSUME NEW a \in Nat, NEW b \in Nat, a < b PROVE a * size + size <= b * size
  <2>1. PICK d \in Nat : b = a + 1 + d
    <3>1. b - a - 1 \in Nat /\ b = a + 1 + (b - a - 1)
      BY <1>1
    <3>2. QED
      BY <3>1
  <2>2. b * size = a * size + size + d * size
    BY <2>1
  <2>3. d * size \in Nat /\ a * size \in Nat
    OBVIOUS
  <2>4. QED
    BY <2>2, <2>3
<1>2. q * size \in Nat /\ p * size \in Nat
  OBVIOUS
<1>3. ~(q < p)
  <2>1. q < p => q * size + size <= p * size
    BY <1>1
  <2>2. QED
    BY <1>2, <2>1
<1>4. ~(p < q)
  <2>1. p < q => p * size + size <= q * size
    BY <1>1
  <2>2. QED
    BY <1>2, <2>1
<1>5. q = p
  BY <1>3, <1>4
<1>6. QED
  BY <1>2, <1>5

\* The quotients of larger numbers are not smaller.
LEMMA QuotientGrows ==
    ASSUME NEW v \in Nat, NEW u \in Nat, v <= u, NEW size \in Nat \ {0}
    PROVE  v \div size <= u \div size
<1>1. PICK q \in Nat, r \in Nat : v \div size = q /\ r < size /\ v = q * size + r
  BY Quotient
<1>2. PICK p \in Nat, s \in Nat : u \div size = p /\ s < size /\ u = p * size + s
  BY Quotient
<1>3. ASSUME p < q PROVE FALSE
  <2>1. PICK d \in Nat : q = p + 1 + d
    <3>1. q - p - 1 \in Nat /\ q = p + 1 + (q - p - 1)
      BY <1>3
    <3>2. QED
      BY <3>1
  <2>2. q * size = p * size + size + d * size
    BY <2>1
  <2>3. d * size \in Nat /\ p * size \in Nat /\ q * size \in Nat
    OBVIOUS
  <2>4. QED
    BY <1>1, <1>2, <2>2, <2>3
<1>4. QED
  BY <1>1, <1>2, <1>3

\* A number counts a row and a column.
LEMMA RowAndColumn ==
    ASSUME NEW row \in Nat, NEW column \in Nat, NEW columns \in Nat \ {0}, column < columns
    PROVE  /\ (row * columns + column) \div columns = row
           /\ (row * columns + column) % columns = column
<1>1. row * columns + column \in Nat
  OBVIOUS
<1>2. PICK q \in Nat, r \in Nat : /\ (row * columns + column) \div columns = q
                                  /\ (row * columns + column) % columns = r
                                  /\ r < columns /\ row * columns + column = q * columns + r
  BY <1>1, Quotient
<1>3. QED
  BY <1>2, QuotientUnique

\* Division that rounds towards zero.
LEMMA TruncatedTyped ==
    ASSUME NEW a \in Int, NEW size \in Nat \ {0}
    PROVE  truncated(a, size) \in Int
<1>1. CASE a >= 0
  <2>1. a \in Nat
    BY <1>1
  <2>2. a \div size \in Nat
    BY <2>1, Quotient
  <2>3. QED
    BY <1>1, <2>2 DEF truncated
<1>2. CASE ~(a >= 0)
  <2>1. -a \in Nat
    BY <1>2
  <2>2. (-a) \div size \in Nat
    BY <2>1, Quotient
  <2>3. QED
    BY <1>2, <2>2 DEF truncated
<1>3. QED
  BY <1>1, <1>2

\* ... and keeps the order.
LEMMA TruncatedGrows ==
    ASSUME NEW a \in Int, NEW b \in Int, a <= b, NEW size \in Nat \ {0}
    PROVE  truncated(a, size) <= truncated(b, size)
<1>1. \A v \in Nat : v \div size \in Nat
  BY Quotient
<1>2. CASE a >= 0
  <2>1. a \in Nat /\ b \in Nat /\ b >= 0
    BY <1>2
  <2>2. a \div size <= b \div size
    BY <2>1, QuotientGrows
  <2>3. QED
    BY <1>2, <2>1, <2>2 DEF truncated
<1>3. CASE ~(a >= 0) /\ b >= 0
  <2>1. -a \in Nat /\ b \in Nat
    BY <1>3
  <2>2. (-a) \div size \in Nat /\ b \div size \in Nat
    BY <1>1, <2>1
  <2>3. QED
    BY <1>3, <2>2 DEF truncated
<1>4. CASE ~(a >= 0) /\ ~(b >= 0)
  <2>1. -a \in Nat /\ -b \in Nat /\ -b <= -a
    BY <1>4
  <2>2. (-b) \div size <= (-a) \div size
    BY <2>1, QuotientGrows
  <2>3. (-a) \div size \in Nat /\ (-b) \div size \in Nat
    BY <1>1, <2>1
  <2>4. QED
    BY <1>4, <2>2, <2>3 DEF truncated
<1>5. QED
  BY <1>2, <1>3, <1>4

\* The patch of a cell of the image is one of those the request is split into, wherever
\* the request begins: left of the image too, where the division rounds up.
LEMMA PatchInside ==
    ASSUME NEW v \in Nat, NEW start \in Int, NEW end \in Int, start <= v, v < end,
           NEW size \in Nat \ {0}
    PROVE  firstPatch(start, size) <= v \div size /\ v \div size <= lastPatch(end, size)
<1>1. v \div size \in Nat
  BY Quotient
<1>2. CASE start >= 0
  <2>1. start \in Nat /\ start \div size \in Nat
    BY <1>2, Quotient
  <2>2. start \div size <= v \div size
    BY <2>1, QuotientGrows
  <2>3. QED
    <3>1. end \in Nat /\ end >= 0 /\ v <= end
      BY <1>2
    <3>2. v \div size <= end \div size
      BY <3>1, QuotientGrows
    <3>3. QED
      BY <1>2, <2>2, <3>1, <3>2 DEF firstPatch, lastPatch, truncated
<1>3. CASE ~(start >= 0)
  <2>1. -start \in Nat
    BY <1>3
  <2>2. (-start) \div size \in Nat
    BY <2>1, Quotient
  <2>3. -((-start) \div size) <= v \div size
    BY <1>1, <2>2
  <2>4. end \in Nat /\ end >= 0 /\ v <= end
    OBVIOUS
  <2>5. v \div size <= end \div size
    BY <2>4, QuotientGrows
  <2>6. QED
    BY <1>3, <2>3, <2>4, <2>5 DEF firstPatch, lastPatch, truncated
<1>4. QED
  BY <1>2, <1>3

\* A cell lies in its patch.
LEMMA InOwnPatch ==
    ASSUME NEW x \in Nat, NEW y \in Nat
    PROVE  /\ maxPatchRect(x \div PatchWidth, y \div PatchHeight) \in Rectangles
           /\ holds(maxPatchRect(x \div PatchWidth, y \div PatchHeight), x, y)
<1>1. PICK q \in Nat, r \in Nat : x \div PatchWidth = q /\ r < PatchWidth /\ x = q * PatchWidth + r
  BY Quotient, QueueAssumption
<1>2. PICK p \in Nat, s \in Nat : y \div PatchHeight = p /\ s < PatchHeight /\ y = p * PatchHeight + s
  BY Quotient, QueueAssumption
<1>3. q * PatchWidth \in Int /\ p * PatchHeight \in Int /\ PatchWidth \in Int /\ PatchHeight \in Int
  BY QueueAssumption
<1>4. maxPatchRect(q, p) \in Rectangles /\ holds(maxPatchRect(q, p), x, y)
  BY <1>1, <1>2, <1>3 DEF maxPatchRect, Rect, Rectangles, holds
<1>5. QED
  BY <1>1, <1>2, <1>4

\* A patch is a rectangle, and no larger than a patch.
LEMMA PatchTyped ==
    ASSUME NEW column \in Int, NEW row \in Int, NEW rc \in Rectangles
    PROVE  /\ maxPatchRect(column, row) \in Rectangles
           /\ staysSplit(intersected(rc, maxPatchRect(column, row)))
<1>1. PICK x \in Int : x = column * PatchWidth
  BY QueueAssumption
<1>2. PICK y \in Int : y = row * PatchHeight
  BY QueueAssumption
<1>3. maxPatchRect(column, row) = Rect(x, y, PatchWidth, PatchHeight)
  BY <1>1, <1>2 DEF maxPatchRect
<1>4. PatchWidth \in Nat \ {0} /\ PatchHeight \in Nat \ {0}
  BY QueueAssumption
<1>5. Rect(x, y, PatchWidth, PatchHeight) \in Rectangles
  BY <1>4 DEF Rect, Rectangles
<1>6. staysSplit(intersected(rc, Rect(x, y, PatchWidth, PatchHeight)))
  BY <1>4 DEF Rect, Rectangles, intersected, isNull, NullRect, Bounded, larger, smaller, staysSplit
<1>7. QED
  BY <1>3, <1>5, <1>6

\* A request that is split covers at least one row and one column of patches.
LEMMA SplitSizes ==
    ASSUME NEW rc \in Rectangles, ~(rc.w <= PatchWidth \/ rc.h <= PatchHeight)
    PROVE  /\ firstPatch(rc.x, PatchWidth) \in Int /\ firstPatch(rc.y, PatchHeight) \in Int
           /\ lastPatch(rc.x + rc.w, PatchWidth) - firstPatch(rc.x, PatchWidth) + 1 \in Nat \ {0}
           /\ lastPatch(rc.y + rc.h, PatchHeight) - firstPatch(rc.y, PatchHeight) + 1 \in Nat \ {0}
<1>1. /\ PatchWidth \in Nat \ {0} /\ PatchHeight \in Nat \ {0}
      /\ rc.x \in Int /\ rc.y \in Int /\ rc.w \in Int /\ rc.h \in Int
  BY QueueAssumption DEF Rectangles
<1>2. rc.x + rc.w \in Int /\ rc.y + rc.h \in Int /\ rc.x <= rc.x + rc.w /\ rc.y <= rc.y + rc.h
  BY <1>1
<1>3. /\ truncated(rc.x, PatchWidth) <= truncated(rc.x + rc.w, PatchWidth)
      /\ truncated(rc.y, PatchHeight) <= truncated(rc.y + rc.h, PatchHeight)
  BY <1>1, <1>2, TruncatedGrows
<1>4. /\ truncated(rc.x, PatchWidth) \in Int /\ truncated(rc.x + rc.w, PatchWidth) \in Int
      /\ truncated(rc.y, PatchHeight) \in Int /\ truncated(rc.y + rc.h, PatchHeight) \in Int
  BY <1>1, <1>2, TruncatedTyped
<1>5. QED
  BY <1>3, <1>4 DEF firstPatch, lastPatch

\* The pieces of a request are rectangles, none is larger than a patch both ways, and
\* they lie inside the request.
LEMMA SplitTyped ==
    ASSUME NEW rc \in Rectangles
    PROVE  /\ trySplitJob(rc) \in Seq(Rectangles)
           /\ \A k \in DOMAIN trySplitJob(rc) :
                  /\ staysSplit(trySplitJob(rc)[k])
                  /\ \A x, y \in Int : holds(trySplitJob(rc)[k], x, y) => holds(rc, x, y)
<1>1. CASE rc.w <= PatchWidth \/ rc.h <= PatchHeight
  <2>1. trySplitJob(rc) = <<rc>>
    BY <1>1 DEF trySplitJob
  <2>2. QED
    BY <1>1, <2>1 DEF staysSplit
<1>2. CASE ~(rc.w <= PatchWidth \/ rc.h <= PatchHeight)
  <2> DEFINE left == firstPatch(rc.x, PatchWidth)
             top == firstPatch(rc.y, PatchHeight)
             columns == lastPatch(rc.x + rc.w, PatchWidth) - left + 1
             rows == lastPatch(rc.y + rc.h, PatchHeight) - top + 1
             piece(k) == intersected(rc, maxPatchRect(left + ((k - 1) % columns),
                                                      top + ((k - 1) \div columns)))
  <2>1. trySplitJob(rc) = [k \in 1..(columns * rows) |-> piece(k)]
    BY <1>2 DEF trySplitJob
  <2>2. left \in Int /\ top \in Int /\ columns \in Nat \ {0} /\ rows \in Nat \ {0}
    BY SplitSizes, <1>2
  <2>3. ASSUME NEW k \in 1..(columns * rows)
        PROVE  /\ piece(k) \in Rectangles /\ staysSplit(piece(k))
               /\ \A x, y \in Int : holds(piece(k), x, y) => holds(rc, x, y)
    <3> HIDE DEF left, top, columns, rows
    <3>1. k - 1 \in Nat
      BY <2>2, <2>3
    <3>2. PICK q \in Nat, r \in Nat : (k - 1) \div columns = q /\ (k - 1) % columns = r
      BY <2>2, <3>1, Quotient
    <3>3. left + r \in Int /\ top + q \in Int
      BY <2>2
    <3>4. piece(k) = intersected(rc, maxPatchRect(left + r, top + q))
      BY <3>2
    <3> HIDE DEF piece
    <3>5. QED
      BY <3>3, <3>4, PatchTyped, RectsTyped, Intersection
  <2> HIDE DEF left, top, columns, rows, piece
  <2>4. columns * rows \in Nat
    BY <2>2
  <2>5. trySplitJob(rc) \in Seq(Rectangles) /\ DOMAIN trySplitJob(rc) = 1..(columns * rows)
    BY <2>1, <2>3, <2>4
  <2>6. QED
    BY <2>1, <2>3, <2>5
<1>3. QED
  BY <1>1, <1>2

\* The pieces of a request cover all its cells right of and below the origin.
LEMMA SplitCovers ==
    ASSUME NEW rc \in Rectangles, NEW x \in Nat, NEW y \in Nat, holds(rc, x, y)
    PROVE  \E k \in DOMAIN trySplitJob(rc) : holds(trySplitJob(rc)[k], x, y)
<1>1. CASE rc.w <= PatchWidth \/ rc.h <= PatchHeight
  <2>1. trySplitJob(rc) = <<rc>>
    BY <1>1 DEF trySplitJob
  <2>2. QED
    BY <2>1
<1>2. CASE ~(rc.w <= PatchWidth \/ rc.h <= PatchHeight)
  <2> DEFINE left == firstPatch(rc.x, PatchWidth)
             top == firstPatch(rc.y, PatchHeight)
             columns == lastPatch(rc.x + rc.w, PatchWidth) - left + 1
             rows == lastPatch(rc.y + rc.h, PatchHeight) - top + 1
             piece(k) == intersected(rc, maxPatchRect(left + ((k - 1) % columns),
                                                      top + ((k - 1) \div columns)))
             xPatch == x \div PatchWidth
             yPatch == y \div PatchHeight
             column == xPatch - left
             row == yPatch - top
             k == row * columns + column + 1
  <2>1. trySplitJob(rc) = [j \in 1..(columns * rows) |-> piece(j)]
    BY <1>2 DEF trySplitJob
  <2>2. left \in Int /\ top \in Int /\ columns \in Nat \ {0} /\ rows \in Nat \ {0}
    BY SplitSizes, <1>2
  <2>3. xPatch \in Nat /\ yPatch \in Nat
    BY Quotient, QueueAssumption
  <2>4. /\ left <= xPatch /\ xPatch <= lastPatch(rc.x + rc.w, PatchWidth)
        /\ top <= yPatch /\ yPatch <= lastPatch(rc.y + rc.h, PatchHeight)
    <3>1. /\ rc.x \in Int /\ rc.x + rc.w \in Int /\ rc.x <= x /\ x < rc.x + rc.w
          /\ rc.y \in Int /\ rc.y + rc.h \in Int /\ rc.y <= y /\ y < rc.y + rc.h
      BY DEF holds, Rectangles
    <3>2. PatchWidth \in Nat \ {0} /\ PatchHeight \in Nat \ {0}
      BY QueueAssumption
    <3>3. QED
      BY <3>1, <3>2, PatchInside
  <2>5. lastPatch(rc.x + rc.w, PatchWidth) \in Int /\ lastPatch(rc.y + rc.h, PatchHeight) \in Int
    BY TruncatedTyped, QueueAssumption DEF lastPatch, Rectangles
  <2>6. column \in Nat /\ column < columns /\ row \in Nat /\ row < rows
    <3>1. PICK a \in Int : a = lastPatch(rc.x + rc.w, PatchWidth)
      BY <2>5
    <3>2. PICK b \in Int : b = lastPatch(rc.y + rc.h, PatchHeight)
      BY <2>5
    <3> HIDE DEF left, top, xPatch, yPatch
    <3>3. columns = a - left + 1 /\ rows = b - top + 1
      BY <3>1, <3>2
    <3>4. left <= xPatch /\ xPatch <= a /\ top <= yPatch /\ yPatch <= b
      BY <2>4, <3>1, <3>2
    <3>5. QED
      BY <2>2, <2>3, <3>3, <3>4
  <2>7. holds(intersected(rc, maxPatchRect(xPatch, yPatch)), x, y)
    BY InOwnPatch, Intersection
  <2>8. left + column = xPatch /\ top + row = yPatch
    <3> HIDE DEF left, top, xPatch, yPatch
    <3>1. QED
      BY <2>2, <2>3
  <2> HIDE DEF left, top, columns, rows, xPatch, yPatch, column, row
  <2>9. k \in 1..(columns * rows)
    <3>1. PICK d \in Nat : rows = row + 1 + d
      <4>1. rows - row - 1 \in Nat /\ rows = row + 1 + (rows - row - 1)
        BY <2>2, <2>6
      <4>2. QED
        BY <4>1
    <3>2. columns * rows = row * columns + columns + d * columns
      BY <2>2, <2>6, <3>1
    <3>3. row * columns \in Nat /\ d * columns \in Nat
      BY <2>2, <2>6
    <3>4. QED
      BY <2>2, <2>6, <3>2, <3>3
  <2>10. piece(k) = intersected(rc, maxPatchRect(xPatch, yPatch))
    <3>1. k - 1 = row * columns + column
      BY <2>2, <2>6
    <3>2. (k - 1) \div columns = row /\ (k - 1) % columns = column
      BY <2>2, <2>6, <3>1, RowAndColumn
    <3> HIDE DEF k
    <3>3. QED
      BY <2>8, <3>2
  <2> HIDE DEF k, piece
  <2>11. k \in DOMAIN trySplitJob(rc) /\ trySplitJob(rc)[k] = piece(k)
    BY <2>1, <2>9
  <2>12. QED
    BY <2>7, <2>10, <2>11
<1>3. QED
  BY <1>1, <1>2

-------------------------------------------------------------------------------
(***************************************************************************)
(* The queue.                                                              *)
(***************************************************************************)
\* What has been split stays split on the way to the list too.
QueueTyped ==
    /\ m_updatesList \in Seq(KisBaseRectsWalker)
    /\ patches \in [Threads -> Seq(KisBaseRectsWalker)]
    /\ unmerged \in [Threads -> BOOLEAN]
    /\ \A t \in Threads : unmerged[t] => patches[t] # << >>

PatchesStaySplit ==
    \A t \in Threads : \A k \in DOMAIN patches[t] : staysSplit(patches[t][k].rect)

QueueInv == QueueTyped /\ PatchesStaySplit /\ WalkersStaySplit /\ NoCellIsLost

\* The patches of a request, and the cells that several walkers want.
splitRequest(request) ==
    [k \in DOMAIN trySplitJob(request.rect) |->
        [request EXCEPT !.rect = trySplitJob(request.rect)[k]]]

wantedBy(ps) == UNION {wanted(ps[k]) : k \in DOMAIN ps}

\* The patches of a request are walkers to be, and want what the request wants.
LEMMA RequestSplit ==
    ASSUME NEW request \in Requests
    PROVE  /\ splitRequest(request) \in Seq(KisBaseRectsWalker)
           /\ \A k \in DOMAIN splitRequest(request) : staysSplit(splitRequest(request)[k].rect)
           /\ wantedBy(splitRequest(request)) = wanted(request)
<1> DEFINE ps == splitRequest(request)
<1>1. request \in KisBaseRectsWalker /\ request.rect \in Rectangles
  BY QueueAssumption DEF KisBaseRectsWalker
<1>2. PICK split : split = trySplitJob(request.rect)
  OBVIOUS
<1>3. /\ split \in Seq(Rectangles)
      /\ \A k \in DOMAIN split : /\ staysSplit(split[k])
                                 /\ \A x, y \in Int : holds(split[k], x, y) => holds(request.rect, x, y)
  BY <1>1, <1>2, SplitTyped
<1>4. \A x, y \in Nat : holds(request.rect, x, y) => \E k \in DOMAIN split : holds(split[k], x, y)
  BY <1>1, <1>2, SplitCovers
<1>5. /\ Len(split) \in Nat /\ DOMAIN split = 1..Len(split)
      /\ \A k \in DOMAIN split : split[k] \in Rectangles
  BY <1>3
<1>6. \A k \in DOMAIN split :
          /\ [request EXCEPT !.rect = split[k]] \in KisBaseRectsWalker
          /\ [request EXCEPT !.rect = split[k]].rect = split[k]
          /\ [request EXCEPT !.rect = split[k]].node = request.node
          /\ [request EXCEPT !.rect = split[k]].type = request.type
  BY <1>1, <1>5 DEF KisBaseRectsWalker
<1>7. ps = [k \in DOMAIN split |-> [request EXCEPT !.rect = split[k]]]
  BY <1>2 DEF splitRequest
<1> HIDE DEF ps
<1>8. /\ DOMAIN ps = DOMAIN split
      /\ \A k \in DOMAIN ps : /\ ps[k] \in KisBaseRectsWalker /\ ps[k].rect = split[k]
                              /\ ps[k].node = request.node /\ ps[k].type = request.type
  BY <1>6, <1>7
<1>9. ps \in Seq(KisBaseRectsWalker)
  BY <1>5, <1>6, <1>7
<1>10. \A k \in DOMAIN ps : staysSplit(ps[k].rect)
  BY <1>3, <1>8
<1>11. ASSUME NEW d PROVE d \in wantedBy(ps) <=> d \in wanted(request)
  <2>1. ASSUME NEW k \in DOMAIN ps, d \in wanted(ps[k]) PROVE d \in wanted(request)
    <3>1. \A x, y \in Int : holds(ps[k].rect, x, y) => holds(request.rect, x, y)
      BY <1>3, <1>8
    <3>2. ps[k].rect \in Rectangles
      BY <1>5, <1>8
    <3>3. wanted(ps[k]) \subseteq wanted(request)
      BY <1>1, <1>8, <3>1, <3>2, WantedGrows
    <3>4. QED
      BY <2>1, <3>3
  <2>2. ASSUME d \in wanted(request) PROVE \E k \in DOMAIN ps : d \in wanted(ps[k])
    <3>1. PICK x \in Int, y \in Int :
              /\ d = [node |-> request.node, type |-> request.type, cell |-> <<x, y>>]
              /\ holds(request.rect, x, y) /\ holds(CropRect, x, y)
      BY <1>1, <2>2, WantedCells
    <3>2. x \in Nat /\ y \in Nat
      BY <3>1, QueueAssumption DEF holds, Rectangles
    <3>3. PICK k \in DOMAIN split : holds(split[k], x, y)
      BY <1>4, <3>1, <3>2
    <3>4. k \in DOMAIN ps /\ ps[k].rect = split[k] /\ ps[k].rect \in Rectangles
          /\ ps[k].node = request.node /\ ps[k].type = request.type
      BY <1>5, <1>8, <3>3
    <3>5. d \in wanted(ps[k])
      BY <3>1, <3>3, <3>4, WantedCells
    <3>6. QED
      BY <3>4, <3>5
  <2>3. QED
    BY <2>1, <2>2 DEF wantedBy
<1>12. QED
  BY <1>9, <1>10, <1>11 DEF ps

\* A thread takes the first of its patches.
LEMMA FirstPatch ==
    ASSUME QueueTyped, PatchesStaySplit, NEW t \in Threads, patches[t] # << >>
    PROVE  /\ Head(patches[t]) \in KisBaseRectsWalker /\ Head(patches[t]).rect \in Rectangles
           /\ staysSplit(Head(patches[t]).rect)
           /\ Tail(patches[t]) \in Seq(KisBaseRectsWalker)
           /\ \A k \in DOMAIN Tail(patches[t]) : staysSplit(Tail(patches[t])[k].rect)
<1>1. PICK ps \in Seq(KisBaseRectsWalker) : ps = patches[t]
  BY DEF QueueTyped
<1>2. /\ ps # << >> /\ Len(ps) \in Nat \ {0} /\ DOMAIN ps = 1..Len(ps)
      /\ \A k \in DOMAIN ps : ps[k] \in KisBaseRectsWalker
  BY <1>1
<1>3. /\ Head(ps) = ps[1] /\ 1 \in DOMAIN ps /\ Tail(ps) \in Seq(KisBaseRectsWalker)
      /\ \A k \in DOMAIN Tail(ps) : k + 1 \in DOMAIN ps /\ Tail(ps)[k] = ps[k + 1]
  BY <1>2
<1>4. \A k \in DOMAIN ps : staysSplit(ps[k].rect)
  BY <1>1 DEF PatchesStaySplit
<1>5. \A walker \in KisBaseRectsWalker : walker.rect \in Rectangles
  BY DEF KisBaseRectsWalker
<1>6. QED
  BY <1>1, <1>2, <1>3, <1>4, <1>5

\* Patches are removed and the walkers of the list change as they should.
LEMMA PatchTaken ==
    ASSUME QueueTyped, PatchesStaySplit, NEW t \in Threads, patches[t] # << >>,
           patches' = [patches EXCEPT ![t] = Tail(@)],
           unmerged' \in [Threads -> BOOLEAN], ~unmerged'[t],
           \A u \in Threads : u # t => unmerged'[u] = unmerged[u]
    PROVE  /\ patches' \in [Threads -> Seq(KisBaseRectsWalker)]
           /\ unmerged' \in [Threads -> BOOLEAN]
           /\ \A u \in Threads : unmerged'[u] => patches'[u] # << >>
           /\ PatchesStaySplit'
<1>1. patches \in [Threads -> Seq(KisBaseRectsWalker)]
  BY DEF QueueTyped
<1>2. /\ patches' \in [Threads -> Seq(KisBaseRectsWalker)]
      /\ patches'[t] = Tail(patches[t]) /\ \A u \in Threads : u # t => patches'[u] = patches[u]
  BY <1>1, FirstPatch
<1>3. QED
  BY <1>2, FirstPatch DEF QueueTyped, PatchesStaySplit

\* What every walker of the old list or the new request wants is wanted in the new list.
LEMMA StillWanted ==
    ASSUME NoCellIsLost, NEW more,
           dirty' \subseteq dirty \cup more,
           \A i \in DOMAIN m_updatesList : \E p \in DOMAIN m_updatesList' :
               wanted(m_updatesList[i]) \subseteq wanted(m_updatesList'[p]),
           more # {} => \E p \in DOMAIN m_updatesList' : more \subseteq wanted(m_updatesList'[p])
    PROVE  NoCellIsLost'
<1>1. ASSUME NEW d \in dirty' PROVE \E p \in DOMAIN m_updatesList' : d \in wanted(m_updatesList'[p])
  <2>1. CASE d \in more
    BY <2>1
  <2>2. CASE d \in dirty
    <3>1. PICK i \in DOMAIN m_updatesList : d \in wanted(m_updatesList[i])
      BY <2>2 DEF NoCellIsLost
    <3>2. QED
      BY <3>1
  <2>3. QED
    BY <2>1, <2>2
<1>2. \A item : wanted(item)' = wanted(item)
  BY DEF wanted
<1>3. QED
  BY <1>1 DEF NoCellIsLost, wanted

\* A list whose walkers stay below a patch.
LEMMA StillSplit ==
    ASSUME \A p \in DOMAIN m_updatesList' : staysSplit(m_updatesList'[p].rect)
    PROVE  WalkersStaySplit'
BY DEF WalkersStaySplit, staysSplit

\* addJob() splits the request.
LEMMA AddJobKeeps ==
    ASSUME QueueInv, NEW t \in Threads, addJob(t)
    PROVE  QueueInv'
<1>1. PICK request \in Requests : patches' = [patches EXCEPT ![t] = splitRequest(request)]
  BY DEF addJob, splitRequest
<1> DEFINE ps == splitRequest(request)
<1>2. ps \in Seq(KisBaseRectsWalker) /\ \A k \in DOMAIN ps : staysSplit(ps[k].rect)
  BY RequestSplit
<1> HIDE DEF ps
<1>3. m_updatesList' = m_updatesList /\ unmerged' = unmerged /\ dirty' = dirty /\ patches[t] = << >>
  BY DEF addJob
<1>4. patches \in [Threads -> Seq(KisBaseRectsWalker)] /\ ~unmerged[t] /\ unmerged[t] \in BOOLEAN
  BY <1>3 DEF QueueInv, QueueTyped
<1>5. /\ patches' \in [Threads -> Seq(KisBaseRectsWalker)]
      /\ patches'[t] = ps /\ \A u \in Threads : u # t => patches'[u] = patches[u]
  BY <1>1, <1>2, <1>4 DEF ps
<1>6. QueueTyped'
  BY <1>3, <1>4, <1>5 DEF QueueInv, QueueTyped
<1>7. PatchesStaySplit'
  BY <1>2, <1>5 DEF QueueInv, PatchesStaySplit
<1>8. WalkersStaySplit' /\ NoCellIsLost'
  BY <1>3 DEF QueueInv, WalkersStaySplit, NoCellIsLost, wanted
<1>9. QED
  BY <1>6, <1>7, <1>8 DEF QueueInv

\* tryMergeJob() finds a candidate, which takes in the patch and others with it.
LEMMA MergePatchKeeps ==
    ASSUME QueueInv, NEW t \in Threads, mergePatch(t)
    PROVE  QueueInv'
<1>1. PICK request : request = Head(patches[t])
  OBVIOUS
<1>2. PICK k \in DOMAIN m_updatesList :
        /\ isGoodCandidate(k, request)
        /\ m_updatesList' = collectJobs(k, united(request.rect, m_updatesList[k].rect),
                                        MaxMergeCollectAlpha)
        /\ dirty' = dirty \cup wanted(request)
  BY <1>1 DEF mergePatch
<1>3. /\ patches[t] # << >> /\ ~unmerged[t]
      /\ patches' = [patches EXCEPT ![t] = Tail(@)] /\ unmerged' = unmerged
  BY DEF mergePatch
<1>4. request \in KisBaseRectsWalker /\ request.rect \in Rectangles
  BY <1>1, <1>3, FirstPatch DEF QueueInv
<1>5. PICK base : base = m_updatesList[k]
  OBVIOUS
<1>6. base \in KisBaseRectsWalker /\ base.rect \in Rectangles
  BY <1>5, WalkerTyped DEF QueueInv, QueueTyped
<1>7. PICK rect : rect = united(request.rect, base.rect)
  OBVIOUS
<1>8. /\ rect \in Rectangles /\ staysSplit(rect)
      /\ base.node = request.node /\ base.type = request.type
      /\ \A x, y \in Int : holds(request.rect, x, y) \/ holds(base.rect, x, y) => holds(rect, x, y)
  <2>1. sameKind(base, request) /\ fitsPatch(rect)
    BY <1>2, <1>5, <1>7 DEF isGoodCandidate, isCandidate, canJoin
  <2>2. QED
    BY <1>4, <1>6, <1>7, <2>1, RectsTyped, Union DEF sameKind, fitsPatch, staysSplit
<1>9. /\ m_updatesList' \in Seq(KisBaseRectsWalker)
      /\ \A p \in DOMAIN m_updatesList' : staysSplit(m_updatesList'[p].rect)
      /\ \A i \in DOMAIN m_updatesList : \E p \in DOMAIN m_updatesList' :
             wanted(m_updatesList[i]) \subseteq wanted(m_updatesList'[p])
      /\ \E p \in DOMAIN m_updatesList' :
             wanted([base EXCEPT !.rect = rect]) \subseteq wanted(m_updatesList'[p])
  BY <1>2, <1>5, <1>7, <1>8, JobsCollected DEF QueueInv, QueueTyped
<1>10. wanted(request) \subseteq wanted([base EXCEPT !.rect = rect])
  <2>1. PICK grown : grown = [base EXCEPT !.rect = rect]
    OBVIOUS
  <2>2. grown.rect = rect /\ grown.node = request.node /\ grown.type = request.type
    BY <1>6, <1>8, <2>1 DEF KisBaseRectsWalker
  <2>3. \A x, y \in Int : holds(request.rect, x, y) => holds(grown.rect, x, y)
    BY <1>8, <2>2
  <2>4. wanted(request) \subseteq wanted(grown)
    BY <1>4, <1>8, <2>2, <2>3, WantedGrows
  <2>5. QED
    BY <2>1, <2>4
<1>11. \E p \in DOMAIN m_updatesList' : wanted(request) \subseteq wanted(m_updatesList'[p])
  BY <1>9, <1>10
<1>12. NoCellIsLost'
  BY <1>2, <1>9, <1>11, StillWanted DEF QueueInv
<1>13. WalkersStaySplit'
  BY <1>9, StillSplit
<1>14. QueueTyped' /\ PatchesStaySplit'
  BY <1>3, <1>9, PatchTaken DEF QueueInv, QueueTyped
<1>15. QED
  BY <1>12, <1>13, <1>14 DEF QueueInv

\* tryMergeJob() finds none, and the thread will append a walker.
LEMMA FailToMergeKeeps ==
    ASSUME QueueInv, NEW t \in Threads, failToMerge(t)
    PROVE  QueueInv'
<1>1. /\ patches[t] # << >> /\ unmerged' = [unmerged EXCEPT ![t] = TRUE]
      /\ m_updatesList' = m_updatesList /\ patches' = patches /\ dirty' = dirty
  BY DEF failToMerge
<1>2. QueueTyped'
  BY <1>1 DEF QueueInv, QueueTyped
<1>3. QED
  BY <1>1, <1>2 DEF QueueInv, PatchesStaySplit, WalkersStaySplit, NoCellIsLost, wanted

\* The walker is appended to whatever the list has become meanwhile.
LEMMA AppendWalkerKeeps ==
    ASSUME QueueInv, NEW t \in Threads, appendWalker(t)
    PROVE  QueueInv'
<1>1. PICK item : item = Head(patches[t])
  OBVIOUS
<1>2. /\ unmerged[t] /\ m_updatesList' = Append(m_updatesList, item)
      /\ dirty' = dirty \cup wanted(item) /\ unmerged' = [unmerged EXCEPT ![t] = FALSE]
      /\ patches' = [patches EXCEPT ![t] = Tail(@)]
  BY <1>1 DEF appendWalker
<1>3. patches[t] # << >>
  BY <1>2 DEF QueueInv, QueueTyped
<1>4. item \in KisBaseRectsWalker /\ staysSplit(item.rect)
  BY <1>1, <1>3, FirstPatch DEF QueueInv
<1>5. m_updatesList \in Seq(KisBaseRectsWalker) /\ unmerged \in [Threads -> BOOLEAN]
  BY DEF QueueInv, QueueTyped
<1>6. /\ m_updatesList' \in Seq(KisBaseRectsWalker)
      /\ DOMAIN m_updatesList' = 1..(Len(m_updatesList) + 1)
      /\ DOMAIN m_updatesList = 1..Len(m_updatesList) /\ Len(m_updatesList) \in Nat
      /\ \A i \in DOMAIN m_updatesList : m_updatesList'[i] = m_updatesList[i]
      /\ m_updatesList'[Len(m_updatesList) + 1] = item
  BY <1>2, <1>4, <1>5
<1>7. WalkersStaySplit'
  <2>1. \A p \in DOMAIN m_updatesList : staysSplit(m_updatesList[p].rect)
    BY DEF QueueInv, WalkersStaySplit, staysSplit
  <2>2. \A p \in DOMAIN m_updatesList' : p \in DOMAIN m_updatesList \/ p = Len(m_updatesList) + 1
    BY <1>6
  <2>3. QED
    BY <1>4, <1>6, <2>1, <2>2, StillSplit
<1>8. NoCellIsLost'
  <2>1. Len(m_updatesList) + 1 \in DOMAIN m_updatesList' /\ DOMAIN m_updatesList \subseteq DOMAIN m_updatesList'
    BY <1>6
  <2>2. QED
    BY <1>2, <1>6, <2>1, StillWanted DEF QueueInv
<1>9. unmerged' \in [Threads -> BOOLEAN] /\ ~unmerged'[t] /\ \A u \in Threads : u # t => unmerged'[u] = unmerged[u]
  BY <1>2, <1>5
<1>10. QueueTyped' /\ PatchesStaySplit'
  BY <1>2, <1>3, <1>6, <1>9, PatchTaken DEF QueueInv, QueueTyped
<1>11. QED
  BY <1>7, <1>8, <1>10 DEF QueueInv

\* optimize() grows the oldest walker.
LEMMA OptimizeKeeps ==
    ASSUME QueueInv, optimize
    PROVE  QueueInv'
<1>1. /\ Len(m_updatesList) > 1
      /\ m_updatesList' = collectJobs(1, m_updatesList[1].rect, MaxCollectAlpha)
      /\ patches' = patches /\ unmerged' = unmerged /\ dirty' = dirty
  BY DEF optimize
<1>2. m_updatesList \in Seq(KisBaseRectsWalker)
  BY DEF QueueInv, QueueTyped
<1>3. 1 \in DOMAIN m_updatesList /\ m_updatesList[1].rect \in Rectangles
  BY <1>1, <1>2, WalkerTyped
<1>4. staysSplit(m_updatesList[1].rect) /\ WalkersStaySplit
  BY <1>3 DEF QueueInv, WalkersStaySplit, staysSplit
<1>5. /\ m_updatesList' \in Seq(KisBaseRectsWalker)
      /\ \A p \in DOMAIN m_updatesList' : staysSplit(m_updatesList'[p].rect)
      /\ \A i \in DOMAIN m_updatesList : \E p \in DOMAIN m_updatesList' :
             wanted(m_updatesList[i]) \subseteq wanted(m_updatesList'[p])
  BY <1>1, <1>2, <1>3, <1>4, JobsCollected
<1>6. NoCellIsLost'
  <2>1. dirty' \subseteq dirty \cup {}
    BY <1>1
  <2>2. QED
    BY <1>5, <2>1, StillWanted DEF QueueInv
<1>7. QED
  BY <1>1, <1>5, <1>6, StillSplit DEF QueueInv, QueueTyped, PatchesStaySplit

\* processOneJob() takes out a walker together with the cells it covers.
LEMMA ProcessOneJobKeeps ==
    ASSUME QueueInv, processOneJob
    PROVE  QueueInv'
<1>1. PICK k \in DOMAIN m_updatesList :
        /\ m_updatesList' = RemoveAt(m_updatesList, k)
        /\ dirty' = dirty \ wanted(m_updatesList[k])
  BY DEF processOneJob
<1>2. patches' = patches /\ unmerged' = unmerged
  BY DEF processOneJob
<1>3. m_updatesList \in Seq(KisBaseRectsWalker)
  BY DEF QueueInv, QueueTyped
<1>4. /\ Len(m_updatesList) \in Nat \ {0} /\ DOMAIN m_updatesList = 1..Len(m_updatesList)
      /\ k \in 1..Len(m_updatesList)
  BY <1>3
<1>5. /\ m_updatesList' \in Seq(KisBaseRectsWalker)
      /\ DOMAIN m_updatesList' = 1..(Len(m_updatesList) - 1)
      /\ \A p \in 1..(Len(m_updatesList) - 1) :
             m_updatesList'[p] = IF p < k THEN m_updatesList[p] ELSE m_updatesList[p + 1]
  <2>1. PICK before, after : /\ before = SubSeq(m_updatesList, 1, k - 1)
                             /\ after = SubSeq(m_updatesList, k + 1, Len(m_updatesList))
    OBVIOUS
  <2>2. /\ before \in Seq(KisBaseRectsWalker) /\ Len(before) = k - 1
        /\ \A p \in 1..(k - 1) : before[p] = m_updatesList[p]
    BY <1>3, <1>4, <2>1
  <2>3. /\ after \in Seq(KisBaseRectsWalker) /\ Len(after) = Len(m_updatesList) - k
        /\ \A p \in 1..(Len(m_updatesList) - k) : after[p] = m_updatesList[k + p]
    BY <1>3, <1>4, <2>1
  <2>4. m_updatesList' = before \o after
    BY <1>1, <2>1 DEF RemoveAt
  <2>5. /\ m_updatesList' \in Seq(KisBaseRectsWalker)
        /\ Len(m_updatesList') = Len(m_updatesList) - 1
        /\ DOMAIN m_updatesList' = 1..(Len(m_updatesList) - 1)
    <3>1. m_updatesList' \in Seq(KisBaseRectsWalker)
      BY <2>2, <2>3, <2>4
    <3>2. Len(m_updatesList') = Len(before) + Len(after)
      BY <2>2, <2>3, <2>4
    <3>3. Len(m_updatesList') = Len(m_updatesList) - 1
      BY <1>4, <2>2, <2>3, <3>2
    <3>4. QED
      BY <3>1, <3>3
  <2>6. ASSUME NEW p \in 1..(Len(m_updatesList) - 1)
        PROVE  m_updatesList'[p] = IF p < k THEN m_updatesList[p] ELSE m_updatesList[p + 1]
    <3>1. CASE p < k
      BY <1>4, <2>2, <2>3, <2>4, <3>1
    <3>2. CASE ~(p < k)
      <4>1. m_updatesList'[p] = after[p - (k - 1)]
        BY <1>4, <2>2, <2>3, <2>4, <3>2
      <4>2. p - (k - 1) \in 1..(Len(m_updatesList) - k) /\ k + (p - (k - 1)) = p + 1
        BY <1>4, <3>2
      <4>3. QED
        BY <2>3, <3>2, <4>1, <4>2
    <3>3. QED
      BY <3>1, <3>2
  <2>7. QED
    BY <2>5, <2>6
<1>6. \A i \in DOMAIN m_updatesList : i # k =>
          \E p \in DOMAIN m_updatesList' : m_updatesList'[p] = m_updatesList[i]
  <2>1. SUFFICES ASSUME NEW i \in DOMAIN m_updatesList, i # k
                 PROVE  \E p \in DOMAIN m_updatesList' : m_updatesList'[p] = m_updatesList[i]
    OBVIOUS
  <2>2. CASE i < k
    <3>1. i \in DOMAIN m_updatesList' /\ m_updatesList'[i] = m_updatesList[i]
      BY <1>4, <1>5, <2>2
    <3>2. QED
      BY <3>1
  <2>3. CASE i > k
    <3>1. i - 1 \in DOMAIN m_updatesList' /\ ~(i - 1 < k) /\ i - 1 + 1 = i
      BY <1>4, <1>5, <2>3
    <3>2. m_updatesList'[i - 1] = m_updatesList[i]
      BY <1>5, <3>1
    <3>3. QED
      BY <3>1, <3>2
  <2>4. QED
    BY <1>4, <2>1, <2>2, <2>3
<1>7. NoCellIsLost'
  <2>1. ASSUME NEW d \in dirty' PROVE \E p \in DOMAIN m_updatesList' : d \in wanted(m_updatesList'[p])
    <3>1. d \in dirty /\ d \notin wanted(m_updatesList[k])
      BY <1>1
    <3>2. PICK i \in DOMAIN m_updatesList : d \in wanted(m_updatesList[i])
      BY <3>1 DEF QueueInv, NoCellIsLost
    <3>3. QED
      BY <1>6, <3>1, <3>2
  <2>2. QED
    BY <2>1 DEF NoCellIsLost, wanted
<1>8. WalkersStaySplit'
  <2>1. \A p \in DOMAIN m_updatesList' : \E i \in DOMAIN m_updatesList : m_updatesList'[p] = m_updatesList[i]
    BY <1>4, <1>5
  <2>2. QED
    BY <2>1 DEF QueueInv, WalkersStaySplit
<1>9. QED
  BY <1>2, <1>5, <1>7, <1>8 DEF QueueInv, QueueTyped, PatchesStaySplit

\* The queue begins empty.
LEMMA InitKeeps == Init => QueueInv
<1> SUFFICES ASSUME Init PROVE QueueInv
  OBVIOUS
<1>1. m_updatesList = << >> /\ patches = [t \in Threads |-> << >>] /\ unmerged = [t \in Threads |-> FALSE]
      /\ dirty = {}
  BY DEF Init
<1>2. << >> \in Seq(KisBaseRectsWalker) /\ DOMAIN << >> = {}
  OBVIOUS
<1>3. QED
  BY <1>1, <1>2 DEF QueueInv, QueueTyped, PatchesStaySplit, WalkersStaySplit, NoCellIsLost

\* Every action keeps the invariant.
LEMMA NextKeeps == QueueInv /\ [Next]_vars => QueueInv'
<1> SUFFICES ASSUME QueueInv, [Next]_vars PROVE QueueInv'
  OBVIOUS
<1>1. ASSUME NEW t \in Threads, addJob(t) \/ mergePatch(t) \/ failToMerge(t) \/ appendWalker(t)
      PROVE  QueueInv'
  BY <1>1, AddJobKeeps, MergePatchKeeps, FailToMergeKeeps, AppendWalkerKeeps
<1>2. CASE optimize
  BY <1>2, OptimizeKeeps
<1>3. CASE processOneJob
  BY <1>3, ProcessOneJobKeeps
<1>4. CASE Rest \/ UNCHANGED vars
  BY <1>4 DEF Rest, vars, QueueInv, QueueTyped, PatchesStaySplit, WalkersStaySplit, NoCellIsLost, wanted
<1>5. QED
  BY <1>1, <1>2, <1>3, <1>4 DEF Next

\* The invariant of the queue.
LEMMA QueueInvariant == Spec => []QueueInv
BY InitKeeps, NextKeeps, PTL DEF Spec

\* However requests of several threads, joining, optimizing and handing out are
\* interleaved, every dirty cell of the image is covered by a queued walker for its node
\* and of its type (KisSimpleUpdateQueue::tryMergeJob, collectJobs, addJob).
THEOREM CellsKept == Spec => []NoCellIsLost
<1>1. QueueInv => NoCellIsLost
  BY DEF QueueInv
<1>2. QED
  BY <1>1, QueueInvariant, PTL

\* No sequence of joins makes a walker larger than a patch both ways, so that what
\* trySplitJob() has split stays split (KisSimpleUpdateQueue::joinRects).
THEOREM SplitKept == Spec => []WalkersStaySplit
<1>1. QueueInv => WalkersStaySplit
  BY DEF QueueInv
<1>2. QED
  BY <1>1, QueueInvariant, PTL

\* The patches of a request cover the cells of the image it asks for, and no others,
\* for every size of image, patch and request; a request that begins left of or above the
\* image too, although the division of coordinates rounds towards zero
\* (KisSimpleUpdateQueue::trySplitJob).
THEOREM SplitExact == Spec => SplitCoversRequest
<1>1. ASSUME QueueInv, [Next]_vars, NEW t \in Threads, patches[t] = << >>, patches'[t] # << >>
      PROVE  \E request \in Requests : pendingCells(t)' = wanted(request)
  <2>1. patches \in [Threads -> Seq(KisBaseRectsWalker)]
    BY <1>1 DEF QueueInv, QueueTyped
  <2>2. ASSUME NEW u \in Threads, mergePatch(u) \/ failToMerge(u) \/ appendWalker(u) PROVE FALSE
    <3>1. patches[u] # << >>
      BY <1>1, <2>2 DEF mergePatch, failToMerge, appendWalker, QueueInv, QueueTyped
    <3>2. patches'[t] = patches[t]
      BY <1>1, <2>1, <2>2, <3>1 DEF mergePatch, failToMerge, appendWalker
    <3>3. QED
      BY <1>1, <3>2
  <2>3. ~(optimize \/ processOneJob \/ Rest \/ UNCHANGED vars)
    BY <1>1 DEF optimize, processOneJob, Rest, vars
  <2>4. PICK u \in Threads : addJob(u)
    BY <1>1, <2>2, <2>3 DEF Next
  <2>5. PICK request \in Requests : patches' = [patches EXCEPT ![u] = splitRequest(request)]
    BY <2>4 DEF addJob, splitRequest
  <2>6. patches'[t] = splitRequest(request)
    BY <1>1, <2>1, <2>5
  <2>7. wantedBy(splitRequest(request)) = wanted(request)
    BY RequestSplit
  <2>8. pendingCells(t)' = wantedBy(splitRequest(request))
    BY <2>6 DEF pendingCells, wantedBy, wanted
  <2>9. QED
    BY <2>7, <2>8
<1>2. QueueInv /\ [Next]_vars =>
          [\A t \in Threads : patches[t] = << >> /\ patches'[t] # << >> =>
              \E request \in Requests : pendingCells(t)' = wanted(request)]_vars
  BY <1>1
<1>3. QED
  BY <1>2, QueueInvariant, PTL DEF Spec, SplitCoversRequest
================================================================================
