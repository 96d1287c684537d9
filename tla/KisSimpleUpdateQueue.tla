------------------------- MODULE KisSimpleUpdateQueue -------------------------
(***************************************************************************)
(* The updates queue with its rectangles                                   *)
(* (krita/image/kis_simple_update_queue.cpp): requests are split into      *)
(* patches, a patch joins a queued walker if that saves work, and idle     *)
(* threads join further walkers.  KisUpdateScheduler sees only whole areas *)
(* in this queue.                                                          *)
(*                                                                         *)
(* addJob() takes the mutex of the queue twice for every patch, in         *)
(* tryMergeJob() and to append a walker, so that requests of several       *)
(* threads, optimize() and processOneJob() come in between.                *)
(***************************************************************************)
EXTENDS Integers, SequencesExt

CONSTANTS
    Threads,            \* threads that request updates
    Requests,           \* what they request: node, type and rectangle
    CropRect,           \* the bounds of the image
    PatchWidth, PatchHeight,
    MaxMergeAlpha, MaxMergeCollectAlpha, MaxCollectAlpha,   \* in percent
    MaxRequests         \* bound: requests of all threads together

Rectangles == [x : Int, y : Int, w : Int, h : Int]

KisBaseRectsWalker ==
    [node : {request.node : request \in Requests},
     type : {request.type : request \in Requests}, rect : Rectangles]

\* KisImage::bounds() begins at the origin.
ASSUME QueueAssumption ==
    /\ Requests \subseteq KisBaseRectsWalker
    /\ CropRect \in Rectangles /\ CropRect.x >= 0 /\ CropRect.y >= 0
    /\ PatchWidth \in Nat \ {0} /\ PatchHeight \in Nat \ {0}
    /\ MaxMergeAlpha \in Nat /\ MaxMergeCollectAlpha \in Nat /\ MaxCollectAlpha \in Nat
    /\ MaxRequests \in Nat

VARIABLES
    m_updatesList,  \* the walkers, the oldest first
    patches,        \* the patches of a thread's request still to be added
    unmerged,       \* whether tryMergeJob() has just failed for the first one
    dirty,          \* history: cells whose merge was requested and not begun
    requests        \* requests made so far

vars == <<m_updatesList, patches, unmerged, dirty, requests>>

(***************************************************************************)
(* QRect.  A rectangle without cells is the null rectangle.                *)
(***************************************************************************)
Rect(x, y, w, h) == [x |-> x, y |-> y, w |-> w, h |-> h]
NullRect == Rect(0, 0, 0, 0)
isNull(r) == r.w <= 0 \/ r.h <= 0
work(r) == r.w * r.h

cells(r) == (r.x..(r.x + r.w - 1)) \X (r.y..(r.y + r.h - 1))

larger(a, b) == IF a > b THEN a ELSE b
smaller(a, b) == IF a > b THEN b ELSE a

Bounded(left, top, right, bottom) == Rect(left, top, right - left, bottom - top)

intersected(r, s) ==
    LET both == Bounded(larger(r.x, s.x), larger(r.y, s.y),
                        smaller(r.x + r.w, s.x + s.w), smaller(r.y + r.h, s.y + s.h))
    IN  IF isNull(r) \/ isNull(s) \/ isNull(both) THEN NullRect ELSE both

united(r, s) ==
    IF isNull(r) THEN s
    ELSE IF isNull(s) THEN r
    ELSE Bounded(smaller(r.x, s.x), smaller(r.y, s.y),
                 larger(r.x + r.w, s.x + s.w), larger(r.y + r.h, s.y + s.h))

(***************************************************************************)
(* Splitting.                                                              *)
(***************************************************************************)
\* Division of integers in C++ rounds towards zero.
truncated(a, b) == IF a >= 0 THEN a \div b ELSE -((-a) \div b)

firstPatch(start, size) == truncated(start, size)

\* Mutant: the patch in which a request ends is left out.
MutantLastPatchMissing(end, size) == truncated(end, size) - 1

\* The patch that holds the first cell after the request.
lastPatch(end, size) == truncated(end, size)

maxPatchRect(col, row) == Rect(col * PatchWidth, row * PatchHeight, PatchWidth, PatchHeight)

\* trySplitJob(): a request that is larger than a patch both ways is split
\* along the grid of patches, row by row; the last row and column are beyond
\* the request if it ends on the grid, and give null patches.
trySplitJob(rc) ==
    IF rc.w <= PatchWidth \/ rc.h <= PatchHeight THEN <<rc>>
    ELSE LET left == firstPatch(rc.x, PatchWidth)
             top == firstPatch(rc.y, PatchHeight)
             columns == lastPatch(rc.x + rc.w, PatchWidth) - left + 1
             rows == lastPatch(rc.y + rc.h, PatchHeight) - top + 1
         IN  [k \in 1..(columns * rows) |->
                 intersected(rc, maxPatchRect(left + ((k - 1) % columns),
                                              top + ((k - 1) \div columns)))]

(***************************************************************************)
(* Joining.                                                                *)
(***************************************************************************)
\* Mutant: the size of the joined rectangle is not looked at.
MutantJoinsAnySize(r) == TRUE

fitsPatch(r) == r.w <= PatchWidth /\ r.h <= PatchHeight

\* The condition of joinRects(); without any work the quotient is no number.
canJoin(base, new, maxAlpha) ==
    /\ fitsPatch(united(base, new))
    /\ 100 * work(united(base, new)) < maxAlpha * (work(base) + work(new))

\* Mutant: updates and full refreshes are joined.
MutantJoinsAnyType(walker, other) == walker.node = other.node

sameKind(walker, other) == walker.node = other.node /\ walker.type = other.type

\* A step of collectJobs(): the walker at j is the base itself, can join what
\* the base has become so far, or stays in the list.
visitWalker(k, maxAlpha, acc, j) ==
    LET base == m_updatesList[k]
        item == m_updatesList[j]
    IN  IF j = k THEN [acc EXCEPT !.at = Len(acc.list) + 1, !.list = Append(@, item)]
        ELSE IF sameKind(item, base) /\ canJoin(acc.rect, item.rect, maxAlpha)
        THEN [acc EXCEPT !.rect = united(@, item.rect)]
        ELSE [acc EXCEPT !.list = Append(@, item)]

\* What the base at k, grown to rect, has become and what has stayed after
\* each walker of the list.
collecting(k, rect, maxAlpha) ==
    LET after[j \in 0..Len(m_updatesList)] ==
            IF j = 0 THEN [rect |-> rect, list |-> << >>, at |-> 0]
            ELSE visitWalker(k, maxAlpha, after[j - 1], j)
    IN  after

collectJobs(k, rect, maxAlpha) ==
    LET end == collecting(k, rect, maxAlpha)[Len(m_updatesList)]
    IN  [end.list EXCEPT ![end.at].rect = end.rect]

isCandidate(k, request) ==
    /\ sameKind(m_updatesList[k], request)
    /\ canJoin(request.rect, m_updatesList[k].rect, MaxMergeAlpha)

\* The good candidate is looked for from the tail of the list.
isGoodCandidate(k, request) ==
    /\ isCandidate(k, request)
    /\ \A j \in (k + 1)..Len(m_updatesList) : ~isCandidate(j, request)

(***************************************************************************)
(* The operations.                                                         *)
(***************************************************************************)
wanted(item) ==
    {[node |-> item.node, type |-> item.type, cell |-> cell] :
        cell \in cells(intersected(item.rect, CropRect))}

\* addUpdateJob() and addFullRefreshJob() begin.
addJob(t) ==
    /\ patches[t] = << >>
    /\ requests < MaxRequests
    /\ \E request \in Requests :
           LET split == trySplitJob(request.rect)
           IN  patches' = [patches EXCEPT ![t] =
                   [k \in DOMAIN split |-> [request EXCEPT !.rect = split[k]]]]
    /\ requests' = requests + 1
    /\ UNCHANGED <<m_updatesList, unmerged, dirty>>

\* tryMergeJob() on the next patch: under the mutex it joins a walker, or ...
mergePatch(t) ==
    /\ patches[t] # << >> /\ ~unmerged[t]
    /\ LET request == Head(patches[t])
       IN  \E k \in DOMAIN m_updatesList :
               /\ isGoodCandidate(k, request)
               /\ m_updatesList' =
                      collectJobs(k, united(request.rect, m_updatesList[k].rect),
                                  MaxMergeCollectAlpha)
               /\ dirty' = dirty \cup wanted(request)
    /\ patches' = [patches EXCEPT ![t] = Tail(@)]
    /\ UNCHANGED <<unmerged, requests>>

\* ... it finds no candidate, and the mutex is let go.
failToMerge(t) ==
    /\ patches[t] # << >> /\ ~unmerged[t]
    /\ \A k \in DOMAIN m_updatesList : ~isCandidate(k, Head(patches[t]))
    /\ unmerged' = [unmerged EXCEPT ![t] = TRUE]
    /\ UNCHANGED <<m_updatesList, patches, dirty, requests>>

\* A new walker for the patch.
appendWalker(t) ==
    /\ unmerged[t]
    /\ m_updatesList' = Append(m_updatesList, Head(patches[t]))
    /\ dirty' = dirty \cup wanted(Head(patches[t]))
    /\ unmerged' = [unmerged EXCEPT ![t] = FALSE]
    /\ patches' = [patches EXCEPT ![t] = Tail(@)]
    /\ UNCHANGED requests

\* optimize(): the oldest walker takes in what can join it.
optimize ==
    /\ Len(m_updatesList) > 1
    /\ m_updatesList' = collectJobs(1, m_updatesList[1].rect, MaxCollectAlpha)
    /\ UNCHANGED <<patches, unmerged, dirty, requests>>

\* processOneJob() hands some walker to the updater context, which decides
\* which one is allowed in; its merge covers the walker's rectangle.
processOneJob ==
    /\ \E k \in DOMAIN m_updatesList :
           /\ m_updatesList' = RemoveAt(m_updatesList, k)
           /\ dirty' = dirty \ wanted(m_updatesList[k])
    /\ UNCHANGED <<patches, unmerged, requests>>

Init ==
    /\ m_updatesList = << >>
    /\ patches = [t \in Threads |-> << >>]
    /\ unmerged = [t \in Threads |-> FALSE]
    /\ dirty = {}
    /\ requests = 0

\* Everything requested has been handed out.
Rest ==
    /\ requests = MaxRequests
    /\ m_updatesList = << >> /\ \A t \in Threads : patches[t] = << >>
    /\ UNCHANGED vars

Next ==
    \/ \E t \in Threads :
           addJob(t) \/ mergePatch(t) \/ failToMerge(t) \/ appendWalker(t)
    \/ optimize \/ processOneJob \/ Rest

Spec == Init /\ [][Next]_vars

(***************************************************************************)
(* Correctness.                                                            *)
(***************************************************************************)
pendingCells(t) ==
    UNION {wanted(patches[t][k]) : k \in DOMAIN patches[t]}

\* No dirty cell of the image gets lost: a cell that was requested and not yet
\* handed out is covered by a queued walker for the same node and of the same
\* type, however walkers were split, joined, grown and removed by several
\* threads in the meantime.
NoCellIsLost ==
    dirty \subseteq UNION {wanted(m_updatesList[k]) : k \in DOMAIN m_updatesList}

\* Splitting a request leaves no cell of the image out: what a thread still
\* has to add, or has added, is all that it was asked for.
SplitCoversRequest ==
    [][\A t \in Threads : patches[t] = << >> /\ patches'[t] # << >> =>
          \E request \in Requests : pendingCells(t)' = wanted(request)]_vars

\* Joining never undoes splitting: no walker exceeds a patch both in width and
\* in height, so that several threads can share the work of a large update.
WalkersStaySplit ==
    \A k \in DOMAIN m_updatesList :
        LET r == m_updatesList[k].rect
        IN  r.w <= PatchWidth \/ r.h <= PatchHeight
================================================================================
