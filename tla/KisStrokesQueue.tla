--------------------------- MODULE KisStrokesQueue ---------------------------
(***************************************************************************)
(* The queue of strokes (krita/image/kis_strokes_queue.cpp).  Only the     *)
(* stroke at the head hands jobs to the updater context; which of its jobs *)
(* may start next to the running ones is decided by four checks on a       *)
(* snapshot of the slots.                                                  *)
(*                                                                         *)
(* startStroke(), addJob(), endStroke() and cancelStroke() are one         *)
(* critical section of the queue's mutex each.  processQueue() holds the   *)
(* lock of the context and the mutex over a loop of processOneJob(); the   *)
(* scheduler module takes one iteration of that loop as one step, since    *)
(* slots may become empty between two iterations.                          *)
(***************************************************************************)
EXTENDS KisUpdaterContext, FiniteSets

CONSTANT NoStroke   \* the value of a stroke that was not started

ASSUME StrokesAssumption == NoStroke \notin Stroke

VARIABLES
    strokesQueue,           \* identities of the strokes, the oldest first
    stroke,                 \* the KisStroke of every identity
    needsExclusiveAccess,   \* read by the scheduler without the mutex
    handed                  \* history: kinds of the jobs a stroke handed out

strokeVars == <<strokesQueue, stroke, needsExclusiveAccess, handed>>

isAlive(s) == \E k \in DOMAIN strokesQueue : strokesQueue[k] = s

startStroke(s, strategy) ==
    /\ stroke[s] = NoStroke
    /\ stroke' = [stroke EXCEPT ![s] = NewStroke(strategy)]
    /\ strokesQueue' = Append(strokesQueue, s)
    /\ UNCHANGED <<needsExclusiveAccess, handed>>

addJob(s, job) ==
    /\ isAlive(s)
    /\ stroke' = [stroke EXCEPT ![s] = strokeAddJob(@, job)]
    /\ UNCHANGED <<strokesQueue, needsExclusiveAccess, handed>>

endStroke(s) ==
    /\ isAlive(s)
    /\ stroke' = [stroke EXCEPT ![s] = strokeEnd(@)]
    /\ UNCHANGED <<strokesQueue, needsExclusiveAccess, handed>>

\* The identity is a weak reference: cancelling a stroke that has left the
\* queue does nothing.
cancelStroke(s) ==
    /\ stroke' = IF isAlive(s) THEN [stroke EXCEPT ![s] = strokeCancel(@)]
                 ELSE stroke
    /\ UNCHANGED <<strokesQueue, needsExclusiveAccess, handed>>

\* checkStrokeState() dequeues the strokes at the head that are ended and have
\* no jobs left, once no stroke job is running; it calls itself for the next
\* stroke, so several may go at once.
isFinished(s) == stroke[s].ended /\ ~hasJobs(stroke[s])

suffixes == {SubSeq(strokesQueue, k, Len(strokesQueue)) :
                 k \in 1..(Len(strokesQueue) + 1)}

\* Mutant: strokes are dequeued while their jobs are still running.
MutantDequeuesEarly(queue) ==
    /\ queue # << >> => ~isFinished(Head(queue))
    /\ \A k \in 1..(Len(strokesQueue) - Len(queue)) : isFinished(strokesQueue[k])

\* The one suffix that checkStrokeState() leaves.
isRemaining(queue) ==
    IF StrokeJobs # {} THEN queue = strokesQueue
    ELSE /\ queue # << >> => ~isFinished(Head(queue))
         /\ \A k \in 1..(Len(strokesQueue) - Len(queue)) :
                isFinished(strokesQueue[k])

exclusiveAccessFor(queue) ==
    IF queue # << >> /\ hasJobs(stroke[Head(queue)])
                     /\ ~stroke[Head(queue)].initialized
    THEN stroke[Head(queue)].strategy.isExclusive
    ELSE needsExclusiveAccess /\ queue = strokesQueue

checkStrokeState(queue) == queue # << >> /\ hasJobs(stroke[Head(queue)])

checkExclusiveProperty(s) == stroke[s].strategy.isExclusive => MergeJobs = {}

\* Mutant: what the previous job was is forgotten.
MutantNextOnly(s) == nextJobSequential(stroke[s]) => StrokeJobs = {}

checkSequentialProperty(s) ==
    prevJobSequential(stroke[s]) \/ nextJobSequential(stroke[s])
        => StrokeJobs = {}

checkBarrierProperty(s, externalJobsPending) ==
    nextJobBarrier(stroke[s]) =>
        MergeJobs = {} /\ StrokeJobs = {} /\ ~externalJobsPending

mayPopJob(queue, externalJobsPending) ==
    /\ hasSpareThread
    /\ checkStrokeState(queue)
    /\ checkExclusiveProperty(Head(queue))
    /\ checkSequentialProperty(Head(queue))
    /\ checkBarrierProperty(Head(queue), externalJobsPending)

\* One call of processOneJob() that starts a job.
processOneJob(externalJobsPending) ==
    \E queue \in suffixes :
        LET s == Head(queue)
            job == Head(stroke[s].jobs)
        IN  /\ isRemaining(queue)
            /\ mayPopJob(queue, externalJobsPending)
            /\ strokesQueue' = queue
            /\ needsExclusiveAccess' = exclusiveAccessFor(queue)
            /\ stroke' = [stroke EXCEPT ![s] = strokePop(@)]
            /\ handed' = [handed EXCEPT ![s] = @ \cup {job.kind}]
            /\ addItem(STROKE(s, job))

\* The call that ends the loop: no slot is spare, so that processOneJob() is
\* not called at all, or it starts nothing, though it may have dequeued
\* strokes and settled needsExclusiveAccess.
processNoJob(externalJobsPending) ==
    /\ IF hasSpareThread
       THEN \E queue \in suffixes :
                /\ isRemaining(queue)
                /\ ~mayPopJob(queue, externalJobsPending)
                /\ strokesQueue' = queue
                /\ needsExclusiveAccess' = exclusiveAccessFor(queue)
       ELSE UNCHANGED <<strokesQueue, needsExclusiveAccess>>
    /\ UNCHANGED <<stroke, handed>>

\* sizeMetric(), in jobs: the jobs of the head times the number of strokes.
strokesSizeMetric ==
    IF strokesQueue = << >> THEN 0
    ELSE Len(stroke[Head(strokesQueue)].jobs) * Len(strokesQueue)

StrokesTypeOK ==
    /\ strokesQueue \in Seq(Strokes)
    /\ stroke \in [Strokes -> Stroke \cup {NoStroke}]
    /\ \A k \in DOMAIN strokesQueue : stroke[strokesQueue[k]] \in Stroke
    /\ needsExclusiveAccess \in BOOLEAN
    /\ handed \in [Strokes -> SUBSET JobKinds]

StrokesInit ==
    /\ strokesQueue = << >>
    /\ stroke = [s \in Strokes |-> NoStroke]
    /\ needsExclusiveAccess = FALSE
    /\ handed = [s \in Strokes |-> {}]
=============================================================================
