------------------------- MODULE KisStrokesQueueProofs -------------------------
(***************************************************************************)
(* What the strokes queue promises about the jobs that are being executed, *)
(* for every number of strokes, workers, slots and clients: they belong to *)
(* the stroke at the head, and a sequential one is alone.                  *)
(*                                                                         *)
(* And that the update scheduler implements StrokeLifecycle.               *)
(***************************************************************************)
EXTENDS KisUpdateSchedulerProofs, FunctionTheorems

\* Slots change in this step by losing stroke jobs at most.
LosesJobs ==
    \A i \in StrokeJobs' : i \in StrokeJobs /\ m_jobs'[i] = m_jobs[i]

\* One of the four methods of the strokes queue that clients and jobs call.
StrokeMethods ==
    \E s \in Strokes :
        \/ \E strategy \in KisStrokeStrategy : startStroke(s, strategy)
        \/ \E job \in KisStrokeJob : addJob(s, job)
        \/ endStroke(s)
        \/ cancelStroke(s)

(***************************************************************************)
(* Steps, by what they do to strokes and their jobs.                       *)
(***************************************************************************)
\* An item that is no stroke job adds none.
LEMMA FillLosesJobs ==
    ASSUME ContextTypeOK, NEW item, item.type # "STROKE", addItem(item)
    PROVE  LosesJobs
  BY DEF ContextTypeOK, addItem, LosesJobs, StrokeJobs

\* processQueues() starts stroke jobs in the loop of the strokes queue only.
LEMMA ProcessStrokes ==
    ASSUME TypeOK, NEW t \in Threads, processQueues(t)
    PROVE  \/ UNCHANGED <<strokesQueue, stroke>> /\ LosesJobs
           \/ \E external \in BOOLEAN : processOneJob(external)
           \/ \E external \in BOOLEAN : processNoJob(external) /\ LosesJobs
<1>1. ContextTypeOK /\ pending[t] \in BOOLEAN
  BY DEF TypeOK, ThreadsTypeOK
<1>2. CASE processStrokesQueue(t)
  BY <1>1, <1>2 DEF processStrokesQueue
<1>3. CASE leaveStrokesQueue(t)
  BY <1>1, <1>3 DEF leaveStrokesQueue, contextVars, LosesJobs, StrokeJobs
<1>4. CASE processUpdatesQueue(t)
  <2>1. UNCHANGED <<strokesQueue, stroke>>
    BY <1>4 DEF processUpdatesQueue, strokeVars
  <2>2. \E item : item.type # "STROKE" /\ addItem(item)
    BY <1>4 DEF processUpdatesQueue, startWalker, startSpontaneous, MERGE, SPONTANEOUS
  <2>3. QED
    BY <1>1, <2>1, <2>2, FillLosesJobs
<1>5. CASE \/ wakeUpWaitingThreads(t) \/ wakeHaveUpdatesRunning(t) \/ wakeWaiting(t)
           \/ checkProcessingBlocked(t) \/ checkExclusiveAccess(t) \/ checkBalance(t)
           \/ evaluateExternalJobs(t) \/ checkExclusiveAgain(t)
           \/ tryProcessUpdatesQueue(t) \/ leaveUpdatesQueue(t)
  <2>1. UNCHANGED <<strokeVars, contextVars>>
    BY <1>5 DEF wakeUpWaitingThreads, wakeHaveUpdatesRunning, wakeWaiting,
                checkProcessingBlocked, checkExclusiveAccess, checkBalance,
                evaluateExternalJobs, checkExclusiveAgain, tryProcessUpdatesQueue,
                leaveUpdatesQueue, OnlyControl
  <2>2. QED
    BY <2>1 DEF strokeVars, contextVars, LosesJobs, StrokeJobs
<1>6. QED
  BY <1>2, <1>3, <1>4, <1>5 DEF processQueues

\* A worker inside run() empties its slot, or adds an undo job.
LEMMA RunStrokes ==
    ASSUME TypeOK, NEW w \in Workers, run(w)
    PROVE  LosesJobs /\ (UNCHANGED <<strokesQueue, stroke>> \/ StrokeMethods)
<1>1. m_jobs' = m_jobs \/ m_jobs' = [m_jobs EXCEPT ![on[w]] = EMPTY]
  BY DEF run, takeSlot, take, lockExclusiveJob, runDirty, runBlocking, runPopulate,
         finishJob, setDone, releaseWorker, leaveRun, OnlyControl, contextVars
<1>2. LosesJobs
  BY <1>1 DEF TypeOK, ContextTypeOK, EMPTY, LosesJobs, StrokeJobs
<1>3. CASE runPopulate(w)
  <2>1. DefaultJob("undo", "plain") \in KisStrokeJob
    BY DEF DefaultJob, KisStrokeJob, JobKinds, Sequentialities, Bodies
  <2>2. QED
    BY <1>2, <1>3, <2>1 DEF runPopulate, StrokeMethods
<1>4. CASE ~runPopulate(w)
  BY <1>2, <1>4 DEF run, takeSlot, lockExclusiveJob, runDirty, runBlocking, finishJob,
                    releaseWorker, OnlyControl, strokeVars
<1>5. QED
  BY <1>3, <1>4

\* A client calls one of the methods, or leaves the strokes alone.
LEMMA ClientStrokes ==
    ASSUME TypeOK, NEW c \in Clients, client(c)
    PROVE  LosesJobs /\ (UNCHANGED <<strokesQueue, stroke>> \/ StrokeMethods)
<1>1. LosesJobs
  <2>1. CASE UNCHANGED contextVars
    BY <2>1 DEF contextVars, LosesJobs, StrokeJobs
  <2>2. CASE \E area \in Areas : addItem(MERGE(area))
    BY <2>2, FillLosesJobs DEF TypeOK, MERGE
  <2>3. QED
    BY <2>1, <2>2, ClientFills
<1>2. CASE strokeMethod(c)
  <2>1. ASSUME NEW s \in Strokes, isAlive(s)
        PROVE  stroke[s].strategy.dab \subseteq KisStrokeJob
    BY <2>1, AliveIsStroke DEF TypeOK, Stroke, KisStrokeStrategy
  <2>2. Strategies \subseteq KisStrokeStrategy
    BY SchedulerAssumption
  <2>3. StrokeMethods
    BY <1>2, <2>1, <2>2 DEF strokeMethod, StrokeMethods
  <2>4. QED
    BY <1>1, <2>3
<1>3. CASE ~strokeMethod(c)
  BY <1>1, <1>3 DEF client, updateProjection, addSpontaneousJob, clientBlockUpdates, lock,
                    unlock, waitForDone, barrierLock, tryBarrierLock, fullRefresh,
                    setProcessingBlocked, OnlyControl, strokeVars
<1>4. QED
  BY <1>2, <1>3

\* The kinds of steps.
LEMMA StrokeSteps ==
    ASSUME TypeOK, [Next]_vars
    PROVE  \/ LosesJobs /\ (UNCHANGED <<strokesQueue, stroke>> \/ StrokeMethods)
           \/ \E external \in BOOLEAN : processOneJob(external)
           \/ \E external \in BOOLEAN : processNoJob(external) /\ LosesJobs
<1>1. CASE UNCHANGED vars
  BY <1>1 DEF vars, strokeVars, contextVars, LosesJobs, StrokeJobs
<1>2. ASSUME NEW t \in Threads, blockUpdates(t)
      PROVE  LosesJobs /\ UNCHANGED <<strokesQueue, stroke>>
  <2>1. UNCHANGED strokeVars
    BY <1>2 DEF blockUpdates, blockInitWaiting, blockRef, blockHaveUpdatesRunning, blockWait,
                blockWoken, blockEndWaiting, updateWhileBlocked, unblockUpdates, OnlyControl
  <2>2. QED
    BY <1>2, <2>1, BlockKeepsSlots DEF strokeVars, contextVars, LosesJobs, StrokeJobs
<1>3. QED
  BY <1>1, <1>2, ProcessStrokes, RunStrokes, ClientStrokes DEF Next, Rest
(***************************************************************************)
(* The head of the queue.                                                  *)
(***************************************************************************)
\* A job is popped from the head of what remains of the queue, which is all of
\* it while stroke jobs are running, and runs in a slot that was empty.
LEMMA PopsFromHead ==
    ASSUME TypeOK, NEW external \in BOOLEAN, processOneJob(external)
    PROVE  \E n \in Slots :
               /\ n \notin StrokeJobs
               /\ StrokeJobs' = StrokeJobs \cup {n}
               /\ \A i \in StrokeJobs : m_jobs'[i] = m_jobs[i]
               /\ strokesQueue' # << >> /\ m_jobs'[n].stroke = Head(strokesQueue')
               /\ StrokeJobs # {} => strokesQueue' = strokesQueue
               /\ stroke[Head(strokesQueue')] \in Stroke
               /\ hasJobs(stroke[Head(strokesQueue')])
               /\ m_jobs'[n].job = Head(stroke[Head(strokesQueue')].jobs)
               /\ stroke' = [stroke EXCEPT ![Head(strokesQueue')] = strokePop(@)]
               /\ checkSequentialProperty(Head(strokesQueue'))
<1>1. PICK queue \in suffixes :
          /\ isRemaining(queue) /\ mayPopJob(queue, external)
          /\ strokesQueue' = queue
          /\ stroke' = [stroke EXCEPT ![Head(queue)] = strokePop(stroke[Head(queue)])]
          /\ addItem(STROKE(Head(queue), Head(stroke[Head(queue)].jobs)))
  BY DEF processOneJob
<1>2. /\ queue \in Seq(Strokes) /\ queue # << >>
      /\ \A k \in DOMAIN queue : stroke[queue[k]] \in Stroke
  BY <1>1, RemainingType DEF TypeOK, mayPopJob, checkStrokeState
<1>3. stroke[Head(queue)] \in Stroke
  BY <1>2, HeadTailProperties, LenProperties, EmptySeq
<1>4. PICK n \in Slots :
          /\ ~isRunning(n)
          /\ m_jobs' = [m_jobs EXCEPT ![n] =
                            STROKE(Head(queue), Head(stroke[Head(queue)].jobs))]
  BY <1>1 DEF addItem, isSpareThread
<1>5. /\ n \notin StrokeJobs
      /\ StrokeJobs' = StrokeJobs \cup {n}
      /\ \A i \in StrokeJobs : m_jobs'[i] = m_jobs[i]
      /\ m_jobs'[n] = STROKE(Head(queue), Head(stroke[Head(queue)].jobs))
  BY <1>4 DEF TypeOK, ContextTypeOK, isRunning, StrokeJobs, STROKE
<1>6. StrokeJobs # {} => queue = strokesQueue
  BY <1>1 DEF isRemaining
<1>7. QED
  BY <1>1, <1>2, <1>3, <1>5, <1>6 DEF STROKE, mayPopJob, checkStrokeState

\* While stroke jobs are running, the head stays.
LEMMA HeadStays ==
    ASSUME TypeOK, RunningStrokeIsHead, [Next]_vars, StrokeJobs # {}
    PROVE  strokesQueue' # << >> /\ Head(strokesQueue') = Head(strokesQueue)
<1>1. strokesQueue \in Seq(Strokes) /\ strokesQueue # << >>
  BY DEF TypeOK, StrokesTypeOK, RunningStrokeIsHead
<1>2. CASE UNCHANGED strokesQueue
  BY <1>1, <1>2
<1>3. CASE \E s \in Strokes : strokesQueue' = Append(strokesQueue, s)
  BY <1>1, <1>3
<1>4. CASE StrokeMethods
  BY <1>2, <1>3, <1>4 DEF StrokeMethods, startStroke, addJob, endStroke, cancelStroke
<1>5. CASE \E external \in BOOLEAN : processOneJob(external)
  BY <1>2, <1>5, PopsFromHead
<1>6. CASE \E external \in BOOLEAN : processNoJob(external)
  BY <1>2, <1>6 DEF processNoJob, isRemaining
<1>7. QED
  BY <1>2, <1>4, <1>5, <1>6, StrokeSteps

\* Stroke jobs stay in their slots or come from the head.
LEMMA RunningHeadStep ==
    ASSUME TypeOK, RunningStrokeIsHead, [Next]_vars
    PROVE  RunningStrokeIsHead'
<1>1. CASE LosesJobs
  BY <1>1, HeadStays DEF RunningStrokeIsHead, LosesJobs
<1>2. CASE \E external \in BOOLEAN : processOneJob(external)
  BY <1>2, HeadStays, PopsFromHead DEF RunningStrokeIsHead
<1>3. QED
  BY <1>1, <1>2, StrokeSteps

(***************************************************************************)
(* The stroke that owns the strategy a running job uses is the head of the *)
(* queue: a stroke is not dequeued, nor the next one begun, under its      *)
(* jobs.                                                                   *)
(***************************************************************************)
THEOREM HeadOwnsJobs == Spec => []RunningStrokeIsHead
<1>1. Init => RunningStrokeIsHead
  BY DEF Init, ContextInit, EMPTY, RunningStrokeIsHead, StrokeJobs
<1>2. TypeOK /\ RunningStrokeIsHead /\ [Next]_vars => RunningStrokeIsHead'
  BY RunningHeadStep
<1>3. QED
  BY <1>1, <1>2, TypeCorrect, PTL DEF Spec

(***************************************************************************)
(* Sequential jobs.                                                        *)
(***************************************************************************)
\* The stroke remembers a sequential job for as long as it is executed.
SequentialNoted ==
    \A i \in StrokeJobs :
        isSequential(m_jobs[i].job) => prevJobSequential(stroke[m_jobs[i].stroke])

\* Ending and cancelling a stroke does not touch what its previous job was.
LEMMA EndKeepsPrevious ==
    ASSUME NEW r \in Stroke
    PROVE  /\ strokeEnd(r).prevSequential = r.prevSequential
           /\ strokeCancel(r).prevSequential = r.prevSequential
<1>1. strokeEnd(r).prevSequential = r.prevSequential
  BY DEF strokeEnd, Stroke
<1>2. strokeCancel(r).prevSequential = r.prevSequential
  BY DEF strokeCancel, Stroke
<1>3. QED
  BY <1>1, <1>2

\* Nor does any other method, for a stroke that was started.
LEMMA MethodsKeepPrevious ==
    ASSUME TypeOK, StrokeMethods, NEW u \in Strokes, stroke[u] \in Stroke
    PROVE  stroke'[u].prevSequential = stroke[u].prevSequential
<1>1. stroke \in [Strokes -> Stroke \cup {NoStroke}] /\ stroke[u] # NoStroke
  BY StrokesAssumption DEF TypeOK, StrokesTypeOK
<1>2. ASSUME NEW s \in Strokes, NEW strategy, startStroke(s, strategy)
      PROVE  stroke'[u] = stroke[u]
  BY <1>1, <1>2 DEF startStroke
<1>3. ASSUME NEW s \in Strokes, NEW job, addJob(s, job)
      PROVE  stroke'[u].prevSequential = stroke[u].prevSequential
  BY <1>1, <1>3 DEF addJob, strokeAddJob, Stroke
<1>4. ASSUME NEW s \in Strokes, endStroke(s) \/ cancelStroke(s)
      PROVE  \/ stroke'[u] = stroke[u]
             \/ stroke'[u] = strokeEnd(stroke[u])
             \/ stroke'[u] = strokeCancel(stroke[u])
  BY <1>1, <1>4 DEF endStroke, cancelStroke
<1>5. QED
  BY <1>2, <1>3, <1>4, EndKeepsPrevious DEF StrokeMethods

\* A job that is popped is noted.
LEMMA PopNotes ==
    ASSUME NEW r \in Stroke
    PROVE  strokePop(r).prevSequential = isSequential(Head(r.jobs))
  BY DEF strokePop, Stroke

\* No stroke job is started next to a sequential one, nor a sequential one next
\* to others: what the last job was is known to the head, which owns them all.
LEMMA SequentialStep ==
    ASSUME TypeOK, RunningStrokeIsHead, SequentialNoted, SequentialAlone, [Next]_vars
    PROVE  SequentialNoted' /\ SequentialAlone'
<1>1. /\ stroke \in [Strokes -> Stroke \cup {NoStroke}]
      /\ \A i \in StrokeJobs : /\ m_jobs[i].stroke \in Strokes
                               /\ stroke[m_jobs[i].stroke] \in Stroke
  <2>1. strokesQueue \in Seq(Strokes) /\ \A k \in DOMAIN strokesQueue : stroke[strokesQueue[k]] \in Stroke
    BY DEF TypeOK, StrokesTypeOK
  <2>2. strokesQueue # << >> => Head(strokesQueue) \in Strokes /\ stroke[Head(strokesQueue)] \in Stroke
    BY <2>1
  <2>3. QED
    BY <2>2 DEF TypeOK, StrokesTypeOK, RunningStrokeIsHead
<1>2. CASE LosesJobs /\ (UNCHANGED stroke \/ StrokeMethods)
  <2>1. \A i \in StrokeJobs' :
            prevJobSequential(stroke'[m_jobs'[i].stroke])
                = prevJobSequential(stroke[m_jobs[i].stroke])
    BY <1>1, <1>2, MethodsKeepPrevious DEF LosesJobs, prevJobSequential
  <2>2. QED
    BY <1>2, <2>1 DEF LosesJobs, SequentialNoted, SequentialAlone
<1>3. ASSUME NEW external \in BOOLEAN, processOneJob(external)
      PROVE  SequentialNoted' /\ SequentialAlone'
  <2> DEFINE u == Head(strokesQueue')
  <2>1. PICK n \in Slots :
            /\ n \notin StrokeJobs
            /\ StrokeJobs' = StrokeJobs \cup {n}
            /\ \A i \in StrokeJobs : m_jobs'[i] = m_jobs[i]
            /\ strokesQueue' # << >> /\ m_jobs'[n].stroke = u
            /\ StrokeJobs # {} => strokesQueue' = strokesQueue
            /\ stroke[u] \in Stroke /\ hasJobs(stroke[u])
            /\ m_jobs'[n].job = Head(stroke[u].jobs)
            /\ stroke' = [stroke EXCEPT ![u] = strokePop(stroke[u])]
            /\ checkSequentialProperty(u)
    BY <1>3, PopsFromHead
  <2>2. isSequential(m_jobs'[n].job) => StrokeJobs = {}
    BY <2>1 DEF checkSequentialProperty, nextJobSequential
  <2>3. \A i \in StrokeJobs : ~isSequential(m_jobs[i].job)
    BY <2>1 DEF checkSequentialProperty, SequentialNoted, RunningStrokeIsHead
  <2>4. SequentialAlone'
    BY <2>1, <2>2, <2>3 DEF SequentialAlone
  <2>5. prevJobSequential(stroke'[m_jobs'[n].stroke]) = isSequential(m_jobs'[n].job)
    <3>1. u \in Strokes
      BY <2>1, NextType, HeadTailProperties DEF TypeOK, StrokesTypeOK
    <3>2. stroke'[u] = strokePop(stroke[u])
      BY <1>1, <2>1, <3>1
    <3>3. QED
      BY <2>1, <3>2, PopNotes DEF prevJobSequential
  <2>6. SequentialNoted'
    BY <2>1, <2>3, <2>5 DEF SequentialNoted
  <2>7. QED
    BY <2>4, <2>6
<1>4. QED
  BY <1>2, <1>3, StrokeSteps DEF processNoJob

\* What the head remembers and what runs, together.
LEMMA SequentialKnown == Spec => [](SequentialNoted /\ SequentialAlone)
<1>1. Init => SequentialNoted /\ SequentialAlone
  BY DEF Init, ContextInit, EMPTY, SequentialNoted, SequentialAlone, StrokeJobs
<1>2. TypeOK /\ RunningStrokeIsHead /\ SequentialNoted /\ SequentialAlone /\ [Next]_vars
        => (SequentialNoted /\ SequentialAlone)'
  BY SequentialStep
<1>3. QED
  BY <1>1, <1>2, TypeCorrect, HeadOwnsJobs, PTL DEF Spec

\* checkSequentialProperty() looks at the job that is next and at the one that
\* was last: that is enough for no sequential job, from whichever thread it is
\* started, to share the slots with another job of its stroke or of the next.
THEOREM SequentialRunsAlone == Spec => []SequentialAlone
  BY SequentialKnown, PTL

-------------------------------------------------------------------------------
(***************************************************************************)
(* The update scheduler implements StrokeLifecycle, for every number of    *)
(* clients, workers, slots, strokes and dabs, if the strategies have a job *)
(* for every phase of a stroke: every step of a client, of a worker and of *)
(* whoever processes the queues is a step of the lifecycle, or none.       *)
(*                                                                         *)
(* What has to be known for it is the shape of a stroke: which jobs it     *)
(* still has, in which order, given the kinds of those it has handed out.  *)
(***************************************************************************)

(***************************************************************************)
(* The shape of a stroke r that has handed out jobs of the kinds in h.     *)
(***************************************************************************)
\* From the job at `first` on there are dabs and, once the stroke was ended,
\* its finish job.
HasDabs(r, first) ==
    /\ \A k \in DOMAIN r.jobs : k >= first =>
           \/ r.jobs[k].kind = "dab"
           \/ r.ended /\ k = Len(r.jobs) /\ r.jobs[k].kind = "finish"
    /\ r.ended => Len(r.jobs) >= first /\ r.jobs[Len(r.jobs)].kind = "finish"

Fresh(r, h) ==
    /\ h = {} /\ ~r.initialized /\ ~r.cancelled
    /\ Len(r.jobs) >= 1 /\ r.jobs[1].kind = "init"
    /\ HasDabs(r, 2)

Painting(r, h) ==
    /\ "init" \in h /\ "finish" \notin h /\ "cancel" \notin h
    /\ r.initialized /\ ~r.cancelled
    /\ HasDabs(r, 1)

Finished(r, h) ==
    /\ "finish" \in h /\ "cancel" \notin h
    /\ r.initialized /\ r.ended /\ r.jobs = << >>

Dropped(r, h) ==
    /\ h = {} /\ ~r.initialized /\ r.cancelled /\ r.ended /\ r.jobs = << >>

Cancelling(r, h) ==
    /\ "init" \in h /\ "finish" \notin h /\ "cancel" \notin h
    /\ r.initialized /\ r.cancelled /\ r.ended
    /\ Len(r.jobs) = 1 /\ r.jobs[1].kind = "cancel"

Cancelled(r, h) ==
    /\ "cancel" \in h
    /\ r.initialized /\ r.cancelled /\ r.ended
    /\ \A k \in DOMAIN r.jobs : r.jobs[k].kind = "undo"

Shaped(r, h) ==
    \/ Fresh(r, h) \/ Painting(r, h) \/ Finished(r, h)
    \/ Dropped(r, h) \/ Cancelling(r, h) \/ Cancelled(r, h)

\* Jobs as whole strategies make them.
Regular(job) ==
    /\ job.kind # "dab" => isSequential(job)
    /\ job.body = "populate" => job.kind = "cancel"

RegularJobs(r) ==
    /\ r.strategy \in Strategies
    /\ \A k \in DOMAIN r.jobs : Regular(r.jobs[k])

\* Every stroke that was started has a shape; one that was not has handed out
\* nothing; and what is executed was handed out.
StrokesShaped ==
    /\ \A s \in Strokes : stroke[s] = NoStroke => handed[s] = {}
    /\ \A s \in Strokes : stroke[s] # NoStroke =>
           Shaped(stroke[s], handed[s]) /\ RegularJobs(stroke[s])
    /\ \A i \in StrokeJobs :
           Regular(m_jobs[i].job) /\ m_jobs[i].job.kind \in handed[m_jobs[i].stroke]

(***************************************************************************)
(* What the methods of KisStroke do to the shape.                          *)
(***************************************************************************)
\* A jobs queue is a sequence of jobs; its length is a number.
LEMMA JobsAreSequence ==
    ASSUME NEW r \in Stroke
    PROVE  /\ r.jobs \in Seq(KisStrokeJob) /\ Len(r.jobs) \in Nat
           /\ DOMAIN r.jobs = 1..Len(r.jobs)
           /\ r.initialized \in BOOLEAN /\ r.ended \in BOOLEAN /\ r.cancelled \in BOOLEAN
  BY LenProperties DEF Stroke

\* A stroke that begins has its init job.
LEMMA NewShaped ==
    ASSUME WholeStrategies, NEW strategy \in Strategies, strategy \in KisStrokeStrategy
    PROVE  /\ Shaped(NewStroke(strategy), {}) /\ RegularJobs(NewStroke(strategy))
           /\ \A k \in DOMAIN NewStroke(strategy).jobs : NewStroke(strategy).jobs[k].kind # "dab"
<1> DEFINE r == NewStroke(strategy)
<1>1. r \in Stroke
  BY NewStrokeType
<1>2. /\ r.jobs = strategy.init /\ r.strategy = strategy
      /\ ~r.ended /\ ~r.cancelled /\ r.initialized = (strategy.init = << >>)
  BY DEF NewStroke
<1>3. /\ Len(strategy.init) = 1 /\ strategy.init[1].kind = "init"
      /\ isSequential(strategy.init[1]) /\ strategy.init[1].body # "populate"
  BY DEF WholeStrategies, OneJob
<1> HIDE DEF r
<1>4. DOMAIN r.jobs = {1} /\ r.jobs # << >>
  BY <1>1, <1>2, <1>3, JobsAreSequence
<1>5. ~r.initialized
  BY <1>2, <1>4, Zenon
<1>6. HasDabs(r, 2)
  BY <1>2, <1>4 DEF HasDabs
<1>7. Fresh(r, {})
  BY <1>2, <1>3, <1>5, <1>6 DEF Fresh
<1>8. RegularJobs(r)
  BY <1>2, <1>3, <1>4 DEF RegularJobs, Regular
<1>9. QED
  BY <1>2, <1>3, <1>4, <1>7, <1>8 DEF Shaped, r

\* The queue with one more job.
LEMMA AddedJobs ==
    ASSUME NEW r \in Stroke, NEW job \in KisStrokeJob
    PROVE  LET q == strokeAddJob(r, job) IN
           /\ q.strategy = r.strategy /\ q.initialized = r.initialized
           /\ q.ended = r.ended /\ q.cancelled = r.cancelled
           /\ q.jobs = Append(r.jobs, job)
           /\ Len(q.jobs) = Len(r.jobs) + 1 /\ DOMAIN q.jobs = 1..(Len(r.jobs) + 1)
           /\ \A k \in 1..Len(r.jobs) : q.jobs[k] = r.jobs[k]
           /\ q.jobs[Len(r.jobs) + 1] = job
<1>1. r.jobs \in Seq(KisStrokeJob)
  BY JobsAreSequence
<1>2. /\ Len(Append(r.jobs, job)) = Len(r.jobs) + 1
      /\ DOMAIN Append(r.jobs, job) = 1..(Len(r.jobs) + 1)
      /\ \A k \in 1..Len(r.jobs) : Append(r.jobs, job)[k] = r.jobs[k]
      /\ Append(r.jobs, job)[Len(r.jobs) + 1] = job
  BY <1>1, AppendProperties, LenProperties
<1>3. QED
  BY <1>2 DEF strokeAddJob, Stroke

\* A dab is asked for while the stroke is open.
LEMMA DabShaped ==
    ASSUME NEW r \in Stroke, NEW h, Shaped(r, h), RegularJobs(r), ~r.ended,
           NEW job \in KisStrokeJob, job.kind = "dab", job.body # "populate"
    PROVE  /\ Shaped(strokeAddJob(r, job), h) /\ RegularJobs(strokeAddJob(r, job))
           /\ "finish" \notin h /\ "cancel" \notin h
<1> DEFINE q == strokeAddJob(r, job)
<1>1. /\ q.strategy = r.strategy /\ q.initialized = r.initialized
      /\ q.ended = r.ended /\ q.cancelled = r.cancelled
      /\ Len(q.jobs) = Len(r.jobs) + 1 /\ DOMAIN q.jobs = 1..(Len(r.jobs) + 1)
      /\ \A k \in 1..Len(r.jobs) : q.jobs[k] = r.jobs[k]
      /\ q.jobs[Len(r.jobs) + 1] = job
  BY AddedJobs
<1>2. DOMAIN r.jobs = 1..Len(r.jobs) /\ Len(r.jobs) \in Nat
  BY JobsAreSequence
<1> HIDE DEF q
<1>3. Fresh(r, h) => Fresh(q, h)
  BY SMTT(30), <1>1, <1>2 DEF Fresh, HasDabs
<1>4. Painting(r, h) => Painting(q, h)
  BY <1>1, <1>2 DEF Painting, HasDabs
<1>5. Fresh(r, h) \/ Painting(r, h)
  BY DEF Shaped, Finished, Dropped, Cancelling, Cancelled
<1>6. RegularJobs(q)
  BY <1>1, <1>2 DEF RegularJobs, Regular
<1>7. QED
  BY <1>3, <1>4, <1>5, <1>6 DEF q, Shaped, Fresh, Painting

\* An undo job is added under the cancel job.
LEMMA UndoShaped ==
    ASSUME NEW r \in Stroke, NEW h, Shaped(r, h), RegularJobs(r), "cancel" \in h,
           NEW job \in KisStrokeJob, job = DefaultJob("undo", "plain")
    PROVE  Shaped(strokeAddJob(r, job), h) /\ RegularJobs(strokeAddJob(r, job))
<1> DEFINE q == strokeAddJob(r, job)
<1>1. /\ q.strategy = r.strategy /\ q.initialized = r.initialized
      /\ q.ended = r.ended /\ q.cancelled = r.cancelled
      /\ Len(q.jobs) = Len(r.jobs) + 1 /\ DOMAIN q.jobs = 1..(Len(r.jobs) + 1)
      /\ \A k \in 1..Len(r.jobs) : q.jobs[k] = r.jobs[k]
      /\ q.jobs[Len(r.jobs) + 1] = job
  BY AddedJobs
<1>2. DOMAIN r.jobs = 1..Len(r.jobs) /\ Len(r.jobs) \in Nat
  BY JobsAreSequence
<1>3. job.kind = "undo" /\ job.body = "plain" /\ isSequential(job)
  BY DEF DefaultJob, isSequential
<1> HIDE DEF q
<1>4. Cancelled(r, h)
  BY DEF Shaped, Fresh, Painting, Finished, Dropped, Cancelling
<1>5. Cancelled(q, h)
  BY <1>1, <1>2, <1>3, <1>4 DEF Cancelled
<1>6. RegularJobs(q)
  BY <1>1, <1>2, <1>3 DEF RegularJobs, Regular
<1>7. QED
  BY <1>5, <1>6 DEF q, Shaped

\* The finish job goes behind the dabs.
LEMMA EndShaped ==
    ASSUME WholeStrategies, NEW r \in Stroke, NEW h, Shaped(r, h), RegularJobs(r), ~r.ended
    PROVE  Shaped(strokeEnd(r), h) /\ RegularJobs(strokeEnd(r))
<1> DEFINE q == strokeEnd(r)
           finish == r.strategy.finish
           jobs == r.jobs \o finish
<1>1. r.jobs \in Seq(KisStrokeJob) /\ finish \in Seq(KisStrokeJob)
  BY DEF Stroke, KisStrokeStrategy
<1>2. /\ Len(finish) = 1 /\ finish[1].kind = "finish"
      /\ isSequential(finish[1]) /\ finish[1].body # "populate"
  BY DEF RegularJobs, WholeStrategies, OneJob
<1>3. DOMAIN r.jobs = 1..Len(r.jobs) /\ Len(r.jobs) \in Nat
  BY JobsAreSequence
<1>4. /\ Len(jobs) = Len(r.jobs) + 1 /\ DOMAIN jobs = 1..(Len(r.jobs) + 1)
      /\ \A k \in 1..Len(r.jobs) : jobs[k] = r.jobs[k]
      /\ jobs[Len(r.jobs) + 1] = finish[1]
  <2> HIDE DEF finish
  <2>1. jobs \in Seq(KisStrokeJob) /\ Len(jobs) = Len(r.jobs) + 1
    BY <1>1, <1>2, <1>3, ConcatProperties
  <2>2. \A k \in 1..Len(jobs) :
            jobs[k] = IF k <= Len(r.jobs) THEN r.jobs[k] ELSE finish[k - Len(r.jobs)]
    BY <1>1, <1>2, <1>3, <2>1, ConcatProperties
  <2>3. DOMAIN jobs = 1..Len(jobs)
    BY <2>1, LenProperties
  <2> HIDE DEF jobs
  <2>4. QED BY <1>3, <2>1, <2>2, <2>3
<1>5. /\ q.jobs = jobs /\ q.ended
      /\ q.strategy = r.strategy /\ q.initialized = r.initialized
      /\ q.cancelled = r.cancelled
  BY DEF strokeEnd, Stroke
<1> HIDE DEF q, jobs, finish
<1>6. Fresh(r, h) => Fresh(q, h)
  BY <1>2, <1>3, <1>4, <1>5 DEF Fresh, HasDabs
<1>7. Painting(r, h) => Painting(q, h)
  BY <1>2, <1>3, <1>4, <1>5 DEF Painting, HasDabs
<1>8. Fresh(r, h) \/ Painting(r, h)
  BY DEF Shaped, Finished, Dropped, Cancelling, Cancelled
<1>9. RegularJobs(q)
  BY <1>2, <1>3, <1>4, <1>5 DEF RegularJobs, Regular
<1>10. QED
  BY <1>6, <1>7, <1>8, <1>9 DEF q, Shaped

\* Cancelling gives the jobs up; a stroke that has begun and not been finished
\* gets its cancel job.
LEMMA CancelShaped ==
    ASSUME WholeStrategies, NEW r \in Stroke, NEW h, Shaped(r, h), RegularJobs(r),
           ~r.cancelled
    PROVE  /\ Shaped(strokeCancel(r), h) /\ RegularJobs(strokeCancel(r))
           /\ \A k \in DOMAIN strokeCancel(r).jobs : strokeCancel(r).jobs[k].kind # "dab"
<1> DEFINE q == strokeCancel(r)
           cancel == r.strategy.cancel
           goesOn == r.initialized /\ (hasJobs(r) \/ ~r.ended)
<1>1. cancel \in Seq(KisStrokeJob)
  BY DEF Stroke, KisStrokeStrategy
<1>2. Len(cancel) = 1 /\ cancel[1].kind = "cancel" /\ isSequential(cancel[1])
  BY DEF RegularJobs, WholeStrategies, OneJob
<1>3. DOMAIN cancel = {1}
  <2> HIDE DEF cancel
  <2> QED BY <1>1, <1>2, LenProperties
<1>4. DOMAIN r.jobs = 1..Len(r.jobs) /\ Len(r.jobs) \in Nat
  BY JobsAreSequence
<1>5. /\ q.jobs = IF goesOn THEN cancel ELSE << >>
      /\ q.ended /\ q.cancelled /\ q.strategy = r.strategy /\ q.initialized = r.initialized
  BY DEF strokeCancel, Stroke
<1>6. \A k \in DOMAIN q.jobs : Regular(q.jobs[k]) /\ q.jobs[k].kind # "dab"
  <2> HIDE DEF q, cancel, goesOn
  <2> QED BY <1>2, <1>3, <1>5, EmptySeq DEF Regular
<1>7. CASE Fresh(r, h)
  <2>1. ~goesOn
    BY <1>7 DEF Fresh
  <2> HIDE DEF q, goesOn
  <2>2. Dropped(q, h)
    BY <1>5, <1>7, <2>1 DEF Fresh, Dropped
  <2>3. QED
    BY <1>5, <1>6, <2>2 DEF q, Shaped, RegularJobs
<1>8. CASE Painting(r, h)
  <2>1. goesOn
    BY <1>4, <1>8 DEF Painting, HasDabs, hasJobs
  <2> HIDE DEF q, cancel, goesOn
  <2>2. Cancelling(q, h)
    BY <1>2, <1>5, <1>8, <2>1 DEF Painting, Cancelling
  <2>3. QED
    BY <1>5, <1>6, <2>2 DEF q, Shaped, RegularJobs
<1>9. CASE Finished(r, h)
  <2>1. ~goesOn
    BY <1>9 DEF Finished, hasJobs
  <2> HIDE DEF q, goesOn
  <2>2. Finished(q, h)
    BY <1>5, <1>9, <2>1 DEF Finished
  <2>3. QED
    BY <1>5, <1>6, <2>2 DEF q, Shaped, RegularJobs
<1>10. QED
  BY <1>7, <1>8, <1>9 DEF Shaped, Dropped, Cancelling, Cancelled

\* The queue without its first job.
LEMMA PoppedJobs ==
    ASSUME NEW r \in Stroke, hasJobs(r)
    PROVE  LET q == strokePop(r) IN
           /\ q.strategy = r.strategy /\ q.initialized
           /\ q.ended = r.ended /\ q.cancelled = r.cancelled
           /\ Len(r.jobs) >= 1 /\ Head(r.jobs) = r.jobs[1]
           /\ Len(q.jobs) = Len(r.jobs) - 1 /\ DOMAIN q.jobs = 1..(Len(r.jobs) - 1)
           /\ \A k \in 1..(Len(r.jobs) - 1) : q.jobs[k] = r.jobs[k + 1]
           /\ q.jobs = << >> <=> Len(r.jobs) = 1
<1>1. r.jobs \in Seq(KisStrokeJob) /\ r.jobs # << >>
  BY JobsAreSequence DEF hasJobs
<1>2. /\ Head(r.jobs) = r.jobs[1] /\ Tail(r.jobs) \in Seq(KisStrokeJob)
      /\ Len(Tail(r.jobs)) = Len(r.jobs) - 1
      /\ \A k \in 1..Len(Tail(r.jobs)) : Tail(r.jobs)[k] = r.jobs[k + 1]
  BY <1>1, HeadTailProperties
<1>3. Len(r.jobs) \in Nat /\ Len(r.jobs) >= 1 /\ DOMAIN Tail(r.jobs) = 1..Len(Tail(r.jobs))
  BY <1>1, <1>2, LenProperties, EmptySeq
<1>4. Tail(r.jobs) = << >> <=> Len(r.jobs) = 1
  <2>1. Tail(r.jobs) = << >> => Len(Tail(r.jobs)) = 0
    BY EmptySeq
  <2>2. Tail(r.jobs) # << >> => Len(Tail(r.jobs)) # 0
    BY <1>2, EmptySeq
  <2> HIDE <1>1
  <2>3. QED
    BY <1>2, <1>3, <2>1, <2>2
<1>5. /\ strokePop(r).jobs = Tail(r.jobs) /\ strokePop(r).initialized
      /\ strokePop(r).strategy = r.strategy
      /\ strokePop(r).ended = r.ended /\ strokePop(r).cancelled = r.cancelled
  BY DEF strokePop, Stroke
<1>6. QED
  BY <1>2, <1>3, <1>4, <1>5

\* What a job that is handed out may count on: init is the first, dabs come
\* before finish, finish after all of them, cancel unless there was a finish,
\* undo after cancel.
LEMMA HandsOutInOrder ==
    ASSUME NEW r \in Stroke, NEW h, Shaped(r, h), hasJobs(r)
    PROVE  LET kind == Head(r.jobs).kind
               closed == "finish" \in h \/ "cancel" \in h
           IN  \/ kind = "init" /\ h = {}
               \/ kind = "dab" /\ "init" \in h /\ ~closed /\ 1 \in dabsOf(r.jobs)
               \/ kind = "finish" /\ "init" \in h /\ ~closed /\ dabsOf(r.jobs) = {}
               \/ kind = "cancel" /\ "init" \in h /\ ~closed
               \/ kind = "undo" /\ "cancel" \in h
<1>1. Len(r.jobs) \in Nat /\ DOMAIN r.jobs = 1..Len(r.jobs)
  BY JobsAreSequence
<1>2. Len(r.jobs) >= 1 /\ Head(r.jobs) = r.jobs[1] /\ r.jobs # << >>
  BY PoppedJobs DEF hasJobs
<1>3. CASE Painting(r, h)
  <2>1. \/ r.jobs[1].kind = "dab"
        \/ 1 = Len(r.jobs) /\ r.jobs[1].kind = "finish"
    <3>1. 1 \in DOMAIN r.jobs /\ 1 >= 1
      BY <1>1, <1>2
    <3>2. QED
      BY <1>3, <3>1, Zenon DEF Painting, HasDabs
  <2>2. r.jobs[1].kind = "dab" => 1 \in dabsOf(r.jobs)
    BY <1>1, <1>2 DEF dabsOf
  <2>3. 1 = Len(r.jobs) /\ r.jobs[1].kind = "finish" => dabsOf(r.jobs) = {}
    BY <1>1 DEF dabsOf
  <2>4. QED
    BY <1>2, <1>3, <2>1, <2>2, <2>3 DEF Painting
<1>4. QED
  BY <1>1, <1>2, <1>3 DEF Shaped, Fresh, Finished, Dropped, Cancelling, Cancelled

\* Handing out the first job.
LEMMA PopShaped ==
    ASSUME NEW r \in Stroke, NEW h, Shaped(r, h), RegularJobs(r), hasJobs(r)
    PROVE  /\ Shaped(strokePop(r), h \cup {Head(r.jobs).kind})
           /\ RegularJobs(strokePop(r)) /\ Regular(Head(r.jobs))
<1> DEFINE q == strokePop(r)
           first == r.jobs[1].kind
           more == h \cup {first}
<1>1. /\ q.strategy = r.strategy /\ q.initialized
      /\ q.ended = r.ended /\ q.cancelled = r.cancelled
      /\ Len(r.jobs) >= 1 /\ Head(r.jobs) = r.jobs[1]
      /\ Len(q.jobs) = Len(r.jobs) - 1 /\ DOMAIN q.jobs = 1..(Len(r.jobs) - 1)
      /\ \A k \in 1..(Len(r.jobs) - 1) : q.jobs[k] = r.jobs[k + 1]
      /\ q.jobs = << >> <=> Len(r.jobs) = 1
  BY PoppedJobs
<1>2. Len(r.jobs) \in Nat /\ DOMAIN r.jobs = 1..Len(r.jobs) /\ r.jobs # << >>
  BY JobsAreSequence DEF hasJobs
<1> HIDE DEF q
<1>3. ASSUME NEW k \in DOMAIN q.jobs
       PROVE  /\ k + 1 \in DOMAIN r.jobs /\ k + 1 >= 2 /\ k + 1 >= 1
              /\ q.jobs[k] = r.jobs[k + 1] /\ (k + 1 = Len(r.jobs) => k = Len(q.jobs))
  BY <1>1, <1>2
<1>4. Len(r.jobs) >= 2 => Len(q.jobs) >= 1 /\ q.jobs[Len(q.jobs)] = r.jobs[Len(r.jobs)]
  BY <1>1, <1>2
<1>5. ASSUME NEW start \in {1, 2}, HasDabs(r, start), r.ended => Len(r.jobs) >= 2
       PROVE  HasDabs(q, 1)
  <2>1. ASSUME NEW k \in DOMAIN q.jobs
        PROVE  \/ q.jobs[k].kind = "dab"
               \/ q.ended /\ k = Len(q.jobs) /\ q.jobs[k].kind = "finish"
    <3>1. k + 1 \in DOMAIN r.jobs /\ k + 1 >= start
      BY <1>3, <2>1, <1>5
    <3>2. \/ r.jobs[k + 1].kind = "dab"
          \/ r.ended /\ k + 1 = Len(r.jobs) /\ r.jobs[k + 1].kind = "finish"
      BY <1>5, <3>1, Zenon DEF HasDabs
    <3>3. QED
      BY <1>1, <1>3, <2>1, <3>2
  <2>2. r.ended => r.jobs[Len(r.jobs)].kind = "finish"
    BY <1>5 DEF HasDabs
  <2>3. QED
    BY <1>1, <1>4, <1>5, <2>1, <2>2 DEF HasDabs
<1>6. ASSUME Fresh(r, h) PROVE Painting(q, more)
  <2>1. HasDabs(r, 2) /\ ~r.cancelled
    BY <1>6 DEF Fresh
  <2>2. HasDabs(q, 1)
    BY <1>5, <2>1 DEF HasDabs
  <2>3. QED
    BY <1>1, <1>6, <2>1, <2>2 DEF Fresh, Painting
<1>7. ASSUME Painting(r, h) PROVE Painting(q, more) \/ Finished(q, more)
  <2>1. CASE first = "dab"
    <3>1. HasDabs(q, 1)
      BY <1>1, <1>2, <1>7, <1>5, <2>1 DEF Painting, HasDabs
    <3>2. QED
      BY <1>1, <1>7, <2>1, <3>1 DEF Painting
  <2>2. CASE first # "dab"
    <3>1. r.ended /\ Len(r.jobs) = 1 /\ first = "finish"
      BY <1>1, <1>2, <1>7, <2>2 DEF Painting, HasDabs
    <3>2. QED
      BY <1>1, <1>7, <3>1 DEF Painting, Finished
  <2>3. QED
    BY <2>1, <2>2
<1>8. Cancelling(r, h) => Cancelled(q, more)
  BY <1>1, <1>2 DEF Cancelling, Cancelled
<1>9. Cancelled(r, h) => Cancelled(q, more)
  BY <1>1, <1>2 DEF Cancelled
<1>10. Shaped(q, more)
  BY <1>2, <1>6, <1>7, <1>8, <1>9 DEF Shaped, Finished, Dropped
<1>11. RegularJobs(q) /\ Regular(r.jobs[1])
  BY <1>1, <1>2, <1>3 DEF RegularJobs
<1>12. QED
  BY <1>1, <1>10, <1>11 DEF q

(***************************************************************************)
(* How many dabs wait.                                                     *)
(***************************************************************************)
\* The dabs of a stroke can be counted.
LEMMA DabsFinite ==
    ASSUME NEW r \in Stroke
    PROVE  IsFiniteSet(dabsOf(r.jobs)) /\ Cardinality(dabsOf(r.jobs)) \in Nat
<1>1. dabsOf(r.jobs) \subseteq 1..Len(r.jobs) /\ Len(r.jobs) \in Nat
  BY JobsAreSequence DEF dabsOf
<1>2. IsFiniteSet(1..Len(r.jobs))
  BY <1>1, FS_Interval
<1>3. QED
  BY <1>1, <1>2, FS_Subset, FS_CardinalityType

\* Queueing a job adds a dab or leaves their number.
LEMMA AddCounts ==
    ASSUME NEW r \in Stroke, NEW job \in KisStrokeJob
    PROVE  Cardinality(dabsOf(strokeAddJob(r, job).jobs))
             = IF job.kind = "dab" THEN Cardinality(dabsOf(r.jobs)) + 1
               ELSE Cardinality(dabsOf(r.jobs))
<1> DEFINE q == strokeAddJob(r, job)
           n == Len(r.jobs) + 1
<1>1. /\ DOMAIN q.jobs = 1..n /\ q.jobs[n] = job
      /\ \A k \in 1..Len(r.jobs) : q.jobs[k] = r.jobs[k]
  BY AddedJobs
<1>2. DOMAIN r.jobs = 1..Len(r.jobs) /\ Len(r.jobs) \in Nat
  BY JobsAreSequence
<1>3. IsFiniteSet(dabsOf(r.jobs)) /\ Cardinality(dabsOf(r.jobs)) \in Nat
  BY DabsFinite
<1> HIDE DEF q
<1>4. n \notin dabsOf(r.jobs)
  BY <1>2 DEF dabsOf
<1>5. dabsOf(q.jobs) = IF job.kind = "dab" THEN dabsOf(r.jobs) \cup {n} ELSE dabsOf(r.jobs)
  BY <1>1, <1>2 DEF dabsOf
<1>6. Cardinality(dabsOf(r.jobs) \cup {n}) = Cardinality(dabsOf(r.jobs)) + 1
  BY <1>3, <1>4, FS_AddElement
<1>7. QED
  BY <1>5, <1>6 DEF q

\* Handing out the first job takes one dab away or none.
LEMMA PopCounts ==
    ASSUME NEW r \in Stroke, hasJobs(r)
    PROVE  Cardinality(dabsOf(strokePop(r).jobs))
             = IF Head(r.jobs).kind = "dab" THEN Cardinality(dabsOf(r.jobs)) - 1
               ELSE Cardinality(dabsOf(r.jobs))
<1> DEFINE q == strokePop(r)
           rest == dabsOf(r.jobs) \ {1}
           shift == [k \in dabsOf(q.jobs) |-> k + 1]
<1>1. /\ Len(r.jobs) >= 1 /\ Head(r.jobs) = r.jobs[1]
      /\ DOMAIN q.jobs = 1..(Len(r.jobs) - 1)
      /\ \A k \in 1..(Len(r.jobs) - 1) : q.jobs[k] = r.jobs[k + 1]
  BY PoppedJobs
<1>2. DOMAIN r.jobs = 1..Len(r.jobs) /\ Len(r.jobs) \in Nat
  BY JobsAreSequence
<1>3. IsFiniteSet(dabsOf(r.jobs)) /\ Cardinality(dabsOf(r.jobs)) \in Nat
  BY DabsFinite
<1> HIDE DEF q
<1>4. shift \in Bijection(dabsOf(q.jobs), rest)
  <2>1. \A k \in dabsOf(q.jobs) : k \in Nat /\ k + 1 \in rest
    BY <1>1, <1>2 DEF dabsOf
  <2>2. \A j \in rest : j - 1 \in dabsOf(q.jobs) /\ (j - 1) + 1 = j
    BY <1>1, <1>2 DEF dabsOf
  <2>3. shift \in [dabsOf(q.jobs) -> rest]
    BY <2>1
  <2>4. \A a, b \in dabsOf(q.jobs) : shift[a] = shift[b] => a = b
    BY <2>1
  <2>5. \A j \in rest : \E k \in dabsOf(q.jobs) : shift[k] = j
    BY <2>2
  <2>6. QED
    BY <2>3, <2>4, <2>5 DEF Bijection, Injection, Surjection, IsInjective
<1>5. ExistsBijection(dabsOf(q.jobs), rest)
  BY <1>4 DEF ExistsBijection
<1>6. IsFiniteSet(rest) /\ Cardinality(rest)
        = IF 1 \in dabsOf(r.jobs) THEN Cardinality(dabsOf(r.jobs)) - 1
          ELSE Cardinality(dabsOf(r.jobs))
  BY <1>3, FS_RemoveElement
<1>7. Cardinality(dabsOf(q.jobs)) = Cardinality(rest)
  BY <1>5, <1>6, FS_Bijection, Fun_ExistsBijSymmetric
<1>8. 1 \in dabsOf(r.jobs) <=> Head(r.jobs).kind = "dab"
  BY <1>1, <1>2 DEF dabsOf
<1>9. QED
  BY <1>6, <1>7, <1>8 DEF q

\* Ending a stroke leaves the number of its dabs.
LEMMA EndCounts ==
    ASSUME WholeStrategies, NEW r \in Stroke, RegularJobs(r)
    PROVE  dabsOf(strokeEnd(r).jobs) = dabsOf(r.jobs)
<1> DEFINE finish == r.strategy.finish
           jobs == r.jobs \o finish
<1>1. r.jobs \in Seq(KisStrokeJob) /\ finish \in Seq(KisStrokeJob)
  BY DEF Stroke, KisStrokeStrategy
<1>2. Len(finish) = 1 /\ finish[1].kind = "finish"
  BY DEF RegularJobs, WholeStrategies, OneJob
<1>3. DOMAIN r.jobs = 1..Len(r.jobs) /\ Len(r.jobs) \in Nat
  BY JobsAreSequence
<1> HIDE DEF finish
<1>4. jobs \in Seq(KisStrokeJob) /\ Len(jobs) = Len(r.jobs) + 1
  BY <1>1, <1>2, <1>3, ConcatProperties
<1>5. \A k \in 1..Len(jobs) :
          jobs[k] = IF k <= Len(r.jobs) THEN r.jobs[k] ELSE finish[k - Len(r.jobs)]
  BY <1>1, <1>2, <1>3, <1>4, ConcatProperties
<1>6. DOMAIN jobs = 1..Len(jobs)
  BY <1>4, LenProperties
<1>7. strokeEnd(r).jobs = jobs
  BY DEF strokeEnd, Stroke, finish
<1> HIDE DEF jobs
<1>8. QED
  BY <1>2, <1>3, <1>4, <1>5, <1>6, <1>7 DEF dabsOf

(***************************************************************************)
(* Steps, by what they do to strokes and their jobs.                       *)
(***************************************************************************)
SameJobs ==
    /\ StrokeJobs' = StrokeJobs
    /\ \A i \in StrokeJobs : m_jobs'[i] = m_jobs[i]

\* The job of a slot ends.
EndsJob ==
    \E n \in StrokeJobs :
        /\ StrokeJobs' = StrokeJobs \ {n}
        /\ \A i \in StrokeJobs' : m_jobs'[i] = m_jobs[i]

\* The methods of the strokes queue, called as the assertions of KisStroke
\* want it.
CarefulMethod(s) ==
    \/ \E strategy \in Strategies : startStroke(s, strategy)
    \/ isAlive(s) /\ ~stroke[s].ended /\ \E job \in stroke[s].strategy.dab : addJob(s, job)
    \/ isAlive(s) /\ ~stroke[s].ended /\ endStroke(s)
    \/ stroke[s] # NoStroke /\ ~stroke[s].cancelled /\ cancelStroke(s)
    \/ "cancel" \in handed[s] /\ addJob(s, DefaultJob("undo", "plain"))

\* An item that is no stroke job leaves the stroke jobs alone.
LEMMA FillSameJobs ==
    ASSUME ContextTypeOK, NEW item, item.type # "STROKE", addItem(item)
    PROVE  SameJobs
<1>1. PICK n \in Slots : ~isRunning(n) /\ m_jobs' = [m_jobs EXCEPT ![n] = item]
  BY DEF addItem, isSpareThread
<1>2. n \notin StrokeJobs
  BY <1>1 DEF StrokeJobs, isRunning
<1>3. QED
  BY <1>1, <1>2 DEF ContextTypeOK, SameJobs, StrokeJobs

\* processQueues() touches strokes in the loop of the strokes queue only.
LEMMA ProcessLifecycle ==
    ASSUME TypeOK, NEW t \in Threads, processQueues(t)
    PROVE  \/ UNCHANGED strokeVars /\ SameJobs
           \/ \E external \in BOOLEAN : processOneJob(external)
           \/ \E external \in BOOLEAN : processNoJob(external) /\ SameJobs
<1>1. ContextTypeOK /\ pending[t] \in BOOLEAN
  BY DEF TypeOK, ThreadsTypeOK
<1>2. UNCHANGED contextVars => SameJobs
  BY DEF contextVars, SameJobs, StrokeJobs
<1>3. CASE processStrokesQueue(t)
  BY <1>1, <1>3 DEF processStrokesQueue
<1>4. CASE leaveStrokesQueue(t)
  BY <1>1, <1>2, <1>4 DEF leaveStrokesQueue
<1>5. CASE processUpdatesQueue(t)
  <2>1. \E item : item.type # "STROKE" /\ addItem(item)
    BY <1>5 DEF processUpdatesQueue, startWalker, startSpontaneous, MERGE, SPONTANEOUS
  <2>2. QED
    BY <1>1, <1>5, <2>1, FillSameJobs DEF processUpdatesQueue
<1>6. CASE \/ wakeUpWaitingThreads(t) \/ wakeHaveUpdatesRunning(t) \/ wakeWaiting(t)
           \/ checkProcessingBlocked(t) \/ checkExclusiveAccess(t) \/ checkBalance(t)
           \/ evaluateExternalJobs(t) \/ checkExclusiveAgain(t)
           \/ tryProcessUpdatesQueue(t) \/ leaveUpdatesQueue(t)
  BY <1>2, <1>6 DEF wakeUpWaitingThreads, wakeHaveUpdatesRunning, wakeWaiting,
                checkProcessingBlocked, checkExclusiveAccess, checkBalance,
                evaluateExternalJobs, checkExclusiveAgain, tryProcessUpdatesQueue,
                leaveUpdatesQueue, OnlyControl
<1>7. QED
  BY <1>3, <1>4, <1>5, <1>6 DEF processQueues

\* A worker empties its slot, or its cancel job adds an undo job.
LEMMA RunLifecycle ==
    ASSUME TypeOK, Control, StrokesShaped, NEW w \in Workers, run(w)
    PROVE  \/ UNCHANGED strokeVars /\ (SameJobs \/ EndsJob)
           \/ SameJobs /\ \E s \in Strokes : CarefulMethod(s)
<1>1. m_jobs \in [Slots -> KisUpdateJobItem] /\ on[w] \in Slots \cup {NoSlot}
  BY DEF TypeOK, ContextTypeOK
<1>2. CASE finishJob(w)
  <2>1. m_jobs' = [m_jobs EXCEPT ![on[w]] = EMPTY] /\ UNCHANGED strokeVars
    BY <1>2 DEF finishJob, setDone
  <2>2. CASE on[w] \in StrokeJobs
    <3>1. EndsJob
      BY <1>1, <2>1, <2>2 DEF EndsJob, StrokeJobs, EMPTY
    <3>2. QED
      BY <2>1, <3>1
  <2>3. CASE on[w] \notin StrokeJobs
    <3>1. SameJobs
      BY <1>1, <2>1, <2>3 DEF SameJobs, StrokeJobs, EMPTY
    <3>2. QED
      BY <2>1, <3>1
  <2>4. QED
    BY <2>2, <2>3
<1>3. CASE runPopulate(w)
  <2>1. PICK s \in Strokes :
            m_jobs[on[w]].stroke = s /\ addJob(s, DefaultJob("undo", "plain"))
    BY <1>3 DEF runPopulate
  <2>2. on[w] \in Slots /\ m_jobs[on[w]].type = "STROKE" /\ m_jobs[on[w]].job.body = "populate"
    BY <1>1, <1>3 DEF runPopulate, bodyOf, Control, WorkerControl
  <2>3. m_jobs[on[w]].job.kind = "cancel" /\ "cancel" \in handed[s]
    BY <2>1, <2>2 DEF StrokesShaped, StrokeJobs, Regular
  <2>4. SameJobs
    BY <1>3 DEF runPopulate, contextVars, SameJobs, StrokeJobs
  <2>5. QED
    BY <2>1, <2>3, <2>4 DEF CarefulMethod
<1>4. CASE ~finishJob(w) /\ ~runPopulate(w)
  <2>1. UNCHANGED strokeVars /\ m_jobs' = m_jobs
    BY <1>4 DEF run, takeSlot, take, lockExclusiveJob, runDirty, runBlocking,
                releaseWorker, leaveRun, OnlyControl, contextVars
  <2>2. QED
    BY <2>1 DEF SameJobs, StrokeJobs
<1>5. QED
  BY <1>2, <1>3, <1>4

\* A client calls one of the methods with care, or leaves the strokes alone.
LEMMA ClientLifecycle ==
    ASSUME TypeOK, NEW c \in Clients, client(c)
    PROVE  SameJobs /\ (UNCHANGED strokeVars \/ \E s \in Strokes : CarefulMethod(s))
<1>1. SameJobs
  <2>1. CASE UNCHANGED contextVars
    BY <2>1 DEF contextVars, SameJobs, StrokeJobs
  <2>2. CASE \E area \in Areas : addItem(MERGE(area))
    BY <2>2, FillSameJobs DEF TypeOK, MERGE
  <2>3. QED
    BY <2>1, <2>2, ClientFills
<1>2. CASE strokeMethod(c)
  BY <1>1, <1>2 DEF strokeMethod, CarefulMethod
<1>3. CASE ~strokeMethod(c)
  BY <1>1, <1>3 DEF client, updateProjection, addSpontaneousJob, clientBlockUpdates, lock,
                    unlock, waitForDone, barrierLock, tryBarrierLock, fullRefresh,
                    setProcessingBlocked, OnlyControl
<1>4. QED
  BY <1>2, <1>3

\* The kinds of steps.
LEMMA LifecycleSteps ==
    ASSUME TypeOK, Control, StrokesShaped, [Next]_vars
    PROVE  \/ UNCHANGED strokeVars /\ (SameJobs \/ EndsJob)
           \/ SameJobs /\ \E s \in Strokes : CarefulMethod(s)
           \/ \E external \in BOOLEAN : processOneJob(external)
           \/ \E external \in BOOLEAN : processNoJob(external) /\ SameJobs
<1>1. UNCHANGED contextVars => SameJobs
  BY DEF contextVars, SameJobs, StrokeJobs
<1>2. CASE UNCHANGED vars
  BY <1>1, <1>2 DEF vars
<1>3. ASSUME NEW t \in Threads, blockUpdates(t)
      PROVE  SameJobs /\ UNCHANGED strokeVars
  <2>1. UNCHANGED strokeVars
    BY <1>3 DEF blockUpdates, blockInitWaiting, blockRef, blockHaveUpdatesRunning, blockWait,
                blockWoken, blockEndWaiting, updateWhileBlocked, unblockUpdates, OnlyControl
  <2>2. QED
    BY <1>1, <1>3, <2>1, BlockKeepsSlots
<1>4. QED
  BY <1>2, <1>3, ProcessLifecycle, RunLifecycle, ClientLifecycle DEF Next, Rest

(***************************************************************************)
(* The shape is kept.                                                      *)
(***************************************************************************)
\* A stroke is replaced by one that has a shape.
LEMMA ReplaceShaped ==
    ASSUME TypeOK, StrokesShaped, SameJobs, NEW s \in Strokes, NEW r \in Stroke,
           Shaped(r, handed[s]), RegularJobs(r),
           stroke' = [stroke EXCEPT ![s] = r], handed' = handed
    PROVE  StrokesShaped'
<1>1. stroke'[s] = r /\ \A u \in Strokes \ {s} : stroke'[u] = stroke[u]
  BY DEF TypeOK, StrokesTypeOK
<1>2. r # NoStroke
  BY StrokesAssumption
<1>3. \A u \in Strokes : stroke'[u] = NoStroke => handed'[u] = {}
  BY <1>1, <1>2 DEF StrokesShaped
<1>4. \A u \in Strokes : stroke'[u] # NoStroke =>
          Shaped(stroke'[u], handed'[u]) /\ RegularJobs(stroke'[u])
  BY <1>1 DEF StrokesShaped
<1>5. \A i \in StrokeJobs' :
          Regular(m_jobs'[i].job) /\ m_jobs'[i].job.kind \in handed'[m_jobs'[i].stroke]
  BY DEF StrokesShaped, SameJobs
<1>6. QED
  BY <1>3, <1>4, <1>5 DEF StrokesShaped

\* The methods, called with care, replace a stroke by one that has a shape; the
\* lifecycle sees a stroke opened, a dab asked for, dabs given up, or nothing.
LEMMA MethodReplaces ==
    ASSUME WholeStrategies, TypeOK, StrokesShaped, NEW s \in Strokes, CarefulMethod(s)
    PROVE  \/ UNCHANGED strokeVars
           \/ /\ UNCHANGED <<needsExclusiveAccess, handed>>
              /\ \E r \in Stroke :
                  /\ Shaped(r, handed[s]) /\ RegularJobs(r)
                  /\ stroke' = [stroke EXCEPT ![s] = r]
                  /\ \/ /\ stroke[s] = NoStroke /\ handed[s] = {}
                        /\ Cardinality(dabsOf(r.jobs)) = 0
                        /\ strokesQueue' = Append(strokesQueue, s)
                     \/ /\ isAlive(s) /\ stroke[s] \in Stroke /\ strokesQueue' = strokesQueue
                        /\ "finish" \notin handed[s] /\ "cancel" \notin handed[s]
                        /\ Cardinality(dabsOf(r.jobs))
                             = Cardinality(dabsOf(stroke[s].jobs)) + 1
                     \/ /\ isAlive(s) /\ stroke[s] \in Stroke /\ strokesQueue' = strokesQueue
                        /\ Cardinality(dabsOf(r.jobs)) = Cardinality(dabsOf(stroke[s].jobs))
                     \/ /\ isAlive(s) /\ stroke[s] \in Stroke /\ strokesQueue' = strokesQueue
                        /\ Cardinality(dabsOf(r.jobs)) = 0
<1>1. ASSUME isAlive(s)
      PROVE  stroke[s] \in Stroke /\ Shaped(stroke[s], handed[s]) /\ RegularJobs(stroke[s])
  <2>1. stroke[s] \in Stroke
    BY <1>1, AliveIsStroke DEF TypeOK
  <2>2. QED
    BY <2>1, StrokesAssumption DEF StrokesShaped
<1>2. CASE \E strategy \in Strategies : startStroke(s, strategy)
  <2>1. PICK strategy \in Strategies : startStroke(s, strategy)
    BY <1>2
  <2> DEFINE r == NewStroke(strategy)
  <2>2. strategy \in KisStrokeStrategy
    BY SchedulerAssumption
  <2>3. stroke[s] = NoStroke /\ handed[s] = {}
    BY <2>1 DEF startStroke, StrokesShaped
  <2>4. r \in Stroke /\ Shaped(r, {}) /\ RegularJobs(r) /\ dabsOf(r.jobs) = {}
    BY <2>2, NewShaped, NewStrokeType DEF dabsOf
  <2>5. Cardinality(dabsOf(r.jobs)) = 0
    BY <2>4, FS_EmptySet
  <2> HIDE DEF r
  <2>6. stroke' = [stroke EXCEPT ![s] = r] /\ strokesQueue' = Append(strokesQueue, s)
        /\ UNCHANGED <<needsExclusiveAccess, handed>>
    BY <2>1 DEF startStroke, r
  <2>7. QED
    BY <2>3, <2>4, <2>5, <2>6
<1>3. CASE isAlive(s) /\ ~stroke[s].ended /\ \E job \in stroke[s].strategy.dab : addJob(s, job)
  <2>1. PICK job \in stroke[s].strategy.dab : addJob(s, job)
    BY <1>3
  <2> DEFINE r == strokeAddJob(stroke[s], job)
  <2>2. job \in KisStrokeJob /\ job.kind = "dab" /\ job.body # "populate"
    BY <1>1, <1>3 DEF Stroke, KisStrokeStrategy, RegularJobs, WholeStrategies
  <2>3. r \in Stroke /\ Shaped(r, handed[s]) /\ RegularJobs(r)
        /\ "finish" \notin handed[s] /\ "cancel" \notin handed[s]
    BY <1>1, <1>3, <2>2, DabShaped, AddJobType
  <2>4. Cardinality(dabsOf(r.jobs)) = Cardinality(dabsOf(stroke[s].jobs)) + 1
    BY <1>1, <1>3, <2>2, AddCounts
  <2> HIDE DEF r
  <2>5. stroke' = [stroke EXCEPT ![s] = r] /\ strokesQueue' = strokesQueue
        /\ UNCHANGED <<needsExclusiveAccess, handed>>
    BY <2>1 DEF addJob, r
  <2>6. QED
    BY <1>1, <1>3, <2>3, <2>4, <2>5
<1>4. CASE isAlive(s) /\ ~stroke[s].ended /\ endStroke(s)
  <2> DEFINE r == strokeEnd(stroke[s])
  <2>1. r \in Stroke /\ Shaped(r, handed[s]) /\ RegularJobs(r)
        /\ dabsOf(r.jobs) = dabsOf(stroke[s].jobs)
    BY <1>1, <1>4, EndShaped, EndType, EndCounts
  <2> HIDE DEF r
  <2>2. stroke' = [stroke EXCEPT ![s] = r] /\ strokesQueue' = strokesQueue
        /\ UNCHANGED <<needsExclusiveAccess, handed>>
    BY <1>4 DEF endStroke, r
  <2>3. QED
    BY <1>1, <1>4, <2>1, <2>2
<1>5. CASE stroke[s] # NoStroke /\ ~stroke[s].cancelled /\ cancelStroke(s)
  <2>1. CASE ~isAlive(s)
    BY <1>5, <2>1 DEF cancelStroke, strokeVars
  <2>2. CASE isAlive(s)
    <3> DEFINE r == strokeCancel(stroke[s])
    <3>1. r \in Stroke /\ Shaped(r, handed[s]) /\ RegularJobs(r) /\ dabsOf(r.jobs) = {}
      BY <1>1, <1>5, <2>2, CancelShaped, CancelType DEF dabsOf
    <3>2. Cardinality(dabsOf(r.jobs)) = 0
      BY <3>1, FS_EmptySet
    <3> HIDE DEF r
    <3>3. stroke' = [stroke EXCEPT ![s] = r] /\ strokesQueue' = strokesQueue
          /\ UNCHANGED <<needsExclusiveAccess, handed>>
      BY <1>5, <2>2 DEF cancelStroke, r
    <3>4. QED
      BY <1>1, <2>2, <3>1, <3>2, <3>3
  <2>3. QED
    BY <2>1, <2>2
<1>6. CASE "cancel" \in handed[s] /\ addJob(s, DefaultJob("undo", "plain"))
  <2> DEFINE job == DefaultJob("undo", "plain")
             r == strokeAddJob(stroke[s], job)
  <2>1. job \in KisStrokeJob /\ job.kind # "dab"
    BY DEF DefaultJob, KisStrokeJob, JobKinds, Sequentialities, Bodies
  <2>2. isAlive(s)
    BY <1>6 DEF addJob
  <2>3. r \in Stroke /\ Shaped(r, handed[s]) /\ RegularJobs(r)
    BY <1>1, <1>6, <2>1, <2>2, UndoShaped, AddJobType
  <2>4. Cardinality(dabsOf(r.jobs)) = Cardinality(dabsOf(stroke[s].jobs))
    BY <1>1, <2>1, <2>2, AddCounts
  <2> HIDE DEF r
  <2>5. stroke' = [stroke EXCEPT ![s] = r] /\ strokesQueue' = strokesQueue
        /\ UNCHANGED <<needsExclusiveAccess, handed>>
    BY <1>6 DEF addJob, r
  <2>6. QED
    BY <1>1, <2>2, <2>3, <2>4, <2>5
<1>7. QED
  BY <1>2, <1>3, <1>4, <1>5, <1>6 DEF CarefulMethod

\* A job that is started was popped from the head of what remains of the queue.
LEMMA PopStep ==
    ASSUME TypeOK, NEW external \in BOOLEAN, processOneJob(external)
    PROVE  /\ strokesQueue' \in suffixes /\ isRemaining(strokesQueue')
           /\ strokesQueue' # << >>
           /\ LET s == Head(strokesQueue')
                  job == Head(stroke[s].jobs)
              IN  /\ s \in Strokes /\ stroke[s] \in Stroke /\ hasJobs(stroke[s])
                  /\ checkSequentialProperty(s)
                  /\ stroke' = [stroke EXCEPT ![s] = strokePop(stroke[s])]
                  /\ handed' = [handed EXCEPT ![s] = handed[s] \cup {job.kind}]
                  /\ \E n \in Slots :
                         /\ n \notin StrokeJobs
                         /\ StrokeJobs' = StrokeJobs \cup {n}
                         /\ \A i \in StrokeJobs : m_jobs'[i] = m_jobs[i]
                         /\ m_jobs'[n] = STROKE(s, job)
<1>1. PICK queue \in suffixes :
          /\ isRemaining(queue) /\ mayPopJob(queue, external)
          /\ strokesQueue' = queue
          /\ stroke' = [stroke EXCEPT ![Head(queue)] = strokePop(stroke[Head(queue)])]
          /\ handed' = [handed EXCEPT ![Head(queue)] =
                            handed[Head(queue)] \cup {Head(stroke[Head(queue)].jobs).kind}]
          /\ addItem(STROKE(Head(queue), Head(stroke[Head(queue)].jobs)))
  BY DEF processOneJob
<1>2. /\ queue \in Seq(Strokes) /\ queue # << >>
      /\ \A k \in DOMAIN queue : stroke[queue[k]] \in Stroke
  BY <1>1, RemainingType DEF TypeOK, mayPopJob, checkStrokeState
<1>3. Head(queue) \in Strokes /\ stroke[Head(queue)] \in Stroke
  BY <1>2, HeadTailProperties, LenProperties, EmptySeq
<1>4. PICK n \in Slots :
          /\ ~isRunning(n)
          /\ m_jobs' = [m_jobs EXCEPT ![n] =
                            STROKE(Head(queue), Head(stroke[Head(queue)].jobs))]
  BY <1>1 DEF addItem, isSpareThread
<1>5. /\ n \notin StrokeJobs
      /\ StrokeJobs' = StrokeJobs \cup {n}
      /\ \A i \in StrokeJobs : m_jobs'[i] = m_jobs[i]
      /\ m_jobs'[n] = STROKE(Head(queue), Head(stroke[Head(queue)].jobs))
  BY <1>4 DEF TypeOK, ContextTypeOK, isRunning, StrokeJobs, STROKE
<1>6. hasJobs(stroke[Head(queue)]) /\ checkSequentialProperty(Head(queue))
  BY <1>1 DEF mayPopJob, checkStrokeState
<1>7. QED
  BY <1>1, <1>2, <1>3, <1>5, <1>6

\* Every step keeps the shape of the strokes.
LEMMA ShapedStep ==
    ASSUME WholeStrategies, TypeOK, Control, StrokesShaped, [Next]_vars
    PROVE  StrokesShaped'
<1>1. CASE UNCHANGED <<stroke, handed>> /\ (SameJobs \/ EndsJob)
  <2>1. \A i \in StrokeJobs' : i \in StrokeJobs /\ m_jobs'[i] = m_jobs[i]
    BY <1>1 DEF SameJobs, EndsJob
  <2>2. QED
    BY <1>1, <2>1 DEF StrokesShaped
<1>2. ASSUME SameJobs, NEW s \in Strokes, CarefulMethod(s) PROVE StrokesShaped'
  <2>1. CASE UNCHANGED strokeVars
    BY <1>1, <1>2, <2>1 DEF strokeVars
  <2>2. CASE handed' = handed /\ \E r \in Stroke :
                 /\ Shaped(r, handed[s]) /\ RegularJobs(r)
                 /\ stroke' = [stroke EXCEPT ![s] = r]
    BY <1>2, <2>2, ReplaceShaped
  <2>3. QED
    BY <1>2, <2>1, <2>2, MethodReplaces
<1>3. ASSUME NEW external \in BOOLEAN, processOneJob(external) PROVE StrokesShaped'
  <2> DEFINE s == Head(strokesQueue')
             job == Head(stroke[s].jobs)
             q == strokePop(stroke[s])
  <2>1. /\ s \in Strokes /\ stroke[s] \in Stroke /\ hasJobs(stroke[s])
        /\ stroke' = [stroke EXCEPT ![s] = q]
        /\ handed' = [handed EXCEPT ![s] = handed[s] \cup {job.kind}]
        /\ \E n \in Slots :
               /\ n \notin StrokeJobs
               /\ StrokeJobs' = StrokeJobs \cup {n}
               /\ \A i \in StrokeJobs : m_jobs'[i] = m_jobs[i]
               /\ m_jobs'[n] = STROKE(s, job)
    BY <1>3, PopStep
  <2>2. Shaped(stroke[s], handed[s]) /\ RegularJobs(stroke[s])
    BY <2>1, StrokesAssumption DEF StrokesShaped
  <2>3. Shaped(q, handed[s] \cup {job.kind}) /\ RegularJobs(q) /\ Regular(job)
    BY <2>1, <2>2, PopShaped
  <2>4. q \in Stroke
    BY <2>1, PopType DEF hasJobs
  <2> HIDE DEF s, job, q
  <2>5. /\ stroke'[s] = q /\ handed'[s] = handed[s] \cup {job.kind}
        /\ \A u \in Strokes \ {s} : stroke'[u] = stroke[u] /\ handed'[u] = handed[u]
    BY <2>1 DEF TypeOK, StrokesTypeOK
  <2>6. \A u \in Strokes : stroke'[u] = NoStroke => handed'[u] = {}
    BY <2>4, <2>5, StrokesAssumption DEF StrokesShaped
  <2>7. \A u \in Strokes : stroke'[u] # NoStroke =>
            Shaped(stroke'[u], handed'[u]) /\ RegularJobs(stroke'[u])
    BY <2>3, <2>5 DEF StrokesShaped
  <2>8. ASSUME NEW i \in StrokeJobs'
        PROVE  Regular(m_jobs'[i].job) /\ m_jobs'[i].job.kind \in handed'[m_jobs'[i].stroke]
    <3>1. CASE i \in StrokeJobs
      <4>1. m_jobs'[i] = m_jobs[i] /\ m_jobs[i].stroke \in Strokes
        BY <2>1, <3>1 DEF TypeOK, ContextTypeOK, KisUpdateJobItem, StrokeItems, MergeItems,
                          SpontaneousItems, EMPTY, StrokeJobs
      <4>2. handed[m_jobs[i].stroke] \subseteq handed'[m_jobs[i].stroke]
        BY <2>5, <4>1
      <4>3. QED
        BY <3>1, <4>1, <4>2 DEF StrokesShaped
    <3>2. CASE m_jobs'[i] = STROKE(s, job)
      BY <2>3, <2>5, <3>2 DEF STROKE
    <3>3. QED
      BY <2>1, <2>8, <3>1, <3>2
  <2>9. QED
    BY <2>6, <2>7, <2>8 DEF StrokesShaped
<1>4. QED
  BY <1>1, <1>2, <1>3, LifecycleSteps DEF processNoJob, strokeVars

(***************************************************************************)
(* The lifecycle.                                                          *)
(***************************************************************************)
\* How many dabs of a stroke wait, when it is replaced.
LEMMA ReplaceAsked ==
    ASSUME TypeOK, NEW s \in Strokes, NEW r \in Stroke,
           stroke' = [stroke EXCEPT ![s] = r]
    PROVE  dabsAsked' = [dabsAsked EXCEPT ![s] = Cardinality(dabsOf(r.jobs))]
<1>1. stroke'[s] = r /\ \A u \in Strokes \ {s} : stroke'[u] = stroke[u]
  BY DEF TypeOK, StrokesTypeOK
<1>2. r # NoStroke
  BY StrokesAssumption
<1> DEFINE count(u) == IF stroke[u] = NoStroke THEN 0 ELSE Cardinality(dabsOf(stroke[u].jobs))
<1>3. dabsAsked' = [u \in Strokes |-> IF u = s THEN Cardinality(dabsOf(r.jobs)) ELSE count(u)]
  BY <1>1, <1>2 DEF dabsAsked
<1>4. dabsAsked = [u \in Strokes |-> count(u)]
  BY DEF dabsAsked
<1> HIDE DEF count
<1>5. QED
  BY <1>3, <1>4

\* The stroke jobs can be counted.
LEMMA StrokeJobsFinite == IsFiniteSet(StrokeJobs) /\ Cardinality(StrokeJobs) \in Nat
<1>1. StrokeJobs \subseteq 1..NumThreads
  BY DEF StrokeJobs, Slots
<1>2. IsFiniteSet(1..NumThreads)
  BY ContextAssumption, FS_Interval
<1>3. QED
  BY <1>1, <1>2, FS_Subset, FS_CardinalityType

\* While the stroke jobs are the same, so is what the lifecycle sees of them.
LEMMA SameJobsSeen ==
    ASSUME SameJobs
    PROVE  strokeJobsRunning' = strokeJobsRunning /\ sequentialRunning' = sequentialRunning
<1>1. strokeJobsRunning' = strokeJobsRunning
  BY DEF SameJobs, strokeJobsRunning
<1>2. sequentialRunning' = sequentialRunning
  BY DEF SameJobs, sequentialRunning
<1>3. QED
  BY <1>1, <1>2

\* A job that ends completes one.
LEMMA EndsJobCompletes ==
    ASSUME SequentialAlone, UNCHANGED strokeVars, EndsJob
    PROVE  Lifecycle!Complete
<1>1. PICK n \in StrokeJobs :
          StrokeJobs' = StrokeJobs \ {n} /\ \A i \in StrokeJobs' : m_jobs'[i] = m_jobs[i]
  BY DEF EndsJob
<1>2. Cardinality(StrokeJobs \ {n}) = Cardinality(StrokeJobs) - 1
      /\ Cardinality(StrokeJobs \ {n}) \in Nat
  BY <1>1, StrokeJobsFinite, FS_RemoveElement, FS_CardinalityType
<1>3. strokeJobsRunning' = strokeJobsRunning - 1 /\ strokeJobsRunning > 0
  BY <1>1, <1>2, StrokeJobsFinite DEF strokeJobsRunning
<1>4. sequentialRunning' = FALSE
  BY <1>1 DEF sequentialRunning, SequentialAlone
<1>5. strokesQueue' = strokesQueue /\ dabsAsked' = dabsAsked /\ handed' = handed
  BY DEF strokeVars, dabsAsked
<1>6. QED
  BY <1>3, <1>4, <1>5 DEF Lifecycle!Complete

\* A stroke that has nothing left to do has not begun, or is closed.
LEMMA FinishedSettled ==
    ASSUME NEW r \in Stroke, NEW h, Shaped(r, h), r.ended, r.jobs = << >>
    PROVE  h = {} \/ "finish" \in h \/ "cancel" \in h
<1>1. Len(r.jobs) = 0
  BY EmptySeq
<1>2. QED
  BY <1>1 DEF Shaped, Fresh, Painting, HasDabs, Finished, Dropped, Cancelling, Cancelled

\* The strokes that checkStrokeState() dequeues are settled, and no job runs.
LEMMA RemainingGivesUp ==
    ASSUME TypeOK, StrokesShaped, strokesQueue' \in suffixes, isRemaining(strokesQueue')
    PROVE  Lifecycle!GivesUp(strokesQueue')
<1> DEFINE n == Len(strokesQueue)
<1>1. strokesQueue \in Seq(Strokes) /\ n \in Nat /\ DOMAIN strokesQueue = 1..n
      /\ \A k \in DOMAIN strokesQueue : stroke[strokesQueue[k]] \in Stroke
  BY LenProperties DEF TypeOK, StrokesTypeOK
<1>2. PICK m \in 1..(n + 1) : strokesQueue' = SubSeq(strokesQueue, m, n)
  BY DEF suffixes
<1>3. Len(strokesQueue') = n - m + 1
  <2>1. Len(SubSeq(strokesQueue, m, n)) = IF m <= n THEN n - m + 1 ELSE 0
    BY <1>1, <1>2, SubSeqProperties
  <2>2. QED
    BY <1>1, <1>2, <2>1
<1>4. m - 1 \in 0..n /\ (m - 1) + 1 = m
  BY <1>1, <1>2
<1>5. m - 1 > 0 => strokeJobsRunning = 0
  <2>1. CASE StrokeJobs = {}
    BY <2>1, FS_EmptySet DEF strokeJobsRunning
  <2>2. CASE StrokeJobs # {}
    <3>1. strokesQueue' = strokesQueue
      BY <2>2 DEF isRemaining
    <3>2. QED
      BY <1>1, <1>2, <1>3, <3>1
  <2>3. QED
    BY <2>1, <2>2
<1>6. ASSUME NEW j \in 1..(m - 1) PROVE Lifecycle!Settled(strokesQueue[j])
  <2> DEFINE s == strokesQueue[j]
  <2>1. StrokeJobs = {}
    <3>1. StrokeJobs # {} => strokesQueue' = strokesQueue
      BY DEF isRemaining
    <3>2. QED
      BY <1>1, <1>2, <1>3, <1>6, <3>1
  <2>2. j \in 1..(n - Len(strokesQueue')) /\ j \in DOMAIN strokesQueue
    BY <1>1, <1>2, <1>3, <1>6
  <2>3. isFinished(s)
    BY <2>1, <2>2 DEF isRemaining
  <2>4. s \in Strokes /\ stroke[s] \in Stroke
    BY <1>1, <2>2
  <2>5. handed[s] = {} \/ "finish" \in handed[s] \/ "cancel" \in handed[s]
    BY <2>3, <2>4, StrokesAssumption, FinishedSettled DEF isFinished, hasJobs, StrokesShaped
  <2>6. QED
    BY <2>5 DEF Lifecycle!Settled, Lifecycle!Closed
<1>7. QED
  BY <1>2, <1>4, <1>5, <1>6 DEF Lifecycle!GivesUp

\* The methods open a stroke, ask for a dab, give dabs up or are not seen.
LEMMA MethodImplements ==
    ASSUME WholeStrategies, TypeOK, StrokesShaped, SameJobs,
           NEW s \in Strokes, CarefulMethod(s)
    PROVE  [Lifecycle!Next]_(Lifecycle!vars)
<1>1. strokeJobsRunning' = strokeJobsRunning /\ sequentialRunning' = sequentialRunning
  BY SameJobsSeen
<1>2. CASE UNCHANGED strokeVars
  BY <1>1, <1>2 DEF strokeVars, dabsAsked, Lifecycle!vars
<1>3. ASSUME NEW r \in Stroke, stroke' = [stroke EXCEPT ![s] = r], handed' = handed,
             \/ /\ stroke[s] = NoStroke /\ handed[s] = {}
                /\ Cardinality(dabsOf(r.jobs)) = 0
                /\ strokesQueue' = Append(strokesQueue, s)
             \/ /\ isAlive(s) /\ stroke[s] \in Stroke /\ strokesQueue' = strokesQueue
                /\ "finish" \notin handed[s] /\ "cancel" \notin handed[s]
                /\ Cardinality(dabsOf(r.jobs)) = Cardinality(dabsOf(stroke[s].jobs)) + 1
             \/ /\ isAlive(s) /\ stroke[s] \in Stroke /\ strokesQueue' = strokesQueue
                /\ Cardinality(dabsOf(r.jobs)) = Cardinality(dabsOf(stroke[s].jobs))
             \/ /\ isAlive(s) /\ stroke[s] \in Stroke /\ strokesQueue' = strokesQueue
                /\ Cardinality(dabsOf(r.jobs)) = 0
      PROVE  [Lifecycle!Next]_(Lifecycle!vars)
  <2> DEFINE count == Cardinality(dabsOf(r.jobs))
  <2>1. dabsAsked' = [dabsAsked EXCEPT ![s] = count]
    BY <1>3, ReplaceAsked
  <2>2. /\ dabsAsked \in [Strokes -> Nat]
        /\ stroke[s] = NoStroke => dabsAsked[s] = 0
        /\ stroke[s] \in Stroke => dabsAsked[s] = Cardinality(dabsOf(stroke[s].jobs))
    <3>1. \A u \in Strokes : stroke[u] # NoStroke => Cardinality(dabsOf(stroke[u].jobs)) \in Nat
      BY DabsFinite DEF TypeOK, StrokesTypeOK
    <3>2. QED
      BY <3>1, StrokesAssumption DEF dabsAsked
  <2> HIDE DEF count
  <2>3. CASE stroke[s] = NoStroke /\ handed[s] = {} /\ count = 0
             /\ strokesQueue' = Append(strokesQueue, s)
    <3>1. ~\E k \in DOMAIN strokesQueue : strokesQueue[k] = s
      BY <2>3, StrokesAssumption DEF TypeOK, StrokesTypeOK
    <3>2. dabsAsked' = dabsAsked
      BY <2>1, <2>2, <2>3
    <3>3. Lifecycle!Open(s)
      BY <1>1, <1>3, <2>3, <3>1, <3>2 DEF Lifecycle!Open, Lifecycle!IsOpen
    <3>4. QED
      BY <3>3 DEF Lifecycle!Next
  <2>4. CASE /\ isAlive(s) /\ stroke[s] \in Stroke /\ strokesQueue' = strokesQueue
             /\ "finish" \notin handed[s] /\ "cancel" \notin handed[s]
             /\ count = Cardinality(dabsOf(stroke[s].jobs)) + 1
    <3>1. dabsAsked' = [dabsAsked EXCEPT ![s] = dabsAsked[s] + 1]
      BY <2>1, <2>2, <2>4
    <3>2. Lifecycle!Ask(s)
      BY <1>1, <1>3, <2>4, <3>1 DEF Lifecycle!Ask, Lifecycle!IsOpen, Lifecycle!Closed, isAlive
    <3>3. QED
      BY <3>2 DEF Lifecycle!Next
  <2>5. CASE /\ stroke[s] \in Stroke /\ strokesQueue' = strokesQueue
             /\ count = Cardinality(dabsOf(stroke[s].jobs))
    <3>1. dabsAsked' = dabsAsked
      BY <2>1, <2>2, <2>5
    <3>2. QED
      BY <1>1, <1>3, <2>5, <3>1 DEF Lifecycle!vars
  <2>6. CASE /\ isAlive(s) /\ strokesQueue' = strokesQueue /\ count = 0
    <3>1. Lifecycle!GiveUpDabs(s)
      BY <1>1, <1>3, <2>1, <2>6 DEF Lifecycle!GiveUpDabs, Lifecycle!IsOpen, isAlive
    <3>2. QED
      BY <3>1 DEF Lifecycle!Next
  <2>7. QED
    BY <1>3, <2>3, <2>4, <2>5, <2>6 DEF count
<1>4. QED
  BY <1>2, <1>3, MethodReplaces

\* A job that is started begins, in its order.
LEMMA PopImplements ==
    ASSUME TypeOK, StrokesShaped, RunningStrokeIsHead, SequentialNoted,
           NEW external \in BOOLEAN, processOneJob(external)
    PROVE  Lifecycle!Next
<1> DEFINE s == Head(strokesQueue')
           job == Head(stroke[s].jobs)
           h == handed[s]
           count == Cardinality(dabsOf(stroke[s].jobs))
           q == strokePop(stroke[s])
<1>1. /\ strokesQueue' \in suffixes /\ isRemaining(strokesQueue') /\ strokesQueue' # << >>
      /\ s \in Strokes /\ stroke[s] \in Stroke /\ hasJobs(stroke[s])
      /\ checkSequentialProperty(s)
      /\ stroke' = [stroke EXCEPT ![s] = q]
      /\ handed' = [handed EXCEPT ![s] = h \cup {job.kind}]
  BY PopStep
<1>2. PICK n \in Slots :
          /\ n \notin StrokeJobs
          /\ StrokeJobs' = StrokeJobs \cup {n}
          /\ \A i \in StrokeJobs : m_jobs'[i] = m_jobs[i]
          /\ m_jobs'[n] = STROKE(s, job)
  BY PopStep
<1>3. Shaped(stroke[s], h) /\ RegularJobs(stroke[s])
  BY <1>1, StrokesAssumption DEF StrokesShaped
<1>4. Regular(job) /\ job \in KisStrokeJob /\ q \in Stroke
  BY <1>1, <1>3, PopShaped, PopType DEF hasJobs
<1>5. \/ job.kind = "init" /\ h = {}
      \/ job.kind = "dab" /\ "init" \in h /\ ~("finish" \in h \/ "cancel" \in h)
         /\ 1 \in dabsOf(stroke[s].jobs)
      \/ job.kind = "finish" /\ "init" \in h /\ ~("finish" \in h \/ "cancel" \in h)
         /\ dabsOf(stroke[s].jobs) = {}
      \/ job.kind = "cancel" /\ "init" \in h /\ ~("finish" \in h \/ "cancel" \in h)
      \/ job.kind = "undo" /\ "cancel" \in h
  BY <1>1, <1>3, HandsOutInOrder
<1>6. Cardinality(dabsOf(q.jobs)) = IF job.kind = "dab" THEN count - 1 ELSE count
  BY <1>1, PopCounts
<1>7. /\ count \in Nat
      /\ 1 \in dabsOf(stroke[s].jobs) => count > 0
      /\ dabsOf(stroke[s].jobs) = {} => count = 0
  BY <1>1, DabsFinite, FS_EmptySet
<1>8. job.kind \in {"init", "dab", "finish", "cancel", "undo"}
  BY <1>4 DEF KisStrokeJob, JobKinds
<1>9. isSequential(job) => StrokeJobs = {}
  BY <1>1 DEF checkSequentialProperty, nextJobSequential
<1>10. \A i \in StrokeJobs : ~isSequential(m_jobs[i].job)
  <2>1. StrokeJobs # {} => strokesQueue' = strokesQueue
    BY <1>1 DEF isRemaining
  <2>2. \A i \in StrokeJobs : m_jobs[i].stroke = s
    BY <2>1 DEF RunningStrokeIsHead
  <2>3. QED
    BY <1>1, <2>2 DEF checkSequentialProperty, SequentialNoted
<1>11. dabsAsked[s] = count /\ dabsAsked \in [Strokes -> Nat]
  <2>1. \A u \in Strokes : stroke[u] # NoStroke => Cardinality(dabsOf(stroke[u].jobs)) \in Nat
    BY DabsFinite DEF TypeOK, StrokesTypeOK
  <2>2. QED
    BY <1>1, <2>1, StrokesAssumption DEF dabsAsked
<1>12. dabsAsked' = [dabsAsked EXCEPT ![s] = IF job.kind = "dab" THEN count - 1 ELSE count]
  BY <1>1, <1>4, <1>6, ReplaceAsked
<1> HIDE DEF s, job, q, count
<1>13. Lifecycle!MayBegin(s, job.kind)
  BY <1>5, <1>7, <1>11 DEF Lifecycle!MayBegin, Lifecycle!Closed, h
<1>14. handed' = [handed EXCEPT ![s] = @ \cup {job.kind}]
  BY <1>1
<1>15. dabsAsked' = IF job.kind = "dab" THEN [dabsAsked EXCEPT ![s] = @ - 1] ELSE dabsAsked
  BY <1>7, <1>11, <1>12
<1>16. strokeJobsRunning' = strokeJobsRunning + 1
  BY <1>2, StrokeJobsFinite, FS_AddElement DEF strokeJobsRunning
<1>17. sequentialRunning' = isSequential(job)
  <2>1. \A i \in StrokeJobs' : isSequential(m_jobs'[i].job) => i = n
    BY <1>2, <1>10
  <2>2. n \in StrokeJobs' /\ m_jobs'[n].job = job
    BY <1>2 DEF STROKE
  <2>3. (\E i \in StrokeJobs' : isSequential(m_jobs'[i].job)) <=> isSequential(job)
    BY <2>1, <2>2
  <2>4. QED
    BY <2>3, Zenon DEF sequentialRunning, isSequential
<1>18. ~sequentialRunning
  BY <1>10 DEF sequentialRunning
<1>19. isSequential(job) => strokeJobsRunning = 0
  BY <1>9, FS_EmptySet DEF strokeJobsRunning
<1>20. job.kind # "dab" => isSequential(job)
  BY <1>4 DEF Regular
<1>21. Lifecycle!GivesUp(strokesQueue')
  BY <1>1, RemainingGivesUp
<1>22. Lifecycle!Begin(job.kind, isSequential(job))
  BY <1>1, <1>13, <1>14, <1>15, <1>16, <1>17, <1>18, <1>19, <1>20, <1>21
     DEF Lifecycle!Begin, s
<1>23. isSequential(job) \in BOOLEAN
  BY DEF isSequential
<1>24. QED
  BY <1>8, <1>22, <1>23 DEF Lifecycle!Next

\* Every step of the scheduler is a step of the lifecycle, or none.
LEMMA LifecycleStep ==
    ASSUME WholeStrategies, TypeOK, Control, StrokesShaped, RunningStrokeIsHead,
           SequentialNoted, SequentialAlone, [Next]_vars
    PROVE  [Lifecycle!Next]_(Lifecycle!vars)
<1>1. CASE UNCHANGED strokeVars /\ SameJobs
  BY <1>1, SameJobsSeen DEF strokeVars, dabsAsked, Lifecycle!vars
<1>2. CASE UNCHANGED strokeVars /\ EndsJob
  BY <1>2, EndsJobCompletes DEF Lifecycle!Next
<1>3. CASE SameJobs /\ \E s \in Strokes : CarefulMethod(s)
  BY <1>3, MethodImplements
<1>4. ASSUME NEW external \in BOOLEAN, processOneJob(external)
      PROVE  Lifecycle!Next
  BY <1>4, PopImplements
<1>5. ASSUME NEW external \in BOOLEAN, processNoJob(external), SameJobs
      PROVE  [Lifecycle!Next]_(Lifecycle!vars)
  <2>1. UNCHANGED <<dabsAsked, handed, strokeJobsRunning, sequentialRunning>>
    BY <1>5, SameJobsSeen DEF processNoJob, dabsAsked
  <2>2. CASE UNCHANGED strokesQueue
    BY <2>1, <2>2 DEF Lifecycle!vars
  <2>3. CASE strokesQueue' \in suffixes /\ isRemaining(strokesQueue')
    BY <2>1, <2>3, RemainingGivesUp DEF Lifecycle!Retire, Lifecycle!Next
  <2>4. QED
    BY <1>5, <2>2, <2>3 DEF processNoJob
<1>6. QED
  BY <1>1, <1>2, <1>3, <1>4, <1>5, LifecycleSteps

\* The scheduler begins where the lifecycle does.
LEMMA LifecycleInit == Init => Lifecycle!Init
<1>1. Init => StrokeJobs = {}
  BY DEF Init, ContextInit, EMPTY, StrokeJobs
<1>2. Init => strokeJobsRunning = 0 /\ sequentialRunning = FALSE
  BY <1>1, FS_EmptySet DEF strokeJobsRunning, sequentialRunning
<1>3. Init => dabsAsked = [s \in Strokes |-> 0]
  BY DEF Init, StrokesInit, dabsAsked
<1>4. QED
  BY <1>2, <1>3 DEF Init, StrokesInit, Lifecycle!Init

\* Which jobs a stroke has left is known from the kinds it has handed out.
LEMMA ShapesKept == ASSUME WholeStrategies PROVE Spec => []StrokesShaped
<1>1. Init => StrokesShaped
  BY DEF Init, ContextInit, StrokesInit, EMPTY, StrokesShaped, StrokeJobs
<1>2. TypeOK /\ Control /\ StrokesShaped /\ [Next]_vars => StrokesShaped'
  BY ShapedStep
<1>3. QED
  BY <1>1, <1>2, TypeCorrect, ControlCorrect, PTL DEF Spec

\* The scheduler, its slots, workers and locks implement the lifecycle of
\* strokes: init first, every dab before finish, finish or cancel but not both,
\* one stroke after the other, sequential jobs alone.
THEOREM LifecycleImplemented == ASSUME WholeStrategies PROVE Spec => StrokesKeepLifecycle
<1>1. Init => Lifecycle!Init
  BY LifecycleInit
<1>2. TypeOK /\ Control /\ StrokesShaped /\ RunningStrokeIsHead /\ SequentialNoted
        /\ SequentialAlone /\ [Next]_vars => [Lifecycle!Next]_(Lifecycle!vars)
  BY LifecycleStep
<1>3. Spec => []StrokesShaped
  BY ShapesKept
<1>4. QED
  BY <1>1, <1>2, <1>3, TypeCorrect, ControlCorrect, HeadOwnsJobs, SequentialKnown, PTL
     DEF Spec, StrokesKeepLifecycle, Lifecycle!Spec

=============================================================================
