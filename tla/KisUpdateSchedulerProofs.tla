------------------------ MODULE KisUpdateSchedulerProofs ------------------------
(***************************************************************************)
(* Safety of the update scheduler, for every number of clients, workers,   *)
(* slots, strokes and areas: a reused slot has one runner, the counters of *)
(* blockUpdates() do not drift, and blocked updates stay blocked.          *)
(*                                                                         *)
(* All of it rests on the types of queues, slots and strokes, which come   *)
(* first, and on where a thread can be and where it will return to.        *)
(***************************************************************************)
EXTENDS KisUpdateScheduler, SequenceTheorems, FiniteSetTheorems, TLAPS

-------------------------------------------------------------------------------
(***************************************************************************)
(* Sequences.                                                              *)
(***************************************************************************)
\* A queue without one of its entries is a queue.
LEMMA WithoutType ==
    ASSUME NEW S, NEW list \in Seq(S), NEW k \in DOMAIN list
    PROVE  Without(list, k) \in Seq(S)
<1>1. SubSeq(list, 1, k - 1) \in Seq(S) /\ SubSeq(list, k + 1, Len(list)) \in Seq(S)
  BY SubSeqProperties, LenProperties
<1>2. QED
  BY <1>1, ConcatProperties DEF Without

\* Every suffix that may remain of the strokes queue is a sequence of strokes.
LEMMA SuffixType ==
    ASSUME strokesQueue \in Seq(Strokes), NEW queue \in suffixes
    PROVE  queue \in Seq(Strokes)
<1>1. PICK k \in 1..(Len(strokesQueue) + 1) :
          queue = SubSeq(strokesQueue, k, Len(strokesQueue))
  BY DEF suffixes
<1>2. QED
  BY <1>1, SubSeqProperties, LenProperties

(***************************************************************************)
(* Strokes: what the methods of KisStroke make of a stroke is a stroke.    *)
(***************************************************************************)
\* A new stroke has its init job at most.
LEMMA NewStrokeType ==
    ASSUME NEW strategy \in KisStrokeStrategy
    PROVE  NewStroke(strategy) \in Stroke
  BY DEF NewStroke, Stroke, KisStrokeStrategy

\* addJob() keeps a stroke a stroke.
LEMMA AddJobType ==
    ASSUME NEW st \in Stroke, NEW job \in KisStrokeJob
    PROVE  strokeAddJob(st, job) \in Stroke
<1>1. Append(st.jobs, job) \in Seq(KisStrokeJob)
  BY AppendProperties DEF Stroke
<1>2. QED
  BY <1>1 DEF strokeAddJob, Stroke

\* So does endStroke().
LEMMA EndType ==
    ASSUME NEW st \in Stroke
    PROVE  strokeEnd(st) \in Stroke
<1>1. st.jobs \o st.strategy.finish \in Seq(KisStrokeJob)
  BY ConcatProperties DEF Stroke, KisStrokeStrategy
<1>2. QED
  BY <1>1 DEF strokeEnd, Stroke

\* So does cancelStroke().
LEMMA CancelType ==
    ASSUME NEW st \in Stroke
    PROVE  strokeCancel(st) \in Stroke
<1> DEFINE left == IF st.initialized /\ (hasJobs(st) \/ ~st.ended)
                   THEN st.strategy.cancel ELSE << >>
<1>1. left \in Seq(KisStrokeJob)
  BY EmptySeq DEF Stroke, KisStrokeStrategy
<1>2. strokeCancel(st) = [st EXCEPT !.jobs = left, !.cancelled = TRUE, !.ended = TRUE]
  BY DEF strokeCancel
<1> HIDE DEF left
<1>3. QED
  BY <1>1, <1>2 DEF Stroke

\* A stroke with a job to pop pops a job and stays a stroke.
LEMMA PopType ==
    ASSUME NEW st \in Stroke, st.jobs # << >>
    PROVE  Head(st.jobs) \in KisStrokeJob /\ strokePop(st) \in Stroke
<1>1. Head(st.jobs) \in KisStrokeJob /\ Tail(st.jobs) \in Seq(KisStrokeJob)
  BY HeadTailProperties DEF Stroke
<1>2. QED
  BY <1>1 DEF strokePop, Stroke, isSequential

(***************************************************************************)
(* Groups of variables.                                                    *)
(***************************************************************************)
\* A group of variables that a step leaves alone keeps its type.
LEMMA ContextStable == ContextTypeOK /\ UNCHANGED contextVars => ContextTypeOK'
  BY DEF ContextTypeOK, contextVars

\* The same for the strokes queue.
LEMMA StrokesStable == StrokesTypeOK /\ UNCHANGED strokeVars => StrokesTypeOK'
  BY DEF StrokesTypeOK, strokeVars

\* The same for the lazy wait condition.
LEMMA ConditionStable ==
    ConditionTypeOK /\ sleepers \subseteq Threads /\ UNCHANGED conditionVars
        => ConditionTypeOK' /\ sleepers' \subseteq Threads
  BY DEF ConditionTypeOK, conditionVars

\* The same for the updates queue.
LEMMA QueuesStable == QueuesTypeOK /\ UNCHANGED queueVars => QueuesTypeOK'
  BY DEF QueuesTypeOK, queueVars

\* The same for the flags of the scheduler.
LEMMA FlagsStable == FlagsTypeOK /\ UNCHANGED flagVars => FlagsTypeOK'
  BY DEF FlagsTypeOK, flagVars

\* The same for the threads' places.
LEMMA ThreadsStable == ThreadsTypeOK /\ UNCHANGED threadVars => ThreadsTypeOK'
  BY DEF ThreadsTypeOK, threadVars

\* A step that only moves a thread on keeps the types of the other groups.
LEMMA OnlyControlType ==
    ASSUME TypeOK, OnlyControl, ThreadsTypeOK'
    PROVE  TypeOK'
  BY ContextStable, StrokesStable, ConditionStable, QueuesStable, FlagsStable
     DEF TypeOK, OnlyControl

\* Moving a thread to a label keeps the types of the program counters.
LEMMA GotoType ==
    ASSUME ThreadsTypeOK, NEW t \in Threads, NEW label \in Labels, Goto(t, label)
    PROVE  ThreadsTypeOK'
  BY DEF ThreadsTypeOK, Goto

\* So does entering a method with a place to return to.
LEMMA CallType ==
    ASSUME ThreadsTypeOK, NEW t \in Threads, NEW label \in Labels, NEW r \in Labels,
           Call(t, label, r)
    PROVE  ThreadsTypeOK'
  BY DEF ThreadsTypeOK, Call

\* So does returning from it.
LEMMA ReturnType ==
    ASSUME ThreadsTypeOK, NEW t \in Threads, Return(t)
    PROVE  ThreadsTypeOK'
<1>1. "idle" \in Labels
  BY DEF Labels
<1>2. QED
  BY <1>1 DEF ThreadsTypeOK, Return

(***************************************************************************)
(* Slots.                                                                  *)
(***************************************************************************)
\* The empty item is a job item.
LEMMA EmptyType == EMPTY \in KisUpdateJobItem
  BY DEF KisUpdateJobItem

\* So is a merge of an area, setWalker().
LEMMA MergeType == ASSUME NEW area \in Areas PROVE MERGE(area) \in KisUpdateJobItem
  BY DEF KisUpdateJobItem, MERGE, MergeItems

\* So is a job of a stroke, setStrokeJob().
LEMMA StrokeItemType ==
    ASSUME NEW s \in Strokes, NEW job \in KisStrokeJob
    PROVE  STROKE(s, job) \in KisUpdateJobItem
  BY DEF KisUpdateJobItem, STROKE, StrokeItems

\* So is a spontaneous job, setSpontaneousJob().
LEMMA SpontaneousType ==
    ASSUME NEW kind \in Spontaneous
    PROVE  SPONTANEOUS(kind) \in KisUpdateJobItem
  BY DEF KisUpdateJobItem, SPONTANEOUS, SpontaneousItems

\* A slot that is given a job, taken, emptied or left is still a slot.
LEMMA AddItemType ==
    ASSUME ContextTypeOK, NEW item \in KisUpdateJobItem, addItem(item)
    PROVE  ContextTypeOK'
  BY DEF ContextTypeOK, addItem

\* A slot taken by a worker: the worker is on a slot that exists.
LEMMA TakeType ==
    ASSUME ContextTypeOK, NEW w \in Workers, NEW i \in Slots, take(w, i)
    PROVE  ContextTypeOK'
  BY DEF ContextTypeOK, take

\* A slot emptied by setDone().
LEMMA SetDoneType ==
    ASSUME ContextTypeOK, NEW w \in Workers, setDone(w)
    PROVE  ContextTypeOK'
  BY EmptyType DEF ContextTypeOK, setDone

\* A worker that leaves run() is on no slot.
LEMMA LeaveRunType ==
    ASSUME ContextTypeOK, NEW w \in Workers, leaveRun(w)
    PROVE  ContextTypeOK'
  BY DEF ContextTypeOK, leaveRun

(***************************************************************************)
(* The queues.                                                             *)
(***************************************************************************)
\* An area that is appended to the updates is an area.
LEMMA AddUpdateType ==
    ASSUME QueuesTypeOK, NEW area \in Areas, addUpdateJob(area)
    PROVE  QueuesTypeOK'
<1>1. Append(updatesList, area) \in Seq(Areas)
  BY AppendProperties DEF QueuesTypeOK
<1>2. QED
  BY <1>1 DEF QueuesTypeOK, addUpdateJob

\* A spontaneous job is appended or takes the place of another of its kind.
LEMMA AddSpontaneousType ==
    ASSUME QueuesTypeOK, NEW kind \in Spontaneous, addSpontaneous(kind)
    PROVE  QueuesTypeOK'
<1> USE DEF QueuesTypeOK
<1>1. Append(spontaneousJobsList, kind) \in Seq(Spontaneous)
  BY AppendProperties
<1> DEFINE overridden == \E k \in DOMAIN spontaneousJobsList : spontaneousJobsList[k] = kind
           at == CHOOSE j \in DOMAIN spontaneousJobsList : spontaneousJobsList[j] = kind
<1>2. ASSUME overridden
      PROVE  Append(Without(spontaneousJobsList, at), kind) \in Seq(Spontaneous)
  <2>1. at \in DOMAIN spontaneousJobsList
    BY <1>2
  <2> HIDE DEF at
  <2>2. Without(spontaneousJobsList, at) \in Seq(Spontaneous)
    BY <2>1, WithoutType
  <2>3. QED
    BY <2>2, AppendProperties
<1>3. QED
  BY <1>1, <1>2 DEF addSpontaneous

\* The walker that processOneJob() starts leaves the list and fills a slot.
LEMMA StartWalkerType ==
    ASSUME ContextTypeOK, QueuesTypeOK, startWalker
    PROVE  ContextTypeOK' /\ QueuesTypeOK'
<1>1. PICK k \in DOMAIN updatesList :
          /\ addItem(MERGE(updatesList[k]))
          /\ updatesList' = Without(updatesList, k)
          /\ UNCHANGED spontaneousJobsList
  BY DEF startWalker
<1>2. updatesList[k] \in Areas
  BY ElementOfSeq, LenProperties DEF QueuesTypeOK
<1>3. ContextTypeOK'
  BY <1>1, <1>2, MergeType, AddItemType
<1>4. QED
  BY <1>1, <1>3, WithoutType DEF QueuesTypeOK

\* So does the first spontaneous job.
LEMMA StartSpontaneousType ==
    ASSUME ContextTypeOK, QueuesTypeOK, startSpontaneous
    PROVE  ContextTypeOK' /\ QueuesTypeOK'
<1>1. /\ Head(spontaneousJobsList) \in Spontaneous
      /\ Tail(spontaneousJobsList) \in Seq(Spontaneous)
  BY HeadTailProperties DEF QueuesTypeOK, startSpontaneous
<1>2. ContextTypeOK'
  BY <1>1, SpontaneousType, AddItemType DEF startSpontaneous
<1>3. QED
  BY <1>1, <1>2 DEF QueuesTypeOK, startSpontaneous

\* The four public methods of the strokes queue.
LEMMA StartStrokeType ==
    ASSUME StrokesTypeOK, NEW s \in Strokes, NEW strategy \in KisStrokeStrategy,
           startStroke(s, strategy)
    PROVE  StrokesTypeOK'
<1> DEFINE queue == Append(strokesQueue, s)
<1>1. queue \in Seq(Strokes)
  BY AppendProperties DEF StrokesTypeOK
<1>2. stroke' = [stroke EXCEPT ![s] = NewStroke(strategy)] /\ strokesQueue' = queue
  BY DEF startStroke
<1>3. NewStroke(strategy) \in Stroke
  BY NewStrokeType
<1>4. ASSUME NEW k \in DOMAIN queue
      PROVE  stroke'[queue[k]] \in Stroke
  <2>1. queue[k] = s \/ (k \in DOMAIN strokesQueue /\ queue[k] = strokesQueue[k])
    BY AppendProperties, LenProperties DEF StrokesTypeOK
  <2>2. queue[k] \in Strokes
    BY <1>1, ElementOfSeq, LenProperties
  <2> HIDE DEF queue
  <2>3. QED
    BY <1>2, <1>3, <2>1, <2>2 DEF StrokesTypeOK
<1> HIDE DEF queue
<1>5. stroke' \in [Strokes -> Stroke \cup {NoStroke}]
  BY <1>2, <1>3 DEF StrokesTypeOK
<1>6. QED
  BY <1>1, <1>2, <1>4, <1>5 DEF StrokesTypeOK, startStroke

\* A stroke in the queue that is replaced by a stroke.
LEMMA UpdateStrokeType ==
    ASSUME StrokesTypeOK, NEW s \in Strokes, NEW st \in Stroke,
           stroke' = [stroke EXCEPT ![s] = st],
           UNCHANGED <<strokesQueue, needsExclusiveAccess, handed>>
    PROVE  StrokesTypeOK'
<1>1. \A k \in DOMAIN strokesQueue : strokesQueue[k] \in Strokes
  BY ElementOfSeq, LenProperties DEF StrokesTypeOK
<1>2. QED
  BY <1>1 DEF StrokesTypeOK

\* The identity of a stroke that is alive leads to a stroke.
LEMMA AliveIsStroke ==
    ASSUME StrokesTypeOK, NEW s \in Strokes, isAlive(s)
    PROVE  stroke[s] \in Stroke
  BY DEF StrokesTypeOK, isAlive

\* addJob() on the queue.
LEMMA AddJobKeepsType ==
    ASSUME StrokesTypeOK, NEW s \in Strokes, NEW job \in KisStrokeJob, addJob(s, job)
    PROVE  StrokesTypeOK'
<1>1. strokeAddJob(stroke[s], job) \in Stroke
  BY AliveIsStroke, AddJobType DEF addJob
<1>2. stroke' = [stroke EXCEPT ![s] = strokeAddJob(stroke[s], job)]
  BY DEF addJob
<1>3. QED
  BY <1>1, <1>2, UpdateStrokeType DEF addJob

\* endStroke() on the queue.
LEMMA EndStrokeType ==
    ASSUME StrokesTypeOK, NEW s \in Strokes, endStroke(s)
    PROVE  StrokesTypeOK'
<1>1. strokeEnd(stroke[s]) \in Stroke
  BY AliveIsStroke, EndType DEF endStroke
<1>2. stroke' = [stroke EXCEPT ![s] = strokeEnd(stroke[s])]
  BY DEF endStroke
<1>3. QED
  BY <1>1, <1>2, UpdateStrokeType DEF endStroke

\* cancelStroke() on the queue, alive or not.
LEMMA CancelStrokeType ==
    ASSUME StrokesTypeOK, NEW s \in Strokes, cancelStroke(s)
    PROVE  StrokesTypeOK'
<1>1. CASE isAlive(s)
  <2>1. strokeCancel(stroke[s]) \in Stroke
    BY <1>1, AliveIsStroke, CancelType
  <2>2. stroke' = [stroke EXCEPT ![s] = strokeCancel(stroke[s])]
    BY <1>1 DEF cancelStroke
  <2>3. QED
    BY <2>1, <2>2, UpdateStrokeType DEF cancelStroke
<1>2. CASE ~isAlive(s)
  BY <1>2, StrokesStable DEF cancelStroke, strokeVars
<1>3. QED
  BY <1>1, <1>2

\* What is left of the queue are strokes, each of them a stroke of the queue.
LEMMA RemainingType ==
    ASSUME StrokesTypeOK, NEW queue \in suffixes
    PROVE  /\ queue \in Seq(Strokes)
           /\ \A k \in DOMAIN queue : stroke[queue[k]] \in Stroke
           /\ exclusiveAccessFor(queue) \in BOOLEAN
<1>1. PICK k \in 1..(Len(strokesQueue) + 1) :
          queue = SubSeq(strokesQueue, k, Len(strokesQueue))
  BY DEF suffixes
<1>2. queue \in Seq(Strokes)
  BY SuffixType DEF StrokesTypeOK
<1>3. ASSUME NEW j \in DOMAIN queue
      PROVE  stroke[queue[j]] \in Stroke
  <2>1. /\ j \in 1..(Len(strokesQueue) - k + 1)
        /\ queue[j] = strokesQueue[k + j - 1]
    BY <1>1, SubSeqProperties, LenProperties DEF StrokesTypeOK
  <2>2. k + j - 1 \in DOMAIN strokesQueue
    BY <2>1, LenProperties DEF StrokesTypeOK
  <2>3. QED
    BY <2>1, <2>2 DEF StrokesTypeOK
<1>4. exclusiveAccessFor(queue) \in BOOLEAN
  <2>1. queue # << >> => Head(queue) = queue[1] /\ 1 \in DOMAIN queue
    BY <1>2, HeadTailProperties, LenProperties, EmptySeq
  <2>2. queue # << >> => stroke[Head(queue)].strategy.isExclusive \in BOOLEAN
    BY <1>3, <2>1 DEF Stroke, KisStrokeStrategy
  <2>3. QED
    BY <2>2 DEF exclusiveAccessFor, StrokesTypeOK
<1>5. QED
  BY <1>2, <1>3, <1>4

\* An iteration of the strokes queue that starts a job: the job is one of its stroke, the stroke one of the queue.
LEMMA ProcessOneJobType ==
    ASSUME StrokesTypeOK, ContextTypeOK, NEW external \in BOOLEAN, processOneJob(external)
    PROVE  StrokesTypeOK' /\ ContextTypeOK'
<1> DEFINE s(queue) == Head(queue)
           job(queue) == Head(stroke[s(queue)].jobs)
<1>1. PICK queue \in suffixes :
          /\ mayPopJob(queue, external)
          /\ strokesQueue' = queue
          /\ needsExclusiveAccess' = exclusiveAccessFor(queue)
          /\ stroke' = [stroke EXCEPT ![s(queue)] = strokePop(stroke[s(queue)])]
          /\ handed' = [handed EXCEPT ![s(queue)] = handed[s(queue)] \cup {job(queue).kind}]
          /\ addItem(STROKE(s(queue), job(queue)))
  BY DEF processOneJob
<1>2. /\ queue \in Seq(Strokes) /\ queue # << >>
      /\ \A k \in DOMAIN queue : stroke[queue[k]] \in Stroke
      /\ exclusiveAccessFor(queue) \in BOOLEAN
      /\ stroke[s(queue)].jobs # << >>
  BY <1>1, RemainingType DEF mayPopJob, checkStrokeState, hasJobs
<1>3. s(queue) \in Strokes /\ stroke[s(queue)] \in Stroke
  BY <1>2, HeadTailProperties, LenProperties, EmptySeq
<1>4. job(queue) \in KisStrokeJob /\ strokePop(stroke[s(queue)]) \in Stroke
  BY <1>2, <1>3, PopType
<1>5. ContextTypeOK'
  BY <1>1, <1>3, <1>4, StrokeItemType, AddItemType
<1>6. job(queue).kind \in JobKinds
  BY <1>4 DEF KisStrokeJob
<1> HIDE DEF s, job
<1>7. \A k \in DOMAIN queue : queue[k] \in Strokes
  BY <1>2, ElementOfSeq, LenProperties
<1>8. QED
  BY <1>1, <1>2, <1>3, <1>4, <1>5, <1>6, <1>7 DEF StrokesTypeOK

\* An iteration that starts nothing may still dequeue strokes.
LEMMA ProcessNoJobType ==
    ASSUME StrokesTypeOK, NEW external \in BOOLEAN, processNoJob(external)
    PROVE  StrokesTypeOK'
<1>1. CASE hasSpareThread
  <2>1. PICK queue \in suffixes :
            /\ strokesQueue' = queue
            /\ needsExclusiveAccess' = exclusiveAccessFor(queue)
    BY <1>1 DEF processNoJob
  <2>2. QED
    BY <2>1, RemainingType DEF processNoJob, StrokesTypeOK
<1>2. CASE ~hasSpareThread
  BY <1>2, StrokesStable DEF processNoJob, strokeVars
<1>3. QED
  BY <1>1, <1>2

(***************************************************************************)
(* Steps.                                                                  *)
(***************************************************************************)
\* Every step of processQueues() keeps the types.
LEMMA ProcessQueuesType ==
    ASSUME TypeOK, NEW t \in Threads, processQueues(t)
    PROVE  TypeOK'
<1> USE DEF TypeOK
<1>1. CASE wakeUpWaitingThreads(t)
  BY <1>1, GotoType, OnlyControlType DEF wakeUpWaitingThreads, Labels
<1>2. CASE wakeHaveUpdatesRunning(t)
  BY <1>2, GotoType, OnlyControlType DEF wakeHaveUpdatesRunning, Labels
<1>3. CASE wakeWaiting(t)
  <2>1. ConditionTypeOK' /\ sleepers' \subseteq Threads
    BY <1>3, ConditionStable DEF wakeWaiting, wakeAll, ConditionTypeOK
  <2>2. ThreadsTypeOK'
    BY <1>3, GotoType DEF wakeWaiting, Labels
  <2>3. QED
    BY <1>3, <2>1, <2>2, ContextStable, StrokesStable, QueuesStable, FlagsStable
       DEF wakeWaiting
<1>4. CASE checkProcessingBlocked(t)
  BY <1>4, GotoType, ReturnType, OnlyControlType DEF checkProcessingBlocked, Labels
<1>5. CASE checkExclusiveAccess(t)
  <2>1. ThreadsTypeOK'
    BY <1>5, GotoType DEF checkExclusiveAccess, Labels, ThreadsTypeOK
  <2>2. QED
    BY <1>5, <2>1, OnlyControlType DEF checkExclusiveAccess
<1>6. CASE checkBalance(t)
  <2>1. ThreadsTypeOK'
    BY <1>6 DEF checkBalance, Labels, ThreadsTypeOK
  <2>2. QED
    BY <1>6, <2>1, OnlyControlType DEF checkBalance
<1>7. CASE evaluateExternalJobs(t)
  <2>1. ThreadsTypeOK'
    BY <1>7 DEF evaluateExternalJobs, Labels, ThreadsTypeOK, updatesEmpty
  <2>2. QED
    BY <1>7, <2>1, OnlyControlType DEF evaluateExternalJobs
<1>8. CASE processStrokesQueue(t)
  <2>1. pending[t] \in BOOLEAN
    BY DEF ThreadsTypeOK
  <2>2. StrokesTypeOK' /\ ContextTypeOK'
    BY <1>8, <2>1, ProcessOneJobType DEF processStrokesQueue
  <2>3. ThreadsTypeOK'
    BY <1>8, GotoType DEF processStrokesQueue, Labels
  <2>4. QED
    BY <1>8, <2>2, <2>3, ConditionStable, QueuesStable, FlagsStable
       DEF processStrokesQueue
<1>9. CASE leaveStrokesQueue(t)
  <2>1. pending[t] \in BOOLEAN
    BY DEF ThreadsTypeOK
  <2>2. StrokesTypeOK'
    BY <1>9, <2>1, ProcessNoJobType DEF leaveStrokesQueue
  <2>3. ThreadsTypeOK'
    BY <1>9, GotoType, ReturnType DEF leaveStrokesQueue, Labels
  <2>4. QED
    BY <1>9, <2>2, <2>3, ContextStable, ConditionStable, QueuesStable, FlagsStable
       DEF leaveStrokesQueue
<1>10. CASE checkExclusiveAgain(t)
  BY <1>10, GotoType, ReturnType, OnlyControlType DEF checkExclusiveAgain, Labels
<1>11. CASE tryProcessUpdatesQueue(t)
  BY <1>11, GotoType, ReturnType, OnlyControlType
     DEF tryProcessUpdatesQueue, AfterUpdates, Labels
<1>12. CASE processUpdatesQueue(t)
  <2>1. ContextTypeOK' /\ QueuesTypeOK'
    BY <1>12, StartWalkerType, StartSpontaneousType DEF processUpdatesQueue
  <2>2. ThreadsTypeOK'
    BY <1>12, GotoType DEF processUpdatesQueue, Labels
  <2>3. QED
    BY <1>12, <2>1, <2>2, StrokesStable, ConditionStable, FlagsStable
       DEF processUpdatesQueue
<1>13. CASE leaveUpdatesQueue(t)
  BY <1>13, GotoType, ReturnType, OnlyControlType
     DEF leaveUpdatesQueue, AfterUpdates, Labels
<1>14. QED
  BY <1>1, <1>2, <1>3, <1>4, <1>5, <1>6, <1>7, <1>8, <1>9, <1>10, <1>11, <1>12, <1>13
     DEF processQueues

\* So does every step of blockUpdates() and unblockUpdates().
LEMMA BlockUpdatesType ==
    ASSUME TypeOK, NEW t \in Threads, blockUpdates(t)
    PROVE  TypeOK'
<1> USE DEF TypeOK
<1>1. CASE blockInitWaiting(t)
  <2>1. ConditionTypeOK' /\ sleepers' \subseteq Threads
    BY <1>1 DEF blockInitWaiting, initWaiting, ConditionTypeOK
  <2>2. ThreadsTypeOK'
    BY <1>1, GotoType DEF blockInitWaiting, Labels
  <2>3. QED
    BY <1>1, <2>1, <2>2, ContextStable, StrokesStable, QueuesStable, FlagsStable
       DEF blockInitWaiting
<1>2. CASE blockRef(t)
  <2>1. FlagsTypeOK'
    BY <1>2 DEF blockRef, FlagsTypeOK
  <2>2. ThreadsTypeOK'
    BY <1>2, GotoType DEF blockRef, Labels
  <2>3. QED
    BY <1>2, <2>1, <2>2, ContextStable, StrokesStable, ConditionStable, QueuesStable
       DEF blockRef
<1>3. CASE blockHaveUpdatesRunning(t)
  BY <1>3, GotoType, OnlyControlType DEF blockHaveUpdatesRunning, Labels
<1>4. CASE blockWait(t)
  <2>1. ConditionTypeOK' /\ sleepers' \subseteq Threads
    BY <1>4 DEF blockWait, waitConsume, waitSleep, ConditionTypeOK
  <2>2. ThreadsTypeOK'
    BY <1>4, GotoType DEF blockWait, Labels
  <2>3. QED
    BY <1>4, <2>1, <2>2, ContextStable, StrokesStable, QueuesStable, FlagsStable
       DEF blockWait
<1>5. CASE blockWoken(t)
  <2>1. ConditionTypeOK' /\ sleepers' \subseteq Threads
    BY <1>5 DEF blockWoken, waitReturn, ConditionTypeOK
  <2>2. ThreadsTypeOK'
    BY <1>5, GotoType DEF blockWoken, Labels
  <2>3. QED
    BY <1>5, <2>1, <2>2, ContextStable, StrokesStable, QueuesStable, FlagsStable
       DEF blockWoken
<1>6. CASE blockEndWaiting(t)
  <2>1. ConditionTypeOK' /\ sleepers' \subseteq Threads
    BY <1>6 DEF blockEndWaiting, endWaiting, ConditionTypeOK
  <2>2. ThreadsTypeOK'
    BY <1>6, GotoType DEF blockEndWaiting, Labels
  <2>3. QED
    BY <1>6, <2>1, <2>2, ContextStable, StrokesStable, QueuesStable, FlagsStable
       DEF blockEndWaiting
<1>7. CASE updateWhileBlocked(t)
  <2>1. QueuesTypeOK'
    BY <1>7, AddUpdateType DEF updateWhileBlocked
  <2>2. ThreadsTypeOK'
    BY <1>7, CallType DEF updateWhileBlocked, Labels
  <2>3. QED
    BY <1>7, <2>1, <2>2, ContextStable, StrokesStable, ConditionStable, FlagsStable
       DEF updateWhileBlocked
<1>8. CASE unblockUpdates(t)
  <2>1. FlagsTypeOK'
    BY <1>8 DEF unblockUpdates, FlagsTypeOK
  <2>2. ThreadsTypeOK'
    BY <1>8, CallType DEF unblockUpdates, AfterBlock, Labels
  <2>3. QED
    BY <1>8, <2>1, <2>2, ContextStable, StrokesStable, ConditionStable, QueuesStable
       DEF unblockUpdates
<1>9. QED
  BY <1>1, <1>2, <1>3, <1>4, <1>5, <1>6, <1>7, <1>8 DEF blockUpdates

\* So does every step of a worker.
LEMMA RunType ==
    ASSUME TypeOK, NEW w \in Workers, run(w)
    PROVE  TypeOK'
<1> USE DEF TypeOK
<1>w. w \in Threads
  BY DEF Threads
<1>1. CASE takeSlot(w)
  <2>1. ContextTypeOK'
    BY <1>1, TakeType DEF takeSlot
  <2>2. ThreadsTypeOK'
    BY <1>1, <1>w, GotoType DEF takeSlot, Labels
  <2>3. QED
    BY <1>1, <2>1, <2>2, StrokesStable, ConditionStable, QueuesStable, FlagsStable
       DEF takeSlot
<1>2. CASE lockExclusiveJob(w)
  <2>1. ContextTypeOK'
    BY <1>2 DEF lockExclusiveJob, ContextTypeOK
  <2>2. ThreadsTypeOK'
    BY <1>2, <1>w, GotoType, ThreadsStable DEF lockExclusiveJob, Labels
  <2>3. QED
    BY <1>2, <2>1, <2>2, StrokesStable, ConditionStable, QueuesStable, FlagsStable
       DEF lockExclusiveJob
<1>3. CASE runDirty(w)
  <2>1. QueuesTypeOK'
    BY <1>3, AddUpdateType DEF runDirty
  <2>2. ThreadsTypeOK'
    BY <1>3, <1>w, CallType DEF runDirty, Labels
  <2>3. QED
    BY <1>3, <2>1, <2>2, ContextStable, StrokesStable, ConditionStable, FlagsStable
       DEF runDirty
<1>4. CASE runBlocking(w)
  BY <1>4, <1>w, GotoType, OnlyControlType DEF runBlocking, Labels
<1>5. CASE runPopulate(w)
  <2>1. DefaultJob("undo", "plain") \in KisStrokeJob
    BY DEF DefaultJob, KisStrokeJob, JobKinds, Sequentialities, Bodies
  <2>2. StrokesTypeOK'
    BY <1>5, <2>1, AddJobKeepsType DEF runPopulate
  <2>3. ThreadsTypeOK'
    BY <1>5, <1>w, CallType DEF runPopulate, Labels
  <2>4. QED
    BY <1>5, <2>2, <2>3, ContextStable, ConditionStable, QueuesStable, FlagsStable
       DEF runPopulate
<1>6. CASE finishJob(w)
  <2>1. ContextTypeOK'
    BY <1>6, SetDoneType DEF finishJob
  <2>2. ThreadsTypeOK'
    BY <1>6, <1>w, CallType DEF finishJob, Labels
  <2>3. QED
    BY <1>6, <2>1, <2>2, StrokesStable, ConditionStable, QueuesStable, FlagsStable
       DEF finishJob
<1>7. CASE releaseWorker(w)
  <2>1. ContextTypeOK'
    BY <1>7, LeaveRunType DEF releaseWorker
  <2>2. ThreadsTypeOK'
    BY <1>7, <1>w, GotoType DEF releaseWorker, Labels
  <2>3. QED
    BY <1>7, <2>1, <2>2, StrokesStable, ConditionStable, QueuesStable, FlagsStable
       DEF releaseWorker
<1>8. QED
  BY <1>1, <1>2, <1>3, <1>4, <1>5, <1>6, <1>7 DEF run

\* A call is counted.
LEMMA CallsType ==
    ASSUME FlagsTypeOK, NEW c, NEW operation, Calls(c, operation)
    PROVE  calls' \in Nat
  BY DEF FlagsTypeOK, Calls

\* A step that does not count a call leaves a number.
LEMMA CountedType ==
    ASSUME FlagsTypeOK, calls' \in Nat, UNCHANGED <<processingBlocked, updatesLockCounter>>
    PROVE  FlagsTypeOK'
  BY DEF FlagsTypeOK

\* A step that sets processingBlocked, and may count a call, keeps the types of
\* all groups but the threads'.
LEMMA SetBlockedType ==
    ASSUME TypeOK, NEW value \in BOOLEAN, setProcessingBlocked(value), calls' \in Nat,
           ThreadsTypeOK'
    PROVE  TypeOK'
<1>1. FlagsTypeOK'
  BY DEF TypeOK, FlagsTypeOK, setProcessingBlocked
<1>2. QED
  BY <1>1, ContextStable, StrokesStable, ConditionStable, QueuesStable
     DEF TypeOK, setProcessingBlocked

\* A step of a client that counts a call and touches one group of variables.
LEMMA CallOnlyType ==
    ASSUME TypeOK, NEW c \in Clients, NEW operation, Calls(c, operation), ThreadsTypeOK',
           UNCHANGED <<processingBlocked, updatesLockCounter>>
    PROVE  FlagsTypeOK'
  BY CallsType, CountedType DEF TypeOK

\* Every step of lock() keeps the types.
LEMMA LockType ==
    ASSUME TypeOK, NEW c \in Clients, lock(c)
    PROVE  TypeOK'
<1>1. c \in Threads
  BY DEF Threads
<1>2. CASE pc[c] = "lockWait" /\ PoolDone /\ Goto(c, "locked") /\ OnlyControl
  BY <1>1, <1>2, GotoType, OnlyControlType DEF Labels, TypeOK
<1>3. CASE Calls(c, "lock") /\ setProcessingBlocked(TRUE) /\ Goto(c, "lockWait")
  <2>1. ThreadsTypeOK'
    BY <1>1, <1>3, GotoType DEF Labels, TypeOK
  <2>2. calls' \in Nat
    BY <1>3, CallsType DEF TypeOK
  <2>3. QED
    BY <1>3, <2>1, <2>2, SetBlockedType
<1>4. QED
  BY <1>2, <1>3 DEF lock

\* So does unlock().
LEMMA UnlockType ==
    ASSUME TypeOK, NEW c \in Clients, unlock(c)
    PROVE  TypeOK'
<1>1. c \in Threads
  BY DEF Threads
<1>2. ThreadsTypeOK'
  BY <1>1, CallType DEF unlock, Labels, TypeOK
<1>3. calls' \in Nat
  BY DEF unlock, TypeOK, FlagsTypeOK
<1>4. QED
  BY <1>2, <1>3, SetBlockedType DEF unlock

\* So does every step of waitForDone().
LEMMA WaitForDoneType ==
    ASSUME TypeOK, NEW c \in Clients, waitForDone(c)
    PROVE  TypeOK'
<1>1. c \in Threads
  BY DEF Threads
<1>2. ThreadsTypeOK'
  BY <1>1, GotoType, CallType DEF waitForDone, Labels, TypeOK
<1>3. CASE Calls(c, "waitForDone")
           /\ UNCHANGED <<contextVars, strokeVars, conditionVars, queueVars,
                          processingBlocked, updatesLockCounter>>
  <2>1. FlagsTypeOK'
    BY <1>2, <1>3, CallOnlyType
  <2>2. QED
    BY <1>2, <1>3, <2>1, ContextStable, StrokesStable, ConditionStable, QueuesStable
       DEF TypeOK
<1>4. CASE OnlyControl
  BY <1>2, <1>4, OnlyControlType
<1>5. QED
  BY <1>3, <1>4 DEF waitForDone

\* So does every step of barrierLock().
LEMMA BarrierLockType ==
    ASSUME TypeOK, NEW c \in Clients, barrierLock(c)
    PROVE  TypeOK'
<1>1. c \in Threads
  BY DEF Threads
<1>2. ThreadsTypeOK'
  BY ZenonT(60), <1>1, GotoType, CallType DEF barrierLock, Labels, TypeOK
<1>3. CASE OnlyControl
  BY <1>2, <1>3, OnlyControlType
<1>4. ASSUME NEW value \in BOOLEAN, setProcessingBlocked(value),
             Calls(c, "barrierLock") \/ UNCHANGED calls
      PROVE  TypeOK'
  <2>1. calls' \in Nat
    BY <1>4, CallsType DEF TypeOK, FlagsTypeOK
  <2>2. QED
    BY <1>2, <1>4, <2>1, SetBlockedType
<1>5. QED
  BY <1>3, <1>4 DEF barrierLock

\* So does every step of tryBarrierLock().
LEMMA TryBarrierLockType ==
    ASSUME TypeOK, NEW c \in Clients, tryBarrierLock(c)
    PROVE  TypeOK'
<1>1. c \in Threads
  BY DEF Threads
<1>2. ThreadsTypeOK'
  BY <1>1, GotoType DEF tryBarrierLock, Labels, TypeOK
<1>3. CASE OnlyControl
  BY <1>2, <1>3, OnlyControlType
<1>4. CASE Calls(c, "tryBarrierLock")
           /\ UNCHANGED <<contextVars, strokeVars, conditionVars, queueVars,
                          processingBlocked, updatesLockCounter>>
  <2>1. FlagsTypeOK'
    BY <1>2, <1>4, CallOnlyType
  <2>2. QED
    BY <1>2, <1>4, <2>1, ContextStable, StrokesStable, ConditionStable, QueuesStable
       DEF TypeOK
<1>5. ASSUME NEW value \in BOOLEAN, setProcessingBlocked(value), UNCHANGED calls
      PROVE  TypeOK'
  <2>1. calls' \in Nat
    BY <1>5 DEF TypeOK, FlagsTypeOK
  <2>2. QED
    BY <1>2, <1>5, <2>1, SetBlockedType
<1>6. QED
  BY <1>3, <1>4, <1>5 DEF tryBarrierLock

\* So does every step of fullRefresh().
LEMMA FullRefreshType ==
    ASSUME TypeOK, NEW c \in Clients, fullRefresh(c)
    PROVE  TypeOK'
<1>1. c \in Threads /\ pc[c] \in Labels
  BY DEF Threads, TypeOK, ThreadsTypeOK
<1>2. ThreadsTypeOK'
  BY ZenonT(60), <1>1, GotoType, CallType, ReturnType DEF fullRefresh, Labels, TypeOK
<1>3. CASE OnlyControl
  BY <1>2, <1>3, OnlyControlType
<1>4. CASE Calls(c, "fullRefresh")
           /\ UNCHANGED <<contextVars, strokeVars, conditionVars, queueVars,
                          processingBlocked, updatesLockCounter>>
  <2>1. FlagsTypeOK'
    BY <1>2, <1>4, CallOnlyType
  <2>2. QED
    BY <1>2, <1>4, <2>1, ContextStable, StrokesStable, ConditionStable, QueuesStable
       DEF TypeOK
<1>5. CASE Calls(c, "fullRefresh") /\ setProcessingBlocked(TRUE)
  BY <1>2, <1>5, CallsType, SetBlockedType DEF TypeOK
<1>6. CASE /\ \E area \in Areas : addItem(MERGE(area))
           /\ UNCHANGED <<strokeVars, conditionVars, queueVars, flagVars>>
  <2>1. ContextTypeOK'
    BY <1>6, MergeType, AddItemType DEF TypeOK
  <2>2. QED
    BY <1>2, <1>6, <2>1, StrokesStable, ConditionStable, QueuesStable, FlagsStable
       DEF TypeOK
<1>7. QED
  BY <1>3, <1>4, <1>5, <1>6 DEF fullRefresh

\* The methods that put something into a queue, and blockUpdates().
LEMMA QueueingType ==
    ASSUME TypeOK, NEW c \in Clients,
           \/ updateProjection(c) \/ addSpontaneousJob(c) \/ strokeMethod(c)
           \/ clientBlockUpdates(c)
    PROVE  TypeOK'
<1>1. c \in Threads /\ pc[c] \in Labels
  BY DEF Threads, TypeOK, ThreadsTypeOK
<1>2. ThreadsTypeOK'
  BY <1>1, GotoType, CallType
     DEF updateProjection, addSpontaneousJob, strokeMethod, clientBlockUpdates, Labels, TypeOK
<1>3. FlagsTypeOK'
  BY <1>2, CallOnlyType
     DEF updateProjection, addSpontaneousJob, strokeMethod, clientBlockUpdates
<1>4. ContextTypeOK' /\ ConditionTypeOK' /\ sleepers' \subseteq Threads
  BY ContextStable, ConditionStable
     DEF updateProjection, addSpontaneousJob, strokeMethod, clientBlockUpdates, TypeOK
<1>5. QueuesTypeOK'
  BY QueuesStable, AddUpdateType, AddSpontaneousType
     DEF updateProjection, addSpontaneousJob, strokeMethod, clientBlockUpdates, TypeOK
<1>6. StrokesTypeOK'
  <2>1. CASE strokeMethod(c)
    <3>1. PICK s \in Strokes :
              \/ \E strategy \in Strategies : startStroke(s, strategy)
              \/ isAlive(s) /\ \E job \in stroke[s].strategy.dab : addJob(s, job)
              \/ endStroke(s)
              \/ cancelStroke(s)
      BY <2>1 DEF strokeMethod
    <3>2. Strategies \subseteq KisStrokeStrategy
      BY SchedulerAssumption
    <3>3. ASSUME isAlive(s), NEW job \in stroke[s].strategy.dab
          PROVE  job \in KisStrokeJob
      BY <3>3, AliveIsStroke DEF TypeOK, Stroke, KisStrokeStrategy
    <3>4. QED
      BY <3>1, <3>2, <3>3, StartStrokeType, AddJobKeepsType, EndStrokeType, CancelStrokeType
         DEF TypeOK
  <2>2. CASE ~strokeMethod(c)
    BY <2>2, StrokesStable
       DEF updateProjection, addSpontaneousJob, clientBlockUpdates, TypeOK
  <2>3. QED
    BY <2>1, <2>2
<1>7. QED
  BY <1>2, <1>3, <1>4, <1>5, <1>6 DEF TypeOK

\* Every step of a client keeps the types.
LEMMA ClientType ==
    ASSUME TypeOK, NEW c \in Clients, client(c)
    PROVE  TypeOK'
  BY QueueingType, LockType, UnlockType, WaitForDoneType, BarrierLockType,
     TryBarrierLockType, FullRefreshType DEF client

\* The scheduler is constructed with all slots and queues empty.
LEMMA InitType == Init => TypeOK
<1> SUFFICES ASSUME Init PROVE TypeOK
  OBVIOUS
<1>1. ContextTypeOK /\ ConditionTypeOK /\ sleepers \subseteq Threads
  BY DEF Init, ContextInit, ContextTypeOK, ConditionInit, ConditionTypeOK, KisUpdateJobItem
<1>2. StrokesTypeOK
  <2>1. strokesQueue \in Seq(Strokes) /\ DOMAIN strokesQueue = {}
    BY EmptySeq DEF Init, StrokesInit
  <2>2. QED
    BY <2>1 DEF Init, StrokesInit, StrokesTypeOK
<1>3. QueuesTypeOK
  BY EmptySeq DEF Init, QueuesTypeOK
<1>4. FlagsTypeOK
  <2>1. processingBlocked \in BOOLEAN
    BY Zenon DEF Init
  <2>2. updatesLockCounter \in Int /\ calls \in Nat
    BY DEF Init
  <2>3. QED
    BY <2>1, <2>2 DEF FlagsTypeOK
<1>5. ThreadsTypeOK
  <2>1. pending \in [Threads -> BOOLEAN]
    BY Zenon DEF Init
  <2>2. QED
    BY <2>1 DEF Init, ThreadsTypeOK, Labels
<1>6. QED
  BY <1>1, <1>2, <1>3, <1>4, <1>5 DEF TypeOK

\* Every step keeps the types.
LEMMA NextType ==
    ASSUME TypeOK, [Next]_vars
    PROVE  TypeOK'
<1>1. CASE UNCHANGED vars
  BY <1>1, ContextStable, StrokesStable, ConditionStable, QueuesStable, FlagsStable,
     ThreadsStable DEF vars, TypeOK
<1>2. CASE Next
  BY <1>1, <1>2, ProcessQueuesType, BlockUpdatesType, RunType, ClientType DEF Next, Rest
<1>3. QED
  BY <1>1, <1>2

(***************************************************************************)
(* Every variable of the scheduler has its type in every reachable state:  *)
(* every slot, queue and stroke holds what the code may put there.         *)
(***************************************************************************)
THEOREM TypeCorrect == Spec => []TypeOK
<1>1. Init => TypeOK
  BY InitType
<1>2. TypeOK /\ [Next]_vars => TypeOK'
  BY NextType
<1>3. QED
  BY <1>1, <1>2, PTL DEF Spec

-------------------------------------------------------------------------------
(***************************************************************************)
(* Where a thread can be.                                                  *)
(***************************************************************************)
\* The labels inside processQueues(), inside blockUpdates() up to
\* unblockUpdates(), of run() itself, and inside fullRefresh().
Processing ==
    {"wake", "wakeCheck", "wakeAll", "blockedCheck", "exclusiveCheck", "balance",
     "externalJobs", "strokesLock", "strokes", "exclusiveAgain", "tryUpdates",
     "updatesLock", "updates"}
Blocking ==
    {"block", "blockRef", "blockCheck", "blockWait", "blockSleep", "blockEnd",
     "blocked", "unblock"}
Running == {"run", "body", "done", "release"}
Refreshing == {"refreshDrain", "refreshLock", "refreshAdd", "refreshWait"}

\* The labels of a client between its calls, and inside the methods that lock
\* or wait.
Waits ==
    {"idle", "locked", "unlock", "lockWait", "doneWait", "doneCheck", "barrierBlock",
     "barrierWait", "barrierCheck", "tryBlock", "tryWait", "tryCheck"}

\* A worker processes queues after a request, after unblocking or after a job,
\* and is on a slot unless it is idle in the pool.
WorkerControl ==
    \A w \in Workers :
        /\ pc[w] \in Processing \cup Blocking \cup Running \cup {"idle"}
        /\ pc[w] \in Processing => ret[w] \in {"unblock", "done", "release"}
        /\ pc[w] \notin Processing => ret[w] = "idle"
        /\ pc[w] = "idle" <=> on[w] = NoSlot

\* A client is never inside run(), and returns to a place outside of
\* processQueues() that is not in the middle of blockUpdates().
ClientControl ==
    \A c \in Clients :
        /\ pc[c] \notin Running
        /\ pc[c] \in Processing =>
               ret[c] \in {"idle", "locked", "unblock", "doneWait", "barrierBlock"}
        /\ pc[c] \in Refreshing => ret[c] \in {"idle", "locked", "unlock"}
        /\ pc[c] \notin Processing \cup Refreshing => ret[c] = "idle"

Control == WorkerControl /\ ClientControl

\* Thread t goes to a label and will return to r.
Moves(t, label, r) ==
    /\ pc' = [pc EXCEPT ![t] = label]
    /\ ret' = [ret EXCEPT ![t] = r]

(***************************************************************************)
(* Where the steps lead.                                                   *)
(***************************************************************************)
\* Goto() moves a thread and keeps the place it will return to.
LEMMA GotoMoves ==
    ASSUME ThreadsTypeOK, NEW t \in Threads, NEW label, Goto(t, label)
    PROVE  Moves(t, label, ret[t])
  BY DEF ThreadsTypeOK, Goto, Moves

\* A step of processQueues() stays inside it or returns.
LEMMA ProcessMoves ==
    ASSUME TypeOK, NEW t \in Threads, processQueues(t)
    PROVE  /\ pc[t] \in Processing
           /\ \/ \E label \in Processing : Moves(t, label, ret[t])
              \/ Moves(t, ret[t], "idle")
<1> USE DEF TypeOK, Processing
<1>1. ASSUME NEW label \in Processing, Goto(t, label)
      PROVE  \E l \in Processing : Moves(t, l, ret[t])
  BY <1>1, GotoMoves
<1>2. ASSUME Return(t) PROVE Moves(t, ret[t], "idle")
  BY <1>2 DEF Return, Moves
<1>3. CASE wakeUpWaitingThreads(t) \/ wakeHaveUpdatesRunning(t) \/ wakeWaiting(t)
  BY <1>1, <1>3 DEF wakeUpWaitingThreads, wakeHaveUpdatesRunning, wakeWaiting
<1>4. CASE checkProcessingBlocked(t) \/ checkExclusiveAgain(t)
  BY <1>1, <1>2, <1>4 DEF checkProcessingBlocked, checkExclusiveAgain
<1>5. CASE checkExclusiveAccess(t)
  <2>1. CASE needsExclusiveAccess
    BY <1>5, <2>1 DEF checkExclusiveAccess, Moves, ThreadsTypeOK
  <2>2. CASE ~needsExclusiveAccess
    BY <1>1, <1>5, <2>2 DEF checkExclusiveAccess
  <2>3. QED
    BY <2>1, <2>2
<1>6. CASE checkBalance(t)
  BY <1>6 DEF checkBalance, Moves, ThreadsTypeOK
<1>7. CASE evaluateExternalJobs(t)
  BY <1>7 DEF evaluateExternalJobs, Moves, ThreadsTypeOK
<1>8. CASE processStrokesQueue(t) \/ leaveStrokesQueue(t)
  BY <1>1, <1>2, <1>8 DEF processStrokesQueue, leaveStrokesQueue, InStrokesLoop
<1>9. CASE tryProcessUpdatesQueue(t)
  BY <1>1, <1>2, <1>9 DEF tryProcessUpdatesQueue, AfterUpdates
<1>10. CASE processUpdatesQueue(t) \/ leaveUpdatesQueue(t)
  BY <1>1, <1>2, <1>10
     DEF processUpdatesQueue, leaveUpdatesQueue, InUpdatesLoop, AfterUpdates
<1>11. QED
  BY <1>3, <1>4, <1>5, <1>6, <1>7, <1>8, <1>9, <1>10 DEF processQueues

\* A step between blockUpdates() and the end of unblockUpdates().
LEMMA BlockMoves ==
    ASSUME TypeOK, NEW t \in Threads, blockUpdates(t)
    PROVE  /\ pc[t] \in Blocking
           /\ \/ \E label \in Blocking : Moves(t, label, ret[t])
              \/ Moves(t, "wake", "unblock")
              \/ Moves(t, "wake", AfterBlock(t))
<1> USE DEF TypeOK, Blocking
<1>1. ASSUME NEW label \in Blocking, Goto(t, label)
      PROVE  \E l \in Blocking : Moves(t, l, ret[t])
  BY <1>1, GotoMoves
<1>2. CASE blockInitWaiting(t) \/ blockRef(t) \/ blockHaveUpdatesRunning(t)
  BY <1>1, <1>2 DEF blockInitWaiting, blockRef, blockHaveUpdatesRunning
<1>3. CASE blockWait(t) \/ blockWoken(t) \/ blockEndWaiting(t)
  BY <1>1, <1>3 DEF blockWait, blockWoken, blockEndWaiting
<1>4. CASE updateWhileBlocked(t) \/ unblockUpdates(t)
  BY <1>4 DEF updateWhileBlocked, unblockUpdates, Call, Moves
<1>5. QED
  BY <1>2, <1>3, <1>4 DEF blockUpdates

\* A step of run() outside of these.
LEMMA RunMoves ==
    ASSUME TypeOK, NEW w \in Workers, run(w)
    PROVE  \/ pc[w] = "idle" /\ Moves(w, "run", ret[w])
           \/ pc[w] = "run" /\ \E label \in {"run", "body"} : Moves(w, label, ret[w])
           \/ pc[w] = "body" /\ Moves(w, "wake", "done")
           \/ pc[w] = "body" /\ Moves(w, "block", ret[w])
           \/ pc[w] \in {"body", "done"} /\ Moves(w, "wake", "release")
           \/ pc[w] = "release" /\ Moves(w, "idle", ret[w])
<1> USE DEF TypeOK
<1>1. w \in Threads
  BY DEF Threads
<1>2. ASSUME NEW label, Goto(w, label) PROVE Moves(w, label, ret[w])
  BY <1>1, <1>2, GotoMoves
<1>3. CASE takeSlot(w) \/ runBlocking(w) \/ releaseWorker(w)
  BY <1>2, <1>3 DEF takeSlot, runBlocking, releaseWorker
<1>4. CASE lockExclusiveJob(w)
  <2>1. CASE UNCHANGED threadVars
    BY <1>1, <1>4, <2>1 DEF lockExclusiveJob, threadVars, Moves, ThreadsTypeOK
  <2>2. CASE Goto(w, "body")
    BY <1>2, <1>4, <2>2 DEF lockExclusiveJob
  <2>3. QED
    BY <1>4, <2>1, <2>2 DEF lockExclusiveJob
<1>5. CASE runDirty(w) \/ runPopulate(w) \/ finishJob(w)
  BY <1>5 DEF runDirty, runPopulate, finishJob, Call, Moves
<1>6. QED
  BY <1>3, <1>4, <1>5 DEF run

\* A step of a client calls processQueues() or blockUpdates(), moves on inside
\* a method, begins a synchronous refresh, or is a step of one.
LEMMA ClientMoves ==
    ASSUME TypeOK, NEW c \in Clients, client(c)
    PROVE  \/ /\ pc[c] \in Waits
              /\ \/ \E r \in {"idle", "locked", "doneWait", "barrierBlock"} :
                       Moves(c, "wake", r)
                 \/ \E label \in Waits \cup {"block"} : Moves(c, label, ret[c])
                 \/ /\ "fullRefresh" \in Operations \cup LockedOperations
                    /\ \E label \in {"refreshDrain", "refreshLock"},
                          r \in {"idle", "locked", "unlock"} : Moves(c, label, r)
           \/ /\ pc[c] \in Refreshing
              /\ \/ \E label \in Refreshing : Moves(c, label, ret[c])
                 \/ Moves(c, ret[c], "idle")
<1> USE DEF TypeOK, Waits, Refreshing
<1>1. c \in Threads
  BY DEF Threads
<1>2. ASSUME NEW label, Goto(c, label) PROVE Moves(c, label, ret[c])
  BY <1>1, <1>2, GotoMoves
<1>3. ASSUME NEW label, NEW r, Call(c, label, r) PROVE Moves(c, label, r)
  BY <1>3 DEF Call, Moves
<1>4. ASSUME NEW operation, Calls(c, operation)
      PROVE  /\ pc[c] \in {"idle", "locked"}
             /\ operation \in Operations \cup LockedOperations
  BY <1>4 DEF Calls
<1>5. CASE updateProjection(c) \/ addSpontaneousJob(c)
  BY <1>3, <1>4, <1>5 DEF updateProjection, addSpontaneousJob
<1>6. CASE strokeMethod(c)
  BY <1>3, <1>4, <1>6 DEF strokeMethod
<1>7. CASE clientBlockUpdates(c) \/ lock(c) \/ unlock(c)
  BY <1>2, <1>3, <1>4, <1>7 DEF clientBlockUpdates, lock, unlock
<1>8. CASE waitForDone(c)
  BY <1>2, <1>3, <1>4, <1>8 DEF waitForDone
<1>9. CASE barrierLock(c)
  BY <1>2, <1>3, <1>4, <1>9 DEF barrierLock
<1>10. CASE tryBarrierLock(c)
  BY <1>2, <1>4, <1>10 DEF tryBarrierLock
<1>11. CASE fullRefresh(c)
  <2>1. CASE Calls(c, "fullRefresh")
    BY <1>3, <1>4, <1>11, <2>1 DEF fullRefresh
  <2>2. CASE ~Calls(c, "fullRefresh")
    BY <1>2, <1>11, <2>2 DEF fullRefresh, Return, Moves
  <2>3. QED
    BY <2>1, <2>2
<1>12. QED
  BY <1>5, <1>6, <1>7, <1>8, <1>9, <1>10, <1>11 DEF client
(***************************************************************************)
(* What the steps do to the slots.                                         *)
(***************************************************************************)
\* processQueues() starts strokes from the strokes queue, and merges and
\* spontaneous jobs while it holds updatesStartLock for reading.
LEMMA ProcessFills ==
    ASSUME TypeOK, NEW t \in Threads, processQueues(t)
    PROVE  \/ UNCHANGED contextVars
           \/ \E item \in StrokeItems : addItem(item)
           \/ /\ pc[t] \in {"updatesLock", "updates"}
              /\ \E item \in SpontaneousItems : addItem(item)
           \/ /\ pc[t] \in {"updatesLock", "updates"}
              /\ \E area \in Areas : isJobAllowed(area) /\ addItem(MERGE(area))
<1>1. CASE processStrokesQueue(t)
  <2>1. PICK queue \in suffixes :
            /\ isRemaining(queue) /\ mayPopJob(queue, pending[t])
            /\ addItem(STROKE(Head(queue), Head(stroke[Head(queue)].jobs)))
    BY <1>1 DEF processStrokesQueue, processOneJob
  <2>2. /\ queue \in Seq(Strokes) /\ queue # << >>
        /\ \A k \in DOMAIN queue : stroke[queue[k]] \in Stroke
        /\ stroke[Head(queue)].jobs # << >>
    BY <2>1, RemainingType DEF TypeOK, mayPopJob, checkStrokeState, hasJobs
  <2>3. Head(queue) \in Strokes /\ stroke[Head(queue)] \in Stroke
    BY <2>2, HeadTailProperties, LenProperties, EmptySeq
  <2>4. Head(stroke[Head(queue)].jobs) \in KisStrokeJob
    BY <2>2, <2>3, PopType
  <2>5. QED
    BY <2>1, <2>3, <2>4 DEF STROKE, StrokeItems
<1>2. CASE processUpdatesQueue(t)
  <2>1. CASE startWalker
    <3>1. PICK k \in DOMAIN updatesList :
              isJobAllowed(updatesList[k]) /\ addItem(MERGE(updatesList[k]))
      BY <2>1 DEF startWalker, isFirstAllowed
    <3>2. updatesList[k] \in Areas
      BY <3>1, ElementOfSeq, LenProperties DEF TypeOK, QueuesTypeOK
    <3>3. QED
      BY <1>2, <3>1, <3>2 DEF processUpdatesQueue, InUpdatesLoop
  <2>2. CASE startSpontaneous
    <3>1. Head(spontaneousJobsList) \in Spontaneous
      BY <2>2, HeadTailProperties DEF startSpontaneous, TypeOK, QueuesTypeOK
    <3>2. QED
      BY <1>2, <2>2, <3>1
         DEF processUpdatesQueue, InUpdatesLoop, startSpontaneous, SPONTANEOUS,
             SpontaneousItems
  <2>3. QED
    BY <1>2, <2>1, <2>2 DEF processUpdatesQueue
<1>3. CASE wakeUpWaitingThreads(t) \/ wakeHaveUpdatesRunning(t) \/ wakeWaiting(t)
  BY <1>3 DEF wakeUpWaitingThreads, wakeHaveUpdatesRunning, wakeWaiting, OnlyControl
<1>4. CASE \/ checkProcessingBlocked(t) \/ checkExclusiveAccess(t)
           \/ checkBalance(t) \/ evaluateExternalJobs(t) \/ checkExclusiveAgain(t)
  BY <1>4 DEF checkProcessingBlocked, checkExclusiveAccess, checkBalance,
              evaluateExternalJobs, checkExclusiveAgain, OnlyControl
<1>5. CASE leaveStrokesQueue(t) \/ tryProcessUpdatesQueue(t) \/ leaveUpdatesQueue(t)
  BY <1>5 DEF leaveStrokesQueue, tryProcessUpdatesQueue, leaveUpdatesQueue, OnlyControl
<1>6. QED
  BY <1>1, <1>2, <1>3, <1>4, <1>5 DEF processQueues

\* blockUpdates() and unblockUpdates() leave the slots alone.
LEMMA BlockKeepsSlots ==
    ASSUME NEW t \in Threads, blockUpdates(t)
    PROVE  UNCHANGED contextVars
  BY DEF blockUpdates, blockInitWaiting, blockRef, blockHaveUpdatesRunning, blockWait,
         blockWoken, blockEndWaiting, updateWhileBlocked, unblockUpdates, OnlyControl

\* Of the clients' methods, only fullRefresh() fills a slot.
LEMMA ClientFills ==
    ASSUME NEW c \in Clients, client(c)
    PROVE  \/ UNCHANGED contextVars
           \/ pc[c] = "refreshAdd" /\ \E area \in Areas : addItem(MERGE(area))
<1>1. CASE updateProjection(c) \/ addSpontaneousJob(c) \/ strokeMethod(c)
  BY <1>1 DEF updateProjection, addSpontaneousJob, strokeMethod
<1>2. CASE clientBlockUpdates(c) \/ lock(c) \/ unlock(c) \/ waitForDone(c)
  BY <1>2 DEF clientBlockUpdates, lock, unlock, waitForDone, setProcessingBlocked,
              OnlyControl
<1>3. CASE barrierLock(c) \/ tryBarrierLock(c)
  BY <1>3 DEF barrierLock, tryBarrierLock, setProcessingBlocked, OnlyControl
<1>4. CASE fullRefresh(c)
  BY <1>4 DEF fullRefresh, setProcessingBlocked, OnlyControl
<1>5. QED
  BY <1>1, <1>2, <1>3, <1>4 DEF client
(***************************************************************************)
(* Control.                                                                *)
(***************************************************************************)
\* A worker that moves inside processQueues() or blockUpdates(), or returns,
\* keeps its slot.
LEMMA QueueStepControl ==
    ASSUME TypeOK, Control, NEW t \in Threads, processQueues(t) \/ blockUpdates(t)
    PROVE  Control'
<1> USE DEF Processing, Blocking, Running, Refreshing
<1>1. on' = on
  BY ProcessFills, BlockKeepsSlots DEF addItem, contextVars
<1>2. pc \in [Threads -> Labels] /\ ret \in [Threads -> Labels]
  BY DEF TypeOK, ThreadsTypeOK
<1>3. Workers \subseteq Threads /\ Clients \subseteq Threads /\ Clients \cap Workers = {}
  BY SchedulerAssumption DEF Threads
<1>4. ASSUME NEW label \in Processing, pc[t] \in Processing, Moves(t, label, ret[t])
      PROVE  Control'
  BY <1>1, <1>2, <1>3, <1>4 DEF Control, WorkerControl, ClientControl, Moves
<1>5. ASSUME pc[t] \in Processing, Moves(t, ret[t], "idle")
      PROVE  Control'
  BY <1>1, <1>2, <1>3, <1>5 DEF Control, WorkerControl, ClientControl, Moves
<1>6. ASSUME NEW label \in Blocking, pc[t] \in Blocking, Moves(t, label, ret[t])
      PROVE  Control'
  BY <1>1, <1>2, <1>3, <1>6 DEF Control, WorkerControl, ClientControl, Moves
<1>7. ASSUME NEW r \in {"unblock", AfterBlock(t)}, pc[t] \in Blocking, Moves(t, "wake", r)
      PROVE  Control'
  BY <1>1, <1>2, <1>3, <1>7 DEF Control, WorkerControl, ClientControl, Moves, AfterBlock
<1>8. QED
  BY <1>4, <1>5, <1>6, <1>7, ProcessMoves, BlockMoves

\* So does one that moves inside run(), except that it enters and leaves.
LEMMA RunControl ==
    ASSUME TypeOK, Control, NEW w \in Workers, run(w)
    PROVE  Control'
<1> USE DEF Processing, Blocking, Running, Refreshing
<1>1. pc \in [Threads -> Labels] /\ ret \in [Threads -> Labels]
      /\ on \in [Workers -> Slots \cup {NoSlot}]
  BY DEF TypeOK, ThreadsTypeOK, ContextTypeOK
<1>2. Workers \subseteq Threads /\ Clients \subseteq Threads /\ Clients \cap Workers = {}
  BY SchedulerAssumption DEF Threads
<1>3. \/ pc[w] = "idle" /\ \E i \in Slots : on' = [on EXCEPT ![w] = i]
      \/ pc[w] = "release" /\ on' = [on EXCEPT ![w] = NoSlot]
      \/ pc[w] \in {"run", "body", "done"} /\ on' = on
  BY DEF run, takeSlot, take, lockExclusiveJob, runDirty, runBlocking, runPopulate,
         finishJob, setDone, releaseWorker, leaveRun, OnlyControl, contextVars
<1>4. ClientControl'
  BY <1>1, <1>2, RunMoves DEF Control, ClientControl, Moves
<1>5. WorkerControl'
  <2>1. CASE pc[w] = "idle"
    <3>1. PICK i \in Slots : on' = [on EXCEPT ![w] = i]
      BY <1>3, <2>1
    <3>2. i # NoSlot
      BY ContextAssumption DEF Slots, NoSlot
    <3>3. Moves(w, "run", ret[w])
      BY <2>1, RunMoves
    <3>4. QED
      BY <1>1, <1>2, <2>1, <3>1, <3>2, <3>3 DEF Control, WorkerControl, Moves
  <2>2. CASE pc[w] = "release"
    BY <1>1, <1>2, <1>3, <2>2, RunMoves DEF Control, WorkerControl, Moves
  <2>3. CASE pc[w] \in {"run", "body", "done"}
    BY <1>1, <1>2, <1>3, <2>3, RunMoves DEF Control, WorkerControl, Moves
  <2>4. QED
    BY <1>3, <2>1, <2>2, <2>3
<1>6. QED
  BY <1>4, <1>5 DEF Control

\* A client disturbs its own control only, and keeps to it.
LEMMA ClientStepControl ==
    ASSUME TypeOK, Control, NEW c \in Clients, client(c)
    PROVE  Control'
<1> USE DEF Processing, Blocking, Running, Refreshing, Waits
<1>1. pc \in [Threads -> Labels] /\ ret \in [Threads -> Labels]
  BY DEF TypeOK, ThreadsTypeOK
<1>2. c \in Threads /\ Workers \subseteq Threads /\ Clients \subseteq Threads
      /\ Clients \cap Workers = {}
  BY SchedulerAssumption DEF Threads
<1>3. on' = on
  BY ClientFills DEF addItem, contextVars
<1>4. \E label, r : Moves(c, label, r)
  BY ClientMoves
<1>5. WorkerControl'
  BY <1>1, <1>2, <1>3, <1>4 DEF Control, WorkerControl, Moves
<1>6. ClientControl'
  <2>1. ASSUME NEW r \in {"idle", "locked", "doneWait", "barrierBlock"},
               Moves(c, "wake", r)
        PROVE  ClientControl'
    BY <1>1, <1>2, <2>1 DEF Control, ClientControl, Moves
  <2>2. ASSUME pc[c] \in Waits, NEW label \in Waits \cup {"block"}, Moves(c, label, ret[c])
        PROVE  ClientControl'
    BY <1>1, <1>2, <2>2 DEF Control, ClientControl, Moves
  <2>3. ASSUME NEW label \in Refreshing, NEW r \in {"idle", "locked", "unlock"},
               Moves(c, label, r)
        PROVE  ClientControl'
    BY <1>1, <1>2, <2>3 DEF Control, ClientControl, Moves
  <2>4. ASSUME pc[c] \in Refreshing, Moves(c, ret[c], "idle")
        PROVE  ClientControl'
    BY <1>1, <1>2, <2>4 DEF Control, ClientControl, Moves
  <2>5. pc[c] \in Refreshing => ret[c] \in {"idle", "locked", "unlock"}
    BY DEF Control, ClientControl
  <2>6. QED
    BY <2>1, <2>2, <2>3, <2>4, <2>5, ClientMoves
<1>7. QED
  BY <1>5, <1>6 DEF Control

\* The threads keep to their places.
LEMMA ControlStep ==
    ASSUME TypeOK, Control, [Next]_vars
    PROVE  Control'
<1>1. CASE UNCHANGED vars
  BY <1>1 DEF vars, threadVars, contextVars, Control, WorkerControl, ClientControl
<1>2. CASE Next
  BY <1>1, <1>2, QueueStepControl, RunControl, ClientStepControl DEF Next, Rest
<1>3. QED
  BY <1>1, <1>2

\* All threads begin idle, the workers in the pool.
LEMMA ControlInit == Init => Control
  BY DEF Init, ContextInit, Control, WorkerControl, ClientControl, Threads, Processing,
         Blocking, Running, Refreshing

\* A worker is on a slot exactly while it is inside run(), and no thread
\* returns from processQueues() into the middle of a method.
THEOREM ControlCorrect == Spec => []Control
<1>1. Init => Control
  BY ControlInit
<1>2. TypeOK /\ Control /\ [Next]_vars => Control'
  BY ControlStep
<1>3. QED
  BY <1>1, <1>2, TypeCorrect, PTL DEF Spec
(***************************************************************************)
(* One runner per job.                                                     *)
(***************************************************************************)
\* Whether a worker has emptied its slot and is on its way out of run().
Leaving(w) == pc[w] = "release" \/ ret[w] = "release"

\* Where no worker changes its slot, nor empties it, the runners stay.
LEMMA RunnersStable ==
    ASSUME on' = on, \A w \in Workers : Leaving(w)' <=> Leaving(w)
    PROVE  \A i \in Slots : Runners(i)' = Runners(i)
  BY DEF Runners, Leaving

\* Filling the spare slot that goes to the pool keeps one runner per job.
LEMMA FillKeepsRunners ==
    ASSUME OneRunnerPerJob, ContextTypeOK,
           NEW item, item.type # "EMPTY", addItem(item),
           \A i \in Slots : Runners(i)' = Runners(i)
    PROVE  OneRunnerPerJob'
<1>1. PICK n \in Slots :
          /\ ~isRunning(n)
          /\ m_jobs' = [m_jobs EXCEPT ![n] = item]
          /\ started' = started \cup {n}
  BY DEF addItem, isSpareThread
<1>2. ASSUME NEW i \in Slots
      PROVE  /\ isRunning(i)' <=> i \in started' \/ Runners(i)' # {}
             /\ i \in started' => Runners(i)' = {}
             /\ \A v, w \in Runners(i)' : v = w
  <2>1. CASE i = n
    BY <1>1, <2>1 DEF OneRunnerPerJob, isRunning, ContextTypeOK
  <2>2. CASE i # n
    BY <1>1, <2>2 DEF OneRunnerPerJob, isRunning, ContextTypeOK
  <2>3. QED
    BY <2>1, <2>2
<1>3. QED
  BY <1>2 DEF OneRunnerPerJob

\* The items that the queues and fullRefresh() put into a slot are not empty.
LEMMA FilledItems ==
    /\ \A item \in StrokeItems \cup SpontaneousItems : item.type # "EMPTY"
    /\ \A area \in Areas : MERGE(area).type # "EMPTY"
  BY DEF StrokeItems, SpontaneousItems, MERGE

\* A thread that processes the queues fills spare slots only.
LEMMA ProcessRunners ==
    ASSUME TypeOK, Control, OneRunnerPerJob, NEW t \in Threads, processQueues(t)
    PROVE  OneRunnerPerJob'
<1>1. pc \in [Threads -> Labels] /\ ret \in [Threads -> Labels] /\ ContextTypeOK
  BY DEF TypeOK, ThreadsTypeOK
<1>2. on' = on
  BY ProcessFills DEF addItem, contextVars
<1>3. \A w \in Workers : Leaving(w)' <=> Leaving(w)
  <2>1. Workers \subseteq Threads
    BY DEF Threads
  <2>2. ASSUME NEW label \in Processing, Moves(t, label, ret[t])
        PROVE  \A w \in Workers : Leaving(w)' <=> Leaving(w)
    BY <1>1, <2>1, <2>2, ProcessMoves DEF Leaving, Moves, Processing
  <2>3. ASSUME Moves(t, ret[t], "idle")
        PROVE  \A w \in Workers : Leaving(w)' <=> Leaving(w)
    BY <1>1, <2>1, <2>3, ProcessMoves DEF Leaving, Moves, Processing
  <2>4. QED
    BY <2>2, <2>3, ProcessMoves
<1>4. \A i \in Slots : Runners(i)' = Runners(i)
  BY <1>2, <1>3, RunnersStable
<1>5. CASE UNCHANGED contextVars
  BY <1>4, <1>5 DEF OneRunnerPerJob, isRunning, contextVars
<1>6. CASE \E item \in StrokeItems \cup SpontaneousItems : addItem(item)
  BY <1>1, <1>4, <1>6, FilledItems, FillKeepsRunners
<1>7. CASE \E area \in Areas : addItem(MERGE(area))
  BY <1>1, <1>4, <1>7, FilledItems, FillKeepsRunners
<1>8. QED
  BY <1>5, <1>6, <1>7, ProcessFills

\* A thread that blocks or unblocks updates stays the runner it was.
LEMMA BlockRunners ==
    ASSUME TypeOK, Control, OneRunnerPerJob, NEW t \in Threads, blockUpdates(t)
    PROVE  OneRunnerPerJob'
<1> USE DEF Blocking
<1>1. pc \in [Threads -> Labels] /\ ret \in [Threads -> Labels] /\ Workers \subseteq Threads
  BY DEF TypeOK, ThreadsTypeOK, Threads
<1>2. UNCHANGED contextVars
  BY BlockKeepsSlots
<1>3. t \in Workers => ret[t] = "idle"
  BY BlockMoves DEF Control, WorkerControl, Processing
<1>4. \A w \in Workers : Leaving(w)' <=> Leaving(w)
  BY <1>1, <1>3, BlockMoves DEF Leaving, Moves, AfterBlock
<1>5. \A i \in Slots : Runners(i)' = Runners(i)
  BY <1>2, <1>4, RunnersStable DEF contextVars
<1>6. QED
  BY <1>2, <1>5 DEF OneRunnerPerJob, isRunning, contextVars

\* A client is no runner.
LEMMA ClientRunners ==
    ASSUME TypeOK, Control, OneRunnerPerJob, NEW c \in Clients, client(c)
    PROVE  OneRunnerPerJob'
<1>1. pc \in [Threads -> Labels] /\ ret \in [Threads -> Labels] /\ ContextTypeOK
  BY DEF TypeOK, ThreadsTypeOK
<1>2. c \notin Workers /\ Workers \subseteq Threads /\ c \in Threads
  BY SchedulerAssumption DEF Threads
<1>3. on' = on
  BY ClientFills DEF addItem, contextVars
<1>4. \E label, r : Moves(c, label, r)
  BY ClientMoves
<1>5. \A w \in Workers : Leaving(w)' <=> Leaving(w)
  BY <1>1, <1>2, <1>4 DEF Leaving, Moves
<1>6. \A i \in Slots : Runners(i)' = Runners(i)
  BY <1>3, <1>5, RunnersStable
<1>7. CASE UNCHANGED contextVars
  BY <1>6, <1>7 DEF OneRunnerPerJob, isRunning, contextVars
<1>8. CASE \E area \in Areas : addItem(MERGE(area))
  BY <1>1, <1>6, <1>8, FilledItems, FillKeepsRunners
<1>9. QED
  BY <1>7, <1>8, ClientFills

\* A worker becomes the runner of a started slot, executes its job, empties it
\* and leaves it to whoever comes next.
LEMMA RunRunners ==
    ASSUME TypeOK, Control, OneRunnerPerJob, NEW w \in Workers, run(w)
    PROVE  OneRunnerPerJob'
<1>1. pc \in [Threads -> Labels] /\ ret \in [Threads -> Labels] /\ ContextTypeOK
      /\ on \in [Workers -> Slots \cup {NoSlot}]
  BY DEF TypeOK, ThreadsTypeOK, ContextTypeOK
<1>2. Workers \subseteq Threads /\ NoSlot \notin Slots
  BY ContextAssumption DEF Threads, Slots, NoSlot
<1>3. pc[w] \in Running \cup {"idle"} => ret[w] = "idle"
  BY DEF Control, WorkerControl, Processing, Running
<1>4. CASE takeSlot(w)
  <2>1. PICK n \in Slots : n \in started /\ started' = started \ {n}
                           /\ on' = [on EXCEPT ![w] = n] /\ m_jobs' = m_jobs
    BY <1>4 DEF takeSlot, take
  <2>2. pc[w] = "idle" /\ on[w] = NoSlot /\ pc' = [pc EXCEPT ![w] = "run"] /\ ret' = ret
    BY <1>4 DEF takeSlot, Goto, Control, WorkerControl
  <2>3. Runners(n) = {} /\ Runners(n)' = {w}
    BY <1>1, <1>2, <1>3, <2>1, <2>2 DEF Runners, OneRunnerPerJob, Running
  <2>4. \A i \in Slots : i # n => Runners(i)' = Runners(i)
    BY <1>1, <1>2, <2>1, <2>2 DEF Runners
  <2>5. QED
    BY <2>1, <2>3, <2>4 DEF OneRunnerPerJob, isRunning
<1>5. CASE finishJob(w)
  <2>1. /\ pc[w] \in {"done", "body"}
        /\ m_jobs' = [m_jobs EXCEPT ![on[w]] = EMPTY] /\ started' = started /\ on' = on
        /\ pc' = [pc EXCEPT ![w] = "wake"] /\ ret' = [ret EXCEPT ![w] = "release"]
    BY <1>5 DEF finishJob, setDone, Call
  <2>2. on[w] \in Slots /\ w \in Runners(on[w])
    BY <1>1, <1>3, <2>1 DEF Control, WorkerControl, Runners, Running
  <2>3. Runners(on[w])' = {} /\ on[w] \notin started
    BY <1>1, <1>2, <2>1, <2>2 DEF Runners, OneRunnerPerJob
  <2>4. \A i \in Slots : i # on[w] => Runners(i)' = Runners(i)
    BY <1>1, <1>2, <2>1 DEF Runners
  <2>5. m_jobs'[on[w]].type = "EMPTY" /\ \A i \in Slots : i # on[w] => m_jobs'[i] = m_jobs[i]
    BY <1>1, <2>1, <2>2 DEF EMPTY, ContextTypeOK
  <2>6. QED
    BY <2>1, <2>2, <2>3, <2>4, <2>5 DEF OneRunnerPerJob, isRunning
<1>6. CASE releaseWorker(w)
  <2>1. /\ pc[w] = "release" /\ on' = [on EXCEPT ![w] = NoSlot]
        /\ m_jobs' = m_jobs /\ started' = started
        /\ pc' = [pc EXCEPT ![w] = "idle"] /\ ret' = ret
    BY <1>6 DEF releaseWorker, leaveRun, Goto
  <2>2. \A i \in Slots : Runners(i)' = Runners(i)
    BY <1>1, <1>2, <2>1 DEF Runners
  <2>3. QED
    BY <2>1, <2>2 DEF OneRunnerPerJob, isRunning
<1>7. CASE lockExclusiveJob(w) \/ runDirty(w) \/ runBlocking(w) \/ runPopulate(w)
  <2>1. m_jobs' = m_jobs /\ started' = started /\ on' = on
    BY <1>7 DEF lockExclusiveJob, runDirty, runBlocking, runPopulate, OnlyControl,
                contextVars
  <2>2. /\ pc[w] \in {"run", "body"}
        /\ \E label \in {"run", "body", "wake", "block"}, r \in {"idle", "done"} :
               Moves(w, label, r)
    <3>1. w \in Threads
      BY <1>2
    <3>2. ASSUME NEW label, Goto(w, label) PROVE Moves(w, label, ret[w])
      BY <1>1, <3>1, <3>2, GotoMoves DEF TypeOK
    <3>3. pc[w] \in {"run", "body"}
      BY <1>7 DEF lockExclusiveJob, runDirty, runBlocking, runPopulate
    <3>4. CASE lockExclusiveJob(w)
      BY <1>1, <1>3, <3>1, <3>2, <3>3, <3>4
         DEF lockExclusiveJob, threadVars, Moves, Running
    <3>5. CASE runDirty(w) \/ runBlocking(w) \/ runPopulate(w)
      BY <1>3, <3>2, <3>3, <3>5 DEF runDirty, runBlocking, runPopulate, Call, Moves, Running
    <3>6. QED
      BY <1>7, <3>3, <3>4, <3>5
  <2>3. \A v \in Workers : Leaving(v)' <=> Leaving(v)
    BY <1>1, <1>2, <1>3, <2>2 DEF Leaving, Moves, Running
  <2>4. QED
    BY <2>1, <2>3, RunnersStable DEF OneRunnerPerJob, isRunning
<1>8. QED
  BY <1>4, <1>5, <1>6, <1>7 DEF run

(***************************************************************************)
(* Every job is executed by one thread, although its slot may be filled    *)
(* and started again while that thread is still inside run().              *)
(***************************************************************************)
THEOREM OneRunner == Spec => []OneRunnerPerJob
<1>1. Init => OneRunnerPerJob
  <2>1. ASSUME Init PROVE OneRunnerPerJob
    <3>1. NoSlot \notin Slots
      BY ContextAssumption DEF Slots, NoSlot
    <3>2. /\ started = {} /\ \A i \in Slots : m_jobs[i].type = "EMPTY"
          /\ \A w \in Workers : on[w] = NoSlot
      BY <2>1 DEF Init, ContextInit, EMPTY
    <3>3. \A i \in Slots : Runners(i) = {}
      BY <3>1, <3>2 DEF Runners
    <3>4. QED
      BY <3>2, <3>3 DEF OneRunnerPerJob, isRunning
  <2>2. QED
    BY <2>1
<1>2. TypeOK /\ Control /\ OneRunnerPerJob /\ [Next]_vars => OneRunnerPerJob'
  <2>1. ASSUME OneRunnerPerJob, UNCHANGED vars PROVE OneRunnerPerJob'
    BY <2>1 DEF vars, contextVars, threadVars, OneRunnerPerJob, Runners, isRunning
  <2>2. QED
    BY <2>1, ProcessRunners, BlockRunners, ClientRunners, RunRunners DEF Next, Rest
<1>3. QED
  BY <1>1, <1>2, TypeCorrect, ControlCorrect, PTL DEF Spec
(***************************************************************************)
(* The counters of blockUpdates().                                         *)
(***************************************************************************)
WaitLabels == {"blockRef", "blockCheck", "blockWait", "blockSleep", "blockEnd"}
HoldLabels ==
    {"blockCheck", "blockWait", "blockSleep", "blockEnd", "blocked", "unblock"}

\* A thread that moves joins or leaves those that wait and those that hold.
LEMMA SetsMove ==
    ASSUME ThreadsTypeOK, NEW t \in Threads, NEW label, NEW r, Moves(t, label, r)
    PROVE  /\ label \in WaitLabels => Waiting' = Waiting \cup {t}
           /\ label \notin WaitLabels => Waiting' = Waiting \ {t}
           /\ label \in HoldLabels \/ r = "unblock" => Holding' = Holding \cup {t}
           /\ label \notin HoldLabels /\ r # "unblock" => Holding' = Holding \ {t}
  BY DEF ThreadsTypeOK, Moves, Waiting, Holding, WaitLabels, HoldLabels

\* There are finitely many threads, so both sets can be counted.
LEMMA SetsFinite ==
    /\ IsFiniteSet(Waiting) /\ Cardinality(Waiting) \in Nat
    /\ IsFiniteSet(Holding) /\ Cardinality(Holding) \in Nat
<1>1. IsFiniteSet(Threads)
  BY SchedulerAssumption, FS_Union DEF Threads
<1>2. Waiting \subseteq Threads /\ Holding \subseteq Threads
  BY DEF Waiting, Holding
<1>3. QED
  BY <1>1, <1>2, FS_Subset, FS_CardinalityType

\* processQueues() changes no counter and nobody's membership.
LEMMA ProcessCounts ==
    ASSUME TypeOK, Control, NEW t \in Threads, processQueues(t)
    PROVE  /\ Waiting' = Waiting /\ Holding' = Holding
           /\ waitCounter' = waitCounter /\ updatesLockCounter' = updatesLockCounter
<1> USE DEF Processing
<1>1. waitCounter' = waitCounter /\ updatesLockCounter' = updatesLockCounter
  <2>1. CASE wakeWaiting(t)
    BY <2>1 DEF wakeWaiting, wakeAll, conditionVars, flagVars
  <2>2. CASE ~wakeWaiting(t)
    BY <2>2 DEF processQueues, wakeUpWaitingThreads, wakeHaveUpdatesRunning,
                checkProcessingBlocked, checkExclusiveAccess, checkBalance,
                evaluateExternalJobs, processStrokesQueue, leaveStrokesQueue,
                checkExclusiveAgain, tryProcessUpdatesQueue, processUpdatesQueue,
                leaveUpdatesQueue, OnlyControl, conditionVars, flagVars
  <2>3. QED
    BY <2>1, <2>2
<1>2. ThreadsTypeOK /\ pc[t] \in Processing
  BY ProcessMoves DEF TypeOK
<1>3. ret[t] \in {"unblock", "done", "release", "idle", "locked", "doneWait", "barrierBlock"}
  BY <1>2 DEF Control, WorkerControl, ClientControl, Threads
<1>4. t \notin Waiting /\ (t \in Holding <=> ret[t] = "unblock")
  BY <1>2 DEF Waiting, Holding
<1>5. ASSUME NEW label \in Processing, Moves(t, label, ret[t])
      PROVE  Waiting' = Waiting /\ Holding' = Holding
  BY <1>2, <1>4, <1>5, SetsMove DEF WaitLabels, HoldLabels
<1>6. ASSUME Moves(t, ret[t], "idle")
      PROVE  Waiting' = Waiting /\ Holding' = Holding
  BY <1>2, <1>3, <1>4, <1>6, SetsMove DEF WaitLabels, HoldLabels
<1>7. QED
  BY <1>1, <1>5, <1>6, ProcessMoves

\* Nor does a client in a method of its own.
LEMMA ClientCounts ==
    ASSUME TypeOK, Control, NEW c \in Clients, client(c)
    PROVE  /\ Waiting' = Waiting /\ Holding' = Holding
           /\ waitCounter' = waitCounter /\ updatesLockCounter' = updatesLockCounter
<1> USE DEF Processing, Refreshing, Waits
<1>1. waitCounter' = waitCounter /\ updatesLockCounter' = updatesLockCounter
  BY DEF client, updateProjection, addSpontaneousJob, strokeMethod, clientBlockUpdates,
         lock, unlock, waitForDone, barrierLock, tryBarrierLock, fullRefresh,
         setProcessingBlocked, OnlyControl, conditionVars, flagVars
<1>2. ThreadsTypeOK /\ c \in Threads
  BY DEF TypeOK, Threads
<1>3. /\ pc[c] \in Waits => ret[c] = "idle"
      /\ pc[c] \in Refreshing => ret[c] \in {"idle", "locked", "unlock"}
  BY DEF Control, ClientControl
<1>4. c \notin Waiting /\ c \notin Holding
  BY <1>3, ClientMoves DEF Waiting, Holding
<1>5. \E label, r :
          /\ Moves(c, label, r)
          /\ label \notin WaitLabels \cup HoldLabels /\ r # "unblock"
  BY <1>3, ClientMoves DEF WaitLabels, HoldLabels
<1>6. QED
  BY <1>1, <1>2, <1>4, <1>5, SetsMove

\* Nor does a worker inside run() itself.
LEMMA RunCounts ==
    ASSUME TypeOK, Control, NEW w \in Workers, run(w)
    PROVE  /\ Waiting' = Waiting /\ Holding' = Holding
           /\ waitCounter' = waitCounter /\ updatesLockCounter' = updatesLockCounter
<1>1. waitCounter' = waitCounter /\ updatesLockCounter' = updatesLockCounter
  BY DEF run, takeSlot, lockExclusiveJob, runDirty, runBlocking, runPopulate, finishJob,
         releaseWorker, OnlyControl, conditionVars, flagVars
<1>2. ThreadsTypeOK /\ w \in Threads
  BY DEF TypeOK, Threads
<1>3. pc[w] \in {"idle", "run", "body", "done", "release"} /\ ret[w] = "idle"
  BY RunMoves DEF Control, WorkerControl, Processing
<1>4. w \notin Waiting /\ w \notin Holding
  BY <1>3 DEF Waiting, Holding
<1>5. \E label, r :
          /\ Moves(w, label, r)
          /\ label \notin WaitLabels \cup HoldLabels /\ r # "unblock"
  BY <1>3, RunMoves DEF WaitLabels, HoldLabels
<1>6. QED
  BY <1>1, <1>2, <1>4, <1>5, SetsMove

\* A thread inside blockUpdates() raises and lowers both counters with its own
\* membership.
LEMMA BlockCounts ==
    ASSUME TypeOK, Control, BlockersCounted, NEW t \in Threads, blockUpdates(t)
    PROVE  BlockersCounted'
<1> USE DEF WaitLabels, HoldLabels
<1>1. ThreadsTypeOK /\ updatesLockCounter \in Int /\ waitCounter \in Int
  BY DEF TypeOK, FlagsTypeOK, ConditionTypeOK
<1>2. pc[t] \in Blocking => ret[t] = "idle"
  BY DEF Control, WorkerControl, ClientControl, Threads, Blocking, Processing, Refreshing
<1>3. ASSUME NEW label, Goto(t, label) PROVE Moves(t, label, ret[t])
  BY <1>1, <1>3, GotoMoves
<1>4. CASE blockInitWaiting(t)
  <2>1. Moves(t, "blockRef", "idle") /\ t \notin Waiting /\ t \notin Holding
    BY <1>2, <1>3, <1>4 DEF blockInitWaiting, Blocking, Waiting, Holding
  <2>2. waitCounter' = waitCounter + 1 /\ updatesLockCounter' = updatesLockCounter
    BY <1>4 DEF blockInitWaiting, initWaiting, flagVars
  <2>3. Waiting' = Waiting \cup {t} /\ Holding' = Holding
    BY <1>1, <2>1, SetsMove
  <2>4. QED
    BY <2>1, <2>2, <2>3, SetsFinite, FS_AddElement DEF BlockersCounted
<1>5. CASE blockRef(t)
  <2>1. Moves(t, "blockCheck", "idle") /\ t \in Waiting /\ t \notin Holding
    BY <1>2, <1>3, <1>5 DEF blockRef, Blocking, Waiting, Holding
  <2>2. waitCounter' = waitCounter /\ updatesLockCounter' = updatesLockCounter + 1
    BY <1>5 DEF blockRef, conditionVars
  <2>3. Waiting' = Waiting /\ Holding' = Holding \cup {t}
    BY <1>1, <2>1, SetsMove
  <2>4. QED
    BY <2>1, <2>2, <2>3, SetsFinite, FS_AddElement DEF BlockersCounted
<1>6. CASE blockHaveUpdatesRunning(t) \/ blockWait(t) \/ blockWoken(t)
  <2>1. /\ \E label \in {"blockEnd", "blockWait", "blockCheck", "blockSleep"} :
               Moves(t, label, "idle")
        /\ t \in Waiting /\ t \in Holding
    BY <1>2, <1>3, <1>6
       DEF blockHaveUpdatesRunning, blockWait, blockWoken, Blocking, Waiting, Holding
  <2>2. waitCounter' = waitCounter /\ updatesLockCounter' = updatesLockCounter
    BY <1>6 DEF blockHaveUpdatesRunning, blockWait, blockWoken, waitConsume, waitSleep,
                waitReturn, OnlyControl, conditionVars, flagVars
  <2>3. Waiting' = Waiting /\ Holding' = Holding
    BY <1>1, <2>1, SetsMove
  <2>4. QED
    BY <2>2, <2>3 DEF BlockersCounted
<1>7. CASE blockEndWaiting(t)
  <2>1. Moves(t, "blocked", "idle") /\ t \in Waiting /\ t \in Holding
    BY <1>2, <1>3, <1>7 DEF blockEndWaiting, Blocking, Waiting, Holding
  <2>2. waitCounter' = waitCounter - 1 /\ updatesLockCounter' = updatesLockCounter
    BY <1>7 DEF blockEndWaiting, endWaiting, flagVars
  <2>3. Waiting' = Waiting \ {t} /\ Holding' = Holding
    BY <1>1, <2>1, SetsMove
  <2>4. QED
    BY <2>1, <2>2, <2>3, SetsFinite, FS_RemoveElement DEF BlockersCounted
<1>8. CASE updateWhileBlocked(t)
  <2>1. Moves(t, "wake", "unblock") /\ t \notin Waiting /\ t \in Holding
    BY <1>8 DEF updateWhileBlocked, Call, Moves, Waiting, Holding
  <2>2. waitCounter' = waitCounter /\ updatesLockCounter' = updatesLockCounter
    BY <1>8 DEF updateWhileBlocked, conditionVars, flagVars
  <2>3. Waiting' = Waiting /\ Holding' = Holding
    BY <1>1, <2>1, SetsMove
  <2>4. QED
    BY <2>2, <2>3 DEF BlockersCounted
<1>9. CASE unblockUpdates(t)
  <2>1. Moves(t, "wake", AfterBlock(t)) /\ t \notin Waiting /\ t \in Holding
    BY <1>2, <1>9 DEF unblockUpdates, Call, Moves, Blocking, Waiting, Holding
  <2>2. waitCounter' = waitCounter /\ updatesLockCounter' = updatesLockCounter - 1
    BY <1>9 DEF unblockUpdates, conditionVars
  <2>3. Waiting' = Waiting /\ Holding' = Holding \ {t}
    BY <1>1, <2>1, SetsMove DEF AfterBlock
  <2>4. QED
    BY <2>1, <2>2, <2>3, SetsFinite, FS_RemoveElement DEF BlockersCounted
<1>10. QED
  BY <1>4, <1>5, <1>6, <1>7, <1>8, <1>9 DEF blockUpdates

(***************************************************************************)
(* The counters of blockUpdates() are the numbers of threads that wait and *)
(* that hold updates blocked: neither drifts, whoever blocks or unblocks.  *)
(***************************************************************************)
THEOREM CountersExact == Spec => []BlockersCounted
<1>1. Init => BlockersCounted
  <2>1. ASSUME Init PROVE Waiting = {} /\ Holding = {}
    BY <2>1 DEF Init, Waiting, Holding
  <2>2. QED
    BY <2>1, FS_EmptySet DEF Init, ConditionInit, BlockersCounted
<1>2. TypeOK /\ Control /\ BlockersCounted /\ [Next]_vars => BlockersCounted'
  <2>1. ASSUME BlockersCounted, UNCHANGED vars PROVE BlockersCounted'
    BY <2>1 DEF vars, conditionVars, flagVars, threadVars, BlockersCounted, Waiting, Holding
  <2>2. QED
    BY <2>1, ProcessCounts, ClientCounts, RunCounts, BlockCounts
       DEF Next, Rest, BlockersCounted
<1>3. QED
  BY <1>1, <1>2, TypeCorrect, ControlCorrect, PTL DEF Spec
(***************************************************************************)
(* Blocked updates stay blocked, and merges stay apart, as long as nobody  *)
(* calls the synchronous fullRefresh(), which starts its merge past the    *)
(* queues and past the counter.                                            *)
(***************************************************************************)
NoRefresh == "fullRefresh" \notin Operations \cup LockedOperations

NobodyRefreshes == \A c \in Clients : pc[c] \notin Refreshing

\* A thread that has blocked updates shuts out the readers of updatesStartLock
\* too: they read the counter before it was raised and might start a merge.
Sealed == \A t \in Threads : HasBlocked(t) => MergeJobs = {} /\ NoReader

\* Nobody gets into a synchronous refresh.
LEMMA RefreshStep ==
    ASSUME NoRefresh, TypeOK, Control, NobodyRefreshes, [Next]_vars
    PROVE  NobodyRefreshes'
<1> USE DEF Processing, Blocking, Running, Refreshing, Waits
<1>1. pc \in [Threads -> Labels] /\ ret \in [Threads -> Labels]
      /\ Clients \subseteq Threads /\ Clients \cap Workers = {}
  BY SchedulerAssumption DEF TypeOK, ThreadsTypeOK, Threads
<1>2. CASE UNCHANGED vars
  BY <1>2 DEF vars, threadVars, NobodyRefreshes
<1>3. ASSUME NEW t \in Threads, processQueues(t) PROVE NobodyRefreshes'
  <2>1. t \in Clients => ret[t] \notin Refreshing
    BY <1>3, ProcessMoves DEF Control, ClientControl
  <2>2. QED
    BY <1>1, <1>3, <2>1, ProcessMoves DEF NobodyRefreshes, Moves
<1>4. ASSUME NEW t \in Threads, blockUpdates(t) PROVE NobodyRefreshes'
  BY <1>1, <1>4, BlockMoves DEF NobodyRefreshes, Moves
<1>5. ASSUME NEW w \in Workers, run(w) PROVE NobodyRefreshes'
  BY <1>1, <1>5, RunMoves DEF NobodyRefreshes, Moves
<1>6. ASSUME NEW c \in Clients, client(c) PROVE NobodyRefreshes'
  BY <1>1, <1>6, ClientMoves DEF NobodyRefreshes, NoRefresh, Moves
<1>7. QED
  BY <1>2, <1>3, <1>4, <1>5, <1>6 DEF Next, Rest, vars

\* updatesStartLock is taken for reading only while nobody holds updates blocked.
LEMMA ReaderEnters ==
    ASSUME TypeOK, NEW t \in Threads, processQueues(t), NoReader, updatesLockCounter # 0,
           ret[t] \notin {"updatesLock", "updates"}
    PROVE  pc'[t] \notin {"updatesLock", "updates"}
<1> USE DEF TypeOK
<1>1. pc \in [Threads -> Labels] /\ ret \in [Threads -> Labels]
  BY DEF ThreadsTypeOK
<1>2. CASE wakeUpWaitingThreads(t) \/ wakeHaveUpdatesRunning(t) \/ wakeWaiting(t)
  BY <1>1, <1>2 DEF wakeUpWaitingThreads, wakeHaveUpdatesRunning, wakeWaiting, Goto
<1>3. CASE checkProcessingBlocked(t) \/ checkExclusiveAgain(t)
  BY <1>1, <1>3 DEF checkProcessingBlocked, checkExclusiveAgain, Goto, Return
<1>4. CASE checkExclusiveAccess(t) \/ checkBalance(t) \/ evaluateExternalJobs(t)
  BY <1>1, <1>4 DEF checkExclusiveAccess, checkBalance, evaluateExternalJobs, Goto
<1>5. CASE processStrokesQueue(t) \/ leaveStrokesQueue(t)
  BY <1>1, <1>5 DEF processStrokesQueue, leaveStrokesQueue, Goto, Return
<1>6. CASE tryProcessUpdatesQueue(t)
  BY <1>1, <1>6 DEF tryProcessUpdatesQueue, AfterUpdates, Goto, Return
<1>7. CASE processUpdatesQueue(t) \/ leaveUpdatesQueue(t)
  BY <1>7 DEF processUpdatesQueue, leaveUpdatesQueue, InUpdatesLoop, NoReader
<1>8. QED
  BY <1>2, <1>3, <1>4, <1>5, <1>6, <1>7 DEF processQueues

\* A thread that processes the queues starts no merge while updates are blocked.
LEMMA ProcessSealed ==
    ASSUME TypeOK, Control, BlockersCounted, Sealed, NEW t \in Threads, processQueues(t)
    PROVE  Sealed'
<1>1. pc \in [Threads -> Labels] /\ ret \in [Threads -> Labels] /\ ContextTypeOK
  BY DEF TypeOK, ThreadsTypeOK
<1>2. ret[t] \in {"unblock", "done", "release", "idle", "locked", "doneWait", "barrierBlock"}
      /\ pc[t] \in Processing
  BY ProcessMoves DEF Control, WorkerControl, ClientControl, Threads
<1>3. \A u \in Threads : HasBlocked(u)' => HasBlocked(u)
  BY <1>1, <1>2, ProcessMoves DEF HasBlocked, Moves, Processing
<1>4. ASSUME NEW u \in Threads, HasBlocked(u) PROVE MergeJobs' = {} /\ NoReader'
  <2>1. MergeJobs = {} /\ NoReader
    BY <1>4 DEF Sealed
  <2>2. updatesLockCounter # 0
    <3>1. u \in Holding
      BY <1>4 DEF HasBlocked, Holding
    <3>2. QED
      BY <3>1, SetsFinite, FS_EmptySet DEF BlockersCounted
  <2>3. pc[t] \notin {"updatesLock", "updates"}
    BY <2>1 DEF NoReader
  <2>4. pc'[t] \notin {"updatesLock", "updates"}
    BY <1>2, <2>1, <2>2, ReaderEnters
  <2>5. NoReader'
    <3>1. \A v \in Threads : v # t => pc'[v] = pc[v]
      BY <1>1, ProcessMoves DEF Moves
    <3>2. QED
      BY <2>1, <2>4, <3>1 DEF NoReader
  <2>6. MergeJobs' = {}
    <3>1. CASE UNCHANGED contextVars
      BY <2>1, <3>1 DEF contextVars, MergeJobs
    <3>2. CASE \E item \in StrokeItems : addItem(item)
      BY <1>1, <2>1, <3>2 DEF addItem, MergeJobs, StrokeItems, ContextTypeOK
    <3>3. QED
      BY <2>3, <3>1, <3>2, ProcessFills
  <2>7. QED
    BY <2>5, <2>6
<1>5. QED
  BY <1>3, <1>4 DEF Sealed

\* blockUpdates() returns when it has seen, with updatesStartLock held for
\* writing, that no update is running; the counter is up before it looks.
LEMMA BlockSealed ==
    ASSUME TypeOK, Control, Sealed, NEW t \in Threads, blockUpdates(t)
    PROVE  Sealed'
<1> USE DEF Blocking
<1>1. pc \in [Threads -> Labels] /\ ret \in [Threads -> Labels]
  BY DEF TypeOK, ThreadsTypeOK
<1>2. pc[t] \in Blocking /\ ret[t] = "idle"
  BY BlockMoves
     DEF Control, WorkerControl, ClientControl, Threads, Processing, Refreshing
<1>3. MergeJobs' = MergeJobs
  BY BlockKeepsSlots DEF contextVars, MergeJobs
<1>4. NoReader => NoReader'
  BY <1>1, BlockMoves DEF NoReader, Moves
<1>5. \A u \in Threads : u # t => (HasBlocked(u)' => HasBlocked(u))
  BY <1>1, BlockMoves DEF HasBlocked, Moves
<1>6. ASSUME HasBlocked(t)' PROVE HasBlocked(t) \/ (MergeJobs = {} /\ NoReader)
  <2>1. CASE blockHaveUpdatesRunning(t)
    BY <1>1, <1>2, <1>6, <2>1 DEF blockHaveUpdatesRunning, Goto, HasBlocked
  <2>2. CASE blockInitWaiting(t) \/ blockRef(t) \/ blockWait(t) \/ blockWoken(t)
    BY <1>1, <1>2, <1>6, <2>2
       DEF blockInitWaiting, blockRef, blockWait, blockWoken, Goto, HasBlocked
  <2>3. CASE blockEndWaiting(t) \/ updateWhileBlocked(t) \/ unblockUpdates(t)
    BY <1>1, <1>2, <1>6, <2>3
       DEF blockEndWaiting, updateWhileBlocked, unblockUpdates, Goto, Call, AfterBlock,
           HasBlocked
  <2>4. QED
    BY <2>1, <2>2, <2>3 DEF blockUpdates
<1>7. QED
  BY <1>3, <1>4, <1>5, <1>6 DEF Sealed

\* A worker inside run() only empties its slot.
LEMMA RunSealed ==
    ASSUME TypeOK, Control, Sealed, NEW w \in Workers, run(w)
    PROVE  Sealed'
<1>1. pc \in [Threads -> Labels] /\ ret \in [Threads -> Labels] /\ ContextTypeOK
      /\ w \in Threads
  BY DEF TypeOK, ThreadsTypeOK, Threads
<1>2. m_jobs' = m_jobs \/ m_jobs' = [m_jobs EXCEPT ![on[w]] = EMPTY]
  BY DEF run, takeSlot, take, lockExclusiveJob, runDirty, runBlocking, runPopulate,
         finishJob, setDone, releaseWorker, leaveRun, OnlyControl, contextVars
<1>3. MergeJobs' \subseteq MergeJobs
  BY <1>1, <1>2 DEF MergeJobs, EMPTY, ContextTypeOK
<1>4. ret[w] = "idle"
  BY RunMoves DEF Control, WorkerControl, Processing
<1>5. NoReader => NoReader'
  BY <1>1, RunMoves DEF NoReader, Moves
<1>6. \A u \in Threads : HasBlocked(u)' => HasBlocked(u)
  BY <1>1, <1>4, RunMoves DEF HasBlocked, Moves
<1>7. QED
  BY <1>3, <1>5, <1>6 DEF Sealed

\* A client that does not refresh neither fills a slot nor blocks at once.
LEMMA ClientSealed ==
    ASSUME NobodyRefreshes, TypeOK, Control, Sealed, NEW c \in Clients, client(c)
    PROVE  Sealed'
<1>1. pc \in [Threads -> Labels] /\ ret \in [Threads -> Labels] /\ c \in Threads
  BY DEF TypeOK, ThreadsTypeOK, Threads
<1>2. pc[c] \notin Refreshing /\ pc[c] \in Waits
  BY ClientMoves DEF NobodyRefreshes
<1>3. ret[c] = "idle"
  BY <1>2 DEF Control, ClientControl, Waits, Processing, Refreshing
<1>4. MergeJobs' = MergeJobs
  BY <1>2, ClientFills DEF contextVars, MergeJobs, Refreshing
<1>5. NoReader => NoReader'
  BY <1>1, <1>2, ClientMoves DEF NoReader, Moves, Waits
<1>6. \A u \in Threads : HasBlocked(u)' => HasBlocked(u)
  BY <1>1, <1>2, <1>3, ClientMoves DEF HasBlocked, Moves, Waits
<1>7. QED
  BY <1>4, <1>5, <1>6 DEF Sealed

(***************************************************************************)
(* "Blocks all the updates from execution": between blockUpdates() and     *)
(* unblockUpdates() no merge and no spontaneous job is in a slot.          *)
(***************************************************************************)
THEOREM BlockedUpdates == ASSUME NoRefresh PROVE Spec => []UpdatesStayBlocked
<1>1. Init => NobodyRefreshes /\ Sealed
  BY DEF Init, NobodyRefreshes, Sealed, HasBlocked, Threads, Refreshing
<1>2. TypeOK /\ Control /\ NobodyRefreshes /\ [Next]_vars => NobodyRefreshes'
  BY RefreshStep
<1>3. TypeOK /\ Control /\ BlockersCounted /\ NobodyRefreshes /\ Sealed /\ [Next]_vars
        => Sealed'
  <2>1. ASSUME Sealed, UNCHANGED vars PROVE Sealed'
    BY <2>1 DEF vars, contextVars, threadVars, Sealed, HasBlocked, MergeJobs, NoReader
  <2>2. QED
    BY <2>1, ProcessSealed, BlockSealed, RunSealed, ClientSealed DEF Next, Rest
<1>4. Sealed => UpdatesStayBlocked
  BY DEF Sealed, UpdatesStayBlocked
<1>5. QED
  BY <1>1, <1>2, <1>3, <1>4, TypeCorrect, ControlCorrect, CountersExact, PTL DEF Spec

\* The merge that may start next to the running ones is the one that was
\* checked against all of them: intersecting is mutual.
LEMMA AllowedMergeDisjoint ==
    ASSUME ContextTypeOK, MergesDisjoint, NEW area \in Areas,
           isJobAllowed(area), addItem(MERGE(area))
    PROVE  MergesDisjoint'
<1>1. PICK n \in Slots : m_jobs' = [m_jobs EXCEPT ![n] = MERGE(area)]
  BY DEF addItem
<1>2. ASSUME NEW i \in Slots, NEW k \in Slots, i # k,
             m_jobs'[i].type = "MERGE", m_jobs'[k].type = "MERGE"
      PROVE  ~walkerIntersectsJob(m_jobs'[i].area, m_jobs'[k].area)
  BY <1>1, <1>2 DEF isJobAllowed, MergesDisjoint, walkerIntersectsJob, MERGE, ContextTypeOK
<1>3. QED
  BY <1>2 DEF MergesDisjoint, walkerIntersectsJob

\* Two merges that run at the same time touch different parts of the image,
\* whichever threads start and finish them.
THEOREM MergesApart == ASSUME NoRefresh PROVE Spec => []MergesDisjoint
<1>1. Init => NobodyRefreshes /\ MergesDisjoint
  BY DEF Init, ContextInit, EMPTY, NobodyRefreshes, MergesDisjoint, Threads, Refreshing
<1>2. TypeOK /\ Control /\ NobodyRefreshes /\ [Next]_vars => NobodyRefreshes'
  BY RefreshStep
<1>3. TypeOK /\ NobodyRefreshes /\ MergesDisjoint /\ [Next]_vars => MergesDisjoint'
  <2> SUFFICES ASSUME TypeOK, NobodyRefreshes, MergesDisjoint, [Next]_vars
               PROVE  MergesDisjoint'
    OBVIOUS
  <2>1. ContextTypeOK
    BY DEF TypeOK
  <2>2. CASE m_jobs' = m_jobs
    BY <2>2 DEF MergesDisjoint, walkerIntersectsJob
  <2>3. CASE \E w \in Workers : m_jobs' = [m_jobs EXCEPT ![on[w]] = EMPTY]
    BY <2>1, <2>3 DEF MergesDisjoint, walkerIntersectsJob, EMPTY, ContextTypeOK
  <2>4. CASE \E item \in StrokeItems \cup SpontaneousItems : addItem(item)
    BY ZenonT(60), <2>1, <2>4
       DEF addItem, MergesDisjoint, walkerIntersectsJob, StrokeItems, SpontaneousItems,
           ContextTypeOK
  <2>5. CASE \E area \in Areas : isJobAllowed(area) /\ addItem(MERGE(area))
    BY <2>1, <2>5, AllowedMergeDisjoint
  <2>6. ASSUME NEW w \in Workers, run(w)
        PROVE  m_jobs' = m_jobs \/ m_jobs' = [m_jobs EXCEPT ![on[w]] = EMPTY]
    BY <2>6 DEF run, takeSlot, take, lockExclusiveJob, runDirty, runBlocking, runPopulate,
                finishJob, setDone, releaseWorker, leaveRun, OnlyControl, contextVars
  <2>7. ASSUME NEW c \in Clients, client(c) PROVE m_jobs' = m_jobs
    BY <2>7, ClientFills DEF NobodyRefreshes, Refreshing, contextVars
  <2>8. QED
    BY <2>2, <2>3, <2>4, <2>5, <2>6, <2>7, ProcessFills, BlockKeepsSlots
       DEF Next, Rest, vars, contextVars
<1>4. QED
  BY <1>1, <1>2, <1>3, TypeCorrect, ControlCorrect, PTL DEF Spec
(***************************************************************************)
(* The lock, for a single client.  With two, processQueues() of the second *)
(* may pass its test of processingBlocked before the first one locks.      *)
(***************************************************************************)
OneClient == \A c, d \in Clients : c = d

\* Where the client has set processingBlocked and not reset it.
Flagged(c) ==
    \/ pc[c] \in Refreshing \cup {"lockWait", "locked", "unlock", "barrierWait",
                                  "barrierCheck", "tryWait", "tryCheck"}
    \/ ret[c] = "locked"

FlagIsClients == \A c \in Clients : processingBlocked <=> Flagged(c)

\* Under the lock, processQueues() gets as far as the flag, and fullRefresh()
\* releases the lock at the end unless it found it held.
Early == {"wake", "wakeCheck", "wakeAll", "blockedCheck"}
UnderLock ==
    \A c \in Clients :
        /\ pc[c] \in Processing /\ ret[c] = "locked" => pc[c] \in Early
        /\ pc[c] \in Refreshing => ret[c] # "idle"

\* The pool is done from the wait of a locking method until the release.
Drained ==
    \A c \in Clients :
        HasLocked(c) \/ pc[c] \in {"barrierCheck", "tryCheck"} => PoolDone

LockDiscipline == FlagIsClients /\ UnderLock /\ Drained

\* A step of a worker, which finds the pool not done, concerns no lock.
LEMMA WorkerDiscipline ==
    ASSUME TypeOK, LockDiscipline, NEW w \in Workers, ~PoolDone,
           NEW label, NEW r, Moves(w, label, r), processingBlocked' = processingBlocked
    PROVE  LockDiscipline'
<1>1. pc \in [Threads -> Labels] /\ ret \in [Threads -> Labels]
  BY DEF TypeOK, ThreadsTypeOK
<1>2. \A c \in Clients : c # w /\ c \in Threads
  BY SchedulerAssumption DEF Threads
<1>3. \A c \in Clients : pc'[c] = pc[c] /\ ret'[c] = ret[c]
  BY <1>1, <1>2 DEF Moves
<1>4. \A c \in Clients : (HasLocked(c)' <=> HasLocked(c)) /\ (Flagged(c)' <=> Flagged(c))
  BY <1>3 DEF HasLocked, Flagged
<1>5. QED
  BY <1>3, <1>4 DEF LockDiscipline, FlagIsClients, UnderLock, Drained

\* A step of the client that leaves the slots alone leaves a done pool done.
LEMMA ClientKeepsDone ==
    ASSUME TypeOK, NEW c \in Clients, NEW label, NEW r, Moves(c, label, r),
           UNCHANGED contextVars, PoolDone
    PROVE  PoolDone'
<1>1. pc \in [Threads -> Labels] /\ c \notin Workers /\ Workers \subseteq Threads
  BY SchedulerAssumption DEF TypeOK, ThreadsTypeOK, Threads
<1>2. QED
  BY <1>1 DEF Moves, contextVars, PoolDone

\* What is left to show of a step of the one client.
LEMMA OneClientStep ==
    ASSUME OneClient, TypeOK, NEW c \in Clients,
           processingBlocked' <=> Flagged(c)',
           pc'[c] \in Processing /\ ret'[c] = "locked" => pc'[c] \in Early,
           pc'[c] \in Refreshing => ret'[c] # "idle",
           HasLocked(c)' \/ pc'[c] \in {"barrierCheck", "tryCheck"} => PoolDone'
    PROVE  LockDiscipline'
  BY DEF OneClient, LockDiscipline, FlagIsClients, UnderLock, Drained

\* processQueues() leaves the flag alone.
LEMMA ProcessKeepsFlag ==
    ASSUME NEW t \in Threads, processQueues(t) \/ blockUpdates(t)
    PROVE  processingBlocked' = processingBlocked
<1>1. CASE processQueues(t)
  BY <1>1 DEF processQueues, wakeUpWaitingThreads, wakeHaveUpdatesRunning, wakeWaiting,
              checkProcessingBlocked, checkExclusiveAccess, checkBalance,
              evaluateExternalJobs, processStrokesQueue, leaveStrokesQueue,
              checkExclusiveAgain, tryProcessUpdatesQueue, processUpdatesQueue,
              leaveUpdatesQueue, OnlyControl, flagVars
<1>2. CASE blockUpdates(t)
  BY <1>2 DEF blockUpdates, blockInitWaiting, blockRef, blockHaveUpdatesRunning, blockWait,
              blockWoken, blockEndWaiting, updateWhileBlocked, unblockUpdates,
              OnlyControl, flagVars
<1>3. QED
  BY <1>1, <1>2

\* The client that has locked turns back at the flag.
LEMMA ProcessDiscipline ==
    ASSUME OneClient, TypeOK, Control, LockDiscipline, NEW c \in Clients, processQueues(c)
    PROVE  LockDiscipline'
<1>1. pc \in [Threads -> Labels] /\ ret \in [Threads -> Labels] /\ c \in Threads
  BY DEF TypeOK, ThreadsTypeOK, Threads
<1>2. pc[c] \in Processing
      /\ ret[c] \in {"idle", "locked", "unblock", "doneWait", "barrierBlock"}
  BY <1>1, ProcessMoves DEF Control, ClientControl
<1>3. processingBlocked' <=> Flagged(c)'
  BY <1>1, <1>2, ProcessMoves, ProcessKeepsFlag
     DEF LockDiscipline, FlagIsClients, Flagged, Moves, Processing, Refreshing
<1>4. pc'[c] \notin Refreshing
  BY <1>1, <1>2, ProcessMoves DEF Moves, Processing, Refreshing
<1>5. CASE ret[c] # "locked"
  <2>1. ret'[c] # "locked" /\ pc'[c] \notin {"barrierCheck", "tryCheck"} /\ ~HasLocked(c)'
    BY <1>1, <1>2, <1>5, ProcessMoves DEF Moves, HasLocked, Processing
  <2>2. QED
    BY <1>3, <1>4, <2>1, OneClientStep
<1>6. CASE ret[c] = "locked"
  <2>1. pc[c] \in Early /\ processingBlocked /\ PoolDone
    BY <1>2, <1>6 DEF LockDiscipline, FlagIsClients, UnderLock, Drained, Flagged,
                      HasLocked, Processing
  <2>2. \/ \E label \in Early : Goto(c, label)
        \/ Return(c)
    BY <2>1 DEF processQueues, wakeUpWaitingThreads, wakeHaveUpdatesRunning, wakeWaiting,
                checkProcessingBlocked, checkExclusiveAccess, checkBalance,
                evaluateExternalJobs, processStrokesQueue, leaveStrokesQueue,
                checkExclusiveAgain, tryProcessUpdatesQueue, processUpdatesQueue,
                leaveUpdatesQueue, InStrokesLoop, InUpdatesLoop, Early
  <2>3. UNCHANGED contextVars
    BY <2>1 DEF processQueues, wakeUpWaitingThreads, wakeHaveUpdatesRunning, wakeWaiting,
                checkProcessingBlocked, checkExclusiveAccess, checkBalance,
                evaluateExternalJobs, processStrokesQueue, leaveStrokesQueue,
                checkExclusiveAgain, tryProcessUpdatesQueue, processUpdatesQueue,
                leaveUpdatesQueue, InStrokesLoop, InUpdatesLoop, Early, OnlyControl
  <2>4. PoolDone'
    <3>1. \E label, r : Moves(c, label, r)
      BY <1>1, ProcessMoves
    <3>2. QED
      BY <2>1, <2>3, <3>1, ClientKeepsDone
  <2>5. pc'[c] \in Processing /\ ret'[c] = "locked" => pc'[c] \in Early
    BY <1>1, <2>2 DEF Goto, Return
  <2>6. QED
    BY <1>3, <1>4, <2>4, <2>5, OneClientStep
<1>7. QED
  BY <1>5, <1>6

\* Nobody blocks updates under the lock.
LEMMA BlockDiscipline ==
    ASSUME OneClient, TypeOK, Control, LockDiscipline, NEW c \in Clients, blockUpdates(c)
    PROVE  LockDiscipline'
<1>1. pc \in [Threads -> Labels] /\ ret \in [Threads -> Labels] /\ c \in Threads
      /\ c \notin Workers
  BY SchedulerAssumption DEF TypeOK, ThreadsTypeOK, Threads
<1>2. pc[c] \in Blocking /\ ret[c] = "idle"
  BY <1>1, BlockMoves DEF Control, ClientControl, Blocking, Processing, Refreshing
<1>3. ~processingBlocked
  BY <1>2 DEF LockDiscipline, FlagIsClients, Flagged, Blocking, Refreshing
<1>4. /\ ret'[c] \in {"idle", "unblock"} /\ pc'[c] \in Blocking \cup {"wake"}
  BY <1>1, <1>2, BlockMoves DEF Moves, AfterBlock
<1>5. /\ ~Flagged(c)' /\ ~HasLocked(c)'
      /\ pc'[c] \notin Refreshing \cup {"barrierCheck", "tryCheck"} /\ ret'[c] # "locked"
  BY <1>4 DEF Flagged, HasLocked, Blocking, Refreshing
<1>6. QED
  BY <1>1, <1>3, <1>4, <1>5, ProcessKeepsFlag, OneClientStep

\* A step of a worker inside run(), and its first, find the pool not done.
LEMMA RunDiscipline ==
    ASSUME TypeOK, LockDiscipline, NEW w \in Workers, run(w)
    PROVE  LockDiscipline'
<1>1. ~PoolDone
  BY DEF run, takeSlot, take, lockExclusiveJob, runDirty, runBlocking, runPopulate,
         finishJob, releaseWorker, PoolDone
<1>2. processingBlocked' = processingBlocked
  BY DEF run, takeSlot, lockExclusiveJob, runDirty, runBlocking, runPopulate, finishJob,
         releaseWorker, OnlyControl, flagVars
<1>3. QED
  BY <1>1, <1>2, RunMoves, WorkerDiscipline
\* The methods of the client: the flag is set and reset with the place of the
\* client, and the pool is done before a locking method returns.
LEMMA ClientDiscipline ==
    ASSUME OneClient, TypeOK, Control, LockDiscipline, NEW c \in Clients, client(c)
    PROVE  LockDiscipline'
<1> USE DEF Flagged, HasLocked, Refreshing, Processing, Early
<1>1. pc \in [Threads -> Labels] /\ ret \in [Threads -> Labels] /\ c \in Threads
  BY DEF TypeOK, ThreadsTypeOK, Threads
<1>2. /\ processingBlocked <=> Flagged(c)
      /\ HasLocked(c) \/ pc[c] \in {"barrierCheck", "tryCheck"} => PoolDone
      /\ pc[c] \in Refreshing => ret[c] \in {"locked", "unlock"}
  BY DEF LockDiscipline, FlagIsClients, UnderLock, Drained, Control, ClientControl
<1>3. pc[c] \notin Processing \cup Refreshing => ret[c] = "idle"
  BY DEF Control, ClientControl
<1>4. \E label, r : Moves(c, label, r)
  BY ClientMoves
<1>5. UNCHANGED contextVars /\ PoolDone => PoolDone'
  BY <1>4, ClientKeepsDone
<1>6. CASE updateProjection(c) \/ addSpontaneousJob(c) \/ strokeMethod(c)
  <2>1. /\ pc[c] \in {"idle", "locked"} /\ Call(c, "wake", pc[c])
        /\ UNCHANGED contextVars /\ processingBlocked' = processingBlocked
    BY <1>6 DEF updateProjection, addSpontaneousJob, strokeMethod, Calls
  <2>2. pc'[c] = "wake" /\ ret'[c] = pc[c]
    BY <1>1, <2>1 DEF Call
  <2>3. QED
    BY <1>2, <1>3, <1>5, <2>1, <2>2, OneClientStep
<1>7. CASE clientBlockUpdates(c)
  <2>1. pc[c] \in {"idle", "locked"} /\ pc'[c] = "block" /\ ret'[c] = ret[c]
        /\ processingBlocked' = processingBlocked
    BY <1>1, <1>7 DEF clientBlockUpdates, Calls, Goto
  <2>2. pc[c] = "idle"
    BY <1>7, SchedulerAssumption DEF clientBlockUpdates, Calls, QueueingOperations
  <2>3. QED
    BY <1>2, <1>3, <2>1, <2>2, OneClientStep
<1>8. CASE lock(c)
  <2>1. CASE Calls(c, "lock")
    <3>1. pc'[c] = "lockWait" /\ ret'[c] = "idle" /\ processingBlocked'
      BY <1>1, <1>3, <1>8, <2>1 DEF lock, Calls, Goto, setProcessingBlocked
    <3>2. QED
      BY <3>1, OneClientStep
  <2>2. CASE pc[c] = "lockWait"
    <3>1. /\ pc'[c] = "locked" /\ ret'[c] = ret[c] /\ PoolDone
          /\ processingBlocked' = processingBlocked /\ UNCHANGED contextVars
      BY <1>1, <1>8, <2>2 DEF lock, Calls, Goto, OnlyControl, flagVars
    <3>2. QED
      BY <1>2, <1>3, <1>5, <2>2, <3>1, OneClientStep
  <2>3. QED
    BY <1>8, <2>1, <2>2 DEF lock
<1>9. CASE unlock(c)
  <2>1. pc'[c] = "wake" /\ ret'[c] = "idle" /\ ~processingBlocked'
    BY <1>1, <1>9 DEF unlock, Call, setProcessingBlocked
  <2>2. QED
    BY <2>1, OneClientStep
<1>10. CASE waitForDone(c)
  <2>1. pc[c] \in {"idle", "doneWait", "doneCheck"}
    BY <1>10, SchedulerAssumption DEF waitForDone, Calls, QueueingOperations
  <2>2. /\ pc'[c] \in {"wake", "doneWait", "doneCheck", "idle"}
        /\ ret'[c] \in {"doneWait", ret[c]}
        /\ processingBlocked' = processingBlocked
    BY <1>1, <1>10 DEF waitForDone, Call, Goto, OnlyControl, flagVars
  <2>3. QED
    BY <1>2, <1>3, <2>1, <2>2, OneClientStep
<1>11. CASE barrierLock(c)
  <2>1. CASE pc'[c] = "wake"
    <3>1. ret'[c] = "barrierBlock" /\ ~processingBlocked'
      BY <1>1, <1>11, <2>1 DEF barrierLock, Call, Goto, setProcessingBlocked
    <3>2. QED
      BY <2>1, <3>1, OneClientStep
  <2>2. CASE pc[c] = "barrierBlock"
    <3>1. pc'[c] = "barrierWait" /\ ret'[c] = ret[c] /\ processingBlocked'
      BY <1>1, <1>11, <2>2 DEF barrierLock, Calls, Goto, setProcessingBlocked
    <3>2. QED
      BY <1>3, <2>2, <3>1, OneClientStep
  <2>3. CASE pc[c] \in {"barrierWait", "barrierCheck"} /\ pc'[c] # "wake"
    <3>1. /\ pc'[c] \in {"barrierCheck", "locked"} /\ ret'[c] = ret[c] /\ PoolDone
          /\ processingBlocked' = processingBlocked /\ UNCHANGED contextVars
      BY <1>1, <1>2, <1>11, <2>3 DEF barrierLock, Call, Calls, Goto, OnlyControl, flagVars
    <3>2. QED
      BY <1>2, <1>3, <1>5, <2>3, <3>1, OneClientStep
  <2>4. QED
    BY <1>1, <1>11, <2>1, <2>2, <2>3 DEF barrierLock, Call
<1>12. CASE tryBarrierLock(c)
  <2>1. CASE Calls(c, "tryBarrierLock")
    <3>1. pc[c] = "idle"
      BY <2>1, SchedulerAssumption DEF Calls, QueueingOperations
    <3>2. /\ pc'[c] \in {"tryBlock", "idle"} /\ ret'[c] = ret[c]
          /\ processingBlocked' = processingBlocked
      BY <1>1, <1>12, <3>1 DEF tryBarrierLock, Goto
    <3>3. QED
      BY <1>2, <1>3, <3>1, <3>2, OneClientStep
  <2>2. CASE pc[c] = "tryBlock"
    <3>1. pc'[c] = "tryWait" /\ ret'[c] = ret[c] /\ processingBlocked'
      BY <1>1, <1>12, <2>2 DEF tryBarrierLock, Calls, Goto, setProcessingBlocked
    <3>2. QED
      BY <1>3, <2>2, <3>1, OneClientStep
  <2>3. CASE pc[c] = "tryWait"
    <3>1. /\ pc'[c] = "tryCheck" /\ ret'[c] = ret[c] /\ PoolDone
          /\ processingBlocked' = processingBlocked /\ UNCHANGED contextVars
      BY <1>1, <1>12, <2>3 DEF tryBarrierLock, Calls, Goto, OnlyControl, flagVars
    <3>2. QED
      BY <1>2, <1>3, <1>5, <2>3, <3>1, OneClientStep
  <2>4. CASE pc[c] = "tryCheck"
    <3>1. CASE queuesEmpty
      <4>1. /\ pc'[c] = "locked" /\ ret'[c] = ret[c] /\ PoolDone
            /\ processingBlocked' = processingBlocked /\ UNCHANGED contextVars
        BY <1>1, <1>2, <1>12, <2>4, <3>1
           DEF tryBarrierLock, Calls, Goto, OnlyControl, flagVars
      <4>2. QED
        BY <1>2, <1>3, <1>5, <2>4, <4>1, OneClientStep
    <3>2. CASE ~queuesEmpty
      <4>1. pc'[c] = "idle" /\ ret'[c] = ret[c] /\ ~processingBlocked'
        BY <1>1, <1>12, <2>4, <3>2 DEF tryBarrierLock, Calls, Goto, setProcessingBlocked
      <4>2. QED
        BY <1>3, <2>4, <4>1, OneClientStep
    <3>3. QED
      BY <3>1, <3>2
  <2>5. QED
    BY <1>12, <2>1, <2>2, <2>3, <2>4 DEF tryBarrierLock
<1>13. CASE fullRefresh(c)
  <2>1. CASE Calls(c, "fullRefresh")
    <3>1. CASE processingBlocked
      <4>1. /\ pc[c] = "locked" /\ pc'[c] = "refreshLock" /\ ret'[c] = "locked"
            /\ processingBlocked' = processingBlocked /\ UNCHANGED contextVars
        BY <1>1, <1>2, <1>3, <1>13, <2>1, <3>1 DEF fullRefresh, Calls, Call
      <4>2. QED
        BY <1>2, <1>5, <4>1, OneClientStep
    <3>2. CASE ~processingBlocked
      <4>1. pc'[c] = "refreshDrain" /\ ret'[c] = "unlock" /\ processingBlocked'
        BY <1>1, <1>13, <2>1, <3>2 DEF fullRefresh, Calls, Call, setProcessingBlocked
      <4>2. QED
        BY <4>1, OneClientStep
    <3>3. QED
      BY <3>1, <3>2
  <2>2. CASE ~Calls(c, "fullRefresh")
    <3>1. processingBlocked' = processingBlocked /\ pc[c] \in Refreshing
      BY <1>13, <2>2 DEF fullRefresh, OnlyControl, flagVars
    <3>2. CASE pc[c] = "refreshAdd"
      <4>1. pc'[c] = "refreshWait" /\ ret'[c] = ret[c]
        BY <1>1, <1>13, <2>2, <3>2 DEF fullRefresh, Goto
      <4>2. QED
        BY <1>2, <3>1, <4>1, OneClientStep
    <3>3. CASE pc[c] \in {"refreshDrain", "refreshLock"}
      <4>1. /\ pc'[c] \in {"refreshLock", "refreshAdd"} /\ ret'[c] = ret[c]
            /\ PoolDone /\ UNCHANGED contextVars
        BY <1>1, <1>2, <1>13, <2>2, <3>3 DEF fullRefresh, Goto, OnlyControl
      <4>2. QED
        BY <1>2, <1>5, <3>1, <4>1, OneClientStep
    <3>4. CASE pc[c] = "refreshWait"
      <4>1. pc'[c] = ret[c] /\ ret'[c] = "idle" /\ PoolDone /\ UNCHANGED contextVars
        BY <1>1, <1>13, <2>2, <3>4 DEF fullRefresh, Return, OnlyControl
      <4>2. ret[c] \in {"locked", "unlock"}
        BY <1>2, <3>4
      <4>3. QED
        BY <1>2, <1>5, <3>1, <3>4, <4>1, <4>2, OneClientStep
    <3>5. QED
      BY <3>1, <3>2, <3>3, <3>4
  <2>3. QED
    BY <2>1, <2>2
<1>14. QED
  BY <1>6, <1>7, <1>8, <1>9, <1>10, <1>11, <1>12, <1>13 DEF client
\* Every step keeps to the discipline of the lock.
LEMMA DisciplineStep ==
    ASSUME OneClient, TypeOK, Control, LockDiscipline, [Next]_vars
    PROVE  LockDiscipline'
<1>1. CASE UNCHANGED vars
  BY <1>1 DEF vars, contextVars, flagVars, threadVars, LockDiscipline, FlagIsClients,
              UnderLock, Drained, Flagged, HasLocked, PoolDone
<1>2. ASSUME NEW w \in Workers, processQueues(w) \/ blockUpdates(w)
      PROVE  LockDiscipline'
  <2>1. w \in Threads
    BY DEF Threads
  <2>2. ~PoolDone /\ \E label, r : Moves(w, label, r)
    BY <1>2, <2>1, ProcessMoves, BlockMoves DEF PoolDone, Processing, Blocking
  <2>3. QED
    BY <1>2, <2>1, <2>2, ProcessKeepsFlag, WorkerDiscipline
<1>3. ASSUME NEW c \in Clients, processQueues(c) \/ blockUpdates(c)
      PROVE  LockDiscipline'
  BY <1>3, ProcessDiscipline, BlockDiscipline
<1>4. QED
  BY <1>1, <1>2, <1>3, RunDiscipline, ClientDiscipline DEF Next, Rest, Threads

\* When the pool is done, no slot is filled: a job in a slot has a runner or is
\* about to get one.
LEMMA DoneIsEmpty ==
    ASSUME Control, OneRunnerPerJob, PoolDone
    PROVE  \A i \in Slots : ~isRunning(i)
<1>1. \A w \in Workers : on[w] = NoSlot
  BY DEF Control, WorkerControl, PoolDone
<1>2. NoSlot \notin Slots
  BY ContextAssumption DEF Slots, NoSlot
<1>3. \A i \in Slots : Runners(i) = {}
  BY <1>1, <1>2 DEF Runners
<1>4. QED
  BY <1>3 DEF OneRunnerPerJob, PoolDone

(***************************************************************************)
(* "Blocks processing of the queues; waits until all the executing jobs    *)
(* are finished": with a single client, nothing is executed from the       *)
(* return of a locking method until the release, whatever the client adds  *)
(* to the queues in between.                                               *)
(***************************************************************************)
THEOREM LockedQuiet == ASSUME OneClient PROVE Spec => []LockedMeansQuiet
<1>1. Init => LockDiscipline
  BY DEF Init, LockDiscipline, FlagIsClients, UnderLock, Drained, Flagged, HasLocked,
         Threads, Processing, Refreshing
<1>2. TypeOK /\ Control /\ LockDiscipline /\ [Next]_vars => LockDiscipline'
  BY DisciplineStep
<1>3. Control /\ OneRunnerPerJob /\ LockDiscipline => LockedMeansQuiet
  BY DoneIsEmpty DEF LockDiscipline, Drained, LockedMeansQuiet
<1>4. QED
  BY <1>1, <1>2, <1>3, TypeCorrect, ControlCorrect, OneRunner, PTL DEF Spec
=============================================================================
