-------------------------- MODULE KisUpdateScheduler --------------------------
(***************************************************************************)
(* Krita's update scheduler (krita/image/kis_update_scheduler.cpp): the    *)
(* strokes queue, the updates queue and the updater context, driven by     *)
(* client threads that call the public methods and by the workers of the   *)
(* thread pool, each of which calls processQueues() after every job.       *)
(*                                                                         *)
(* A thread is a program counter.  A step ends where another thread can    *)
(* see or change what the next line uses: at a lock, at a read of a flag   *)
(* that no lock protects, at a wait.                                       *)
(***************************************************************************)
EXTENDS KisStrokesQueue, KisLazyWaitCondition

CONSTANTS
    Clients,            \* threads that call the scheduler's methods
    Strategies,         \* the stroke strategies the clients use
    Operations,         \* the methods the clients call without the lock
    LockedOperations,   \* the methods the locking client calls under it
    BalancingRatio,     \* schedulerBalancingRatio() of the configuration
    MaxCalls            \* bound: calls of all clients together

Threads == Clients \cup Workers

\* The methods that put something into a queue.
QueueingOperations ==
    {"updateProjection", "addSpontaneousJob", "startStroke", "addJob", "endStroke",
     "cancelStroke"}

\* The methods after which the caller counts on nothing being executed.
LockingOperations == {"lock", "barrierLock", "tryBarrierLock", "fullRefresh"}

AllOperations ==
    QueueingOperations \cup LockingOperations \cup {"waitForDone", "blockUpdates"}

ASSUME SchedulerAssumption ==
    /\ IsFiniteSet(Clients) /\ IsFiniteSet(Workers) /\ Clients \cap Workers = {}
    /\ Strategies \subseteq KisStrokeStrategy
    /\ Operations \subseteq AllOperations
    /\ LockedOperations \subseteq QueueingOperations \cup {"fullRefresh"}
    /\ BalancingRatio \in Nat
    /\ MaxDebt \in Nat \ {0}
    /\ MaxCalls \in Nat

VARIABLES
    pc,                     \* where each thread is
    ret,                    \* where processQueues() or a wait returns to
    order,                  \* the branch of processQueues() a thread is in
    pending,                \* its argument externalJobsPending
    updatesList,            \* the areas queued for a merge
    spontaneousJobsList,    \* the kinds of spontaneous jobs queued
    processingBlocked,      \* written and read without a lock
    updatesLockCounter,     \* an atomic counter
    calls                   \* calls the clients have made

queueVars == <<updatesList, spontaneousJobsList>>
flagVars == <<processingBlocked, updatesLockCounter, calls>>
threadVars == <<pc, ret, order, pending>>
vars == <<contextVars, strokeVars, conditionVars, queueVars, flagVars, threadVars>>

\* A step that only moves a thread on.
OnlyControl == UNCHANGED <<contextVars, strokeVars, conditionVars, queueVars, flagVars>>

Goto(t, label) ==
    /\ pc' = [pc EXCEPT ![t] = label]
    /\ UNCHANGED <<ret, order, pending>>

\* Call a part that returns to label r.
Call(t, label, r) ==
    /\ pc' = [pc EXCEPT ![t] = label]
    /\ ret' = [ret EXCEPT ![t] = r]
    /\ UNCHANGED <<order, pending>>

Return(t) ==
    /\ pc' = [pc EXCEPT ![t] = ret[t]]
    /\ ret' = [ret EXCEPT ![t] = "idle"]
    /\ order' = [order EXCEPT ![t] = "none"]
    /\ pending' = [pending EXCEPT ![t] = FALSE]

(***************************************************************************)
(* The locks, as the set of labels at which a thread holds each: the       *)
(* context's m_lock, the strokes queue's mutex, updatesStartLock for       *)
(* reading.  haveUpdatesRunning() takes updatesStartLock for writing       *)
(* within one step.                                                        *)
(***************************************************************************)
ContextUnlocked ==
    \A t \in Threads : pc[t] \notin {"strokes", "updates", "refreshAdd", "refreshWait"}
StrokesUnlocked == \A t \in Threads : pc[t] # "strokes"
NoReader == \A t \in Threads : pc[t] \notin {"updatesLock", "updates"}

updatesEmpty == updatesList = << >> /\ spontaneousJobsList = << >>
updatesSizeMetric == Len(updatesList) + Len(spontaneousJobsList)

\* Mutant: waits for the queued runnables only, not for the executing ones.
MutantQueuedOnly == started = {}

\* m_threadPool.waitForDone() returns when no slot is started or being run.
PoolDone == started = {} /\ \A w \in Workers : pc[w] = "idle"

(***************************************************************************)
(* The updates queue at the grain of whole requests: an area is queued at  *)
(* most once, since a request for a rectangle that is already queued joins *)
(* it.  Module KisSimpleUpdateQueue models the rectangles.                 *)
(***************************************************************************)
addUpdateJob(area) ==
    /\ updatesList' = IF \E k \in DOMAIN updatesList : updatesList[k] = area
                      THEN updatesList ELSE Append(updatesList, area)
    /\ UNCHANGED spontaneousJobsList

Without(list, k) == SubSeq(list, 1, k - 1) \o SubSeq(list, k + 1, Len(list))

\* A spontaneous job removes the queued one it overrides and goes last.
addSpontaneous(kind) ==
    /\ spontaneousJobsList' =
           IF \E k \in DOMAIN spontaneousJobsList : spontaneousJobsList[k] = kind
           THEN LET k == CHOOSE j \in DOMAIN spontaneousJobsList :
                             spontaneousJobsList[j] = kind
                IN  Append(Without(spontaneousJobsList, k), kind)
           ELSE Append(spontaneousJobsList, kind)
    /\ UNCHANGED updatesList

\* processOneJob() of the updates queue: the first walker that is allowed in,
\* or else the oldest spontaneous job.
isFirstAllowed(k) ==
    /\ isJobAllowed(updatesList[k])
    /\ \A j \in 1..(k - 1) : ~isJobAllowed(updatesList[j])

startWalker ==
    \E k \in DOMAIN updatesList :
        /\ isFirstAllowed(k)
        /\ addItem(MERGE(updatesList[k]))
        /\ updatesList' = Without(updatesList, k)
        /\ UNCHANGED spontaneousJobsList

noWalkerAllowed == \A k \in DOMAIN updatesList : ~isJobAllowed(updatesList[k])

startSpontaneous ==
    /\ noWalkerAllowed
    /\ spontaneousJobsList # << >>
    /\ addItem(SPONTANEOUS(Head(spontaneousJobsList)))
    /\ spontaneousJobsList' = Tail(spontaneousJobsList)
    /\ UNCHANGED updatesList

(***************************************************************************)
(* processQueues(), from "wake" to the label in ret.                       *)
(***************************************************************************)
\* Mutant: nobody is woken.
MutantWakesNobody(t) ==
    /\ pc[t] = "wake"
    /\ Goto(t, "blockedCheck")
    /\ OnlyControl

\* wakeUpWaitingThreads(): load the counter ...
wakeUpWaitingThreads(t) ==
    /\ pc[t] = "wake"
    /\ Goto(t, IF updatesLockCounter # 0 THEN "wakeCheck" ELSE "blockedCheck")
    /\ OnlyControl

\* ... see under updatesStartLock whether updates are running ...
wakeHaveUpdatesRunning(t) ==
    /\ pc[t] = "wakeCheck"
    /\ NoReader
    /\ Goto(t, IF MergeJobs = {} THEN "wakeAll" ELSE "blockedCheck")
    /\ OnlyControl

\* ... and wake the waiting threads.
wakeWaiting(t) ==
    /\ pc[t] = "wakeAll"
    /\ wakeAll
    /\ Goto(t, "blockedCheck")
    /\ UNCHANGED <<contextVars, strokeVars, queueVars, flagVars>>

\* Mutant: the queues are processed whether or not they are blocked.
MutantIgnoresBlocked(t) ==
    /\ pc[t] = "blockedCheck"
    /\ Goto(t, "exclusiveCheck")
    /\ OnlyControl

checkProcessingBlocked(t) ==
    /\ pc[t] = "blockedCheck"
    /\ IF processingBlocked THEN Return(t) ELSE Goto(t, "exclusiveCheck")
    /\ OnlyControl

\* needsExclusiveAccess() is read without the mutex of the strokes queue.
checkExclusiveAccess(t) ==
    /\ pc[t] = "exclusiveCheck"
    /\ IF needsExclusiveAccess
       THEN /\ pc' = [pc EXCEPT ![t] = "externalJobs"]
            /\ order' = [order EXCEPT ![t] = "exclusive"]
            /\ UNCHANGED <<ret, pending>>
       ELSE Goto(t, "balance")
    /\ OnlyControl

\* The queue that is longer, by the balancing ratio, is processed first.
checkBalance(t) ==
    /\ pc[t] = "balance"
    /\ StrokesUnlocked
    /\ IF BalancingRatio * strokesSizeMetric > updatesSizeMetric
       THEN /\ pc' = [pc EXCEPT ![t] = "externalJobs"]
            /\ order' = [order EXCEPT ![t] = "strokesFirst"]
       ELSE /\ pc' = [pc EXCEPT ![t] = "tryUpdates"]
            /\ order' = [order EXCEPT ![t] = "updatesFirst"]
    /\ UNCHANGED <<ret, pending>>
    /\ OnlyControl

\* The argument of strokesQueue->processQueue() is evaluated before its locks
\* are taken.
evaluateExternalJobs(t) ==
    /\ pc[t] = "externalJobs"
    /\ pc' = [pc EXCEPT ![t] = "strokesLock"]
    /\ pending' = [pending EXCEPT ![t] = ~updatesEmpty]
    /\ UNCHANGED <<ret, order>>
    /\ OnlyControl

\* strokesQueue->processQueue(): the lock of the context and the mutex are
\* taken together with the first iteration of the loop; the thread is at
\* "strokes" while it holds them over further iterations.
InStrokesLoop(t) == pc[t] = "strokes" \/ (pc[t] = "strokesLock" /\ ContextUnlocked)

processStrokesQueue(t) ==
    /\ InStrokesLoop(t)
    /\ processOneJob(pending[t])
    /\ Goto(t, "strokes")
    /\ UNCHANGED <<conditionVars, queueVars, flagVars>>

\* The loop ends and both locks are released.
leaveStrokesQueue(t) ==
    /\ InStrokesLoop(t)
    /\ processNoJob(pending[t])
    /\ \/ order[t] = "exclusive" /\ Goto(t, "exclusiveAgain")
       \/ order[t] = "strokesFirst" /\ Goto(t, "tryUpdates")
       \/ order[t] = "updatesFirst" /\ Return(t)
    /\ UNCHANGED <<contextVars, conditionVars, queueVars, flagVars>>

checkExclusiveAgain(t) ==
    /\ pc[t] = "exclusiveAgain"
    /\ IF needsExclusiveAccess THEN Return(t) ELSE Goto(t, "tryUpdates")
    /\ OnlyControl

AfterUpdates(t) ==
    IF order[t] = "updatesFirst" THEN Goto(t, "externalJobs") ELSE Return(t)

\* Mutant: the counter of the blocking threads is not looked at.
MutantIgnoresCounter(t) ==
    /\ pc[t] = "tryUpdates"
    /\ Goto(t, "updatesLock")
    /\ OnlyControl

\* tryProcessUpdatesQueue(): with updatesStartLock held for reading, nothing
\* is started while somebody blocks updates.
tryProcessUpdatesQueue(t) ==
    /\ pc[t] = "tryUpdates"
    /\ IF updatesLockCounter # 0 THEN AfterUpdates(t) ELSE Goto(t, "updatesLock")
    /\ OnlyControl

InUpdatesLoop(t) == pc[t] = "updates" \/ (pc[t] = "updatesLock" /\ ContextUnlocked)

processUpdatesQueue(t) ==
    /\ InUpdatesLoop(t)
    /\ hasSpareThread
    /\ startWalker \/ startSpontaneous
    /\ Goto(t, "updates")
    /\ UNCHANGED <<strokeVars, conditionVars, flagVars>>

leaveUpdatesQueue(t) ==
    /\ InUpdatesLoop(t)
    /\ hasSpareThread => noWalkerAllowed /\ spontaneousJobsList = << >>
    /\ AfterUpdates(t)
    /\ OnlyControl

processQueues(t) ==
    \/ wakeUpWaitingThreads(t) \/ wakeHaveUpdatesRunning(t) \/ wakeWaiting(t)
    \/ checkProcessingBlocked(t) \/ checkExclusiveAccess(t) \/ checkBalance(t)
    \/ evaluateExternalJobs(t) \/ processStrokesQueue(t)
    \/ leaveStrokesQueue(t) \/ checkExclusiveAgain(t)
    \/ tryProcessUpdatesQueue(t) \/ processUpdatesQueue(t)
    \/ leaveUpdatesQueue(t)

(***************************************************************************)
(* blockUpdates(), a section with the updates blocked, unblockUpdates().   *)
(* Stroke jobs do this, and so do plain threads in the scheduler's test.   *)
(***************************************************************************)
AfterBlock(t) == IF t \in Workers THEN "done" ELSE "idle"

blockInitWaiting(t) ==
    /\ pc[t] = "block"
    /\ initWaiting
    /\ Goto(t, "blockRef")
    /\ UNCHANGED <<contextVars, strokeVars, queueVars, flagVars>>

\* Mutant: the counter is not raised.
MutantNoRef(t) ==
    /\ pc[t] = "blockRef"
    /\ Goto(t, "blockCheck")
    /\ OnlyControl

blockRef(t) ==
    /\ pc[t] = "blockRef"
    /\ updatesLockCounter' = updatesLockCounter + 1
    /\ Goto(t, "blockCheck")
    /\ UNCHANGED <<contextVars, strokeVars, conditionVars, queueVars,
                   processingBlocked, calls>>

\* Mutant: haveUpdatesRunning() does not take updatesStartLock.
MutantNoStartLock(t) ==
    /\ pc[t] = "blockCheck"
    /\ Goto(t, IF MergeJobs = {} THEN "blockEnd" ELSE "blockWait")
    /\ OnlyControl

blockHaveUpdatesRunning(t) ==
    /\ pc[t] = "blockCheck"
    /\ NoReader
    /\ Goto(t, IF MergeJobs = {} THEN "blockEnd" ELSE "blockWait")
    /\ OnlyControl

blockWait(t) ==
    /\ pc[t] = "blockWait"
    /\ \/ waitConsume /\ Goto(t, "blockCheck")
       \/ waitSleep(t) /\ Goto(t, "blockSleep")
    /\ UNCHANGED <<contextVars, strokeVars, queueVars, flagVars>>

blockWoken(t) ==
    /\ pc[t] = "blockSleep"
    /\ waitReturn(t)
    /\ Goto(t, "blockCheck")
    /\ UNCHANGED <<contextVars, strokeVars, queueVars, flagVars>>

blockEndWaiting(t) ==
    /\ pc[t] = "blockEnd"
    /\ endWaiting
    /\ Goto(t, "blocked")
    /\ UNCHANGED <<contextVars, strokeVars, queueVars, flagVars>>

\* Inside the section a stroke may ask for an update, as moving a layer does.
updateWhileBlocked(t) ==
    /\ pc[t] = "blocked"
    /\ \E area \in Areas : addUpdateJob(area)
    /\ Call(t, "wake", "unblock")
    /\ UNCHANGED <<contextVars, strokeVars, conditionVars, flagVars>>

unblockUpdates(t) ==
    /\ pc[t] \in {"blocked", "unblock"}
    /\ updatesLockCounter' = updatesLockCounter - 1
    /\ Call(t, "wake", AfterBlock(t))
    /\ UNCHANGED <<contextVars, strokeVars, conditionVars, queueVars,
                   processingBlocked, calls>>

blockUpdates(t) ==
    \/ blockInitWaiting(t) \/ blockRef(t) \/ blockHaveUpdatesRunning(t)
    \/ blockWait(t) \/ blockWoken(t) \/ blockEndWaiting(t)
    \/ updateWhileBlocked(t) \/ unblockUpdates(t)

(***************************************************************************)
(* A worker: KisUpdateJobItem::run().                                      *)
(***************************************************************************)
takeSlot(w) ==
    /\ pc[w] = "idle"
    /\ \E i \in Slots : take(w, i)
    /\ Goto(w, "run")
    /\ UNCHANGED <<strokeVars, conditionVars, queueVars, flagVars>>

\* The exclusive-job lock is a QReadWriteLock: a reader waits for a writer
\* that holds the lock or waits for it.
lockExclusiveJob(w) ==
    /\ pc[w] = "run"
    /\ \/ /\ ~isExclusiveItem(on[w])
          /\ \A v \in Workers : holds[v] \in {"none", "read"}
          /\ holds' = [holds EXCEPT ![w] = "read"]
          /\ Goto(w, "body")
       \/ /\ isExclusiveItem(on[w])
          /\ \A v \in Workers : holds[v] \in {"none", "waiting"}
          /\ holds' = [holds EXCEPT ![w] = "write"]
          /\ Goto(w, "body")
       \/ /\ isExclusiveItem(on[w])
          /\ holds[w] = "none"
          /\ \E v \in Workers : holds[v] \in {"read", "write"}
          /\ holds' = [holds EXCEPT ![w] = "waiting"]
          /\ UNCHANGED threadVars
    /\ UNCHANGED <<m_jobs, started, on>>
    /\ UNCHANGED <<strokeVars, conditionVars, queueVars, flagVars>>

bodyOf(i) == IF m_jobs[i].type = "STROKE" THEN m_jobs[i].job.body ELSE "plain"

runDirty(w) ==
    /\ pc[w] = "body"
    /\ bodyOf(on[w]) = "dirty"
    /\ \E area \in Areas : addUpdateJob(area)
    /\ Call(w, "wake", "done")
    /\ UNCHANGED <<contextVars, strokeVars, conditionVars, flagVars>>

runBlocking(w) ==
    /\ pc[w] = "body"
    /\ bodyOf(on[w]) = "block"
    /\ Goto(w, "block")
    /\ OnlyControl

\* A cancel job that adds an undo job through cancelStrokeId().
runPopulate(w) ==
    /\ pc[w] = "body"
    /\ bodyOf(on[w]) = "populate"
    /\ StrokesUnlocked
    /\ \E s \in Strokes :
           m_jobs[on[w]].stroke = s /\ addJob(s, DefaultJob("undo", "plain"))
    /\ Call(w, "wake", "done")
    /\ UNCHANGED <<contextVars, conditionVars, queueVars, flagVars>>

\* Mutant: the end of a job is not signalled.
MutantNoSignal(w) ==
    /\ \/ pc[w] = "done"
       \/ pc[w] = "body" /\ bodyOf(on[w]) = "plain"
    /\ setDone(w)
    /\ Goto(w, "release")
    /\ UNCHANGED <<strokeVars, conditionVars, queueVars, flagVars>>

\* setDone(), then sigJobFinished: the worker processes the queues itself.
finishJob(w) ==
    /\ \/ pc[w] = "done"
       \/ pc[w] = "body" /\ bodyOf(on[w]) = "plain"
    /\ setDone(w)
    /\ Call(w, "wake", "release")
    /\ UNCHANGED <<strokeVars, conditionVars, queueVars, flagVars>>

releaseWorker(w) ==
    /\ pc[w] = "release"
    /\ leaveRun(w)
    /\ Goto(w, "idle")
    /\ UNCHANGED <<strokeVars, conditionVars, queueVars, flagVars>>

run(w) ==
    \/ takeSlot(w) \/ lockExclusiveJob(w)
    \/ runDirty(w) \/ runBlocking(w) \/ runPopulate(w)
    \/ finishJob(w) \/ releaseWorker(w)

(***************************************************************************)
(* The clients.  A method may be called with the scheduler unlocked, or by *)
(* the client that has locked it ("you may add new jobs while the block    *)
(* held").                                                                 *)
(***************************************************************************)
Calls(c, operation) ==
    /\ \/ pc[c] = "idle" /\ operation \in Operations
       \/ pc[c] = "locked" /\ operation \in LockedOperations
    /\ calls < MaxCalls
    /\ calls' = calls + 1

\* Every method that adds something ends in processQueues().
updateProjection(c) ==
    /\ Calls(c, "updateProjection")
    /\ \E area \in Areas : addUpdateJob(area)
    /\ Call(c, "wake", pc[c])
    /\ UNCHANGED <<contextVars, strokeVars, conditionVars,
                   processingBlocked, updatesLockCounter>>

addSpontaneousJob(c) ==
    /\ Calls(c, "addSpontaneousJob")
    /\ \E kind \in Spontaneous : addSpontaneous(kind)
    /\ Call(c, "wake", pc[c])
    /\ UNCHANGED <<contextVars, strokeVars, conditionVars,
                   processingBlocked, updatesLockCounter>>

\* What a client does with a stroke follows the assertions of KisStroke: jobs
\* and one end while it is open, one cancel.
strokeMethod(c) ==
    /\ StrokesUnlocked
    /\ \E s \in Strokes :
        \/ /\ Calls(c, "startStroke")
           /\ \E strategy \in Strategies : startStroke(s, strategy)
        \/ /\ Calls(c, "addJob")
           /\ isAlive(s) /\ ~stroke[s].ended
           /\ \E job \in stroke[s].strategy.dab : addJob(s, job)
        \/ /\ Calls(c, "endStroke")
           /\ isAlive(s) /\ ~stroke[s].ended
           /\ endStroke(s)
        \/ /\ Calls(c, "cancelStroke")
           /\ stroke[s] # NoStroke /\ ~stroke[s].cancelled
           /\ cancelStroke(s)
    /\ Call(c, "wake", pc[c])
    /\ UNCHANGED <<contextVars, conditionVars, queueVars,
                   processingBlocked, updatesLockCounter>>

clientBlockUpdates(c) ==
    /\ Calls(c, "blockUpdates")
    /\ Goto(c, "block")
    /\ UNCHANGED <<contextVars, strokeVars, conditionVars, queueVars,
                   processingBlocked, updatesLockCounter>>

queuesEmpty == updatesEmpty /\ strokesQueue = << >>

setProcessingBlocked(value) ==
    /\ processingBlocked' = value
    /\ UNCHANGED <<updatesLockCounter, contextVars, strokeVars, conditionVars, queueVars>>

\* lock() and unlock().
lock(c) ==
    \/ /\ Calls(c, "lock")
       /\ setProcessingBlocked(TRUE)
       /\ Goto(c, "lockWait")
    \/ /\ pc[c] = "lockWait" /\ PoolDone
       /\ Goto(c, "locked")
       /\ OnlyControl

\* Mutant: unlock() leaves the queues unprocessed.
MutantUnlockOnly(c) ==
    /\ pc[c] \in {"locked", "unlock"}
    /\ setProcessingBlocked(FALSE)
    /\ Goto(c, "idle")
    /\ UNCHANGED calls

unlock(c) ==
    /\ pc[c] \in {"locked", "unlock"}
    /\ setProcessingBlocked(FALSE)
    /\ Call(c, "wake", "idle")
    /\ UNCHANGED calls

\* Mutant: the tools are not asked to end their strokes.
MutantStrokesLeftOpen == TRUE

\* A queue with an open stroke never gets empty: whoever waits for that has
\* ended the strokes first (KisImage asks the tools to by requestStrokeEnd()).
noOpenStroke == \A k \in DOMAIN strokesQueue : stroke[strokesQueue[k]].ended

\* do { processQueues(); wait } while (a queue is not empty)
waitForDone(c) ==
    \/ /\ Calls(c, "waitForDone") /\ noOpenStroke
       /\ Call(c, "wake", "doneWait")
       /\ UNCHANGED <<contextVars, strokeVars, conditionVars, queueVars,
                      processingBlocked, updatesLockCounter>>
    \/ /\ pc[c] = "doneWait" /\ PoolDone
       /\ Goto(c, "doneCheck")
       /\ OnlyControl
    \/ /\ pc[c] = "doneCheck" /\ StrokesUnlocked
       /\ IF queuesEmpty THEN Goto(c, "idle") ELSE Call(c, "wake", "doneWait")
       /\ OnlyControl

\* do { unblock; processQueues(); block; wait } while (a queue is not empty)
barrierLock(c) ==
    \/ /\ Calls(c, "barrierLock") /\ noOpenStroke
       /\ setProcessingBlocked(FALSE)
       /\ Call(c, "wake", "barrierBlock")
    \/ /\ pc[c] = "barrierBlock"
       /\ setProcessingBlocked(TRUE)
       /\ Goto(c, "barrierWait")
       /\ UNCHANGED calls
    \/ /\ pc[c] = "barrierWait" /\ PoolDone
       /\ Goto(c, "barrierCheck")
       /\ OnlyControl
    \/ /\ pc[c] = "barrierCheck" /\ StrokesUnlocked /\ queuesEmpty
       /\ Goto(c, "locked")
       /\ OnlyControl
    \/ /\ pc[c] = "barrierCheck" /\ StrokesUnlocked /\ ~queuesEmpty
       /\ setProcessingBlocked(FALSE)
       /\ Call(c, "wake", "barrierBlock")
       /\ UNCHANGED calls

\* A failed attempt leaves the queues unprocessed.
tryBarrierLock(c) ==
    \/ /\ Calls(c, "tryBarrierLock")
       /\ StrokesUnlocked
       /\ Goto(c, IF queuesEmpty THEN "tryBlock" ELSE "idle")
       /\ UNCHANGED <<contextVars, strokeVars, conditionVars, queueVars,
                      processingBlocked, updatesLockCounter>>
    \/ /\ pc[c] = "tryBlock"
       /\ setProcessingBlocked(TRUE)
       /\ Goto(c, "tryWait")
       /\ UNCHANGED calls
    \/ /\ pc[c] = "tryWait" /\ PoolDone
       /\ Goto(c, "tryCheck")
       /\ OnlyControl
    \/ /\ pc[c] = "tryCheck" /\ StrokesUnlocked /\ queuesEmpty
       /\ Goto(c, "locked")
       /\ OnlyControl
    \/ /\ pc[c] = "tryCheck" /\ StrokesUnlocked /\ ~queuesEmpty
       /\ setProcessingBlocked(FALSE)
       /\ Goto(c, "idle")
       /\ UNCHANGED calls

\* The synchronous refresh takes the lock unless it is held, and starts its
\* merge job under the lock of the context, past the queues.
fullRefresh(c) ==
    \/ /\ Calls(c, "fullRefresh")
       /\ IF processingBlocked
          THEN /\ Call(c, "refreshLock", pc[c])
               /\ UNCHANGED <<contextVars, strokeVars, conditionVars, queueVars,
                              processingBlocked, updatesLockCounter>>
          ELSE setProcessingBlocked(TRUE) /\ Call(c, "refreshDrain", "unlock")
    \/ /\ pc[c] = "refreshDrain" /\ PoolDone
       /\ Goto(c, "refreshLock")
       /\ OnlyControl
    \/ /\ pc[c] = "refreshLock" /\ ContextUnlocked
       /\ Goto(c, "refreshAdd")
       /\ OnlyControl
    \/ /\ pc[c] = "refreshAdd"
       /\ \E area \in Areas : addItem(MERGE(area))
       /\ Goto(c, "refreshWait")
       /\ UNCHANGED <<strokeVars, conditionVars, queueVars, flagVars>>
    \/ /\ pc[c] = "refreshWait" /\ PoolDone
       /\ Return(c)
       /\ OnlyControl

client(c) ==
    \/ updateProjection(c) \/ addSpontaneousJob(c) \/ strokeMethod(c)
    \/ clientBlockUpdates(c) \/ lock(c) \/ unlock(c) \/ waitForDone(c)
    \/ barrierLock(c) \/ tryBarrierLock(c) \/ fullRefresh(c)

(***************************************************************************)
(* The specification.                                                      *)
(***************************************************************************)
Init ==
    /\ ContextInit /\ StrokesInit /\ ConditionInit
    /\ updatesList = << >> /\ spontaneousJobsList = << >>
    /\ processingBlocked = FALSE /\ updatesLockCounter = 0 /\ calls = 0
    /\ pc = [t \in Threads |-> "idle"]
    /\ ret = [t \in Threads |-> "idle"]
    /\ order = [t \in Threads |-> "none"]
    /\ pending = [t \in Threads |-> FALSE]

\* All threads rest, for as long as no client calls a method.
Rest ==
    /\ started = {}
    /\ \A t \in Threads : pc[t] = "idle"
    /\ UNCHANGED vars

Next ==
    \/ \E t \in Threads : processQueues(t) \/ blockUpdates(t)
    \/ \E w \in Workers : run(w)
    \/ \E c \in Clients : client(c)
    \/ Rest

Spec == Init /\ [][Next]_vars

\* A thread that is inside a method goes on; a client need not call any, but
\* one that has locked the scheduler unlocks it.
Fairness ==
    /\ \A t \in Threads : WF_vars(processQueues(t)) /\ WF_vars(blockUpdates(t))
    /\ \A w \in Workers : WF_vars(run(w))
    /\ \A c \in Clients : WF_vars(pc[c] # "idle" /\ client(c))

FairSpec == Spec /\ Fairness

(***************************************************************************)
(* Correctness.                                                            *)
(***************************************************************************)
Labels ==
    {"idle", "wake", "wakeCheck", "wakeAll", "blockedCheck", "exclusiveCheck",
     "balance", "externalJobs", "strokesLock", "strokes", "exclusiveAgain",
     "tryUpdates", "updatesLock", "updates", "block", "blockRef", "blockCheck",
     "blockWait", "blockSleep", "blockEnd", "blocked", "unblock", "run", "body",
     "done", "release", "lockWait", "locked", "unlock", "doneWait", "doneCheck",
     "barrierBlock", "barrierWait", "barrierCheck", "tryBlock", "tryWait",
     "tryCheck", "refreshDrain", "refreshLock", "refreshAdd", "refreshWait"}

QueuesTypeOK ==
    /\ updatesList \in Seq(Areas)
    /\ spontaneousJobsList \in Seq(Spontaneous)

FlagsTypeOK ==
    /\ processingBlocked \in BOOLEAN
    /\ updatesLockCounter \in Int
    /\ calls \in Nat

ThreadsTypeOK ==
    /\ pc \in [Threads -> Labels]
    /\ ret \in [Threads -> Labels]
    /\ order \in [Threads -> {"none", "exclusive", "strokesFirst", "updatesFirst"}]
    /\ pending \in [Threads -> BOOLEAN]

\* Every variable has its type; in particular a slot, the pool and a worker
\* agree on which slots there are, and a job is one that its strategy can make.
TypeOK ==
    /\ ContextTypeOK /\ StrokesTypeOK
    /\ ConditionTypeOK /\ sleepers \subseteq Threads
    /\ QueuesTypeOK /\ FlagsTypeOK /\ ThreadsTypeOK

\* The threads between initWaiting() and endWaiting(), and those between the
\* ref() in blockUpdates() and the deref() in unblockUpdates().
Waiting ==
    {t \in Threads : pc[t] \in {"blockRef", "blockCheck", "blockWait", "blockSleep",
                                "blockEnd"}}
Holding ==
    {t \in Threads : \/ pc[t] \in {"blockCheck", "blockWait", "blockSleep", "blockEnd",
                                   "blocked", "unblock"}
                    \/ ret[t] = "unblock"}

\* No interleaving of threads that block and unblock updates, from inside jobs
\* or outside, makes a counter drift: neither are updates blocked for good nor
\* released under a thread that still needs them blocked.
BlockersCounted ==
    /\ waitCounter = Cardinality(Waiting)
    /\ updatesLockCounter = Cardinality(Holding)

\* A thread that has returned from blockUpdates() and not yet called
\* unblockUpdates().
HasBlocked(t) == pc[t] \in {"blockEnd", "blocked", "unblock"} \/ ret[t] = "unblock"

\* "Blocks all the updates from execution": between blockUpdates() and
\* unblockUpdates() no merge and no spontaneous job is in a slot, whichever
\* threads process the queues in the meantime.
UpdatesStayBlocked == \A t \in Threads : HasBlocked(t) => MergeJobs = {}

\* A wakeAll() reaches whoever waits: when no update is running and no other
\* thread is on its way to report that, nobody is asleep in blockUpdates().
NobodyIsForgotten ==
    MergeJobs = {} /\ (\A t \in Threads : pc[t] \in {"idle", "blockSleep"})
        => sleepers = {}

\* A client to which lock(), barrierLock(), tryBarrierLock() or the lock inside
\* fullRefresh() has returned.
HasLocked(c) ==
    \/ pc[c] \in {"locked", "unlock", "refreshLock", "refreshAdd"}
    \/ ret[c] = "locked" /\ pc[c] # "refreshWait"

\* "Blocks processing of the queues; waits until all the executing jobs are
\* finished": under the lock nothing is executed, and what is added is delayed.
LockedMeansQuiet ==
    \A c \in Clients : HasLocked(c) => PoolDone /\ \A i \in Slots : ~isRunning(i)

\* A sequential job never shares the slots with another stroke job.
SequentialAlone ==
    \A i, k \in StrokeJobs : i # k => ~isSequential(m_jobs[i].job)

\* The stroke that owns the strategy a running job uses is the head of the
\* queue: a stroke is not destroyed, nor the next one begun, under its jobs.
RunningStrokeIsHead ==
    \A i \in StrokeJobs : strokesQueue # << >> /\ m_jobs[i].stroke = Head(strokesQueue)

\* Two merges that run at the same time touch different parts of the image.
MergesDisjoint ==
    \A i, k \in Slots :
        i # k /\ m_jobs[i].type = "MERGE" /\ m_jobs[k].type = "MERGE"
            => ~walkerIntersectsJob(m_jobs[i].area, m_jobs[k].area)

\* The workers that execute the job of a slot and have not yet emptied it.
Runners(i) == {w \in Workers : on[w] = i /\ pc[w] # "release" /\ ret[w] # "release"}

\* A slot is reused while the thread that ran it is still inside run(): every
\* job is nevertheless executed once, and no thread finds its slot empty or
\* holding the job of another thread.
OneRunnerPerJob ==
    \A i \in Slots :
        /\ isRunning(i) <=> i \in started \/ Runners(i) # {}
        /\ i \in started => Runners(i) = {}
        /\ \A v, w \in Runners(i) : v = w

\* What the strokes show of themselves to a tool.
dabsOf(jobs) == {k \in DOMAIN jobs : jobs[k].kind = "dab"}
dabsAsked ==
    [s \in Strokes |->
        IF stroke[s] = NoStroke THEN 0 ELSE Cardinality(dabsOf(stroke[s].jobs))]
strokeJobsRunning == Cardinality(StrokeJobs)
sequentialRunning == \E i \in StrokeJobs : isSequential(m_jobs[i].job)

Lifecycle == INSTANCE StrokeLifecycle WITH
    queue <- strokesQueue,
    asked <- dabsAsked,
    begun <- handed,
    running <- strokeJobsRunning,
    alone <- sequentialRunning

\* A strategy with a job for every phase, as a tool's stroke has it: the jobs are
\* made with null data, so they are sequential, and only a cancel job undoes.
OneJob(jobs, kind) ==
    Len(jobs) = 1 /\ jobs[1].kind = kind /\ isSequential(jobs[1])
WholeStrategies ==
    \A strategy \in Strategies :
        /\ OneJob(strategy.init, "init") /\ strategy.init[1].body # "populate"
        /\ OneJob(strategy.finish, "finish") /\ strategy.finish[1].body # "populate"
        /\ OneJob(strategy.cancel, "cancel")
        /\ \A job \in strategy.dab : job.kind = "dab" /\ job.body # "populate"

\* The strokes keep the promise of StrokeLifecycle: init first, every dab before
\* finish, finish or cancel but not both, one stroke after the other.
StrokesKeepLifecycle == Lifecycle!Spec

(***************************************************************************)
(* Progress, for a finite number of calls.                                 *)
(***************************************************************************)
\* Every update that is asked for reaches a slot, whatever locks, blocked
\* sections and strokes come in between.
UpdatesAreServed ==
    \A area \in Areas :
        (\E k \in DOMAIN updatesList : updatesList[k] = area)
            ~> (\A k \in DOMAIN updatesList : updatesList[k] # area)

\* Every stroke that was ended or cancelled runs out of jobs and is dequeued.
StrokesAreRetired ==
    \A s \in Strokes : (isAlive(s) /\ stroke[s].ended) ~> ~isAlive(s)

\* blockUpdates() returns: a waiting thread is not forgotten by the threads
\* that see the last update off.
BlockUpdatesReturns == \A t \in Threads : pc[t] = "block" ~> pc[t] = "blocked"

\* Every call of a client returns.
CallsReturn == \A c \in Clients : pc[c] # "idle" ~> pc[c] = "idle"

=============================================================================
