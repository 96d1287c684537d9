-------------------------- MODULE KisUpdaterContext --------------------------
(***************************************************************************)
(* The updater context (krita/image/kis_updater_context.cpp) and its job   *)
(* items (kis_update_job_item.h): one slot per processor, each empty or    *)
(* holding a job, and the thread pool that runs the slots.                 *)
(*                                                                         *)
(* A slot becomes busy under the lock of the context and becomes empty,    *)
(* with no lock held, when the worker that runs it has executed the body   *)
(* of the job.  That worker then still signals the scheduler and lets the  *)
(* exclusive-job lock go, so a slot can be given its next job, and that    *)
(* job to another worker, while the first worker has not yet left run().   *)
(***************************************************************************)
EXTENDS Naturals, KisStroke

CONSTANTS
    NumThreads,     \* m_jobs.size(): the size of the pool, and of Workers
    Workers,        \* the threads of m_threadPool
    Strokes,        \* identities of strokes (KisStrokeId)
    Areas,          \* the update requests the runs distinguish
    Spontaneous,    \* kinds of spontaneous jobs; equal kinds override
    accessRect,     \* the cells a merge of each area reads ...
    changeRect      \* ... and those it writes

ASSUME ContextAssumption == NumThreads \in Nat \ {0}

VARIABLES
    m_jobs,         \* the job item of every slot
    started,        \* slots given to m_threadPool.start() and not yet taken
    on,             \* the slot whose run() a worker executes
    holds           \* how a worker holds m_exclusiveJobLock

contextVars == <<m_jobs, started, on, holds>>

Slots == 1..NumThreads
NoSlot == 0

EMPTY == [type |-> "EMPTY"]
MERGE(area) == [type |-> "MERGE", area |-> area]
STROKE(s, job) == [type |-> "STROKE", stroke |-> s, job |-> job]
SPONTANEOUS(kind) == [type |-> "SPONTANEOUS", kind |-> kind]

MergeItems == [type : {"MERGE"}, area : Areas]
StrokeItems == [type : {"STROKE"}, stroke : Strokes, job : KisStrokeJob]
SpontaneousItems == [type : {"SPONTANEOUS"}, kind : Spontaneous]
KisUpdateJobItem == {EMPTY} \cup MergeItems \cup StrokeItems \cup SpontaneousItems

isRunning(i) == m_jobs[i].type # "EMPTY"

\* getJobsSnapshot(): the slots counted as merge jobs and as stroke jobs.
\* The code compares the two counts with zero only.
MergeJobs == {i \in Slots : m_jobs[i].type \in {"MERGE", "SPONTANEOUS"}}
StrokeJobs == {i \in Slots : m_jobs[i].type = "STROKE"}

hasSpareThread == \E i \in Slots : ~isRunning(i)
isSpareThread(i) == ~isRunning(i) /\ \A k \in 1..(i - 1) : isRunning(k)

walkerIntersectsJob(area, other) ==
    \/ accessRect[area] \cap changeRect[other] # {}
    \/ accessRect[other] \cap changeRect[area] # {}

\* Mutant: the loop over the slots stops one short.
MutantLastSlotUnseen(area) ==
    \A i \in 1..(NumThreads - 1) :
        m_jobs[i].type = "MERGE" => ~walkerIntersectsJob(area, m_jobs[i].area)

isJobAllowed(area) ==
    \A i \in Slots :
        m_jobs[i].type = "MERGE" => ~walkerIntersectsJob(area, m_jobs[i].area)

\* Mutant: the pool is given the slot before the one that was filled.
MutantStartsWrongSlot(item) ==
    \E i \in Slots :
        /\ isSpareThread(i)
        /\ m_jobs' = [m_jobs EXCEPT ![i] = item]
        /\ started' = started \cup {i - 1}
        /\ UNCHANGED <<on, holds>>

\* addMergeJob(), addStrokeJob() and addSpontaneousJob(): the first spare slot
\* gets the job and goes to the thread pool.
addItem(item) ==
    \E i \in Slots :
        /\ isSpareThread(i)
        /\ m_jobs' = [m_jobs EXCEPT ![i] = item]
        /\ started' = started \cup {i}
        /\ UNCHANGED <<on, holds>>

isExclusiveItem(i) == m_jobs[i].type = "STROKE" /\ m_jobs[i].job.exclusive

\* A thread of the pool begins run() of a started slot.
take(w, i) ==
    /\ i \in started
    /\ started' = started \ {i}
    /\ on' = [on EXCEPT ![w] = i]
    /\ UNCHANGED <<m_jobs, holds>>

\* setDone(): the slot is free again, whoever is still inside its run().
setDone(w) ==
    /\ m_jobs' = [m_jobs EXCEPT ![on[w]] = EMPTY]
    /\ UNCHANGED <<started, on, holds>>

\* Mutant: run() empties the slot once more on its way out.
MutantEmptiesAgain(w) ==
    /\ holds' = [holds EXCEPT ![w] = "none"]
    /\ m_jobs' = [m_jobs EXCEPT ![on[w]] = EMPTY]
    /\ on' = [on EXCEPT ![w] = NoSlot]
    /\ UNCHANGED started

\* The end of run(): the exclusive-job lock is released, the thread returns to
\* the pool.
leaveRun(w) ==
    /\ holds' = [holds EXCEPT ![w] = "none"]
    /\ on' = [on EXCEPT ![w] = NoSlot]
    /\ UNCHANGED <<m_jobs, started>>

ContextTypeOK ==
    /\ m_jobs \in [Slots -> KisUpdateJobItem]
    /\ started \subseteq Slots
    /\ on \in [Workers -> Slots \cup {NoSlot}]
    /\ holds \in [Workers -> {"none", "read", "write", "waiting"}]

ContextInit ==
    /\ m_jobs = [i \in Slots |-> EMPTY]
    /\ started = {}
    /\ on = [w \in Workers |-> NoSlot]
    /\ holds = [w \in Workers |-> "none"]
=============================================================================
