------------------------------ MODULE KisStroke ------------------------------
(***************************************************************************)
(* A stroke of Krita's image engine (krita/image/kis_stroke.cpp): the jobs *)
(* of one user action, produced by a strategy and kept in a queue of their *)
(* own until the strokes queue hands them to the updater context.          *)
(*                                                                         *)
(* The module has no variables: a stroke is a record and the methods of    *)
(* KisStroke are operators on it.  A strategy that a factory method may    *)
(* refuse to create (a null pointer) is a sequence of at most one job, so  *)
(* that enqueueing a null strategy is appending the empty sequence.        *)
(***************************************************************************)
EXTENDS Naturals, Sequences

\* What a job is for, by the factory of the strategy that made it. "undo" is
\* a job that a cancel job adds to its own, already cancelled stroke.
JobKinds == {"init", "dab", "finish", "cancel", "undo"}

Sequentialities == {"CONCURRENT", "SEQUENTIAL", "BARRIER"}

\* What the body of a job does to the scheduler: nothing; asks for an update
\* of the projection (setDirty); runs a section with updates blocked; adds an
\* undo job to its own stroke.
Bodies == {"plain", "dirty", "block", "populate"}

KisStrokeJob ==
    [kind : JobKinds, sequentiality : Sequentialities,
     exclusive : BOOLEAN, body : Bodies]

\* A job whose data is null is sequential and neither a barrier nor exclusive.
DefaultJob(kind, body) ==
    [kind |-> kind, sequentiality |-> "SEQUENTIAL",
     exclusive |-> FALSE, body |-> body]

isSequential(job) == job.sequentiality = "SEQUENTIAL"
isBarrier(job) == job.sequentiality = "BARRIER"

\* The jobs a stroke strategy creates; dab is the set of jobs that the data
\* objects passed to addJob() can make of its dab strategy.
KisStrokeStrategy ==
    [isExclusive : BOOLEAN, init : Seq(KisStrokeJob), dab : SUBSET KisStrokeJob,
     finish : Seq(KisStrokeJob), cancel : Seq(KisStrokeJob)]

Stroke ==
    [strategy : KisStrokeStrategy, jobs : Seq(KisStrokeJob),
     initialized : BOOLEAN, ended : BOOLEAN, cancelled : BOOLEAN,
     prevSequential : BOOLEAN]

NewStroke(strategy) ==
    [strategy |-> strategy, jobs |-> strategy.init,
     initialized |-> strategy.init = << >>, ended |-> FALSE,
     cancelled |-> FALSE, prevSequential |-> FALSE]

hasJobs(stroke) == stroke.jobs # << >>

strokeAddJob(stroke, job) == [stroke EXCEPT !.jobs = Append(@, job)]

strokeEnd(stroke) ==
    [stroke EXCEPT !.ended = TRUE, !.jobs = @ \o stroke.strategy.finish]

\* Mutant: a stroke that never began gets a cancel job too.
MutantCancelsUnbegun(stroke) ==
    [stroke EXCEPT
        !.jobs = IF hasJobs(stroke) \/ ~stroke.ended
                 THEN stroke.strategy.cancel ELSE << >>,
        !.cancelled = TRUE,
        !.ended = TRUE]

\* A stroke that has not run its first job is just emptied; one that has
\* still something to do, or is still open, gets the cancel job instead of
\* what it had; for one that has handed out its last job it is too late.
strokeCancel(stroke) ==
    [stroke EXCEPT
        !.jobs = IF stroke.initialized /\ (hasJobs(stroke) \/ ~stroke.ended)
                 THEN stroke.strategy.cancel ELSE << >>,
        !.cancelled = TRUE,
        !.ended = TRUE]

\* The stroke after popOneJob() has taken the head of its queue.
strokePop(stroke) ==
    [stroke EXCEPT !.jobs = Tail(@), !.initialized = TRUE,
                   !.prevSequential = isSequential(Head(stroke.jobs))]

prevJobSequential(stroke) == stroke.prevSequential
nextJobSequential(stroke) == hasJobs(stroke) /\ isSequential(Head(stroke.jobs))
nextJobBarrier(stroke) == hasJobs(stroke) /\ isBarrier(Head(stroke.jobs))
=============================================================================
