---------------------------- MODULE StrokeLifecycle ----------------------------
(***************************************************************************)
(* What the strokes of Krita's image promise to a tool, without slots,     *)
(* workers, locks or queues of jobs.                                       *)
(*                                                                         *)
(*   - Strokes are done one after the other in the order they were opened. *)
(*   - A stroke begins with its init job.  Its dabs follow, and then       *)
(*     exactly one job out of finish and cancel: finish after every dab    *)
(*     that was asked for, cancel in place of those not yet begun, undo    *)
(*     jobs after a cancel only.                                           *)
(*   - A sequential job is executed alone among the jobs of strokes.       *)
(*   - A stroke that has begun is not given up before finish or cancel.    *)
(***************************************************************************)
EXTENDS Naturals, Sequences

CONSTANT Strokes

VARIABLES
    queue,      \* the strokes opened and not yet given up, the oldest first
    asked,      \* how many dabs of each stroke are asked for and not begun
    begun,      \* the kinds of jobs of each stroke that have begun
    running,    \* how many jobs are being executed
    alone       \* whether one of them is sequential

vars == <<queue, asked, begun, running, alone>>

Init ==
    /\ queue = << >>
    /\ asked = [s \in Strokes |-> 0]
    /\ begun = [s \in Strokes |-> {}]
    /\ running = 0
    /\ alone = FALSE

IsOpen(s) == \E k \in DOMAIN queue : queue[k] = s

Closed(s) == begun[s] \cap {"finish", "cancel"} # {}

Open(s) ==
    /\ ~IsOpen(s) /\ begun[s] = {}
    /\ queue' = Append(queue, s)
    /\ UNCHANGED <<asked, begun, running, alone>>

Ask(s) ==
    /\ IsOpen(s) /\ ~Closed(s)
    /\ asked' = [asked EXCEPT ![s] = @ + 1]
    /\ UNCHANGED <<queue, begun, running, alone>>

GiveUpDabs(s) ==
    /\ IsOpen(s)
    /\ asked' = [asked EXCEPT ![s] = 0]
    /\ UNCHANGED <<queue, begun, running, alone>>

\* The strokes still queued after those that are settled have been given up.
Settled(s) == begun[s] = {} \/ Closed(s)

GivesUp(rest) ==
    \E k \in 0..Len(queue) :
        /\ rest = SubSeq(queue, k + 1, Len(queue))
        /\ k > 0 => running = 0
        /\ \A j \in 1..k : Settled(queue[j])

MayBegin(s, kind) ==
    \/ kind = "init" /\ begun[s] = {}
    \/ kind = "dab" /\ "init" \in begun[s] /\ ~Closed(s) /\ asked[s] > 0
    \/ kind = "finish" /\ "init" \in begun[s] /\ ~Closed(s) /\ asked[s] = 0
    \/ kind = "cancel" /\ "init" \in begun[s] /\ ~Closed(s)
    \/ kind = "undo" /\ "cancel" \in begun[s]

Begin(kind, sequential) ==
    /\ ~alone
    /\ sequential => running = 0
    /\ kind # "dab" => sequential
    /\ GivesUp(queue') /\ queue' # << >>
    /\ LET s == Head(queue')
       IN  /\ MayBegin(s, kind)
           /\ begun' = [begun EXCEPT ![s] = @ \cup {kind}]
           /\ asked' = IF kind = "dab" THEN [asked EXCEPT ![s] = @ - 1] ELSE asked
    /\ running' = running + 1
    /\ alone' = sequential

Complete ==
    /\ running' = running - 1
    /\ alone' = FALSE
    /\ running > 0
    /\ UNCHANGED <<queue, asked, begun>>

Retire ==
    /\ GivesUp(queue')
    /\ UNCHANGED <<asked, begun, running, alone>>

Next ==
    \/ \E s \in Strokes : Open(s) \/ Ask(s) \/ GiveUpDabs(s)
    \/ \E kind \in {"init", "dab", "finish", "cancel", "undo"},
          sequential \in BOOLEAN : Begin(kind, sequential)
    \/ Complete \/ Retire

Spec == Init /\ [][Next]_vars
================================================================================
