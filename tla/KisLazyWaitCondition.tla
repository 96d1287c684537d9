------------------------- MODULE KisLazyWaitCondition -------------------------
(***************************************************************************)
(* The condition on which threads wait until no update is running          *)
(* (krita/image/kis_lazy_wait_condition.h).  Every operation is one        *)
(* critical section of the condition's mutex; sleeping on the              *)
(* QWaitCondition releases it, which splits wait() in two.                 *)
(***************************************************************************)
EXTENDS Integers

\* Bound: how far below zero wait() is followed to take the wake-up counter.
\* It gets there when a thread consumes two wake-ups of one wakeAll(); wait()
\* then returns at once, each time, until a wakeAll() raises the counter.
CONSTANT MaxDebt

VARIABLES
    waitCounter,    \* threads between initWaiting() and endWaiting()
    wakeupCounter,  \* wake-ups not yet consumed by a wait()
    sleepers        \* threads asleep on the QWaitCondition

conditionVars == <<waitCounter, wakeupCounter, sleepers>>

initWaiting ==
    /\ waitCounter' = waitCounter + 1
    /\ wakeupCounter' = IF waitCounter = 0 THEN 0 ELSE wakeupCounter
    /\ UNCHANGED sleepers

endWaiting ==
    /\ waitCounter' = waitCounter - 1
    /\ UNCHANGED <<wakeupCounter, sleepers>>

\* wait() with a wake-up in store.
waitConsume ==
    /\ wakeupCounter # 0
    /\ wakeupCounter > -MaxDebt
    /\ wakeupCounter' = wakeupCounter - 1
    /\ UNCHANGED <<waitCounter, sleepers>>

\* wait() without one: the thread sleeps ...
waitSleep(t) ==
    /\ wakeupCounter = 0
    /\ sleepers' = sleepers \cup {t}
    /\ UNCHANGED <<waitCounter, wakeupCounter>>

\* ... and, once woken, consumes a wake-up.
waitReturn(t) ==
    /\ t \notin sleepers
    /\ wakeupCounter > -MaxDebt
    /\ wakeupCounter' = wakeupCounter - 1
    /\ UNCHANGED <<waitCounter, sleepers>>

wakeAll ==
    IF waitCounter = 0 THEN UNCHANGED conditionVars
    ELSE /\ wakeupCounter' = wakeupCounter + waitCounter
         /\ sleepers' = {}
         /\ UNCHANGED waitCounter

\* Threads are of no type here: the scheduler says which ones may sleep.
ConditionTypeOK == waitCounter \in Int /\ wakeupCounter \in Int

ConditionInit ==
    /\ waitCounter = 0
    /\ wakeupCounter = 0
    /\ sleepers = {}
=============================================================================
