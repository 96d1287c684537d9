------------------------- MODULE MCKisUpdateScheduler -------------------------
EXTENDS KisUpdateScheduler, TLC

CONSTANTS c1, c2, k1, w1, w2, a1, a2, s1, s2

\* Threads, strokes and areas are interchangeable where all areas are alike.
Symmetry ==
    Permutations(Clients) \cup Permutations(Workers) \cup Permutations(Areas)
        \cup Permutations(Strokes)

\* Areas that are far apart: a merge touches the cells of its own area only.
OwnCell == [a \in Areas |-> {a}]

Dab(sequentiality, body) ==
    [kind |-> "dab", sequentiality |-> sequentiality, exclusive |-> FALSE, body |-> body]
ExclusiveDab == [Dab("CONCURRENT", "plain") EXCEPT !.exclusive = TRUE]

Freehand(exclusive, dabs) ==
    [isExclusive |-> exclusive, init |-> <<DefaultJob("init", "plain")>>, dab |-> dabs,
     finish |-> <<DefaultJob("finish", "plain")>>,
     cancel |-> <<DefaultJob("cancel", "populate")>>]

\* Dabs of every sequentiality; the cancel job adds an undo job.
DabStrategies ==
    {Freehand(FALSE, {Dab("CONCURRENT", "plain"), Dab("BARRIER", "plain"),
                      Dab("SEQUENTIAL", "plain"), ExclusiveDab})}

BlockingStrategies ==
    {Freehand(exclusive, {Dab("SEQUENTIAL", "block"), Dab("CONCURRENT", "dirty")}) :
        exclusive \in BOOLEAN}

\* Strokes whose own first job blocks updates, after one that asks for one.
ShortStrategies ==
    {[isExclusive |-> FALSE, init |-> <<DefaultJob("init", "dirty")>>, dab |-> {},
      finish |-> <<DefaultJob("finish", "block")>>,
      cancel |-> <<DefaultJob("cancel", "populate")>>]}
=============================================================================
