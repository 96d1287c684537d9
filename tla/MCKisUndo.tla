------------------------------ MODULE MCKisUndo -------------------------------
EXTENDS KisUndo, TLC

CONSTANTS d1, d2, p1, p2, x, y, a, b

\* Devices, places and pixels are interchangeable.
Symmetry ==
    Permutations(Devices) \cup Permutations(Positions) \cup Permutations(Pixels)
        \cup Permutations(DefaultPixels)
=============================================================================
