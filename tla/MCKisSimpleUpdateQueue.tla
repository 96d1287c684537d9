------------------------ MODULE MCKisSimpleUpdateQueue ------------------------
EXTENDS KisSimpleUpdateQueue, TLC

CONSTANTS t1, t2

Symmetry == Permutations(Threads)

\* An image of 4 by 4 cells and patches of 2 by 2: requests that start left of
\* and above the image, that end on the grid of patches and off it, that
\* overlap, that touch, and that are longer than a patch one way only.
Image == Rect(0, 0, 4, 4)

Areas ==
    {Rect(-1, -1, 4, 4), Rect(1, 0, 3, 3), Rect(1, 1, 1, 2), Rect(2, 1, 1, 1),
     Rect(0, 2, 4, 1)}

ImageRequests ==
    [node : {"layer"}, type : {"UPDATE"}, rect : Areas]
        \cup [node : {"layer"}, type : {"FULL_REFRESH"}, rect : {Rect(1, 1, 1, 2)}]
=============================================================================
