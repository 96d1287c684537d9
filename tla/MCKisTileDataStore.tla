-------------------------- MODULE MCKisTileDataStore --------------------------
EXTENDS KisTileDataStore, TLC

CONSTANTS t1, t2, layer, projection

MCCompressedSize == [x \in TileData |-> IF x = 1 THEN 2 ELSE 1]

Symmetry == Permutations(Threads)
=============================================================================
