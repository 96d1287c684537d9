SPECIFICATION Spec
CONSTANTS
    t1 = t1
    t2 = t2
    layer = layer
    projection = projection
    NoOne = NoOne
    NoTile = NoTile
    NoData = NoData
    Swapper = Swapper
    Pooler = Pooler
    Threads = {t1, t2}
    Tiles = {layer, projection}
    Copies = {projection}
    TileData = {1, 2, 3, 4}
    SoftLimit = 1
    HardLimit = 1
    MaxClones = 1
    OneWriter = TRUE
    MaxWrites = 2
    MaxItems = 1
    CompressedSize <- MCCompressedSize
    ChunkSizes = {1, 2}
    SlabSize = 3
    MaxStoreSize = 9
INVARIANT ClonesAreFresh
SYMMETRY Symmetry
