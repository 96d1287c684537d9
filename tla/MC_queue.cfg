SPECIFICATION Spec
CONSTANTS
    t1 = t1
    t2 = t2
    Threads = {t1, t2}
    Requests <- ImageRequests
    CropRect <- Image
    PatchWidth = 2
    PatchHeight = 2
    MaxMergeAlpha = 100
    MaxMergeCollectAlpha = 150
    MaxCollectAlpha = 250
    MaxRequests = 2
INVARIANTS NoCellIsLost WalkersStaySplit
PROPERTY SplitCoversRequest
SYMMETRY Symmetry
