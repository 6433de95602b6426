SPECIFICATION Spec
CONSTANTS
    Threads = {t1, t2}
    Objs = {b1, b2}
    NoObj = NoObj
    Requests <- AllRequests
    Shapes <- AllShapes
    iommu_en = TRUE
    funcs_mmap = TRUE
    SramChunks <- Chunks
    NbufLimit = 2
    cache_sgt <- Blocks
    ULong = 64
    MaxVmas = 1
CONSTRAINTS Worthwhile OneShared
SYMMETRY Symmetry
CHECK_DEADLOCK FALSE
INVARIANTS
    TypeOK
    RefsExact
    EverythingReleased
    SramConserved
    SyncExact
