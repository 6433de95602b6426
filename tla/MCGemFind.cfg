SPECIFICATION Spec
CONSTANTS
    Threads = {t1, t2}
    Objs = {b1}
    NoObj = NoObj
    Requests <- AllRequests
    Shapes <- AllShapes
    iommu_en = TRUE
    funcs_mmap = FALSE
    SramChunks <- Chunks
    NbufLimit = 2
    cache_sgt <- Blocks
    ULong = 64
    MaxVmas = 1
CHECK_DEADLOCK FALSE
INVARIANT
    FoundIsLive
