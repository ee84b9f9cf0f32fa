CONSTANTS
    NumGens = 3
    CacheGen = 1
    Arenas <- TwoArenas
    AllocSz = 2
    MaxSz <- MaxSizes
    Ratio <- Ratios
    PageSz = 4
    L2Sz = 4
    L1Sz = 8
    NumPages = 24
    UnlimitedHeap = FALSE
    LargeSz = {5}
    MaxGC = 4
SPECIFICATION Spec
INVARIANTS SpaceSuffices BibopCovers MemoryOwned
CHECK_DEADLOCK FALSE
