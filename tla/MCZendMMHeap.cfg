CONSTANTS
    Chunks = {c0, c1, c2}
    MAIN = c0
    NULL = NULL
    BITSET_LEN = 2
    PAGE_MAP_LEN = 2
    PAGE_SIZE = 4
    BinSize <- MCBinSize
    BinElements <- MCBinElements
    BinPages <- MCBinPages
    Sizes = {1, 2, 8}
    ReallocSizes = {2, 4, 8}
    LIMIT = 2
    MAX_LIVE = 3
    MAX_REQUESTS = 2
    PIN_MAIN = TRUE
    MAX_NUM = 3
SPECIFICATION Spec
SYMMETRY MCSymmetry
INVARIANTS
    TypeOK
    AllocationsDisjoint
    ChunkPagesConsistent
    FreeListsSound
    RingWellFormed
    RealSizeNoWrap
