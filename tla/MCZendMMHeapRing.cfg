CONSTANTS
    Chunks = {c0, c1, c2, c3, c4}
    MAIN = c0
    NULL = NULL
    BITSET_LEN = 2
    PAGE_MAP_LEN = 2
    PAGE_SIZE = 4
    BinSize <- MCBinSize
    BinElements <- MCBinElements
    BinPages <- MCBinPages
    Sizes = {8, 12}
    ReallocSizes = {}
    LIMIT = 5
    MAX_LIVE = 4
    MAX_REQUESTS = 1
    PIN_MAIN = TRUE
    MAX_NUM = 5
SPECIFICATION Spec
SYMMETRY MCSymmetry
INVARIANTS
    RingWellFormed
    AllocationsDisjoint
    BitsetOpsMatchSets
