CONSTANTS
    Chunks = {c0, c1, c2}
    MAIN = c0
    NULL = NULL
    BITSET_LEN = 2
    PAGE_MAP_LEN = 2
    PAGE_SIZE = 4
    BinSize <- MCBinSize
    BinElements <- MCBinElements
    BinPages <- MCBinPages
    Sizes = {1, 8}
    ReallocSizes = {}
    LIMIT = 2
    MAX_LIVE = 2
    MAX_REQUESTS = 1
    PIN_MAIN = FALSE
    MAX_NUM = 3
SPECIFICATION Spec
SYMMETRY MCSymmetry
INVARIANT RingWellFormed
