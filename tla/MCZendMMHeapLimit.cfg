CONSTANTS
    Chunks = {c0, c1, c2, c3}
    MAIN = c0
    NULL = NULL
    BITSET_LEN = 2
    PAGE_MAP_LEN = 2
    PAGE_SIZE = 4
    BinSize <- MCBinSize
    BinElements <- MCBinElements
    BinPages <- MCBinPages
    Sizes = {12}
    ReallocSizes = {}
    LIMIT = 3
    MAX_LIVE = 3
    MAX_REQUESTS = 1
    PIN_MAIN = TRUE
    MAX_NUM = 3
SPECIFICATION Spec
SYMMETRY MCSymmetry
INVARIANT HeldWithinLimit
