\* A by-reference foreach whose body deletes every element and then
\* releases the array: with nNumUsed back at 0, zend_array_destroy skips
\* zend_hash_iterators_remove and the registry keeps the freed table.
CONSTANTS
    Tables = {T1}
    s1 = s1
    s2 = s2
    Strs = {}
    StrHash <- MC_StrHash
    IntKeys = {}
    Vals = {v1}
    NULL = NULL
    UNDEF = UNDEF
    JUNK = JUNK
    HT_MIN_SIZE = 2
    HT_MAX_SIZE = 4
    ZEND_LONG_MAX = 1
    ITER_COUNT_MAX = 1
    ITER_SLOTS = 1
    ITER_GROW = 1
    MAX_ITER_SLOTS = 2
    MAX_FOREACH = 2
    STRICT_NEW = TRUE
    BULK_OPS = TRUE
    EXTEND_OPS = FALSE
    MERGE_SOURCES = {}
    v1 = v1
    SrcVals = {}
    w = w

SPECIFICATION Spec

INVARIANT
    IteratorsReferLive
