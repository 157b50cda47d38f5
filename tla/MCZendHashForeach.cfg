\* A by-reference foreach over an array that the loop body changes: string
\* key s1 and next_index_insert keys 0..2, tables of 2 and 4 buckets, one
\* foreach.  Expected to fail: zend_hash_rehash moves an iterator that sits
\* before the first hole.
CONSTANTS
    Tables = {T1}
    s1 = s1
    s2 = s2
    Strs = {s1}
    StrHash <- MC_StrHash
    IntKeys = {}
    Vals = {v1}
    NULL = NULL
    UNDEF = UNDEF
    JUNK = JUNK
    HT_MIN_SIZE = 2
    HT_MAX_SIZE = 4
    ZEND_LONG_MAX = 2
    ITER_COUNT_MAX = 1
    ITER_SLOTS = 1
    ITER_GROW = 1
    MAX_ITER_SLOTS = 1
    MAX_FOREACH = 1
    STRICT_NEW = TRUE
    BULK_OPS = TRUE
    EXTEND_OPS = FALSE
    MERGE_SOURCES = {}
    v1 = v1
    SrcVals = {}
    w = w

SPECIFICATION Spec

INVARIANT
    ForeachVisitsStableEntries
