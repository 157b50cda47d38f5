\* The iterator registry: two foreach loops at once over one array with
\* integer keys 0 and 1 (next_index_insert, ZEND_LONG_MAX = 1).  The
\* registry starts with one slot and grows by one to two, so both the reuse
\* of a freed slot and the growth path run, and nIteratorsCount sticks at
\* ITER_COUNT_MAX = 1 as soon as two iterators share the array.
CONSTANTS
    Tables = {T1}
    s1 = s1
    s2 = s2
    Strs = {}
    StrHash <- MC_StrHash
    IntKeys = {}
    Vals = {v1}
    NULL = NULL
    UNDEF = UNDEF
    JUNK = JUNK
    HT_MIN_SIZE = 2
    HT_MAX_SIZE = 4
    ZEND_LONG_MAX = 1
    ITER_COUNT_MAX = 1
    ITER_SLOTS = 1
    ITER_GROW = 1
    MAX_ITER_SLOTS = 2
    MAX_FOREACH = 2
    STRICT_NEW = TRUE
    BULK_OPS = TRUE
    EXTEND_OPS = FALSE
    MERGE_SOURCES = {}
    v1 = v1
    SrcVals = {}
    w = w

SPECIFICATION Spec

INVARIANT
    IteratorsCounted
