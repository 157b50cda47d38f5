\* The table on its own: one array, string keys s1 and s2 (colliding with
\* each other and with integer keys 0 and 2), integer keys -1 (never
\* packed) and 2, next_index_insert keys 0..2 with ZEND_LONG_MAX = 2, tables
\* of 2 and 4 buckets with HT_MAX_SIZE = 4 so the overflow error is reached.
\* No foreach runs here (MAX_FOREACH = 0); MCZendHashIters.cfg covers them.
CONSTANTS
    Tables = {T1}
    s1 = s1
    s2 = s2
    Strs = {s1, s2}
    StrHash <- MC_StrHash
    IntKeys <- MC_IntKeys
    Vals = {v1}
    NULL = NULL
    UNDEF = UNDEF
    JUNK = JUNK
    HT_MIN_SIZE = 2
    HT_MAX_SIZE = 4
    ZEND_LONG_MAX = 2
    ITER_COUNT_MAX = 1
    ITER_SLOTS = 1
    ITER_GROW = 1
    MAX_ITER_SLOTS = 1
    MAX_FOREACH = 0
    STRICT_NEW = TRUE
    BULK_OPS = TRUE
    EXTEND_OPS = TRUE
    MERGE_SOURCES <- MC_MergeSources
    v1 = v1
    SrcVals = {v1, w}
    w = w

SPECIFICATION Spec

INVARIANTS
    TypeOK
    LookupAgreesWithBuckets
    BucketAccounting
    InternalPointerValid
    NextFreeAboveKeys
    DupKeepsCurrent
    SortPreservesEntries
    ApplyRemovesOnly
    MergeMatchesAbstract
    CompareMatchesAbstract
    MinmaxMatchesAbstract
