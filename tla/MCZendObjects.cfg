CONSTANTS
    Objs = {o1, o2}
    Keys = {k1, k2}
    UNDEF = UNDEF
    INIT_SIZE = 1
    MAX_HANDLE = 3
    REENTRANT_WRITE = FALSE
SPECIFICATION FairSpec
INVARIANTS
    TypeOK
    StoreConsistent
    NoUseAfterFree
    ShutdownDestructsAll
PROPERTY
    ShutdownCompletes
