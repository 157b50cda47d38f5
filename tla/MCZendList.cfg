\* Handles 1..3 (0 is never handed out), type ids 1..2 with their names
\* drawn from {n1, n2} so that two types may share a name, refcounts up to
\* 2, two persistent keys.  The engine stops after the destructor table is
\* destroyed (phase "done"), so deadlock is not checked.
CONSTANTS
    MAX_HANDLE = 3
    MAX_TYPES = 2
    MAX_RC = 2
    PKeys = {k1, k2}
    Modules = {m1, m2}
    Names = {n1, n2}
    NULL = NULL
SPECIFICATION Spec
SYMMETRY MCSymmetry
CHECK_DEADLOCK FALSE
INVARIANTS
    TypeOK
    DestructorsRunExactlyOnce
    NoFetchAfterClose
    RefcountTracksHolders
    DtorIdsResolve
