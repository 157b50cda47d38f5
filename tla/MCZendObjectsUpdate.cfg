\* zend_hash_update on a key of the symbol table whose old value's
\* destructor writes that same key: the destructor is free to unset or
\* assign the variable it was destroyed from.
CONSTANTS
    Objs = {o1, o2}
    Keys = {k1, k2}
    UNDEF = UNDEF
    INIT_SIZE = 1
    MAX_HANDLE = 3
    REENTRANT_WRITE = TRUE
SPECIFICATION Spec
INVARIANT
    NoUseAfterFree
