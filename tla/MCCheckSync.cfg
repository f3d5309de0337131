\* Four philosophers, so that one may release two neighbours.
SPECIFICATION FairSpec
CONSTANTS
    idleproc = idleproc
    NULL = NULL
    mutex = mutex
    next = next
    Proc = {0, 1, 2, 3}
    Cond = {0, 1, 2, 3}
    Sem = {0, 1, 2, 3, mutex, next}
    SemInit <- FirstValues
    N = 4
    TIMES = 1
    MAX_TIME_SLICE = 1
INVARIANTS
    UnitsExact
    ForksExclusive
PROPERTIES
    AllQuit
