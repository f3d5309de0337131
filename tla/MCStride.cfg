\* Three processes, one of them initproc; strides and their differences wrap at 8, and
\* both priorities that matter: none and the highest; every tick may end a slice.
SPECIFICATION Spec
CONSTANTS
    Proc = {init, a, b}
    initproc = init
    idleproc = idle
    NULL = NULL
    Word = 8
    BIG_STRIDE = 3
    Priorities = {0, 3}
    MAX_TIME_SLICE = 1
INVARIANT
    ReadyExact
PROPERTIES
    OrderKept
    ReadyRuns
