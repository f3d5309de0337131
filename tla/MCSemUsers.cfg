\* Three threads, a mutex and a signal.
SPECIFICATION UsersSpec
CONSTANTS
    a = a
    b = b
    c = c
    m = m
    s = s
    idleproc = idleproc
    NULL = NULL
    Proc = {a, b, c}
    Sem = {m, s}
    SemInit <- FirstValues
    MAX_TIME_SLICE = 1
    MaxValue = 1
SYMMETRY Threads
INVARIANTS
    WaitQueueOK
    DownUninterrupted
PROPERTIES
    ImplementsTickets
