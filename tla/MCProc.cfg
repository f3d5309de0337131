\* initproc and three user processes: trees of depth three, three siblings.
SPECIFICATION FairSpec
CONSTANTS
    init = init
    p1 = p1
    p2 = p2
    p3 = p3
    idleproc = idleproc
    NULL = NULL
    Proc = {init, p1, p2, p3}
    initproc = init
    MAX_PROCESS = 5
    MAX_TIME_SLICE = 1
    CanKill = {p1}
    FilesMayFail = FALSE
INVARIANTS
    TreeOK
    WaiterNotForgotten
    InitLeavesNobody
PROPERTIES
    WaitReturns
    KilledWaiterExits
