\* Three processes; a file part, a cleared part and a stack each; memory runs out.
SPECIFICATION Spec
CONSTANTS
    p1 = p1
    p2 = p2
    p3 = p3
    idleproc = idleproc
    NULL = NULL
    Proc = {p1, p2, p3}
    NPages = 19
    NPTEENTRY = 2
    PGSIZE = 2
    Program <- MCProgram
    USTACKPAGE = 2
    StackMapped = 1
    ArgSize = {1, 3}
    StoreAt = {1, 4}
SYMMETRY Processes
CHECK_DEADLOCK FALSE
INVARIANTS
    PagesOwnedOnce
    ImageExact
    ExitUnmaps
