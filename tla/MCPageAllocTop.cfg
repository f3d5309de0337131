\* All of memory is handed out.
SPECIFICATION PageSpec
CONSTANTS
    NPage = 4
    PGSIZE = 4
    TopStaysFree = FALSE
INVARIANTS
    ListTotal
CHECK_DEADLOCK FALSE
