\* Two processes besides initproc; memory for one inode less than the disk has.
SPECIFICATION FilesSpec
CONSTANTS
    p1 = p1
    p2 = p2
    initproc = initproc
    User = {p1, p2}
    user_main = p1
    NULL = NULL
    NO_FD = NO_FD
    FILES_STRUCT_NENTRY = 3
    i1 = i1
    i2 = i2
    Slot = {i1, i2}
    console = console
    Dev = {console}
    rootdir = rootdir
    subdir = subdir
    prog = prog
    Dir = {rootdir, subdir}
    File = {prog}
    SFS_BLKN_ROOT = rootdir
    Entry <- MCEntry
    Path <- MCPath
    Flags <- MCFlags
    MaxLost = 1
    MaxOpened = 3
CHECK_DEADLOCK FALSE
INVARIANTS
    RefsExact
    NamesKept
    NothingUnsaved
