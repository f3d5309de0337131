\* Trees of at most two files on disks with room for three blocks of contents; an
\* inode has one direct block and an entry block with three entries.
SPECIFICATION Spec
CONSTANTS
    f1 = f1
    f2 = f2
    d1 = d1
    NULL = NULL
    x = x
    y = y
    Zero = Zero
    File = {f1, f2}
    Fd = {d1}
    Byte = {x, y}
    NBlocks = 24
    Writes <- MCWrites
    SFS_BLKSIZE = 2
    SFS_NDIRECT = 1
    SFS_BLK_NENTRY = 3
    SFS_MAX_FILE_SIZE = 8
    SFS_BLKBITS = 7
    Homes <- MCHomes
    IOBUF_SIZE = 2
    Reads = {1, 3}
    SeekTo = {3, 6}
SYMMETRY Interchangeable
CHECK_DEADLOCK FALSE
INVARIANTS
    BlocksOwnedOnce
    FilesHoldWrites
