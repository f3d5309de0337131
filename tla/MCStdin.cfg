\* Two readers, a buffer of two characters.
SPECIFICATION FairSpec
CONSTANTS
    p1 = p1
    p2 = p2
    idleproc = idleproc
    x = x
    y = y
    NUL = NUL
    Proc = {p1, p2}
    MAX_TIME_SLICE = 1
    Char = {x, y}
    STDIN_BUFSIZE = 2
    MaxLen = 2
INVARIANTS
    NoSleepOnInput
    WaitFramesLive
PROPERTIES
    ImplementsChannel
    InputServesReaders
