\* Up to five processes besides idleproc; MAX_PID is twice MaxProcess.
SPECIFICATION FairPidSpec
CONSTANTS
    MaxProcess = 6
    MAX_PID = 12
INVARIANTS
    UniquePids
    GapIsFree
PROPERTIES
    SearchEnds
