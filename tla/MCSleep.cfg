\* Two user processes, which may spin for ever or be killed, and a kernel thread
\* that takes ticks inside do_sleep.
SPECIFICATION FairSpec
CONSTANTS
    u1 = u1
    u2 = u2
    k1 = k1
    idleproc = idleproc
    Proc = {u1, u2, k1}
    KThread = {k1}
    MAX_TIME_SLICE = 1
    MaxSleep = 3
INVARIANTS
    RunQueueOK
    TimerFrameLive
    SleeperArmed
PROPERTIES
    ImplementsDeadlines
    SleepEnds
    RunnableRuns
