SPECIFICATION FairSpec
CONSTANTS
    PoolDepth = 2
    RingCap = 2
    HasWakeFd = TRUE
    MayRestart = FALSE
    SubmitFaults = FALSE
    EvtShared = FALSE
INVARIANT
    FreesIdlePool
CHECK_DEADLOCK FALSE
