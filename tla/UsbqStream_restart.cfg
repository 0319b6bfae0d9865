SPECIFICATION FairSpec
CONSTANTS
    PoolDepth = 2
    RingCap = 2
    HasWakeFd = TRUE
    MayRestart = TRUE
    SubmitFaults = TRUE
    EvtShared = TRUE
INVARIANTS
    PendingExact
    WaitDrainsCancels
    PoolComplete
    SelectNotStranded
PROPERTIES
    CallsReturn
CHECK_DEADLOCK FALSE
