SPECIFICATION FairSpec
CONSTANTS
    PoolDepth = 3
    RingCap = 2
    HasWakeFd = TRUE
    MayRestart = FALSE
    SubmitFaults = FALSE
    EvtShared = TRUE
INVARIANTS
    ReaderNotStranded
    StopsOnlyWhenDead
PROPERTIES
    UnplugStopsStream
CHECK_DEADLOCK FALSE
