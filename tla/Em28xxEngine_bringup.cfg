SPECIFICATION Spec
CONSTANTS
    Devices = {1, 2}
    VidPids = 2
    NumFrontends = 2
    MaxHandles = 4
    Faulty = {0}
    MaxDoubt = 1
INVARIANTS
    ReleasedInOrder
    HandlesBacked
    NoUseAfterRelease
    OthersLeaveNothing
    CaptureMatches
