SPECIFICATION Spec
CONSTANTS
    Devices = {1}
    VidPids = 1
    NumFrontends = 2
    MaxHandles = 2
    Faulty = {1}
    MaxDoubt = 0
INVARIANT
    FailedOpenCleansUp
