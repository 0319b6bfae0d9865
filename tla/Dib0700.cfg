SPECIFICATION Spec
CONSTANTS
    None = None
    NumRecords = 3
    MaxFaults = 4
INVARIANTS
    WholeFirmwareRuns
    ReadsItsRegister
    StreamMatchesCapture
    EnabledOnFreshUrbs
    LengthBeforeStream
