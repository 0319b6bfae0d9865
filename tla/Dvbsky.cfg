SPECIFICATION Spec
CONSTANTS
    None = None
    MaxFaults = 2
INVARIANTS
    TypeOK
    AnswersPaired
    StreamMatchesCapture
    LockRestartsFifo
PROPERTIES
    CallsReturn
