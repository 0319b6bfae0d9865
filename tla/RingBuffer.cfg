SPECIFICATION RingSpec
CONSTANTS
    Cap = 3
    MaxLen = 5
    MaxBytes = 12
INVARIANTS
    BytesConserved
PROPERTIES
    ImplementsFifo
