SPECIFICATION Spec
CONSTANTS
    PacketSize = 3
    ReadSize = 5
    Fakes = {5, 7, 10}
    MaxBytes = 22
    MaxGaps = 2
INVARIANTS
    RoomToRead
    BytesInOrder
    BadSyncPerGap
    LossBounded
CHECK_DEADLOCK FALSE
