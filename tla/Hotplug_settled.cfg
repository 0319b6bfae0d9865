SPECIFICATION FairSpec
CONSTANTS
    tuner1 = tuner1
    tuner2 = tuner2
    keyboard = keyboard
    Devices = {tuner1, tuner2, keyboard}
    Supported = {tuner1, tuner2}
    QueueCap = 2
    MaxMessages = 2
INVARIANTS
    ViewCoherent
    ShutdownStopsWrites
PROPERTIES
    ConsumerConverges
    ShutdownReturns
