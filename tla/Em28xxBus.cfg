SPECIFICATION Spec
CONSTANTS
    c1 = c1
    c2 = c2
    fe0 = fe0
    fe1 = fe1
    None = None
    Frontends = {fe0, fe1}
    Channels = {c1, c2}
    Bus = 1
    MaxFaults = 2
SYMMETRY Symmetry
INVARIANTS
    TuneMeansTuned
    CaptureMatchesRegister
    GatesClosed
    ShadowTrue
