SPECIFICATION GuardSpec
CONSTANTS
    Prober = {w1, w2, w3}
    WINDOW = 2
    TRIP = 5
    BASE = 2
    MAX = 20
    DECAY = 10
SYMMETRY Symmetry
INVARIANTS
    GuardTypeOK
    BurstsPause
    ProviderSpared
CHECK_DEADLOCK FALSE
