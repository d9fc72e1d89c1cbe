SPECIFICATION Spec
CONSTANTS
    NoProc = NoProc
    Proc = {p1, p2, p3}
    Ineligible = {}
    Faulty = {p1}
    MaxAttempts = 3
    MaxBoot = 2
SYMMETRY Symmetry
INVARIANTS
    TypeOK
    OneHostAfterCleanBoot
    OneReclaimer
    HostOwnsLock
CHECK_DEADLOCK FALSE
