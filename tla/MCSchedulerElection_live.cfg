SPECIFICATION SpecNoCrash
CONSTANTS
    NoProc = NoProc
    Proc = {p1, p2, p3, p4}
    Ineligible = {p4}
    Faulty = {}
    MaxAttempts = 3
    MaxBoot = 2
INVARIANTS
    SettledHasHost
PROPERTIES
    DuplicatesYield
CHECK_DEADLOCK FALSE
