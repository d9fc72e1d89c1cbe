SPECIFICATION FairSpec
CONSTANTS
    Caller = {c1, c2}
    SEND = 3
    FORCE = 1
    FAILURE = 2
    RATE = 3
    DISABLED = 4
    MaxChoices = 2
    MaxFaults = 2
INVARIANTS
    TypeOK
    ReportsSpaced
    NothingOrphaned
PROPERTIES
    OptOutForgets
