SPECIFICATION FairSpec
CONSTANTS
    Detectors = {"placeholder", "black", "frozen", "silent"}
    N = 4
    Answers <- SomeAnswers
    Retries = 2
    Workers = 2
    Every = 2
INVARIANTS
    TypeOK
    StatsAgree
PROPERTIES
    ImplementsScan
    ScanEnds
CHECK_DEADLOCK FALSE
