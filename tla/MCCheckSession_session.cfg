SPECIFICATION FairSpec
CONSTANTS
    w1 = w1
    w2 = w2
    Worker = {w1, w2}
    Host = w1
    Streams <- Lengths
    Modes = {1, 2}
    Requests <- Everything
INVARIANTS
    TypeOK
    ActsOnCompleteScan
    CancelSticks
PROPERTIES
    SessionEnds
    QueuedRunStarts
CHECK_DEADLOCK FALSE
