SPECIFICATION FairSpec
CONSTANTS
    Loop = {"l1", "l2"}
    User = {"u1"}
    Schedule = {"nightly"}
    MaxDisruptions = 1
INVARIANTS
    TypeOK
    Hosted
PROPERTIES
    OrphansLeave
    ScheduleInForce
CHECK_DEADLOCK FALSE
