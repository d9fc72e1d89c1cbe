SPECIFICATION FairSpec
CONSTANTS
    Loop = {"l1", "l2"}
    User = {"u1"}
    Schedule = {"nightly"}
    MaxDisruptions = 0
PROPERTIES
    ScheduleRuns
CHECK_DEADLOCK FALSE
