SPECIFICATION FairSpec
CONSTANTS
    c1 = c1
    c2 = c2
    s1 = s1
    s2 = s2
    s3 = s3
    Channel = {c1, c2}
    Stream = {s1, s2, s3}
    ChannelOf <- Backup
    NoUrl = {}
    Setups <- AllSetups
INVARIANTS
    TypeOK
    JudgedUnlessSplit
    NoStaleVerdicts
    WindowBounds
PROPERTIES
    ImplementsPass
    PassesComplete
CHECK_DEADLOCK FALSE
