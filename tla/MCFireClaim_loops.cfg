SPECIFICATION FairSpec
CONSTANTS
    l1 = l1
    l2 = l2
    l3 = l3
    m1 = m1
    m2 = m2
    c1 = c1
    Loop = {l1, l2, l3}
    Module = {m1, m2}
    ModuleOf <- ThreeLoops
    Cron = {c1}
    Due <- MCDue
    DayLength = 2
    FoldAt = 2
    FoldLength = 1
    Unwritable <- LastMinute
    Stalls = FALSE
    MaxNow = 3
    MaxRestart = 1
INVARIANTS
    TypeOK
    FiresAtMostOnce
PROPERTIES
    ClaimLeadsToFire
CHECK_DEADLOCK FALSE
