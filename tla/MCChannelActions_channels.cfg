SPECIFICATION FairSpec
CONSTANTS
    Channel = {c}
    Groups = {"News", "Sports"}
    Conditions <- SomeConditions
    Steps <- Scheduled
    Buttons = {"restore", "suffix", "move dead"}
    MaxTags = 2
    MaxFaults = 1
INVARIANTS
    TypeOK
    HomeKept
    NothingPlayingParked
    ReportAgrees
PROPERTIES
    RecoveredGoHome
CHECK_DEADLOCK FALSE
