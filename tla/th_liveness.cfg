CONSTANTS
    MaxInitConds = 2
    MaxFaults = 2
    MaxWrites = 2
    Restarts = TRUE
SPECIFICATION FairSpec
PROPERTIES NoticeHonoured ShutdownCompletes
CHECK_DEADLOCK FALSE
