CONSTANTS
    MaxInitConds = 1
    MaxFaults = 0
    MaxWrites = 1
    Restarts = FALSE
SPECIFICATION FairSpec
PROPERTY NoticeHonoured
CHECK_DEADLOCK FALSE
