CONSTANTS
    MaxInitConds = 2
    MaxFaults = 2
    MaxWrites = 2
    Restarts = TRUE
SPECIFICATION Spec
INVARIANTS TypeOK ReadyNotLost
PROPERTY HandlerRefinesNotice
CHECK_DEADLOCK FALSE
