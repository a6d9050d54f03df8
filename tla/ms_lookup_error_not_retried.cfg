CONSTANTS
    m5 = m5
    m6g = m6g
    bogus = bogus
    KnownTypes = {m5, m6g}
    UnknownTypes = {bogus}
    ArchOf <- MC_ArchOf
    MigrationGate = TRUE
    LookupErrors = TRUE
    MaxFaults = 2
    MaxEdits = 0
SPECIFICATION FairSpec
PROPERTY AnnotationsConverge
CHECK_DEADLOCK FALSE
