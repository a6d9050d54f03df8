CONSTANTS
    m5 = m5
    m6g = m6g
    bogus = bogus
    KnownTypes = {m5, m6g}
    UnknownTypes = {bogus}
    ArchOf <- MC_ArchOf
    MigrationGate = TRUE
    LookupErrors = FALSE
    MaxFaults = 2
    MaxEdits = 3
SPECIFICATION FairSpec
INVARIANT TypeOK
PROPERTY AnnotationsConverge
CHECK_DEADLOCK FALSE
