CONSTANTS
    m5 = m5
    m6g = m6g
    bogus = bogus
    KnownTypes = {m5, m6g}
    UnknownTypes = {bogus}
    ArchOf <- MC_ArchOf
    MigrationGate = TRUE
    LookupErrors = FALSE
    MaxFaults = 2
    MaxEdits = 1
SPECIFICATION Spec
PROPERTY AuthorityRespected
CHECK_DEADLOCK FALSE
