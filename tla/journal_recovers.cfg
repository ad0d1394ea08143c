CONSTANTS
    c1 = c1
    c2 = c2
    p = p
    k = k
    Clients = {c1, c2}
    Keys = {p, k}
    Intents <- PlanAndReset
    MaxTries = 2
    TearsRecords = FALSE
    MaxRows = 2
    MaxFaults = 2
SPECIFICATION LiveSpec
INVARIANTS
    TypeOK
    OneRowPerOperation
    AcknowledgedIsDurable
    ProjectionCoversWatermark
    ResetsSeeLatest
PROPERTIES
    ImplementsAuthority
    DurableIsMaterialized
