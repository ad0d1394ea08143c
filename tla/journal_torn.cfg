CONSTANTS
    c1 = c1
    c2 = c2
    p = p
    k = k
    Clients = {c1, c2}
    Keys = {p, k}
    Intents <- PlanAndReset
    MaxTries = 2
    TearsRecords = TRUE
    MaxRows = 2
    MaxFaults = 1
SPECIFICATION Spec
INVARIANTS
    ProjectionCoversWatermark
