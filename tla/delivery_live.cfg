CONSTANTS
    w1 = w1
    p1 = p1
    p2 = p2
    Workers = {w1}
    LocalWorkers = {}
    Pages = {p1, p2}
    Owner <- OwnerDef
    Prev <- PrevDef
    NoPage = NoPage
    NoBundle = NoBundle
    MaxPages = 2
    CourierReadsDirectory = FALSE
    MaxExports = 2
    MaxCrashes = 1
    MaxFaults = 0
SPECIFICATION FairSpec
PROPERTIES
    ImplementsLedger
CHECK_DEADLOCK FALSE
