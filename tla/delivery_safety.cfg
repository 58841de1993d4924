CONSTANTS
    remote = remote
    local = local
    p1 = p1
    p2 = p2
    q1 = q1
    Workers = {remote, local}
    LocalWorkers = {local}
    Pages = {p1, p2, q1}
    Owner <- OwnerDef
    Prev <- PrevDef
    NoPage = NoPage
    NoBundle = NoBundle
    MaxPages = 2
    CourierReadsDirectory = FALSE
    MaxExports = 2
    MaxCrashes = 1
    MaxFaults = 1
SPECIFICATION Spec
INVARIANTS
    TypeOK
    AckedIsCanonical
    OutboxRetained
    MergedChainsClosed
    PendingNeverRefused
CONSTRAINT LocalExportsOnce
CHECK_DEADLOCK FALSE
