CONSTANTS
    a1 = a1
    a2 = a2
    u1 = u1
    c1 = c1
    c2 = c2
    Jobs = {a1, a2, u1}
    Guarded = {a1, a2}
    NoJob = NoJob
    MaxActive = 2
    MaxAttempts = 2
    MaxCrashes = 1
    MaxFaults = 1
    Clients = {c1, c2}
    MaxGrants = 2
    GrantOf <- GrantOfDef
    MaxJobs = 1
SPECIFICATION GrantSpec
INVARIANTS
    GrantTypeOK
    
    OnlyCurrentGrantRuns
PROPERTIES
    RevokedYieldsNothing
CHECK_DEADLOCK FALSE
