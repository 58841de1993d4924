CONSTANTS
    j1 = j1
    j2 = j2
    Jobs = {j1, j2}
    Guarded = {}
    NoJob = NoJob
    MaxActive = 1
    MaxAttempts = 3
    MaxCrashes = 1
    MaxFaults = 2
SPECIFICATION FairSpec
INVARIANTS
    TypeOK
    OnlyCurrentAttemptRuns
    JournalBacksMemory
PROPERTIES
    EndedAttemptStays
    ImplementsLifecycle
CHECK_DEADLOCK FALSE
