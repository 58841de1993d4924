CONSTANTS
    LastDay = 2
    MaxGrants = 2
    MaxJobs = 2
    MaxDownloads = 2
    MaxTries = 2
    MaxTroubles = 1
SPECIFICATION FairSpec

INVARIANTS
    TypeOK
    WorkIsReserved
    TakenOverOnce
PROPERTIES
    OpenIsSettled
    
CHECK_DEADLOCK FALSE
