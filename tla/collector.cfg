CONSTANTS
    NDays = 2
    MaxPage = 1
    BatchSize = 2
    MaxTries = 2
    Burst = 2
    MaxCycles = 1
    MaxCrashes = 1
    MaxFaults = 1
SPECIFICATION FairSpec
INVARIANTS
    TypeOK
    NoGapInChain
    FollowersExist
PROPERTIES
    
    JobsSettle
CHECK_DEADLOCK FALSE
