CONSTANTS
    Ready <- MCReady
    Cutoff <- MCCutoff
    Close <- MCClose
    Fresh = 1
    MarketReady = 0
    MarketCooldown = 1
    MaxMarketCaptures = 1
    MaxCaptures = 1
    Bridging = TRUE
    MaxTime = 10
    MaxSnapshots = 2
    MaxReviews = 1
    MaxFailures = 1
    MaxCrashes = 1
SPECIFICATION Spec
INVARIANTS
    TypeOK
    FrozenOnce
    ReviewsContinue
    CallsAreCounted
CONSTRAINTS
    OneOddity
    Brisk
    Sparing
CHECK_DEADLOCK FALSE
