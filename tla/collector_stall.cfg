CONSTANTS
    NDays = 2
    MaxPage = 1
    BatchSize = 1
    MaxTries = 2
    Burst = 1
    MaxCycles = 1
    MaxCrashes = 1
    MaxFaults = 0
SPECIFICATION Spec
INVARIANTS
    OnlyRepeatsStall
CHECK_DEADLOCK FALSE
