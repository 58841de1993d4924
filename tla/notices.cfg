CONSTANTS
    Desktops = {d1, d2}
    Keys = {k1, k2, k3}
    Cooldown = 2
    MaxNotices = 2
    Limit = 2
    MaxReceipts = 2
    MaxClock = 2
    MaxSetbacks = 1
    MaxGrants = 2
    MaxRaised = 3
    MaxKills = 1
SPECIFICATION Spec
INVARIANTS
    TypeOK
    SentAsRecorded
    
CONSTRAINT OneOddity
SYMMETRY Symmetry
