CONSTANTS
    NSymbols = 2
    NBars = 3
    BarsPerDay = 2
    Quotes <- MCQuotes
    Parts = 2
    InitialCash = 6
    Commission = 2
    EntryWindow = 2
    RuleBook <- MCRuleBook
    MaxTargets = 2
    TargetTimes = {0, 2, 4}
SPECIFICATION Spec
INVARIANTS
    TypeOK
    
    CloseDecidesNothing
    BooksBalance
CONSTRAINT BeginsWithLasting
CHECK_DEADLOCK FALSE
