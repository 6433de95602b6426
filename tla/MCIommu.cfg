SPECIFICATION FairSpec
CONSTANTS
    Threads = {t1, t2}
    NoThread = NoThread
    Domains <- TwoDomains
    BadDomain <- OutOfRange
    None = None
    MaxFaults = 2
    MaxSpoiled = 1
CHECK_DEADLOCK FALSE
INVARIANTS
    TypeOK
    RefcountExact
    HoldersAreTranslated
    Agreement
PROPERTIES
    EveryGetReturns
