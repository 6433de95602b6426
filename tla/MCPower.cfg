SPECIFICATION FairSpec
CONSTANTS
    Threads = {t1, t2, t3}
    Present <- Supplies
    multiple_domains = TRUE
    MaxFaults = 2
    MaxOn = 2
CONSTRAINT Unspoiled
INVARIANTS
    TypeOK
    RefcountExact
    SuppliesMatch
PROPERTIES
    IdlePowersOff
    ImplementsPromise
