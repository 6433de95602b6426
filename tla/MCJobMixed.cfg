SPECIFICATION FairSpec
CONSTANTS
    num_irqs = 2
    max_submit_number = 2
    Jobs = {j1, j2}
    NoJob = NoJob
    Args <- MixedArgs
INVARIANTS
    TypeOK
    DoneMeansRun
    ReferencedIsLive
    TaskNumExact
PROPERTIES
    FreedOnce
    EveryJobCompletes
