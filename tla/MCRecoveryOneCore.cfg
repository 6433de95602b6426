SPECIFICATION RFairSpec
CONSTANTS
    num_irqs = 1
    max_submit_number = 2
    Jobs = {j1, j2}
    NoJob = NoJob
    Args <- OneCoreBadArgs
    WaitsExpire = TRUE
    Glitches = TRUE
    DomainFails = TRUE
    ResetFails = TRUE
    bypass_soft_reset = FALSE
    UserResets = FALSE
    User = User
    SleepsCover = TRUE
CHECK_DEADLOCK FALSE
INVARIANTS
    RTypeOK
    QueuedIsLive
    StaleSlotHasIrqEntry
    TaskNumCovers
PROPERTIES
    EverySubmitReturns
