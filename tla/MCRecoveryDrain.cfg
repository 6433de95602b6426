SPECIFICATION RSpec
CONSTANTS
    num_irqs = 1
    max_submit_number = 2
    Jobs = {j1, j2, j3}
    NoJob = NoJob
    Args <- AllCoresAsync
    WaitsExpire = TRUE
    Glitches = FALSE
    DomainFails = FALSE
    ResetFails = FALSE
    bypass_soft_reset = FALSE
    UserResets = TRUE
    User = User
    SleepsCover = TRUE
CONSTRAINT TwoThreads
SYMMETRY Symmetry
CHECK_DEADLOCK FALSE
INVARIANTS
    QueuedIsLive
    CleanupIsUnlinked
    ResetExclusive
