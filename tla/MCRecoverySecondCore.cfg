SPECIFICATION RSpec
CONSTANTS
    num_irqs = 2
    max_submit_number = 2
    Jobs = {j1, j2}
    NoJob = NoJob
    Args <- SecondCoreBlocking
    WaitsExpire = TRUE
    Glitches = FALSE
    DomainFails = FALSE
    ResetFails = FALSE
    bypass_soft_reset = FALSE
    UserResets = FALSE
    User = User
    SleepsCover = TRUE
CHECK_DEADLOCK FALSE
INVARIANTS
    QueuedIsLive
