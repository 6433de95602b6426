SPECIFICATION RSpec
CONSTANTS
    num_irqs = 1
    max_submit_number = 2
    Jobs = {j1, j2}
    NoJob = NoJob
    Args <- OneCoreBlocking
    WaitsExpire = TRUE
    Glitches = TRUE
    DomainFails = FALSE
    ResetFails = FALSE
    bypass_soft_reset = FALSE
    UserResets = FALSE
    User = User
    SleepsCover = TRUE
CHECK_DEADLOCK FALSE
INVARIANTS
    NoDanglingJob
