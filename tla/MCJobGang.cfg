SPECIFICATION Spec
CONSTANTS
    num_irqs = 2
    max_submit_number = 2
    Jobs = {j1, j2, j3}
    NoJob = NoJob
    Args <- GangArgs
SYMMETRY Symmetry
INVARIANTS
    GangStarted
    NoLostKick
    ConsistentOrder
PROPERTIES
    ImplementsGangQueue
