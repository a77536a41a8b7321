SPECIFICATION Spec
CONSTANTS
    Ids = {m1, m2}
    Consumers = {c1}
    Clients = {}
    Reclaimer = reclaimer
    MaxAttempts = 2
    Prefetch = 2
    Concurrency = 1
    PullLimit = 1
    ReclaimBatch = 1
    OutliveLease = FALSE
    Bound <- BoundPush
INVARIANTS OneHolder PolicyExact DuplicatesExplained
SYMMETRY IdSymmetry
CHECK_DEADLOCK FALSE
