SPECIFICATION Spec
CONSTANTS
    Ids = {m1}
    Consumers = {c1, c2}
    Clients = {}
    Reclaimer = reclaimer
    MaxAttempts = 2
    Prefetch = 1
    Concurrency = 1
    PullLimit = 1
    ReclaimBatch = 1
    OutliveLease = TRUE
    Bound <- Never
CHECK_DEADLOCK FALSE
INVARIANT LeaseExclusive
