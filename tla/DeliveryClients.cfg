SPECIFICATION Spec
CONSTANTS
    Ids = {m1}
    Consumers = {c1}
    Clients = {k1, k2}
    Reclaimer = reclaimer
    MaxAttempts = 1
    Prefetch = 1
    Concurrency = 1
    PullLimit = 1
    ReclaimBatch = 1
    OutliveLease = TRUE
    Bound <- BoundClients
PROPERTY QueueSpec
CHECK_DEADLOCK FALSE
