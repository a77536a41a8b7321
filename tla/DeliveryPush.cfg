SPECIFICATION LiveSpec
CONSTANTS
    Ids = {m1}
    Consumers = {c1}
    Clients = {}
    Reclaimer = reclaimer
    MaxAttempts = 2
    Prefetch = 1
    Concurrency = 2
    PullLimit = 1
    ReclaimBatch = 1
    OutliveLease = TRUE
    Bound <- BoundPush
INVARIANTS TypeOK NeverDropped AttemptsBounded
PROPERTIES QueueSpec EventuallySettled
CHECK_DEADLOCK FALSE
