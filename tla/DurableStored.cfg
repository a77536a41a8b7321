SPECIFICATION Spec
CONSTANTS
    x1 = x1
    q1 = q1
    q2 = q2
    Exchanges = {x1}
    Queues = {q1}
    Specs <- OnlyDurable
    Resolution = 2
    Config <- NoNames
    ConfigBindings <- NoBindings
    Callers = {a1, a2}
    Pubs = {}
    Exclusive = FALSE
    Bound <- Deleting
INVARIANT DurableStored
CHECK_DEADLOCK FALSE
