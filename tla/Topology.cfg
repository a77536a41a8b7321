SPECIFICATION Spec
CONSTANTS
    x1 = x1
    q1 = q1
    q2 = q2
    Exchanges = {x1}
    Queues = {q1, q2}
    Specs <- TwoSpecs
    Resolution = 2
    Config <- OneQueue
    ConfigBindings <- OneBinding
    Callers = {a1, a2}
    Pubs = {p1}
    Exclusive = TRUE
    Bound <- Failing
INVARIANTS PromisesKept AcceptedKept BoundQueuesExist 
CHECK_DEADLOCK FALSE
