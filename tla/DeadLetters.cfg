CONSTANTS
    q1 = q1
    q2 = q2
    good = good
    bad = bad
    s1 = s1
    NoSchema = NoSchema
    Queues = {q1, q2}
    Pubs = {good, bad}
    Schemas = {s1}
    Routes <- TwoRoutes
    SchemaOf <- Named
    Conforming <- Satisfied
    Callers = {a, b, c}
    MaxAttempts = 2
    Bound <- Limits
    Budget = 4
SYMMETRY CallerSymmetry
SPECIFICATION Spec
INVARIANTS
    AnswersTrue
    RejectedKept
    ReplaysCounted
    
PROPERTY LettersKept
CHECK_DEADLOCK FALSE
