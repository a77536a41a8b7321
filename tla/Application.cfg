SPECIFICATION LiveSpec
CONSTANTS
    Procs = {p1, p2}
    Nobody = Nobody
    Statements <- MigrationSizes
    MaxFaults = 1
    MaxStarts = 3
INVARIANTS
    SchemaReady
    CleanExit
    StoreOutlives
PROPERTY ProcessGoesOn
CHECK_DEADLOCK FALSE
