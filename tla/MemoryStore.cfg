SPECIFICATION MSpec
CONSTANTS
    Last = 4
    Limit = 2
    Backoffs = {1}
    MaxClock = 2
    Threshold = 2
INVARIANT IndexExact
PROPERTIES StoreSpec  IndexBounded
CHECK_DEADLOCK FALSE
