SPECIFICATION QSpec
CONSTANTS
    Last = 4
    Limit = 2
    Backoffs = {1, 2}
    MaxClock = 2
PROPERTIES StoreSpec AvailabilityOrder
