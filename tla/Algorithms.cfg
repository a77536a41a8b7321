SPECIFICATION Spec
CONSTANTS
    Mixed <- MixedSegments
    Unit = 4
    DefaultPolicy <- Defaults
    AnyQueue = "any"
    DefaultPageSize = 2
    MaxPageSize = 2
INVARIANTS
    TopicMatchesMeaning
    QueuesRoutedOnce
    DelaysBounded
    
    PagesSound
CHECK_DEADLOCK FALSE
