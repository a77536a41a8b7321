SPECIFICATION LiveSpec
CONSTANTS
  MaxConsumers = 2
  Names = {n1}
  Prefetch = 1
  Concurrency = 1
  MaxMessages = 2
  Bound <- Once
  Budget = 1
INVARIANTS NoSubmitAfterClose Backpressure  DrainedClean NoLostWakeup
PROPERTIES StopsEnd ReadyServed
CHECK_DEADLOCK FALSE
