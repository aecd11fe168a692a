SPECIFICATION Spec
CONSTANTS
  Last = 2
  QueueLimit = 2
  MaxFaults = 1
INVARIANTS TypeOK RetiredIsShown CacheIsHonest
PROPERTIES FifoPromise NeverPostedAgain
CHECK_DEADLOCK FALSE
