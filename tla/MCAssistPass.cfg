SPECIFICATION Spec
CONSTANTS
  Last = 2
  QueueLimit = 2
  MaxFaults = 0
INVARIANT PassIsUnderWay
CHECK_DEADLOCK FALSE
