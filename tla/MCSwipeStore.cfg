\* Two collectors, two commands beside them, two faults anywhere.
SPECIFICATION Spec
CONSTANTS
  Absent = Absent
  Torn = Torn
  Datagrams <- Mixed
  High = 2
  Low = 2
  Feedbacks = 1
  ExportHigh = 1
  ExportLow = 1
  ExportBudget = 4
  WriteBudget = 2
  DatagramBudget = 2
  MaxEpochs = 2
  MaxSessions = 2
  MaxCommands = 2
  MaxFaults = 2
CHECK_DEADLOCK FALSE
INVARIANTS
  TypeOK
  Recoverable
  ErasedStaysErased
  BudgetCovers
PROPERTIES
  EpochFence
  FeedbackKept
