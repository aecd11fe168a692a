\* The collector goes on although a correction was not stored.
SPECIFICATION Spec
CONSTANTS
  Absent = Absent
  Torn = Torn
  Datagrams <- Mixed
  High = 2
  Low = 2
  Feedbacks = 1
  ExportHigh = 1
  ExportLow = 1
  ExportBudget = 4
  WriteBudget = 2
  DatagramBudget = 2
  MaxEpochs = 2
  MaxSessions = 1
  MaxCommands = 2
  MaxFaults = 2
CHECK_DEADLOCK FALSE
PROPERTIES
  FeedbackIsFatal
