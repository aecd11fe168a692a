\* Three bodies, one of them incomplete; five commits, two faults.
SPECIFICATION Spec
CONSTANTS
  Texts = {empty, good, torn}
  Empty = empty
  Torn = {torn}
  MaxCommits = 5
  MaxFaults = 2
INVARIANTS TypeOK Aligned ChatFenced
PROPERTY UndoMoves
