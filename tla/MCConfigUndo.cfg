\* Two incomplete bodies that undo can swap for each other.
SPECIFICATION Spec
CONSTANTS
  Texts = {empty, good, torn, worse}
  Empty = empty
  Torn = {torn, worse}
  MaxCommits = 4
  MaxFaults = 0
INVARIANT UndoEscapes
