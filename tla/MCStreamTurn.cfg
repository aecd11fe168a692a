\* Two chat streams and one plain operation, one more of each after it.
SPECIFICATION FairSpec
CONSTANTS
  Chats = {c1, c2}
  Plain = {p1}
  None = None
INVARIANTS TypeOK SingleFlight GeneratorReleased
PROPERTY EveryRequestEnds
