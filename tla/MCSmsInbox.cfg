\* Two paths, one leaf a pass, a message that cannot be read, hints that jump the
\* queue; one modem restart and one kill, alarm or error.
SPECIFICATION FairSpec
CONSTANTS
  plain = plain
  stuck = stuck
  Contents = {plain, stuck}
  Unreadable = {stuck}
  Deletable = {plain}
  Old = {}
  MaxPath = 2
  Batch = 1
  MaxEpochs = 1
  MaxFaults = 1
INVARIANTS
  TypeOK
  OncePerMessage
PROPERTIES
  NothingLost
  EveryMessageLands
