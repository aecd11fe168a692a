\* The proposal: one text of the phone, one draft of the server, two proposals,
\* two faults.  The journal: two helper processes, every choice of two identities
\* and two bodies.  The handoff: three rows, the first of which the server
\* refuses; one receipt per query, one fault.
SPECIFICATION SendFairSpec
CONSTANTS
  text = text
  draft = draft
  Texts = {text}
  Drafts = {draft}
  NoItem = NoItem
  MaxProps = 2
  MaxFaults = 2
  p1 = p1
  p2 = p2
  i1 = i1
  i2 = i2
  b1 = b1
  b2 = b2
  nobody = nobody
  Procs <- MCProcs
  Identities <- MCIdentities
  Bodies <- MCBodies
  NoProc <- nobody
  MaxRows = 3
  Refused = {1}
  Limit = 1
  MaxLosses = 1
INVARIANTS
  TypeOK
  RejectedNeverSent
  HonestScreen
  JournalTypeOK
  AtMostOnce
  HonestVerdict
  HandoffTypeOK
  AckTruthful
PROPERTIES
  ProposalLeaves
  SendingEnds
  ImplementsOutbox
  EveryReceiptLands
