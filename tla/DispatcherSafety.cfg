SPECIFICATION Spec
CONSTANTS
  Limit = 5
  FreshOverhead = 1
  Depth = 1
  t1 = t1
  t2 = t2
  Texts = {t1, t2}
  NoText = NoText
  RowLens = {1, 5}
  PageCounts = {2}
  MaxRows = 2
  MaxSent = 5
  Faults = {"err", "lost", "toolong"}
  MaxFaults = 1
SYMMETRY Symmetry
INVARIANTS
  TypeOK
  OpenMessagesInSync
  ExactlyOnce
  ReadsInOrder
  LiveHasMessage
  AnchorSeparates
  WithinLimit
PROPERTIES
  ImplementsOrderedLog
  SealedForever
