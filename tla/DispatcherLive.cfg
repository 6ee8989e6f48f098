SPECIFICATION FairSpec
CONSTANTS
  Limit = 4
  FreshOverhead = 1
  Depth = 1
  t1 = t1
  t2 = t2
  Texts = {t1, t2}
  NoText = NoText
  RowLens = {1, 3}
  PageCounts = {2}
  MaxRows = 1
  MaxSent = 3
  Faults = {"err", "lost"}
  MaxFaults = 1
PROPERTIES
  Drains
  EventuallyVisible
  LiveConverges
