SPECIFICATION FairSpec
CONSTANTS
  Callers = {"session", "dispatcher"}
  Editors = {"dispatcher"}
  Texts = {"a"}
  Limit = 2
  ChanCap = 1
  TsCap = 1
  TextCap = 1
  MaxOld = 3
  MaxPosts = 3
  MaxOwn = 2
  MaxEdit = 1
  MaxAgain = 2
INVARIANTS
  RelayInv
  NeverEcho
PROPERTIES
  EventuallyRead
CHECK_DEADLOCK FALSE
