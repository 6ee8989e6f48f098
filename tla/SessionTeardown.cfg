SPECIFICATION FairSpec
CONSTANTS
  OutputCap = 1
  InputCap = 1
  TtyCap = 1
  InboxCap = 1
  Depth = 1
  RingSizes = {1}
  Refreshes = {0}
  Jobs = {"job"}
  Echo = 1
  MaxRows = 0
  Blanks = {0}
  MaxArrivals = 4
  Kinds = {"input"}
  EventKinds = {}
PROPERTIES
  HangupEndsSession
  ExitEndsSession
  ThreadsFinish
