SPECIFICATION FairSpec
CONSTANTS
  Clients = {c1, c2}
  Wedged = {c2}
  Typists = {}
  Mortal = {}
  BroadcastCap = 1
  EventCap = 1
  WireCap = 2
  MaxFrames = 2
  MaxTitles = 1
  MaxTyped = 1
PROPERTIES
  WindowsClose
  Delivered
CHECK_DEADLOCK FALSE
