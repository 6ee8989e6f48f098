SPECIFICATION Spec
CONSTANTS
  Clients = {c1}
  Wedged = {}
  Typists = {}
  Mortal = {}
  BroadcastCap = 1
  EventCap = 1
  WireCap = 2
  MaxFrames = 2
  MaxTitles = 2
  MaxTyped = 1
INVARIANT TitleCurrent
CHECK_DEADLOCK FALSE
