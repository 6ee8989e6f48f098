SPECIFICATION Spec
CONSTANTS
  Clients = {c1, c2}
  Wedged = {}
  Typists = {c1}
  Mortal = {c1}
  BroadcastCap = 1
  EventCap = 1
  WireCap = 2
  MaxFrames = 2
  MaxTitles = 2
  MaxTyped = 1
INVARIANTS
  StreamInv
  TitlesForward
  EventsInOrder
CHECK_DEADLOCK FALSE
