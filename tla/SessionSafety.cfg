SPECIFICATION Spec
CONSTANTS
  OutputCap = 1
  InputCap = 1
  TtyCap = 1
  InboxCap = 1
  Depth = 1
  RingSizes = {1, 2}
  Refreshes = {1}
  Jobs = {"job"}
  Echo = 0
  MaxRows = 2
  Blanks = {}
  MaxArrivals = 2
  Kinds = {"input", "clear", "say", "scroll_buffer", "anchor_refresh", "kill", "force", "closed"}
  EventKinds = {"input", "resize"}
INVARIANTS
  RowsInv
  TrailingOutputKept
