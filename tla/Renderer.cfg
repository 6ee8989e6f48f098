SPECIFICATION Spec
CONSTANTS
  Sizes <- MCSizes
  StartSize <- MCStartSize
  Maxima = {0, 1}
  Steps = {1}
  Counts = {1, 2}
  MaxWrites = 2
INVARIANTS
  ScreenInv
  InverseLockstep
  AltPrivate
  FrameShowsScreen
PROPERTIES
  ScrollKeepsContent
CONSTRAINT SavedAtCorner
CHECK_DEADLOCK FALSE
