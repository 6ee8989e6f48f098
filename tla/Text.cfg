SPECIFICATION Spec
CONSTANTS
  SizeLimit <- MCLimit
  Cost <- MCCost
  Newline = "nl"
  Fence = "fence"
  Label = "label"
  Sealed = "sealed"
  Targets <- MCTargets
  Rows <- MCRows
  Base <- MCBase
  MaxPayload <- MCMaxPayload
  MaxRepeat <- MCMaxRepeat
  MaxNumber <- MCMaxNumber
INVARIANTS
  PagesFaithful
  BodiesKeepShape
  SplitIndependent
  WholeFramesOnly
  KeysUnderstood
