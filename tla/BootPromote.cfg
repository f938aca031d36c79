CONSTANTS
  Tab = {s, t}
  Target = 1
  Watermark = 1
  MaxDevices = 2
  MaxKeys = 3
  MaxTroubles = 2
  Upgrade <- FreshInstall
  None = None
SPECIFICATION Spec
SYMMETRY Symmetry
INVARIANT PromotedIsFresh
CHECK_DEADLOCK FALSE
