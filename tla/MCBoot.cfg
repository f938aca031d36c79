CONSTANTS
  Tab = {s, t}
  Target = 1
  Watermark = 1
  MaxDevices = 2
  MaxKeys = 3
  MaxTroubles = 2
  Upgrade <- Either
  None = None
SPECIFICATION Spec
SYMMETRY Symmetry
INVARIANTS NothingMisplaced OneDevice Adopted  KeysHeld
CHECK_DEADLOCK FALSE
