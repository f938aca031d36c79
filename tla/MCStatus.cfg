CONSTANTS
  Own = {m1}
  Sibling = {s1}
  Foreign = {p1}
  Dev = {d1, d2}
  Cap = 1
  MaxTracks = 2
SPECIFICATION Spec
INVARIANTS StatusHasEvidence NothingForgotten 
PROPERTY LadderOnlyUp
SYMMETRY Devices
CHECK_DEADLOCK FALSE
