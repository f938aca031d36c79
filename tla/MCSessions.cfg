CONSTANTS
  Text = {m1, m2}
  Device = {d1, d2}
  Frame = {f1}
  Catcher = Catcher
  Sender = Sender
  Finder = Finder
  NoEntry = NoEntry
  NoAnswer = NoAnswer
  Cap = 2
  MaxClaims = 3
  MaxGone = 1
SPECIFICATION Spec
INVARIANTS KeySpentOnce NotTwice NoneMissed
CHECK_DEADLOCK FALSE
SYMMETRY Names
