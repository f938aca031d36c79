CONSTANTS
  Entry = {e1, e2, e3}
  Msg = {m1, m2}
  MaxAttempts = 2
  MaxTicks = 2
  NoMsg = NoMsg
  NoTick = NoTick
SPECIFICATION FairSpec
INVARIANTS NothingLost OneFate
PROPERTY EventuallySettled
