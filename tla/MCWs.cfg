CONSTANTS
  Sock = {s1, s2}
  NoSock = NoSock
  Peer = {p}
  StartedRefresh = 2
  AutoStoppedAfter = 2
  NoTimer = NoTimer
SPECIFICATION IndicatorFairSpec
INVARIANTS  CloseIsFinal NoHungConnect ShownEnds
PROPERTIES Reconnects RunsEnd
