CONSTANTS
  Tab = {t1, t2}
  MaxTakeovers = 2
  MaxFaults = 1
  NoReq = NoReq
SPECIFICATION FairSpec
INVARIANTS RoleFollowsLock OnlyHolderRuns
PROPERTY Promotes
CHECK_DEADLOCK FALSE
