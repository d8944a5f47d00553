SPECIFICATION FairSpec
CONSTANTS
  Tasks = {t1, t2, t3, t4}
  Limit = 2
  Nobody = Nobody
CHECK_DEADLOCK FALSE
INVARIANTS
  WithinLimit
  AwaitMeansDone
  NoLostWakeup
PROPERTY AwaitEventuallyReturns
