SPECIFICATION FairSpec
CONSTANTS
  Getters = {g1, g2, g3}
  Putters = {p1, p2}
  Blocks = {b1}
  MaxBlocks = 1
  Gets = 2
  MayFail = FALSE
  Null = Null
  Junk = Junk
CHECK_DEADLOCK FALSE
INVARIANTS
  InFlightExact
  NoLostWakeup
PROPERTY EveryGetReturns
