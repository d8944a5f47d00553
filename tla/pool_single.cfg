SPECIFICATION Spec
CONSTANTS
  Getters = {g1}
  Putters = {p1, p2}
  Blocks = {b1, b2, b3, b4}
  MaxBlocks = 3
  Gets = 5
  MayFail = TRUE
  Null = Null
  Junk = Junk
SYMMETRY PoolSymmetry
CHECK_DEADLOCK FALSE
INVARIANTS
  LeaseExclusive
  PoolInv
PROPERTY ImplementsLease
