SPECIFICATION Spec
CONSTANTS
  Getters = {g1, g2}
  Putters = {p1, p2}
  Blocks = {b1, b2}
  MaxBlocks = 2
  Gets = 3
  MayFail = FALSE
  Null = Null
  Junk = Junk
SYMMETRY PoolSymmetry
CHECK_DEADLOCK FALSE
INVARIANT HeadIsNode
