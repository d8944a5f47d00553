SPECIFICATION Spec
CONSTANTS
  Blocks = {b1, b2, b3}
  BlockSize = 2
  Total = 5
  RivalGets = 2
  MayFail = TRUE
  Null = Null
SYMMETRY BlockSymmetry
CHECK_DEADLOCK FALSE
INVARIANTS
  DeviceFaithful
  OneHolder
  ContextKept
PROPERTY ImplementsStream
