SPECIFICATION Spec
CONSTANTS
  PMax = 2
  GemmMovingFmax = 4
  SeqLens = {2, 3, 6, 8}
  KvHeads = 2
  HeadsPerKv = 3
  Range = 2
  Scores = {0, 2}
  Depth = 7
INVARIANTS
  TypeOK
  StoresAttention
  Stable
  OutputComplete
CHECK_DEADLOCK FALSE
