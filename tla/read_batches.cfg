SPECIFICATION FairSpec
CONSTANTS
  Readers = {r1, r2}
  Workers = {w1, w2}
  FileSize = 5
  Requests <- MCRequests
  ChunkSize = 2
  Capacity = 1
  MaxRetries = 1
  Reads = 2
  Faults = 2
CHECK_DEADLOCK FALSE
INVARIANTS
  BatchAlive
  ReturnsTheBytes
  SleeperHasWaker
PROPERTY EveryReadReturns
