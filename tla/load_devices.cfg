SPECIFICATION FairSpec
CONSTANTS
  Tasks = {t1, t2, t3}
  DeviceCount = 2
  Parallelism = 2
  DmaChunks = 2
  Need = 2
  MayFail = TRUE
CHECK_DEADLOCK FALSE
INVARIANTS
  PipelineInv
  NeverStarved
  DeinitSafe
PROPERTY AllLoaded
