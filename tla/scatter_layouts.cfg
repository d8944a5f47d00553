SPECIFICATION FairSpec
CONSTANTS
  Layouts <- AllLayouts
  ChunkSizes = {1, 2, 3, 4, 5, 8}
CHECK_DEADLOCK FALSE
INVARIANTS
  PlanRoutes
  ScatteredRight
  WindowInPlace
PROPERTIES
  FenceNotSkipped
  EventuallyClosed
