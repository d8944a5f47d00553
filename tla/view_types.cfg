SPECIFICATION Spec
CONSTANTS
  ElemBits = {1, 16}
  Depth = 2
  Layouts <- SmallLayouts
  Indices <- SmallIndices
  Numbers <- SmallNumbers
  Tilers <- SmallTilers
  TilersMNK <- SmallTilersMNK
  Atoms <- SmallAtoms
INVARIANTS
  FactsTrue
  AlignmentTrue
  TilesPartition
  RegistersApart
  EveryBitMoved
CHECK_DEADLOCK FALSE
