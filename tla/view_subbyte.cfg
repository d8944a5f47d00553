SPECIFICATION Spec
CONSTANTS
  ElemBits = {4}
  Depth = 2
  Layouts <- SmallLayouts
  Indices <- SmallIndices
  Numbers <- SmallNumbers
  Tilers <- SmallTilers
  TilersMNK <- SmallTilersMNK
  Atoms <- SmallAtoms
INVARIANT AlignmentTrue
CHECK_DEADLOCK FALSE
