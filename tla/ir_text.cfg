SPECIFICATION Spec
CONSTANT Rounds = 2
INVARIANTS
  ReadsBack
  TextSettles
  RebuildsFromGetters
  TmemFitsRegisters
CHECK_DEADLOCK FALSE
