CONSTANTS
  Start = 1
  Mapped = 8
  Size = 13
  Header = 1
  U32 = 64
  Requests <- Sizes
SPECIFICATION Spec
INVARIANTS
  TypeOK
  Tiling
  LiveDisjoint
  NoWildAccess
  LiveMapped
CHECK_DEADLOCK FALSE
