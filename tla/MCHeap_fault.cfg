CONSTANTS
  Start = 1
  Mapped = 8
  Size = 40
  Header = 1
  U32 = 64
  Requests <- Sizes
SPECIFICATION Spec
INVARIANTS
  NeverFaults
CHECK_DEADLOCK FALSE
