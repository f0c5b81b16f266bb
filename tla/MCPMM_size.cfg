CONSTANTS
  BlockSize = 2
  BlocksPerByte = 8
  WordBits = 8
  U32 = 256
  KB = 2
  LowMemory = 16
  KernelStart = 16
  KernelEnd = 24
  KernelSizeAddr = 22
  Counts = {1, 2}
  MemoryMaps <- Maps
SPECIFICATION Spec
INVARIANTS
  ManagesDetectedMemory
CHECK_DEADLOCK FALSE
