CONSTANTS
  BlockSize = 2
  BlocksPerByte = 8
  WordBits = 8
  U32 = 256
  KB = 2
  LowMemory = 16
  KernelStart = 16
  KernelEnd = 24
  KernelSizeAddr = 22
  Counts = {1}
  MemoryMaps <- Maps
  PagesPerDir = 5
  PagesPerTable = 3
  KernelDir = 2
  DirFrame = 9
  HeapPages <- Heap
  OtherPages <- Others
  NoEntry = NoEntry
SPECIFICATION VMMSpec
INVARIANTS
  VMMTypeOK
  FramesAccounted
  TablesUnreachable
  HeapSupervisorOnly
PROPERTIES
  ImplementsAddressSpace
CHECK_DEADLOCK FALSE
