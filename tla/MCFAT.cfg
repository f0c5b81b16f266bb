CONSTANTS
  BytesPerSector = 4
  MaxLba = 63
  MaxFaults = 1
  Junk = Junk
  Sector <- DiskImage
  Volume = 1
  Bpb <- VolumeBpb
  Blank <- BlankSector
  Garbage <- Rubbish
  BpbSize = 3
  EntrySize = 2
  NextsPerSector = 2
  ClusterEnd = 15
  U32 = 64
  LinkValues = 16
  Char <- Letters
  Calls <- CallSet
  NoEntry = NoEntry
SPECIFICATION Spec
INVARIANTS
  TypeOK
  SectorDelivered
  AnswersRight
  BytesRight
  ReadsInside
  WildExplained
PROPERTIES
  CallsReturn
CHECK_DEADLOCK FALSE
