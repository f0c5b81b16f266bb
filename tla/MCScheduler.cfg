CONSTANTS
  t1 = t1
  t2 = t2
  t3 = t3
  d2 = d2
  d3 = d3
  Thread <- Threads
  Frequency = 2
  U32 = 4
  MaxWork = 1
  Directory <- Directories
  StackTop <- StackTops
  U16 = 8
  Kmain = Kmain
  Irq = {0, 14}
  Timer = 0
  NoDirectory = NoDirectory
  Garbage = Garbage
SPECIFICATION Spec
INVARIANTS
  TypeOK
  BoundedWait
  WildExplained
PROPERTIES
  ImplementsCpus
  EveryThreadRuns
  HandlerReturns
  Acknowledged
CHECK_DEADLOCK FALSE
