SPECIFICATION MemSpec
CONSTANTS
  MaxPid = 3
  NUM_PAGES_REG_1 = 4
  NUM_KERNEL_PAGES = 2
  MaxHeapPages = 2
  MaxFrames = 8
  Frame <- Frames
  NoFrame <- None
  Programs <- SmallPrograms
  Grants <- LowestOrHighest
INVARIANTS
  MemTypeOK
  FramesPartition
  HeapBelowStack
  MemAssertsHold
  TlbIsolation
PROPERTIES
  CopyIsFaithful
VIEW WithoutNumbers
CHECK_DEADLOCK FALSE
