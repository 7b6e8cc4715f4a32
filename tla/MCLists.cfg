SPECIFICATION NodesOrFramesSpec
CONSTANTS
  Node = {n1, n2, n3}
  Sentinel = sentinel
  NULL = null
  Ids <- IdsOfItems
  Data <- Values
  TableSizes <- NoTableOrTwoBuckets
  KernelBrkPage = 1
  KernelStackBasePage = 3
  KernelStackLimitPage = 4
  MaxFrame = 5
  Word <- Words
INVARIANTS
  LinksAgree
  FreeListThreaded
PROPERTIES
  ListIsSequence
  PMemIsFrameSet
SYMMETRY NodeSymmetry
