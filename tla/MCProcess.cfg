SPECIFICATION ProcessSpec
CONSTANTS
  MaxPid = 4
  MaxTicks = 2
INVARIANTS
  TypeOK
  OnePlace
  FamilyTree
  AssertsHold
  WaiterHasLiveChild
PROPERTIES
  DelayCountsDown
  ReadyRuns
  DelayEnds
  WaitReturns
