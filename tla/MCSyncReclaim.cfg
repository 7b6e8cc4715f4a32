SPECIFICATION SyncSpec
CONSTANTS
  MaxPid = 2
  MaxTicks = 1
  MaxId = 1
PROPERTIES
  ReclaimRefusesBusy
