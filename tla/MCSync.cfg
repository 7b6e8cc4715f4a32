SPECIFICATION SyncSpec
CONSTANTS
  MaxPid = 3
  MaxTicks = 1
  MaxId = 2
INVARIANTS
  SyncTypeOK
  SyncOnePlace
  LockOwnership
  WaitersHaveLiveOwner
  SyncAssertsHold
  HungOnlyByReclaim
PROPERTIES
  ReturnsWithLock
  NoBarging
  LockStarvationFree
