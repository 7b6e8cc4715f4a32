SPECIFICATION PipeSpec
CONSTANTS
  MaxPid = 3
  MaxTicks = 1
  MaxId = 1
  MaxBytes = 4
  MaxLen = 2
INVARIANTS
  PipeTypeOK
  PipeOnePlace
PROPERTIES
  PipeIsByteStream
  SoleReaderNotStranded
