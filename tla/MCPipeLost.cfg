SPECIFICATION PipeSpec
CONSTANTS
  MaxPid = 3
  MaxTicks = 1
  MaxId = 1
  MaxBytes = 2
  MaxLen = 2
PROPERTIES
  ReaderWithEnoughRuns
