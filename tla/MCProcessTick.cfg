SPECIFICATION ProcessSpec
CONSTANTS
  MaxPid = 4
  MaxTicks = 2
PROPERTIES
  EveryTickCounts
