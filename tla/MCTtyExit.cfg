SPECIFICATION TtySpec
CONSTANTS
  MaxPid = 2
  MaxTicks = 1
  NUM_TERMINALS = 1
  TERMINAL_MAX_LINE = 2
  MaxTyped = 2
  MaxLines = 2
  Reads = {0, 1, 2}
  Writes = {0, 3}
  Blocks = {b1, b2}
PROPERTIES
  ExitFreesTheRest
