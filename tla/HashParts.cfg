SPECIFICATION HashSpec
CONSTANTS
  Intervals = {1}
  MaxChunks = 1
  MaxSeeds = 1
INVARIANT NothingPartial
CHECK_DEADLOCK FALSE
