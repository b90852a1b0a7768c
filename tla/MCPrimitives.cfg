SPECIFICATION SuiteSpec
CONSTANTS
  Intervals = {1, 2}
  MaxChunks = 3
  MaxSeeds = 4
INVARIANTS NeverRepeats ResistantIsFresh FilledOrNothing
INVARIANTS OutputsExact NothingReused OperationsExact
CHECK_DEADLOCK FALSE
