\* Two plaintexts, two establishments on each side, and a counter that is
\* exhausted after three commands.
CONSTANTS
  Data = {d1, empty}
  Empty = empty
  Garbled = garbled
  LowCounter = 4
  MaxBegins = 2
  MaxAnswers = 2
SPECIFICATION Spec
INVARIANTS VectorsDistinct Agreement
CHECK_DEADLOCK FALSE
