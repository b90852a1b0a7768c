CONSTANTS
  ShortMaxNc = 2
  ShortMaxNe = 2
  MaxNc = 6
  MaxNe = 3
  Budgets = {1, 4}
  Scratches = {7, 13}
  CommandLimits = {0, 7}
  ResponseLimits = {0, 3}
  Capacities = {1, 5}
  DataLengths = {0, 4}
  Expected = {0, 2, 3}
SPECIFICATION Spec
INVARIANTS Assembled RepeatsSafe
PROPERTIES CallsReturn ImplementsExchange
