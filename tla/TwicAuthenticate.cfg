SPECIFICATION Spec
CONSTANTS
  CommandLines <- SampleLines
  Inputs <- SampleInputs
  Times <- SampleTimes
  MaxDuration = 3
  Day = 1
  Budgets = {9, 30}
  Decrypts = TRUE
INVARIANTS Granted HandedBack
PROPERTY DecidedOffline
