SPECIFICATION SuiteSpec
CONSTANTS
  Modulus = 16
  DigestCost = 2
  SaltCost = 1
  EncodeCost = 2
  PreflightCost = 2
  Grants = {4, 9}
  MaxDraws = 3
INVARIANTS ReadingExact ChainsSound ChainsFound
INVARIANTS ProvedOnce WorkBounded
CHECK_DEADLOCK FALSE
