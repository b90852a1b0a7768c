CONSTANTS
  PinReferences = {pin, global}
  MaxTries = 2
  MinimumRetries = {2}
  CardSuite = "CS2"
  MaxSessions = 2
SPECIFICATION Spec
SYMMETRY References
INVARIANTS NoDowngrade SecretsProtected NeverBlocked FlagsTrue
