SPECIFICATION SuiteSpec
CONSTANT MaxOverrides = 2
CONSTANT Numbers <- BuildNumbers
INVARIANTS SignersGenuine ObjectsGrounded CancellationExact CallsPrepared
CHECK_DEADLOCK FALSE
