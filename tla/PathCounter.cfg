SPECIFICATION PreflightSpec
CONSTANT MaxOverrides = 2
CONSTANT Numbers <- BuildNumbers
INVARIANT WorkIsChecked
CHECK_DEADLOCK FALSE
