SPECIFICATION SuiteSpec
INVARIANTS ListsReadExact VerdictsJustified
PROPERTY StepsSafe
CHECK_DEADLOCK FALSE
