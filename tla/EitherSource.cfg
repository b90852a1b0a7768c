SPECIFICATION PathSpec
INVARIANT EitherSource
CHECK_DEADLOCK FALSE
