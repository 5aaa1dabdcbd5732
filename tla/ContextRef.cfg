SPECIFICATION Spec
CONSTANT MaxLength = 4
INVARIANT ResolvesExactlyWhenClean
INVARIANT MisreadOnlyThroughAt
CHECK_DEADLOCK FALSE
