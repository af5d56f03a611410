SPECIFICATION ReclaimSpec
INVARIANT GetReturnsLastSet
CHECK_DEADLOCK FALSE
