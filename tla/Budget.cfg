CONSTANT CleanupTimeout = 5
SPECIFICATION Spec
INVARIANT CleanupWithinTimeout
CHECK_DEADLOCK FALSE
