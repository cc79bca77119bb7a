SPECIFICATION Spec
CONSTANT MaxRetries = 3
INVARIANT TypeOK
INVARIANT OneCopyPerAttempt
PROPERTY ImplementsContract
PROPERTY PublishEnds
\* The call ends.
CHECK_DEADLOCK FALSE
