SPECIFICATION Spec
CONSTANTS
    MaxAttempts = 3
    MaxElapsed = 4
    Backoff <- MCBackoff
    RetryAfter <- MCRetryAfter
    Slow = 2
PROPERTIES
    WritesResentOnlyUnsent
