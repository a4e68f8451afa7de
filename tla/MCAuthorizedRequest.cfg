SPECIFICATION AuthSpec
CONSTANTS
    MaxAttempts = 3
    MaxElapsed = 3
    Backoff <- MCBackoff
    RetryAfter <- MCRetryAfter
    Slow = 1
    Lifetimes = {2, 10}
    DefaultSkew = 30
INVARIANTS
    TypeOK
    AttemptsStayInWindow
    AtMostOneEffect
    TokensAreRenewed
PROPERTIES
    ImplementsRemoteCall
