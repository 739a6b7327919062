\* Three threads with two retries each, a breaker that opens at the third failure.
SPECIFICATION FairSpec
CONSTANTS
    c1 = c1  c2 = c2  c3 = c3
    Callers = {c1, c2, c3}
    RetryCount = 2
    FailureThreshold = 3
    ResetTime = 2
INVARIANTS CircuitIsEarned SentWhileOpen
PROPERTY ServedAgain
CHECK_DEADLOCK FALSE
