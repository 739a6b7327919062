\* Two executions of one recovery beside a worker, with a grace period.
SPECIFICATION Spec
CONSTANTS
    c1 = c1  c2 = c2  w1 = w1  w2 = w2  t1 = t1  t2 = t2
    MaxKeys = 2
    OwnerTokens = {}
    RecoveryTokens = {"r1"}
    WalletToken = "wallet"
    Callers = {c1, c2}
    Workers = {w1}
    Ops = {"open", "recoverCompromised"}
    Grace = TRUE
    RetryLimit = 1
    MaxVersion = 3
    MaxRevocable = 1
    MaxFaults = 0
SYMMETRY Callers2
INVARIANT ReportedCompromise
CHECK_DEADLOCK FALSE
