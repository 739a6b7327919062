\* Interrupted provisioning, rotation and destruction under a failing worker.
SPECIFICATION FairSpec
CONSTANTS
    c1 = c1  c2 = c2  w1 = w1  w2 = w2  t1 = t1  t2 = t2
    MaxKeys = 2
    OwnerTokens = {t1}
    RecoveryTokens = {}
    WalletToken = "wallet"
    Callers = {c1}
    Workers = {w1}
    Ops = {"open", "rotate", "revoke", "schedule", "cancel"}
    Grace = TRUE
    RetryLimit = 2
    MaxVersion = 3
    MaxRevocable = 1
    MaxFaults = 1
INVARIANTS SuccessorIsNewer BoundKeyProvisioned
PROPERTY InterruptedOperationsEnd
CHECK_DEADLOCK FALSE
