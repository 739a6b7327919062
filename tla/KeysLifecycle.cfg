\* Two callers and a worker move one key through its lifecycle, past each other.
SPECIFICATION Spec
CONSTANTS
    c1 = c1  c2 = c2  w1 = w1  w2 = w2  t1 = t1  t2 = t2
    MaxKeys = 1
    OwnerTokens = {t1}
    RecoveryTokens = {}
    WalletToken = "wallet"
    Callers = {c1, c2}
    Workers = {w1}
    Ops = {"open", "create", "disable", "rotate", "suspend", "resume", "revoke", "compromise", "schedule", "cancel"}
    Grace = FALSE
    RetryLimit = 2
    MaxVersion = 4
    MaxRevocable = 1
    MaxFaults = 0
SYMMETRY Callers2
INVARIANTS TypeOK DestroyedForGood
PROPERTY LegalTransitions
CHECK_DEADLOCK FALSE
