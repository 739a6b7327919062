\* One wallet, legacy or managed, two requests at a time
\* and a worker.
SPECIFICATION FairSpec
CONSTANTS
    h1 = h1  h2 = h2  p1 = p1  w1 = w1
    Wallets = {"a"}
    Challenges = {"c"}
    Requested <- TheHolder
    Items = {p1}
    Credentials = {"a"}
    HeldBy <- OneEach
    Clients = {h1, h2}
    Admins = {h2}
    Workers = {w1}
    Lifetime = 2
    MinLife = 1
    Lives = {1, 2}
    Stale = 1
    BatchLimit = 1
    MaxClock = 3
    MaxAttempts = 1
    MaxRotations = 1
    MaxMishaps = 1
INVARIANTS TypeOK SingleUse VerifiedAsClaimed AuditTruthful
PROPERTY EventuallyDecided
CHECK_DEADLOCK FALSE
