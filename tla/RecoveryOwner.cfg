\* Two owner calls at once, one of which may die: an account is assigned, suspended,
\* assigned again and reactivated while policies are put and requests are created
\* and cancelled.
SPECIFICATION Spec
CONSTANTS
    d1 = d1  d2 = d2  d3 = d3  w1 = w1  w2 = w2  o1 = o1  o2 = o2  r1 = r1  r2 = r2
    Guardians = {1, 3}
    Users = {0, 1}
    UserOf <- Reassigned
    OwnerUser = 0
    Requests = {r1, r2}
    PolicyTerms <- JustOneOfTwo
    DefaultTerms <- OneOfTwo
    Enrolled = {1}
    Deciders = {}
    Owners = {o1, o2}
    Workers = {}
    OwnerOps = {"enrol", "update", "create", "policy", "cancel"}
    OnDemand = TRUE
    Lease = 1
    QuorumTries = 2
    MaxClock = 2
    MaxVersion = 3
    MaxCrashes = 1
SYMMETRY OwnersRequests
INVARIANTS SharesHeld QuorumOfDistinctAccounts
CHECK_DEADLOCK FALSE
