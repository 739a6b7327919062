\* Two workers execute an approved request: leases, retries, cancellation, and a
\* second request after one that was cancelled or rejected.
SPECIFICATION Spec
CONSTANTS
    d1 = d1  d2 = d2  d3 = d3  w1 = w1  w2 = w2  o1 = o1  o2 = o2  r1 = r1  r2 = r2
    Guardians = {1}
    Users = {0, 1}
    UserOf <- OwnUser
    OwnerUser = 0
    Requests = {r1, r2}
    PolicyTerms <- JustOneOfOne
    DefaultTerms <- OneOfOne
    Enrolled = {1}
    Deciders = {d1}
    Owners = {o1}
    Workers = {w1, w2}
    OwnerOps = {"create", "cancel", "policy"}
    OnDemand = TRUE
    Lease = 1
    QuorumTries = 2
    MaxClock = 4
    MaxVersion = 2
    MaxCrashes = 0
SYMMETRY WorkersRequests
INVARIANTS TypeOK RotationAuthorised CompletedMeansRotated OneActiveRequest
PROPERTY TerminalIsFinal
CHECK_DEADLOCK FALSE
