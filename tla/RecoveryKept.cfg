\* Two guardians who must both approve decide at once; the request keeps the promise
\* of RecoveryPromise and ends.
SPECIFICATION FairRecorded
CONSTANTS
    d1 = d1  d2 = d2  d3 = d3  w1 = w1  w2 = w2  o1 = o1  o2 = o2  r1 = r1  r2 = r2
    Guardians = {1, 2}
    Users = {0, 1, 2}
    UserOf <- OwnUser
    OwnerUser = 0
    Requests = {r1}
    PolicyTerms <- JustBoth
    DefaultTerms <- BothInTime
    Enrolled = {1, 2}
    Deciders = {d1, d2}
    Owners = {o1}
    Workers = {w1}
    OwnerOps = {"create"}
    OnDemand = FALSE
    Lease = 1
    QuorumTries = 2
    MaxClock = 4
    MaxVersion = 1
    MaxCrashes = 1
INVARIANT QuorumRecognised
PROPERTIES PromiseKept EventuallyFinished
CHECK_DEADLOCK FALSE
