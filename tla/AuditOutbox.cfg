\* Two requests and a worker deliver an embedded and a standalone record.
SPECIFICATION FairSpec
CONSTANTS
    x1 = x1  x2 = x2  w1 = w1  e1 = e1  e2 = e2
    Events = {e1, e2}
    Embedded = {e2}
    Requests = {x1, x2}
    Workers = {w1}
    BatchSize = 1
    MaxDelay = 1
    MaxAttempts = 1
    Lease = 1
    MaxFaults = 2
INVARIANTS TypeOK DeliveredIsPublished
PROPERTY EventuallyDelivered
CHECK_DEADLOCK FALSE
