\* Two requests at a time claim one offer and answer one session.
SPECIFICATION Spec
CONSTANTS
    o1 = o1  s1 = s1  x1 = x1  x2 = x2  h1 = h1  h2 = h2
    Offers = {o1}
    Guarded = {o1}
    Sessions = {s1}
    Holders = {h1, h2}
    Clients = {x1, x2}
    MaxIssued = 2
SYMMETRY Symmetric
INVARIANTS TypeOK HandedOnce RevokedNeverVerifies ToldIsStored
CHECK_DEADLOCK FALSE
