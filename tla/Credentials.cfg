\* One legacy credential and two to be issued, lists of two slots, two requests at a time.
SPECIFICATION Spec
CONSTANTS
    x1 = x1  x2 = x2  a = a  b = b
    Legacy = {"old"}
    New = {a, b}
    Expiring = {"old"}
    Watched = {1}
    Candidate <- AllLast
    Capacity = 2
    MaxLists = 2
    MaxVersion = 1
    Clients = {x1, x2}
SYMMETRY Symmetric
INVARIANTS TypeOK FreshAnswers
PROPERTIES NeverMoves RevokedForGood EveryCallAdvances
CHECK_DEADLOCK FALSE
