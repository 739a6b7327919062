\* One wallet with three guardians of four accounts, any of which may become its
\* owner, and two identifiers that the five accounts register and hand on.
SPECIFICATION Spec
CONSTANTS
    a = a  b = b  g1 = g1  g2 = g2  g3 = g3
    Addresses = {a, b, g1, g2, g3}
    ZeroAddress = "0x0"
    Wallets = {a}
    Admin = a
    Dids = {"did1", "did2"}
    NoDid = "no did"
    Hashes = {"h1", "h2"}
    NoHash = "0"
SYMMETRY Symmetric
INVARIANTS ReverseIsOwned ApprovalsCounted
PROPERTY OwnedByQuorum
CHECK_DEADLOCK FALSE
