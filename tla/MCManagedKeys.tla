--------------------------- MODULE MCManagedKeys ---------------------------
\* Instances of ManagedKeys for TLC.
EXTENDS ManagedKeys, TLC

CONSTANTS c1, c2, w1, w2, t1, t2

Callers2 == Permutations({c1, c2})
=============================================================================
