--------------------------- MODULE MCCredentials ---------------------------
\* Instances of Credentials for TLC.
EXTENDS Credentials, TLC

CONSTANTS x1, x2, a, b

\* Every credential hashes to the last slot, so that they collide.
AllLast == [k \in Creds |-> Capacity - 1]

\* No property is a liveness property, and the credentials to be issued hash alike.
Symmetric == Permutations({x1, x2}) \cup Permutations({a, b})
=============================================================================
