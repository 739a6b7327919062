------------------------------ MODULE MCOid4 ------------------------------
\* Instances of Oid4 for TLC.
EXTENDS Oid4, TLC

CONSTANTS o1, s1, x1, x2, h1, h2

Symmetric == Permutations({x1, x2}) \cup Permutations({h1, h2})
=============================================================================
