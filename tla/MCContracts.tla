---------------------------- MODULE MCContracts ----------------------------
\* Instances of Contracts for TLC.
EXTENDS Contracts, TLC

CONSTANTS a, b, g1, g2, g3

\* The accounts that may be guardians are interchangeable, and no property is a liveness property.
Symmetric == Permutations({b, g1, g2, g3})
=============================================================================
