--------------------------- MODULE MCRecoveryKept ---------------------------
\* The instance of RecoveryRefinement for TLC.
EXTENDS MCRecovery, RecoveryRefinement

BothInTime == Terms(2, 2, 2, 1, 3, 1)
JustBoth == {BothInTime}
=============================================================================
