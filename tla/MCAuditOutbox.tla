--------------------------- MODULE MCAuditOutbox ---------------------------
\* Instances of AuditOutbox for TLC.
EXTENDS AuditOutbox

CONSTANTS x1, x2, w1, e1, e2
=============================================================================
