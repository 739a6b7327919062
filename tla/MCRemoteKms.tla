---------------------------- MODULE MCRemoteKms ----------------------------
\* Instances of RemoteKms for TLC.
EXTENDS RemoteKms

CONSTANTS c1, c2, c3
=============================================================================
