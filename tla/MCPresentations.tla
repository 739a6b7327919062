-------------------------- MODULE MCPresentations --------------------------
\* Instances of Presentations for TLC.
EXTENDS Presentations

CONSTANTS h1, h2, p1, w1

\* One credential per wallet.
OneEach == [k \in Credentials |-> k]
\* A challenge names its holder, whose wallet may be rotated before it is used.
TheHolder == {<<w, 0>> : w \in Wallets}
=============================================================================
