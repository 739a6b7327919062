----------------------------- MODULE MCRecovery -----------------------------
\* Instances of Recovery for TLC.
EXTENDS Recovery, TLC

CONSTANTS d1, d2, d3, w1, w2, o1, o2, r1, r2

Terms(m, n, window, timelock, expiration, attempts) ==
    [minimum |-> m, maximum |-> n, window |-> window, timelock |-> timelock,
     expiration |-> expiration, attempts |-> attempts, cooldown |-> 0,
     cancellable |-> TRUE, selfGuardian |-> FALSE]

OneOfOne == Terms(1, 1, 1, 1, 3, 2)
OneOfTwo == Terms(1, 2, 1, 0, 1, 1)

JustOneOfOne == {OneOfOne}
JustOneOfTwo == {OneOfTwo}

\* Assignment 3 is of the account that assignment 1 already belongs to.
Reassigned == [g \in Guardians |-> IF g = 3 THEN 1 ELSE g]

OwnUser == [g \in Guardians |-> g]

OwnersRequests == Permutations({o1, o2}) \cup Permutations({r1, r2})
WorkersRequests == Permutations({w1, w2}) \cup Permutations({r1, r2})
=============================================================================
