-------------------------- MODULE RecoveryPromise --------------------------
(***************************************************************************)
(* What the recovery service promises the owner of a wallet, without       *)
(* saying how: one recovery at a time; it is approved by a threshold of    *)
(* the guardians who were its team when it opened, each of whom answers    *)
(* once and only when he came to; its key rotation is released only when a *)
(* time lock has run out, which counts from the call of a guardian who has *)
(* answered; and it reports success only after the rotation.               *)
(***************************************************************************)
EXTENDS Naturals, FiniteSets

CONSTANTS Requests, Guardians

VARIABLES
    now,
    stage,        \* where each recovery stands
    terms,        \* terms[r]: the threshold, time lock and team r was opened with
    asked,        \* asked[r]: which guardian came when to decide on r
    answer,       \* answer[r][g]: what guardian g has answered
    unlockAt,     \* unlockAt[r]: when the time lock of an approved r runs out
    released,     \* recoveries whose key rotation was released
    rotated       \* recoveries whose key was rotated

promise == <<now, stage, terms, asked, answer, unlockAt, released, rotated>>

Open == {"collecting", "approved"}
Answers == {"APPROVE", "REJECT"}

Init ==
    /\ now \in Nat
    /\ stage = [r \in Requests |-> "none"]
    /\ terms \in [Requests -> [threshold : Nat, lock : Nat, team : SUBSET Guardians]]
    /\ asked = [r \in Requests |-> {}]
    /\ answer = [r \in Requests |-> [g \in Guardians |-> "NONE"]]
    /\ unlockAt = [r \in Requests |-> 0]
    /\ released = {}
    /\ rotated = {}

Pass ==
    /\ now' > now
    /\ UNCHANGED <<stage, terms, asked, answer, unlockAt, released, rotated>>

Start(r) ==
    /\ stage[r] = "none"
    /\ \A s \in Requests : stage[s] \notin Open
    /\ stage' = [stage EXCEPT ![r] = "collecting"]
    /\ terms'[r] \in [threshold : Nat \ {0}, lock : Nat, team : SUBSET Guardians]
    /\ terms' = [terms EXCEPT ![r] = terms'[r]]
    /\ UNCHANGED <<now, asked, answer, unlockAt, released, rotated>>

\* A guardian of the team comes to decide.
Ask(r, g) ==
    /\ stage[r] = "collecting"
    /\ g \in terms[r].team
    /\ asked' = [asked EXCEPT ![r] = @ \cup {<<g, now>>}]
    /\ UNCHANGED <<now, stage, terms, answer, unlockAt, released, rotated>>

\* His answer is recorded, be it later.
Answer(r, g, a) ==
    /\ \E call \in asked[r] : call[1] = g
    /\ answer[r][g] = "NONE"
    /\ answer' = [answer EXCEPT ![r][g] = a]
    /\ UNCHANGED <<now, stage, terms, asked, unlockAt, released, rotated>>

\* The quorum is seen by the call of a guardian who has answered, and the time lock
\* counts from when that call came in.  Calls run side by side: one that was slow may
\* have come in before the approval that completes the quorum.
Agree(r) ==
    /\ stage[r] = "collecting"
    /\ Cardinality({g \in terms[r].team : answer[r][g] = "APPROVE"}) >= terms[r].threshold
    /\ stage' = [stage EXCEPT ![r] = "approved"]
    /\ \E call \in asked[r] :
          /\ answer[r][call[1]] # "NONE"
          /\ unlockAt' = [unlockAt EXCEPT ![r] = call[2] + terms[r].lock]
    /\ UNCHANGED <<now, terms, asked, answer, released, rotated>>

Release(r) ==
    /\ stage[r] = "approved"
    /\ now >= unlockAt[r]
    /\ released' = released \cup {r}
    /\ UNCHANGED <<now, stage, terms, asked, answer, unlockAt, rotated>>

Rotate(r) ==
    /\ r \in released
    /\ rotated' = rotated \cup {r}
    /\ UNCHANGED <<now, stage, terms, asked, answer, unlockAt, released>>

Complete(r) ==
    /\ stage[r] = "approved"
    /\ r \in rotated
    /\ stage' = [stage EXCEPT ![r] = "completed"]
    /\ UNCHANGED <<now, terms, asked, answer, unlockAt, released, rotated>>

Withdraw(r) ==
    /\ stage[r] \in Open
    /\ stage' = [stage EXCEPT ![r] = "withdrawn"]
    /\ UNCHANGED <<now, terms, asked, answer, unlockAt, released, rotated>>

Next ==
    \/ Pass
    \/ \E r \in Requests :
          \/ Start(r) \/ Agree(r) \/ Release(r) \/ Rotate(r) \/ Complete(r) \/ Withdraw(r)
          \/ \E g \in Guardians : Ask(r, g) \/ \E a \in Answers : Answer(r, g, a)

Spec == Init /\ [][Next]_promise
=============================================================================
