------------------------- MODULE RecoveryRefinement -------------------------
(***************************************************************************)
(* Recovery implements RecoveryPromise: what a request's document says of  *)
(* it is a stage of the promised recovery.  The promise speaks of when the *)
(* guardians came, which no document keeps for a call that has not         *)
(* recorded its decision yet: a history variable does.                     *)
(***************************************************************************)
EXTENDS Recovery

VARIABLE asked      \* asked[r]: which guardian began a decision on r when

\* The guardians whose decision on r begins with this step.
Asking(r) ==
    {g \in Guardians : \E d \in Deciders : /\ decider[d] = IdleDecider
                                           /\ decider'[d].pc = "record"
                                           /\ decider'[d].id = r
                                           /\ decider'[d].guardian = g}

Noted == asked' = [r \in Requests |-> asked[r] \cup (Asking(r) \X {clock})]

RecordedInit == Init /\ asked = [r \in Requests |-> {}]
RecordedNext == Next /\ Noted
Recorded == RecordedInit /\ [][RecordedNext]_<<vars, asked>>
FairRecorded == Recorded /\ Fairness

Stage(q) ==
    CASE q.state = "ABSENT" -> "none"
      [] q.state = "PENDING_APPROVALS" -> "collecting"
      [] q.state = "COMPLETED" -> "completed"
      [] q.state \in Terminal \ {"COMPLETED"} -> "withdrawn"
      [] OTHER -> "approved"

Promise == INSTANCE RecoveryPromise WITH
    now <- clock,
    stage <- [r \in Requests |-> Stage(request[r])],
    terms <- [r \in Requests |-> [threshold |-> request[r].terms.minimum,
                                  lock |-> request[r].terms.timelock,
                                  team |-> request[r].guardians]],
    answer <- approval,
    unlockAt <- [r \in Requests |->
                    IF request[r].quorumAt = Unset THEN 0
                    ELSE request[r].quorumAt + request[r].terms.timelock],
    released <- {r \in Requests : request[r].attempts > 0}

\* The service keeps its promise to the owner through every interleaving, crash,
\* lost race and expired lease: no step does what the promise does not allow.  In
\* particular the time lock never counts from before the request was open, nor from
\* the call of a guardian who has not answered.
PromiseKept == Promise!Spec
=============================================================================
