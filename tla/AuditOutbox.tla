---------------------------- MODULE AuditOutbox ----------------------------
\* The audit outbox of the identity service: a record for each audit event, stored with
\* or after the change that it reports, is delivered to the audit log by the request that
\* stored it or by a background worker, with leases, retries and back-off.
\*
\* Requests and workers of several processes deliver at the same time; each access to the
\* database is a step. In place of version numbers a deliverer notes if the version that
\* it read is still the stored one: every write of a record takes that from the others.
\* Times are what is left until they come; the clock is read with the write that uses it.
EXTENDS Integers, FiniteSets

CONSTANTS
    Events,         \* identifiers of audit events
    Embedded,       \* those whose record is a part of the credential document
    Requests,       \* requests in flight
    Workers,        \* background workers, one for each process of the service
    BatchSize,      \* records that a worker reads at a time
    MaxDelay,       \* longest back-off
    MaxAttempts,    \* attempts from which the back-off is the longest
    Lease,          \* duration of a claim
    MaxFaults       \* bound on failing accesses, crashes and claims that outlive their lease

VARIABLES
    record,         \* collection audit_outbox, and the records in collection credentials
    log,            \* collection audit_events
    deliverer,      \* state of each request and worker
    faults          \* faults so far

vars == <<record, log, deliverer, faults>>

None == "none"
Deliverers == Requests \cup Workers

Settings == {BatchSize, MaxDelay, MaxAttempts, Lease}

ASSUME OutboxAssumptions ==
    /\ Requests \cap Workers = {} /\ Embedded \subseteq Events /\ None \notin Events
    /\ Settings \subseteq Nat \ {0} /\ MaxFaults \in Nat
    /\ 2 ^ (MaxAttempts - 1) >= MaxDelay
    /\ \A n \in 0 .. MaxAttempts : 2 ^ n \in Nat

Record ==
    [status : {"ABSENT", "PENDING", "PROCESSING", "DELIVERED"},
     attempts : 0 .. MaxAttempts, wait : 0 .. MaxDelay, lease : 0 .. Lease]
Absent == [status |-> "ABSENT", attempts |-> 0, wait |-> 0, lease |-> 0]
Pending == [Absent EXCEPT !.status = "PENDING"]

Steps == {"idle", "enqueue", "batch", "get", "claim", "readback", "publish", "ack", "reschedule"}
Deliverer ==
    [step : Steps, e : Events \cup {None}, todo : SUBSET Events, current : BOOLEAN,
     attempts : 0 .. MaxAttempts]
Idle == [step |-> "idle", e |-> None, todo |-> {}, current |-> FALSE, attempts |-> 0]

Init ==
    /\ record = [e \in Events |-> Absent]
    /\ log = {}
    /\ deliverer = [x \in Deliverers |-> Idle]
    /\ faults = 0

-----------------------------------------------------------------------------
\* Repository

Smaller(a, b) == IF a <= b THEN a ELSE b

\* Variant: the longest back-off is forgotten.
DelayUnlimited(attempts) == 2 ^ attempts

\* next_available_at: doubled with each attempt, up to the longest.
Delay(attempts) == Smaller(MaxDelay, 2 ^ (attempts - 1))

\* Variant: nobody takes over a claim.
ReadyPending(e) == record[e].status = "PENDING" /\ record[e].wait = 0

\* _ready_filter: due, or claimed by someone whose lease has lapsed.
Ready(e) ==
    \/ record[e].status = "PENDING" /\ record[e].wait = 0
    \/ record[e].status = "PROCESSING" /\ record[e].lease = 0

\* list_ready: records of the collection first, embedded ones while there is room.
Batches ==
    LET ready == {e \in Events : Ready(e)}
        own == ready \ Embedded
        room == BatchSize - Cardinality(own)
    IN {b \in SUBSET ready :
            /\ Cardinality(b \ Embedded) = Smaller(BatchSize, Cardinality(own))
            /\ Cardinality(b \cap Embedded) =
                    IF room <= 0 THEN 0 ELSE Smaller(room, Cardinality(ready \cap Embedded))}

\* A step of x that writes nothing.
Turn(x, d) == deliverer' = [deliverer EXCEPT ![x] = d]

\* A write of the record of e by x: who else read that record holds an old version.
Write(x, d, e, r) ==
    /\ record' = [record EXCEPT ![e] = r]
    /\ deliverer' = [y \in Deliverers |->
        IF y = x THEN d
        ELSE IF deliverer[y].e = e THEN [deliverer[y] EXCEPT !.current = FALSE]
        ELSE deliverer[y]]

\* The end of one delivery: the next record of the batch. An exception ends the cycle.
Done(x) ==
    IF deliverer[x].todo = {} THEN Idle ELSE [Idle EXCEPT !.step = "batch", !.todo = deliverer[x].todo]
Raised(x) == Idle

-----------------------------------------------------------------------------
\* Delivery

\* A revocation stores its record with the revoked credential.
CommitEmbedded(x, e) ==
    /\ x \in Requests /\ e \in Embedded
    /\ deliverer[x] = Idle
    /\ record[e] = Absent
    /\ Write(x, [Idle EXCEPT !.step = "get", !.e = e], e, Pending)
    /\ UNCHANGED <<log, faults>>

\* ensure: a record that is there is delivered again, any other is stored first. (One of
\* another event with the same digest ends the request, with no effect.) The key, wallet and
\* presentation services record their events so, and go on without the event if that fails.
Ensure(x, e) ==
    /\ x \in Requests
    /\ deliverer[x] = Idle
    /\ e \in Embedded => record[e] # Absent
    /\ Turn(x, [Idle EXCEPT !.step = IF record[e] = Absent THEN "enqueue" ELSE "get", !.e = e])
    /\ UNCHANGED <<record, log, faults>>

\* The event of a status check is new, and stored without looking for it.
RecordStatusCheck(x, e) ==
    /\ x \in Requests /\ e \notin Embedded
    /\ deliverer[x] = Idle
    /\ record[e] = Absent
    /\ Turn(x, [Idle EXCEPT !.step = "enqueue", !.e = e])
    /\ UNCHANGED <<record, log, faults>>

\* enqueue: another request may have stored the record since. If that record has been
\* claimed by now it differs from the one to be stored, and the request ends.
Enqueue(x) ==
    /\ deliverer[x].step = "enqueue"
    /\ LET e == deliverer[x].e IN
       \/ /\ record[e] = Absent
          /\ Write(x, [deliverer[x] EXCEPT !.step = "get"], e, Pending)
       \/ /\ record[e] # Absent
          /\ Turn(x, IF record[e] = Pending THEN [deliverer[x] EXCEPT !.step = "get"] ELSE Idle)
          /\ UNCHANGED record
    /\ UNCHANGED <<log, faults>>

\* deliver_pending: a batch of the records that are ready.
Poll(w) ==
    /\ w \in Workers
    /\ deliverer[w] = Idle
    /\ \E b \in Batches \ {{}} : Turn(w, [Idle EXCEPT !.step = "batch", !.todo = b])
    /\ UNCHANGED <<record, log, faults>>

NextOfBatch(w) ==
    /\ deliverer[w].step = "batch"
    /\ \E e \in deliverer[w].todo :
        Turn(w, [deliverer[w] EXCEPT !.step = "get", !.e = e, !.todo = @ \ {e}])
    /\ UNCHANGED <<record, log, faults>>

\* deliver_event: what has been delivered is left alone.
Get(x) ==
    /\ deliverer[x].step = "get"
    /\ Turn(x, IF record[deliverer[x].e].status = "DELIVERED" THEN Done(x)
               ELSE [deliverer[x] EXCEPT !.step = "claim", !.current = TRUE])
    /\ UNCHANGED <<record, log, faults>>

\* claim: the version that was read, and due or lapsed.
Claimable(x) == deliverer[x].current /\ Ready(deliverer[x].e)

Claimed(r) ==
    [r EXCEPT !.status = "PROCESSING", !.attempts = Smaller(@ + 1, MaxAttempts),
              !.wait = 0, !.lease = Lease]

Claim(x) ==
    /\ deliverer[x].step = "claim"
    /\ LET e == deliverer[x].e IN
       \/ /\ Claimable(x)
          /\ Write(x, [deliverer[x] EXCEPT !.step = "readback", !.current = FALSE], e, Claimed(record[e]))
       \/ /\ ~Claimable(x)
          /\ Turn(x, Done(x))
          /\ UNCHANGED record
    /\ UNCHANGED <<log, faults>>

\* claim returns what is stored by now, which may be the claim of another.
ReadBack(x) ==
    /\ deliverer[x].step = "readback"
    /\ Turn(x, [deliverer[x] EXCEPT !.step = "publish", !.current = TRUE,
                                    !.attempts = record[deliverer[x].e].attempts])
    /\ UNCHANGED <<record, log, faults>>

\* _publish_idempotently: appended, unless it is there or is appended meanwhile.
\* (Another event under the same identifier would fail every attempt for ever. An identifier
\* has one stored record, and only that record's event is appended under it.)
Publish(x) ==
    /\ deliverer[x].step = "publish"
    /\ log' = log \cup {deliverer[x].e}
    /\ Turn(x, [deliverer[x] EXCEPT !.step = "ack"])
    /\ UNCHANGED <<record, faults>>

Delivered(r) == [r EXCEPT !.status = "DELIVERED", !.lease = 0]

\* The filter of mark_delivered and reschedule: the version of the claim, in process.
Held(x) == deliverer[x].current /\ record[deliverer[x].e].status = "PROCESSING"

\* mark_delivered: a stale acknowledgement is an error, after which a retry is stored.
Acknowledge(x) ==
    /\ deliverer[x].step = "ack"
    /\ LET e == deliverer[x].e IN
       \/ /\ Held(x)
          /\ Write(x, Done(x), e, Delivered(record[e]))
       \/ /\ ~Held(x)
          /\ Turn(x, [deliverer[x] EXCEPT !.step = "reschedule"])
          /\ UNCHANGED record
    /\ UNCHANGED <<log, faults>>

Rescheduled(r, attempts) == [r EXCEPT !.status = "PENDING", !.wait = Delay(attempts), !.lease = 0]

\* reschedule: a stale one raises.
Reschedule(x) ==
    /\ deliverer[x].step = "reschedule"
    /\ LET e == deliverer[x].e IN
       \/ /\ Held(x)
          /\ Write(x, Done(x), e, Rescheduled(record[e], deliverer[x].attempts))
       \/ /\ ~Held(x)
          /\ Turn(x, Raised(x))
          /\ UNCHANGED record
    /\ UNCHANGED <<log, faults>>

-----------------------------------------------------------------------------
\* Faults and time

\* Variant: the event is acknowledged although it could not be published.
AfterErrorGoesOn(x) ==
    IF deliverer[x].step = "publish" THEN [deliverer[x] EXCEPT !.step = "ack"] ELSE Raised(x)

\* deliver_event: an error of the log or of the acknowledgement leads to a retry, any
\* other is raised to the request, which ignores it, or ends the cycle of the worker.
AfterError(x) ==
    IF deliverer[x].step \in {"publish", "ack"}
    THEN [deliverer[x] EXCEPT !.step = "reschedule"] ELSE Raised(x)

\* An access fails without an effect, or its answer is lost.
Error(x) ==
    /\ deliverer[x].step \notin {"idle", "batch"}
    /\ faults < MaxFaults
    /\ faults' = faults + 1
    /\ LET e == deliverer[x].e IN
       \/ Turn(x, AfterError(x)) /\ UNCHANGED <<record, log>>
       \/ /\ deliverer[x].step = "enqueue" /\ record[e] = Absent
          /\ Write(x, AfterError(x), e, Pending)
          /\ UNCHANGED log
       \/ /\ deliverer[x].step = "claim" /\ Claimable(x)
          /\ Write(x, AfterError(x), e, Claimed(record[e]))
          /\ UNCHANGED log
       \/ /\ deliverer[x].step = "publish"
          /\ log' = log \cup {e}
          /\ Turn(x, AfterError(x))
          /\ UNCHANGED record
       \/ /\ deliverer[x].step = "ack" /\ Held(x)
          /\ Write(x, [AfterError(x) EXCEPT !.current = FALSE], e, Delivered(record[e]))
          /\ UNCHANGED log
       \/ /\ deliverer[x].step = "reschedule" /\ Held(x)
          /\ Write(x, AfterError(x), e, Rescheduled(record[e], deliverer[x].attempts))
          /\ UNCHANGED log

\* The process dies, and another one takes its place.
Crash(x) ==
    /\ deliverer[x] # Idle
    /\ faults < MaxFaults
    /\ faults' = faults + 1
    /\ Turn(x, Idle)
    /\ UNCHANGED <<record, log>>

\* Someone is still at work on a claim that is about to lapse.
Lapsing ==
    \E x \in Deliverers :
        /\ deliverer[x].step \in {"readback", "publish", "ack", "reschedule"}
        /\ record[deliverer[x].e].status = "PROCESSING" /\ record[deliverer[x].e].lease = 1

Passed(n) == IF n = 0 THEN 0 ELSE n - 1

\* Time passes. Leases are long for a delivery: that one lapses under it is a fault.
Tick ==
    /\ \E e \in Events : record[e].wait > 0 \/ record[e].lease > 0
    /\ Lapsing => faults < MaxFaults
    /\ faults' = IF Lapsing THEN faults + 1 ELSE faults
    /\ record' = [e \in Events |-> [record[e] EXCEPT !.wait = Passed(@), !.lease = Passed(@)]]
    /\ UNCHANGED <<log, deliverer>>

-----------------------------------------------------------------------------
\* Specification

Deliver(x) == Get(x) \/ Claim(x) \/ ReadBack(x) \/ Publish(x) \/ Acknowledge(x) \/ Reschedule(x)
Work(w) == Poll(w) \/ NextOfBatch(w) \/ Deliver(w)

Next ==
    \/ \E x \in Requests, e \in Events :
        CommitEmbedded(x, e) \/ Ensure(x, e) \/ RecordStatusCheck(x, e)
    \/ \E x \in Requests : Enqueue(x) \/ Deliver(x)
    \/ \E w \in Workers : Work(w)
    \/ \E x \in Deliverers : Error(x) \/ Crash(x)
    \/ Tick

Spec == Init /\ [][Next]_vars

\* run: the loop of a worker outlives every error, a delivery that has begun goes on (its
\* death is Crash), and time passes. No request has to begin.
Fairness ==
    /\ WF_vars(Tick)
    /\ \A w \in Workers : WF_vars(Work(w))
    /\ \A x \in Requests : WF_vars(Deliver(x))

FairSpec == Spec /\ Fairness

-----------------------------------------------------------------------------
\* Properties

\* Records and deliverers keep their types.
TypeOK ==
    /\ record \in [Events -> Record]
    /\ log \subseteq Events
    /\ deliverer \in [Deliverers -> Deliverer]
    /\ faults \in 0 .. MaxFaults

\* What counts as delivered is in the audit log, although publishing, acknowledging and
\* retrying are separate writes of deliverers that may hold the same claim.
DeliveredIsPublished == \A e \in Events : record[e].status = "DELIVERED" => e \in log

\* Every stored record is delivered: leases lapse, retries come due, embedded records
\* are reached, and no error ends the worker (docs/bitstring-status-list.md).
EventuallyDelivered ==
    \A e \in Events : record[e].status # "ABSENT" ~> record[e].status = "DELIVERED"
=============================================================================
