------------------------- MODULE AuditOutboxProofs -------------------------
\* Proofs about AuditOutbox.
EXTENDS AuditOutbox, TLAPS

-----------------------------------------------------------------------------
\* The inductive invariant

\* What a deliverer remembers, against the records (rec) and the audit log (written): it
\* works on an event, whose claim has counted an attempt, and acknowledges only what it
\* has appended. The log never shrinks and no write lowers a number of attempts.
Honest(d, rec, written) ==
    /\ d \in Deliverer
    /\ d.step \notin {"idle", "batch"} => d.e \in Events
    /\ d.step = "readback" => rec[d.e].attempts >= 1
    /\ d.step \in {"publish", "ack", "reschedule"} => d.attempts >= 1
    /\ d.step = "ack" => d.e \in written

IInv ==
    /\ TypeOK
    /\ \A x \in Deliverers : Honest(deliverer[x], record, log)
    /\ DeliveredIsPublished

-----------------------------------------------------------------------------
\* Operators

LEMMA SettingsType ==
    /\ BatchSize \in Nat \ {0} /\ MaxDelay \in Nat \ {0} /\ MaxAttempts \in Nat \ {0}
    /\ Lease \in Nat \ {0} /\ MaxFaults \in Nat
    /\ 0 \in 0 .. Lease /\ Lease \in 0 .. Lease /\ 0 \in 0 .. MaxDelay /\ 0 \in 0 .. MaxAttempts
  BY OutboxAssumptions DEF Settings

LEMMA IdleHonest == ASSUME NEW rec, NEW written PROVE Honest(Idle, rec, written)
  BY SettingsType DEF Honest, Idle, Deliverer, Steps

LEMMA AbsentType == Absent \in Record /\ Pending \in Record
  BY SettingsType DEF Absent, Pending, Record

\* A back-off is never longer than the longest one.
LEMMA DelayType == ASSUME NEW n \in 1 .. MaxAttempts PROVE Delay(n) \in 0 .. MaxDelay
  <1>1. MaxDelay \in Nat /\ MaxAttempts \in Nat /\ n - 1 \in 0 .. MaxAttempts
    BY SettingsType
  <1>2. 2 ^ (n - 1) \in Nat
    BY <1>1, OutboxAssumptions
  <1> QED
    BY <1>1, <1>2 DEF Delay, Smaller

LEMMA RecordFields ==
    ASSUME NEW r \in Record
    PROVE  /\ r.status \in {"ABSENT", "PENDING", "PROCESSING", "DELIVERED"}
           /\ r.attempts \in 0 .. MaxAttempts /\ r.wait \in 0 .. MaxDelay /\ r.lease \in 0 .. Lease
  BY DEF Record

LEMMA DelivererFields ==
    ASSUME NEW d \in Deliverer
    PROVE  /\ d.step \in Steps /\ d.e \in Events \cup {None} /\ d.todo \in SUBSET Events
           /\ d.current \in BOOLEAN /\ d.attempts \in 0 .. MaxAttempts
  BY DEF Deliverer

\* A claim counts an attempt; an acknowledgement and a retry keep the number.
LEMMA ClaimedFields ==
    ASSUME NEW r \in Record
    PROVE  /\ Claimed(r) \in Record /\ Claimed(r).status = "PROCESSING"
           /\ Claimed(r).attempts >= 1 /\ Claimed(r).attempts >= r.attempts
  <1> DEFINE n == Smaller(r.attempts + 1, MaxAttempts)
  <1>1. n \in 0 .. MaxAttempts /\ n >= 1 /\ n >= r.attempts
    BY SettingsType, RecordFields DEF Smaller
  <1> HIDE DEF n
  <1>2. [r EXCEPT !.status = "PROCESSING", !.attempts = n, !.wait = 0, !.lease = Lease] \in Record
    BY <1>1, SettingsType DEF Record
  <1>3. Claimed(r) = [r EXCEPT !.status = "PROCESSING", !.attempts = n, !.wait = 0, !.lease = Lease]
    BY DEF Claimed, Record, n
  <1> QED
    BY <1>1, <1>2, <1>3 DEF Record

LEMMA DeliveredFields ==
    ASSUME NEW r \in Record
    PROVE  Delivered(r) \in Record /\ Delivered(r).attempts = r.attempts
  <1>1. Delivered(r) \in Record
    BY SettingsType DEF Delivered, Record
  <1> QED
    BY <1>1 DEF Delivered, Record

LEMMA RescheduledFields ==
    ASSUME NEW r \in Record, NEW n \in 1 .. MaxAttempts
    PROVE  /\ Rescheduled(r, n) \in Record /\ Rescheduled(r, n).attempts = r.attempts
           /\ Rescheduled(r, n).status = "PENDING"
  <1>1. Delay(n) \in 0 .. MaxDelay
    BY DelayType
  <1>2. Rescheduled(r, n) \in Record
    BY <1>1, SettingsType DEF Rescheduled, Record
  <1> QED
    BY <1>2 DEF Rescheduled, Record

\* What follows a delivery owes nothing to the records or to the log.
LEMMA DoneHonest ==
    ASSUME NEW x \in Deliverers, deliverer[x] \in Deliverer, NEW rec, NEW written
    PROVE  Honest(Done(x), rec, written)
  <1>1. CASE deliverer[x].todo = {}
    BY <1>1, IdleHonest DEF Done
  <1>2. CASE deliverer[x].todo # {}
    <2>1. Done(x) = [Idle EXCEPT !.step = "batch", !.todo = deliverer[x].todo]
      BY <1>2 DEF Done
    <2>2. Idle \in Deliverer
      BY IdleHonest DEF Honest
    <2>3. Done(x) \in Deliverer /\ Done(x).step = "batch"
      BY <2>1, <2>2, DelivererFields DEF Deliverer, Steps, Idle
    <2> QED
      BY <2>3 DEF Honest
  <1> QED
    BY <1>1, <1>2

-----------------------------------------------------------------------------
\* Steps of a deliverer

\* A step that writes no record keeps the invariant if it leaves its own deliverer honest.
LEMMA TurnKeeps ==
    ASSUME IInv, NEW x \in Deliverers, NEW d, Turn(x, d), Honest(d, record, log'),
           UNCHANGED record, log \subseteq log', log' \subseteq Events, faults' \in 0 .. MaxFaults
    PROVE  IInv'
  <1>1. d \in Deliverer
    BY DEF Honest
  <1>2. deliverer' \in [Deliverers -> Deliverer]
    BY <1>1 DEF IInv, TypeOK, Turn
  <1>3. ASSUME NEW y \in Deliverers PROVE Honest(deliverer'[y], record, log')
    <2>1. CASE y = x
      BY <2>1 DEF Turn, IInv, TypeOK
    <2>2. CASE y # x
      BY <2>2 DEF Turn, IInv, TypeOK, Honest
    <2> QED
      BY <2>1, <2>2
  <1> QED
    BY <1>2, <1>3 DEF IInv, TypeOK, DeliveredIsPublished

\* So does one that writes a record, if the record loses no attempt and becomes DELIVERED
\* only when its event is in the log.
LEMMA WriteKeeps ==
    ASSUME IInv, NEW x \in Deliverers, NEW d, NEW e \in Events, NEW r \in Record,
           Write(x, d, e, r), UNCHANGED log, faults' \in 0 .. MaxFaults,
           Honest(d, record', log),
           r.attempts >= record[e].attempts, r.status = "DELIVERED" => e \in log
    PROVE  IInv'
  <1>1. record' \in [Events -> Record]
    BY DEF IInv, TypeOK, Write
  <1>2. \A a \in Events : record'[a].attempts >= record[a].attempts
    BY RecordFields DEF IInv, TypeOK, Write
  <1>3. ASSUME NEW y \in Deliverers PROVE Honest(deliverer'[y], record', log)
    <2>1. CASE y = x
      BY <2>1 DEF Write
    <2>2. CASE y # x
      <3> DEFINE c == deliverer[y]
      <3>1. c \in Deliverer /\ Honest(c, record, log)
        BY DEF IInv, TypeOK
      <3>2. deliverer'[y] = c \/ deliverer'[y] = [c EXCEPT !.current = FALSE]
        BY <2>2 DEF Write
      <3>3. Honest(c, record', log)
        BY <3>1, <1>1, <1>2, RecordFields DEF Honest, IInv, TypeOK
      <3> HIDE DEF c
      <3>4. Honest([c EXCEPT !.current = FALSE], record', log)
        BY <3>1, <3>3 DEF Honest, Deliverer
      <3> QED
        BY <3>2, <3>3, <3>4
    <2> QED
      BY <2>1, <2>2
  <1>4. deliverer' \in [Deliverers -> Deliverer]
    BY <1>3 DEF Write, Honest
  <1>5. DeliveredIsPublished'
    BY DEF IInv, TypeOK, DeliveredIsPublished, Write
  <1> QED
    BY <1>1, <1>3, <1>4, <1>5 DEF IInv, TypeOK

\* Getting on with the same event: another step, and what was read of the record.
LEMMA OnwardHonest ==
    ASSUME NEW d \in Deliverer, d.e \in Events, NEW s \in Steps, NEW b \in BOOLEAN,
           NEW n \in 0 .. MaxAttempts, NEW rec, NEW written,
           s = "readback" => rec[d.e].attempts >= 1,
           s \in {"publish", "ack", "reschedule"} => n >= 1,
           s = "ack" => d.e \in written
    PROVE  Honest([d EXCEPT !.step = s, !.current = b, !.attempts = n], rec, written)
  <1> DEFINE c == [d EXCEPT !.step = s, !.current = b, !.attempts = n]
  <1>1. c \in Deliverer
    BY DEF Deliverer
  <1>2. c.step = s /\ c.e = d.e /\ c.attempts = n
    BY DEF Deliverer
  <1> HIDE DEF c
  <1> QED
    BY <1>1, <1>2 DEF Honest, c

LEMMA StepsOf ==
    ASSUME NEW d \in Deliverer, NEW s
    PROVE  /\ [d EXCEPT !.step = s] = [d EXCEPT !.step = s, !.current = d.current, !.attempts = d.attempts]
           /\ \A b : [d EXCEPT !.step = s, !.current = b] = [d EXCEPT !.step = s, !.current = b, !.attempts = d.attempts]
  BY DEF Deliverer

\* Beginning with an event.
LEMMA BeginHonest ==
    ASSUME NEW e \in Events, NEW s \in {"enqueue", "get"}, NEW rec, NEW written
    PROVE  Honest([Idle EXCEPT !.step = s, !.e = e], rec, written)
  <1> DEFINE c == [Idle EXCEPT !.step = s, !.e = e]
  <1>1. c.step = s /\ c.e = e
    BY DEF Idle
  <1>2. c \in Deliverer
    BY IdleHonest DEF Honest, Deliverer, Steps
  <1> HIDE DEF c
  <1> QED
    BY <1>1, <1>2 DEF Honest, c

-----------------------------------------------------------------------------
\* The actions

LEMMA RequestKeeps ==
    ASSUME IInv, NEW x \in Requests, NEW e \in Events,
           CommitEmbedded(x, e) \/ Ensure(x, e) \/ RecordStatusCheck(x, e)
    PROVE  IInv'
  <1>1. x \in Deliverers /\ faults \in 0 .. MaxFaults /\ log \subseteq Events /\ record[e] \in Record
    BY DEF Deliverers, IInv, TypeOK
  <1>2. CASE CommitEmbedded(x, e)
    <2>1. /\ Write(x, [Idle EXCEPT !.step = "get", !.e = e], e, Pending)
          /\ UNCHANGED <<log, faults>> /\ record[e] = Absent
      BY <1>2 DEF CommitEmbedded
    <2>2. Honest([Idle EXCEPT !.step = "get", !.e = e], record', log)
      BY BeginHonest
    <2>3. Pending \in Record /\ Pending.attempts >= Absent.attempts /\ Pending.status # "DELIVERED"
      BY AbsentType DEF Pending, Absent
    <2> QED
      BY <1>1, <2>1, <2>2, <2>3, WriteKeeps
  <1>3. CASE RecordStatusCheck(x, e)
    <2>1. /\ Turn(x, [Idle EXCEPT !.step = "enqueue", !.e = e])
          /\ UNCHANGED <<record, log, faults>>
      BY <1>3 DEF RecordStatusCheck
    <2> QED
      BY <1>1, <2>1, BeginHonest, TurnKeeps
  <1>4. CASE Ensure(x, e)
    <2> DEFINE s == IF record[e] = Absent THEN "enqueue" ELSE "get"
    <2>1. /\ Turn(x, [Idle EXCEPT !.step = s, !.e = e])
          /\ UNCHANGED <<record, log, faults>>
      BY <1>4 DEF Ensure
    <2>2. s \in {"enqueue", "get"}
      OBVIOUS
    <2> HIDE DEF s
    <2> QED
      BY <1>1, <2>1, <2>2, BeginHonest, TurnKeeps
  <1> QED
    BY <1>2, <1>3, <1>4

LEMMA EnqueueKeeps == ASSUME IInv, NEW x \in Deliverers, Enqueue(x) PROVE IInv'
  <1> DEFINE d == deliverer[x]
             e == d.e
  <1>1. /\ d \in Deliverer /\ e \in Events /\ d.step = "enqueue"
        /\ faults \in 0 .. MaxFaults /\ log \subseteq Events /\ record[e] \in Record
    BY DEF IInv, TypeOK, Enqueue, Honest
  <1>2. \A rec, written : Honest([d EXCEPT !.step = "get"], rec, written)
    <2>1. d.current \in BOOLEAN /\ d.attempts \in 0 .. MaxAttempts
      BY <1>1, DelivererFields
    <2>2. [d EXCEPT !.step = "get"] = [d EXCEPT !.step = "get", !.current = d.current, !.attempts = d.attempts]
      BY <1>1, StepsOf
    <2> HIDE DEF d
    <2> QED
      BY <1>1, <2>1, <2>2, OnwardHonest DEF Steps
  <1>3. CASE record[e] = Absent /\ Write(x, [d EXCEPT !.step = "get"], e, Pending) /\ UNCHANGED <<log, faults>>
    <2>1. Pending \in Record /\ Pending.attempts >= Absent.attempts /\ Pending.status # "DELIVERED"
      BY AbsentType DEF Pending, Absent
    <2> HIDE DEF d
    <2> QED
      BY <1>1, <1>2, <1>3, <2>1, WriteKeeps
  <1>4. CASE /\ Turn(x, IF record[e] = Pending THEN [d EXCEPT !.step = "get"] ELSE Idle)
             /\ UNCHANGED <<record, log, faults>>
    <2> HIDE DEF d
    <2> QED
      BY <1>1, <1>2, <1>4, IdleHonest, TurnKeeps
  <1> QED
    BY <1>3, <1>4 DEF Enqueue

LEMMA PollKeeps == ASSUME IInv, NEW w \in Workers, Poll(w) PROVE IInv'
  <1>1. w \in Deliverers /\ faults \in 0 .. MaxFaults /\ log \subseteq Events
    BY DEF Deliverers, IInv, TypeOK
  <1>2. PICK b \in Batches \ {{}} : Turn(w, [Idle EXCEPT !.step = "batch", !.todo = b])
    BY DEF Poll
  <1>3. b \in SUBSET Events
    BY DEF Batches
  <1> DEFINE c == [Idle EXCEPT !.step = "batch", !.todo = b]
  <1>4. Honest(c, record, log)
    <2>1. c.step = "batch"
      BY DEF Idle
    <2>2. c \in Deliverer
      BY <1>3, IdleHonest DEF Honest, Deliverer, Steps
    <2> HIDE DEF c
    <2> QED
      BY <2>1, <2>2 DEF Honest
  <1> QED
    BY <1>1, <1>2, <1>4, TurnKeeps DEF Poll

LEMMA NextOfBatchKeeps == ASSUME IInv, NEW w \in Workers, NextOfBatch(w) PROVE IInv'
  <1> DEFINE d == deliverer[w]
  <1>1. w \in Deliverers /\ faults \in 0 .. MaxFaults /\ log \subseteq Events /\ d \in Deliverer
    BY DEF Deliverers, IInv, TypeOK
  <1>2. PICK e \in d.todo : Turn(w, [d EXCEPT !.step = "get", !.e = e, !.todo = @ \ {e}])
    BY DEF NextOfBatch
  <1> DEFINE c == [d EXCEPT !.step = "get", !.e = e, !.todo = @ \ {e}]
  <1>3. c.step = "get" /\ c.e = e
    BY <1>1 DEF Deliverer
  <1>4. e \in Events /\ d.todo \ {e} \in SUBSET Events
    BY <1>1, DelivererFields
  <1>5. c \in Deliverer
    BY <1>1, <1>4 DEF Deliverer, Steps
  <1>6. Honest(c, record, log)
    BY <1>3, <1>4, <1>5 DEF Honest
  <1>7. Turn(w, c) /\ UNCHANGED <<record, log, faults>>
    BY <1>2 DEF NextOfBatch
  <1> HIDE DEF c, d
  <1> QED
    BY <1>1, <1>6, <1>7, TurnKeeps

\* What the invariant says of a deliverer at work.
LEMMA AtWork ==
    ASSUME IInv, NEW x \in Deliverers, deliverer[x].step \notin {"idle", "batch"}
    PROVE  /\ deliverer[x] \in Deliverer /\ Honest(deliverer[x], record, log)
           /\ deliverer[x].e \in Events /\ record[deliverer[x].e] \in Record
           /\ deliverer[x].current \in BOOLEAN /\ deliverer[x].attempts \in 0 .. MaxAttempts
           /\ faults \in 0 .. MaxFaults /\ log \subseteq Events
  BY DelivererFields DEF IInv, TypeOK, Honest

\* A deliverer goes on to a step that asks for nothing but its event, or to the retry.
LEMMA GoesOn ==
    ASSUME IInv, NEW x \in Deliverers, deliverer[x].step \notin {"idle", "batch"}, NEW rec, NEW written
    PROVE  /\ \A s \in {"get", "claim"}, b \in BOOLEAN :
                Honest([deliverer[x] EXCEPT !.step = s, !.current = b], rec, written)
           /\ deliverer[x].step \in {"publish", "ack"} =>
                Honest([deliverer[x] EXCEPT !.step = "reschedule"], rec, written)
           /\ deliverer[x].step \in {"publish", "ack"} =>
                Honest([deliverer[x] EXCEPT !.step = "reschedule", !.current = FALSE], rec, written)
           /\ deliverer[x].step = "publish" /\ deliverer[x].e \in written =>
                Honest([deliverer[x] EXCEPT !.step = "ack"], rec, written)
  <1> DEFINE d == deliverer[x]
  <1>1. /\ d \in Deliverer /\ d.e \in Events /\ d.current \in BOOLEAN /\ d.attempts \in 0 .. MaxAttempts
        /\ d.step \in {"publish", "ack"} => d.attempts >= 1
    BY AtWork DEF Honest
  <1> HIDE DEF d
  <1>2. ASSUME NEW s \in {"get", "claim"}, NEW b \in BOOLEAN
        PROVE  Honest([d EXCEPT !.step = s, !.current = b], rec, written)
    <2>1. s \in Steps /\ s \notin {"readback", "publish", "reschedule", "ack"}
      BY DEF Steps
    <2>2. Honest([d EXCEPT !.step = s, !.current = b, !.attempts = d.attempts], rec, written)
      BY <1>1, <2>1, OnwardHonest
    <2> QED
      BY <1>1, <2>2, StepsOf
  <1>3. ASSUME d.step \in {"publish", "ack"}, NEW s \in {"reschedule", "ack"}, s = "ack" => d.e \in written
        PROVE  /\ Honest([d EXCEPT !.step = s], rec, written)
               /\ Honest([d EXCEPT !.step = s, !.current = FALSE], rec, written)
    <2>1. s \in Steps /\ s # "readback" /\ FALSE \in BOOLEAN
      BY DEF Steps
    <2>2. \A b \in BOOLEAN : Honest([d EXCEPT !.step = s, !.current = b, !.attempts = d.attempts], rec, written)
      BY <1>1, <1>3, <2>1, OnwardHonest
    <2> QED
      BY <1>1, <2>1, <2>2, StepsOf
  <1>4. d.step \in {"publish", "ack"} => /\ Honest([d EXCEPT !.step = "reschedule"], rec, written)
                                        /\ Honest([d EXCEPT !.step = "reschedule", !.current = FALSE], rec, written)
    BY <1>3
  <1>5. d.step = "publish" /\ d.e \in written => Honest([d EXCEPT !.step = "ack"], rec, written)
    BY <1>3
  <1> QED
    BY <1>2, <1>4, <1>5 DEF d

LEMMA GetKeeps == ASSUME IInv, NEW x \in Deliverers, Get(x) PROVE IInv'
  <1> DEFINE d == deliverer[x]
             c == [d EXCEPT !.step = "claim", !.current = TRUE]
  <1>1. d.step \notin {"idle", "batch"} /\ UNCHANGED <<record, log, faults>> /\ (Turn(x, Done(x)) \/ Turn(x, c))
    BY DEF Get
  <1>2. faults \in 0 .. MaxFaults /\ log \subseteq Events /\ d \in Deliverer
    BY <1>1, AtWork
  <1>3. Honest(c, record, log)
    BY <1>1, GoesOn
  <1>4. Honest(Done(x), record, log)
    BY <1>2, DoneHonest
  <1> HIDE DEF d, c
  <1> QED
    BY <1>1, <1>2, <1>3, <1>4, TurnKeeps

LEMMA ClaimKeeps == ASSUME IInv, NEW x \in Deliverers, Claim(x) PROVE IInv'
  <1> DEFINE d == deliverer[x]
             e == d.e
             c == [d EXCEPT !.step = "readback", !.current = FALSE]
  <1>1. /\ d.step \notin {"idle", "batch"} /\ UNCHANGED <<log, faults>>
        /\ (Write(x, c, e, Claimed(record[e])) \/ (Turn(x, Done(x)) /\ UNCHANGED record))
    BY DEF Claim
  <1>2. /\ faults \in 0 .. MaxFaults /\ log \subseteq Events /\ d \in Deliverer /\ e \in Events
        /\ record[e] \in Record /\ d.attempts \in 0 .. MaxAttempts
    BY <1>1, AtWork
  <1>3. /\ Claimed(record[e]) \in Record /\ Claimed(record[e]).status # "DELIVERED"
        /\ Claimed(record[e]).attempts >= 1 /\ Claimed(record[e]).attempts >= record[e].attempts
    BY <1>2, ClaimedFields
  <1>4. Honest(Done(x), record, log)
    BY <1>2, DoneHonest
  <1>5. CASE Write(x, c, e, Claimed(record[e]))
    <2>1. record'[e].attempts >= 1
      BY <1>2, <1>3, <1>5 DEF Write, IInv, TypeOK
    <2>2. c = [d EXCEPT !.step = "readback", !.current = FALSE, !.attempts = d.attempts]
      BY <1>2, StepsOf
    <2> HIDE DEF d, c
    <2>3. Honest(c, record', log)
      BY <1>2, <2>1, <2>2, OnwardHonest DEF e, Steps
    <2> HIDE DEF e
    <2> QED
      BY <1>1, <1>2, <1>3, <1>5, <2>3, WriteKeeps
  <1> HIDE DEF d, c, e
  <1> QED
    BY <1>1, <1>2, <1>4, <1>5, TurnKeeps

LEMMA ReadBackKeeps == ASSUME IInv, NEW x \in Deliverers, ReadBack(x) PROVE IInv'
  <1> DEFINE d == deliverer[x]
             n == record[d.e].attempts
             c == [d EXCEPT !.step = "publish", !.current = TRUE, !.attempts = n]
  <1>1. d.step = "readback" /\ UNCHANGED <<record, log, faults>> /\ Turn(x, c)
    BY DEF ReadBack
  <1>2. /\ faults \in 0 .. MaxFaults /\ log \subseteq Events /\ d \in Deliverer /\ d.e \in Events
        /\ record[d.e] \in Record /\ n >= 1
    BY <1>1, AtWork DEF Honest
  <1>3. n \in 0 .. MaxAttempts
    BY <1>2, RecordFields
  <1> HIDE DEF d, n
  <1>4. Honest(c, record, log)
    BY <1>2, <1>3, OnwardHonest DEF Steps
  <1> HIDE DEF c
  <1> QED
    BY <1>1, <1>2, <1>4, TurnKeeps

LEMMA PublishKeeps == ASSUME IInv, NEW x \in Deliverers, Publish(x) PROVE IInv'
  <1> DEFINE d == deliverer[x]
             c == [d EXCEPT !.step = "ack"]
  <1>1. /\ d.step = "publish" /\ UNCHANGED <<record, faults>> /\ Turn(x, c)
        /\ log' = log \cup {d.e}
    BY DEF Publish
  <1>2. faults \in 0 .. MaxFaults /\ log \subseteq Events /\ d.e \in Events
    BY <1>1, AtWork
  <1>3. Honest(c, record, log')
    BY <1>1, GoesOn
  <1> HIDE DEF d, c
  <1> QED
    BY <1>1, <1>2, <1>3, TurnKeeps

LEMMA AcknowledgeKeeps == ASSUME IInv, NEW x \in Deliverers, Acknowledge(x) PROVE IInv'
  <1> DEFINE d == deliverer[x]
             e == d.e
             c == [d EXCEPT !.step = "reschedule"]
  <1>1. /\ d.step = "ack" /\ UNCHANGED <<log, faults>>
        /\ (Write(x, Done(x), e, Delivered(record[e])) \/ (Turn(x, c) /\ UNCHANGED record))
    BY DEF Acknowledge
  <1>2. /\ faults \in 0 .. MaxFaults /\ log \subseteq Events /\ d \in Deliverer /\ e \in Events
        /\ record[e] \in Record /\ e \in log
    BY <1>1, AtWork DEF Honest
  <1>3. Delivered(record[e]) \in Record /\ Delivered(record[e]).attempts >= record[e].attempts
    BY <1>2, DeliveredFields, RecordFields
  <1>4. Honest(Done(x), record', log)
    BY <1>2, DoneHonest
  <1>5. Honest(c, record, log)
    BY <1>1, GoesOn
  <1> HIDE DEF d, c, e
  <1> QED
    BY <1>1, <1>2, <1>3, <1>4, <1>5, WriteKeeps, TurnKeeps

LEMMA RescheduleKeeps == ASSUME IInv, NEW x \in Deliverers, Reschedule(x) PROVE IInv'
  <1> DEFINE d == deliverer[x]
             e == d.e
             r == Rescheduled(record[e], d.attempts)
  <1>1. /\ d.step = "reschedule" /\ UNCHANGED <<log, faults>>
        /\ (Write(x, Done(x), e, r) \/ (Turn(x, Idle) /\ UNCHANGED record))
    BY DEF Reschedule, Raised
  <1>2. /\ faults \in 0 .. MaxFaults /\ log \subseteq Events /\ d \in Deliverer /\ e \in Events
        /\ record[e] \in Record /\ d.attempts \in 1 .. MaxAttempts
    BY <1>1, AtWork, SettingsType DEF Honest
  <1>3. r \in Record /\ r.attempts >= record[e].attempts /\ r.status # "DELIVERED"
    BY <1>2, RescheduledFields, RecordFields
  <1>4. Honest(Done(x), record', log)
    BY <1>2, DoneHonest
  <1> HIDE DEF d, e, r
  <1> QED
    BY <1>1, <1>2, <1>3, <1>4, IdleHonest, WriteKeeps, TurnKeeps

LEMMA DeliverKeeps == ASSUME IInv, NEW x \in Deliverers, Deliver(x) PROVE IInv'
  BY GetKeeps, ClaimKeeps, ReadBackKeeps, PublishKeeps, AcknowledgeKeeps, RescheduleKeeps DEF Deliver

-----------------------------------------------------------------------------
\* Faults and time

LEMMA ErrorKeeps == ASSUME IInv, NEW x \in Deliverers, Error(x) PROVE IInv'
  <1> DEFINE d == deliverer[x]
             e == d.e
             after == AfterError(x)
             retry == Rescheduled(record[e], d.attempts)
  <1>1. /\ d \in Deliverer /\ e \in Events /\ record[e] \in Record /\ log \subseteq Events
        /\ d.attempts \in 0 .. MaxAttempts /\ d.step \notin {"idle", "batch"} /\ faults' \in 0 .. MaxFaults
        /\ Honest(d, record, log)
    BY AtWork, SettingsType DEF Error
  <1>2. \A rec, written : Honest(after, rec, written)
    BY <1>1, GoesOn, IdleHonest DEF AfterError, Raised
  <1>3. \A rec, written : d.step = "ack" => Honest([after EXCEPT !.current = FALSE], rec, written)
    <2> SUFFICES ASSUME d.step = "ack", NEW rec, NEW written
                 PROVE  Honest([after EXCEPT !.current = FALSE], rec, written)
      OBVIOUS
    <2>1. [after EXCEPT !.current = FALSE] = [d EXCEPT !.step = "reschedule", !.current = FALSE]
      BY <1>1 DEF AfterError, Deliverer
    <2> QED
      BY <1>1, <2>1, GoesOn
  <1>4. \/ Turn(x, after) /\ UNCHANGED <<record, log>>
        \/ record[e] = Absent /\ Write(x, after, e, Pending) /\ UNCHANGED log
        \/ Write(x, after, e, Claimed(record[e])) /\ UNCHANGED log
        \/ log' = log \cup {e} /\ Turn(x, after) /\ UNCHANGED record
        \/ /\ d.step = "ack" /\ Write(x, [after EXCEPT !.current = FALSE], e, Delivered(record[e]))
           /\ UNCHANGED log
        \/ d.step = "reschedule" /\ Write(x, after, e, retry) /\ UNCHANGED log
    BY DEF Error
  <1>5. Pending \in Record /\ Pending.attempts >= Absent.attempts /\ Pending.status # "DELIVERED"
    BY AbsentType DEF Pending, Absent
  <1>6. /\ Claimed(record[e]) \in Record /\ Claimed(record[e]).status # "DELIVERED"
        /\ Claimed(record[e]).attempts >= record[e].attempts
    BY <1>1, ClaimedFields
  <1>7. Delivered(record[e]) \in Record /\ Delivered(record[e]).attempts >= record[e].attempts
    BY <1>1, DeliveredFields, RecordFields
  <1>8. d.step = "reschedule" =>
            retry \in Record /\ retry.attempts >= record[e].attempts /\ retry.status # "DELIVERED"
    <2>1. d.step = "reschedule" => d.attempts \in 1 .. MaxAttempts
      BY <1>1, SettingsType DEF Honest
    <2> QED
      BY <1>1, <2>1, RescheduledFields, RecordFields
  <1>9. d.step = "ack" => e \in log
    BY <1>1 DEF Honest
  <1> HIDE DEF d, e, after, retry
  <1>10. CASE Turn(x, after) /\ UNCHANGED <<record, log>>
    BY <1>1, <1>2, <1>10, TurnKeeps
  <1>11. CASE record[e] = Absent /\ Write(x, after, e, Pending) /\ UNCHANGED log
    BY <1>1, <1>2, <1>5, <1>11, WriteKeeps
  <1>12. CASE Write(x, after, e, Claimed(record[e])) /\ UNCHANGED log
    BY <1>1, <1>2, <1>6, <1>12, WriteKeeps
  <1>13. CASE log' = log \cup {e} /\ Turn(x, after) /\ UNCHANGED record
    BY <1>1, <1>2, <1>13, TurnKeeps
  <1>14. CASE /\ d.step = "ack" /\ Write(x, [after EXCEPT !.current = FALSE], e, Delivered(record[e]))
              /\ UNCHANGED log
    BY <1>1, <1>3, <1>7, <1>9, <1>14, WriteKeeps
  <1>15. CASE d.step = "reschedule" /\ Write(x, after, e, retry) /\ UNCHANGED log
    BY <1>1, <1>2, <1>8, <1>15, WriteKeeps
  <1> QED
    BY <1>4, <1>10, <1>11, <1>12, <1>13, <1>14, <1>15

LEMMA CrashKeeps == ASSUME IInv, NEW x \in Deliverers, Crash(x) PROVE IInv'
  <1>1. Turn(x, Idle) /\ UNCHANGED <<record, log>> /\ faults' \in 0 .. MaxFaults /\ log \subseteq Events
    BY SettingsType DEF Crash, IInv, TypeOK
  <1> QED
    BY <1>1, IdleHonest, TurnKeeps

LEMMA TickKeeps == ASSUME IInv, Tick PROVE IInv'
  <1>1. ASSUME NEW e \in Events
        PROVE  /\ record'[e] \in Record /\ record'[e].status = record[e].status
               /\ record'[e].attempts = record[e].attempts
    <2> DEFINE r == record[e]
               w == Passed(r.wait)
               l == Passed(r.lease)
    <2>1. r \in Record
      BY DEF IInv, TypeOK
    <2>2. record'[e] = [r EXCEPT !.wait = w, !.lease = l]
      BY <2>1 DEF Tick, Record
    <2>3. w \in 0 .. MaxDelay /\ l \in 0 .. Lease
      BY <2>1, RecordFields, SettingsType DEF Passed
    <2> HIDE DEF r, w, l
    <2>4. record'[e] \in Record
      BY <2>1, <2>2, <2>3 DEF Record
    <2> QED
      BY <2>1, <2>2, <2>4 DEF Record, r
  <1>2. record' = [e \in Events |-> record'[e]]
    BY DEF Tick
  <1>3. record' \in [Events -> Record]
    BY <1>1, <1>2
  <1>5. UNCHANGED <<log, deliverer>> /\ faults' \in 0 .. MaxFaults
    <2>1. CASE Lapsing
      <3>1. faults \in 0 .. MaxFaults /\ faults < MaxFaults /\ faults' = faults + 1 /\ UNCHANGED <<log, deliverer>>
        BY <2>1 DEF Tick, IInv, TypeOK
      <3>2. MaxFaults \in Nat
        BY SettingsType
      <3> QED
        BY <3>1, <3>2
    <2>2. CASE ~Lapsing
      BY <2>2 DEF Tick, IInv, TypeOK
    <2> QED
      BY <2>1, <2>2 DEF Tick
  <1>4. \A x \in Deliverers : Honest(deliverer[x], record', log)
    BY <1>1 DEF IInv, Honest
  <1> QED
    BY <1>1, <1>3, <1>4, <1>5 DEF IInv, TypeOK, DeliveredIsPublished

-----------------------------------------------------------------------------
\* Theorems

LEMMA InvariantInit == Init => IInv
  <1> SUFFICES ASSUME Init PROVE IInv
    OBVIOUS
  <1>1. Idle \in Deliverer /\ Honest(Idle, record, log)
    BY IdleHonest DEF Honest
  <1>2. TypeOK
    BY <1>1, AbsentType, SettingsType DEF Init, TypeOK
  <1>3. DeliveredIsPublished
    BY DEF Init, DeliveredIsPublished, Absent
  <1> QED
    BY <1>1, <1>2, <1>3 DEF Init, IInv

LEMMA InvariantNext == IInv /\ [Next]_vars => IInv'
  <1> SUFFICES ASSUME IInv, [Next]_vars PROVE IInv'
    OBVIOUS
  <1>1. Requests \subseteq Deliverers /\ Workers \subseteq Deliverers
    BY DEF Deliverers
  <1>2. ASSUME NEW x \in Requests, NEW e \in Events,
               CommitEmbedded(x, e) \/ Ensure(x, e) \/ RecordStatusCheck(x, e)
        PROVE  IInv'
    BY <1>2, RequestKeeps
  <1>3. ASSUME NEW x \in Requests, Enqueue(x) \/ Deliver(x) PROVE IInv'
    BY <1>1, <1>3, EnqueueKeeps, DeliverKeeps
  <1>4. ASSUME NEW w \in Workers, Work(w) PROVE IInv'
    BY <1>1, <1>4, PollKeeps, NextOfBatchKeeps, DeliverKeeps DEF Work
  <1>5. ASSUME NEW x \in Deliverers, Error(x) \/ Crash(x) PROVE IInv'
    BY <1>5, ErrorKeeps, CrashKeeps
  <1>6. CASE UNCHANGED vars
    BY <1>6 DEF vars, IInv, TypeOK, Honest, DeliveredIsPublished
  <1> QED
    BY <1>2, <1>3, <1>4, <1>5, <1>6, TickKeeps DEF Next

\* The inductive invariant holds in every state: a deliverer works on an event, its claim
\* counted an attempt, and it acknowledges only what is in the audit log.
THEOREM Invariant == Spec => []IInv
  BY InvariantInit, InvariantNext, PTL DEF Spec

\* Records and deliverers keep their types, for any number of events and deliverers, any
\* lease and any back-off: no wait outlasts the longest back-off.
THEOREM TypeCorrect == Spec => []TypeOK
  <1>1. IInv => TypeOK
    BY DEF IInv
  <1> QED
    BY <1>1, Invariant, PTL

\* What counts as delivered is in the audit log, whoever else holds the same claim, and
\* whatever access failed or process died in between.
THEOREM DeliveryIsTrue == Spec => []DeliveredIsPublished
  <1>1. IInv => DeliveredIsPublished
    BY DEF IInv
  <1> QED
    BY <1>1, Invariant, PTL
=============================================================================
