--------------------------- MODULE RecoveryProofs ---------------------------
(***************************************************************************)
(* Machine-checked proofs about Recovery, for every value of its           *)
(* constants.                                                              *)
(***************************************************************************)
EXTENDS RecoveryRefinement, FiniteSetTheorems, TLAPS

-----------------------------------------------------------------------------
(* Types *)

LEMMA TermsType ==
    ASSUME NEW t \in PolicyTerms
    PROVE  /\ t.minimum \in Nat \ {0} /\ t.window \in Nat \ {0}
           /\ t.timelock \in Nat /\ t.expiration \in Nat
           /\ t.attempts \in Nat \ {0} /\ t.cooldown \in Nat
    BY ConstantsAssumption DEF ValidTerms

LEMMA MovedType ==
    ASSUME NEW q \in RequestDoc, NEW s \in RecoveryState, NEW at \in Nat
    PROVE  Moved(q, s, at) \in RequestDoc
<1>1. q.version \in Nat
    BY DEF RequestDoc
<1>2. q.version + 1 \in Nat
    BY <1>1
<1>. QED  BY <1>2 DEF Moved, RequestDoc

LEMMA LockedType ==
    ASSUME NEW q \in RequestDoc, NEW at \in Nat
    PROVE  Locked(q, at) \in RequestDoc
<1>1. q.terms \in PolicyTerms /\ q.quorumAt \in Nat
    BY DEF RequestDoc
<1>2. q.quorumAt + q.terms.timelock \in Nat
    BY <1>1, TermsType
<1>3. [q EXCEPT !.executableAfter = q.quorumAt + q.terms.timelock] \in RequestDoc
    BY <1>2 DEF RequestDoc
<1>. QED  BY <1>3, MovedType DEF Locked, RecoveryState, Active

LEMMA NoRequestType == NoRequest \in RequestDoc
    BY ConstantsAssumption DEF NoRequest, RequestDoc, RecoveryState, Unset

LEMMA ReconciledType ==
    ASSUME NEW q \in RequestDoc, NEW at \in Nat
    PROVE  Reconciled(q, at) \in RequestDoc
<1>1. [q EXCEPT !.lease = Unset] \in RequestDoc
    BY DEF RequestDoc, Unset
<1>. QED
    BY <1>1, MovedType, LockedType
    DEF Reconciled, RecoveryState, Active, Terminal

LEMMA QuorumOutcomeType ==
    ASSUME NEW s, s.doc \in RequestDoc, s.approvals \subseteq Guardians, s.at \in Nat
    PROVE  QuorumOutcome(s) \in RequestDoc
<1> DEFINE q == [s.doc EXCEPT !.quorum = s.approvals]
<1>1. q \in RequestDoc
    BY DEF RequestDoc
<1>2. [q EXCEPT !.quorumAt = s.at] \in RequestDoc
    BY <1>1 DEF RequestDoc
<1> HIDE DEF q
<1>3. /\ Moved([q EXCEPT !.quorumAt = s.at], "QUORUM_REACHED", s.at) \in RequestDoc
      /\ Moved(q, "REJECTED", s.at) \in RequestDoc
      /\ Moved(q, "PENDING_APPROVALS", s.at) \in RequestDoc
    BY <1>1, <1>2, MovedType DEF RecoveryState, Active, Terminal
<1>. QED  BY <1>3 DEF QuorumOutcome, q, Reached, Reachable

LEMMA TypeInit == Init => TypeOK
    BY NoRequestType, ConstantsAssumption
    DEF Init, TypeOK, GuardianDoc, GuardianStatus, PolicyDoc, Choices, IdleDecider,
        NoCall, IdleWorker, DeciderState, CallState, WorkerState

\* What the type of a process says at each of its steps.
LEMMA DeciderType ==
    ASSUME NEW s \in DeciderState
    PROVE  /\ s.pc = "late" => s.id \in Requests /\ s.doc \in RequestDoc /\ s.at \in Nat
           /\ s.pc = "record" => /\ s.id \in Requests /\ s.guardian \in Guardians
                                 /\ s.choice \in Choices /\ s.at \in Nat
           /\ s.pc = "count" => /\ s.id \in Requests /\ s.guardian \in Guardians
                                /\ s.at \in Nat /\ s.tries \in Nat
           /\ s.pc = "decide" => /\ s.id \in Requests /\ s.guardian \in Guardians
                                 /\ s.at \in Nat /\ s.tries \in Nat /\ s.doc \in RequestDoc
                                 /\ s.approvals \subseteq Guardians
                                 /\ s.rejections \subseteq Guardians
           /\ s.pc = "lock" => /\ s.id \in Requests /\ s.guardian \in Guardians
                               /\ s.at \in Nat /\ s.tries \in Nat /\ s.doc \in RequestDoc
    BY DEF DeciderState

LEMMA CallType ==
    ASSUME NEW c \in CallState
    PROVE  /\ c.op = "enrol" => c.guardian \in Guardians
           /\ c.op = "update" => /\ c.guardian \in Guardians
                                 /\ c.target \in GuardianStatus /\ c.version \in Nat
           /\ c.op = "policy" => c.terms \in PolicyTerms /\ c.version \in Nat
           /\ c.op = "default" => c.id \in Requests
           /\ c.op = "putDefault" => c.id \in Requests /\ c.version \in Nat
           /\ c.op = "snapshot" => c.id \in Requests /\ c.policy \in PolicyDoc
           /\ c.op = "shares" => /\ c.id \in Requests /\ c.doc \in RequestDoc
                                 /\ c.left \subseteq Guardians
                                 /\ c \in [op : {"shares"}, id : Requests, doc : RequestDoc,
                                           left : SUBSET Guardians]
           /\ c.op = "cancel" => c.id \in Requests /\ c.doc \in RequestDoc /\ c.at \in Nat
    BY DEF CallState

LEMMA WorkerType ==
    ASSUME NEW s \in WorkerState, s.pc # "idle"
    PROVE  /\ s.id \in Requests /\ s.doc \in RequestDoc /\ s.at \in Nat
           /\ s.pc = "failing" => s.retryable \in BOOLEAN
           /\ s.pc # "failing" =>
                s \in [pc : {"loaded", "ready", "claimed", "combined", "rotated"},
                       id : Requests, doc : RequestDoc, at : Nat]
    BY DEF WorkerState

LEMMA TypeDecider ==
    ASSUME TypeOK, NEW d \in Deciders
    PROVE  /\ DeciderStep(d) => TypeOK'
           /\ \A r \in Requests, g \in Guardians, c \in Choices :
                 BeginDecision(d, r, g, c) => TypeOK'
<1> DEFINE s == decider[d]
<1>0. s \in DeciderState /\ IdleDecider \in DeciderState
    BY DEF TypeOK, IdleDecider, DeciderState
<1>1. ASSUME NEW x \in DeciderState, DecideAs(d, x)
      PROVE  decider' \in [Deciders -> DeciderState]
    BY <1>1 DEF DecideAs, TypeOK
<1>2. ASSUME NEW r \in Requests, NEW q \in RequestDoc, Store(r, q)
      PROVE  request' \in [Requests -> RequestDoc]
    BY <1>2 DEF Store, TypeOK
<1>3. ASSUME s.pc \in {"decide", "lock"}, RetryOrGiveUp(d, s)
      PROVE  decider' \in [Deciders -> DeciderState]
  <2>1. s.tries + 1 \in Nat /\ s.id \in Requests /\ s.guardian \in Guardians /\ s.at \in Nat
      BY <1>0, <1>3, DeciderType
  <2>2. [pc |-> "count", id |-> s.id, guardian |-> s.guardian,
         at |-> s.at, tries |-> s.tries + 1] \in DeciderState
      BY <2>1 DEF DeciderState
  <2>. QED  BY <1>0, <1>1, <1>3, <2>2 DEF RetryOrGiveUp
<1>4. ASSUME NEW r \in Requests, NEW g \in Guardians, NEW c \in Choices,
             BeginDecision(d, r, g, c)
      PROVE  TypeOK'
  <2>1. /\ [pc |-> "late", id |-> r, doc |-> request[r], at |-> clock] \in DeciderState
        /\ [pc |-> "record", id |-> r, guardian |-> g, choice |-> c, at |-> clock]
              \in DeciderState
      BY DEF TypeOK, DeciderState
  <2>2. decider' \in [Deciders -> DeciderState]
      BY <1>1, <1>4, <2>1 DEF BeginDecision
  <2>. QED  BY <1>4, <2>2 DEF BeginDecision, store, TypeOK
<1>5. CASE ExpireLate(d)
  <2>1. /\ decider' \in [Deciders -> DeciderState]
        /\ s.id \in Requests /\ Moved(s.doc, "EXPIRED", s.at) \in RequestDoc
      BY <1>0, <1>1, <1>5, DeciderType, MovedType
      DEF ExpireLate, RecoveryState, Terminal
  <2>2. request' \in [Requests -> RequestDoc]
      BY <1>2, <1>5, <2>1 DEF ExpireLate, TypeOK
  <2>. QED  BY <1>5, <2>1, <2>2 DEF ExpireLate, TypeOK
<1>6. CASE RecordDecision(d)
  <2>1. s.id \in Requests /\ s.guardian \in Guardians /\ s.choice \in Choices /\ s.at \in Nat
      BY <1>0, <1>6, DeciderType DEF RecordDecision, Acceptance
  <2>2. [pc |-> "count", id |-> s.id, guardian |-> s.guardian, at |-> s.at, tries |-> 0]
            \in DeciderState
      BY <2>1 DEF DeciderState
  <2>3. decider' \in [Deciders -> DeciderState]
      BY <1>0, <1>1, <1>6, <2>2 DEF RecordDecision, Acceptance
  <2>4. approval' \in [Requests -> [Guardians -> Choices \cup {"NONE"}]]
      BY <1>6, <2>1 DEF RecordDecision, TypeOK, Acceptance
  <2>. QED  BY <1>6, <2>3, <2>4 DEF RecordDecision, TypeOK, Acceptance
<1>7. CASE CountDecisions(d)
  <2>1. s.id \in Requests /\ s.guardian \in Guardians /\ s.at \in Nat /\ s.tries \in Nat
      BY <1>0, <1>7, DeciderType DEF CountDecisions
  <2>2. /\ Counted(s.id, "APPROVE") \subseteq Guardians
        /\ Counted(s.id, "REJECT") \subseteq Guardians
      BY DEF Counted, ActiveGuardians, StillActive
  <2>3. [pc |-> "decide", id |-> s.id, guardian |-> s.guardian, at |-> s.at,
         tries |-> s.tries, doc |-> request[s.id], approvals |-> Counted(s.id, "APPROVE"),
         rejections |-> Counted(s.id, "REJECT")] \in DeciderState
      BY <2>1, <2>2 DEF DeciderState, TypeOK
  <2>4. decider' \in [Deciders -> DeciderState]
      BY <1>0, <1>1, <1>7, <2>3 DEF CountDecisions
  <2>. QED  BY <1>7, <2>4 DEF CountDecisions, store, TypeOK
<1>8. CASE StoreQuorum(d)
  <2>1. /\ s.id \in Requests /\ s.guardian \in Guardians /\ s.at \in Nat /\ s.tries \in Nat
        /\ s.doc \in RequestDoc /\ s.approvals \subseteq Guardians
      BY <1>0, <1>8, DeciderType DEF StoreQuorum
  <2>2. QuorumOutcome(s) \in RequestDoc
      BY <2>1, QuorumOutcomeType
  <2>3. [pc |-> "lock", id |-> s.id, guardian |-> s.guardian, at |-> s.at,
         tries |-> s.tries, doc |-> QuorumOutcome(s)] \in DeciderState
      BY <2>1, <2>2 DEF DeciderState
  <2>4. request' \in [Requests -> RequestDoc]
      BY <1>2, <1>8, <2>1, <2>2 DEF StoreQuorum, TypeOK
  <2>5. decider' \in [Deciders -> DeciderState]
      BY <1>0, <1>1, <1>3, <1>8, <2>3 DEF StoreQuorum
  <2>. QED  BY <1>8, <2>4, <2>5 DEF StoreQuorum, TypeOK
<1>9. CASE StartTimelock(d)
  <2>1. s.id \in Requests /\ s.at \in Nat /\ s.doc \in RequestDoc
      BY <1>0, <1>9, DeciderType DEF StartTimelock
  <2>2. request' \in [Requests -> RequestDoc]
      BY <1>2, <1>9, <2>1, LockedType DEF StartTimelock, TypeOK
  <2>3. decider' \in [Deciders -> DeciderState]
      BY <1>0, <1>1, <1>3, <1>9 DEF StartTimelock
  <2>. QED  BY <1>9, <2>2, <2>3 DEF StartTimelock, TypeOK
<1>. QED  BY <1>4, <1>5, <1>6, <1>7, <1>8, <1>9 DEF DeciderStep

LEMMA NewRequestType ==
    ASSUME TypeOK, NEW p \in PolicyDoc, NEW team \in SUBSET Guardians
    PROVE  NewRequest(p, team) \in RequestDoc
<1>1. /\ p.terms \in PolicyTerms /\ p.version \in Nat
      /\ clock + p.terms.window \in Nat /\ clock + p.terms.expiration \in Nat
      /\ clock \in Nat
    BY TermsType DEF PolicyDoc, TypeOK
<1>. QED
    BY <1>1, NoRequestType DEF NewRequest, RequestDoc, RecoveryState, Active

LEMMA TypeOwnerBegin ==
    ASSUME TypeOK, NEW o \in Owners, OwnerBegin(o)
    PROVE  TypeOK'
<1>1. ASSUME NEW c \in CallState, CallAs(o, c),
             UNCHANGED <<clock, store, rotated, decider, worker, crashes>>
      PROVE  TypeOK'
    BY <1>1 DEF CallAs, store, TypeOK
<1>2. ASSUME NEW g \in Guardians, BeginEnrol(o, g)
      PROVE  TypeOK'
  <2>1. [op |-> "enrol", guardian |-> g] \in CallState
      BY DEF CallState
  <2>. QED  BY <1>1, <1>2, <2>1 DEF BeginEnrol
<1>3. ASSUME NEW g \in Guardians, NEW s \in GuardianStatus, BeginUpdateGuardian(o, g, s)
      PROVE  TypeOK'
  <2>1. [op |-> "update", guardian |-> g, target |-> s, version |-> guardian[g].version]
            \in CallState
      BY DEF CallState, TypeOK, GuardianDoc
  <2>. QED  BY <1>1, <1>3, <2>1 DEF BeginUpdateGuardian
<1>4. ASSUME NEW t \in PolicyTerms, BeginPutPolicy(o, t)
      PROVE  TypeOK'
  <2>1. [op |-> "policy", terms |-> t, version |-> policy.version] \in CallState
      BY DEF CallState, TypeOK, PolicyDoc
  <2>. QED  BY <1>1, <1>4, <2>1 DEF BeginPutPolicy
<1>5. ASSUME NEW r \in Requests, BeginCreate(o, r)
      PROVE  TypeOK'
  <2>1. /\ [op |-> "snapshot", id |-> r, policy |-> policy] \in CallState
        /\ [op |-> "default", id |-> r] \in CallState
      BY DEF CallState, TypeOK
  <2>. QED  BY <1>1, <1>5, <2>1 DEF BeginCreate
<1>6. ASSUME NEW r \in Requests, BeginCancel(o, r)
      PROVE  TypeOK'
  <2>1. [op |-> "cancel", id |-> r, doc |-> request[r], at |-> clock] \in CallState
      BY DEF CallState, TypeOK
  <2>. QED  BY <1>1, <1>6, <2>1 DEF BeginCancel
<1>. QED  BY <1>2, <1>3, <1>4, <1>5, <1>6 DEF OwnerBegin

LEMMA TypeOwnerStep ==
    ASSUME TypeOK, NEW o \in Owners, OwnerStep(o)
    PROVE  TypeOK'
<1> DEFINE c == call[o]
<1>0. c \in CallState /\ NoCall \in CallState
    BY DEF TypeOK, NoCall, CallState
<1>1. ASSUME NEW x \in CallState, CallAs(o, x)
      PROVE  call' \in [Owners -> CallState]
    BY <1>1 DEF CallAs, TypeOK
<1>2. ASSUME NEW r \in Requests, NEW q \in RequestDoc, Store(r, q)
      PROVE  request' \in [Requests -> RequestDoc]
    BY <1>2 DEF Store, TypeOK
<1>3. CASE Enrol(o)
  <2>1. c.guardian \in Guardians
      BY <1>0, <1>3, CallType DEF Enrol
  <2>2. guardian' \in [Guardians -> GuardianDoc]
      BY <1>3, <2>1 DEF Enrol, TypeOK, GuardianDoc, GuardianStatus
  <2>3. call' \in [Owners -> CallState]
      BY <1>0, <1>1, <1>3 DEF Enrol
  <2>. QED  BY <1>3, <2>2, <2>3 DEF Enrol, TypeOK
<1>4. CASE UpdateGuardian(o)
  <2>1. c.guardian \in Guardians /\ c.target \in GuardianStatus /\ c.version + 1 \in Nat
      BY <1>0, <1>4, CallType DEF UpdateGuardian, GuardianUnchanged
  <2>2. guardian' \in [Guardians -> GuardianDoc]
      BY <1>4, <2>1 DEF UpdateGuardian, TypeOK, GuardianDoc, GuardianUnchanged
  <2>3. call' \in [Owners -> CallState]
      BY <1>0, <1>1, <1>4 DEF UpdateGuardian, GuardianUnchanged
  <2>. QED  BY <1>4, <2>2, <2>3 DEF UpdateGuardian, TypeOK, GuardianUnchanged
<1>5. CASE PutPolicy(o)
  <2>1. c.terms \in PolicyTerms /\ c.version + 1 \in Nat
      BY <1>0, <1>5, CallType DEF PutPolicy, PolicyUnchanged
  <2>2. policy' \in PolicyDoc
      BY <1>5, <2>1 DEF PutPolicy, TypeOK, PolicyDoc, PolicyUnchanged
  <2>3. call' \in [Owners -> CallState]
      BY <1>0, <1>1, <1>5 DEF PutPolicy, PolicyUnchanged
  <2>. QED  BY <1>5, <2>2, <2>3 DEF PutPolicy, TypeOK, PolicyUnchanged
<1>6. CASE CreateDefaultPolicy(o)
  <2> DEFINE default == [version |-> c.version + 1, terms |-> DefaultTerms]
  <2>1. c.id \in Requests /\ default \in PolicyDoc
      BY <1>0, <1>6, CallType, ConstantsAssumption DEF CreateDefaultPolicy, PolicyDoc
  <2>2. [op |-> "snapshot", id |-> c.id, policy |-> default] \in CallState
      BY <2>1 DEF CallState
  <2>3. call' \in [Owners -> CallState]
      BY <1>0, <1>1, <1>6, <2>2 DEF CreateDefaultPolicy, PolicyUnchanged
  <2>4. policy' \in PolicyDoc
      BY <1>6, <2>1 DEF CreateDefaultPolicy, TypeOK, PolicyUnchanged
  <2>. QED  BY <1>6, <2>3, <2>4 DEF CreateDefaultPolicy, TypeOK, PolicyUnchanged
<1>7. CASE SnapshotPolicy(o)
  <2>1. c.id \in Requests /\ c.policy \in PolicyDoc
      BY <1>0, <1>7, CallType DEF SnapshotPolicy, Snapshotable
  <2>2. ActiveGuardians \subseteq Guardians
      BY DEF ActiveGuardians
  <2>3. [op |-> "shares", id |-> c.id, doc |-> NewRequest(c.policy, ActiveGuardians),
         left |-> ActiveGuardians] \in CallState
      BY <2>1, <2>2, NewRequestType DEF CallState
  <2>4. call' \in [Owners -> CallState]
      BY <1>0, <1>1, <1>7, <2>3 DEF SnapshotPolicy, Snapshotable
  <2>. QED  BY <1>7, <2>4 DEF SnapshotPolicy, store, TypeOK, Snapshotable
<1>8. CASE SaveShare(o)
  <2>1. /\ c.id \in Requests /\ c.doc \in RequestDoc
        /\ c \in [op : {"shares"}, id : Requests, doc : RequestDoc, left : SUBSET Guardians]
      BY <1>0, <1>8, CallType DEF SaveShare, Sealed
  <2>2. ASSUME NEW g \in Guardians
        PROVE  /\ [c EXCEPT !.left = @ \ {g}] \in CallState
               /\ [policyVersion |-> c.doc.policyVersion, guardian |-> g,
                   request |-> c.id] \in ShareDoc
      BY <2>1 DEF CallState, ShareDoc, RequestDoc
  <2>3. call' \in [Owners -> CallState]
      BY <1>0, <1>1, <1>8, <2>2 DEF SaveShare, ShareConflict, Sealed
  <2>4. shares' \subseteq ShareDoc
      BY <1>8, <2>2 DEF SaveShare, TypeOK, Sealed
  <2>. QED  BY <1>8, <2>3, <2>4 DEF SaveShare, TypeOK, Sealed
<1>9. CASE AddRequest(o)
  <2>1. c.id \in Requests /\ c.doc \in RequestDoc
      BY <1>0, <1>9, CallType DEF AddRequest
  <2>2. request' \in [Requests -> RequestDoc]
      BY <1>2, <1>9, <2>1 DEF AddRequest, TypeOK
  <2>3. call' \in [Owners -> CallState]
      BY <1>0, <1>1, <1>9 DEF AddRequest
  <2>. QED  BY <1>9, <2>2, <2>3 DEF AddRequest, TypeOK
<1>10. CASE Cancel(o)
  <2>1. c.id \in Requests /\ Moved(c.doc, "CANCELLED", c.at) \in RequestDoc
      BY <1>0, <1>10, CallType, MovedType DEF Cancel, RecoveryState, Terminal
  <2>2. request' \in [Requests -> RequestDoc]
      BY <1>2, <1>10, <2>1 DEF Cancel, TypeOK
  <2>3. call' \in [Owners -> CallState]
      BY <1>0, <1>1, <1>10 DEF Cancel
  <2>. QED  BY <1>10, <2>2, <2>3 DEF Cancel, TypeOK
<1>11. CASE BeginDefaultPolicy(o)
  <2>1. [op |-> "putDefault", id |-> c.id, version |-> policy.version] \in CallState
      BY <1>0, <1>11, CallType DEF BeginDefaultPolicy, CallState, TypeOK, PolicyDoc
  <2>2. call' \in [Owners -> CallState]
      BY <1>0, <1>1, <1>11, <2>1 DEF BeginDefaultPolicy
  <2>. QED  BY <1>11, <2>2 DEF BeginDefaultPolicy, store, TypeOK
<1>. QED
    BY <1>3, <1>4, <1>5, <1>6, <1>7, <1>8, <1>9, <1>10, <1>11 DEF OwnerStep

LEMMA TypeWorker ==
    ASSUME TypeOK, NEW w \in Workers
    PROVE  /\ WorkerStep(w) \/ ExecutionError(w) => TypeOK'
           /\ \A r \in Requests : Load(w, r) => TypeOK'
<1> DEFINE s == worker[w]
<1>0. s \in WorkerState /\ IdleWorker \in WorkerState
    BY DEF TypeOK, IdleWorker, WorkerState
<1>1. ASSUME NEW x \in WorkerState, WorkAs(w, x)
      PROVE  worker' \in [Workers -> WorkerState]
    BY <1>1 DEF WorkAs, TypeOK
<1>2. ASSUME NEW r \in Requests, NEW q \in RequestDoc, Store(r, q)
      PROVE  request' \in [Requests -> RequestDoc]
    BY <1>2 DEF Store, TypeOK
<1>3. ASSUME s.pc # "idle"
      PROVE  /\ s.id \in Requests /\ s.doc \in RequestDoc /\ s.at \in Nat
             /\ Failing(s, TRUE) \in WorkerState /\ Failing(s, FALSE) \in WorkerState
             /\ s.pc # "failing" => /\ [s EXCEPT !.pc = "combined"] \in WorkerState
                                     /\ [s EXCEPT !.pc = "rotated"] \in WorkerState
  <2>1. s.id \in Requests /\ s.doc \in RequestDoc /\ s.at \in Nat
      BY <1>0, <1>3, WorkerType
  <2>2. Failing(s, TRUE) \in WorkerState /\ Failing(s, FALSE) \in WorkerState
      BY <2>1 DEF Failing, WorkerState
  <2>3. s.pc # "failing" => /\ [s EXCEPT !.pc = "combined"] \in WorkerState
                            /\ [s EXCEPT !.pc = "rotated"] \in WorkerState
      BY <1>0, <1>3, WorkerType DEF WorkerState
  <2>. QED  BY <2>1, <2>2, <2>3
<1>4. ASSUME NEW r \in Requests, Load(w, r)
      PROVE  TypeOK'
  <2>1. [pc |-> "loaded", id |-> r, doc |-> request[r], at |-> clock] \in WorkerState
      BY DEF TypeOK, WorkerState
  <2>2. worker' \in [Workers -> WorkerState]
      BY <1>1, <1>4, <2>1 DEF Load
  <2>. QED  BY <1>4, <2>2 DEF Load, store, TypeOK
<1>5. CASE Reconcile(w)
  <2> DEFINE q == Reconciled(s.doc, s.at)
  <2>1. s.id \in Requests /\ s.at \in Nat /\ q \in RequestDoc
      BY <1>3, <1>5, ReconciledType DEF Reconcile
  <2>2. [pc |-> "ready", id |-> s.id, doc |-> q, at |-> s.at] \in WorkerState
      BY <2>1 DEF WorkerState
  <2> HIDE DEF q
  <2>3. request' \in [Requests -> RequestDoc]
      BY <1>2, <1>5, <2>1 DEF Reconcile, TypeOK, q
  <2>4. worker' \in [Workers -> WorkerState]
      BY <1>0, <1>1, <1>5, <2>2 DEF Reconcile, q
  <2>. QED  BY <1>5, <2>3, <2>4 DEF Reconcile, TypeOK
<1>6. CASE Claim(w)
  <2> DEFINE held == [s.doc EXCEPT !.attempts = @ + 1, !.lease = clock + Lease]
             claimed == Moved(held, "EXECUTING", clock)
  <2>1. /\ s \in [pc : {"loaded", "ready", "claimed", "combined", "rotated"},
                   id : Requests, doc : RequestDoc, at : Nat]
        /\ s.id \in Requests /\ s.doc \in RequestDoc /\ s.at \in Nat
      BY <1>0, <1>6, WorkerType DEF Claim, Leased
  <2>2. s.doc.attempts \in Nat /\ clock \in Nat /\ clock + Lease \in Nat
      BY <2>1, ConstantsAssumption DEF RequestDoc, TypeOK
  <2>3. s.doc.attempts + 1 \in Nat
      BY <2>2
  <2>4. held \in RequestDoc
      BY <2>1, <2>2, <2>3 DEF RequestDoc
  <2> HIDE DEF held
  <2>5. claimed \in RequestDoc
      BY <2>2, <2>4, MovedType DEF RecoveryState, Active
  <2>6. [s EXCEPT !.pc = "claimed", !.doc = claimed] \in WorkerState
      BY <2>1, <2>5 DEF WorkerState
  <2> HIDE DEF claimed
  <2>7. request' \in [Requests -> RequestDoc]
      BY <1>2, <1>6, <2>1, <2>5 DEF Claim, TypeOK, claimed, held, Leased
  <2>8. worker' \in [Workers -> WorkerState]
      BY <1>0, <1>1, <1>6, <2>6 DEF Claim, claimed, held, Leased
  <2>. QED  BY <1>6, <2>7, <2>8 DEF Claim, TypeOK, Leased
<1>7. CASE CombineShares(w)
  <2>1. worker' \in [Workers -> WorkerState]
      BY <1>1, <1>3, <1>7 DEF CombineShares
  <2>. QED  BY <1>7, <2>1 DEF CombineShares, store, TypeOK
<1>8. CASE RotateKey(w)
  <2>1. worker' \in [Workers -> WorkerState] /\ rotated' \subseteq Requests
      BY <1>1, <1>3, <1>8 DEF RotateKey, TypeOK
  <2>. QED  BY <1>8, <2>1 DEF RotateKey, store, TypeOK
<1>9. CASE ExecutionError(w)
  <2>1. worker' \in [Workers -> WorkerState] /\ rotated' \subseteq Requests
      BY <1>1, <1>3, <1>9 DEF ExecutionError, TypeOK, RotationError, StoreError
  <2>. QED  BY <1>9, <2>1 DEF ExecutionError, store, TypeOK, RotationError, StoreError
<1>10. ASSUME s.pc # "idle", NEW t \in RecoveryState
       PROVE  Moved([s.doc EXCEPT !.lease = Unset], t, clock) \in RequestDoc
  <2>1. [s.doc EXCEPT !.lease = Unset] \in RequestDoc
      BY <1>3, <1>10 DEF RequestDoc, Unset
  <2>. QED  BY <2>1, MovedType DEF TypeOK
<1>11. CASE Complete(w)
  <2>1. /\ s.id \in Requests
        /\ Moved([s.doc EXCEPT !.lease = Unset], "COMPLETED", clock) \in RequestDoc
      BY <1>3, <1>10, <1>11 DEF Complete, RecoveryState, Terminal
  <2>2. request' \in [Requests -> RequestDoc]
      BY <1>2, <1>11, <2>1 DEF Complete, TypeOK
  <2>3. worker' \in [Workers -> WorkerState]
      BY <1>0, <1>1, <1>3, <1>11 DEF Complete
  <2>. QED  BY <1>11, <2>2, <2>3 DEF Complete, TypeOK
<1>12. CASE RecordFailure(w)
  <2>1. /\ s.id \in Requests
        /\ Moved([s.doc EXCEPT !.lease = Unset], "FAILED", clock) \in RequestDoc
        /\ Moved([s.doc EXCEPT !.lease = Unset], "RECONCILIATION_REQUIRED", clock)
              \in RequestDoc
      BY <1>3, <1>10, <1>12 DEF RecordFailure, RecoveryState, Terminal, Active
  <2>2. request' \in [Requests -> RequestDoc]
      BY <1>2, <1>12, <2>1 DEF RecordFailure, TypeOK
  <2>3. worker' \in [Workers -> WorkerState]
      BY <1>0, <1>1, <1>12 DEF RecordFailure
  <2>. QED  BY <1>12, <2>2, <2>3 DEF RecordFailure, TypeOK
<1>. QED
    BY <1>4, <1>5, <1>6, <1>7, <1>8, <1>9, <1>11, <1>12 DEF WorkerStep

LEMMA TypeEnvironment ==
    ASSUME TypeOK, Tick \/ Crash \/ UNCHANGED vars
    PROVE  TypeOK'
<1>1. CASE Tick
    BY <1>1 DEF Tick, store, processes, TypeOK
<1>2. CASE Crash
  <2>1. IdleDecider \in DeciderState /\ NoCall \in CallState /\ IdleWorker \in WorkerState
      BY DEF IdleDecider, DeciderState, NoCall, CallState, IdleWorker, WorkerState
  <2>. QED  BY <1>2, <2>1 DEF Crash, store, DecideAs, CallAs, WorkAs, TypeOK
<1>3. CASE UNCHANGED vars
    BY <1>3 DEF vars, TypeOK
<1>. QED  BY <1>1, <1>2, <1>3

\* Every reachable state has the type the code gives its documents and calls.
THEOREM TypeCorrect == Spec => []TypeOK
<1>1. TypeOK /\ [Next]_vars => TypeOK'
    BY TypeDecider, TypeOwnerBegin, TypeOwnerStep, TypeWorker, TypeEnvironment DEF Next,
        Approve, Reject, Choices
<1>. QED  BY <1>1, TypeInit, PTL DEF Spec

-----------------------------------------------------------------------------
(* The inductive invariant                                                 *)
(*                                                                         *)
(* A process acts on a copy of a request that it read some steps ago.  The *)
(* invariant says how such a copy relates to the stored document: it may   *)
(* be older, but a copy of the current version is the current document.    *)
(* With that, what a writer has checked on its copy holds of the document  *)
(* it replaces, and the facts about stored documents carry over.           *)

Approved == {"QUORUM_REACHED", "WAITING_TIMELOCK", "READY_FOR_EXECUTION",
             "EXECUTING", "RECONCILIATION_REQUIRED", "COMPLETED"}
Unlocked == {"READY_FOR_EXECUTION", "EXECUTING", "RECONCILIATION_REQUIRED", "COMPLETED"}
Unclaimed == {"ABSENT", "PENDING_APPROVALS", "QUORUM_REACHED", "WAITING_TIMELOCK",
              "REJECTED"}

\* What document q, of request r, records is true.
DocOK(r, q) ==
    /\ q.state = "ABSENT" => q = NoRequest
    /\ q.state \in Unclaimed => q.attempts = 0
    /\ q.state \in Approved \/ q.attempts > 0 =>
          /\ Cardinality({g \in q.guardians : approval[r][g] = "APPROVE"})
                >= q.terms.minimum
          /\ q.quorumAt < q.approvalExpires
          /\ q.quorumAt \in 1 .. clock
    /\ q.state \in Approved \ {"QUORUM_REACHED"} \/ q.attempts > 0 =>
          q.executableAfter = q.quorumAt + q.terms.timelock
    /\ q.state \in Unlocked \/ q.attempts > 0 => q.executableAfter <= clock
    /\ q.state = "COMPLETED" => r \in rotated

\* q is a copy of a request, which now is stored as p.
CopyOf(p, q) ==
    /\ q.state \in Active
    /\ p.state # "ABSENT"
    /\ q.version <= p.version
    /\ q.version = p.version => q = p
    /\ q.attempts <= p.attempts

DeciderOK(d) ==
    LET s == decider[d] IN
    /\ s.pc \in {"late", "decide", "lock"} => CopyOf(request[s.id], s.doc)
    /\ s.pc \in {"record", "count", "decide", "lock"} =>
          /\ request[s.id].state # "ABSENT"
          /\ s.at < request[s.id].approvalExpires
          /\ s.at \in 1 .. clock
    /\ s.pc = "decide" =>
          /\ s.doc.state = "PENDING_APPROVALS"
          /\ s.approvals \subseteq {g \in s.doc.guardians : approval[s.id][g] = "APPROVE"}
    /\ s.pc = "lock" => s.doc.state = "QUORUM_REACHED"

Creating == {"default", "putDefault", "snapshot", "shares"}

CallOK(o) ==
    LET c == call[o] IN
    /\ c.op \in Creating =>
          /\ request[c.id].state = "ABSENT"
          /\ \A p \in Owners \ {o} : call[p].op \in Creating => call[p].id # c.id
    /\ c.op = "shares" => /\ c.doc.state = "PENDING_APPROVALS"
                          /\ c.doc.version = 1 /\ c.doc.attempts = 0
                          /\ c.doc.quorumAt = Unset
    /\ c.op = "cancel" => /\ CopyOf(request[c.id], c.doc)
                          /\ c.doc.state \notin {"EXECUTING", "RECONCILIATION_REQUIRED"}

WorkerOK(w) ==
    LET s == worker[w] IN
    /\ s.pc # "idle" => CopyOf(request[s.id], s.doc) /\ s.at <= clock
    /\ s.pc = "ready" => s.doc.state = "READY_FOR_EXECUTION"
    /\ s.pc \in {"claimed", "combined", "rotated", "failing"} =>
          s.doc.state = "EXECUTING" /\ s.doc.attempts > 0
    /\ s.pc = "rotated" => s.id \in rotated

\* Nobody decides on a request before it is stored.
Undecided ==
    \A r \in Requests : request[r].state = "ABSENT" =>
        \A g \in Guardians : approval[r][g] = "NONE"

IInv ==
    /\ TypeOK
    /\ clock >= 1
    /\ Undecided
    /\ \A r \in Requests : DocOK(r, request[r])
    /\ \A d \in Deciders : DeciderOK(d)
    /\ \A o \in Owners : CallOK(o)
    /\ \A w \in Workers : WorkerOK(w)
    /\ \A r \in rotated : request[r].attempts > 0
    /\ OneActiveRequest

\* What a step does to the stored requests, seen from a process that holds a copy.
Successor(p, q) ==
    /\ q.version = p.version + 1
    /\ q.attempts >= p.attempts
    /\ q.state # "ABSENT"
    /\ \/ /\ p = NoRequest
          /\ q.state = "PENDING_APPROVALS"
          /\ q.attempts = 0
          /\ q.quorumAt = Unset
       \/ /\ p.state \in Active
          /\ q.terms = p.terms
          /\ q.guardians = p.guardians
          /\ q.approvalExpires = p.approvalExpires
          /\ q.policyVersion = p.policyVersion
          /\ q.state \in Transitions[p.state] \cup {p.state}
          /\ \/ q.quorumAt = p.quorumAt
             \/ p.state = "PENDING_APPROVALS" /\ q.state = "QUORUM_REACHED"
          /\ \/ q.attempts = p.attempts
             \/ p.state = "READY_FOR_EXECUTION" /\ q.state = "EXECUTING"

Grows ==
    /\ clock <= clock'
    /\ rotated \subseteq rotated'
    /\ \A r \in Requests, g \in Guardians :
          approval[r][g] = "APPROVE" => approval'[r][g] = "APPROVE"
    /\ \A r \in Requests :
          request'[r] = request[r] \/ Successor(request[r], request'[r])

\* A step that writes a request writes n to r, which follows what was stored.
Writes(r, n) ==
    /\ Store(r, n)
    /\ Successor(request[r], n)
    /\ DocOK(r, n)
    /\ \/ request[r].state \in Active
       \/ \E o \in Owners : AddRequest(o) /\ call[o].id = r /\ ~ActiveRequestExists
    /\ UNCHANGED <<clock, approval, rotated>>

LEMMA CopyKept ==
    ASSUME NEW p \in RequestDoc, NEW n \in RequestDoc, NEW q \in RequestDoc,
           Successor(p, n), CopyOf(p, q)
    PROVE  CopyOf(n, q)
<1>1. p # NoRequest
    BY DEF CopyOf, NoRequest
<1>2. /\ p.version \in Nat /\ q.version \in Nat /\ n.version = p.version + 1
      /\ p.attempts \in Nat /\ q.attempts \in Nat /\ n.attempts \in Nat
      /\ n.attempts >= p.attempts
    BY DEF RequestDoc, Successor
<1>3. q.version <= p.version /\ q.attempts <= p.attempts
    BY DEF CopyOf
<1>4. q.version < n.version /\ q.version # n.version /\ q.attempts <= n.attempts
    BY <1>2, <1>3
<1>. QED  BY <1>2, <1>4 DEF CopyOf, Successor

\* The documents that the writers store follow the one they have read.
LEMMA MovedFields ==
    ASSUME NEW q \in RequestDoc, NEW s \in RecoveryState, NEW at \in Nat
    PROVE  LET n == Moved(q, s, at) IN
           /\ n.state = s /\ n.version = q.version + 1 /\ n.terms = q.terms
           /\ n.guardians = q.guardians /\ n.approvalExpires = q.approvalExpires
           /\ n.policyVersion = q.policyVersion
           /\ n.quorum = q.quorum /\ n.quorumAt = q.quorumAt
           /\ n.executableAfter = q.executableAfter /\ n.attempts = q.attempts
    BY DEF Moved, RequestDoc

LEMMA LockedFields ==
    ASSUME NEW q \in RequestDoc, NEW at \in Nat
    PROVE  LET n == Locked(q, at) IN
           /\ n.state = "WAITING_TIMELOCK" /\ n.version = q.version + 1
           /\ n.terms = q.terms /\ n.guardians = q.guardians
           /\ n.approvalExpires = q.approvalExpires /\ n.quorumAt = q.quorumAt
           /\ n.policyVersion = q.policyVersion
           /\ n.executableAfter = q.quorumAt + q.terms.timelock
           /\ n.attempts = q.attempts
    BY DEF Locked, Moved, RequestDoc

LEMMA LeaselessFields ==
    ASSUME NEW q \in RequestDoc
    PROVE  LET n == [q EXCEPT !.lease = Unset] IN
           /\ n \in RequestDoc
           /\ n.state = q.state /\ n.version = q.version /\ n.terms = q.terms
           /\ n.guardians = q.guardians /\ n.approvalExpires = q.approvalExpires
           /\ n.policyVersion = q.policyVersion
           /\ n.quorumAt = q.quorumAt /\ n.executableAfter = q.executableAfter
           /\ n.attempts = q.attempts
    BY DEF RequestDoc, Unset

LEMMA QuorumOutcomeFields ==
    ASSUME NEW s, s.doc \in RequestDoc, s.approvals \subseteq Guardians, s.at \in Nat
    PROVE  LET n == QuorumOutcome(s) IN
           /\ n.state \in {"QUORUM_REACHED", "REJECTED", "PENDING_APPROVALS"}
           /\ n.version = s.doc.version + 1 /\ n.terms = s.doc.terms
           /\ n.guardians = s.doc.guardians /\ n.attempts = s.doc.attempts
           /\ n.approvalExpires = s.doc.approvalExpires
           /\ n.policyVersion = s.doc.policyVersion
           /\ n.state = "QUORUM_REACHED" =>
                 /\ Cardinality(s.approvals) >= s.doc.terms.minimum
                 /\ n.quorumAt = s.at
           /\ n.state # "QUORUM_REACHED" => n.quorumAt = s.doc.quorumAt
<1> DEFINE q == [s.doc EXCEPT !.quorum = s.approvals]
           a == [q EXCEPT !.quorumAt = s.at]
<1>1. /\ q \in RequestDoc
      /\ q.version = s.doc.version /\ q.terms = s.doc.terms /\ q.attempts = s.doc.attempts
      /\ q.quorumAt = s.doc.quorumAt
      /\ q.guardians = s.doc.guardians /\ q.approvalExpires = s.doc.approvalExpires
      /\ q.policyVersion = s.doc.policyVersion
    BY DEF RequestDoc
<1> HIDE DEF q
<1>2. /\ a \in RequestDoc /\ a.quorumAt = s.at
      /\ a.version = q.version /\ a.terms = q.terms /\ a.attempts = q.attempts
      /\ a.guardians = q.guardians /\ a.approvalExpires = q.approvalExpires
      /\ a.policyVersion = q.policyVersion
    BY <1>1 DEF RequestDoc
<1> HIDE DEF a
<1>3. {"QUORUM_REACHED", "REJECTED", "PENDING_APPROVALS"} \subseteq RecoveryState
    BY DEF RecoveryState, Active, Terminal
<1>4. QuorumOutcome(s) =
        IF Cardinality(s.approvals) >= q.terms.minimum
          THEN Moved(a, "QUORUM_REACHED", s.at)
          ELSE IF Reachable(q, s.rejections)
                 THEN Moved(q, "PENDING_APPROVALS", s.at)
                 ELSE Moved(q, "REJECTED", s.at)
    BY DEF QuorumOutcome, q, a, Reached
<1>5. CASE Cardinality(s.approvals) >= q.terms.minimum
    BY <1>1, <1>2, <1>3, <1>4, <1>5, MovedFields
<1>6. CASE ~(Cardinality(s.approvals) >= q.terms.minimum)
    BY <1>1, <1>3, <1>4, <1>6, MovedFields
<1>. QED  BY <1>5, <1>6

LEMMA ReconciledFields ==
    ASSUME NEW q \in RequestDoc, NEW at \in Nat, q.state \in Active,
           Reconciled(q, at) # q
    PROVE  LET n == Reconciled(q, at) IN
           /\ n.version = q.version + 1 /\ n.terms = q.terms
           /\ n.guardians = q.guardians /\ n.approvalExpires = q.approvalExpires
           /\ n.policyVersion = q.policyVersion
           /\ n.quorumAt = q.quorumAt /\ n.attempts = q.attempts
           /\ \/ /\ n.state = "EXPIRED"
                 /\ n.executableAfter = q.executableAfter
              \/ /\ q.state = "QUORUM_REACHED" /\ n.state = "WAITING_TIMELOCK"
                 /\ n.executableAfter = q.quorumAt + q.terms.timelock
              \/ /\ q.state = "WAITING_TIMELOCK" /\ n.state = "READY_FOR_EXECUTION"
                 /\ at >= q.executableAfter
                 /\ n.executableAfter = q.executableAfter
              \/ /\ q.state = "EXECUTING" /\ n.state = "RECONCILIATION_REQUIRED"
                 /\ n.executableAfter = q.executableAfter
              \/ /\ q.state = "RECONCILIATION_REQUIRED" /\ n.state = "READY_FOR_EXECUTION"
                 /\ n.executableAfter = q.executableAfter
<1> DEFINE l == [q EXCEPT !.lease = Unset]
<1>1. /\ l \in RequestDoc /\ l.version = q.version /\ l.terms = q.terms
      /\ l.guardians = q.guardians /\ l.approvalExpires = q.approvalExpires
      /\ l.policyVersion = q.policyVersion
      /\ l.quorumAt = q.quorumAt /\ l.executableAfter = q.executableAfter
      /\ l.attempts = q.attempts
    BY LeaselessFields
<1> HIDE DEF l
<1>2. {"EXPIRED", "READY_FOR_EXECUTION", "RECONCILIATION_REQUIRED"} \subseteq RecoveryState
    BY DEF RecoveryState, Active, Terminal
<1>3. CASE Overdue(q, at)
  <2>1. Reconciled(q, at) = Moved(q, "EXPIRED", at)
      BY <1>3 DEF Reconciled
  <2>. QED  BY <1>2, <2>1, MovedFields
<1>4. CASE ~Overdue(q, at) /\ q.state = "QUORUM_REACHED"
  <2>1. Reconciled(q, at) = Locked(q, at)
      BY <1>4 DEF Reconciled
  <2>. QED  BY <1>4, <2>1, LockedFields
<1>5. CASE ~Overdue(q, at) /\ q.state = "WAITING_TIMELOCK" /\ at >= q.executableAfter
  <2>1. Reconciled(q, at) = Moved(q, "READY_FOR_EXECUTION", at)
      BY <1>5 DEF Reconciled
  <2>. QED  BY <1>2, <1>5, <2>1, MovedFields
<1>6. CASE ~Overdue(q, at) /\ q.state = "EXECUTING" /\ at >= q.lease
  <2>1. Reconciled(q, at) = Moved(l, "RECONCILIATION_REQUIRED", at)
      BY <1>6 DEF Reconciled, l
  <2>. QED  BY <1>1, <1>2, <1>6, <2>1, MovedFields
<1>7. CASE ~Overdue(q, at) /\ q.state = "RECONCILIATION_REQUIRED"
  <2>1. Reconciled(q, at) = Moved(l, "READY_FOR_EXECUTION", at)
      BY <1>7 DEF Reconciled, l
  <2>. QED  BY <1>1, <1>2, <1>7, <2>1, MovedFields
<1>8. CASE /\ ~Overdue(q, at)
           /\ q.state # "QUORUM_REACHED"
           /\ ~(q.state = "WAITING_TIMELOCK" /\ at >= q.executableAfter)
           /\ ~(q.state = "EXECUTING" /\ at >= q.lease)
           /\ q.state # "RECONCILIATION_REQUIRED"
  <2>1. Reconciled(q, at) = q
      BY ONLY <1>8 DEF Reconciled
  <2>. QED  BY <2>1
<1>. QED  BY <1>3, <1>4, <1>5, <1>6, <1>7, <1>8

\* The compare-and-set: a copy that is not older than the document is the document.
LEMMA CopyIsCurrent ==
    ASSUME NEW r \in Requests, NEW q, CopyOf(request[r], q), Unchanged(r, q)
    PROVE  request[r] = q /\ q.state \in Active
    BY DEF CopyOf, Unchanged

LEMMA ApprovalsSuffice ==
    ASSUME NEW q \in RequestDoc, NEW r \in Requests, NEW S,
           S \subseteq {g \in q.guardians : approval[r][g] = "APPROVE"}
    PROVE  Cardinality({g \in q.guardians : approval[r][g] = "APPROVE"}) >= Cardinality(S)
<1> DEFINE T == {g \in q.guardians : approval[r][g] = "APPROVE"}
<1>1. T \subseteq Guardians
    BY DEF RequestDoc
<1>2. IsFiniteSet(T)
    BY <1>1, FS_Subset, ConstantsAssumption
<1>3. IsFiniteSet(S) /\ Cardinality(S) <= Cardinality(T)
    BY <1>2, FS_Subset
<1>4. Cardinality(S) \in Nat /\ Cardinality(T) \in Nat
    BY <1>2, <1>3, FS_CardinalityType
<1>. QED  BY <1>3, <1>4

\* The states a request moves to.
LEMMA StateNames ==
    /\ Active \subseteq RecoveryState /\ Terminal \subseteq RecoveryState
    /\ "ABSENT" \notin Active /\ "ABSENT" \notin Terminal
    /\ {"PENDING_APPROVALS", "QUORUM_REACHED", "WAITING_TIMELOCK", "READY_FOR_EXECUTION",
        "EXECUTING", "RECONCILIATION_REQUIRED"} \subseteq RecoveryState \ {"ABSENT"}
    /\ {"EXPIRED", "CANCELLED", "FAILED", "COMPLETED", "REJECTED"}
          \subseteq RecoveryState \ {"ABSENT"}
    BY DEF RecoveryState, Active, Terminal

LEMMA StateMoves ==
    /\ \A s \in Active : "EXPIRED" \in Transitions[s]
    /\ \A s \in Active \ {"EXECUTING", "RECONCILIATION_REQUIRED"} :
          "CANCELLED" \in Transitions[s]
    /\ {"QUORUM_REACHED", "REJECTED"} \subseteq Transitions["PENDING_APPROVALS"]
    /\ "WAITING_TIMELOCK" \in Transitions["QUORUM_REACHED"]
    /\ "READY_FOR_EXECUTION" \in Transitions["WAITING_TIMELOCK"]
    /\ "EXECUTING" \in Transitions["READY_FOR_EXECUTION"]
    /\ {"COMPLETED", "RECONCILIATION_REQUIRED", "FAILED"} \subseteq Transitions["EXECUTING"]
    /\ "READY_FOR_EXECUTION" \in Transitions["RECONCILIATION_REQUIRED"]
    BY DEF Transitions, RecoveryState, Active, Terminal

\* A writer that keeps the terms and the team of an active request succeeds it.
LEMMA KeepsTerms ==
    ASSUME NEW p \in RequestDoc, p.state \in Active, NEW n \in RequestDoc,
           n.state # "ABSENT", n.version = p.version + 1, n.attempts >= p.attempts,
           n.terms = p.terms, n.guardians = p.guardians,
           n.approvalExpires = p.approvalExpires,
           n.policyVersion = p.policyVersion,
           n.state \in Transitions[p.state] \cup {p.state},
           \/ n.quorumAt = p.quorumAt
           \/ p.state = "PENDING_APPROVALS" /\ n.state = "QUORUM_REACHED",
           \/ n.attempts = p.attempts
           \/ p.state = "READY_FOR_EXECUTION" /\ n.state = "EXECUTING"
    PROVE  Successor(p, n)
    BY DEF Successor

\* A request that ends without success keeps a true record.
LEMMA EndedOK ==
    ASSUME NEW r \in Requests, NEW p \in RequestDoc, DocOK(r, p), p.state \in Active,
           NEW n \in RequestDoc, n.state \in {"EXPIRED", "CANCELLED", "FAILED"},
           n.terms = p.terms, n.guardians = p.guardians, n.attempts = p.attempts,
           n.approvalExpires = p.approvalExpires, n.quorumAt = p.quorumAt,
           n.policyVersion = p.policyVersion,
           n.executableAfter = p.executableAfter
    PROVE  DocOK(r, n)
    BY DEF DocOK, Unclaimed, Approved, Unlocked, Active

LEMMA EndingWrite ==
    ASSUME NEW r \in Requests, NEW q \in RequestDoc, NEW p \in RequestDoc,
           p = request[r], p.state \in Active, DocOK(r, p), q.version = p.version,
           q.terms = p.terms, q.guardians = p.guardians, q.attempts = p.attempts,
           q.approvalExpires = p.approvalExpires, q.quorumAt = p.quorumAt,
           q.policyVersion = p.policyVersion,
           q.executableAfter = p.executableAfter,
           NEW t \in {"EXPIRED", "CANCELLED", "FAILED"}, t \in Transitions[p.state],
           NEW at \in Nat,
           Store(r, Moved(q, t, at)), UNCHANGED <<clock, approval, rotated>>
    PROVE  \E n \in RequestDoc : Writes(r, n)
<1> DEFINE n == Moved(q, t, at)
<1>1. t \in RecoveryState
    BY StateNames
<1>2. n \in RequestDoc
    BY <1>1, MovedType
<1>3. /\ n.state = t /\ n.version = q.version + 1 /\ n.terms = q.terms
      /\ n.guardians = q.guardians /\ n.approvalExpires = q.approvalExpires
      /\ n.policyVersion = q.policyVersion
      /\ n.quorumAt = q.quorumAt /\ n.executableAfter = q.executableAfter
      /\ n.attempts = q.attempts
    BY <1>1, MovedFields
<1> HIDE DEF n
<1>4. DocOK(r, n)
    BY <1>2, <1>3, EndedOK
<1>5. n.attempts >= p.attempts
    BY <1>3 DEF RequestDoc
<1>6. Successor(request[r], n)
    BY <1>2, <1>3, <1>5, KeepsTerms
<1>. QED  BY <1>2, <1>4, <1>6 DEF Writes, n

LEMMA DeciderWrites ==
    ASSUME IInv, NEW d \in Deciders, DeciderStep(d)
    PROVE  \/ UNCHANGED request
           \/ \E r \in Requests, n \in RequestDoc : Writes(r, n)
<1> DEFINE s == decider[d]
           p == request[s.id]
<1>1. s \in DeciderState
    BY DEF IInv, TypeOK
<1>2. s.id \in Requests => p \in RequestDoc /\ DocOK(s.id, p)
    BY DEF IInv, TypeOK
<1>3. DeciderOK(d)
    BY DEF IInv
<1>4. CASE ExpireLate(d) /\ Unchanged(s.id, s.doc)
  <2>1. s.pc = "late" /\ s.id \in Requests /\ s.doc \in RequestDoc /\ s.at \in Nat
      BY <1>1, <1>4, DeciderType DEF ExpireLate
  <2>2. p = s.doc /\ s.doc.state \in Active
      BY <1>3, <1>4, <2>1, CopyIsCurrent DEF DeciderOK
  <2>3. Store(s.id, Moved(p, "EXPIRED", s.at)) /\ UNCHANGED <<clock, approval, rotated>>
      BY <1>4, <2>2 DEF ExpireLate
  <2> HIDE DEF s, p
  <2>. QED  BY <1>2, <2>1, <2>2, <2>3, EndingWrite, StateMoves DEF p
<1>5. CASE StoreQuorum(d) /\ Unchanged(s.id, s.doc)
  <2> DEFINE n == QuorumOutcome(s)
  <2>1. /\ s.pc = "decide" /\ s.id \in Requests /\ s.doc \in RequestDoc /\ s.at \in Nat
        /\ s.approvals \subseteq Guardians
      BY <1>1, <1>5, DeciderType DEF StoreQuorum
  <2>2. /\ p = s.doc /\ s.doc.state = "PENDING_APPROVALS" /\ s.at < p.approvalExpires
        /\ s.at \in 1 .. clock
        /\ s.approvals \subseteq {g \in p.guardians : approval[s.id][g] = "APPROVE"}
      BY <1>3, <1>5, <2>1, CopyIsCurrent DEF DeciderOK
  <2>3. Store(s.id, n) /\ UNCHANGED <<clock, approval, rotated>>
      BY <1>5 DEF StoreQuorum
  <2>4. n \in RequestDoc
      BY <2>1, QuorumOutcomeType
  <2>5. /\ n.state \in {"QUORUM_REACHED", "REJECTED", "PENDING_APPROVALS"}
        /\ n.version = s.doc.version + 1 /\ n.terms = s.doc.terms
        /\ n.guardians = s.doc.guardians /\ n.attempts = s.doc.attempts
        /\ n.approvalExpires = s.doc.approvalExpires
        /\ n.policyVersion = s.doc.policyVersion
        /\ n.state = "QUORUM_REACHED" =>
              Cardinality(s.approvals) >= s.doc.terms.minimum /\ n.quorumAt = s.at
        /\ n.state # "QUORUM_REACHED" => n.quorumAt = s.doc.quorumAt
      BY <2>1, QuorumOutcomeFields
  <2> HIDE DEF n, s, p
  <2>6. p.attempts = 0 /\ p.state \in Active /\ p \in RequestDoc
      BY <1>2, <2>1, <2>2 DEF DocOK, Unclaimed, Active
  <2>7. n.state = "QUORUM_REACHED" =>
           Cardinality({g \in n.guardians : approval[s.id][g] = "APPROVE"})
              >= n.terms.minimum
    <3>1. Cardinality({g \in p.guardians : approval[s.id][g] = "APPROVE"})
             >= Cardinality(s.approvals)
        BY <2>1, <2>2, <2>6, ApprovalsSuffice
    <3>2. /\ Cardinality({g \in p.guardians : approval[s.id][g] = "APPROVE"}) \in Nat
          /\ Cardinality(s.approvals) \in Nat
          /\ p.terms.minimum \in Nat
      <4>1. /\ {g \in p.guardians : approval[s.id][g] = "APPROVE"} \subseteq Guardians
            /\ p.terms \in PolicyTerms
          BY <2>6 DEF RequestDoc
      <4>. QED  BY <2>1, <4>1, FS_Subset, FS_CardinalityType, TermsType, ConstantsAssumption
    <3>. QED  BY <2>2, <2>5, <3>1, <3>2
  <2>8. DocOK(s.id, n)
      BY <2>2, <2>5, <2>6, <2>7 DEF DocOK, Unclaimed, Approved, Unlocked
  <2>9. Successor(p, n)
      BY <2>2, <2>4, <2>5, <2>6, KeepsTerms, StateMoves
  <2>. QED  BY <2>1, <2>3, <2>4, <2>6, <2>8, <2>9 DEF Writes, p
<1>6. CASE StartTimelock(d) /\ Unchanged(s.id, s.doc)
  <2> DEFINE n == Locked(s.doc, s.at)
  <2>1. s.pc = "lock" /\ s.id \in Requests /\ s.doc \in RequestDoc /\ s.at \in Nat
      BY <1>1, <1>6, DeciderType DEF StartTimelock
  <2>2. p = s.doc /\ s.doc.state = "QUORUM_REACHED"
      BY <1>3, <1>6, <2>1, CopyIsCurrent DEF DeciderOK
  <2>3. Store(s.id, n) /\ UNCHANGED <<clock, approval, rotated>>
      BY <1>6 DEF StartTimelock
  <2>4. n \in RequestDoc
      BY <2>1, LockedType
  <2>5. /\ n.state = "WAITING_TIMELOCK" /\ n.version = p.version + 1
        /\ n.terms = p.terms /\ n.guardians = p.guardians
        /\ n.approvalExpires = p.approvalExpires /\ n.quorumAt = p.quorumAt
        /\ n.policyVersion = p.policyVersion
        /\ n.executableAfter = p.quorumAt + p.terms.timelock
        /\ n.attempts = p.attempts
      BY <2>1, <2>2, LockedFields
  <2> HIDE DEF n, s, p
  <2>6. p.attempts = 0 /\ p.state \in Active /\ p \in RequestDoc
      BY <1>2, <2>1, <2>2 DEF DocOK, Unclaimed, Active
  <2>7. DocOK(s.id, n)
      BY <1>2, <2>1, <2>2, <2>5, <2>6 DEF DocOK, Unclaimed, Approved, Unlocked
  <2>8. Successor(p, n)
      BY <2>2, <2>4, <2>5, <2>6, KeepsTerms, StateMoves
  <2>. QED  BY <2>1, <2>3, <2>4, <2>6, <2>7, <2>8 DEF Writes, p
<1>7. CASE \/ ExpireLate(d) /\ ~Unchanged(s.id, s.doc)
           \/ RecordDecision(d)
           \/ CountDecisions(d)
           \/ StoreQuorum(d) /\ ~Unchanged(s.id, s.doc)
           \/ StartTimelock(d) /\ ~Unchanged(s.id, s.doc)
    BY <1>7 DEF ExpireLate, RecordDecision, CountDecisions, StoreQuorum, StartTimelock,
        store
<1>. QED  BY <1>4, <1>5, <1>6, <1>7 DEF DeciderStep

LEMMA OwnerWrites ==
    ASSUME IInv, NEW o \in Owners, OwnerStep(o)
    PROVE  \/ UNCHANGED request
           \/ \E r \in Requests, n \in RequestDoc : Writes(r, n)
<1> DEFINE c == call[o]
           p == request[c.id]
<1>1. c \in CallState
    BY DEF IInv, TypeOK
<1>2. c.id \in Requests => p \in RequestDoc /\ DocOK(c.id, p)
    BY DEF IInv, TypeOK
<1>3. CallOK(o)
    BY DEF IInv
<1>4. CASE AddRequest(o) /\ ~ActiveRequestExists
  <2>1. c.op = "shares" /\ c.id \in Requests /\ c.doc \in RequestDoc
      BY <1>1, <1>4, CallType DEF AddRequest
  <2>2. /\ p.state = "ABSENT" /\ c.doc.state = "PENDING_APPROVALS"
        /\ c.doc.version = 1 /\ c.doc.attempts = 0 /\ c.doc.quorumAt = Unset
      BY <1>3, <2>1 DEF CallOK, Creating
  <2>3. Store(c.id, c.doc) /\ UNCHANGED <<clock, approval, rotated>>
      BY <1>4 DEF AddRequest
  <2>4. p = NoRequest
      BY <1>2, <2>1, <2>2 DEF DocOK
  <2>5. Successor(p, c.doc)
      BY <2>2, <2>4 DEF Successor, NoRequest
  <2>6. DocOK(c.id, c.doc)
      BY <2>2 DEF DocOK, Approved, Unlocked
  <2>. QED  BY <1>4, <2>1, <2>3, <2>5, <2>6 DEF Writes
<1>5. CASE Cancel(o) /\ Unchanged(c.id, c.doc)
  <2>1. c.op = "cancel" /\ c.id \in Requests /\ c.doc \in RequestDoc /\ c.at \in Nat
      BY <1>1, <1>5, CallType DEF Cancel
  <2>2. /\ p = c.doc /\ c.doc.state \in Active
        /\ c.doc.state \notin {"EXECUTING", "RECONCILIATION_REQUIRED"}
      BY <1>3, <1>5, <2>1, CopyIsCurrent DEF CallOK
  <2>3. Store(c.id, Moved(p, "CANCELLED", c.at)) /\ UNCHANGED <<clock, approval, rotated>>
      BY <1>5, <2>2 DEF Cancel
  <2> HIDE DEF c, p
  <2>. QED  BY <1>2, <2>1, <2>2, <2>3, EndingWrite, StateMoves DEF p
<1>6. CASE \/ Enrol(o) \/ UpdateGuardian(o) \/ PutPolicy(o) \/ CreateDefaultPolicy(o)
           \/ BeginDefaultPolicy(o) \/ SnapshotPolicy(o) \/ SaveShare(o)
           \/ AddRequest(o) /\ ActiveRequestExists
           \/ Cancel(o) /\ ~Unchanged(c.id, c.doc)
    BY <1>6 DEF Enrol, UpdateGuardian, PutPolicy, CreateDefaultPolicy,
                BeginDefaultPolicy, SnapshotPolicy,
                SaveShare, AddRequest, Cancel, store
<1>. QED  BY <1>4, <1>5, <1>6 DEF OwnerStep

\* What Claim stores.
LEMMA ClaimedFields ==
    ASSUME TypeOK, NEW q \in RequestDoc
    PROVE  LET n == Moved([q EXCEPT !.attempts = @ + 1, !.lease = clock + Lease],
                          "EXECUTING", clock) IN
           /\ n \in RequestDoc
           /\ n.state = "EXECUTING" /\ n.version = q.version + 1 /\ n.terms = q.terms
           /\ n.guardians = q.guardians /\ n.approvalExpires = q.approvalExpires
           /\ n.policyVersion = q.policyVersion
           /\ n.quorumAt = q.quorumAt /\ n.executableAfter = q.executableAfter
           /\ n.attempts = q.attempts + 1
<1> DEFINE h == [q EXCEPT !.attempts = @ + 1, !.lease = clock + Lease]
<1>1. q.attempts + 1 \in Nat /\ clock + Lease \in Nat /\ clock \in Nat
    BY ConstantsAssumption DEF RequestDoc, TypeOK
<1>2. /\ h \in RequestDoc
      /\ h.version = q.version /\ h.terms = q.terms /\ h.guardians = q.guardians
      /\ h.approvalExpires = q.approvalExpires /\ h.quorumAt = q.quorumAt
      /\ h.policyVersion = q.policyVersion
      /\ h.executableAfter = q.executableAfter /\ h.attempts = q.attempts + 1
    BY <1>1 DEF RequestDoc
<1> HIDE DEF h
<1>3. "EXECUTING" \in RecoveryState
    BY StateNames
<1>4. Moved(h, "EXECUTING", clock) \in RequestDoc
    BY <1>1, <1>2, <1>3, MovedType
<1>5. LET n == Moved(h, "EXECUTING", clock) IN
      /\ n.state = "EXECUTING" /\ n.version = h.version + 1 /\ n.terms = h.terms
      /\ n.guardians = h.guardians /\ n.approvalExpires = h.approvalExpires
      /\ n.policyVersion = h.policyVersion
      /\ n.quorumAt = h.quorumAt /\ n.executableAfter = h.executableAfter
      /\ n.attempts = h.attempts
    BY <1>1, <1>2, <1>3, MovedFields
<1>. QED  BY <1>2, <1>4, <1>5 DEF h

\* What Complete and RecordFailure store.
LEMMA ReleasedFields ==
    ASSUME NEW q \in RequestDoc, NEW t \in RecoveryState, NEW at \in Nat
    PROVE  LET n == Moved([q EXCEPT !.lease = Unset], t, at) IN
           /\ n \in RequestDoc
           /\ n.state = t /\ n.version = q.version + 1 /\ n.terms = q.terms
           /\ n.guardians = q.guardians /\ n.approvalExpires = q.approvalExpires
           /\ n.policyVersion = q.policyVersion
           /\ n.quorumAt = q.quorumAt /\ n.executableAfter = q.executableAfter
           /\ n.attempts = q.attempts
<1> DEFINE h == [q EXCEPT !.lease = Unset]
<1>1. /\ h \in RequestDoc /\ h.version = q.version /\ h.terms = q.terms
      /\ h.guardians = q.guardians /\ h.approvalExpires = q.approvalExpires
      /\ h.policyVersion = q.policyVersion
      /\ h.quorumAt = q.quorumAt /\ h.executableAfter = q.executableAfter
      /\ h.attempts = q.attempts
    BY LeaselessFields
<1> HIDE DEF h
<1>2. Moved(h, t, at) \in RequestDoc
    BY <1>1, MovedType
<1>3. LET n == Moved(h, t, at) IN
      /\ n.state = t /\ n.version = h.version + 1 /\ n.terms = h.terms
      /\ n.guardians = h.guardians /\ n.approvalExpires = h.approvalExpires
      /\ n.policyVersion = h.policyVersion
      /\ n.quorumAt = h.quorumAt /\ n.executableAfter = h.executableAfter
      /\ n.attempts = h.attempts
    BY <1>1, MovedFields
<1>. QED  BY <1>1, <1>2, <1>3 DEF h

LEMMA WorkerWrites ==
    ASSUME IInv, NEW w \in Workers, WorkerStep(w)
    PROVE  \/ UNCHANGED request
           \/ \E r \in Requests, n \in RequestDoc : Writes(r, n)
<1> DEFINE s == worker[w]
           p == request[s.id]
<1>1. s \in WorkerState /\ TypeOK /\ clock \in Nat
    BY DEF IInv, TypeOK
<1>2. s.id \in Requests => p \in RequestDoc /\ DocOK(s.id, p)
    BY DEF IInv, TypeOK
<1>3. WorkerOK(w)
    BY DEF IInv
<1>4. ASSUME s.pc # "idle", Unchanged(s.id, s.doc)
      PROVE  /\ s.id \in Requests /\ s.doc \in RequestDoc /\ s.at \in Nat /\ s.at <= clock
             /\ p = s.doc /\ p.state \in Active /\ p \in RequestDoc /\ DocOK(s.id, p)
  <2>1. s.id \in Requests /\ s.doc \in RequestDoc /\ s.at \in Nat
      BY <1>1, <1>4, WorkerType
  <2>2. p = s.doc /\ s.doc.state \in Active /\ s.at <= clock
      BY <1>3, <1>4, <2>1, CopyIsCurrent DEF WorkerOK
  <2>. QED  BY <1>2, <2>1, <2>2
<1>5. CASE Reconcile(w) /\ Reconciled(s.doc, s.at) # s.doc /\ Unchanged(s.id, s.doc)
  <2> DEFINE n == Reconciled(s.doc, s.at)
  <2>1. Store(s.id, n) /\ UNCHANGED <<clock, approval, rotated>> /\ s.pc # "idle"
      BY <1>5 DEF Reconcile
  <2>2. /\ s.id \in Requests /\ s.doc \in RequestDoc /\ s.at \in Nat /\ s.at <= clock
        /\ p = s.doc /\ p.state \in Active /\ p \in RequestDoc /\ DocOK(s.id, p)
      BY <1>4, <1>5, <2>1
  <2>3. n \in RequestDoc
      BY <2>2, ReconciledType
  <2>4. /\ n.version = p.version + 1 /\ n.terms = p.terms
        /\ n.guardians = p.guardians /\ n.approvalExpires = p.approvalExpires
        /\ n.policyVersion = p.policyVersion
        /\ n.quorumAt = p.quorumAt /\ n.attempts = p.attempts
        /\ \/ /\ n.state = "EXPIRED"
              /\ n.executableAfter = p.executableAfter
           \/ /\ p.state = "QUORUM_REACHED" /\ n.state = "WAITING_TIMELOCK"
              /\ n.executableAfter = p.quorumAt + p.terms.timelock
           \/ /\ p.state = "WAITING_TIMELOCK" /\ n.state = "READY_FOR_EXECUTION"
              /\ s.at >= p.executableAfter
              /\ n.executableAfter = p.executableAfter
           \/ /\ p.state = "EXECUTING" /\ n.state = "RECONCILIATION_REQUIRED"
              /\ n.executableAfter = p.executableAfter
           \/ /\ p.state = "RECONCILIATION_REQUIRED" /\ n.state = "READY_FOR_EXECUTION"
              /\ n.executableAfter = p.executableAfter
      BY <1>5, <2>2, ReconciledFields
  <2> HIDE DEF n, s, p
  <2>5. DocOK(s.id, n)
    <3>1. CASE n.state = "EXPIRED"
        BY <2>2, <2>3, <2>4, <3>1, EndedOK
    <3>2. CASE p.state = "QUORUM_REACHED" /\ n.state = "WAITING_TIMELOCK"
        BY <2>2, <2>4, <3>2 DEF DocOK, Unclaimed, Approved, Unlocked
    <3>3. CASE p.state = "WAITING_TIMELOCK" /\ n.state = "READY_FOR_EXECUTION"
      <4>1. p.executableAfter \in Nat
          BY <2>2 DEF RequestDoc
      <4>2. n.executableAfter <= clock
          BY <1>1, <2>2, <2>4, <3>3, <4>1
      <4>. QED  BY <2>2, <2>4, <3>3, <4>2 DEF DocOK, Unclaimed, Approved, Unlocked
    <3>4. CASE \/ p.state = "EXECUTING" /\ n.state = "RECONCILIATION_REQUIRED"
               \/ p.state = "RECONCILIATION_REQUIRED" /\ n.state = "READY_FOR_EXECUTION"
        BY <2>2, <2>4, <3>4 DEF DocOK, Unclaimed, Approved, Unlocked
    <3>. QED  BY <2>4, <3>1, <3>2, <3>3, <3>4
  <2>6. n.attempts >= p.attempts /\ n.state # "ABSENT"
      BY <2>2, <2>4 DEF RequestDoc
  <2>7. Successor(p, n)
      BY <2>2, <2>3, <2>4, <2>6, KeepsTerms, StateMoves
  <2>. QED  BY <2>1, <2>2, <2>3, <2>5, <2>7 DEF Writes, p
<1>6. CASE Claim(w) /\ Unchanged(s.id, s.doc)
  <2> DEFINE n == Moved([s.doc EXCEPT !.attempts = @ + 1, !.lease = clock + Lease],
                        "EXECUTING", clock)
  <2>1. Store(s.id, n) /\ UNCHANGED <<clock, approval, rotated>> /\ s.pc = "ready"
      BY <1>6 DEF Claim, Leased
  <2>2. /\ s.id \in Requests /\ s.doc \in RequestDoc
        /\ p = s.doc /\ p.state \in Active /\ p \in RequestDoc /\ DocOK(s.id, p)
        /\ p.state = "READY_FOR_EXECUTION"
      BY <1>3, <1>4, <1>6, <2>1 DEF WorkerOK
  <2> HIDE DEF s, p
  <2>3. /\ n \in RequestDoc
        /\ n.state = "EXECUTING" /\ n.version = p.version + 1 /\ n.terms = p.terms
        /\ n.guardians = p.guardians /\ n.approvalExpires = p.approvalExpires
        /\ n.policyVersion = p.policyVersion
        /\ n.quorumAt = p.quorumAt /\ n.executableAfter = p.executableAfter
        /\ n.attempts = p.attempts + 1
      BY <1>1, <2>2, ClaimedFields
  <2> HIDE DEF n
  <2>4. DocOK(s.id, n)
      BY <2>2, <2>3 DEF DocOK, Unclaimed, Approved, Unlocked
  <2>5. n.attempts >= p.attempts
      BY <2>2, <2>3 DEF RequestDoc
  <2>6. Successor(p, n)
      BY <2>2, <2>3, <2>5, KeepsTerms, StateMoves
  <2>. QED  BY <2>1, <2>2, <2>3, <2>4, <2>6 DEF Writes, p
<1>7. ASSUME NEW t \in RecoveryState, s.pc \in {"rotated", "failing"},
             Unchanged(s.id, s.doc),
             t \in {"COMPLETED", "RECONCILIATION_REQUIRED", "FAILED"},
             t = "COMPLETED" => s.id \in rotated,
             Store(s.id, Moved([s.doc EXCEPT !.lease = Unset], t, clock)),
             UNCHANGED <<clock, approval, rotated>>
      PROVE  \E r \in Requests, n \in RequestDoc : Writes(r, n)
  <2> DEFINE n == Moved([s.doc EXCEPT !.lease = Unset], t, clock)
  <2>1. /\ s.id \in Requests /\ s.doc \in RequestDoc
        /\ p = s.doc /\ p.state \in Active /\ p \in RequestDoc /\ DocOK(s.id, p)
        /\ p.state = "EXECUTING"
      BY <1>3, <1>4, <1>7 DEF WorkerOK
  <2>2. /\ n \in RequestDoc
        /\ n.state = t /\ n.version = p.version + 1 /\ n.terms = p.terms
        /\ n.guardians = p.guardians /\ n.approvalExpires = p.approvalExpires
        /\ n.policyVersion = p.policyVersion
        /\ n.quorumAt = p.quorumAt /\ n.executableAfter = p.executableAfter
        /\ n.attempts = p.attempts
      BY <1>1, <2>1, ReleasedFields
  <2>3. Store(s.id, n)
      BY <1>7
  <2> HIDE DEF n, s, p
  <2>4. DocOK(s.id, n)
      BY <1>7, <2>1, <2>2 DEF DocOK, Unclaimed, Approved, Unlocked
  <2>5. n.attempts >= p.attempts
      BY <2>1, <2>2 DEF RequestDoc
  <2>6. Successor(p, n)
      BY <1>7, <2>1, <2>2, <2>5, KeepsTerms, StateMoves
  <2>. QED  BY <1>7, <2>1, <2>2, <2>3, <2>4, <2>6 DEF Writes, p
<1>8. CASE Complete(w) /\ Unchanged(s.id, s.doc)
    BY <1>3, <1>7, <1>8, StateNames DEF Complete, WorkerOK
<1>9. CASE RecordFailure(w) /\ Unchanged(s.id, s.doc)
    BY <1>7, <1>9, StateNames DEF RecordFailure
<1>10. CASE \/ Reconcile(w) /\ (Reconciled(s.doc, s.at) = s.doc \/ ~Unchanged(s.id, s.doc))
            \/ Claim(w) /\ ~Unchanged(s.id, s.doc)
            \/ CombineShares(w)
            \/ RotateKey(w)
            \/ Complete(w) /\ ~Unchanged(s.id, s.doc)
            \/ RecordFailure(w) /\ ~Unchanged(s.id, s.doc)
    BY <1>10 DEF Reconcile, Claim, CombineShares, RotateKey, Complete, RecordFailure,
        store
<1>. QED  BY <1>5, <1>6, <1>8, <1>9, <1>10 DEF WorkerStep

\* Time, decisions and rotations have their own steps.
LEMMA RecordSteps ==
    ASSUME [Next]_vars
    PROVE  \/ UNCHANGED <<clock, rotated, approval>>
           \/ Tick
           \/ \E d \in Deciders : RecordDecision(d)
           \/ \E w \in Workers : RotateKey(w) \/ ExecutionError(w)
<1>1. CASE \E d \in Deciders : DeciderStep(d)
    BY <1>1 DEF DeciderStep, ExpireLate, CountDecisions, StoreQuorum, StartTimelock, store
<1>2. CASE \E o \in Owners : OwnerStep(o)
    BY <1>2 DEF OwnerStep, Enrol, UpdateGuardian, PutPolicy, CreateDefaultPolicy,
                BeginDefaultPolicy, SnapshotPolicy, SaveShare, AddRequest, Cancel, store
<1>3. CASE \E w \in Workers : WorkerStep(w)
    BY <1>3 DEF WorkerStep, Reconcile, Claim, CombineShares, Complete, RecordFailure,
        store
<1>4. CASE \/ Crash \/ UNCHANGED vars
           \/ \E d \in Deciders, r \in Requests, g \in Guardians, c \in Choices :
                 BeginDecision(d, r, g, c)
           \/ \E o \in Owners : OwnerBegin(o)
           \/ \E w \in Workers, r \in Requests : Load(w, r)
           \/ Tick
           \/ \E w \in Workers : ExecutionError(w)
    BY <1>4 DEF Crash, vars, BeginDecision, OwnerBegin, BeginEnrol,
                BeginUpdateGuardian, BeginPutPolicy, BeginCreate, BeginCancel,
                Load, store
<1>. QED  BY <1>1, <1>2, <1>3, <1>4 DEF Next, Approve, Reject, Choices

\* What a step leaves behind: every record has grown.
LEMMA StepGrows ==
    ASSUME IInv, [Next]_vars
    PROVE  /\ Grows
           /\ \/ UNCHANGED request
              \/ \E r \in Requests, n \in RequestDoc : Writes(r, n)
<1>1. \/ UNCHANGED request
      \/ \E r \in Requests, n \in RequestDoc : Writes(r, n)
  <2>1. CASE \E d \in Deciders : DeciderStep(d)
      BY <2>1, DeciderWrites
  <2>2. CASE \E o \in Owners : OwnerStep(o)
      BY <2>2, OwnerWrites
  <2>3. CASE \E w \in Workers : WorkerStep(w)
      BY <2>3, WorkerWrites
  <2>4. CASE \/ Tick \/ Crash \/ UNCHANGED vars
             \/ \E d \in Deciders, r \in Requests, g \in Guardians, c \in Choices :
                   BeginDecision(d, r, g, c)
             \/ \E o \in Owners : OwnerBegin(o)
             \/ \E w \in Workers : ExecutionError(w)
             \/ \E w \in Workers, r \in Requests : Load(w, r)
      BY <2>4 DEF Tick, Crash, vars, BeginDecision, OwnerBegin, BeginEnrol,
                  BeginUpdateGuardian, BeginPutPolicy, BeginCreate, BeginCancel,
                  ExecutionError, Load, store, RotationError, StoreError
  <2>. QED  BY <2>1, <2>2, <2>3, <2>4 DEF Next, Approve, Reject, Choices
<1>2. \A r \in Requests : request'[r] = request[r] \/ Successor(request[r], request'[r])
    BY <1>1 DEF Writes, Store, IInv, TypeOK
<1>3. \/ UNCHANGED <<clock, rotated, approval>>
      \/ Tick
      \/ \E d \in Deciders : RecordDecision(d)
      \/ \E w \in Workers : RotateKey(w) \/ ExecutionError(w)
    BY RecordSteps
<1>4. /\ clock <= clock'
      /\ rotated \subseteq rotated'
      /\ \A r \in Requests, g \in Guardians :
            approval[r][g] = "APPROVE" => approval'[r][g] = "APPROVE"
  <2>1. clock \in Nat /\ approval \in [Requests -> [Guardians -> Choices \cup {"NONE"}]]
      BY DEF IInv, TypeOK
  <2>2. CASE UNCHANGED <<clock, rotated, approval>>
      BY <2>1, <2>2
  <2>3. CASE Tick
      BY <2>1, <2>3 DEF Tick, store
  <2>4. ASSUME NEW d \in Deciders, RecordDecision(d)
        PROVE  \A r \in Requests, g \in Guardians :
                  approval[r][g] = "APPROVE" => approval'[r][g] = "APPROVE"
      BY <2>1, <2>4 DEF RecordDecision, Acceptance
  <2>5. CASE \E d \in Deciders : RecordDecision(d)
      BY <2>1, <2>4, <2>5 DEF RecordDecision, Acceptance
  <2>6. ASSUME NEW w \in Workers, RotateKey(w) \/ ExecutionError(w)
        PROVE  UNCHANGED <<clock, approval>> /\ rotated \subseteq rotated'
    <3>1. CASE RotateKey(w)
        BY <3>1 DEF RotateKey, store
    <3>2. CASE ExecutionError(w)
        BY <3>2 DEF ExecutionError, store, RotationError, StoreError
    <3>. QED  BY <2>6, <3>1, <3>2
  <2>. QED  BY <1>3, <2>1, <2>2, <2>3, <2>5, <2>6
<1>. QED  BY <1>1, <1>2, <1>4 DEF Grows

\* A process that does not move keeps what it knows of its request.
LEMMA CopiesKept ==
    ASSUME TypeOK, TypeOK', Grows, NEW r \in Requests, NEW q \in RequestDoc,
           CopyOf(request[r], q)
    PROVE  CopyOf(request'[r], q)
    BY CopyKept DEF TypeOK, Grows

LEMMA WindowKept ==
    ASSUME TypeOK, TypeOK', Grows, NEW r \in Requests, request[r].state # "ABSENT"
    PROVE  /\ request'[r].state # "ABSENT"
           /\ request'[r].approvalExpires = request[r].approvalExpires
    BY DEF Grows, Successor, NoRequest

LEMMA MomentKept ==
    ASSUME TypeOK, TypeOK', Grows, NEW at \in 1 .. clock
    PROVE  at \in 1 .. clock'
    BY DEF TypeOK, Grows

LEMMA DeciderRests ==
    ASSUME IInv, TypeOK', Grows, NEW d \in Deciders, decider'[d] = decider[d]
    PROVE  DeciderOK(d)'
<1> DEFINE s == decider[d]
<1>1. s \in DeciderState /\ TypeOK /\ DeciderOK(d)
    BY DEF IInv, TypeOK
<1>2. s.pc \in {"late", "decide", "lock"} => CopyOf(request'[s.id], s.doc)
    BY <1>1, DeciderType, CopiesKept DEF DeciderOK
<1>3. s.pc \in {"record", "count", "decide", "lock"} =>
         /\ request'[s.id].state # "ABSENT" /\ s.at < request'[s.id].approvalExpires
         /\ s.at \in 1 .. clock'
    BY <1>1, DeciderType, WindowKept, MomentKept DEF DeciderOK
<1>4. s.pc = "decide" =>
         s.approvals \subseteq {g \in s.doc.guardians : approval'[s.id][g] = "APPROVE"}
  <2>1. SUFFICES ASSUME s.pc = "decide", NEW g \in s.approvals
                 PROVE  g \in s.doc.guardians /\ approval'[s.id][g] = "APPROVE"
      OBVIOUS
  <2>2. g \in Guardians /\ s.id \in Requests
      BY <1>1, <2>1, DeciderType
  <2>3. g \in s.doc.guardians /\ approval[s.id][g] = "APPROVE"
      BY <1>1, <2>1 DEF DeciderOK
  <2>. QED  BY <2>2, <2>3 DEF Grows
<1>. QED  BY <1>1, <1>2, <1>3, <1>4 DEF DeciderOK

LEMMA WorkerRests ==
    ASSUME IInv, TypeOK', Grows, NEW w \in Workers, worker'[w] = worker[w]
    PROVE  WorkerOK(w)'
<1> DEFINE s == worker[w]
<1>1. s \in WorkerState /\ TypeOK /\ WorkerOK(w) /\ clock \in Nat /\ clock' \in Nat
    BY DEF IInv, TypeOK
<1>2. s.pc # "idle" => /\ s.id \in Requests /\ s.doc \in RequestDoc /\ s.at \in Nat
    BY <1>1, WorkerType
<1>3. s.pc # "idle" => CopyOf(request'[s.id], s.doc) /\ s.at <= clock'
    BY <1>1, <1>2, CopiesKept DEF WorkerOK, Grows
<1>4. s.pc = "rotated" => s.id \in rotated'
    BY <1>1 DEF WorkerOK, Grows
<1>. QED  BY <1>1, <1>3, <1>4 DEF WorkerOK

LEMMA CopyOfItself ==
    ASSUME NEW q \in RequestDoc, q.state \in Active
    PROVE  CopyOf(q, q)
    BY StateNames DEF CopyOf, RequestDoc

LEMMA DeciderMoves ==
    ASSUME IInv, TypeOK', Grows, NEW d \in Deciders,
           \/ DeciderStep(d)
           \/ \E r \in Requests, g \in Guardians, c \in Choices : BeginDecision(d, r, g, c)
    PROVE  DeciderOK(d)'
<1> DEFINE s == decider[d]
<1>1. s \in DeciderState /\ TypeOK /\ DeciderOK(d)
    BY DEF IInv, TypeOK
<1>2. ASSUME NEW x, DecideAs(d, x)
      PROVE  decider'[d] = x
    BY <1>1, <1>2 DEF DecideAs, TypeOK
<1>3. ASSUME DecideAs(d, IdleDecider)
      PROVE  DeciderOK(d)'
    BY <1>2, <1>3 DEF IdleDecider, DeciderOK
<1>4. s.pc \in {"record", "count", "decide", "lock"} =>
         /\ s.id \in Requests
         /\ request'[s.id].state # "ABSENT" /\ s.at < request'[s.id].approvalExpires
         /\ s.at \in 1 .. clock'
    BY <1>1, DeciderType, WindowKept, MomentKept DEF DeciderOK
<1>5. ASSUME s.pc \in {"record", "decide", "lock"}, NEW t,
             DecideAs(d, [pc |-> "count", id |-> s.id, guardian |-> s.guardian,
                          at |-> s.at, tries |-> t])
      PROVE  DeciderOK(d)'
    BY <1>2, <1>4, <1>5 DEF DeciderOK
<1>6. ASSUME NEW r \in Requests, NEW g \in Guardians, NEW c \in Choices,
             BeginDecision(d, r, g, c)
      PROVE  DeciderOK(d)'
  <2>1. /\ request[r] \in RequestDoc /\ request[r].state = "PENDING_APPROVALS"
        /\ request' = request /\ clock \in 1 .. clock'
      BY <1>1, <1>6 DEF BeginDecision, store, TypeOK, IInv
  <2>2. CopyOf(request[r], request[r])
      BY <2>1, CopyOfItself DEF Active
  <2>3. CASE DecideAs(d, [pc |-> "late", id |-> r, doc |-> request[r], at |-> clock])
      BY <1>2, <2>1, <2>2, <2>3 DEF DeciderOK
  <2>4. CASE /\ DecideAs(d, [pc |-> "record", id |-> r, guardian |-> g, choice |-> c,
                             at |-> clock])
             /\ clock < request[r].approvalExpires
      BY <1>2, <2>1, <2>4 DEF DeciderOK
  <2>. QED  BY <1>6, <2>3, <2>4 DEF BeginDecision
<1>7. CASE ExpireLate(d)
    BY <1>3, <1>7 DEF ExpireLate
<1>8. CASE RecordDecision(d)
    BY <1>3, <1>5, <1>8 DEF RecordDecision, Acceptance
<1>9. CASE CountDecisions(d)
  <2> DEFINE x == [pc |-> "decide", id |-> s.id, guardian |-> s.guardian,
                   at |-> s.at, tries |-> s.tries, doc |-> request[s.id],
                   approvals |-> Counted(s.id, "APPROVE"),
                   rejections |-> Counted(s.id, "REJECT")]
  <2>1. s.pc = "count" /\ UNCHANGED <<request, approval>>
      BY <1>9 DEF CountDecisions, store
  <2>2. CASE request[s.id].state = "PENDING_APPROVALS"
    <3>1. DecideAs(d, x)
        BY <1>9, <2>2 DEF CountDecisions
    <3>2. decider'[d] = x
        BY <1>2, <3>1
    <3>3. CopyOf(request[s.id], request[s.id])
        BY <1>1, <1>4, <2>1, <2>2, CopyOfItself DEF Active, TypeOK
    <3>4. Counted(s.id, "APPROVE")
             \subseteq {g \in request[s.id].guardians : approval[s.id][g] = "APPROVE"}
        BY DEF Counted, StillActive
    <3>. QED  BY <1>4, <2>1, <2>2, <3>2, <3>3, <3>4 DEF DeciderOK
  <2>3. CASE request[s.id].state # "PENDING_APPROVALS"
      BY <1>3, <1>9, <2>3 DEF CountDecisions
  <2>. QED  BY <2>2, <2>3
<1>10. CASE StoreQuorum(d)
  <2> DEFINE n == QuorumOutcome(s)
             x == [pc |-> "lock", id |-> s.id, guardian |-> s.guardian, at |-> s.at,
                   tries |-> s.tries, doc |-> n]
  <2>1. s.pc = "decide"
      BY <1>10 DEF StoreQuorum
  <2>2. CASE Store(s.id, n) /\ n.state = "QUORUM_REACHED" /\ DecideAs(d, x)
    <3>1. s.id \in Requests /\ n \in RequestDoc
        BY <1>1, <2>1, DeciderType, QuorumOutcomeType
    <3>2. CopyOf(n, n)
        BY <2>2, <3>1, CopyOfItself DEF Active
    <3>3. request'[s.id] = n
        BY <1>1, <2>2, <3>1 DEF Store, TypeOK
    <3>4. decider'[d] = x
        BY <1>2, <2>2
    <3> HIDE DEF n
    <3>. QED  BY <1>4, <2>1, <2>2, <3>2, <3>3, <3>4 DEF DeciderOK
  <2>3. CASE DecideAs(d, IdleDecider)
      BY <1>3, <2>3
  <2>4. CASE RetryOrGiveUp(d, s)
      BY <1>3, <1>5, <2>1, <2>4 DEF RetryOrGiveUp
  <2>. QED  BY <1>10, <2>2, <2>3, <2>4 DEF StoreQuorum
<1>11. CASE StartTimelock(d)
    BY <1>3, <1>5, <1>11 DEF StartTimelock, RetryOrGiveUp
<1>. QED  BY <1>6, <1>7, <1>8, <1>9, <1>10, <1>11 DEF DeciderStep

\* One call of a guardian moves at a time; a crash forgets one.
LEMMA DeciderSteps ==
    ASSUME IInv, [Next]_vars, NEW d \in Deciders
    PROVE  \/ DeciderStep(d)
           \/ \E r \in Requests, g \in Guardians, c \in Choices : BeginDecision(d, r, g, c)
           \/ decider'[d] \in {decider[d], IdleDecider}
<1>1. decider \in [Deciders -> DeciderState]
    BY DEF IInv, TypeOK
<1>2. ASSUME NEW e \in Deciders, e # d, DeciderStep(e)
      PROVE  decider'[d] = decider[d]
    BY <1>1, <1>2 DEF DeciderStep, ExpireLate, RecordDecision, CountDecisions, StoreQuorum,
                      StartTimelock, RetryOrGiveUp, DecideAs
<1>3. ASSUME NEW e \in Deciders, e # d, NEW r \in Requests, NEW g \in Guardians,
             NEW c \in Choices, BeginDecision(e, r, g, c)
      PROVE  decider'[d] = decider[d]
    BY <1>1, <1>3 DEF BeginDecision, DecideAs
<1>4. CASE \E o \in Owners : OwnerStep(o) \/ OwnerBegin(o)
  <2>1. CASE \E o \in Owners : OwnerStep(o)
      BY <2>1 DEF OwnerStep, Enrol, UpdateGuardian, PutPolicy, CreateDefaultPolicy,
                  BeginDefaultPolicy, SnapshotPolicy, SaveShare, AddRequest, Cancel
  <2>2. CASE \E o \in Owners : OwnerBegin(o)
      BY <2>2 DEF OwnerBegin, BeginEnrol, BeginUpdateGuardian, BeginPutPolicy,
                  BeginCreate, BeginCancel
  <2>. QED  BY <1>4, <2>1, <2>2
<1>5. CASE \/ \E w \in Workers : WorkerStep(w) \/ ExecutionError(w)
           \/ \E w \in Workers, r \in Requests : Load(w, r)
  <2>1. CASE \E w \in Workers : WorkerStep(w)
      BY <2>1 DEF WorkerStep, Reconcile, Claim, CombineShares, RotateKey, Complete,
                  RecordFailure
  <2>2. CASE \/ \E w \in Workers : ExecutionError(w)
             \/ \E w \in Workers, r \in Requests : Load(w, r)
      BY <2>2 DEF ExecutionError, Load, RotationError, StoreError
  <2>. QED  BY <1>5, <2>1, <2>2
<1>6. CASE Tick \/ UNCHANGED vars
    BY <1>6 DEF Tick, vars, processes
<1>7. CASE Crash
    BY <1>1, <1>7 DEF Crash, DecideAs
<1>. QED  BY <1>2, <1>3, <1>4, <1>5, <1>6, <1>7 DEF Next, Approve, Reject, Choices

LEMMA DecidersKept ==
    ASSUME IInv, [Next]_vars, TypeOK', Grows, NEW d \in Deciders
    PROVE  DeciderOK(d)'
<1>1. CASE \/ DeciderStep(d)
           \/ \E r \in Requests, g \in Guardians, c \in Choices : BeginDecision(d, r, g, c)
    BY <1>1, DeciderMoves
<1>2. CASE decider'[d] = decider[d]
    BY <1>2, DeciderRests
<1>3. CASE decider'[d] = IdleDecider
    BY <1>3 DEF IdleDecider, DeciderOK
<1>. QED  BY <1>1, <1>2, <1>3, DeciderSteps

\* One call moves at a time; a crash forgets one.
LEMMA CallSteps ==
    ASSUME IInv, [Next]_vars
    PROVE  \/ \E e \in Owners : /\ OwnerStep(e) \/ OwnerBegin(e)
                                /\ \A o \in Owners \ {e} : call'[o] = call[o]
           \/ /\ \A o \in Owners : call'[o] \in {call[o], NoCall}
              /\ UNCHANGED <<guardian, policy, shares>>
<1>1. call \in [Owners -> CallState]
    BY DEF IInv, TypeOK
<1>2. ASSUME NEW e \in Owners, OwnerStep(e)
      PROVE  \A o \in Owners \ {e} : call'[o] = call[o]
    BY <1>1, <1>2 DEF OwnerStep, Enrol, UpdateGuardian, PutPolicy, CreateDefaultPolicy,
                      BeginDefaultPolicy, SnapshotPolicy, SaveShare, AddRequest, Cancel, CallAs
<1>3. ASSUME NEW e \in Owners, OwnerBegin(e)
      PROVE  \A o \in Owners \ {e} : call'[o] = call[o]
    BY <1>1, <1>3 DEF OwnerBegin, BeginEnrol, BeginUpdateGuardian, BeginPutPolicy,
                      BeginCreate, BeginCancel, CallAs
<1>4. CASE \/ \E d \in Deciders : DeciderStep(d)
           \/ \E d \in Deciders, r \in Requests, g \in Guardians, c \in Choices :
                 BeginDecision(d, r, g, c)
  <2>1. CASE \E d \in Deciders : DeciderStep(d)
      BY <2>1 DEF DeciderStep, ExpireLate, RecordDecision, CountDecisions, StoreQuorum,
                  StartTimelock, store
  <2>2. CASE \E d \in Deciders, r \in Requests, g \in Guardians, c \in Choices :
                BeginDecision(d, r, g, c)
      BY <2>2 DEF BeginDecision, store
  <2>. QED  BY <1>4, <2>1, <2>2
<1>5. CASE \E w \in Workers : WorkerStep(w)
    BY <1>5 DEF WorkerStep, Reconcile, Claim, CombineShares, RotateKey, Complete,
                RecordFailure, store
<1>6. CASE \/ \E w \in Workers : ExecutionError(w)
           \/ \E w \in Workers, r \in Requests : Load(w, r)
           \/ Tick
           \/ UNCHANGED vars
    BY <1>6 DEF ExecutionError, Load, Tick, vars, processes, RotationError, StoreError, store
<1>7. CASE Crash
    BY <1>1, <1>7 DEF Crash, CallAs, store
<1>. QED  BY <1>2, <1>3, <1>4, <1>5, <1>6, <1>7 DEF Next, Approve, Reject, Choices

\* A call that is creating a request has had its id from the start.
LEMMA CreatingKept ==
    ASSUME IInv, [Next]_vars, NEW o \in Owners, call'[o].op \in Creating
    PROVE  \/ call[o].op \in Creating /\ call'[o].id = call[o].id
           \/ Fresh(call'[o].id) /\ call'[o].id \in Requests
<1> DEFINE c == call[o]
<1>1. call \in [Owners -> CallState] /\ c \in CallState
    BY DEF IInv, TypeOK
<1>2. ASSUME NEW x, CallAs(o, x)
      PROVE  call'[o] = x
    BY <1>1, <1>2 DEF CallAs
<1>3. NoCall.op \notin Creating
    BY DEF NoCall, Creating
<1>4. CASE \E r \in Requests : BeginCreate(o, r)
    BY <1>2, <1>4 DEF BeginCreate
<1>5. CASE \/ \E g \in Guardians : BeginEnrol(o, g)
           \/ \E g \in Guardians, s \in GuardianStatus : BeginUpdateGuardian(o, g, s)
           \/ \E t \in PolicyTerms : BeginPutPolicy(o, t)
           \/ \E r \in Requests : BeginCancel(o, r)
  <2>1. call'[o].op \in {"enrol", "update", "policy", "cancel"}
    <3>1. ASSUME NEW g \in Guardians, BeginEnrol(o, g)
          PROVE  call'[o].op = "enrol"
        BY <1>2, <3>1 DEF BeginEnrol
    <3>2. ASSUME NEW g \in Guardians, NEW s \in GuardianStatus, BeginUpdateGuardian(o, g, s)
          PROVE  call'[o].op = "update"
        BY <1>2, <3>2 DEF BeginUpdateGuardian
    <3>3. ASSUME NEW t \in PolicyTerms, BeginPutPolicy(o, t)
          PROVE  call'[o].op = "policy"
        BY <1>2, <3>3 DEF BeginPutPolicy
    <3>4. ASSUME NEW r \in Requests, BeginCancel(o, r)
          PROVE  call'[o].op = "cancel"
        BY <1>2, <3>4 DEF BeginCancel
    <3>. QED  BY <1>5, <3>1, <3>2, <3>3, <3>4
  <2>. QED  BY <2>1 DEF Creating
<1>6. CASE Enrol(o) \/ UpdateGuardian(o) \/ PutPolicy(o) \/ AddRequest(o) \/ Cancel(o)
    BY <1>2, <1>3, <1>6 DEF Enrol, UpdateGuardian, PutPolicy, AddRequest, Cancel
<1>7. CASE BeginDefaultPolicy(o) \/ CreateDefaultPolicy(o)
    BY <1>2, <1>3, <1>7 DEF BeginDefaultPolicy, CreateDefaultPolicy, Creating,
                            PolicyUnchanged
<1>8. CASE SnapshotPolicy(o)
    BY <1>2, <1>3, <1>8 DEF SnapshotPolicy, Creating, Snapshotable
<1>9. CASE SaveShare(o)
  <2>1. PICK g \in Guardians : CallAs(o, [c EXCEPT !.left = @ \ {g}]) \/ CallAs(o, NoCall)
      BY <1>9 DEF SaveShare, ShareConflict, Sealed
  <2>2. /\ c.op = "shares"
        /\ c \in [op : {"shares"}, id : Requests, doc : RequestDoc, left : SUBSET Guardians]
      BY <1>1, <1>9, CallType DEF SaveShare, Sealed
  <2>. QED  BY <1>2, <1>3, <2>1, <2>2 DEF Creating
<1>10. CASE call'[o] \in {call[o], NoCall}
    BY <1>3, <1>10
<1>. QED
    BY <1>4, <1>5, <1>6, <1>7, <1>8, <1>9, <1>10, CallSteps DEF OwnerStep, OwnerBegin

\* A request that a call is creating is stored by that call only.
LEMMA AbsentKept ==
    ASSUME IInv, [Next]_vars, NEW o \in Owners, call[o].op \in Creating,
           call'[o].op \in Creating
    PROVE  request'[call[o].id].state = "ABSENT"
<1> DEFINE i == call[o].id
<1>1. /\ i \in Requests /\ request[i].state = "ABSENT"
      /\ request \in [Requests -> RequestDoc] /\ call \in [Owners -> CallState]
    BY CallType DEF IInv, TypeOK, CallOK, Creating
<1>2. CASE UNCHANGED request
    BY <1>1, <1>2
<1>3. ASSUME NEW r \in Requests, NEW n \in RequestDoc, Writes(r, n)
      PROVE  r # i
  <2>1. SUFFICES ASSUME r = i PROVE FALSE
      OBVIOUS
  <2>2. PICK p \in Owners : AddRequest(p) /\ call[p].id = r
      BY <1>1, <1>3, <2>1, StateNames DEF Writes
  <2>3. call[p].op = "shares" /\ call'[p] = NoCall
      BY <1>1, <2>2 DEF AddRequest, CallAs
  <2>4. p # o
      BY <2>3 DEF NoCall, Creating
  <2>. QED  BY <2>1, <2>2, <2>3, <2>4 DEF IInv, CallOK, Creating
<1>. QED  BY <1>1, <1>2, <1>3, StepGrows DEF Writes, Store

LEMMA CreatorsKept ==
    ASSUME IInv, [Next]_vars, NEW o \in Owners, call'[o].op \in Creating
    PROVE  /\ request'[call'[o].id].state = "ABSENT"
           /\ \A p \in Owners \ {o} : call'[p].op \in Creating => call'[p].id # call'[o].id
<1>1. CASE call[o].op \in Creating /\ call'[o].id = call[o].id
  <2>1. ASSUME NEW p \in Owners \ {o}, call'[p].op \in Creating
        PROVE  call'[p].id # call'[o].id
      BY <1>1, <2>1, CreatingKept DEF IInv, CallOK, Fresh, Creating
  <2>. QED  BY <1>1, <2>1, AbsentKept
<1>2. CASE Fresh(call'[o].id) /\ call'[o].id \in Requests
  <2> DEFINE i == call'[o].id
  <2>1. \A p \in Owners : call[p].op \in Creating => call[p].id # i
      BY <1>2 DEF Fresh, Creating
  <2>2. request'[i].state = "ABSENT"
    <3>1. request[i].state = "ABSENT"
        BY <1>2 DEF Fresh, NoRequest
    <3>2. CASE UNCHANGED request
        BY <3>1, <3>2
    <3>3. ASSUME NEW r \in Requests, NEW n \in RequestDoc, Writes(r, n)
          PROVE  r # i
        BY <2>1, <3>1, <3>3, StateNames DEF Writes, AddRequest, Creating
    <3>. QED  BY <1>2, <3>1, <3>2, <3>3, StepGrows DEF Writes, Store, IInv, TypeOK
  <2>3. ASSUME NEW p \in Owners \ {o}, call'[p].op \in Creating
        PROVE  call'[p].id # i
    <3>1. call'[o] # call[o] /\ call'[o] # NoCall
        BY <2>1 DEF NoCall, Creating
    <3>2. call'[p] = call[p]
        BY <3>1, CallSteps
    <3>. QED  BY <2>1, <2>3, <3>2
  <2>. QED  BY <2>2, <2>3
<1>. QED  BY <1>1, <1>2, CreatingKept

LEMMA CallsKept ==
    ASSUME IInv, [Next]_vars, TypeOK', Grows, NEW o \in Owners
    PROVE  CallOK(o)'
<1> DEFINE c == call[o]
           Drawn(x) == x.op = "shares" => /\ x.doc.state = "PENDING_APPROVALS"
                                          /\ x.doc.version = 1 /\ x.doc.attempts = 0
                                          /\ x.doc.quorumAt = Unset
           Copied(x) == x.op = "cancel" =>
                           /\ CopyOf(request'[x.id], x.doc)
                           /\ x.doc.state \notin {"EXECUTING", "RECONCILIATION_REQUIRED"}
<1>1. /\ c \in CallState /\ CallOK(o) /\ TypeOK
      /\ call \in [Owners -> CallState]
    BY DEF IInv, TypeOK
<1>2. ASSUME NEW x, CallAs(o, x)
      PROVE  call'[o] = x
    BY <1>1, <1>2 DEF CallAs
<1>3. Drawn(c) /\ Copied(c) /\ Drawn(NoCall) /\ Copied(NoCall)
    BY <1>1, CallType, CopiesKept DEF CallOK, NoCall
<1>4. CASE call'[o] \in {c, NoCall}
    BY <1>3, <1>4, CreatorsKept DEF CallOK
<1>5. CASE call'[o].op \notin {"shares", "cancel"}
    BY <1>5, CreatorsKept DEF CallOK
<1>6. CASE SnapshotPolicy(o) /\ call'[o] # NoCall
  <2>1. call'[o] = [op |-> "shares", id |-> c.id,
                    doc |-> NewRequest(c.policy, ActiveGuardians), left |-> ActiveGuardians]
      BY <1>2, <1>6 DEF SnapshotPolicy, Snapshotable
  <2>2. LET n == NewRequest(c.policy, ActiveGuardians) IN
        /\ n.state = "PENDING_APPROVALS" /\ n.version = 1 /\ n.attempts = 0
        /\ n.quorumAt = Unset
      BY DEF NewRequest, NoRequest
  <2>. QED  BY <2>1, <2>2, CreatorsKept DEF CallOK
<1>7. CASE SaveShare(o) /\ call'[o] # NoCall
  <2>1. PICK g \in Guardians : call'[o] = [c EXCEPT !.left = @ \ {g}]
      BY <1>2, <1>7 DEF SaveShare, ShareConflict, Sealed
  <2>2. /\ c.op = "shares"
        /\ c \in [op : {"shares"}, id : Requests, doc : RequestDoc, left : SUBSET Guardians]
      BY <1>1, <1>7, CallType DEF SaveShare, Sealed
  <2>3. call'[o].op = "shares" /\ call'[o].doc = c.doc
      BY <2>1, <2>2
  <2>. QED  BY <1>3, <2>2, <2>3, CreatorsKept DEF CallOK
<1>8. ASSUME NEW r \in Requests, BeginCancel(o, r)
      PROVE  CallOK(o)'
  <2>1. /\ call'[o] = [op |-> "cancel", id |-> r, doc |-> request[r], at |-> clock]
        /\ request[r].state \in Active /\ request' = request /\ request[r] \in RequestDoc
        /\ request[r].state \notin {"EXECUTING", "RECONCILIATION_REQUIRED"}
      BY <1>1, <1>2, <1>8 DEF BeginCancel, store, TypeOK
  <2>2. CopyOf(request[r], request[r])
      BY <2>1, CopyOfItself
  <2>. QED  BY <2>1, <2>2 DEF CallOK, Creating
<1>9. CASE BeginDefaultPolicy(o) \/ CreateDefaultPolicy(o)
  <2>1. call'[o] = NoCall \/ call'[o].op \in {"putDefault", "snapshot"}
      BY <1>2, <1>9 DEF BeginDefaultPolicy, CreateDefaultPolicy, PolicyUnchanged
  <2>. QED  BY <1>4, <1>5, <2>1
<1>10. CASE Enrol(o) \/ UpdateGuardian(o) \/ PutPolicy(o) \/ AddRequest(o) \/ Cancel(o)
  <2>1. call'[o] = NoCall
      BY <1>2, <1>10 DEF Enrol, UpdateGuardian, PutPolicy, AddRequest, Cancel
  <2>. QED  BY <1>4, <2>1
<1>11. CASE OwnerBegin(o)
  <2>1. ASSUME NEW g \in Guardians, BeginEnrol(o, g)
        PROVE  call'[o].op = "enrol"
      BY <1>2, <2>1 DEF BeginEnrol
  <2>2. ASSUME NEW g \in Guardians, NEW s \in GuardianStatus, BeginUpdateGuardian(o, g, s)
        PROVE  call'[o].op = "update"
      BY <1>2, <2>2 DEF BeginUpdateGuardian
  <2>3. ASSUME NEW t \in PolicyTerms, BeginPutPolicy(o, t)
        PROVE  call'[o].op = "policy"
      BY <1>2, <2>3 DEF BeginPutPolicy
  <2>4. ASSUME NEW r \in Requests, BeginCreate(o, r)
        PROVE  call'[o].op \in {"snapshot", "default"}
      BY <1>2, <2>4 DEF BeginCreate
  <2>. QED  BY <1>5, <1>8, <1>11, <2>1, <2>2, <2>3, <2>4 DEF OwnerBegin
<1>. QED
    BY <1>4, <1>6, <1>7, <1>9, <1>10, <1>11, CallSteps DEF OwnerStep

LEMMA WorkerMoves ==
    ASSUME IInv, TypeOK', Grows, NEW w \in Workers,
           \/ WorkerStep(w)
           \/ ExecutionError(w)
           \/ \E r \in Requests : Load(w, r)
    PROVE  WorkerOK(w)'
<1> DEFINE s == worker[w]
<1>1. /\ s \in WorkerState /\ TypeOK /\ WorkerOK(w)
      /\ worker \in [Workers -> WorkerState] /\ clock \in Nat
    BY DEF IInv, TypeOK
<1>2. ASSUME NEW x, WorkAs(w, x)
      PROVE  worker'[w] = x
    BY <1>1, <1>2 DEF WorkAs
<1>3. ASSUME WorkAs(w, IdleWorker)
      PROVE  WorkerOK(w)'
    BY <1>2, <1>3 DEF IdleWorker, WorkerOK
<1>4. s.pc # "idle" => /\ s.id \in Requests /\ s.doc \in RequestDoc /\ s.at \in Nat
                       /\ CopyOf(request'[s.id], s.doc) /\ s.at <= clock'
    BY <1>1, WorkerType, CopiesKept DEF WorkerOK, Grows, TypeOK
<1>5. s.pc \in {"claimed", "combined", "rotated"} =>
         /\ s.doc.state = "EXECUTING" /\ s.doc.attempts > 0
         /\ s \in [pc : {"loaded", "ready", "claimed", "combined", "rotated"},
                   id : Requests, doc : RequestDoc, at : Nat]
    BY <1>1, WorkerType DEF WorkerOK
<1>6. ASSUME s.pc \in {"claimed", "combined", "rotated"}, NEW retryable,
             WorkAs(w, Failing(s, retryable))
      PROVE  WorkerOK(w)'
    BY <1>2, <1>4, <1>5, <1>6 DEF Failing, WorkerOK
<1>7. ASSUME NEW r \in Requests, Load(w, r)
      PROVE  WorkerOK(w)'
  <2>1. /\ worker'[w] = [pc |-> "loaded", id |-> r, doc |-> request[r], at |-> clock]
        /\ request[r].state \in Active /\ request[r] \in RequestDoc
        /\ request' = request /\ clock' = clock
      BY <1>1, <1>2, <1>7 DEF Load, store, TypeOK
  <2>2. CopyOf(request[r], request[r])
      BY <2>1, CopyOfItself
  <2>. QED  BY <1>1, <2>1, <2>2 DEF WorkerOK
<1>8. CASE Reconcile(w)
  <2> DEFINE q == Reconciled(s.doc, s.at)
  <2>1. s.pc = "loaded" /\ (q = s.doc \/ Store(s.id, q) \/ WorkAs(w, IdleWorker))
      BY <1>8 DEF Reconcile
  <2>2. CASE q = s.doc \/ Store(s.id, q)
    <3>1. q \in RequestDoc
        BY <1>4, <2>1, ReconciledType
    <3>2. q.state = "READY_FOR_EXECUTION" => CopyOf(request'[s.id], q)
      <4>1. CASE q = s.doc
          BY <1>4, <2>1, <4>1
      <4>2. CASE Store(s.id, q)
        <5>1. request'[s.id] = q
            BY <1>1, <1>4, <2>1, <4>2 DEF Store, TypeOK
        <5>. QED  BY <3>1, <5>1, CopyOfItself DEF Active
      <4>. QED  BY <2>2, <4>1, <4>2
    <3>3. \/ WorkAs(w, IdleWorker)
          \/ /\ q.state = "READY_FOR_EXECUTION"
             /\ worker'[w] = [pc |-> "ready", id |-> s.id, doc |-> q, at |-> s.at]
        BY <1>2, <1>8 DEF Reconcile
    <3> HIDE DEF q
    <3>. QED  BY <1>3, <1>4, <2>1, <3>2, <3>3 DEF WorkerOK
  <2>. QED  BY <1>3, <2>1, <2>2
<1>9. CASE Claim(w)
  <2> DEFINE n == Moved([s.doc EXCEPT !.attempts = @ + 1, !.lease = clock + Lease],
                        "EXECUTING", clock)
  <2>1. s.pc = "ready" /\ s \in [pc : {"loaded", "ready", "claimed", "combined", "rotated"},
                                 id : Requests, doc : RequestDoc, at : Nat]
      BY <1>1, <1>9, WorkerType DEF Claim, Leased
  <2>2. CASE Store(s.id, n) /\ WorkAs(w, [s EXCEPT !.pc = "claimed", !.doc = n])
    <3>1. n \in RequestDoc /\ n.state = "EXECUTING" /\ n.attempts = s.doc.attempts + 1
        BY <1>1, <1>4, <2>1, ClaimedFields
    <3> HIDE DEF n
    <3>2. n.attempts > 0
        BY <1>4, <2>1, <3>1 DEF RequestDoc
    <3>3. request'[s.id] = n
        BY <1>1, <1>4, <2>1, <2>2 DEF Store, TypeOK
    <3>4. CopyOf(n, n)
        BY <3>1, CopyOfItself DEF Active
    <3>5. /\ worker'[w] = [s EXCEPT !.pc = "claimed", !.doc = n]
          /\ worker'[w].pc = "claimed" /\ worker'[w].id = s.id
          /\ worker'[w].doc = n /\ worker'[w].at = s.at
        BY <1>2, <2>1, <2>2
    <3>. QED  BY <1>4, <2>1, <3>1, <3>2, <3>3, <3>4, <3>5 DEF WorkerOK
  <2>. QED  BY <1>3, <1>9, <2>2 DEF Claim, Leased
<1>10. CASE CombineShares(w)
  <2>1. s.pc = "claimed" /\ \/ WorkAs(w, [s EXCEPT !.pc = "combined"])
                            \/ WorkAs(w, Failing(s, FALSE))
      BY <1>10 DEF CombineShares
  <2>2. CASE WorkAs(w, [s EXCEPT !.pc = "combined"])
    <3>1. /\ worker'[w].pc = "combined" /\ worker'[w].id = s.id
          /\ worker'[w].doc = s.doc /\ worker'[w].at = s.at
        BY <1>2, <1>5, <2>1, <2>2
    <3>. QED  BY <1>4, <1>5, <2>1, <3>1 DEF WorkerOK
  <2>. QED  BY <1>6, <2>1, <2>2
<1>11. CASE RotateKey(w)
  <2>1. s.pc = "combined" /\ WorkAs(w, [s EXCEPT !.pc = "rotated"]) /\ s.id \in rotated'
      BY <1>11 DEF RotateKey
  <2>2. /\ worker'[w].pc = "rotated" /\ worker'[w].id = s.id
        /\ worker'[w].doc = s.doc /\ worker'[w].at = s.at
      BY <1>2, <1>5, <2>1
  <2>. QED  BY <1>4, <1>5, <2>1, <2>2 DEF WorkerOK
<1>12. CASE ExecutionError(w)
    BY <1>6, <1>12 DEF ExecutionError, RotationError, StoreError
<1>13. CASE Complete(w)
    BY <1>3, <1>6, <1>13 DEF Complete
<1>14. CASE RecordFailure(w)
    BY <1>3, <1>14 DEF RecordFailure
<1>. QED
    BY <1>7, <1>8, <1>9, <1>10, <1>11, <1>12, <1>13, <1>14 DEF WorkerStep

\* One reconciliation moves at a time; a crash forgets one.
LEMMA WorkerSteps ==
    ASSUME IInv, [Next]_vars, NEW w \in Workers
    PROVE  \/ WorkerStep(w) \/ ExecutionError(w) \/ \E r \in Requests : Load(w, r)
           \/ worker'[w] \in {worker[w], IdleWorker}
<1>1. worker \in [Workers -> WorkerState]
    BY DEF IInv, TypeOK
<1>2. ASSUME NEW v \in Workers, v # w, WorkerStep(v)
      PROVE  worker'[w] = worker[w]
    BY <1>1, <1>2 DEF WorkerStep, Reconcile, Claim, CombineShares, RotateKey, Complete,
                      RecordFailure, WorkAs
<1>3. ASSUME NEW v \in Workers, v # w, ExecutionError(v) \/ \E r \in Requests : Load(v, r)
      PROVE  worker'[w] = worker[w]
    BY <1>1, <1>3 DEF ExecutionError, Load, WorkAs, RotationError, StoreError
<1>4. CASE \E o \in Owners : OwnerStep(o) \/ OwnerBegin(o)
  <2>1. CASE \E o \in Owners : OwnerStep(o)
      BY <2>1 DEF OwnerStep, Enrol, UpdateGuardian, PutPolicy, CreateDefaultPolicy,
                  BeginDefaultPolicy, SnapshotPolicy, SaveShare, AddRequest, Cancel
  <2>2. CASE \E o \in Owners : OwnerBegin(o)
      BY <2>2 DEF OwnerBegin, BeginEnrol, BeginUpdateGuardian, BeginPutPolicy,
                  BeginCreate, BeginCancel
  <2>. QED  BY <1>4, <2>1, <2>2
<1>5. CASE \/ \E d \in Deciders : DeciderStep(d)
           \/ \E d \in Deciders, r \in Requests, g \in Guardians, c \in Choices :
                 BeginDecision(d, r, g, c)
    BY <1>5 DEF DeciderStep, ExpireLate, RecordDecision, CountDecisions, StoreQuorum,
                StartTimelock, BeginDecision
<1>6. CASE Tick \/ UNCHANGED vars
    BY <1>6 DEF Tick, vars, processes
<1>7. CASE Crash
    BY <1>1, <1>7 DEF Crash, WorkAs
<1>. QED  BY <1>2, <1>3, <1>4, <1>5, <1>6, <1>7 DEF Next, Approve, Reject, Choices

LEMMA WorkersKept ==
    ASSUME IInv, [Next]_vars, TypeOK', Grows, NEW w \in Workers
    PROVE  WorkerOK(w)'
<1>1. CASE WorkerStep(w) \/ ExecutionError(w) \/ \E r \in Requests : Load(w, r)
    BY <1>1, WorkerMoves
<1>2. CASE worker'[w] = worker[w]
    BY <1>2, WorkerRests
<1>3. CASE worker'[w] = IdleWorker
    BY <1>3 DEF IdleWorker, WorkerOK
<1>. QED  BY <1>1, <1>2, <1>3, WorkerSteps

\* A true record stays true while approvals, time and rotations only grow.
LEMMA RecordKept ==
    ASSUME IInv, TypeOK', Grows, NEW r \in Requests, NEW q \in RequestDoc, DocOK(r, q)
    PROVE  DocOK(r, q)'
<1> DEFINE S == {g \in q.guardians : approval[r][g] = "APPROVE"}
           T == {g \in q.guardians : approval'[r][g] = "APPROVE"}
<1>1. S \subseteq T /\ T \subseteq Guardians
    BY DEF Grows, RequestDoc
<1>2. IsFiniteSet(T)
    BY <1>1, FS_Subset, ConstantsAssumption
<1>3. IsFiniteSet(S) /\ Cardinality(S) <= Cardinality(T)
    BY <1>1, <1>2, FS_Subset
<1>4. Cardinality(S) \in Nat /\ Cardinality(T) \in Nat
    BY <1>2, <1>3, FS_CardinalityType
<1>5. q.terms.minimum \in Nat /\ q.executableAfter \in Nat /\ clock \in Nat /\ clock' \in Nat
    BY TermsType DEF RequestDoc, IInv, TypeOK
<1>6. Cardinality(S) >= q.terms.minimum => Cardinality(T) >= q.terms.minimum
    BY <1>3, <1>4, <1>5
<1>7. q.executableAfter <= clock => q.executableAfter <= clock'
    BY <1>5 DEF Grows
<1> HIDE DEF S, T
<1>8. /\ q.state \in Approved \/ q.attempts > 0 =>
            /\ Cardinality(T) >= q.terms.minimum /\ q.quorumAt < q.approvalExpires
            /\ q.quorumAt \in 1 .. clock'
      /\ q.state \in Unlocked \/ q.attempts > 0 => q.executableAfter <= clock'
      /\ q.state = "COMPLETED" => r \in rotated'
    BY <1>6, <1>7, MomentKept DEF DocOK, Grows, S, IInv
<1>. QED  BY <1>8 DEF DocOK, T

LEMMA RecordsKept ==
    ASSUME IInv, [Next]_vars, TypeOK', Grows, NEW r \in Requests
    PROVE  DocOK(r, request[r])'
<1>1. request \in [Requests -> RequestDoc] /\ DocOK(r, request[r])
    BY DEF IInv, TypeOK
<1>2. CASE request'[r] = request[r]
    BY <1>1, <1>2, RecordKept
<1>3. CASE \E n \in RequestDoc : Writes(r, n)
  <2>1. PICK n \in RequestDoc : Writes(r, n)
      BY <1>3
  <2>2. request'[r] = n /\ DocOK(r, n)
      BY <1>1, <2>1 DEF Writes, Store
  <2>. QED  BY <2>2, RecordKept
<1>4. request'[r] = request[r] \/ \E n \in RequestDoc : Writes(r, n)
    BY <1>1, StepGrows DEF Writes, Store
<1>. QED  BY <1>2, <1>3, <1>4

LEMMA RotatedKept ==
    ASSUME IInv, [Next]_vars, TypeOK', Grows, NEW r \in rotated'
    PROVE  request'[r].attempts > 0
<1>1. /\ r \in Requests /\ request[r] \in RequestDoc /\ request'[r] \in RequestDoc
    BY DEF IInv, TypeOK
<1>2. request'[r].attempts >= request[r].attempts
    BY <1>1 DEF Grows, Successor, RequestDoc
<1>3. request[r].attempts > 0 => request'[r].attempts > 0
    BY <1>1, <1>2 DEF RequestDoc
<1>4. CASE r \in rotated
    BY <1>3, <1>4 DEF IInv
<1>5. ASSUME NEW w \in Workers, RotateKey(w) \/ ExecutionError(w), r \notin rotated
      PROVE  request[r].attempts > 0
  <2> DEFINE s == worker[w]
  <2>1. s.pc = "combined" /\ r = s.id
    <3>1. CASE RotateKey(w)
        BY <1>5, <3>1 DEF RotateKey
    <3>2. CASE ExecutionError(w)
        BY <1>5, <3>2 DEF ExecutionError, RotationError, StoreError
    <3>. QED  BY <1>5, <3>1, <3>2
  <2>2. s.doc \in RequestDoc /\ CopyOf(request[r], s.doc) /\ s.doc.attempts > 0
      BY <2>1, WorkerType DEF IInv, TypeOK, WorkerOK
  <2>. QED  BY <1>1, <2>2 DEF CopyOf, RequestDoc
<1>6. r \in rotated \/ \E w \in Workers : RotateKey(w) \/ ExecutionError(w)
  <2>1. CASE \E d \in Deciders : DeciderStep(d)
      BY <2>1 DEF DeciderStep, ExpireLate, RecordDecision, CountDecisions, StoreQuorum,
                  StartTimelock
  <2>2. CASE \E o \in Owners : OwnerStep(o)
      BY <2>2 DEF OwnerStep, Enrol, UpdateGuardian, PutPolicy, CreateDefaultPolicy,
                  BeginDefaultPolicy, SnapshotPolicy, SaveShare, AddRequest, Cancel
  <2>3. CASE \E w \in Workers : WorkerStep(w)
      BY <2>3 DEF WorkerStep, Reconcile, Claim, CombineShares, Complete, RecordFailure
  <2>4. CASE \/ Tick \/ Crash \/ UNCHANGED vars
             \/ \E d \in Deciders, q \in Requests, g \in Guardians, c \in Choices :
                   BeginDecision(d, q, g, c)
             \/ \E o \in Owners : OwnerBegin(o)
             \/ \E w \in Workers, q \in Requests : Load(w, q)
      BY <2>4 DEF Tick, Crash, vars, BeginDecision, OwnerBegin, BeginEnrol,
                  BeginUpdateGuardian, BeginPutPolicy, BeginCreate, BeginCancel, Load
  <2>. QED  BY <2>1, <2>2, <2>3, <2>4 DEF Next, Approve, Reject, Choices
<1>. QED  BY <1>3, <1>4, <1>5, <1>6

LEMMA OneActiveKept ==
    ASSUME IInv, [Next]_vars
    PROVE  OneActiveRequest'
<1>1. OneActiveRequest /\ request \in [Requests -> RequestDoc]
    BY DEF IInv, TypeOK
<1>2. CASE UNCHANGED request
    BY <1>1, <1>2 DEF OneActiveRequest
<1>3. ASSUME NEW r \in Requests, NEW n \in RequestDoc, Writes(r, n)
      PROVE  OneActiveRequest'
  <2>1. \A q \in Requests \ {r} : request'[q] = request[q]
      BY <1>1, <1>3 DEF Writes, Store
  <2>2. request[r].state \in Active \/ ~ActiveRequestExists
      BY <1>3 DEF Writes
  <2>. QED  BY <1>1, <2>1, <2>2 DEF OneActiveRequest, ActiveRequestExists
<1>. QED  BY <1>2, <1>3, StepGrows

LEMMA UndecidedKept ==
    ASSUME IInv, [Next]_vars, Grows
    PROVE  Undecided'
<1>1. Undecided /\ TypeOK
    BY DEF IInv
<1>2. \A r \in Requests : request'[r].state = "ABSENT" => request[r].state = "ABSENT"
    BY DEF Grows, Successor
<1>3. CASE UNCHANGED approval
    BY <1>1, <1>2, <1>3 DEF Undecided
<1>4. ASSUME NEW d \in Deciders, RecordDecision(d)
      PROVE  Undecided'
  <2>1. decider[d].pc = "record" /\ decider[d] \in DeciderState /\ DeciderOK(d)
      BY <1>4 DEF RecordDecision, IInv, TypeOK
  <2>2. decider[d].id \in Requests /\ request[decider[d].id].state # "ABSENT"
      BY <2>1, DeciderType DEF DeciderOK
  <2>3. \A r \in Requests \ {decider[d].id} : approval'[r] = approval[r]
      BY <1>1, <1>4 DEF RecordDecision, TypeOK
  <2>. QED  BY <1>1, <1>2, <2>2, <2>3 DEF Undecided
<1>5. UNCHANGED approval \/ \E d \in Deciders : RecordDecision(d)
    BY RecordSteps DEF Tick, store, RotateKey, ExecutionError, RotationError, StoreError
<1>. QED  BY <1>3, <1>4, <1>5

LEMMA InvariantInit == Init => IInv
<1> SUFFICES ASSUME Init PROVE IInv
    OBVIOUS
<1>1. TypeOK
    BY TypeInit
<1>2. \A r \in Requests : request[r] = NoRequest
    BY DEF Init
<1>3. \A r \in Requests : DocOK(r, NoRequest)
    BY DEF DocOK, NoRequest, Approved, Unlocked
<1>4. \A d \in Deciders : DeciderOK(d)
    BY DEF Init, DeciderOK, IdleDecider
<1>5. \A o \in Owners : CallOK(o)
    BY DEF Init, CallOK, NoCall, Creating
<1>6. \A w \in Workers : WorkerOK(w)
    BY DEF Init, WorkerOK, IdleWorker
<1>7. (\A r \in rotated : request[r].attempts > 0) /\ OneActiveRequest
    BY <1>2, StateNames DEF Init, OneActiveRequest, NoRequest
<1>8. clock >= 1 /\ Undecided
    BY DEF Init, Undecided
<1>. QED  BY <1>1, <1>2, <1>3, <1>4, <1>5, <1>6, <1>7, <1>8 DEF IInv

LEMMA InvariantNext == IInv /\ [Next]_vars => IInv'
<1> SUFFICES ASSUME IInv, [Next]_vars PROVE IInv'
    OBVIOUS
<1>1. TypeOK'
    BY TypeDecider, TypeOwnerBegin, TypeOwnerStep, TypeWorker, TypeEnvironment
    DEF Next, IInv, Approve, Reject, Choices
<1>2. Grows
    BY StepGrows
<1>3. (\A r \in Requests : DocOK(r, request[r]))'
    BY <1>1, <1>2, RecordsKept
<1>4. (\A d \in Deciders : DeciderOK(d))'
    BY <1>1, <1>2, DecidersKept
<1>5. (\A o \in Owners : CallOK(o))'
    BY <1>1, <1>2, CallsKept
<1>6. (\A w \in Workers : WorkerOK(w))'
    BY <1>1, <1>2, WorkersKept
<1>7. (\A r \in rotated : request[r].attempts > 0)'
    BY <1>1, <1>2, RotatedKept
<1>8. (clock >= 1)' /\ Undecided'
    BY <1>1, <1>2, UndecidedKept DEF Grows, IInv, TypeOK
<1>. QED  BY <1>1, <1>3, <1>4, <1>5, <1>6, <1>7, <1>8, OneActiveKept DEF IInv

\* Every stored record is true and every process knows what it acts on, in every
\* interleaving of decisions, owner calls, workers and crashes.
THEOREM Invariant == Spec => []IInv
    BY InvariantInit, InvariantNext, PTL DEF Spec

-----------------------------------------------------------------------------
(* What follows from the invariant *)

\* No key is rotated without the quorum and the whole time lock, for any number
\* of guardians, requests, calls, workers, crashes and retries.
THEOREM RotationIsAuthorised == Spec => []RotationAuthorised
<1>1. IInv => RotationAuthorised
  <2>1. SUFFICES ASSUME IInv, NEW r \in rotated
                 PROVE  LET q == request[r] IN
                        /\ Cardinality(Approvers(r)) >= q.terms.minimum
                        /\ q.quorumAt < q.approvalExpires
                        /\ q.executableAfter = q.quorumAt + q.terms.timelock
                        /\ q.executableAfter <= clock
                        /\ q.attempts > 0
                        /\ q.state \notin Unclaimed
      BY DEF RotationAuthorised, Unclaimed
  <2>2. r \in Requests /\ request[r] \in RequestDoc /\ DocOK(r, request[r])
      BY <2>1 DEF IInv, TypeOK
  <2>3. request[r].attempts > 0
      BY <2>1 DEF IInv
  <2>. QED  BY <2>2, <2>3 DEF DocOK, Approvers, RequestDoc
<1>. QED  BY <1>1, Invariant, PTL

\* A completed request has rotated its key.
THEOREM CompletionIsTrue == Spec => []CompletedMeansRotated
<1>1. IInv => CompletedMeansRotated
    BY DEF IInv, DocOK, CompletedMeansRotated
<1>. QED  BY <1>1, Invariant, PTL

\* A wallet never has two requests in flight.
THEOREM RequestsAreSequential == Spec => []OneActiveRequest
<1>1. IInv => OneActiveRequest
    BY DEF IInv
<1>. QED  BY <1>1, Invariant, PTL

\* No late call, worker or retry writes a request that has ended.
THEOREM EndedRequestsStay == Spec => TerminalIsFinal
<1>1. ASSUME IInv, [Next]_vars
      PROVE  [\A r \in Requests :
                 request[r].state \in Terminal => request'[r] = request[r]]_vars
  <2>1. ASSUME NEW r \in Requests, request[r].state \in Terminal
        PROVE  request'[r] = request[r]
    <3>1. request[r].state \notin Active /\ request[r] # NoRequest
        BY <2>1 DEF Terminal, Active, NoRequest
    <3>. QED  BY <1>1, <3>1, StepGrows DEF Grows, Successor
  <2>. QED  BY <2>1
<1>. QED  BY <1>1, Invariant, PTL DEF Spec, TerminalIsFinal

-----------------------------------------------------------------------------
\* Every writer, however old the copy it decided on, moves a request along the state
\* machine.
THEOREM WritersMoveLegally == Spec => LegalTransitions
<1>1. ASSUME IInv, [Next]_vars
      PROVE  [\A r \in Requests :
                 \/ request'[r].state = request[r].state
                 \/ request'[r].state \in Transitions[request[r].state]
                 \/ request[r].state = "ABSENT" /\ request'[r].state = "PENDING_APPROVALS"]_vars
    BY <1>1, StepGrows DEF Grows, Successor, NoRequest
<1>. QED  BY <1>1, Invariant, PTL DEF Spec, LegalTransitions

-----------------------------------------------------------------------------
(* The promise to the owner *)

\* What the promise's variables are in Recovery, besides asked and approval.
Stages == [r \in Requests |-> Stage(request[r])]
OpenedWith(q) ==
    [threshold |-> q.terms.minimum, lock |-> q.terms.timelock, team |-> q.guardians]
Openings == [r \in Requests |-> OpenedWith(request[r])]
LockEnd(q) == IF q.quorumAt = Unset THEN 0 ELSE q.quorumAt + q.terms.timelock
LockEnds == [r \in Requests |-> LockEnd(request[r])]
Released == {r \in Requests : request[r].attempts > 0}
Promised == <<clock, Stages, Openings, asked, approval, LockEnds, Released, rotated>>

\* A call that records or counts a decision is noted with the time it came in, and
\* counts only after it has recorded one.
AskedOK(d) ==
    LET s == decider[d] IN
    /\ s.pc \in {"record", "count", "decide", "lock"} =>
          <<s.guardian, s.at>> \in asked[s.id]
    /\ s.pc \in {"count", "decide", "lock"} => approval[s.id][s.guardian] # "NONE"

CallsNoted ==
    /\ asked \in [Requests -> SUBSET (Guardians \X Nat)]
    /\ \A d \in Deciders : AskedOK(d)

LEMMA CallsNotedInit == RecordedInit => CallsNoted
    BY DEF RecordedInit, Init, CallsNoted, AskedOK, IdleDecider

LEMMA DecisionsStay ==
    ASSUME IInv, [Next]_vars, NEW r \in Requests, NEW g \in Guardians,
           approval[r][g] # "NONE"
    PROVE  approval'[r][g] # "NONE"
<1>1. approval \in [Requests -> [Guardians -> Choices \cup {"NONE"}]]
    BY DEF IInv, TypeOK
<1>2. ASSUME NEW d \in Deciders, RecordDecision(d)
      PROVE  approval'[r][g] # "NONE"
  <2>1. decider[d].choice # "NONE"
      BY <1>2, DeciderType DEF RecordDecision, IInv, TypeOK, Choices
  <2>. QED  BY <1>1, <1>2, <2>1 DEF RecordDecision
<1>3. UNCHANGED approval \/ \E d \in Deciders : RecordDecision(d)
    BY RecordSteps DEF Tick, store, RotateKey, ExecutionError, RotationError, StoreError
<1>. QED  BY <1>2, <1>3

LEMMA CallsNotedNext == IInv /\ CallsNoted /\ [Next]_vars /\ Noted => CallsNoted'
<1> SUFFICES ASSUME IInv, CallsNoted, [Next]_vars, Noted
             PROVE  CallsNoted'
    OBVIOUS
<1>1. /\ decider \in [Deciders -> DeciderState] /\ clock \in Nat
      /\ approval \in [Requests -> [Guardians -> Choices \cup {"NONE"}]]
    BY DEF IInv, TypeOK
<1>2. /\ asked \in [Requests -> SUBSET (Guardians \X Nat)]
      /\ \A r \in Requests : asked'[r] = asked[r] \cup (Asking(r) \X {clock})
      /\ asked' = [r \in Requests |-> asked[r] \cup (Asking(r) \X {clock})]
    BY DEF CallsNoted, Noted
<1>3. \A r \in Requests : Asking(r) \subseteq Guardians
    BY DEF Asking
<1>4. asked' \in [Requests -> SUBSET (Guardians \X Nat)]
    BY <1>1, <1>2, <1>3
<1>5. ASSUME NEW d \in Deciders
      PROVE  AskedOK(d)'
  <2> DEFINE s == decider[d]
  <2>1. s \in DeciderState /\ AskedOK(d)
      BY <1>1 DEF CallsNoted
  <2>2. s.pc \in {"record", "count", "decide", "lock"} =>
           s.id \in Requests /\ s.guardian \in Guardians /\ <<s.guardian, s.at>> \in asked'[s.id]
      BY <1>2, <2>1, DeciderType DEF AskedOK
  <2>3. s.pc \in {"count", "decide", "lock"} => approval'[s.id][s.guardian] # "NONE"
      BY <2>1, <2>2, DecisionsStay DEF AskedOK
  <2>4. ASSUME NEW x, DecideAs(d, x)
        PROVE  decider'[d] = x
      BY <1>1, <2>4 DEF DecideAs
  <2>5. CASE decider'[d] = IdleDecider
      BY <2>5 DEF AskedOK, IdleDecider
  <2>6. CASE decider'[d] = s
      BY <2>2, <2>3, <2>6 DEF AskedOK
  <2>7. ASSUME decider'[d].pc \in {"count", "decide", "lock"}, decider'[d].id = s.id,
               decider'[d].guardian = s.guardian, decider'[d].at = s.at,
               s.pc \in {"count", "decide", "lock"}
        PROVE  AskedOK(d)'
      BY <2>2, <2>3, <2>7 DEF AskedOK
  <2>8. ASSUME NEW r \in Requests, NEW g \in Guardians, NEW c \in Choices,
               BeginDecision(d, r, g, c)
        PROVE  AskedOK(d)'
    <3>1. CASE DecideAs(d, [pc |-> "late", id |-> r, doc |-> request[r], at |-> clock])
        BY <2>4, <3>1 DEF AskedOK
    <3>2. CASE DecideAs(d, [pc |-> "record", id |-> r, guardian |-> g, choice |-> c,
                            at |-> clock])
      <4>1. /\ decider'[d].pc = "record" /\ decider'[d].id = r
            /\ decider'[d].guardian = g /\ decider'[d].at = clock
          BY <2>4, <3>2
      <4>2. s = IdleDecider
          BY <2>1, <2>8 DEF BeginDecision, DeciderState, IdleDecider
      <4>3. g \in Asking(r)
          BY <4>1, <4>2 DEF Asking
      <4>. QED  BY <1>2, <4>1, <4>3 DEF AskedOK
    <3>. QED  BY <2>8, <3>1, <3>2 DEF BeginDecision
  <2>9. CASE RecordDecision(d) /\ decider'[d] # IdleDecider
    <3>1. /\ decider'[d] = [pc |-> "count", id |-> s.id, guardian |-> s.guardian,
                            at |-> s.at, tries |-> 0]
          /\ approval' = [approval EXCEPT ![s.id][s.guardian] = s.choice]
          /\ s.pc = "record"
        BY <2>4, <2>9 DEF RecordDecision
    <3>2. s.choice # "NONE"
        BY <2>1, <3>1, DeciderType DEF Choices
    <3>3. approval'[s.id][s.guardian] # "NONE"
        BY <1>1, <2>2, <3>1, <3>2
    <3>. QED  BY <2>2, <3>1, <3>3 DEF AskedOK
  <2>10. CASE CountDecisions(d)
      BY <2>4, <2>5, <2>7, <2>10 DEF CountDecisions
  <2>11. ASSUME RetryOrGiveUp(d, s), s.pc \in {"decide", "lock"}
         PROVE  AskedOK(d)'
      BY <2>4, <2>5, <2>7, <2>11 DEF RetryOrGiveUp
  <2>12. CASE StoreQuorum(d)
    <3>1. CASE DecideAs(d, [pc |-> "lock", id |-> s.id, guardian |-> s.guardian,
                            at |-> s.at, tries |-> s.tries, doc |-> QuorumOutcome(s)])
      <4> DEFINE n == QuorumOutcome(s)
      <4> HIDE DEF n
      <4>1. decider'[d] = [pc |-> "lock", id |-> s.id, guardian |-> s.guardian,
                           at |-> s.at, tries |-> s.tries, doc |-> n]
          BY <2>4, <3>1 DEF n
      <4>. QED  BY <2>7, <2>12, <4>1 DEF StoreQuorum
    <3>. QED  BY <2>4, <2>5, <2>11, <2>12, <3>1 DEF StoreQuorum
  <2>13. CASE StartTimelock(d)
      BY <2>4, <2>5, <2>11, <2>13 DEF StartTimelock
  <2>14. CASE ExpireLate(d)
      BY <2>4, <2>5, <2>14 DEF ExpireLate
  <2>. QED
      BY <2>5, <2>6, <2>8, <2>9, <2>10, <2>12, <2>13, <2>14, DeciderSteps DEF DeciderStep
<1>. QED  BY <1>4, <1>5 DEF CallsNoted

\* The promise counts as the standard module does.
LEMMA PromiseCounts == \A S : Promise!Cardinality(S) = Cardinality(S)
    BY DEF Promise!Cardinality, Cardinality

LEMMA PromisedIs == Promise!promise = Promised /\ (Promise!promise)' = Promised'
    BY DEF Promise!promise, Promised, Stages, OpenedWith, Openings, LockEnd, LockEnds,
           Released

\* The stages a state stands for.
LEMMA StageIs ==
    ASSUME NEW q
    PROVE  /\ q.state = "ABSENT" => Stage(q) = "none"
           /\ q.state = "PENDING_APPROVALS" => Stage(q) = "collecting"
           /\ q.state \in Approved \ {"COMPLETED"} => Stage(q) = "approved"
           /\ q.state = "COMPLETED" => Stage(q) = "completed"
           /\ q.state \in {"REJECTED", "CANCELLED", "EXPIRED", "FAILED"} =>
                 Stage(q) = "withdrawn"
<1>1. q.state = "ABSENT" => Stage(q) = "none"
    BY DEF Stage, Terminal
<1>2. q.state = "PENDING_APPROVALS" => Stage(q) = "collecting"
    BY DEF Stage, Terminal
<1>3. q.state \in Approved \ {"COMPLETED"} => Stage(q) = "approved"
    BY DEF Stage, Terminal, Approved
<1>4. q.state = "COMPLETED" => Stage(q) = "completed"
    BY DEF Stage, Terminal
<1>5. q.state \in {"REJECTED", "CANCELLED", "EXPIRED", "FAILED"} => Stage(q) = "withdrawn"
    BY DEF Stage, Terminal
<1>. QED  BY <1>1, <1>2, <1>3, <1>4, <1>5

LEMMA PromiseInit == RecordedInit => Promise!Init
<1> SUFFICES ASSUME RecordedInit PROVE Promise!Init
    OBVIOUS
<1>1. /\ clock \in Nat /\ rotated = {} /\ asked = [r \in Requests |-> {}]
      /\ approval = [r \in Requests |-> [g \in Guardians |-> "NONE"]]
    BY DEF RecordedInit, Init
<1>2. \A r \in Requests : request[r] = NoRequest
    BY DEF RecordedInit, Init
<1>3. Stages = [r \in Requests |-> "none"]
    BY <1>2, StageIs DEF Stages, NoRequest
<1>4. Openings \in [Requests -> [threshold : Nat, lock : Nat, team : SUBSET Guardians]]
    BY <1>2, TermsType, ConstantsAssumption DEF Openings, OpenedWith, NoRequest
<1>5. LockEnds = [r \in Requests |-> 0]
    BY <1>2 DEF LockEnds, LockEnd, NoRequest
<1>6. Released = {}
    BY <1>2 DEF Released, NoRequest
<1>. QED
    BY <1>1, <1>3, <1>4, <1>5, <1>6
    DEF Promise!Init, Stages, OpenedWith, Openings, LockEnd, LockEnds, Released

\* What a write does to what the promise speaks of.
LEMMA WriteMaps ==
    ASSUME IInv, NEW r \in Requests, NEW n \in RequestDoc, Writes(r, n)
    PROVE  /\ UNCHANGED <<clock, rotated, approval>>
           /\ Stages' = [Stages EXCEPT ![r] = Stage(n)]
           /\ Openings' = [Openings EXCEPT ![r] = OpenedWith(n)]
           /\ LockEnds' = [LockEnds EXCEPT ![r] = LockEnd(n)]
           /\ n.attempts > 0 => Released' = Released \cup {r}
           /\ ~(n.attempts > 0) => Released' = Released
<1>1. /\ request \in [Requests -> RequestDoc]
      /\ request' = [request EXCEPT ![r] = n] /\ UNCHANGED <<clock, approval, rotated>>
      /\ Successor(request[r], n)
    BY DEF Writes, Store, IInv, TypeOK
<1>2. request'[r] = n /\ \A s \in Requests \ {r} : request'[s] = request[s]
    BY <1>1
<1>3. /\ Stages' = [Stages EXCEPT ![r] = Stage(n)]
      /\ Openings' = [Openings EXCEPT ![r] = OpenedWith(n)]
      /\ LockEnds' = [LockEnds EXCEPT ![r] = LockEnd(n)]
    BY <1>2 DEF Stages, Openings, LockEnds
<1>4. request[r].attempts > 0 => n.attempts > 0
    BY <1>1 DEF Successor, RequestDoc
<1>5. /\ n.attempts > 0 => Released' = Released \cup {r}
      /\ ~(n.attempts > 0) => Released' = Released
    BY <1>2, <1>4 DEF Released
<1>. QED  BY <1>1, <1>3, <1>5

LEMMA SameAt ==
    ASSUME NEW S, NEW f, f = [x \in S |-> f[x]], NEW r \in S, NEW v, f[r] = v
    PROVE  [f EXCEPT ![r] = v] = f
    BY Zenon

LEMMA MapsAre ==
    /\ Stages = [x \in Requests |-> Stages[x]]
    /\ Openings = [x \in Requests |-> Openings[x]]
    /\ LockEnds = [x \in Requests |-> LockEnds[x]]
    BY DEF Stages, Openings, LockEnds

\* A write that leaves stage, terms, team and attempts as they were shows nothing.
LEMMA SilentWrite ==
    ASSUME IInv, NEW r \in Requests, NEW n \in RequestDoc, Writes(r, n), UNCHANGED asked,
           Stage(n) = Stage(request[r]), n.terms = request[r].terms,
           n.guardians = request[r].guardians,
           n.quorumAt = request[r].quorumAt, n.attempts = request[r].attempts
    PROVE  Promised' = Promised
<1>1. OpenedWith(n) = OpenedWith(request[r]) /\ LockEnd(n) = LockEnd(request[r])
    BY DEF OpenedWith, LockEnd
<1>2. Stages' = Stages /\ Openings' = Openings /\ LockEnds' = LockEnds
  <2>1. /\ Stages[r] = Stage(n) /\ Openings[r] = OpenedWith(n)
        /\ LockEnds[r] = LockEnd(n)
      BY <1>1 DEF Stages, Openings, LockEnds
  <2>. QED  BY <2>1, WriteMaps, MapsAre, SameAt
<1>3. n.attempts > 0 <=> r \in Released
    BY DEF Released
<1>. QED  BY <1>2, <1>3, WriteMaps DEF Promised

\* A request that waits, and still does or has its quorum then, is written by a count.
LEMMA CountWrites ==
    ASSUME IInv, [Next]_vars, NEW r \in Requests,
           request[r].state = "PENDING_APPROVALS",
           request'[r].state \in {"PENDING_APPROVALS", "QUORUM_REACHED"},
           request'[r] # request[r]
    PROVE  \E d \in Deciders : /\ StoreQuorum(d)
                               /\ decider[d].id = r
                               /\ Unchanged(r, decider[d].doc)
<1>1. /\ request \in [Requests -> RequestDoc] /\ TypeOK
      /\ decider \in [Deciders -> DeciderState] /\ worker \in [Workers -> WorkerState]
      /\ call \in [Owners -> CallState]
    BY DEF IInv, TypeOK
<1>2. ASSUME NEW i, NEW n, Store(i, n), n.state \notin {"PENDING_APPROVALS", "QUORUM_REACHED"}
      PROVE  FALSE
    BY <1>1, <1>2 DEF Store
<1>3. ASSUME NEW d \in Deciders, DeciderStep(d)
      PROVE  /\ StoreQuorum(d) /\ decider[d].id = r
             /\ Unchanged(r, decider[d].doc)
  <2> DEFINE s == decider[d]
  <2>1. CASE ExpireLate(d)
    <3>1. s.doc \in RequestDoc /\ s.at \in Nat
        BY <1>1, <2>1, DeciderType DEF ExpireLate
    <3>2. Store(s.id, Moved(s.doc, "EXPIRED", s.at))
        BY <2>1 DEF ExpireLate
    <3>. QED  BY <1>2, <3>1, <3>2, MovedFields, StateNames
  <2>2. CASE StartTimelock(d)
    <3>1. s.doc \in RequestDoc /\ s.at \in Nat
        BY <1>1, <2>2, DeciderType DEF StartTimelock
    <3>2. Store(s.id, Locked(s.doc, s.at))
        BY <2>2 DEF StartTimelock
    <3>. QED  BY <1>2, <3>1, <3>2, LockedFields
  <2>3. CASE StoreQuorum(d)
      BY <1>1, <2>3 DEF StoreQuorum, Store
  <2>. QED  BY <1>3, <2>1, <2>2, <2>3 DEF DeciderStep, RecordDecision, CountDecisions, store
<1>4. ASSUME NEW o \in Owners, OwnerStep(o)
      PROVE  FALSE
  <2> DEFINE c == call[o]
  <2>1. CASE AddRequest(o)
    <3>1. request[c.id].state = "ABSENT" /\ Store(c.id, c.doc)
        BY <2>1 DEF AddRequest, IInv, CallOK, Creating
    <3>. QED  BY <3>1 DEF Store
  <2>2. CASE Cancel(o)
    <3>1. c.doc \in RequestDoc /\ c.at \in Nat
        BY <1>1, <2>2, CallType DEF Cancel
    <3>2. Store(c.id, Moved(c.doc, "CANCELLED", c.at))
        BY <2>2 DEF Cancel
    <3>. QED  BY <1>2, <3>1, <3>2, MovedFields, StateNames
  <2>. QED  BY <1>4, <2>1, <2>2 DEF OwnerStep, Enrol, UpdateGuardian, PutPolicy,
                BeginDefaultPolicy, CreateDefaultPolicy, SnapshotPolicy, SaveShare, store
<1>5. ASSUME NEW w \in Workers, WorkerStep(w)
      PROVE  FALSE
  <2> DEFINE s == worker[w]
             l == [s.doc EXCEPT !.lease = Unset]
  <2>1. s.pc # "idle" => s.doc \in RequestDoc /\ s.at \in Nat /\ s.doc.state \in Active
      BY <1>1, WorkerType DEF IInv, WorkerOK, CopyOf
  <2>2. clock \in Nat
      BY <1>1 DEF TypeOK
  <2>3. CASE Reconcile(w)
    <3>1. /\ s.doc \in RequestDoc /\ s.at \in Nat /\ s.doc.state \in Active
          /\ Reconciled(s.doc, s.at) # s.doc /\ Store(s.id, Reconciled(s.doc, s.at))
        BY <2>1, <2>3 DEF Reconcile
    <3>2. Reconciled(s.doc, s.at).state \notin {"PENDING_APPROVALS", "QUORUM_REACHED"}
        BY <3>1, ReconciledFields
    <3>. QED  BY <1>2, <3>1, <3>2
  <2>4. CASE Claim(w)
    <3>1. /\ s.doc \in RequestDoc
          /\ Store(s.id, Moved([s.doc EXCEPT !.attempts = @ + 1, !.lease = clock + Lease],
                               "EXECUTING", clock))
        BY <2>1, <2>4 DEF Claim, Leased
    <3>. QED  BY <1>1, <1>2, <3>1, ClaimedFields
  <2>5. CASE Complete(w)
    <3>1. s.doc \in RequestDoc /\ Store(s.id, Moved(l, "COMPLETED", clock))
        BY <2>1, <2>5 DEF Complete
    <3>2. l \in RequestDoc
        BY <3>1, LeaselessFields
    <3>3. Moved(l, "COMPLETED", clock).state = "COMPLETED"
        BY <2>2, <3>2, MovedFields, StateNames
    <3>. QED  BY <1>2, <3>1, <3>3
  <2>6. CASE RecordFailure(w)
    <3>1. PICK t \in {"RECONCILIATION_REQUIRED", "FAILED"} :
               s.doc \in RequestDoc /\ Store(s.id, Moved(l, t, clock))
        BY <2>1, <2>6 DEF RecordFailure
    <3>2. l \in RequestDoc
        BY <3>1, LeaselessFields
    <3>3. Moved(l, t, clock).state = t
        BY <2>2, <3>2, MovedFields, StateNames
    <3>. QED  BY <1>2, <3>1, <3>3
  <2>. QED  BY <1>5, <2>3, <2>4, <2>5, <2>6 DEF WorkerStep, CombineShares, RotateKey, store
<1>6. CASE \/ Tick \/ Crash \/ UNCHANGED vars
           \/ \E d \in Deciders, x \in Requests, g \in Guardians, c \in Choices :
                 BeginDecision(d, x, g, c)
           \/ \E o \in Owners : OwnerBegin(o)
           \/ \E w \in Workers : ExecutionError(w)
           \/ \E w \in Workers, x \in Requests : Load(w, x)
    BY <1>6 DEF Tick, Crash, vars, BeginDecision, OwnerBegin, BeginEnrol,
                BeginUpdateGuardian, BeginPutPolicy, BeginCreate, BeginCancel,
                ExecutionError, Load, store, RotationError, StoreError
<1>. QED  BY <1>3, <1>4, <1>5, <1>6 DEF Next, Approve, Reject, Choices

LEMMA WriteKept ==
    ASSUME IInv, CallsNoted, [Next]_vars, UNCHANGED asked,
           NEW r \in Requests, NEW n \in RequestDoc, Writes(r, n)
    PROVE  Promise!Next \/ Promised' = Promised
<1> DEFINE p == request[r]
<1>1. /\ p \in RequestDoc /\ Successor(p, n) /\ DocOK(r, p) /\ DocOK(r, n)
      /\ clock \in Nat
    BY DEF Writes, IInv, TypeOK
<1>2. /\ UNCHANGED <<clock, rotated, approval>>
      /\ Stages' = [Stages EXCEPT ![r] = Stage(n)]
      /\ Openings' = [Openings EXCEPT ![r] = OpenedWith(n)]
      /\ LockEnds' = [LockEnds EXCEPT ![r] = LockEnd(n)]
      /\ n.attempts > 0 => Released' = Released \cup {r}
      /\ ~(n.attempts > 0) => Released' = Released
    BY WriteMaps
<1>3. /\ Stages[r] = Stage(p) /\ Openings[r] = OpenedWith(p)
      /\ LockEnds[r] = LockEnd(p)
      /\ r \in Released <=> p.attempts > 0
    BY DEF Stages, Openings, LockEnds, Released
<1>4. n.terms = p.terms /\ n.guardians = p.guardians => Openings' = Openings
    BY <1>2 DEF Openings, OpenedWith
<1>5. n.quorumAt = p.quorumAt /\ n.terms = p.terms => LockEnds' = LockEnds
  <2>1. n.quorumAt = p.quorumAt /\ n.terms = p.terms => LockEnd(n) = LockEnds[r]
      BY <1>3 DEF LockEnd
  <2>. QED  BY <1>2, <2>1, MapsAre, SameAt
<1>6. n.attempts = p.attempts => Released' = Released
    BY <1>2, <1>3
<1>7. p.terms.minimum \in Nat /\ p.terms.timelock \in Nat /\ p.quorumAt \in Nat
    BY <1>1, TermsType DEF RequestDoc
<1> HIDE DEF p
<1>8. CASE p = NoRequest
  <2>1. /\ Stage(p) = "none" /\ Stage(n) = "collecting" /\ n.attempts = 0
        /\ n.quorumAt = p.quorumAt
      BY <1>1, <1>8, StageIs DEF Successor, NoRequest, Active
  <2>2. OpenedWith(n) \in [threshold : Nat \ {0}, lock : Nat, team : SUBSET Guardians]
      BY TermsType DEF OpenedWith, RequestDoc
  <2>3. \A s \in Requests : Stages[s] \notin {"collecting", "approved"}
    <3>1. ~ActiveRequestExists
        BY <1>8, StateNames DEF Writes, NoRequest, p
    <3>2. ASSUME NEW s \in Requests
          PROVE  Stage(request[s]) \notin {"collecting", "approved"}
      <4>1. request[s].state \in RecoveryState \ Active
          BY <3>1 DEF ActiveRequestExists, IInv, TypeOK, RequestDoc
      <4>2. \/ request[s].state \in {"ABSENT", "COMPLETED"}
            \/ request[s].state \in {"REJECTED", "CANCELLED", "EXPIRED", "FAILED"}
          BY <4>1 DEF RecoveryState, Terminal
      <4>. QED  BY <4>2, StageIs
    <3>. QED  BY <3>2 DEF Stages
  <2>4. Openings'[r] = OpenedWith(n)
      BY <1>2 DEF Openings
  <2>5. LockEnds' = LockEnds /\ Released' = Released
    <3>1. LockEnd(n) = 0 /\ LockEnds[r] = 0
        BY <1>3, <1>8, <2>1 DEF LockEnd, NoRequest
    <3>. QED  BY <1>2, <1>3, <1>8, <2>1, <3>1, MapsAre, SameAt DEF NoRequest
  <2>6. Promise!Start(r)
      BY <1>2, <1>3, <2>1, <2>2, <2>3, <2>4, <2>5
      DEF Promise!Start, Promise!Open, Stages, OpenedWith, Openings, LockEnd,
          LockEnds, Released
  <2>. QED  BY <2>6 DEF Promise!Next
<1>9. CASE p.state \in Active /\ n.terms = p.terms
  <2>1. /\ n.guardians = p.guardians
        /\ n.state \in Transitions[p.state] \cup {p.state}
        /\ \/ n.quorumAt = p.quorumAt
           \/ p.state = "PENDING_APPROVALS" /\ n.state = "QUORUM_REACHED"
        /\ \/ n.attempts = p.attempts
           \/ p.state = "READY_FOR_EXECUTION" /\ n.state = "EXECUTING"
      BY <1>1, <1>9 DEF Successor, NoRequest, Active
  <2>2. CASE n.state \in {"REJECTED", "CANCELLED", "EXPIRED", "FAILED"}
    <3>1. Stage(n) = "withdrawn" /\ Stage(p) \in {"collecting", "approved"}
        BY <1>9, <2>2, StageIs DEF Active, Approved
    <3>2. n.quorumAt = p.quorumAt /\ n.attempts = p.attempts
        BY <2>1, <2>2
    <3>3. Promise!Withdraw(r)
        BY <1>2, <1>3, <1>4, <1>5, <1>6, <1>9, <2>1, <3>1, <3>2
        DEF Promise!Withdraw, Promise!Open, Stages, OpenedWith, Openings,
            LockEnd, LockEnds, Released
    <3>. QED  BY <3>3 DEF Promise!Next
  <2>3. CASE n.state = "COMPLETED"
    <3>1. Stage(n) = "completed" /\ Stage(p) = "approved" /\ r \in rotated
        BY <1>1, <1>9, <2>1, <2>3, StageIs
        DEF Active, Approved, Transitions, RecoveryState, DocOK
    <3>2. n.quorumAt = p.quorumAt /\ n.attempts = p.attempts
        BY <2>1, <2>3
    <3>3. Promise!Complete(r)
        BY <1>2, <1>3, <1>4, <1>5, <1>6, <1>9, <2>1, <3>1, <3>2
        DEF Promise!Complete, Stages, OpenedWith, Openings,
            LockEnd, LockEnds, Released
    <3>. QED  BY <3>3 DEF Promise!Next
  <2>4. CASE p.state = "PENDING_APPROVALS" /\ n.state = "QUORUM_REACHED"
    <3>1. Stage(n) = "approved" /\ Stage(p) = "collecting" /\ n.attempts = p.attempts
        BY <2>1, <2>4, StageIs DEF Approved
    <3>2. Cardinality({g \in Openings[r].team : approval[r][g] = "APPROVE"})
             >= Openings[r].threshold
        BY <1>1, <1>3, <1>9, <2>1, <2>4 DEF DocOK, Approved, OpenedWith, p
    <3>3. PICK d \in Deciders : /\ StoreQuorum(d) /\ decider[d].id = r
                                /\ Unchanged(r, decider[d].doc)
      <4>1. request'[r] = n /\ request[r] # n
          BY <1>1, <2>4 DEF Writes, Store, IInv, TypeOK, p
      <4>. QED  BY <2>4, <4>1, CountWrites DEF p
    <3> DEFINE s == decider[d]
    <3>4. /\ s.doc \in RequestDoc /\ s.approvals \subseteq Guardians /\ s.at \in Nat
          /\ s.guardian \in Guardians
          /\ <<s.guardian, s.at>> \in asked[r] /\ approval[r][s.guardian] # "NONE"
        BY <3>3, DeciderType DEF StoreQuorum, IInv, TypeOK, CallsNoted, AskedOK
    <3>5. n.quorumAt = s.at
      <4>1. n = QuorumOutcome(s)
          BY <3>3 DEF StoreQuorum, Writes, Store, IInv, TypeOK
      <4>. QED  BY <2>4, <3>4, <4>1, QuorumOutcomeFields
    <3>6. n.quorumAt \in 1 .. clock
        BY <1>1, <2>4 DEF DocOK, Approved
    <3>7. LockEnd(n) = s.at + Openings[r].lock
        BY <1>3, <1>9, <3>5, <3>6 DEF LockEnd, OpenedWith, Unset
    <3>8. PICK k \in asked[r] : k[1] = s.guardian /\ k[2] = s.at
        BY <3>4
    <3>9. \E c \in asked[r] :
             /\ approval[r][c[1]] # "NONE"
             /\ LockEnds' = [LockEnds EXCEPT ![r] = c[2] + Openings[r].lock]
        BY <1>2, <3>4, <3>7, <3>8
    <3>10. /\ Stages[r] = "collecting" /\ Stages' = [Stages EXCEPT ![r] = "approved"]
           /\ UNCHANGED <<clock, rotated, approval, Openings, Released, asked>>
        BY <1>2, <1>3, <1>4, <1>6, <1>9, <2>1, <3>1
    <3>11. Promise!Agree(r)
        BY <3>2, <3>9, <3>10, PromiseCounts
        DEF Promise!Agree, Stages, OpenedWith, Openings, LockEnd, LockEnds, Released
    <3>. QED  BY <3>11 DEF Promise!Next
  <2>5. CASE p.state = "READY_FOR_EXECUTION" /\ n.state = "EXECUTING"
    <3>1. Stage(n) = "approved" /\ Stage(p) = "approved" /\ n.quorumAt = p.quorumAt
        BY <2>1, <2>5, StageIs DEF Approved
    <3>2. clock >= LockEnd(p)
        BY <1>1, <1>7, <2>5 DEF DocOK, Approved, Unlocked, LockEnd, Unset
    <3>3. CASE n.attempts > 0
      <4>1. /\ Stages[r] = "approved" /\ clock >= LockEnds[r]
            /\ Released' = Released \cup {r} /\ Stages' = Stages
            /\ UNCHANGED <<clock, rotated, approval, Openings, LockEnds>>
          BY <1>2, <1>3, <1>4, <1>5, <1>9, <2>1, <3>1, <3>2, <3>3 DEF Stages
      <4>2. Promise!Release(r)
          BY <4>1
          DEF Promise!Release, Stages, OpenedWith, Openings, LockEnd, LockEnds,
              Released
      <4>. QED  BY <4>2 DEF Promise!Next
    <3>4. CASE ~(n.attempts > 0)
      <4>1. Released' = Released /\ Stages' = Stages
          BY <1>2, <3>1, <3>4 DEF Stages, p
      <4>. QED  BY <1>2, <1>4, <1>5, <1>9, <2>1, <3>1, <4>1 DEF Promised
    <3>. QED  BY <3>3, <3>4
  <2>6. CASE \/ p.state = "PENDING_APPROVALS" /\ n.state = "PENDING_APPROVALS"
             \/ /\ p.state \in Approved \ {"COMPLETED"}
                /\ n.state \in Approved \ {"COMPLETED"}
                /\ ~(p.state = "READY_FOR_EXECUTION" /\ n.state = "EXECUTING")
    <3>1. Stage(n) = Stage(p)
        BY <2>6, StageIs
    <3>2. n.quorumAt = p.quorumAt /\ n.attempts = p.attempts
        BY <2>1, <2>6 DEF Approved
    <3>. QED  BY <1>9, <2>1, <3>1, <3>2, SilentWrite DEF p
  <2>7. n.state \in Terminal \cup (Approved \ {"COMPLETED"}) \cup {"PENDING_APPROVALS"}
    <3>1. n.state \in RecoveryState /\ n.state # "ABSENT"
        BY <1>1 DEF Successor, RequestDoc
    <3>. QED  BY <3>1 DEF RecoveryState, Active, Approved
  <2>8. n.state = "PENDING_APPROVALS" => p.state = "PENDING_APPROVALS"
      BY <1>9, <2>1 DEF Transitions, RecoveryState, Active
  <2>9. p.state = "PENDING_APPROVALS" =>
          n.state \notin Approved \ {"QUORUM_REACHED"}
      BY <2>1 DEF Transitions, RecoveryState, Active, Approved
  <2>10. p.state \in (Approved \ {"COMPLETED"}) \cup {"PENDING_APPROVALS"}
      BY <1>9 DEF Active, Approved
  <2>. QED
      BY <2>2, <2>3, <2>4, <2>5, <2>6, <2>7, <2>8, <2>9, <2>10 DEF Terminal, Approved
<1>. QED  BY <1>1, <1>8, <1>9 DEF Successor

LEMMA DecisionKept ==
    ASSUME IInv, CallsNoted, NEW d \in Deciders, RecordDecision(d),
           UNCHANGED <<clock, rotated, asked>>
    PROVE  Promise!Next \/ Promised' = Promised
<1> DEFINE s == decider[d]
<1>1. /\ s.id \in Requests /\ s.guardian \in Guardians /\ s.choice \in Choices
      /\ approval \in [Requests -> [Guardians -> Choices \cup {"NONE"}]]
      /\ <<s.guardian, s.at>> \in asked[s.id]
    BY DeciderType DEF RecordDecision, IInv, TypeOK, CallsNoted, AskedOK
<1>2. PICK r \in Requests, g \in Guardians, a \in Choices :
          r = s.id /\ g = s.guardian /\ a = s.choice
    BY <1>1
<1>3. /\ UNCHANGED request
      /\ \/ UNCHANGED approval
         \/ approval' = [approval EXCEPT ![r][g] = a] /\ approval[r][g] \in {"NONE", a}
    BY <1>2 DEF RecordDecision, Acceptance
<1>4. /\ Stages' = Stages /\ Openings' = Openings /\ LockEnds' = LockEnds
      /\ Released' = Released
    BY <1>3 DEF Stages, Openings, LockEnds, Released
<1>5. CASE UNCHANGED approval
    BY <1>3, <1>4, <1>5 DEF Promised
<1>6. CASE approval' = [approval EXCEPT ![r][g] = a] /\ approval[r][g] = "NONE"
  <2>1. \E c \in asked[r] : c[1] = g
      BY <1>1, <1>2
  <2>2. a \in Promise!Answers
      BY DEF Promise!Answers, Choices
  <2>3. Promise!Answer(r, g, a)
      BY <1>4, <1>6, <2>1
      DEF Promise!Answer, Stages, OpenedWith, Openings, LockEnd, LockEnds, Released
  <2>. QED  BY <2>2, <2>3 DEF Promise!Next
<1>7. CASE approval' = [approval EXCEPT ![r][g] = a] /\ approval[r][g] = a
  <2>1. UNCHANGED approval
      BY <1>1, <1>7
  <2>. QED  BY <1>5, <2>1
<1>. QED  BY <1>3, <1>5, <1>6, <1>7

LEMMA RotationKept ==
    ASSUME IInv, NEW w \in Workers, RotateKey(w) \/ ExecutionError(w),
           UNCHANGED asked
    PROVE  Promise!Next \/ Promised' = Promised
<1>1. /\ UNCHANGED <<clock, request, approval>>
      /\ \/ rotated' = rotated
         \/ worker[w].pc = "combined" /\ rotated' = rotated \cup {worker[w].id}
    BY DEF RotateKey, ExecutionError, RotationError, StoreError, store
<1>2. /\ Stages' = Stages /\ Openings' = Openings /\ LockEnds' = LockEnds
      /\ Released' = Released
    BY <1>1 DEF Stages, Openings, LockEnds, Released
<1>3. CASE rotated' = rotated
    BY <1>1, <1>2, <1>3 DEF Promised
<1>4. ASSUME worker[w].pc = "combined"
      PROVE  worker[w].id \in Released
  <2>1. /\ worker[w].id \in Requests /\ worker[w].doc \in RequestDoc
        /\ CopyOf(request[worker[w].id], worker[w].doc) /\ worker[w].doc.attempts > 0
        /\ request[worker[w].id] \in RequestDoc
      BY <1>4, WorkerType DEF IInv, TypeOK, WorkerOK
  <2>. QED  BY <2>1 DEF CopyOf, RequestDoc, Released
<1>5. CASE worker[w].pc = "combined" /\ rotated' = rotated \cup {worker[w].id}
  <2>1. PICK r \in Released : r = worker[w].id
      BY <1>4, <1>5
  <2>2. Promise!Rotate(r)
      BY <1>1, <1>2, <1>5, <2>1
      DEF Promise!Rotate, Stages, OpenedWith, Openings, LockEnd, LockEnds,
          Released
  <2>. QED  BY <2>1, <2>2 DEF Promise!Next, Released
<1>. QED  BY <1>1, <1>3, <1>5

\* A step that begins no decision notes nothing.
LEMMA NothingNoted ==
    ASSUME IInv, CallsNoted, [Next]_vars, Noted,
           ~\E d \in Deciders, r \in Requests, g \in Guardians, c \in Choices :
               BeginDecision(d, r, g, c) /\ decider'[d].pc = "record"
    PROVE  UNCHANGED asked
<1>1. ASSUME NEW r \in Requests
      PROVE  Asking(r) = {}
  <2>1. SUFFICES ASSUME NEW d \in Deciders, decider[d] = IdleDecider,
                        decider'[d].pc = "record"
                 PROVE  FALSE
      BY DEF Asking
  <2>2. ~DeciderStep(d)
      BY <2>1 DEF DeciderStep, ExpireLate, RecordDecision, CountDecisions, StoreQuorum,
                  StartTimelock, IdleDecider
  <2>3. decider'[d] # IdleDecider
      BY <2>1 DEF IdleDecider
  <2>. QED  BY <2>1, <2>2, <2>3, DeciderSteps
<1>. QED  BY <1>1 DEF Noted, CallsNoted

LEMMA AskKept ==
    ASSUME IInv, CallsNoted, Noted, NEW d \in Deciders, NEW r \in Requests,
           NEW g \in Guardians, NEW c \in Choices, BeginDecision(d, r, g, c),
           decider'[d].pc = "record"
    PROVE  Promise!Next
<1>1. /\ decider \in [Deciders -> DeciderState]
      /\ asked \in [Requests -> SUBSET (Guardians \X Nat)]
    BY DEF IInv, TypeOK, CallsNoted
<1>2. /\ decider' = [decider EXCEPT ![d] = [pc |-> "record", id |-> r, guardian |-> g,
                                           choice |-> c, at |-> clock]]
      /\ decider[d] = IdleDecider
    BY <1>1 DEF BeginDecision, DecideAs, DeciderState, IdleDecider
<1>3. Asking(r) = {g} /\ \A x \in Requests \ {r} : Asking(x) = {}
    BY <1>1, <1>2 DEF Asking, IdleDecider
<1>4. asked' = [asked EXCEPT ![r] = @ \cup {<<g, clock>>}]
  <2>1. \A x \in Requests :
           asked[x] \cup (Asking(x) \X {clock})
              = IF x = r THEN asked[r] \cup {<<g, clock>>} ELSE asked[x]
      BY <1>3
  <2>. QED  BY <1>1, <2>1 DEF Noted
<1>5. UNCHANGED <<clock, request, approval, rotated>>
    BY DEF BeginDecision, store
<1>6. UNCHANGED <<Stages, Openings, LockEnds, Released>>
    BY <1>5 DEF Stages, Openings, LockEnds, Released
<1>7. Stages[r] = "collecting" /\ g \in Openings[r].team
    BY StageIs DEF BeginDecision, Stages, Openings, OpenedWith
<1>8. Promise!Ask(r, g)
    BY <1>4, <1>5, <1>6, <1>7
    DEF Promise!Ask, Stages, OpenedWith, Openings, LockEnd, LockEnds, Released
<1>. QED  BY <1>8 DEF Promise!Next

LEMMA PromiseNext ==
    IInv /\ CallsNoted /\ [Next]_vars /\ Noted => [Promise!Next]_(Promise!promise)
<1> SUFFICES ASSUME IInv, CallsNoted, [Next]_vars, Noted
             PROVE  Promise!Next \/ Promised' = Promised
    BY PromisedIs
<1>1. CASE \E d \in Deciders, r \in Requests, g \in Guardians, c \in Choices :
              BeginDecision(d, r, g, c) /\ decider'[d].pc = "record"
    BY <1>1, AskKept
<1>2. CASE UNCHANGED asked /\ \E r \in Requests, n \in RequestDoc : Writes(r, n)
    BY <1>2, WriteKept
<1>3. CASE UNCHANGED <<asked, request>>
  <2>1. /\ Stages' = Stages /\ Openings' = Openings /\ LockEnds' = LockEnds
        /\ Released' = Released
      BY <1>3 DEF Stages, Openings, LockEnds, Released
  <2>2. CASE UNCHANGED <<clock, rotated, approval>>
      BY <1>3, <2>1, <2>2 DEF Promised
  <2>3. CASE Tick
    <3>1. clock' > clock /\ UNCHANGED <<approval, rotated>>
        BY <2>3 DEF Tick, store, IInv, TypeOK
    <3>2. Promise!Pass
        BY <1>3, <2>1, <3>1
        DEF Promise!Pass, Stages, OpenedWith, Openings, LockEnd, LockEnds, Released
    <3>. QED  BY <3>2 DEF Promise!Next
  <2>4. CASE \E d \in Deciders : RecordDecision(d)
      BY <1>3, <2>4, DecisionKept DEF RecordDecision
  <2>5. CASE \E w \in Workers : RotateKey(w) \/ ExecutionError(w)
      BY <1>3, <2>5, RotationKept
  <2>. QED  BY <2>2, <2>3, <2>4, <2>5, RecordSteps
<1>. QED  BY <1>1, <1>2, <1>3, StepGrows, NothingNoted

\* Whatever the interleaving, the crashes and the lost races: the service does to a
\* wallet only what it promises its owner.
THEOREM PromiseIsKept == Recorded => PromiseKept
<1>1. CallsNoted /\ IInv /\ [RecordedNext]_<<vars, asked>> => CallsNoted'
  <2>1. CASE RecordedNext
      BY <2>1, CallsNotedNext DEF RecordedNext
  <2>2. CASE UNCHANGED <<vars, asked>>
      BY <2>2 DEF vars, CallsNoted, AskedOK
  <2>. QED  BY <2>1, <2>2
<1>2. IInv /\ CallsNoted /\ [RecordedNext]_<<vars, asked>>
        => [Promise!Next]_(Promise!promise)
  <2>1. CASE RecordedNext
      BY <2>1, PromiseNext DEF RecordedNext
  <2>2. ASSUME UNCHANGED <<vars, asked>>
        PROVE  Promised' = Promised
      BY <2>2 DEF vars, Promised, Stages, Openings, LockEnds, Released
  <2>. QED  BY <2>1, <2>2, PromisedIs
<1>3. RecordedInit => Init
    BY DEF RecordedInit
<1>4. [RecordedNext]_<<vars, asked>> => [Next]_vars
    BY DEF RecordedNext
<1>. QED
    BY <1>1, <1>2, <1>3, <1>4, CallsNotedInit, PromiseInit, Invariant, PTL
    DEF Spec, Recorded, PromiseKept, Promise!Spec

-----------------------------------------------------------------------------
(* Teams: the guardians of a request are distinct accounts, each with a share.  The  *)
(* unique index on wallet and account keeps the assignments distinct although calls  *)
(* that enrol or update them run at the same time; a team is drawn from the active   *)
(* ones, and its shares are stored before the request is.                            *)

Distinct(S) == \A g, h \in S : UserOf[g] = UserOf[h] => g = h

AssignmentsOK ==
    /\ \A g \in Guardians : guardian[g].status = "UNASSIGNED" <=> guardian[g].version = 0
    /\ Distinct(Assigned)

EnrolOK(o) ==
    call[o].op = "enrol" =>
        /\ guardian[call[o].guardian].status = "UNASSIGNED"
        /\ \A p \in Owners \ {o} :
              call[p].op = "enrol" => call[p].guardian # call[o].guardian

UpdateOK(o) ==
    call[o].op = "update" =>
        LET c == call[o]
            g == guardian[c.guardian]
        IN  /\ c.version \in 1 .. g.version
            /\ c.version = g.version => c.target \in GuardianMoves[g.status] \cup {g.status}

TeamOK(o) ==
    call[o].op = "shares" =>
        LET c == call[o] IN
        /\ Distinct(c.doc.guardians)
        /\ \A g \in c.doc.guardians \ c.left : Sealed(c.doc, c.id, g) \in shares

Teams ==
    /\ AssignmentsOK
    /\ \A o \in Owners : EnrolOK(o) /\ UpdateOK(o) /\ TeamOK(o)
    /\ QuorumOfDistinctAccounts
    /\ SharesHeld

LEMMA TeamsInit == Init => Teams
<1> SUFFICES ASSUME Init PROVE Teams
    OBVIOUS
<1>1. AssignmentsOK
  <2>1. Assigned = Enrolled
      BY ConstantsAssumption DEF Init, Assigned
  <2>. QED  BY <2>1, ConstantsAssumption DEF Init, AssignmentsOK, Distinct
<1>2. \A o \in Owners : EnrolOK(o) /\ UpdateOK(o) /\ TeamOK(o)
    BY DEF Init, EnrolOK, UpdateOK, TeamOK, NoCall
<1>3. QuorumOfDistinctAccounts /\ SharesHeld
    BY DEF Init, QuorumOfDistinctAccounts, SharesHeld, NoRequest
<1>. QED  BY <1>1, <1>2, <1>3 DEF Teams

\* Shares are never taken back, and only SaveShare adds one.
LEMMA SharesGrow ==
    ASSUME IInv, [Next]_vars
    PROVE  shares \subseteq shares'
<1>1. ASSUME NEW o \in Owners, OwnerStep(o) \/ OwnerBegin(o)
      PROVE  shares \subseteq shares'
  <2>1. CASE SaveShare(o)
      BY <2>1 DEF SaveShare
  <2>2. CASE OwnerStep(o) /\ ~SaveShare(o)
      BY <2>2 DEF OwnerStep, Enrol, UpdateGuardian, PutPolicy, CreateDefaultPolicy,
                  BeginDefaultPolicy, SnapshotPolicy, AddRequest, Cancel, store
  <2>3. CASE OwnerBegin(o)
      BY <2>3 DEF OwnerBegin, BeginEnrol, BeginUpdateGuardian, BeginPutPolicy, BeginCreate,
                  BeginCancel, store
  <2>. QED  BY <1>1, <2>1, <2>2, <2>3
<1>. QED  BY <1>1, CallSteps

\* A call that saves shares keeps its document, and what it has saved.
LEMMA TeamKept ==
    ASSUME IInv, Teams, [Next]_vars, NEW o \in Owners
    PROVE  TeamOK(o)'
<1>1. /\ call[o] \in CallState /\ TeamOK(o) /\ call \in [Owners -> CallState]
      /\ shares \subseteq shares'
    BY SharesGrow DEF IInv, TypeOK, Teams
<1>2. CASE call'[o] \in {call[o], NoCall}
    BY <1>1, <1>2 DEF TeamOK, NoCall
<1>3. ASSUME NEW x, CallAs(o, x)
      PROVE  call'[o] = x
    BY <1>1, <1>3 DEF CallAs
<1>4. CASE SnapshotPolicy(o)
  <2>1. \/ call'[o] = NoCall
        \/ call'[o] = [op |-> "shares", id |-> call[o].id,
                       doc |-> NewRequest(call[o].policy, ActiveGuardians),
                       left |-> ActiveGuardians]
      BY <1>3, <1>4 DEF SnapshotPolicy
  <2>2. NewRequest(call[o].policy, ActiveGuardians).guardians = ActiveGuardians
      BY DEF NewRequest, NoRequest
  <2>3. Distinct(ActiveGuardians)
      BY DEF Teams, AssignmentsOK, Distinct, Assigned, ActiveGuardians
  <2>. QED  BY <1>2, <2>1, <2>2, <2>3 DEF TeamOK
<1>5. CASE SaveShare(o)
  <2>1. call[o].op = "shares" /\ call[o] \in [op : {"shares"}, id : Requests,
                                              doc : RequestDoc, left : SUBSET Guardians]
      BY <1>1, <1>5, CallType DEF SaveShare
  <2>2. PICK g \in Guardians :
           \/ /\ shares' = shares \cup {Sealed(call[o].doc, call[o].id, g)}
              /\ call'[o] = [call[o] EXCEPT !.left = @ \ {g}]
           \/ call'[o] = NoCall
      BY <1>3, <1>5 DEF SaveShare, ShareConflict
  <2>3. CASE call'[o] = NoCall
      BY <1>2, <2>3
  <2>4. CASE /\ shares' = shares \cup {Sealed(call[o].doc, call[o].id, g)}
             /\ call'[o] = [call[o] EXCEPT !.left = @ \ {g}]
    <3>1. /\ call'[o].doc = call[o].doc /\ call'[o].id = call[o].id
          /\ call'[o].left = call[o].left \ {g} /\ call'[o].op = "shares"
        BY <2>1, <2>4
    <3>. QED  BY <1>1, <2>1, <2>4, <3>1 DEF TeamOK
  <2>. QED  BY <2>2, <2>3, <2>4
<1>6. CASE OwnerStep(o) /\ ~SnapshotPolicy(o) /\ ~SaveShare(o)
  <2>1. call'[o].op # "shares"
    <3>1. \E x : CallAs(o, x) /\ x.op # "shares"
        BY <1>6 DEF OwnerStep, Enrol, UpdateGuardian, PutPolicy, CreateDefaultPolicy,
                    BeginDefaultPolicy, AddRequest, Cancel, NoCall
    <3>. QED  BY <1>3, <3>1
  <2>. QED  BY <2>1 DEF TeamOK
<1>7. CASE OwnerBegin(o)
  <2>1. \E x : CallAs(o, x) /\ x.op # "shares"
    <3>1. CASE \E g \in Guardians : BeginEnrol(o, g)
        BY <3>1 DEF BeginEnrol
    <3>2. CASE \E g \in Guardians, s \in GuardianStatus : BeginUpdateGuardian(o, g, s)
        BY <3>2 DEF BeginUpdateGuardian
    <3>3. CASE \E t \in PolicyTerms : BeginPutPolicy(o, t)
        BY <3>3 DEF BeginPutPolicy
    <3>4. CASE \E r \in Requests : BeginCreate(o, r)
        BY <3>4 DEF BeginCreate
    <3>5. CASE \E r \in Requests : BeginCancel(o, r)
        BY <3>5 DEF BeginCancel
    <3>. QED  BY <1>7, <3>1, <3>2, <3>3, <3>4, <3>5 DEF OwnerBegin
  <2>. QED  BY <1>3, <2>1 DEF TeamOK
<1>. QED  BY <1>2, <1>4, <1>5, <1>6, <1>7, CallSteps

\* A request is stored with the team of the call that created it.
LEMMA StoredTeams ==
    ASSUME IInv, Teams, [Next]_vars
    PROVE  QuorumOfDistinctAccounts' /\ SharesHeld'
<1>1. request \in [Requests -> RequestDoc] /\ shares \subseteq shares'
    BY SharesGrow DEF IInv, TypeOK
<1>2. ASSUME NEW r \in Requests
      PROVE  /\ Distinct(request'[r].guardians)
             /\ \A g \in request'[r].guardians : Sealed(request'[r], r, g) \in shares'
  <2>1. /\ Distinct(request[r].guardians)
        /\ \A g \in request[r].guardians : Sealed(request[r], r, g) \in shares
      BY DEF Teams, QuorumOfDistinctAccounts, SharesHeld, HasShare, Distinct
  <2>2. CASE /\ request'[r].guardians = request[r].guardians
             /\ request'[r].policyVersion = request[r].policyVersion
      BY <1>1, <2>1, <2>2 DEF Sealed
  <2>3. ASSUME NEW n \in RequestDoc, Writes(r, n), request[r].state \notin Active
        PROVE  /\ Distinct(request'[r].guardians)
               /\ \A g \in request'[r].guardians : Sealed(request'[r], r, g) \in shares'
    <3>1. PICK o \in Owners : AddRequest(o) /\ call[o].id = r /\ ~ActiveRequestExists
        BY <2>3 DEF Writes
    <3>2. /\ call[o].op = "shares" /\ call[o].left = {}
          /\ request' = [request EXCEPT ![r] = call[o].doc]
        BY <3>1 DEF AddRequest, Store
    <3>3. request'[r] = call[o].doc
        BY <1>1, <3>2
    <3>. QED  BY <1>1, <3>1, <3>2, <3>3 DEF Teams, TeamOK
  <2>4. CASE \E n \in RequestDoc : Writes(r, n)
    <3>1. PICK n \in RequestDoc : Writes(r, n)
        BY <2>4
    <3>2. request'[r] = n /\ Successor(request[r], n)
        BY <1>1, <3>1 DEF Writes, Store
    <3>3. request[r].state \in Active =>
             n.guardians = request[r].guardians /\ n.policyVersion = request[r].policyVersion
        BY <3>2, StateNames DEF Successor, NoRequest
    <3>. QED  BY <2>2, <2>3, <3>1, <3>2, <3>3
  <2>5. UNCHANGED request \/ \E s \in Requests, n \in RequestDoc : Writes(s, n)
      BY StepGrows
  <2>6. CASE request'[r] = request[r]
      BY <2>2, <2>6
  <2>. QED  BY <1>1, <2>4, <2>5, <2>6 DEF Writes, Store
<1>. QED  BY <1>2 DEF QuorumOfDistinctAccounts, SharesHeld, HasShare, Distinct

LEMMA MoveTargets ==
    \A s \in GuardianStatus : \A t \in GuardianMoves[s] \cup {s} :
        /\ t \in {"ACTIVE", "SUSPENDED"} => s \in {"ACTIVE", "SUSPENDED"}
        /\ s # "UNASSIGNED" => t # "UNASSIGNED"
    BY DEF GuardianMoves, GuardianStatus

LEMMA GuardianSteps ==
    ASSUME IInv, [Next]_vars
    PROVE  \/ UNCHANGED guardian
           \/ \E o \in Owners : Enrol(o) \/ UpdateGuardian(o)
<1>1. ASSUME NEW o \in Owners, OwnerStep(o) \/ OwnerBegin(o)
      PROVE  UNCHANGED guardian \/ Enrol(o) \/ UpdateGuardian(o)
  <2>1. CASE OwnerStep(o)
      BY <2>1 DEF OwnerStep, PutPolicy, CreateDefaultPolicy, BeginDefaultPolicy,
                  SnapshotPolicy, SaveShare,
                  AddRequest, Cancel, store
  <2>2. CASE OwnerBegin(o)
      BY <2>2 DEF OwnerBegin, BeginEnrol, BeginUpdateGuardian, BeginPutPolicy,
                  BeginCreate, BeginCancel, store
  <2>. QED  BY <1>1, <2>1, <2>2
<1>. QED  BY <1>1, CallSteps

\* Assignments stay distinct accounts, through every race of enrolments and updates.
LEMMA AssignmentsKept ==
    ASSUME IInv, Teams, [Next]_vars
    PROVE  AssignmentsOK'
<1>1. /\ AssignmentsOK /\ guardian \in [Guardians -> GuardianDoc]
    BY DEF IInv, TypeOK, Teams
<1>2. CASE UNCHANGED guardian
    BY <1>1, <1>2 DEF AssignmentsOK, Assigned, Distinct
<1>3. ASSUME NEW o \in Owners, Enrol(o)
      PROVE  AssignmentsOK'
  <2>1. PICK g \in Guardians : g = call[o].guardian
      BY <1>3, CallType DEF Enrol, IInv, TypeOK
  <2>2. CASE /\ ~ \E h \in Assigned : UserOf[h] = UserOf[g]
             /\ guardian' = [guardian EXCEPT ![g] = [status |-> "ACTIVE", version |-> 1]]
    <3>1. /\ guardian'[g] = [status |-> "ACTIVE", version |-> 1]
          /\ \A h \in Guardians \ {g} : guardian'[h] = guardian[h]
        BY <1>1, <2>2
    <3>2. Assigned' = Assigned \cup {g}
        BY <3>1 DEF Assigned
    <3>3. Distinct(Assigned')
        BY <1>1, <2>2, <3>2 DEF Distinct, AssignmentsOK
    <3>. QED  BY <1>1, <3>1, <3>3 DEF AssignmentsOK, Distinct
  <2>. QED  BY <1>2, <1>3, <2>1, <2>2 DEF Enrol
<1>4. ASSUME NEW o \in Owners, UpdateGuardian(o)
      PROVE  AssignmentsOK'
  <2>1. PICK c \in CallState : c = call[o] /\ c.op = "update" /\ UpdateOK(o)
      BY <1>4 DEF UpdateGuardian, IInv, TypeOK, Teams
  <2>2. PICK g \in Guardians : g = c.guardian
      BY <2>1, CallType
  <2>3. PICK t \in GuardianStatus, v \in Nat : t = c.target /\ v = c.version
      BY <2>1, CallType
  <2>4. CASE /\ guardian[g].version = v
             /\ guardian' = [guardian EXCEPT ![g] = [status |-> t, version |-> v + 1]]
    <3>1. /\ guardian'[g] = [status |-> t, version |-> v + 1]
          /\ \A h \in Guardians \ {g} : guardian'[h] = guardian[h]
        BY <1>1, <2>4
    <3>2. /\ guardian[g].status \in GuardianStatus /\ v >= 1
          /\ t \in GuardianMoves[guardian[g].status] \cup {guardian[g].status}
        BY <1>1, <2>1, <2>2, <2>3, <2>4 DEF UpdateOK, GuardianDoc
    <3>3. Assigned' \subseteq Assigned
      <4>1. ASSUME NEW h \in Assigned' PROVE h \in Assigned
          BY <3>1, <3>2, <4>1, MoveTargets DEF Assigned
      <4>. QED  BY <4>1
    <3>4. Distinct(Assigned')
        BY <1>1, <3>3 DEF Distinct, AssignmentsOK
    <3>5. t # "UNASSIGNED" /\ v + 1 # 0
      <4>1. guardian[g].status # "UNASSIGNED"
          BY <1>1, <2>4, <3>2 DEF AssignmentsOK
      <4>. QED  BY <3>2, <4>1, MoveTargets
    <3>6. \A h \in Guardians : guardian'[h].status = "UNASSIGNED" <=> guardian'[h].version = 0
        BY <1>1, <3>1, <3>5 DEF AssignmentsOK
    <3>. QED  BY <3>4, <3>6 DEF AssignmentsOK, Distinct
  <2>. QED  BY <1>2, <1>4, <2>1, <2>2, <2>3, <2>4 DEF UpdateGuardian, GuardianUnchanged
<1>. QED  BY <1>2, <1>3, <1>4, GuardianSteps

\* The call that writes an assignment: the first of its guardian, or an update of the
\* version it read.
GuardianWriter(e, g) ==
    /\ call[e].op \in {"enrol", "update"}
    /\ call[e].guardian = g
    /\ call[e].op = "update" => guardian[g].version = call[e].version

\* A stored assignment changes with its version, by the call that is on it.
LEMMA GuardianWrites ==
    ASSUME IInv, Teams, [Next]_vars, NEW g \in Guardians, guardian'[g] # guardian[g]
    PROVE  /\ guardian'[g].version > guardian[g].version
           /\ \E e \in Owners : GuardianWriter(e, g) /\ call'[e] = NoCall
<1>1. /\ guardian \in [Guardians -> GuardianDoc] /\ call \in [Owners -> CallState]
      /\ AssignmentsOK
    BY DEF IInv, TypeOK, Teams
<1>2. ASSUME NEW e \in Owners, Enrol(e)
      PROVE  /\ guardian'[g].version > guardian[g].version
             /\ call[e].op = "enrol" /\ call[e].guardian = g /\ call'[e] = NoCall
  <2>1. /\ call[e].op = "enrol" /\ call'[e] = NoCall
        /\ \/ guardian' = guardian
           \/ guardian' = [guardian EXCEPT ![call[e].guardian] =
                             [status |-> "ACTIVE", version |-> 1]]
      BY <1>1, <1>2 DEF Enrol, CallAs
  <2>2. call[e].guardian = g /\ guardian'[g].version = 1
      BY <1>1, <2>1
  <2>3. guardian[g].status = "UNASSIGNED"
      BY <2>1, <2>2 DEF Teams, EnrolOK
  <2>4. guardian[g].version = 0
      BY <1>1, <2>3 DEF AssignmentsOK
  <2>. QED  BY <2>1, <2>2, <2>4
<1>3. ASSUME NEW e \in Owners, UpdateGuardian(e)
      PROVE  /\ guardian'[g].version > guardian[g].version
             /\ call[e].op = "update" /\ call[e].guardian = g /\ call'[e] = NoCall
             /\ guardian[g].version = call[e].version
  <2>1. /\ call[e].op = "update" /\ call'[e] = NoCall
        /\ \/ guardian' = guardian
           \/ /\ guardian[call[e].guardian].version = call[e].version
              /\ guardian' = [guardian EXCEPT ![call[e].guardian] =
                               [status |-> call[e].target, version |-> call[e].version + 1]]
      BY <1>1, <1>3 DEF UpdateGuardian, GuardianUnchanged, CallAs
  <2>2. /\ call[e].guardian = g /\ guardian[g].version = call[e].version
        /\ guardian'[g].version = call[e].version + 1
      BY <1>1, <2>1
  <2>3. guardian[g].version \in Nat
      BY <1>1 DEF GuardianDoc
  <2>. QED  BY <2>1, <2>2, <2>3
<1>4. \E e \in Owners : Enrol(e) \/ UpdateGuardian(e)
    BY GuardianSteps
<1>. QED  BY <1>2, <1>3, <1>4 DEF GuardianWriter

\* A call that enrols or updates a guardian has begun on the stored assignment.
LEMMA OwnerBegins ==
    ASSUME IInv, [Next]_vars, NEW o \in Owners, call'[o] # call[o],
           call'[o].op \in {"enrol", "update"}
    PROVE  /\ UNCHANGED guardian
           /\ \A p \in Owners \ {o} : call'[p] = call[p]
           /\ \/ \E g \in Guardians : /\ BeginEnrol(o, g)
                                      /\ call'[o] = [op |-> "enrol", guardian |-> g]
              \/ \E g \in Guardians, s \in GuardianStatus :
                    /\ BeginUpdateGuardian(o, g, s)
                    /\ call'[o] = [op |-> "update", guardian |-> g, target |-> s,
                                   version |-> guardian[g].version]
<1>1. call \in [Owners -> CallState] /\ call[o] \in CallState
    BY DEF IInv, TypeOK
<1>2. ASSUME NEW x, CallAs(o, x)
      PROVE  call'[o] = x
    BY <1>1, <1>2 DEF CallAs
<1>3. call'[o] # NoCall
    BY DEF NoCall
<1>4. ASSUME OwnerStep(o)
      PROVE  call'[o].op \notin {"enrol", "update"}
  <2>1. CASE SaveShare(o)
    <3>1. PICK g \in Guardians : CallAs(o, [call[o] EXCEPT !.left = @ \ {g}]) \/ CallAs(o, NoCall)
        BY <2>1 DEF SaveShare, ShareConflict
    <3>2. call[o] \in [op : {"shares"}, id : Requests, doc : RequestDoc, left : SUBSET Guardians]
        BY <1>1, <2>1, CallType DEF SaveShare
    <3>. QED  BY <1>2, <3>1, <3>2 DEF NoCall
  <2>2. CASE OwnerStep(o) /\ ~SaveShare(o)
    <3>1. \E x : CallAs(o, x) /\ x.op \notin {"enrol", "update"}
        BY <2>2 DEF OwnerStep, Enrol, UpdateGuardian, PutPolicy, CreateDefaultPolicy,
                    BeginDefaultPolicy, SnapshotPolicy, AddRequest, Cancel, NoCall
    <3>. QED  BY <1>2, <3>1
  <2>. QED  BY <1>4, <2>1, <2>2
<1>5. ASSUME \/ \E t \in PolicyTerms : BeginPutPolicy(o, t)
             \/ \E r \in Requests : BeginCreate(o, r)
             \/ \E r \in Requests : BeginCancel(o, r)
      PROVE  call'[o].op \notin {"enrol", "update"}
  <2>1. CASE \E t \in PolicyTerms : BeginPutPolicy(o, t)
      BY <1>2, <2>1 DEF BeginPutPolicy
  <2>2. CASE \E r \in Requests : BeginCreate(o, r)
      BY <1>2, <2>2 DEF BeginCreate
  <2>3. CASE \E r \in Requests : BeginCancel(o, r)
      BY <1>2, <2>3 DEF BeginCancel
  <2>. QED  BY <1>5, <2>1, <2>2, <2>3
<1>6. OwnerBegin(o) /\ \A p \in Owners \ {o} : call'[p] = call[p]
    BY <1>3, <1>4, CallSteps
<1>7. UNCHANGED guardian
    BY <1>6 DEF OwnerBegin, BeginEnrol, BeginUpdateGuardian, BeginPutPolicy, BeginCreate,
                BeginCancel, store
<1>8. ASSUME NEW g \in Guardians, BeginEnrol(o, g)
      PROVE  call'[o] = [op |-> "enrol", guardian |-> g]
    BY <1>2, <1>8 DEF BeginEnrol
<1>9. ASSUME NEW g \in Guardians, NEW s \in GuardianStatus, BeginUpdateGuardian(o, g, s)
      PROVE  call'[o] = [op |-> "update", guardian |-> g, target |-> s,
                         version |-> guardian[g].version]
    BY <1>2, <1>9 DEF BeginUpdateGuardian
<1>. QED  BY <1>5, <1>6, <1>7, <1>8, <1>9 DEF OwnerBegin

LEMMA EnrolBegins ==
    ASSUME IInv, [Next]_vars, NEW o \in Owners, call'[o] # call[o], call'[o].op = "enrol"
    PROVE  \E g \in Guardians : /\ BeginEnrol(o, g)
                                /\ call'[o] = [op |-> "enrol", guardian |-> g]
<1>1. \/ \E g \in Guardians : /\ BeginEnrol(o, g)
                               /\ call'[o] = [op |-> "enrol", guardian |-> g]
      \/ \E g \in Guardians, s \in GuardianStatus :
            call'[o] = [op |-> "update", guardian |-> g, target |-> s,
                        version |-> guardian[g].version]
    BY OwnerBegins
<1>2. ASSUME NEW g \in Guardians, NEW s \in GuardianStatus,
             call'[o] = [op |-> "update", guardian |-> g, target |-> s,
                         version |-> guardian[g].version]
      PROVE  FALSE
    BY <1>2
<1>. QED  BY <1>1, <1>2

LEMMA UpdateBegins ==
    ASSUME IInv, [Next]_vars, NEW o \in Owners, call'[o] # call[o], call'[o].op = "update"
    PROVE  \E g \in Guardians, s \in GuardianStatus :
              /\ BeginUpdateGuardian(o, g, s)
              /\ call'[o] = [op |-> "update", guardian |-> g, target |-> s,
                             version |-> guardian[g].version]
<1>1. \/ \E g \in Guardians : call'[o] = [op |-> "enrol", guardian |-> g]
      \/ \E g \in Guardians, s \in GuardianStatus :
            /\ BeginUpdateGuardian(o, g, s)
            /\ call'[o] = [op |-> "update", guardian |-> g, target |-> s,
                           version |-> guardian[g].version]
    BY OwnerBegins
<1>2. ASSUME NEW g \in Guardians, call'[o] = [op |-> "enrol", guardian |-> g]
      PROVE  FALSE
    BY <1>2
<1>. QED  BY <1>1, <1>2

LEMMA EnrolKept ==
    ASSUME IInv, Teams, [Next]_vars, NEW o \in Owners
    PROVE  EnrolOK(o)'
<1> SUFFICES ASSUME call'[o].op = "enrol"
             PROVE  /\ guardian'[call'[o].guardian].status = "UNASSIGNED"
                    /\ \A p \in Owners \ {o} :
                          call'[p].op = "enrol" => call'[p].guardian # call'[o].guardian
    BY DEF EnrolOK
<1>1. call \in [Owners -> CallState] /\ AssignmentsOK /\ \A p \in Owners : EnrolOK(p)
    BY DEF IInv, TypeOK, Teams
<1>2. ASSUME NEW p \in Owners, NEW q \in Owners, p # q, call'[p] # call[p],
             call'[p].op = "enrol", call'[q].op = "enrol"
      PROVE  call'[q].guardian # call'[p].guardian
  <2>1. PICK g \in Guardians : /\ BeginEnrol(p, g)
                               /\ call'[p] = [op |-> "enrol", guardian |-> g]
      BY <1>2, EnrolBegins
  <2>0. call'[q] = call[q]
      BY <1>2, OwnerBegins
  <2>2. call[q] # [op |-> "enrol", guardian |-> g]
      BY <2>1 DEF BeginEnrol
  <2>3. call[q] \in [op : {"enrol"}, guardian : Guardians]
      BY <1>1, <1>2, <2>0 DEF CallState
  <2>. QED  BY <2>0, <2>1, <2>2, <2>3
<1>3. CASE call'[o] # call[o]
  <2>1. PICK g \in Guardians : /\ BeginEnrol(o, g)
                               /\ call'[o] = [op |-> "enrol", guardian |-> g]
      BY <1>3, EnrolBegins
  <2>0. UNCHANGED guardian
      BY <1>3, OwnerBegins
  <2>2. guardian'[g].status = "UNASSIGNED"
      BY <2>0, <2>1 DEF BeginEnrol
  <2>. QED  BY <1>2, <1>3, <2>1, <2>2
<1>4. CASE call'[o] = call[o]
  <2>1. PICK g \in Guardians : g = call[o].guardian
      BY <1>1, <1>4, CallType
  <2>2. guardian[g].status = "UNASSIGNED" /\ guardian[g].version = 0
      BY <1>1, <1>4, <2>1 DEF EnrolOK, AssignmentsOK
  <2>3. guardian'[g] = guardian[g]
    <3>1. ASSUME NEW e \in Owners, call[e].op \in {"enrol", "update"},
                 call[e].guardian = g, call'[e] = NoCall
          PROVE  call[e].op = "update" /\ guardian[g].version # call[e].version
      <4>1. e # o
          BY <1>4, <3>1 DEF NoCall
      <4>2. call[e].op # "enrol"
          BY <1>1, <1>4, <2>1, <3>1, <4>1 DEF EnrolOK
      <4>3. call[e].version \in 1 .. guardian[g].version
          BY <3>1, <4>2 DEF Teams, UpdateOK
      <4>. QED  BY <2>2, <3>1, <4>2, <4>3
    <3>. SUFFICES ASSUME guardian'[g] # guardian[g] PROVE FALSE
        OBVIOUS
    <3>3. \E e \in Owners : GuardianWriter(e, g) /\ call'[e] = NoCall
        BY GuardianWrites
    <3>. QED  BY <3>1, <3>3 DEF GuardianWriter
  <2>4. ASSUME NEW p \in Owners \ {o}, call'[p].op = "enrol"
        PROVE  call'[p].guardian # call'[o].guardian
      BY <1>1, <1>2, <1>4, <2>4 DEF EnrolOK
  <2>. QED  BY <1>4, <2>1, <2>2, <2>3, <2>4
<1>. QED  BY <1>3, <1>4

LEMMA UpdateKept ==
    ASSUME IInv, Teams, [Next]_vars, NEW o \in Owners
    PROVE  UpdateOK(o)'
<1> SUFFICES ASSUME call'[o].op = "update" PROVE UpdateOK(o)'
    BY DEF UpdateOK
<1>1. /\ call \in [Owners -> CallState] /\ AssignmentsOK
      /\ guardian \in [Guardians -> GuardianDoc]
    BY DEF IInv, TypeOK, Teams
<1>2. CASE call'[o] # call[o]
  <2>1. PICK g \in Guardians, s \in GuardianStatus :
             /\ BeginUpdateGuardian(o, g, s)
             /\ call'[o] = [op |-> "update", guardian |-> g, target |-> s,
                            version |-> guardian[g].version]
      BY <1>2, UpdateBegins
  <2>0. UNCHANGED guardian
      BY <1>2, OwnerBegins
  <2>2. /\ guardian[g].status # "UNASSIGNED"
        /\ s \in GuardianMoves[guardian[g].status] \cup {guardian[g].status}
      BY <2>1 DEF BeginUpdateGuardian
  <2>3. guardian[g].version \in 1 .. guardian[g].version
      BY <1>1, <2>2 DEF AssignmentsOK, GuardianDoc
  <2>. QED  BY <2>0, <2>1, <2>2, <2>3 DEF UpdateOK
<1>3. CASE call'[o] = call[o]
  <2>1. PICK g \in Guardians : g = call[o].guardian
      BY <1>1, <1>3, CallType
  <2>2. UpdateOK(o) /\ call[o].op = "update"
      BY <1>3 DEF Teams
  <2>3. CASE guardian'[g] = guardian[g]
      BY <1>3, <2>1, <2>2, <2>3 DEF UpdateOK
  <2>4. CASE guardian'[g] # guardian[g]
    <3>1. guardian'[g].version > guardian[g].version
      <4>. HIDE <1>1
      <4>1. g \in Guardians
          OBVIOUS
      <4>2. [Next]_vars /\ IInv /\ Teams
          OBVIOUS
      <4>. QED  BY <2>4, <4>1, <4>2, GuardianWrites
    <3>2. call[o].version \in 1 .. guardian[g].version
        BY <2>1, <2>2 DEF UpdateOK
    <3>3. guardian[g].version \in Nat /\ guardian'[g].version \in Nat
      <4>1. guardian' \in [Guardians -> GuardianDoc]
          BY InvariantNext DEF IInv, TypeOK
      <4>. QED  BY <1>1, <4>1 DEF GuardianDoc
    <3>4. /\ call[o].version \in 1 .. guardian'[g].version
          /\ call[o].version # guardian'[g].version
        BY <3>1, <3>2, <3>3
    <3>. QED  BY <1>3, <2>1, <3>4 DEF UpdateOK
  <2>. QED  BY <2>3, <2>4
<1>. QED  BY <1>2, <1>3

LEMMA TeamsNext == IInv /\ Teams /\ [Next]_vars => Teams'
    BY AssignmentsKept, EnrolKept, UpdateKept, TeamKept, StoredTeams DEF Teams

\* Assignments, teams and shares, through every race of the owner's calls.
THEOREM TeamInvariant == Spec => []Teams
<1>1. Teams /\ IInv /\ [Next]_vars => Teams'
    BY TeamsNext
<1>. QED  BY <1>1, TeamsInit, Invariant, PTL DEF Spec

\* M approvals are approvals of M accounts, for every history of enrolments, removals
\* and updates.
THEOREM TeamsAreDistinctAccounts == Spec => []QuorumOfDistinctAccounts
<1>1. Teams => QuorumOfDistinctAccounts
    BY DEF Teams
<1>. QED  BY <1>1, TeamInvariant, PTL

\* A guardian asked to approve has a share to give.
THEOREM SharesAreComplete == Spec => []SharesHeld
<1>1. Teams => SharesHeld
    BY DEF Teams
<1>. QED  BY <1>1, TeamInvariant, PTL

-----------------------------------------------------------------------------
(* Quorums: as long as no call dies, recorded approvals that reach the threshold are *)
(* going to be counted.  A count is lost when it was taken before the last approval  *)
(* was recorded, or when its compare-and-set fails and no try is left.  The first    *)
(* happens to a count that a later one corrects, the second only after that          *)
(* correction: each approval is recorded before its own call counts at least twice.  *)

Awaiting(r) == request[r].state = "PENDING_APPROVALS"
Tally(r) == Counted(r, "APPROVE")

\* Guardian g has decided on r, or is about to record a decision.
Engaged(r, g) ==
    /\ Awaiting(r)
    /\ \/ approval[r][g] # "NONE"
       \/ \E d \in Deciders : /\ decider[d].pc = "record"
                              /\ decider[d].id = r
                              /\ decider[d].guardian = g

\* An update that the owner has begun would make a suspended guardian active.
Reactivates(o, g) ==
    /\ call[o].op = "update"
    /\ call[o].guardian = g
    /\ call[o].version = guardian[g].version
    /\ call[o].target = "ACTIVE"
    /\ guardian[g].status # "ACTIVE"

\* While a request waits, no guardian who decided comes back to be counted.
EngagedOK ==
    \A r \in Requests, g \in Guardians :
        Engaged(r, g) => /\ guardian[g].status # "UNASSIGNED"
                         /\ \A o \in Owners : ~Reactivates(o, g)

\* A count whose compare-and-set would succeed, and one that in addition saw every
\* approval that counts now.
Current(d, r) ==
    /\ decider[d].pc = "decide"
    /\ decider[d].id = r
    /\ Unchanged(r, decider[d].doc)
Sees(d, r) == Current(d, r) /\ Tally(r) \subseteq decider[d].approvals
NoneStale(r) == \A d \in Deciders : Current(d, r) => Sees(d, r)

\* A lost race would be counted again.
Spare(d) == decider[d].tries + 1 < QuorumTries

\* The call d is going to count the approvals of r in full.
WillCount(d, r) ==
    /\ decider[d].pc \in {"count", "decide"}
    /\ decider[d].id = r
    /\ \/ decider[d].pc = "count" /\ (Spare(d) \/ NoneStale(r))
       \/ Sees(d, r) /\ (Spare(d) \/ NoneStale(r))
       \/ Spare(d) /\ NoneStale(r)

Attended ==
    crashes = 0 =>
        \A r \in Requests :
            Awaiting(r) /\ Cardinality(Tally(r)) >= request[r].terms.minimum
                => \E d \in Deciders : WillCount(d, r)

\* Of the steps that leave a request waiting, only a count writes it.
LEMMA AwaitingWrites ==
    ASSUME IInv, [Next]_vars, NEW r \in Requests, Awaiting(r), Awaiting(r)',
           request'[r] # request[r]
    PROVE  \E d \in Deciders : /\ StoreQuorum(d)
                               /\ decider[d].id = r
                               /\ Unchanged(r, decider[d].doc)
    BY CountWrites DEF Awaiting

\* A request that begins to wait is new, and nobody has decided on it.
LEMMA AwaitingBegins ==
    ASSUME IInv, [Next]_vars, NEW r \in Requests, Awaiting(r)', ~Awaiting(r)
    PROVE  /\ UNCHANGED <<approval, decider>>
           /\ \A g \in Guardians : ~Engaged(r, g)' /\ approval'[r][g] = "NONE"
<1>1. /\ request \in [Requests -> RequestDoc] /\ Undecided
      /\ \A d \in Deciders : DeciderOK(d)
    BY DEF IInv, TypeOK
<1>2. PICK i \in Requests, n \in RequestDoc : Writes(i, n)
    BY StepGrows DEF Awaiting
<1>3. i = r /\ n.state = "PENDING_APPROVALS" /\ Successor(request[r], n)
    BY <1>1, <1>2 DEF Writes, Store, Awaiting
<1>4. \A s \in Active : "PENDING_APPROVALS" \notin Transitions[s]
    BY DEF Active, Transitions, RecoveryState
<1>5. request[r] = NoRequest
    BY <1>3, <1>4 DEF Successor, Awaiting
<1>6. request[r].state = "ABSENT"
    BY <1>5 DEF NoRequest
<1>7. PICK o \in Owners : AddRequest(o)
    BY <1>2, <1>3, <1>6, StateNames DEF Writes
<1>8. UNCHANGED <<approval, decider>>
    BY <1>7 DEF AddRequest
<1>9. \A g \in Guardians : approval'[r][g] = "NONE"
    BY <1>1, <1>6, <1>8 DEF Undecided
<1>10. \A d \in Deciders : ~(decider[d].pc = "record" /\ decider[d].id = r)
    BY <1>1, <1>6 DEF DeciderOK
<1>. QED  BY <1>8, <1>9, <1>10 DEF Engaged

LEMMA AwaitingKeeps ==
    ASSUME IInv, [Next]_vars, NEW r \in Requests, Awaiting(r)
    PROVE  request'[r].guardians = request[r].guardians /\ request'[r].terms = request[r].terms
    BY StepGrows DEF Grows, Successor, NoRequest, Awaiting

\* Who may be counted for r has decided, or is active when he begins to.
LEMMA EngagedBefore ==
    ASSUME IInv, [Next]_vars, NEW r \in Requests, NEW g \in Guardians, Engaged(r, g)'
    PROVE  \/ Engaged(r, g)
           \/ /\ guardian[g].status = "ACTIVE"
              /\ UNCHANGED <<guardian, call>>
<1>1. /\ decider \in [Deciders -> DeciderState]
      /\ approval \in [Requests -> [Guardians -> Choices \cup {"NONE"}]]
    BY DEF IInv, TypeOK
<1>2. Awaiting(r) /\ Awaiting(r)'
    BY AwaitingBegins DEF Engaged
<1>3. CASE approval'[r][g] # "NONE" /\ approval[r][g] = "NONE"
  <2>1. UNCHANGED approval \/ \E d \in Deciders : RecordDecision(d)
      BY RecordSteps DEF Tick, store, RotateKey, ExecutionError, RotationError, StoreError
  <2>2. PICK d \in Deciders : RecordDecision(d)
      BY <1>3, <2>1
  <2>3. /\ decider[d].pc = "record"
        /\ approval' = [approval EXCEPT ![decider[d].id][decider[d].guardian] =
                          decider[d].choice]
      BY <1>3, <2>2 DEF RecordDecision
  <2>4. decider[d].id = r /\ decider[d].guardian = g
      BY <1>1, <1>3, <2>3
  <2>. QED  BY <1>2, <2>3, <2>4 DEF Engaged
<1>4. ASSUME NEW d \in Deciders, decider'[d].pc = "record", decider'[d].id = r,
             decider'[d].guardian = g
      PROVE  \/ Engaged(r, g)
             \/ guardian[g].status = "ACTIVE" /\ UNCHANGED <<guardian, call>>
  <2>1. CASE decider'[d] = decider[d]
      BY <1>2, <1>4, <2>1 DEF Engaged
  <2>2. ASSUME NEW x \in Requests, NEW h \in Guardians, NEW c \in Choices,
               BeginDecision(d, x, h, c)
        PROVE  guardian[g].status = "ACTIVE" /\ UNCHANGED <<guardian, call>>
    <3>1. \/ decider'[d].pc = "late"
          \/ decider'[d].guardian = h /\ guardian[h].status = "ACTIVE"
        BY <1>1, <2>2 DEF BeginDecision, DecideAs
    <3>. QED  BY <1>4, <2>2, <3>1 DEF BeginDecision, store
  <2>3. CASE DeciderStep(d)
    <3>1. \E x : DecideAs(d, x) /\ x.pc # "record"
        BY <2>3 DEF DeciderStep, ExpireLate, RecordDecision, CountDecisions, StoreQuorum,
                    StartTimelock, RetryOrGiveUp, IdleDecider
    <3>. QED  BY <1>1, <1>4, <3>1 DEF DecideAs
  <2>4. CASE decider'[d] = IdleDecider
      BY <1>4, <2>4 DEF IdleDecider
  <2>. QED  BY <2>1, <2>2, <2>3, <2>4, DeciderSteps
<1>. QED  BY <1>2, <1>3, <1>4 DEF Engaged

LEMMA EngagedNext ==
    ASSUME IInv, Teams, EngagedOK, [Next]_vars
    PROVE  EngagedOK'
<1> SUFFICES ASSUME NEW r \in Requests, NEW g \in Guardians, Engaged(r, g)'
             PROVE  /\ guardian'[g].status # "UNASSIGNED"
                    /\ \A o \in Owners : ~Reactivates(o, g)'
    BY DEF EngagedOK
<1>1. CASE guardian[g].status = "ACTIVE" /\ UNCHANGED <<guardian, call>>
    BY <1>1 DEF Reactivates
<1>2. CASE Engaged(r, g)
  <2>1. guardian[g].status # "UNASSIGNED" /\ \A o \in Owners : ~Reactivates(o, g)
      BY <1>2 DEF EngagedOK
  <2>2. AssignmentsOK /\ AssignmentsOK' /\ guardian \in [Guardians -> GuardianDoc]
        /\ guardian' \in [Guardians -> GuardianDoc] /\ \A o \in Owners : UpdateOK(o)
      BY TeamsNext, InvariantNext DEF Teams, IInv, TypeOK
  <2>3. guardian[g].version \in Nat \ {0} /\ guardian'[g].version \in Nat
      BY <2>1, <2>2 DEF AssignmentsOK, GuardianDoc
  <2>4. guardian'[g] = guardian[g] \/ guardian'[g].version > guardian[g].version
    <3>. SUFFICES ASSUME guardian'[g] # guardian[g]
                  PROVE  guardian'[g].version > guardian[g].version
        OBVIOUS
    <3>1. IInv /\ Teams /\ [Next]_vars
        OBVIOUS
    <3>. HIDE <2>2
    <3>. QED  BY <3>1, GuardianWrites
  <2>5. guardian'[g].status # "UNASSIGNED"
    <3>1. guardian'[g].version # 0
        BY <2>3, <2>4
    <3>. QED  BY <2>2, <3>1 DEF AssignmentsOK
  <2>6. ASSUME NEW o \in Owners, Reactivates(o, g)'
        PROVE  FALSE
    <3>1. CASE call'[o] = call[o]
      <4>1. call[o].op = "update" /\ call[o].guardian = g
          BY <2>6, <3>1 DEF Reactivates
      <4>2. call[o].version \in 1 .. guardian[g].version
          BY <2>2, <4>1 DEF UpdateOK
      <4>3. call[o].version = guardian'[g].version
          BY <2>6, <3>1 DEF Reactivates
      <4>4. guardian'[g] = guardian[g]
          BY <2>3, <2>4, <4>2, <4>3
      <4>. QED  BY <2>1, <2>6, <3>1, <4>4 DEF Reactivates
    <3>2. CASE call'[o] # call[o]
      <4>1. \E h \in Guardians, s \in GuardianStatus : BeginUpdateGuardian(o, h, s)
          BY <2>6, <3>2, UpdateBegins DEF Reactivates
      <4>2. ~ActiveRequestExists
          BY <4>1 DEF BeginUpdateGuardian
      <4>. QED  BY <1>2, <4>2 DEF ActiveRequestExists, Engaged, Awaiting, Active
    <3>. QED  BY <3>1, <3>2
  <2>. QED  BY <2>5, <2>6
<1>. QED  BY <1>1, <1>2, EngagedBefore

\* Only a recorded decision adds to the approvals that count.
LEMMA TallyShrinks ==
    ASSUME IInv, Teams, EngagedOK, [Next]_vars, NEW r \in Requests, Awaiting(r),
           \A g \in Guardians : approval'[r][g] = approval[r][g]
    PROVE  Tally(r)' \subseteq Tally(r)
<1>1. /\ call \in [Owners -> CallState] /\ guardian \in [Guardians -> GuardianDoc]
      /\ \A o \in Owners : EnrolOK(o)
    BY DEF IInv, TypeOK, Teams
<1> SUFFICES ASSUME NEW g \in Guardians, g \in Tally(r)'
             PROVE  g \in Tally(r)
    BY DEF Tally, Counted, StillActive, ActiveGuardians
<1>2. /\ g \in request[r].guardians /\ approval[r][g] = "APPROVE"
      /\ guardian'[g].status = "ACTIVE"
    BY AwaitingKeeps DEF Tally, Counted, StillActive, ActiveGuardians
<1>3. guardian[g].status # "UNASSIGNED" /\ \A o \in Owners : ~Reactivates(o, g)
    BY <1>2 DEF EngagedOK, Engaged
<1>4. ASSUME guardian[g].status # "ACTIVE"
      PROVE  FALSE
  <2>1. PICK o \in Owners : Enrol(o) \/ UpdateGuardian(o)
      BY <1>2, <1>4, GuardianSteps
  <2>2. CASE Enrol(o)
    <3>1. call[o].op = "enrol" /\ call[o].guardian = g
        BY <1>1, <1>2, <1>4, <2>2 DEF Enrol
    <3>. QED  BY <1>1, <1>3, <3>1 DEF EnrolOK
  <2>3. CASE UpdateGuardian(o)
    <3>1. /\ call[o].op = "update"
          /\ guardian[call[o].guardian].version = call[o].version
          /\ guardian' = [guardian EXCEPT ![call[o].guardian] =
                            [status |-> call[o].target, version |-> call[o].version + 1]]
        BY <1>2, <1>4, <2>3 DEF UpdateGuardian, GuardianUnchanged
    <3>2. call[o].guardian = g /\ call[o].target = "ACTIVE"
        BY <1>1, <1>2, <1>4, <3>1
    <3>. QED  BY <1>3, <1>4, <3>1, <3>2 DEF Reactivates
  <2>. QED  BY <2>1, <2>2, <2>3
<1>. QED  BY <1>2, <1>4 DEF Tally, Counted, StillActive, ActiveGuardians

LEMMA TallyFinite ==
    ASSUME TypeOK, NEW r \in Requests
    PROVE  Tally(r) \subseteq Guardians /\ IsFiniteSet(Tally(r))
<1>1. Tally(r) \subseteq Guardians
    BY DEF Tally, Counted, StillActive, ActiveGuardians
<1>. QED  BY <1>1, FS_Subset, ConstantsAssumption

\* The calls of guardians in a step in which none dies.
LEMMA QuietDecider ==
    ASSUME IInv, [Next]_vars, crashes' = crashes, NEW d \in Deciders,
           decider'[d] # decider[d]
    PROVE  \/ DeciderStep(d)
           \/ \E r \in Requests, g \in Guardians, c \in Choices : BeginDecision(d, r, g, c)
<1>1. /\ decider \in [Deciders -> DeciderState] /\ crashes \in Nat
    BY DEF IInv, TypeOK
<1>2. ASSUME NEW e \in Deciders, e # d, DeciderStep(e)
      PROVE  decider'[d] = decider[d]
    BY <1>1, <1>2 DEF DeciderStep, ExpireLate, RecordDecision, CountDecisions, StoreQuorum,
                      StartTimelock, RetryOrGiveUp, DecideAs
<1>3. ASSUME NEW e \in Deciders, e # d, NEW r \in Requests, NEW g \in Guardians,
             NEW c \in Choices, BeginDecision(e, r, g, c)
      PROVE  decider'[d] = decider[d]
    BY <1>1, <1>3 DEF BeginDecision, DecideAs
<1>4. CASE \E o \in Owners : OwnerStep(o) \/ OwnerBegin(o)
  <2>1. CASE \E o \in Owners : OwnerStep(o)
      BY <2>1 DEF OwnerStep, Enrol, UpdateGuardian, PutPolicy, CreateDefaultPolicy,
                  BeginDefaultPolicy, SnapshotPolicy, SaveShare, AddRequest, Cancel
  <2>2. CASE \E o \in Owners : OwnerBegin(o)
      BY <2>2 DEF OwnerBegin, BeginEnrol, BeginUpdateGuardian, BeginPutPolicy,
                  BeginCreate, BeginCancel
  <2>. QED  BY <1>4, <2>1, <2>2
<1>5. CASE \/ \E w \in Workers : WorkerStep(w) \/ ExecutionError(w)
           \/ \E w \in Workers, r \in Requests : Load(w, r)
  <2>1. CASE \E w \in Workers : WorkerStep(w)
      BY <2>1 DEF WorkerStep, Reconcile, Claim, CombineShares, RotateKey, Complete,
                  RecordFailure
  <2>2. CASE \/ \E w \in Workers : ExecutionError(w)
             \/ \E w \in Workers, r \in Requests : Load(w, r)
      BY <2>2 DEF ExecutionError, Load, RotationError, StoreError
  <2>. QED  BY <1>5, <2>1, <2>2
<1>6. CASE Tick \/ UNCHANGED vars
    BY <1>6 DEF Tick, vars, processes
<1>7. ~Crash
    BY <1>1 DEF Crash
<1>. QED  BY <1>2, <1>3, <1>4, <1>5, <1>6, <1>7 DEF Next, Approve, Reject, Choices

LEMMA OthersRest ==
    ASSUME IInv, NEW e \in Deciders, DeciderStep(e), NEW d \in Deciders, d # e
    PROVE  decider'[d] = decider[d]
<1>1. decider \in [Deciders -> DeciderState]
    BY DEF IInv, TypeOK
<1>. QED  BY <1>1 DEF DeciderStep, ExpireLate, RecordDecision, CountDecisions, StoreQuorum,
                      StartTimelock, RetryOrGiveUp, DecideAs

\* What a count reads.
LEMMA CountReads ==
    ASSUME IInv, NEW d \in Deciders, CountDecisions(d), Awaiting(decider[d].id)
    PROVE  /\ decider'[d].pc = "decide"
           /\ decider'[d].id = decider[d].id
           /\ decider'[d].tries = decider[d].tries
           /\ decider'[d].doc = request[decider[d].id]
           /\ decider'[d].approvals = Tally(decider[d].id)
           /\ UNCHANGED <<request, approval>>
<1>1. decider \in [Deciders -> DeciderState]
    BY DEF IInv, TypeOK
<1>. QED  BY <1>1 DEF CountDecisions, DecideAs, Awaiting, Tally, store

\* A decision is about to be stored where it was, or has just been counted.
LEMMA DecidesFrom ==
    ASSUME IInv, [Next]_vars, NEW d \in Deciders, decider'[d].pc = "decide",
           decider'[d] # decider[d]
    PROVE  /\ CountDecisions(d) /\ Awaiting(decider[d].id)
           /\ decider'[d].id = decider[d].id
<1>1. decider \in [Deciders -> DeciderState]
    BY DEF IInv, TypeOK
<1>2. ASSUME NEW x, DecideAs(d, x)
      PROVE  decider'[d] = x
    BY <1>1, <1>2 DEF DecideAs
<1>3. CASE DeciderStep(d) /\ ~CountDecisions(d)
  <2>1. \E x : DecideAs(d, x) /\ x.pc # "decide"
      BY <1>3 DEF DeciderStep, ExpireLate, RecordDecision, StoreQuorum, StartTimelock,
                  RetryOrGiveUp, IdleDecider
  <2>. QED  BY <1>2, <2>1
<1>4. CASE \E r \in Requests, g \in Guardians, c \in Choices : BeginDecision(d, r, g, c)
  <2>1. \E x : DecideAs(d, x) /\ x.pc # "decide"
      BY <1>4 DEF BeginDecision
  <2>. QED  BY <1>2, <2>1
<1>5. CASE CountDecisions(d)
    BY <1>2, <1>5 DEF CountDecisions, IdleDecider, Awaiting
<1>6. CASE decider'[d] = IdleDecider
    BY <1>6 DEF IdleDecider
<1>. QED  BY <1>3, <1>4, <1>5, <1>6, DeciderSteps

\* A count that leaves the request waiting has seen too few approvals.
LEMMA TooFewSeen ==
    ASSUME IInv, NEW r \in Requests, NEW d \in Deciders, StoreQuorum(d),
           decider[d].id = r, Unchanged(r, decider[d].doc), Awaiting(r)'
    PROVE  /\ ~(Cardinality(decider[d].approvals) >= request[r].terms.minimum)
           /\ decider[d].approvals \subseteq Guardians
           /\ request'[r].version = request[r].version + 1
           /\ decider[d].pc = "decide" /\ decider'[d].pc # "decide"
<1> DEFINE s == decider[d]
           n == QuorumOutcome(s)
           q == [s.doc EXCEPT !.quorum = s.approvals]
           a == [q EXCEPT !.quorumAt = s.at]
<1>1. /\ s.pc = "decide" /\ s.doc \in RequestDoc /\ s.at \in Nat
      /\ s.approvals \subseteq Guardians
      /\ decider \in [Deciders -> DeciderState] /\ request \in [Requests -> RequestDoc]
    BY DeciderType DEF IInv, TypeOK, StoreQuorum
<1>2. request[r] = s.doc
    BY <1>1, CopyIsCurrent DEF IInv, DeciderOK
<1>3. request'[r] = n
    BY <1>1 DEF StoreQuorum, Store
<1>4. q \in RequestDoc /\ a \in RequestDoc /\ q.terms = s.doc.terms
    BY <1>1 DEF RequestDoc
<1>5. ASSUME Cardinality(s.approvals) >= s.doc.terms.minimum
      PROVE  FALSE
  <2>1. n = Moved(a, "QUORUM_REACHED", s.at)
      BY <1>4, <1>5 DEF QuorumOutcome, Reached
  <2>2. n.state = "QUORUM_REACHED"
      BY <1>1, <1>4, <2>1, MovedFields, StateNames
  <2>. QED  BY <1>3, <2>2 DEF Awaiting
<1>6. n.version = s.doc.version + 1
    BY <1>1, QuorumOutcomeFields
<1>7. decider'[d].pc # "decide"
  <2>1. \E x : DecideAs(d, x) /\ x.pc # "decide"
      BY <1>1 DEF StoreQuorum, IdleDecider
  <2>. QED  BY <1>1, <2>1 DEF DecideAs
<1>. QED  BY <1>1, <1>2, <1>3, <1>5, <1>6, <1>7

\* A count that is stored although a quorum has approved was taken too early; the call
\* that will count in full still has a try left.
LEMMA WitnessOfWrite ==
    ASSUME IInv, [Next]_vars, NEW r \in Requests, Awaiting(r), Awaiting(r)',
           Cardinality(Tally(r)) >= request[r].terms.minimum,
           NEW d \in Deciders, WillCount(d, r), request'[r] # request[r]
    PROVE  WillCount(d, r)'
<1>1. PICK e \in Deciders : /\ StoreQuorum(e)
                            /\ decider[e].id = r
                            /\ Unchanged(r, decider[e].doc)
    BY AwaitingWrites
<1>2. /\ ~(Cardinality(decider[e].approvals) >= request[r].terms.minimum)
      /\ decider[e].approvals \subseteq Guardians
      /\ request'[r].version = request[r].version + 1
      /\ decider[e].pc = "decide" /\ decider'[e].pc # "decide"
    BY <1>1, TooFewSeen
<1>3. ~(Tally(r) \subseteq decider[e].approvals)
  <2>1. SUFFICES ASSUME Tally(r) \subseteq decider[e].approvals PROVE FALSE
      OBVIOUS
  <2>2. IsFiniteSet(decider[e].approvals)
      BY <1>2, FS_Subset, ConstantsAssumption
  <2>3. Cardinality(Tally(r)) <= Cardinality(decider[e].approvals)
      BY <2>1, <2>2, FS_Subset
  <2>4. /\ Cardinality(Tally(r)) \in Nat /\ Cardinality(decider[e].approvals) \in Nat
      BY <2>1, <2>2, FS_Subset, FS_CardinalityType
  <2>5. request[r].terms.minimum \in Nat
      BY ConstantsAssumption DEF IInv, TypeOK, RequestDoc, ValidTerms
  <2>. QED  BY <1>2, <2>3, <2>4, <2>5
<1>4. Current(e, r) /\ ~NoneStale(r)
    BY <1>1, <1>2, <1>3 DEF Current, Sees, NoneStale
<1>5. d # e /\ Spare(d) /\ (decider[d].pc = "count" \/ Sees(d, r))
    BY <1>2, <1>3, <1>4 DEF WillCount, Sees
<1>6. \A x \in Deciders \ {e} : decider'[x] = decider[x]
    BY <1>1, OthersRest DEF DeciderStep
<1>7. NoneStale(r)'
  <2>1. ASSUME NEW x \in Deciders, Current(x, r)'
        PROVE  FALSE
    <3>1. x # e /\ decider'[x] = decider[x]
        BY <1>2, <1>6, <2>1 DEF Current
    <3>2. /\ decider[x].pc = "decide" /\ decider[x].id = r
          /\ decider[x].doc.version = request'[r].version
        BY <2>1, <3>1 DEF Current, Unchanged
    <3>3. /\ decider[x].doc.version <= request[r].version
          /\ decider[x].doc.version \in Nat /\ request[r].version \in Nat
      <4>1. decider[x] \in DeciderState /\ DeciderOK(x) /\ request[r] \in RequestDoc
          BY DEF IInv, TypeOK
      <4>. QED  BY <3>2, <4>1, DeciderType DEF DeciderOK, CopyOf, RequestDoc
    <3>. QED  BY <1>2, <3>2, <3>3
  <2>. QED  BY <2>1 DEF NoneStale
<1>. QED  BY <1>5, <1>6, <1>7 DEF WillCount, Spare

\* Without such a write no count becomes stale, unless a decision is recorded.
LEMMA NoneStaleKept ==
    ASSUME IInv, [Next]_vars, NEW r \in Requests, NoneStale(r),
           request'[r] = request[r], Tally(r)' \subseteq Tally(r)
    PROVE  NoneStale(r)'
<1> SUFFICES ASSUME NEW x \in Deciders, Current(x, r)'
             PROVE  Sees(x, r)'
    BY DEF NoneStale
<1>1. CASE decider'[x] = decider[x]
  <2>1. Current(x, r)
      BY <1>1 DEF Current, Unchanged
  <2>2. Sees(x, r)
      BY <2>1 DEF NoneStale
  <2>. QED  BY <1>1, <2>2 DEF Sees
<1>2. CASE decider'[x] # decider[x]
  <2>1. CountDecisions(x) /\ Awaiting(decider[x].id) /\ decider[x].id = r
      BY <1>2, DecidesFrom DEF Current
  <2>2. decider'[x].approvals = Tally(r)
      BY <2>1, CountReads
  <2>. QED  BY <2>2 DEF Sees
<1>. QED  BY <1>1, <1>2

LEMMA WitnessRests ==
    ASSUME IInv, [Next]_vars, crashes' = crashes, NEW r \in Requests,
           Awaiting(r), Awaiting(r)',
           NEW d \in Deciders, WillCount(d, r),
           request'[r] = request[r], Tally(r)' \subseteq Tally(r)
    PROVE  WillCount(d, r)'
<1>1. NoneStale(r) => NoneStale(r)'
    BY NoneStaleKept
<1>2. /\ decider[d] \in DeciderState /\ decider \in [Deciders -> DeciderState]
      /\ request \in [Requests -> RequestDoc]
    BY DEF IInv, TypeOK
<1>3. CASE decider'[d] = decider[d]
    BY <1>1, <1>3 DEF WillCount, Spare, Sees, Current, Unchanged
<1>4. CASE decider'[d] # decider[d] /\ decider[d].pc = "count"
  <2>1. CountDecisions(d)
      BY <1>4, QuietDecider DEF DeciderStep, ExpireLate, RecordDecision, StoreQuorum,
                                StartTimelock, BeginDecision
  <2>2. decider[d].id = r /\ (Spare(d) \/ NoneStale(r))
      BY <1>4 DEF WillCount, Sees, Current
  <2>3. /\ decider'[d].pc = "decide" /\ decider'[d].id = r
        /\ decider'[d].tries = decider[d].tries
        /\ decider'[d].doc = request[r] /\ decider'[d].approvals = Tally(r)
      BY <2>1, <2>2, CountReads
  <2>4. Sees(d, r)'
      BY <2>3 DEF Sees, Current, Unchanged
  <2>5. Spare(d) => Spare(d)'
      BY <2>3 DEF Spare
  <2>. QED  BY <1>1, <2>2, <2>3, <2>4, <2>5 DEF WillCount
<1>5. CASE decider'[d] # decider[d] /\ decider[d].pc = "decide"
  <2>1. StoreQuorum(d)
      BY <1>5, QuietDecider DEF DeciderStep, ExpireLate, RecordDecision, CountDecisions,
                                StartTimelock, BeginDecision
  <2>2. decider[d].id = r
      BY DEF WillCount
  <2>3. ~Unchanged(r, decider[d].doc)
    <3>1. SUFFICES ASSUME Unchanged(r, decider[d].doc) PROVE FALSE
        OBVIOUS
    <3>2. request'[r].version = request[r].version + 1
        BY <2>1, <2>2, <3>1, TooFewSeen
    <3>3. request[r].version \in Nat
        BY <1>2 DEF RequestDoc
    <3>. QED  BY <3>2, <3>3
  <2>4. Spare(d) /\ NoneStale(r)
      BY <1>5, <2>3 DEF WillCount, Sees, Current
  <2>5. decider'[d].pc = "count" /\ decider'[d].id = r
      BY <1>2, <2>1, <2>2, <2>3, <2>4 DEF StoreQuorum, RetryOrGiveUp, DecideAs, Spare
  <2>. QED  BY <1>1, <2>4, <2>5 DEF WillCount
<1>. QED  BY <1>3, <1>4, <1>5 DEF WillCount

\* A call that has recorded its decision counts it.
LEMMA RecordAttended ==
    ASSUME IInv, QuorumTries >= 2, [Next]_vars, NEW r \in Requests,
           \E g \in Guardians : approval'[r][g] # approval[r][g]
    PROVE  \E d \in Deciders : WillCount(d, r)'
<1>1. /\ decider \in [Deciders -> DeciderState]
      /\ approval \in [Requests -> [Guardians -> Choices \cup {"NONE"}]]
    BY DEF IInv, TypeOK
<1>2. UNCHANGED approval \/ \E d \in Deciders : RecordDecision(d)
    BY RecordSteps DEF Tick, store, RotateKey, ExecutionError, RotationError, StoreError
<1>3. PICK d \in Deciders : RecordDecision(d)
    BY <1>2
<1>4. /\ decider[d].pc = "record" /\ decider[d].id = r
      /\ decider'[d].pc = "count" /\ decider'[d].id = decider[d].id
      /\ decider'[d].tries = 0
    BY <1>1, <1>3 DEF RecordDecision, DecideAs
<1>5. Spare(d)'
    BY <1>4, ConstantsAssumption DEF Spare
<1>. QED  BY <1>4, <1>5 DEF WillCount

\* Only the death of a call is counted.
LEMMA CrashCounts ==
    ASSUME [Next]_vars
    PROVE  crashes' = crashes \/ crashes' = crashes + 1
<1>1. CASE \E d \in Deciders : DeciderStep(d)
    BY <1>1 DEF DeciderStep, ExpireLate, RecordDecision, CountDecisions, StoreQuorum,
                StartTimelock
<1>2. CASE \E o \in Owners : OwnerStep(o)
    BY <1>2 DEF OwnerStep, Enrol, UpdateGuardian, PutPolicy, CreateDefaultPolicy,
                BeginDefaultPolicy, SnapshotPolicy, SaveShare, AddRequest, Cancel
<1>3. CASE \E o \in Owners : OwnerBegin(o)
    BY <1>3 DEF OwnerBegin, BeginEnrol, BeginUpdateGuardian, BeginPutPolicy,
                BeginCreate, BeginCancel
<1>4. CASE \E w \in Workers : WorkerStep(w)
    BY <1>4 DEF WorkerStep, Reconcile, Claim, CombineShares, RotateKey, Complete,
                RecordFailure
<1>5. CASE \/ Tick \/ Crash \/ UNCHANGED vars
           \/ \E d \in Deciders, x \in Requests, g \in Guardians, c \in Choices :
                 BeginDecision(d, x, g, c)
           \/ \E w \in Workers : ExecutionError(w)
           \/ \E w \in Workers, x \in Requests : Load(w, x)
    BY <1>5 DEF Tick, Crash, vars, BeginDecision, ExecutionError, Load, RotationError,
                StoreError
<1>. QED  BY <1>1, <1>2, <1>3, <1>4, <1>5 DEF Next, Approve, Reject, Choices

LEMMA AttendedNext ==
    ASSUME IInv, Teams, EngagedOK, Attended, QuorumTries >= 2, [Next]_vars
    PROVE  Attended'
<1> SUFFICES ASSUME crashes' = 0, NEW r \in Requests, Awaiting(r)',
                    Cardinality(Tally(r)') >= request'[r].terms.minimum
             PROVE  \E d \in Deciders : WillCount(d, r)'
    BY DEF Attended
<1>1. crashes = 0
  <2>1. crashes \in Nat /\ crashes' \in Nat
      BY InvariantNext DEF IInv, TypeOK
  <2>2. crashes' = crashes \/ crashes' = crashes + 1
      BY CrashCounts
  <2>. QED  BY <2>1, <2>2
<1>2. /\ TypeOK /\ TypeOK'
      /\ request'[r].terms.minimum \in Nat \ {0}
  <2>1. TypeOK /\ TypeOK'
      BY InvariantNext DEF IInv
  <2>2. request'[r].terms \in PolicyTerms
      BY <2>1 DEF TypeOK, RequestDoc
  <2>. QED  BY <2>1, <2>2, ConstantsAssumption DEF ValidTerms
<1>3. Awaiting(r)
  <2>1. SUFFICES ASSUME ~Awaiting(r) PROVE FALSE
      OBVIOUS
  <2>2. \A g \in Guardians : approval'[r][g] = "NONE"
      BY <2>1, AwaitingBegins
  <2>3. Tally(r)' = {}
      BY <2>2 DEF Tally, Counted, StillActive, ActiveGuardians
  <2>4. Cardinality(Tally(r)') = 0
      BY <2>3, FS_EmptySet
  <2>. QED  BY <1>2, <2>4
<1>4. CASE \A g \in Guardians : approval'[r][g] = approval[r][g]
  <2>1. Tally(r)' \subseteq Tally(r)
      BY <1>3, <1>4, TallyShrinks
  <2>2. Cardinality(Tally(r)) >= request[r].terms.minimum
    <3>1. IsFiniteSet(Tally(r))
        BY <1>2, TallyFinite
    <3>2. /\ Cardinality(Tally(r)') <= Cardinality(Tally(r))
          /\ Cardinality(Tally(r)') \in Nat /\ Cardinality(Tally(r)) \in Nat
        BY <2>1, <3>1, FS_Subset, FS_CardinalityType
    <3>3. request'[r].terms = request[r].terms
        BY <1>3, AwaitingKeeps
    <3>. QED  BY <1>2, <3>2, <3>3
  <2>3. PICK d \in Deciders : WillCount(d, r)
      BY <1>1, <1>3, <2>2 DEF Attended
  <2>4. WillCount(d, r)'
      BY <1>1, <1>3, <2>1, <2>2, <2>3, WitnessOfWrite, WitnessRests
  <2>. QED  BY <2>4
<1>5. CASE \E g \in Guardians : approval'[r][g] # approval[r][g]
    BY <1>5, RecordAttended
<1>. QED  BY <1>4, <1>5

LEMMA EngagedInit == Init => EngagedOK
    BY DEF Init, EngagedOK, Engaged, Awaiting, NoRequest

LEMMA AttendedInit == Init => Attended
    BY DEF Init, Attended, Awaiting, NoRequest

\* While a request waits, an approver who was suspended is not made active by an update
\* that was begun before.
THEOREM ApproversStayOut == Spec => []EngagedOK
<1>1. IInv /\ Teams /\ EngagedOK /\ [Next]_vars => EngagedOK'
    BY EngagedNext
<1>. QED  BY <1>1, EngagedInit, Invariant, TeamInvariant, PTL DEF Spec

\* With two tries or more -- the code has eight -- no interleaving of decisions, guardian
\* updates and reconciliation loses a quorum: as long as no call has died, some call is
\* about to count it.
THEOREM QuorumsAreRecognised == QuorumTries >= 2 => (Spec => []QuorumRecognised)
<1> SUFFICES ASSUME QuorumTries >= 2 PROVE Spec => []QuorumRecognised
    OBVIOUS
<1>1. IInv /\ Teams /\ EngagedOK /\ Attended /\ [Next]_vars => Attended'
    BY AttendedNext
<1>2. Attended => QuorumRecognised
    BY DEF Attended, QuorumRecognised, WillCount, Awaiting, Tally
<1>. QED
    BY <1>1, <1>2, AttendedInit, Invariant, TeamInvariant, ApproversStayOut, PTL DEF Spec
=============================================================================
