------------------------------ MODULE Recovery ------------------------------
(***************************************************************************)
(* The guardian recovery of one holder wallet: guardian assignments, the   *)
(* recovery policy, the recovery requests and their decisions, and the     *)
(* background worker that executes an approved request.                    *)
(*                                                                         *)
(* A service call is a sequence of repository calls; every repository call *)
(* is atomic and nothing spans two of them.  Each step below is therefore  *)
(* the code between two writes: the calls of the guardians (Deciders), of  *)
(* the wallet owner (Owners) and of the reconciler (Workers) keep what     *)
(* they have read in their own state, and store it with a compare-and-set  *)
(* on the document version.                                                *)
(***************************************************************************)
EXTENDS Naturals, FiniteSets

CONSTANTS
    Guardians,          \* guardian assignment ids (numbers: shares are split in id order)
    Users,              \* accounts of the platform
    UserOf,             \* UserOf[g] is the account that guardian g is
    OwnerUser,          \* the account that owns the wallet
    Requests,           \* recovery request ids
    PolicyTerms,        \* the policy terms the owner may PUT
    DefaultTerms,       \* the terms of the default policy
    Enrolled,           \* guardians already assigned when the behaviour starts
    Deciders,           \* threads serving approve and reject calls
    Owners,             \* threads serving the wallet owner's calls
    Workers,            \* recovery workers, and admin reconcile calls
    OwnerOps,           \* which owner operations are called
    OnDemand,           \* whether an administrator reconciles requests, besides the worker
    Lease,              \* duration of an execution lease
    QuorumTries,        \* compare-and-set attempts of a quorum calculation (8 in the code)
    MaxClock,           \* bound: the last instant
    MaxVersion,         \* bound: versions of a guardian or of the policy
    MaxCrashes          \* bound: calls that die between two of their steps

VARIABLES
    clock,              \* the time every process reads
    guardian,           \* guardian[g]: the stored assignment
    policy,             \* the stored policy; version 0 stands for no policy
    request,            \* request[r]: the stored recovery request
    approval,           \* approval[r][g]: the stored decision
    shares,             \* the stored share envelopes
    rotated,            \* requests whose key rotation the identity service performed
    decider,            \* the state of each guardian call
    call,               \* the state of each owner call
    worker,             \* the state of each reconciliation
    crashes             \* how many calls have died

store == <<guardian, policy, request, approval, shares>>
processes == <<decider, call, worker>>
vars == <<clock, guardian, policy, request, approval, shares, rotated,
          decider, call, worker, crashes>>

-----------------------------------------------------------------------------
(* Documents *)

GuardianStatus == {"UNASSIGNED", "ACTIVE", "SUSPENDED", "REVOKED", "REMOVED"}

\* The targets Guardian.transition accepts.
GuardianMoves ==
    [s \in GuardianStatus |->
        CASE s = "ACTIVE"    -> {"SUSPENDED", "REVOKED", "REMOVED"}
          [] s = "SUSPENDED" -> {"ACTIVE", "REVOKED", "REMOVED"}
          [] s = "REVOKED"   -> {"REMOVED"}
          [] OTHER           -> {}]

\* RecoveryPolicy.__post_init__, without its absolute limits on durations.
ValidTerms(t) ==
    /\ t.minimum \in 1 .. t.maximum
    /\ t.maximum \in 1 .. 32
    /\ t.window \in Nat \ {0}
    /\ t.timelock \in Nat
    /\ t.expiration \in Nat
    /\ t.expiration >= t.window + t.timelock
    /\ t.attempts \in 1 .. 20
    /\ t.cooldown \in Nat
    /\ t.cancellable \in BOOLEAN
    /\ t.selfGuardian \in BOOLEAN

ASSUME ConstantsAssumption ==
    /\ Guardians \subseteq Nat
    /\ IsFiniteSet(Guardians)
    /\ UserOf \in [Guardians -> Users]
    /\ OwnerUser \in Users
    /\ \A t \in PolicyTerms : ValidTerms(t)
    /\ DefaultTerms \in PolicyTerms
    /\ Enrolled \subseteq Guardians
    /\ \A g, h \in Enrolled : UserOf[g] = UserOf[h] => g = h
    /\ OnDemand \in BOOLEAN
    /\ Lease \in Nat \ {0}
    /\ QuorumTries \in Nat \ {0}
    /\ MaxClock \in Nat
    /\ MaxVersion \in Nat
    /\ MaxCrashes \in Nat

Terminal == {"COMPLETED", "REJECTED", "CANCELLED", "EXPIRED", "FAILED"}
Active == {"PENDING_APPROVALS", "QUORUM_REACHED", "WAITING_TIMELOCK",
           "READY_FOR_EXECUTION", "EXECUTING", "RECONCILIATION_REQUIRED"}
RecoveryState == Active \cup Terminal \cup {"ABSENT"}

\* The state machine that RecoveryRequest.transition enforces.
Transitions ==
    [s \in RecoveryState |->
        CASE s = "PENDING_APPROVALS" ->
                {"QUORUM_REACHED", "REJECTED", "CANCELLED", "EXPIRED", "FAILED"}
          [] s = "QUORUM_REACHED" ->
                {"WAITING_TIMELOCK", "CANCELLED", "EXPIRED", "FAILED"}
          [] s = "WAITING_TIMELOCK" ->
                {"READY_FOR_EXECUTION", "CANCELLED", "EXPIRED", "FAILED"}
          [] s = "READY_FOR_EXECUTION" ->
                {"EXECUTING", "CANCELLED", "EXPIRED", "FAILED"}
          [] s = "EXECUTING" ->
                {"COMPLETED", "RECONCILIATION_REQUIRED", "EXPIRED", "FAILED"}
          [] s = "RECONCILIATION_REQUIRED" ->
                {"READY_FOR_EXECUTION", "EXECUTING", "COMPLETED", "EXPIRED", "FAILED"}
          [] OTHER -> {}]

Choices == {"APPROVE", "REJECT"}

\* An optional timestamp that is not set; the clock starts later.
Unset == 0

GuardianDoc == [status : GuardianStatus, version : Nat]
PolicyDoc == [version : Nat, terms : PolicyTerms]
ShareDoc == [policyVersion : Nat, guardian : Guardians, request : Requests]

\* A request with its policy snapshot and session.  quorum is the set of
\* guardians whose approvals the persisted counter counts.
RequestDoc ==
    [state : RecoveryState, version : Nat, terms : PolicyTerms, policyVersion : Nat,
     guardians : SUBSET Guardians, approvalExpires : Nat, expires : Nat,
     quorum : SUBSET Guardians, quorumAt : Nat, executableAfter : Nat,
     attempts : Nat, lease : Nat, updated : Nat]

NoRequest ==
    [state |-> "ABSENT", version |-> 0, terms |-> DefaultTerms, policyVersion |-> 0,
     guardians |-> {}, approvalExpires |-> Unset, expires |-> Unset,
     quorum |-> {}, quorumAt |-> Unset, executableAfter |-> Unset,
     attempts |-> 0, lease |-> Unset, updated |-> Unset]

\* RecoveryRequest.transition: the next version of document q, in state s.
Moved(q, s, at) ==
    [q EXCEPT !.state = s, !.version = @ + 1, !.updated = at]

ActiveRequestExists == \E r \in Requests : request[r].state \in Active
ActiveGuardians == {g \in Guardians : guardian[g].status = "ACTIVE"}

\* Variant: the update is not conditional on the version.
LastWriterWins(r, q) == TRUE
\* The compare-and-set of update_request: document q was read as q.version.
Unchanged(r, q) == request[r].version = q.version
Store(r, q) == request' = [request EXCEPT ![r] = q]

\* _guardian_still_active: of the guardians of document q.
StillActive(q) == q.guardians \cap ActiveGuardians

\* The decisions that count: those of guardians active at the time of reading.
Counted(r, choice) == {g \in StillActive(request[r]) : approval[r][g] = choice}

\* The envelope of guardian g's share, bound to the request r of document q.
Sealed(q, r, g) == [policyVersion |-> q.policyVersion, guardian |-> g, request |-> r]
\* _share_for: the stored share of the policy version and the guardian, if it was
\* made for request r.
HasShare(q, r, g) == Sealed(q, r, g) \in shares

-----------------------------------------------------------------------------
(* Processes *)

IdleDecider == [pc |-> "idle"]
DeciderState ==
    [pc : {"idle"}]
    \cup [pc : {"late"}, id : Requests, doc : RequestDoc, at : Nat]
    \cup [pc : {"record"}, id : Requests, guardian : Guardians, choice : Choices, at : Nat]
    \cup [pc : {"count"}, id : Requests, guardian : Guardians, at : Nat, tries : Nat]
    \cup [pc : {"decide"}, id : Requests, guardian : Guardians, at : Nat, tries : Nat,
          doc : RequestDoc, approvals : SUBSET Guardians, rejections : SUBSET Guardians]
    \cup [pc : {"lock"}, id : Requests, guardian : Guardians, at : Nat, tries : Nat,
          doc : RequestDoc]

NoCall == [op |-> "none"]
CallState ==
    [op : {"none"}]
    \cup [op : {"enrol"}, guardian : Guardians]
    \cup [op : {"update"}, guardian : Guardians, target : GuardianStatus, version : Nat]
    \cup [op : {"policy"}, terms : PolicyTerms, version : Nat]
    \cup [op : {"default"}, id : Requests]
    \cup [op : {"putDefault"}, id : Requests, version : Nat]
    \cup [op : {"snapshot"}, id : Requests, policy : PolicyDoc]
    \cup [op : {"shares"}, id : Requests, doc : RequestDoc, left : SUBSET Guardians]
    \cup [op : {"cancel"}, id : Requests, doc : RequestDoc, at : Nat]

IdleWorker == [pc |-> "idle"]
WorkerState ==
    [pc : {"idle"}]
    \cup [pc : {"loaded", "ready", "claimed", "combined", "rotated"},
          id : Requests, doc : RequestDoc, at : Nat]
    \cup [pc : {"failing"}, id : Requests, doc : RequestDoc, at : Nat, retryable : BOOLEAN]

DecideAs(d, s) == decider' = [decider EXCEPT ![d] = s]
CallAs(o, c) == call' = [call EXCEPT ![o] = c]
WorkAs(w, s) == worker' = [worker EXCEPT ![w] = s]

Init ==
    /\ clock = 1
    /\ guardian = [g \in Guardians |->
                     IF g \in Enrolled THEN [status |-> "ACTIVE", version |-> 1]
                                       ELSE [status |-> "UNASSIGNED", version |-> 0]]
    /\ policy = [version |-> 0, terms |-> DefaultTerms]
    /\ request = [r \in Requests |-> NoRequest]
    /\ approval = [r \in Requests |-> [g \in Guardians |-> "NONE"]]
    /\ shares = {}
    /\ rotated = {}
    /\ decider = [d \in Deciders |-> IdleDecider]
    /\ call = [o \in Owners |-> NoCall]
    /\ worker = [w \in Workers |-> IdleWorker]
    /\ crashes = 0

-----------------------------------------------------------------------------
(* Guardian decisions: approve and reject *)

\* Read the request, the guardian and its earlier decision, and check that the
\* decision may be taken.  A repeated decision, a foreign guardian and a closed
\* request return or raise without an effect.
BeginDecision(d, r, g, choice) ==
    LET q == request[r] IN
    /\ decider[d].pc = "idle"
    /\ q.state = "PENDING_APPROVALS"
    /\ g \in q.guardians
    /\ approval[r][g] = "NONE"
    /\ \/ /\ clock >= q.approvalExpires \/ clock >= q.expires
          /\ DecideAs(d, [pc |-> "late", id |-> r, doc |-> q, at |-> clock])
       \/ /\ clock < q.approvalExpires /\ clock < q.expires
          /\ guardian[g].status = "ACTIVE"
          /\ HasShare(q, r, g)
          /\ DecideAs(d, [pc |-> "record", id |-> r, guardian |-> g,
                          choice |-> choice, at |-> clock])
    /\ UNCHANGED <<clock, store, rotated, call, worker, crashes>>

Approve(d, r, g) == BeginDecision(d, r, g, "APPROVE")
Reject(d, r, g) == BeginDecision(d, r, g, "REJECT")

\* A decision after the window expires the request, and fails either way.
ExpireLate(d) ==
    LET s == decider[d] IN
    /\ s.pc = "late"
    /\ \/ /\ Unchanged(s.id, s.doc)
          /\ Store(s.id, Moved(s.doc, "EXPIRED", s.at))
       \/ /\ ~Unchanged(s.id, s.doc)
          /\ UNCHANGED request
    /\ DecideAs(d, IdleDecider)
    /\ UNCHANGED <<clock, guardian, policy, approval, shares, rotated,
                   call, worker, crashes>>

\* add_approval_idempotently: one decision per guardian; the same one may be
\* repeated.
Acceptance(s) == approval[s.id][s.guardian] \in {"NONE", s.choice}

\* Insert the approval document; another decision of this guardian wins.
RecordDecision(d) ==
    LET s == decider[d] IN
    /\ s.pc = "record"
    /\ \/ /\ Acceptance(s)
          /\ approval' = [approval EXCEPT ![s.id][s.guardian] = s.choice]
          /\ DecideAs(d, [pc |-> "count", id |-> s.id, guardian |-> s.guardian,
                          at |-> s.at, tries |-> 0])
       \/ /\ ~Acceptance(s)
          /\ UNCHANGED approval
          /\ DecideAs(d, IdleDecider)
    /\ UNCHANGED <<clock, guardian, policy, request, shares, rotated,
                   call, worker, crashes>>

\* Each try of the quorum calculation reads the request and all its approvals.
CountDecisions(d) ==
    LET s == decider[d] IN
    /\ s.pc = "count"
    /\ IF request[s.id].state = "PENDING_APPROVALS"
         THEN DecideAs(d, [pc |-> "decide", id |-> s.id, guardian |-> s.guardian,
                           at |-> s.at, tries |-> s.tries, doc |-> request[s.id],
                           approvals |-> Counted(s.id, "APPROVE"),
                           rejections |-> Counted(s.id, "REJECT")])
         ELSE DecideAs(d, IdleDecider)
    /\ UNCHANGED <<clock, store, rotated, call, worker, crashes>>

\* RecoveryQuorum.reached, and what still could reach it.
Reached(q, approvals) == Cardinality(approvals) >= q.terms.minimum
Reachable(q, rejections) ==
    Cardinality(q.guardians) - Cardinality(rejections) >= q.terms.minimum

\* Variant: the quorum is dated like the document it was counted on.
DatedAsRead(s) ==
    LET q == [s.doc EXCEPT !.quorum = s.approvals] IN
    IF Reached(q, s.approvals)
      THEN Moved([q EXCEPT !.quorumAt = q.updated], "QUORUM_REACHED", s.at)
      ELSE IF Reachable(q, s.rejections)
             THEN Moved(q, "PENDING_APPROVALS", s.at)
             ELSE Moved(q, "REJECTED", s.at)
\* The outcome of a count: the quorum is reached, can no longer be reached, or
\* only the counters change.
QuorumOutcome(s) ==
    LET q == [s.doc EXCEPT !.quorum = s.approvals] IN
    IF Reached(q, s.approvals)
      THEN Moved([q EXCEPT !.quorumAt = s.at], "QUORUM_REACHED", s.at)
      ELSE IF Reachable(q, s.rejections)
             THEN Moved(q, "PENDING_APPROVALS", s.at)
             ELSE Moved(q, "REJECTED", s.at)

\* Variant: a lost race is not repeated.
GiveUp(d, s) == DecideAs(d, IdleDecider)
\* A lost race is counted again from the start, QuorumTries times in all.
RetryOrGiveUp(d, s) ==
    IF s.tries + 1 < QuorumTries
      THEN DecideAs(d, [pc |-> "count", id |-> s.id, guardian |-> s.guardian,
                        at |-> s.at, tries |-> s.tries + 1])
      ELSE DecideAs(d, IdleDecider)

StoreQuorum(d) ==
    LET s == decider[d]
        q == QuorumOutcome(s)
    IN
    /\ s.pc = "decide"
    /\ \/ /\ Unchanged(s.id, s.doc)
          /\ Store(s.id, q)
          /\ IF q.state = "QUORUM_REACHED"
               THEN DecideAs(d, [pc |-> "lock", id |-> s.id, guardian |-> s.guardian,
                                 at |-> s.at, tries |-> s.tries, doc |-> q])
               ELSE DecideAs(d, IdleDecider)
       \/ /\ ~Unchanged(s.id, s.doc)
          /\ RetryOrGiveUp(d, s)
          /\ UNCHANGED request
    /\ UNCHANGED <<clock, guardian, policy, approval, shares, rotated,
                   call, worker, crashes>>

\* Variant: the time lock counts from the moment it is stored.
LockedFromNow(q, at) ==
    Moved([q EXCEPT !.executableAfter = at + q.terms.timelock], "WAITING_TIMELOCK", at)
\* The time lock of a request whose quorum was reached at q.quorumAt.
Locked(q, at) ==
    Moved([q EXCEPT !.executableAfter = q.quorumAt + q.terms.timelock],
          "WAITING_TIMELOCK", at)

StartTimelock(d) ==
    LET s == decider[d] IN
    /\ s.pc = "lock"
    /\ \/ /\ Unchanged(s.id, s.doc)
          /\ Store(s.id, Locked(s.doc, s.at))
          /\ DecideAs(d, IdleDecider)
       \/ /\ ~Unchanged(s.id, s.doc)
          /\ RetryOrGiveUp(d, s)
          /\ UNCHANGED request
    /\ UNCHANGED <<clock, guardian, policy, approval, shares, rotated,
                   call, worker, crashes>>

-----------------------------------------------------------------------------
(* The wallet owner: guardian assignments *)

\* create_guardian up to its insert.  A removed assignment is never reused, so
\* an id is enrolled once.
BeginEnrol(o, g) ==
    LET capacity == policy.terms.maximum      \* the default terms when there is none
        taken == {h \in Guardians : guardian[h].status \notin {"UNASSIGNED", "REMOVED"}}
    IN
    /\ "enrol" \in OwnerOps
    /\ call[o] = NoCall
    /\ guardian[g].status = "UNASSIGNED"
    /\ \A p \in Owners : call[p] # [op |-> "enrol", guardian |-> g]
    /\ ~ActiveRequestExists
    /\ UserOf[g] = OwnerUser => policy.version > 0 /\ policy.terms.selfGuardian
    /\ Cardinality(taken) < capacity
    /\ CallAs(o, [op |-> "enrol", guardian |-> g])
    /\ UNCHANGED <<clock, store, rotated, decider, worker, crashes>>

\* Variant: a suspended assignment does not count.
AssignedActive == {h \in Guardians : guardian[h].status = "ACTIVE"}
\* The assignments the unique index on wallet and account ranges over.
Assigned == {h \in Guardians : guardian[h].status \in {"ACTIVE", "SUSPENDED"}}

Enrol(o) ==
    LET g == call[o].guardian IN
    /\ call[o].op = "enrol"
    /\ guardian' = IF \E h \in Assigned : UserOf[h] = UserOf[g]
                     THEN guardian
                     ELSE [guardian EXCEPT ![g] = [status |-> "ACTIVE", version |-> 1]]
    /\ CallAs(o, NoCall)
    /\ UNCHANGED <<clock, policy, request, approval, shares, rotated,
                   decider, worker, crashes>>

\* update_guardian and remove_guardian up to the write.  A target equal to the
\* current status is an edit of the other fields.
BeginUpdateGuardian(o, g, target) ==
    /\ "update" \in OwnerOps
    /\ call[o] = NoCall
    /\ guardian[g].status # "UNASSIGNED"
    /\ guardian[g].version < MaxVersion
    /\ target \in GuardianMoves[guardian[g].status] \cup {guardian[g].status}
    /\ ~ActiveRequestExists
    /\ CallAs(o, [op |-> "update", guardian |-> g, target |-> target,
                  version |-> guardian[g].version])
    /\ UNCHANGED <<clock, store, rotated, decider, worker, crashes>>

\* The compare-and-set of update_guardian.
GuardianUnchanged(c) == guardian[c.guardian].version = c.version

UpdateGuardian(o) ==
    LET c == call[o] IN
    /\ c.op = "update"
    /\ guardian' = IF GuardianUnchanged(c)
                     THEN [guardian EXCEPT ![c.guardian] =
                             [status |-> c.target, version |-> c.version + 1]]
                     ELSE guardian
    /\ CallAs(o, NoCall)
    /\ UNCHANGED <<clock, policy, request, approval, shares, rotated,
                   decider, worker, crashes>>

-----------------------------------------------------------------------------
(* The wallet owner: the policy *)

\* put_policy's conditions on terms t.
Acceptable(t) ==
    /\ ~ActiveRequestExists
    /\ Cardinality(ActiveGuardians) <= t.maximum
    /\ ~t.selfGuardian => \A g \in ActiveGuardians : UserOf[g] # OwnerUser

BeginPutPolicy(o, t) ==
    /\ "policy" \in OwnerOps
    /\ call[o] = NoCall
    /\ policy.version < MaxVersion
    /\ Acceptable(t)
    /\ CallAs(o, [op |-> "policy", terms |-> t, version |-> policy.version])
    /\ UNCHANGED <<clock, store, rotated, decider, worker, crashes>>

\* The insert or compare-and-set of upsert_policy: the caller read this version,
\* or no policy.
PolicyUnchanged(version) == policy.version = version

PutPolicy(o) ==
    LET c == call[o] IN
    /\ c.op = "policy"
    /\ policy' = IF PolicyUnchanged(c.version)
                   THEN [version |-> c.version + 1, terms |-> c.terms]
                   ELSE policy
    /\ CallAs(o, NoCall)
    /\ UNCHANGED <<clock, guardian, request, approval, shares, rotated,
                   decider, worker, crashes>>

-----------------------------------------------------------------------------
(* The wallet owner: creating and cancelling a request *)

\* Request ids are fresh: not stored, in no call and in no share.
Fresh(r) ==
    /\ request[r] = NoRequest
    /\ \A s \in shares : s.request # r
    /\ \A o \in Owners :
          call[o].op \in {"default", "putDefault", "snapshot", "shares"} => call[o].id # r

\* Refuse a second active request, then read the policy.
BeginCreate(o, r) ==
    /\ "create" \in OwnerOps
    /\ call[o] = NoCall
    /\ Fresh(r)
    /\ ~ActiveRequestExists
    /\ CallAs(o, IF policy.version > 0
                   THEN [op |-> "snapshot", id |-> r, policy |-> policy]
                   ELSE [op |-> "default", id |-> r])
    /\ UNCHANGED <<clock, store, rotated, decider, worker, crashes>>

\* There was no policy: put_policy with the default terms, which reads the policy
\* again and writes over what it finds, be it one the owner has put since.
BeginDefaultPolicy(o) ==
    LET c == call[o] IN
    /\ c.op = "default"
    /\ CallAs(o, IF Acceptable(DefaultTerms)
                   THEN [op |-> "putDefault", id |-> c.id, version |-> policy.version]
                   ELSE NoCall)
    /\ UNCHANGED <<clock, store, rotated, decider, worker, crashes>>

CreateDefaultPolicy(o) ==
    LET c == call[o]
        default == [version |-> c.version + 1, terms |-> DefaultTerms]
    IN
    /\ c.op = "putDefault"
    /\ \/ /\ PolicyUnchanged(c.version)
          /\ policy' = default
          /\ CallAs(o, [op |-> "snapshot", id |-> c.id, policy |-> default])
       \/ /\ ~PolicyUnchanged(c.version)
          /\ UNCHANGED policy
          /\ CallAs(o, NoCall)
    /\ UNCHANGED <<clock, guardian, request, approval, shares, rotated,
                   decider, worker, crashes>>

\* Every finished request of the wallet is at least a cooldown old.
CooldownElapsed(t) ==
    \A r \in Requests :
        request[r].state \in Terminal => clock >= request[r].updated + t.cooldown

\* The document a request starts as.
NewRequest(p, team) ==
    [NoRequest EXCEPT
        !.state = "PENDING_APPROVALS",
        !.version = 1,
        !.terms = p.terms,
        !.policyVersion = p.version,
        !.guardians = team,
        !.approvalExpires = clock + p.terms.window,
        !.expires = clock + p.terms.expiration,
        !.updated = clock]

\* The team can reach the quorum, and the policy allows its size.
Snapshotable(t, team) == Cardinality(team) \in t.minimum .. t.maximum

\* Check the cooldown, list the active guardians and draw up the request.
\* Bound: requests that would outlive MaxClock are not created.
SnapshotPolicy(o) ==
    LET c == call[o]
        t == c.policy.terms
        allowed == /\ CooldownElapsed(t)
                   /\ Snapshotable(t, ActiveGuardians)
                   /\ clock + t.expiration <= MaxClock
    IN
    /\ c.op = "snapshot"
    /\ CallAs(o, IF allowed
                   THEN [op |-> "shares", id |-> c.id,
                         doc |-> NewRequest(c.policy, ActiveGuardians),
                         left |-> ActiveGuardians]
                   ELSE NoCall)
    /\ UNCHANGED <<clock, store, rotated, decider, worker, crashes>>

\* Variant: a share that exists already is skipped.
SkipShare(c, g) == [c EXCEPT !.left = @ \ {g}]
\* Another request's share under the same key ends the call.
ShareConflict(c, g) == NoCall

\* save_share_set stores the shares one by one in guardian order; the key of a
\* share is the policy version and the guardian, its share version always is 1.
SaveShare(o) ==
    \E g \in Guardians :
        LET c == call[o]
            key(x) == <<x.policyVersion, x.guardian>>
            share == Sealed(c.doc, c.id, g)
            taken == \E x \in shares : key(x) = key(share) /\ x # share
        IN
        /\ c.op = "shares"
        /\ g \in c.left
        /\ \A h \in c.left : g <= h
        /\ \/ /\ ~taken
              /\ shares' = shares \cup {share}
              /\ CallAs(o, [c EXCEPT !.left = @ \ {g}])
           \/ /\ taken
              /\ UNCHANGED shares
              /\ CallAs(o, ShareConflict(c, g))
        /\ UNCHANGED <<clock, guardian, policy, request, approval, rotated,
                       decider, worker, crashes>>

\* The unique index on the wallet of an active request decides.
AddRequest(o) ==
    LET c == call[o] IN
    /\ c.op = "shares"
    /\ c.left = {}
    /\ \/ /\ ~ActiveRequestExists
          /\ Store(c.id, c.doc)
       \/ /\ ActiveRequestExists
          /\ UNCHANGED request
    /\ CallAs(o, NoCall)
    /\ UNCHANGED <<clock, guardian, policy, approval, shares, rotated,
                   decider, worker, crashes>>

BeginCancel(o, r) ==
    LET q == request[r] IN
    /\ "cancel" \in OwnerOps
    /\ call[o] = NoCall
    /\ q.state \in Active \ {"EXECUTING", "RECONCILIATION_REQUIRED"}
    /\ q.terms.cancellable
    /\ CallAs(o, [op |-> "cancel", id |-> r, doc |-> q, at |-> clock])
    /\ UNCHANGED <<clock, store, rotated, decider, worker, crashes>>

Cancel(o) ==
    LET c == call[o] IN
    /\ c.op = "cancel"
    /\ \/ /\ Unchanged(c.id, c.doc)
          /\ Store(c.id, Moved(c.doc, "CANCELLED", c.at))
       \/ /\ ~Unchanged(c.id, c.doc)
          /\ UNCHANGED request
    /\ CallAs(o, NoCall)
    /\ UNCHANGED <<clock, guardian, policy, approval, shares, rotated,
                   decider, worker, crashes>>

-----------------------------------------------------------------------------
(* Reconciliation and execution *)

\* The requests a polling cycle of the background worker picks up.
Due(r) ==
    /\ request[r].state \in Active
    /\ \/ request[r].expires <= clock
       \/ request[r].executableAfter # Unset /\ request[r].executableAfter <= clock

\* _reconcile_one reads the request, then the clock.  It serves the polling
\* worker and, OnDemand, the admin's reconcile call, which may name any request.
\* After a lost race it starts over, which is another Load: what is due stays due.
Load(w, r) ==
    /\ worker[w] = IdleWorker
    /\ request[r].state \in Active
    /\ OnDemand \/ Due(r)
    /\ WorkAs(w, [pc |-> "loaded", id |-> r, doc |-> request[r], at |-> clock])
    /\ UNCHANGED <<clock, store, rotated, decider, call, crashes>>

\* reconcile_due: one cycle of the polling worker.
ReconcileDue(w, r) == Due(r) /\ Load(w, r)

\* Variant: a request that waits for approvals never expires.
OverdueOnceApproved(q, at) == q.state # "PENDING_APPROVALS" /\ at >= q.expires
Overdue(q, at) ==
    \/ at >= q.expires
    \/ q.state = "PENDING_APPROVALS" /\ at >= q.approvalExpires

\* What reconciliation makes of a document it read at time "at".
Reconciled(q, at) ==
    CASE Overdue(q, at) -> Moved(q, "EXPIRED", at)
      [] ~Overdue(q, at) /\ q.state = "QUORUM_REACHED" -> Locked(q, at)
      [] ~Overdue(q, at) /\ q.state = "WAITING_TIMELOCK" /\ at >= q.executableAfter ->
            Moved(q, "READY_FOR_EXECUTION", at)
      [] ~Overdue(q, at) /\ q.state = "EXECUTING" /\ at >= q.lease ->
            Moved([q EXCEPT !.lease = Unset], "RECONCILIATION_REQUIRED", at)
      [] ~Overdue(q, at) /\ q.state = "RECONCILIATION_REQUIRED" ->
            Moved([q EXCEPT !.lease = Unset], "READY_FOR_EXECUTION", at)
      [] OTHER -> q

\* Store what reconciliation decides and go on to execute a ready request.
Reconcile(w) ==
    LET s == worker[w]
        q == Reconciled(s.doc, s.at)
        continue == IF q.state = "READY_FOR_EXECUTION"
                      THEN [pc |-> "ready", id |-> s.id, doc |-> q, at |-> s.at]
                      ELSE IdleWorker
    IN
    /\ s.pc = "loaded"
    /\ \/ /\ q = s.doc
          /\ WorkAs(w, continue)
          /\ UNCHANGED request
       \/ /\ q # s.doc
          /\ Unchanged(s.id, s.doc)
          /\ Store(s.id, q)
          /\ WorkAs(w, continue)
       \/ /\ q # s.doc
          /\ ~Unchanged(s.id, s.doc)
          /\ WorkAs(w, IdleWorker)
          /\ UNCHANGED request
    /\ UNCHANGED <<clock, guardian, policy, approval, shares, rotated,
                   decider, call, crashes>>

\* RecoveryLease: the worker's next attempt, until the lease expires.
Leased(q, at) == [q EXCEPT !.attempts = @ + 1, !.lease = at + Lease]

\* _execute claims the request under an expiring lease.
Claim(w) ==
    LET s == worker[w]
        claimed == Moved(Leased(s.doc, clock), "EXECUTING", clock)
    IN
    /\ s.pc = "ready"
    /\ \/ /\ Unchanged(s.id, s.doc)
          /\ Store(s.id, claimed)
          /\ WorkAs(w, [s EXCEPT !.pc = "claimed", !.doc = claimed])
       \/ /\ ~Unchanged(s.id, s.doc)
          /\ WorkAs(w, IdleWorker)
          /\ UNCHANGED request
    /\ UNCHANGED <<clock, guardian, policy, approval, shares, rotated,
                   decider, call, crashes>>

\* Variant: an error of the execution is taken for its success.
Swallowed(s, retryable) == [pc |-> "rotated", id |-> s.id, doc |-> s.doc, at |-> s.at]
\* Variant: the failure is not classified.
Unclassified(s, retryable) == [pc |-> "failing", id |-> s.id, doc |-> s.doc, at |-> s.at]
\* What is left to store when the execution fails.
Failing(s, retryable) ==
    [pc |-> "failing", id |-> s.id, doc |-> s.doc, at |-> s.at, retryable |-> retryable]

\* combine: enough shares, all of the same split, and no two of one guardian.
Combinable(q, r, given) ==
    /\ Cardinality(given) \in q.terms.minimum .. 32
    /\ \A x \in given : x.policyVersion = q.policyVersion /\ x.request = r
    /\ \A x, y \in given : x.guardian = y.guardian => x = y

\* The approvals of guardians that still are active, and their shares, must
\* reach the threshold again.
CombineShares(w) ==
    LET s == worker[w]
        team == {g \in StillActive(s.doc) : approval[s.id][g] = "APPROVE"}
        combinable == /\ Reached(s.doc, team)
                      /\ \A g \in team : HasShare(s.doc, s.id, g)
                      /\ Combinable(s.doc, s.id, {Sealed(s.doc, s.id, g) : g \in team})
    IN
    /\ s.pc = "claimed"
    /\ WorkAs(w, IF combinable THEN [s EXCEPT !.pc = "combined"] ELSE Failing(s, FALSE))
    /\ UNCHANGED <<clock, store, rotated, decider, call, crashes>>

\* The identity service rotates the wallet's key, once per request id.
RotateKey(w) ==
    LET s == worker[w] IN
    /\ s.pc = "combined"
    /\ rotated' = rotated \cup {s.id}
    /\ WorkAs(w, [s EXCEPT !.pc = "rotated"])
    /\ UNCHANGED <<clock, store, decider, call, crashes>>

\* The identity service answers with an error or not at all: every such answer is
\* retryable, and the rotation may have been performed all the same.
RotationError(w) ==
    LET s == worker[w] IN
    /\ s.pc = "combined"
    /\ rotated' \in {rotated, rotated \cup {s.id}}
    /\ WorkAs(w, Failing(s, TRUE))
    /\ UNCHANGED <<clock, store, decider, call, crashes>>

\* Any other exception of the execution: the store fails.
StoreError(w) ==
    LET s == worker[w] IN
    /\ s.pc \in {"claimed", "rotated"}
    /\ WorkAs(w, Failing(s, TRUE))
    /\ UNCHANGED <<clock, store, rotated, decider, call, crashes>>

ExecutionError(w) == RotationError(w) \/ StoreError(w)

Complete(w) ==
    LET s == worker[w] IN
    /\ s.pc = "rotated"
    /\ \/ /\ Unchanged(s.id, s.doc)
          /\ Store(s.id, Moved([s.doc EXCEPT !.lease = Unset], "COMPLETED", clock))
          /\ WorkAs(w, IdleWorker)
       \/ /\ ~Unchanged(s.id, s.doc)
          /\ WorkAs(w, Failing(s, TRUE))
          /\ UNCHANGED request
    /\ UNCHANGED <<clock, guardian, policy, approval, shares, rotated,
                   decider, call, crashes>>

RecordFailure(w) ==
    LET s == worker[w]
        exhausted == s.doc.attempts >= s.doc.terms.attempts
        target == IF s.retryable /\ ~exhausted THEN "RECONCILIATION_REQUIRED" ELSE "FAILED"
    IN
    /\ s.pc = "failing"
    /\ \/ /\ Unchanged(s.id, s.doc)
          /\ Store(s.id, Moved([s.doc EXCEPT !.lease = Unset], target, clock))
       \/ /\ ~Unchanged(s.id, s.doc)
          /\ UNCHANGED request
    /\ WorkAs(w, IdleWorker)
    /\ UNCHANGED <<clock, guardian, policy, approval, shares, rotated,
                   decider, call, crashes>>

-----------------------------------------------------------------------------
(* The environment *)

Tick ==
    /\ clock < MaxClock
    /\ clock' = clock + 1
    /\ UNCHANGED <<store, rotated, processes, crashes>>

\* A call dies between two steps: its process crashes, or the store raises.
Crash ==
    /\ crashes < MaxCrashes
    /\ crashes' = crashes + 1
    /\ \/ \E d \in Deciders : /\ decider[d] # IdleDecider
                              /\ DecideAs(d, IdleDecider)
                              /\ UNCHANGED <<call, worker>>
       \/ \E o \in Owners : /\ call[o] # NoCall
                            /\ CallAs(o, NoCall)
                            /\ UNCHANGED <<decider, worker>>
       \/ \E w \in Workers : /\ worker[w] # IdleWorker
                             /\ WorkAs(w, IdleWorker)
                             /\ UNCHANGED <<decider, call>>
    /\ UNCHANGED <<clock, store, rotated>>

-----------------------------------------------------------------------------
DeciderStep(d) ==
    \/ ExpireLate(d)
    \/ RecordDecision(d)
    \/ CountDecisions(d)
    \/ StoreQuorum(d)
    \/ StartTimelock(d)

OwnerStep(o) ==
    \/ Enrol(o)
    \/ UpdateGuardian(o)
    \/ PutPolicy(o)
    \/ BeginDefaultPolicy(o)
    \/ CreateDefaultPolicy(o)
    \/ SnapshotPolicy(o)
    \/ SaveShare(o)
    \/ AddRequest(o)
    \/ Cancel(o)

OwnerBegin(o) ==
    \/ \E g \in Guardians : BeginEnrol(o, g)
    \/ \E g \in Guardians, s \in GuardianStatus : BeginUpdateGuardian(o, g, s)
    \/ \E t \in PolicyTerms : BeginPutPolicy(o, t)
    \/ \E r \in Requests : BeginCreate(o, r)
    \/ \E r \in Requests : BeginCancel(o, r)

WorkerStep(w) ==
    \/ Reconcile(w)
    \/ Claim(w)
    \/ CombineShares(w)
    \/ RotateKey(w)
    \/ Complete(w)
    \/ RecordFailure(w)

Next ==
    \/ Tick
    \/ Crash
    \/ \E d \in Deciders : DeciderStep(d)
    \/ \E d \in Deciders, r \in Requests, g \in Guardians :
            Approve(d, r, g) \/ Reject(d, r, g)
    \/ \E o \in Owners : OwnerStep(o) \/ OwnerBegin(o)
    \/ \E w \in Workers : WorkerStep(w) \/ ExecutionError(w)
    \/ \E w \in Workers, r \in Requests : Load(w, r)

Spec == Init /\ [][Next]_vars

\* Time passes, a call that has started runs on, and the background worker
\* polls for ever.  No client has to call.
Fairness ==
    /\ WF_vars(Tick)
    /\ \A d \in Deciders : WF_vars(DeciderStep(d))
    /\ \A o \in Owners : WF_vars(OwnerStep(o))
    /\ \A w \in Workers : WF_vars(WorkerStep(w))
    /\ \A w \in Workers, r \in Requests : WF_vars(ReconcileDue(w, r))

FairSpec == Spec /\ Fairness

-----------------------------------------------------------------------------
(* Properties *)

\* Every document and every process keeps the shape the code gives it.
TypeOK ==
    /\ clock \in Nat
    /\ guardian \in [Guardians -> GuardianDoc]
    /\ policy \in PolicyDoc
    /\ request \in [Requests -> RequestDoc]
    /\ approval \in [Requests -> [Guardians -> Choices \cup {"NONE"}]]
    /\ shares \subseteq ShareDoc
    /\ rotated \subseteq Requests
    /\ decider \in [Deciders -> DeciderState]
    /\ call \in [Owners -> CallState]
    /\ worker \in [Workers -> WorkerState]
    /\ crashes \in Nat

Approvers(r) == {g \in request[r].guardians : approval[r][g] = "APPROVE"}

\* A wallet key is rotated only for a request that a quorum of its guardians has
\* approved and whose time lock, counted from the quorum, has passed -- however
\* slow, duplicated or dead the calls and workers were that handled it -- and
\* never for one that was rejected or is still being decided.
RotationAuthorised ==
    \A r \in rotated :
        LET q == request[r] IN
        /\ Cardinality(Approvers(r)) >= q.terms.minimum
        /\ q.quorumAt < q.approvalExpires
        /\ q.executableAfter = q.quorumAt + q.terms.timelock
        /\ q.executableAfter <= clock
        /\ q.attempts > 0
        /\ q.state \notin {"ABSENT", "PENDING_APPROVALS", "QUORUM_REACHED",
                           "WAITING_TIMELOCK", "REJECTED"}

\* A request reported COMPLETED has had its key rotated, even if another worker
\* took over an expired lease in between.
CompletedMeansRotated ==
    \A r \in Requests : request[r].state = "COMPLETED" => r \in rotated

\* The wallet has at most one request in flight, whatever stale copy of an older
\* request some worker or call still holds and tries to store.
OneActiveRequest ==
    \A r, s \in Requests :
        request[r].state \in Active /\ request[s].state \in Active => r = s

\* The guardians of a request are distinct accounts, so that M approvals are
\* approvals of M people although assignments are revoked and made again.
QuorumOfDistinctAccounts ==
    \A r \in Requests : \A g, h \in request[r].guardians :
        UserOf[g] = UserOf[h] => g = h

\* Every guardian of a stored request has a share of that request's secret: the
\* share set was complete before the request became visible, and no later
\* request of the same policy version replaced a part of it.
SharesHeld ==
    \A r \in Requests : \A g \in request[r].guardians :
        HasShare(request[r], r, g)

\* A finished request is never written again, by any late call or worker: a worker
\* whose lease was taken over may still rotate the key, but not finish the request.
TerminalIsFinal ==
    [][\A r \in Requests : request[r].state \in Terminal => request'[r] = request[r]]_vars

\* Every stored change of state is a transition of the state machine, although
\* each writer decided on a copy it had read before.
LegalTransitions ==
    [][\A r \in Requests :
          \/ request'[r].state = request[r].state
          \/ request'[r].state \in Transitions[request[r].state]
          \/ request[r].state = "ABSENT" /\ request'[r].state = "PENDING_APPROVALS"]_vars

\* As long as no call has died, a quorum of recorded approvals of active guardians is
\* never overlooked: while the request still waits for approvals, some call is about
\* to count them -- also when the calls race and one gives up after QuorumTries lost
\* races.
QuorumRecognised ==
    \A r \in Requests :
        /\ crashes = 0
        /\ request[r].state = "PENDING_APPROVALS"
        /\ Cardinality(Counted(r, "APPROVE")) >= request[r].terms.minimum
        => \E d \in Deciders :
              /\ decider[d].pc \in {"count", "decide"}
              /\ decider[d].id = r

\* Every request is finished in the end: approved and executed, refused,
\* cancelled, failed or expired, through crashes, lost races and lost leases.
EventuallyFinished ==
    \A r \in Requests :
        (request[r].state \in Active) ~> (request[r].state \in Terminal)

=============================================================================
