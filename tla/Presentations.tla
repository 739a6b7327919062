---------------------------- MODULE Presentations ----------------------------
\* Holder wallets, presentation challenges and presentations of the identity
\* service: a holder consumes a server challenge and signs a presentation, the
\* verifier claims and decides it, and a reconciliation worker or an
\* administrator decides the ones whose verifier stopped half way.
\*
\* Every collection is a function from identifiers to documents; a call in
\* flight is a record that says which step of its handler runs next, so that
\* calls interleave between any two accesses to the database.
EXTENDS Integers, FiniteSets

CONSTANTS
    Wallets,        \* holder wallets
    Challenges,     \* identifiers of challenges
    Requested,      \* holders that challenges are issued for
    Items,          \* identifiers of presentations
    Credentials,    \* credentials that can be presented
    HeldBy,         \* the wallet each credential was issued to
    Clients,        \* concurrent requests: create or verify
    Admins,         \* those of them that may also reconcile
    Workers,        \* background reconciliation loops
    Lifetime,       \* lifetime of a challenge
    MinLife,        \* least lifetime of a presentation
    Lives,          \* lifetimes that a presentation is requested with
    Stale,          \* age at which PROCESSING may be reconciled
    BatchLimit,     \* most presentations one cycle takes
    MaxClock,       \* bound of the clock
    MaxAttempts,    \* bound on the attempts after which an administrator still steps in
    MaxRotations,   \* bound on the rotations of a wallet's key
    MaxMishaps      \* bound on failed database calls, restarts, revocations,
                    \* suspensions, rotations and closed wallets together

VARIABLES
    clock,          \* now, in units coarser than a request
    wallet,         \* collection holder_wallets
    key,            \* of a wallet with a managed key: whether that key is ACTIVE
    challenge,      \* collection presentation_challenges
    item,           \* collection presentations
    credential,     \* lifecycle of the credentials
    known,          \* DIDs the process-local holder key provider has seen
    call,           \* creation or verification in flight, per client
    job,            \* reconciliation in flight, per worker and administrator
    running,        \* workers whose loop has not ended
    events,         \* audit events that reached the outbox
    mishaps         \* what MaxMishaps bounds, so far

vars == <<clock, wallet, key, challenge, item, credential, known, call, job, running, events, mishaps>>

Never == -1
None == "none"
Anyone == <<"anyone", 0>>
Now == 0 .. MaxClock
Instant == Now \cup {Never}
Reconcilers == Workers \cup Admins

\* A holder DID is derived from the wallet's key, so each rotation gives another.
Did == Wallets \X (0 .. MaxRotations)
NoDid == <<None, 0>>

ASSUME PresentationAssumptions ==
    /\ HeldBy \in [Credentials -> Wallets]
    /\ Requested \subseteq Did \cup {Anyone}
    /\ {Lifetime, MinLife, Stale, BatchLimit} \subseteq Nat \ {0}
    /\ Lives \subseteq {life \in Nat : life >= MinLife}
    /\ {MaxClock, MaxAttempts, MaxRotations, MaxMishaps} \subseteq Nat
    /\ Clients \cap Workers = {} /\ Admins \subseteq Clients

-----------------------------------------------------------------------------
\* Documents

WalletStatus == {"ACTIVE", "LOCKED", "DISABLED"}
WalletDoc == [status : WalletStatus, did : Did, version : Nat \ {0}]

ChallengeStatus == {"ABSENT", "ISSUED", "CONSUMED", "EXPIRED"}
ChallengeDoc ==
    [status : ChallengeStatus, requested : Did \cup {Anyone},
     expires : Nat, version : 0 .. 2]
NoChallenge ==
    [status |-> "ABSENT", requested |-> Anyone, expires |-> 0, version |-> 0]

State == {"ABSENT", "PENDING", "PROCESSING", "VERIFIED", "REJECTED"}
Decided == {"VERIFIED", "REJECTED"}
Codes == {"NONE", "ERRORS", "EVIDENCE_INCOMPLETE"}
ItemDoc ==
    [state : State, challenge : Challenges \cup {None}, wallet : Wallets \cup {None},
     did : Did \cup {NoDid}, credentials : SUBSET Credentials, from : Now, until : Nat, started : Instant,
     attempts : Nat, reconciled : Instant, verified : Instant, codes : Codes,
     version : Nat]
NoItem ==
    [state |-> "ABSENT", challenge |-> None, wallet |-> None, did |-> NoDid,
     credentials |-> {}, from |-> 0, until |-> 0, started |-> Never, attempts |-> 0,
     reconciled |-> Never, verified |-> Never, codes |-> "NONE", version |-> 0]

\* What the constructor demands of a presentation, at creation and whenever it is read.
Consistent(d) ==
    /\ d.until - d.from >= MinLife
    /\ d.state \in {"PENDING", "PROCESSING"} => d.verified = Never /\ d.codes = "NONE"
    /\ d.state = "VERIFIED" => d.verified # Never /\ d.codes = "NONE"
    /\ d.state = "REJECTED" => d.verified # Never /\ d.codes # "NONE"
    /\ d.state = "PENDING" => d.started = Never
    /\ d.state = "PROCESSING" => d.started # Never
    /\ d.started # Never => d.started >= d.from
    /\ d.reconciled = Never <=> d.attempts = 0
    /\ d.reconciled # Never => d.started # Never /\ d.reconciled >= d.started

CredentialDoc == [status : {"ACTIVE", "REVOKED"}, revoked : Instant]

HolderStep == {"challenge", "consume", "build", "insert"}
VerifierStep == {"claim", "inspect", "complete"}
Call ==
    [step : {"idle"} \cup HolderStep \cup VerifierStep,
     wallet : Wallets \cup {None}, did : Did \cup {NoDid}, challenge : Challenges \cup {None},
     credentials : SUBSET Credentials, item : Items \cup {None},
     from : Instant, version : Nat, verdict : Codes]

Idle ==
    [step |-> "idle", wallet |-> None, did |-> NoDid, challenge |-> None, credentials |-> {},
     item |-> None, from |-> Never, version |-> 0, verdict |-> "NONE"]

Job ==
    [step : {"idle", "read", "claim", "evidence", "inspect", "complete"},
     batch : SUBSET Items, item : Items \cup {None}, at : Instant, version : Nat, verdict : Codes]

NoJob ==
    [step |-> "idle", batch |-> {}, item |-> None, at |-> Never, version |-> 0, verdict |-> "NONE"]

\* The states in which the system starts: wallets are open, nothing is presented.
Init ==
    /\ clock = 0
    /\ wallet = [w \in Wallets |-> [status |-> "ACTIVE", did |-> <<w, 0>>, version |-> 1]]
    /\ \E managed \in SUBSET Wallets : key = [w \in managed |-> TRUE]
    /\ challenge = [c \in Challenges |-> NoChallenge]
    /\ item = [p \in Items |-> NoItem]
    /\ credential = [k \in Credentials |-> [status |-> "ACTIVE", revoked |-> Never]]
    /\ known = {}
    /\ call = [x \in Clients |-> Idle]
    /\ job = [r \in Reconcilers |-> NoJob]
    /\ running = Workers
    /\ events = {}
    /\ mishaps = 0

\* The wallets whose key is a managed key; the others have a legacy key.
Managed == DOMAIN key

Stored == {p \in Items : item[p].state # "ABSENT"}

-----------------------------------------------------------------------------
\* Repositories: each write is one conditional update

\* Variant: the challenge is consumed whatever has become of it.
ConsumableAsRead(x) == TRUE

\* consume: the challenge must be unchanged and ISSUED. That it is in time was seen
\* at the instant the update compares its expiry with.
ConsumableBy(x) ==
    LET d == challenge[call[x].challenge] IN d.version = call[x].version /\ d.status = "ISSUED"

\* expire: the challenge must be ISSUED and out of time.
Expired(c) ==
    IF challenge[c].status = "ISSUED" /\ challenge[c].expires <= clock
    THEN [challenge EXCEPT ![c].status = "EXPIRED", ![c].version = @ + 1]
    ELSE challenge

\* add: one presentation per challenge (unique index on challenge and domain).
Insertable(c) == \A p \in Stored : item[p].challenge # c

\* claim_verification: the first claim takes PENDING to PROCESSING.
ClaimableAt(p, v) == item[p].state = "PENDING" /\ item[p].version = v

\* Variant: any claim decides.
CompletableByAny(p, v) == item[p].state = "PROCESSING"
\* complete_verification: only the holder of the latest version decides.
Completable(p, v) == item[p].state = "PROCESSING" /\ item[p].version = v

\* Variant: a presentation is reconciled once.
ReclaimableOnce(p, v, at) ==
    /\ item[p].state = "PROCESSING" /\ item[p].attempts = 0
    /\ item[p].started <= at - Stale
    /\ item[p].version = v

\* claim_reconciliation: the claim must be stale and unchanged.
ReclaimableAt(p, v, at) ==
    /\ item[p].state = "PROCESSING"
    /\ item[p].started <= at - Stale
    /\ item[p].version = v

\* Variant: the time of the decision is left out.
CompletedUndated(p, verdict) ==
    [item EXCEPT ![p].state = IF verdict = "NONE" THEN "VERIFIED" ELSE "REJECTED",
                 ![p].codes = verdict, ![p].version = @ + 1]

\* The document of a decision.
Completed(p, verdict) ==
    [item EXCEPT ![p].state = IF verdict = "NONE" THEN "VERIFIED" ELSE "REJECTED",
                 ![p].codes = verdict,
                 ![p].verified = clock,
                 ![p].version = @ + 1]

\* list_stale_processing: the oldest claims, up to the limit of a batch.
StaleItems == {p \in Stored : item[p].state = "PROCESSING" /\ item[p].started <= clock - Stale}
Batches ==
    {B \in SUBSET StaleItems :
        /\ Cardinality(B) <= BatchLimit
        /\ Cardinality(B) < BatchLimit => B = StaleItems
        /\ \A p \in B, q \in StaleItems \ B : item[p].started <= item[q].started}

-----------------------------------------------------------------------------
\* Keys and validation

\* require_owned_active.
Usable(w) == wallet[w].status = "ACTIVE"

\* A managed key signs while it is ACTIVE and the wallet is still bound to it.
MaySign(w, did) == w \in Managed => key[w] /\ wallet[w].did = did

\* The local provider learns a legacy wallet's verification method whenever it is asked for it.
Seen(w, did) == IF w \in Managed THEN {} ELSE {did}

\* Lifetime of the presentation that a verifier or a worker looks at.
EnvelopeErrors(d, at) ==
    (IF at < d.from THEN {"PRESENTATION_NOT_YET_VALID"} ELSE {})
        \cup (IF at > d.until THEN {"PRESENTATION_EXPIRED"} ELSE {})

\* get_verification_key: the process-local provider knows the methods it has seen.
Trusted(did) == did \in known
HolderKeyErrors(d) == IF Trusted(d.did) THEN {} ELSE {"HOLDER_RESOLUTION_FAILED"}

\* A supplied document that is not the stored one: its proof is bound to another
\* challenge, its signature is wrong, or only its digest tells it from the stored one.
ProofErrors(intact) == IF intact THEN {} ELSE {"CHALLENGE_MISMATCH"}
SignatureErrors(intact) == IF intact THEN {} ELSE {"INVALID_PRESENTATION_SIGNATURE"}
ContentErrors(intact) == IF intact THEN {} ELSE {"PRESENTATION_CONTENT_MISMATCH"}

\* What is wrong with a credential now (inspect).
CredentialErrors(k, did) ==
    (IF credential[k].status = "REVOKED" THEN {"CREDENTIAL_REVOKED"} ELSE {})
        \cup (IF did # <<HeldBy[k], 0>> THEN {"HOLDER_BINDING_MISMATCH"} ELSE {})

Errors(p, at, intact) ==
    EnvelopeErrors(item[p], at) \cup ProofErrors(intact) \cup HolderKeyErrors(item[p])
        \cup SignatureErrors(intact) \cup ContentErrors(intact)
        \cup UNION {CredentialErrors(k, item[p].did) : k \in item[p].credentials}

\* require_for_creation: every credential can be presented by this holder.
Presentable(ks, did) == \A k \in ks : CredentialErrors(k, did) = {}

Verdict(errors) == IF errors = {} THEN "NONE" ELSE "ERRORS"

-----------------------------------------------------------------------------
\* Challenges

NewChallenge(did) ==
    [status |-> "ISSUED", requested |-> did, expires |-> clock + Lifetime, version |-> 1]

\* POST /presentation-challenges: issue. The bound lets whatever uses the challenge
\* become stale.
Issue(c, did) ==
    /\ challenge[c].status = "ABSENT"
    /\ clock + Lifetime + Stale <= MaxClock
    /\ challenge' = [challenge EXCEPT ![c] = NewChallenge(did)]
    /\ UNCHANGED <<clock, wallet, key, item, credential, known, call, job, running, events, mishaps>>

\* _expire_if_needed: on the second of its expiry a challenge can still be used.
Overdue(c) == challenge[c].status = "ISSUED" /\ clock > challenge[c].expires

\* get_authorized: reading an overdue challenge expires it.
ReadOverdue(c) ==
    /\ Overdue(c)
    /\ challenge' = Expired(c)
    /\ UNCHANGED <<clock, wallet, key, item, credential, known, call, job, running, events, mishaps>>

-----------------------------------------------------------------------------
\* Creating a presentation

Free(x) == call[x] = Idle /\ (x \in Admins => job[x] = NoJob)
Ends(x) == call' = [call EXCEPT ![x] = Idle]

\* require_owned_active, then require_for_creation: the wallet ACTIVE, every credential
\* active and of this holder. The time of creation is read here and kept. No
\* credential becomes active again, so reading both at once loses nothing. Bound:
\* a call starts while some challenge can be used, which another may use before it.
OpenCreate(h, w) ==
    /\ Free(h)
    /\ \E c \in Challenges : challenge[c].status = "ISSUED"
    /\ Usable(w)
    /\ \E ks \in SUBSET Credentials \ {{}} :
        /\ Presentable(ks, wallet[w].did)
        /\ call' = [call EXCEPT ![h] = [Idle EXCEPT !.step = "challenge", !.wallet = w,
                                                    !.did = wallet[w].did, !.from = clock,
                                                    !.credentials = ks]]
    /\ UNCHANGED <<clock, wallet, key, challenge, item, credential, known, job, running, events, mishaps>>

\* The challenge is for another holder, or was used.
Refused(d, did) == d.requested \notin {Anyone, did} \/ d.status = "CONSUMED"

\* consume_for_presentation up to its write; an overdue challenge expires. A challenge
\* that changes between this reading and its expiry has been consumed in time, as if
\* it had been before the reading.
ReadChallenge(h, c) ==
    /\ call[h].step = "challenge"
    /\ LET d == challenge[c] IN
       \/ /\ d.status # "ABSENT"
          /\ Refused(d, call[h].did) \/ clock > d.expires
          /\ challenge' = IF Refused(d, call[h].did) THEN challenge ELSE Expired(c)
          /\ Ends(h)
       \/ /\ d.status = "ISSUED"
          /\ ~Refused(d, call[h].did)
          /\ clock <= d.expires
          /\ call' = [call EXCEPT ![h].step = "consume", ![h].challenge = c,
                                  ![h].version = d.version]
          /\ UNCHANGED challenge
    /\ UNCHANGED <<clock, wallet, key, item, credential, known, job, running, events, mishaps>>

\* The write of consume_for_presentation: one call wins, the others end with a replay error.
Consume(h) ==
    /\ call[h].step = "consume"
    /\ \/ /\ ConsumableBy(h)
          /\ challenge' = [challenge EXCEPT ![call[h].challenge].status = "CONSUMED",
                                            ![call[h].challenge].version = @ + 1]
          /\ call' = [call EXCEPT ![h].step = "build"]
       \/ /\ ~ConsumableBy(h)
          /\ Ends(h)
          /\ UNCHANGED challenge
    /\ UNCHANGED <<clock, wallet, key, item, credential, known, job, running, events, mishaps>>

Mishap == mishaps < MaxMishaps /\ mishaps' = mishaps + 1

\* _PresentationAudit.record: the event reaches the outbox, or that write fails and
\* the call goes on.
Record(es) ==
    \/ events' = events \cup es /\ UNCHANGED mishaps
    \/ Mishap /\ UNCHANGED events

\* What is left of the challenge's lifetime is too little for a presentation.
Short(c) == challenge[c.challenge].expires - c.from < MinLife

\* PresentationBuilder.build: the key must control the holder and sign.
Signable(c) == MaySign(c.wallet, c.did)

\* After the challenge is consumed: a conflicting binding, too short a remaining
\* lifetime or a key that may not sign ends the call, and the challenge stays consumed.
Build(h, conflict) ==
    /\ call[h].step = "build"
    /\ LET c == call[h] IN
       \/ /\ conflict \/ Short(c) \/ ~Signable(c)
          /\ Ends(h)
          /\ UNCHANGED known
       \/ /\ ~conflict /\ ~Short(c) /\ Signable(c)
          /\ call' = [call EXCEPT ![h].step = "insert"]
          /\ known' = known \cup Seen(c.wallet, c.did)
    /\ UNCHANGED <<clock, wallet, key, challenge, item, credential, job, running, events, mishaps>>

\* A presentation lasts as long as it was requested for, and no longer than its
\* challenge.
Until(c, life) ==
    LET expires == challenge[c.challenge].expires IN
    IF c.from + life < expires THEN c.from + life ELSE expires

NewItem(c, life) ==
    [state |-> "PENDING", challenge |-> c.challenge, wallet |-> c.wallet, did |-> c.did,
     credentials |-> c.credentials, from |-> c.from, until |-> Until(c, life), started |-> Never,
     attempts |-> 0, reconciled |-> Never, verified |-> Never, codes |-> "NONE", version |-> 1]

\* The lifetime requested decides nothing before the document is made: a requested one
\* is never below MinLife, so that Short asks for the rest of the challenge's alone.
Insert(h, p) ==
    /\ call[h].step = "insert"
    /\ item[p].state = "ABSENT"
    /\ \/ /\ Insertable(call[h].challenge)
          /\ \E life \in Lives : item' = [item EXCEPT ![p] = NewItem(call[h], life)]
          /\ Record({<<"CREATED", p>>})
       \/ /\ ~Insertable(call[h].challenge)
          /\ UNCHANGED <<item, events, mishaps>>
    /\ Ends(h)
    /\ UNCHANGED <<clock, wallet, key, challenge, credential, known, job, running>>

-----------------------------------------------------------------------------
\* Verifying a presentation

\* require_for_verification: the challenge was used by this holder and is in time.
VerifiableBy(c, did) ==
    /\ challenge[c].status = "CONSUMED"
    /\ challenge[c].requested \in {Anyone, did}
    /\ clock <= challenge[c].expires

\* verify up to the claim. The challenge of a stored presentation is CONSUMED and
\* never changes again, so its reading is part of this step.
OpenVerify(v, p) ==
    /\ Free(v)
    /\ item[p].state # "ABSENT"
    /\ VerifiableBy(item[p].challenge, item[p].did)
    /\ call' = [call EXCEPT ![v] = [Idle EXCEPT !.step = "claim", !.item = p,
                                                !.version = item[p].version]]
    /\ UNCHANGED <<clock, wallet, key, challenge, item, credential, known, job, running, events, mishaps>>

\* One call claims the presentation, the others end with a replay error. The bound
\* lets a claim become stale.
Claim(v) ==
    /\ call[v].step = "claim"
    /\ clock + Stale <= MaxClock
    /\ LET p == call[v].item IN
       \/ /\ ClaimableAt(p, call[v].version)
          /\ item' = [item EXCEPT ![p].state = "PROCESSING", ![p].started = clock,
                                  ![p].version = @ + 1]
          /\ call' = [call EXCEPT ![v].step = "inspect"]
       \/ /\ ~ClaimableAt(p, call[v].version)
          /\ Ends(v)
          /\ UNCHANGED item
    /\ UNCHANGED <<clock, wallet, key, challenge, credential, known, job, running, events, mishaps>>

\* The readback of the claim, the time and the checks of complete_claimed: the
\* version kept is the one read back, which another claim may have raised.
Inspect(v, intact) ==
    /\ call[v].step = "inspect"
    /\ LET p == call[v].item IN
       call' = [call EXCEPT ![v].step = "complete", ![v].version = item[p].version,
                            ![v].verdict = Verdict(Errors(p, clock, intact))]
    /\ UNCHANGED <<clock, wallet, key, challenge, item, credential, known, job, running, events, mishaps>>

DecisionEvent(verdict) == IF verdict = "NONE" THEN "VERIFIED" ELSE "REJECTED"

\* Variant: the event is recorded although another call has decided.
CompleteReported(v) ==
    /\ call[v].step = "complete"
    /\ LET c == call[v] IN
       /\ item' = IF Completable(c.item, c.version) THEN Completed(c.item, c.verdict) ELSE item
       /\ Record({<<DecisionEvent(c.verdict), c.item>>})
    /\ Ends(v)
    /\ UNCHANGED <<clock, wallet, key, challenge, credential, known, job, running>>

\* complete_verification by the verifier; a call that lost ends with a replay error.
Complete(v) ==
    /\ call[v].step = "complete"
    /\ LET c == call[v] IN
       \/ /\ Completable(c.item, c.version)
          /\ item' = Completed(c.item, c.verdict)
          /\ Record({<<DecisionEvent(c.verdict), c.item>>})
       \/ /\ ~Completable(c.item, c.version)
          /\ UNCHANGED <<item, events, mishaps>>
    /\ Ends(v)
    /\ UNCHANGED <<clock, wallet, key, challenge, credential, known, job, running>>

-----------------------------------------------------------------------------
\* Reconciliation

\* What a reconciler does after presentation p of its batch: the next one, if any.
Next1(r, p) ==
    LET left == job[r].batch \ {p} IN
    IF left = {} THEN NoJob ELSE [NoJob EXCEPT !.step = "read", !.batch = left]
Leave(r, p) == job' = [job EXCEPT ![r] = Next1(r, p)]

\* reconcile_stale: a worker's cycle lists a batch.
OpenCycle(w) ==
    /\ w \in running
    /\ job[w] = NoJob
    /\ \E B \in Batches \ {{}} : job' = [job EXCEPT ![w] = [NoJob EXCEPT !.step = "read", !.batch = B]]
    /\ UNCHANGED <<clock, wallet, key, challenge, item, credential, known, call, running, events, mishaps>>

\* An administrator reconciles one presentation, read by the same step; one that is
\* not being processed is left alone.
OpenReconcile(a, p) ==
    /\ Free(a)
    /\ item[p].state = "PROCESSING"
    /\ item[p].attempts < MaxAttempts
    /\ job' = [job EXCEPT ![a] = [NoJob EXCEPT !.step = "claim", !.batch = {p}, !.item = p,
                                              !.version = item[p].version, !.at = clock]]
    /\ UNCHANGED <<clock, wallet, key, challenge, item, credential, known, call, running, events, mishaps>>

\* reconcile up to the claim: one that is decided, or not being processed, is left alone.
ReadItem(r, p) ==
    /\ job[r].step = "read"
    /\ p \in job[r].batch
    /\ \A q \in job[r].batch : item[p].started <= item[q].started
    /\ IF item[p].state = "PROCESSING"
       THEN job' = [job EXCEPT ![r].step = "claim", ![r].item = p,
                               ![r].version = item[p].version, ![r].at = clock]
       ELSE Leave(r, p)
    /\ UNCHANGED <<clock, wallet, key, challenge, item, credential, known, call, running, events, mishaps>>

\* The claim of a reconciler leaves the time of the first claim as it is.
Reclaim(r) ==
    /\ job[r].step = "claim"
    /\ LET p == job[r].item IN
       \/ /\ ReclaimableAt(p, job[r].version, job[r].at)
          /\ item' = [item EXCEPT ![p].attempts = @ + 1, ![p].reconciled = job[r].at,
                                  ![p].version = @ + 1]
          /\ job' = [job EXCEPT ![r].step = "evidence"]
       \/ /\ ~ReclaimableAt(p, job[r].version, job[r].at)
          /\ Leave(r, p)
          /\ UNCHANGED item
    /\ UNCHANGED <<clock, wallet, key, challenge, credential, known, call, running, events, mishaps>>

\* get_for_reconciliation: the challenge was used by this holder. Unlike a verifier, a
\* reconciler refuses it from the second of its expiry on.
Evident(c, did, at) ==
    /\ challenge[c].status = "CONSUMED"
    /\ challenge[c].requested \in {Anyone, did}
    /\ challenge[c].expires > at

\* The readback of the claim and the evidence around the presentation: the wallet,
\* then its key, then the challenge. A managed key that may not sign raises an error
\* that nothing catches: the call ends, and with it the loop of a worker.
Evidence(r) ==
    /\ job[r].step = "evidence"
    /\ LET p == job[r].item
           d == item[p]
           bound == wallet[d.wallet].did = d.did
           keep(step, verdict) == job' = [job EXCEPT ![r].step = step, ![r].verdict = verdict,
                                                    ![r].version = d.version]
       IN \/ /\ ~bound
             /\ keep("complete", "EVIDENCE_INCOMPLETE")
             /\ UNCHANGED <<known, running>>
          \/ /\ bound /\ ~MaySign(d.wallet, d.did)
             /\ job' = [job EXCEPT ![r] = NoJob]
             /\ running' = running \ {r}
             /\ UNCHANGED known
          \/ /\ bound /\ MaySign(d.wallet, d.did)
             /\ known' = known \cup Seen(d.wallet, d.did)
             /\ IF Evident(d.challenge, d.did, job[r].at)
                THEN keep("inspect", "NONE")
                ELSE keep("complete", "EVIDENCE_INCOMPLETE")
             /\ UNCHANGED running
    /\ UNCHANGED <<clock, wallet, key, challenge, item, credential, call, events, mishaps>>

\* complete_claimed of the stored document, as of the time of the claim.
InspectAgain(r) ==
    /\ job[r].step = "inspect"
    /\ job' = [job EXCEPT ![r].step = "complete",
                          ![r].verdict = Verdict(Errors(job[r].item, job[r].at, TRUE))]
    /\ UNCHANGED <<clock, wallet, key, challenge, item, credential, known, call, running, events, mishaps>>

ReconciliationEvent(verdict) ==
    IF verdict = "EVIDENCE_INCOMPLETE" THEN "RECONCILIATION_FAILED" ELSE "RECONCILED"

\* A reconciler that lost the presentation to another call goes on with its batch.
CompleteAgain(r) ==
    /\ job[r].step = "complete"
    /\ LET p == job[r].item
           verdict == job[r].verdict
       IN \/ /\ Completable(p, job[r].version)
             /\ item' = Completed(p, verdict)
             /\ Record({<<DecisionEvent(verdict), p>>, <<ReconciliationEvent(verdict), p>>})
          \/ /\ ~Completable(p, job[r].version)
             /\ UNCHANGED <<item, events, mishaps>>
    /\ Leave(r, job[r].item)
    /\ UNCHANGED <<clock, wallet, key, challenge, credential, known, call, running>>

-----------------------------------------------------------------------------
\* Wallets, keys, credentials, time and failures

\* lock: only an ACTIVE wallet is locked. disable: from any other status. Both write
\* only over the version they read, so reading and writing are one step.
Close(w, target) ==
    /\ \/ target = "LOCKED" /\ wallet[w].status = "ACTIVE"
       \/ target = "DISABLED" /\ wallet[w].status # "DISABLED"
    /\ wallet' = [wallet EXCEPT ![w].status = target, ![w].version = @ + 1]
    /\ Mishap
    /\ UNCHANGED <<clock, key, challenge, item, credential, known, call, job, running, events>>

\* ManagedKeys: a key is suspended (or revoked, compromised) and may be resumed.
Suspend(w) ==
    /\ key[w]
    /\ key' = [key EXCEPT ![w] = FALSE]
    /\ Mishap
    /\ UNCHANGED <<clock, wallet, challenge, item, credential, known, call, job, running, events>>

Resume(w) ==
    /\ ~key[w]
    /\ key' = [key EXCEPT ![w] = TRUE]
    /\ UNCHANGED <<clock, wallet, challenge, item, credential, known, call, job, running, events, mishaps>>

\* ManagedKeys: a rotation binds an ACTIVE wallet to the successor (update_key_binding).
Rotate(w) ==
    /\ key[w]
    /\ wallet[w].status = "ACTIVE"
    /\ wallet[w].did[2] < MaxRotations
    /\ wallet' = [wallet EXCEPT ![w].did = <<w, @[2] + 1>>, ![w].version = @ + 1]
    /\ Mishap
    /\ UNCHANGED <<clock, key, challenge, item, credential, known, call, job, running, events>>

\* Credentials: a credential is revoked, for good.
Revoke(k) ==
    /\ credential[k].status = "ACTIVE"
    /\ credential' = [credential EXCEPT ![k] = [status |-> "REVOKED", revoked |-> clock]]
    /\ Mishap
    /\ UNCHANGED <<clock, wallet, key, challenge, item, known, call, job, running, events>>

Tick ==
    /\ clock < MaxClock
    /\ clock' = clock + 1
    /\ UNCHANGED <<wallet, key, challenge, item, credential, known, call, job, running, events, mishaps>>

\* A failed database access ends a call; a worker goes on with its batch.
CallFails(x) ==
    /\ call[x] # Idle
    /\ Mishap
    /\ Ends(x)
    /\ UNCHANGED <<clock, wallet, key, challenge, item, credential, known, job, running, events>>

JobFails(r) ==
    /\ job[r].item # None
    /\ Mishap
    /\ Leave(r, job[r].item)
    /\ UNCHANGED <<clock, wallet, key, challenge, item, credential, known, call, running, events>>

\* The process restarts: calls in flight and the local provider's memory are gone.
Restart ==
    /\ Mishap
    /\ call' = [x \in Clients |-> Idle]
    /\ job' = [r \in Reconcilers |-> NoJob]
    /\ running' = Workers
    /\ known' = {}
    /\ UNCHANGED <<clock, wallet, key, challenge, item, credential, events>>

-----------------------------------------------------------------------------
HolderNext(h) ==
    \/ \E w \in Wallets : OpenCreate(h, w)
    \/ \E c \in Challenges : ReadChallenge(h, c)
    \/ \E conflict \in BOOLEAN : Build(h, conflict)
    \/ \E p \in Items : Insert(h, p)
    \/ Consume(h)

VerifierNext(v) ==
    \/ \E p \in Items : OpenVerify(v, p)
    \/ \E intact \in BOOLEAN : Inspect(v, intact)
    \/ Claim(v) \/ Complete(v)

JobStep(r) ==
    \/ \E p \in Items : ReadItem(r, p)
    \/ Reclaim(r) \/ Evidence(r) \/ InspectAgain(r) \/ CompleteAgain(r)

Environment ==
    \/ \E c \in Challenges, did \in Requested : Issue(c, did)
    \/ \E c \in Challenges : ReadOverdue(c)
    \/ \E w \in Wallets, target \in WalletStatus : Close(w, target)
    \/ \E w \in Managed : Suspend(w) \/ Resume(w) \/ Rotate(w)
    \/ \E k \in Credentials : Revoke(k)
    \/ \E x \in Clients : CallFails(x)
    \/ \E r \in Reconcilers : JobFails(r)
    \/ Tick \/ Restart

Next ==
    \/ \E x \in Clients : HolderNext(x) \/ VerifierNext(x)
    \/ \E w \in Workers : OpenCycle(w)
    \/ \E a \in Admins, p \in Items : OpenReconcile(a, p)
    \/ \E r \in Reconcilers : JobStep(r)
    \/ Environment

Spec == Init /\ [][Next]_vars

\* Time passes, and a running worker polls and finishes what it took.
Fairness ==
    /\ WF_vars(Tick)
    /\ \A w \in Workers : WF_vars(OpenCycle(w) \/ JobStep(w))

FairSpec == Spec /\ Fairness

-----------------------------------------------------------------------------
\* Properties

\* Every document has the fields its constructor allows, so it can be read back.
TypeOK ==
    /\ clock \in Now
    /\ wallet \in [Wallets -> WalletDoc]
    /\ Managed \subseteq Wallets /\ key \in [Managed -> BOOLEAN]
    /\ challenge \in [Challenges -> ChallengeDoc]
    /\ item \in [Items -> ItemDoc]
    /\ \A p \in Stored : Consistent(item[p])
    /\ credential \in [Credentials -> CredentialDoc]
    /\ known \subseteq Did
    /\ call \in [Clients -> Call]
    /\ job \in [Reconcilers -> Job]
    /\ running \subseteq Workers
    /\ events \subseteq
            {"CREATED", "VERIFIED", "REJECTED", "RECONCILED", "RECONCILIATION_FAILED"} \X Items
    /\ mishaps \in 0 .. MaxMishaps

\* A challenge gives one presentation: of all calls that consumed it and all
\* presentations made with it there is at most one, whatever failed in between
\* (consume_for_presentation and the insertion after it).
SingleUse ==
    \A c \in Challenges :
        Cardinality({h \in Clients : call[h].step \in {"build", "insert"} /\ call[h].challenge = c}
                        \cup {p \in Stored : item[p].challenge = c}) <= 1

\* The claim that the decision is based on. A reconciler reads its claim back
\* (claim_reconciliation, then get) and may read the version of a later claim, so
\* with several of them it is only known to be the first or a later one.
DecidingClaim(d) == IF d.attempts = 1 THEN d.reconciled ELSE d.started

\* A VERIFIED presentation was in time, and its credentials were not revoked, at the
\* claim it was decided by: what a verifier whose claim was taken over found out
\* before is never stored (complete_claimed).  A presentation may end before its
\* challenge does, so that being in time is more than the check of the challenge.
\* Those of managed wallets are never VERIFIED: the validator asks the process-local
\* provider alone for the key (HolderKeyErrors).
VerifiedAsClaimed ==
    \A p \in Stored : item[p].state = "VERIFIED" =>
        /\ DecidingClaim(item[p]) <= item[p].until
        /\ \A k \in item[p].credentials :
                credential[k].revoked # Never => credential[k].revoked >= DecidingClaim(item[p])

\* A decision in the audit trail is the decision that is stored, even when several
\* calls complete one presentation (the events recorded after complete_verification).
AuditTruthful ==
    \A p \in Items, verdict \in Decided :
        <<verdict, p>> \in events => item[p].state = verdict

IsState(p, states) == item[p].state \in states

\* A presentation whose verifier stopped after its claim is decided in the end, by
\* the verifier or by a worker, as long as the loop of every worker runs
\* (PresentationReconciliationBackgroundService).
EventuallyDecided ==
    \A p \in Items :
        (IsState(p, {"PROCESSING"}) /\ running = Workers)
            ~> (IsState(p, Decided) \/ running # Workers)

=============================================================================
